--------------------------- MODULE DatapathProofs ---------------------------
(***************************************************************************)
(* Proofs about Datapath for every number of applications and observers,   *)
(* every queue size, every echo limit and both ways of learning the ports. *)
(***************************************************************************)
EXTENDS Datapath, ProofLemmas

(***************************************************************************)
(* Helpers of the model.                                                   *)
(***************************************************************************)

\* The greenlets of the connection are distinct from each other and from the
\* greenlets of the applications.
LEMMA GreenletFacts ==
    /\ {"R", "S", "E"} \subseteq Greenlets
    /\ Apps \subseteq Greenlets
    /\ Observers \subseteq Greenlets
    /\ Closing \subseteq Observers
    /\ Observers \subseteq Queues
    /\ "sem" \in Queues
    /\ \A x \in Apps \cup Observers : x \notin {"R", "S", "E", "sem", "none"}
BY ConstantsAssumption DEF Greenlets, Queues

\* The position of an observer in the order of a broadcast is a number.
LEMMA PosInteger == \A o \in Observers : Pos(o) \in Int
<1>1. TAKE o \in Observers
<1>2. \E i \in DOMAIN ObsOrder : ObsOrder[i] = o
  BY <1>1 DEF Observers
<1>3. Pos(o) \in DOMAIN ObsOrder
  BY <1>2 DEF Pos
<1>4. QED
  BY <1>3, ConstantsAssumption

\* Killing a waiter leaves a queue of greenlets.
LEMMA WithoutType ==
    ASSUME NEW G, NEW s \in Seq(G), NEW g
    PROVE  Without(s, g) \in Seq(G)
<1>1. CASE \E i \in DOMAIN s : s[i] = g
  <2> DEFINE k == CHOOSE i \in DOMAIN s : s[i] = g
  <2>1. k \in 1..Len(s)
    BY <1>1
  <2>2. Without(s, g) = SubSeq(s, 1, k - 1) \o SubSeq(s, k + 1, Len(s))
    BY <1>1 DEF Without, RemoveAt
  <2> HIDE DEF k
  <2>3. SubSeq(s, 1, k - 1) \in Seq(G) /\ SubSeq(s, k + 1, Len(s)) \in Seq(G)
    BY <2>1
  <2>4. QED
    BY <2>2, <2>3
<1>2. CASE ~\E i \in DOMAIN s : s[i] = g
  BY <1>2 DEF Without
<1>3. QED
  BY <1>1, <1>2

\* A greenlet that joins a wait queue leaves all of them well formed.
LEMMA AppendType ==
    ASSUME NEW queued \in [Queues -> Seq(Greenlets)], NEW q, NEW g \in Greenlets
    PROVE  [queued EXCEPT ![q] = Append(@, g)] \in [Queues -> Seq(Greenlets)]
<1>1. CASE q \in Queues
  <2>1. Append(queued[q], g) \in Seq(Greenlets)
    BY <1>1
  <2>2. QED
    BY <2>1
<1>2. CASE q \notin Queues
  BY <1>2
<1>3. QED
  BY <1>1, <1>2

\* What a broadcast delivers fits in the queues it delivers to.
LEMMA DeliverType ==
    ASSUME TypeOK,
           NEW g \in Greenlets, NEW event \in Phases \cup {"msg"},
           NEW targets \in SUBSET Observers, NEW woken,
           woken \in Observers => evq[woken] < EventQMax,
           NEW queued \in [Queues -> Seq(Greenlets)],
           Deliver(g, event, targets, woken, queued)
    PROVE  /\ waiters' \in [Queues -> Seq(Greenlets)]
           /\ ev' \in [Greenlets -> Phases \cup {"msg"}]
           /\ todo' \in [Greenlets -> SUBSET Observers]
           /\ evq' \in [Observers -> 0..EventQMax]
           /\ told' \in [Observers -> Seq(Phases)]
<1> DEFINE served == Served(targets, woken)
<1>1. \A o \in served : o \in Observers /\ evq[o] < EventQMax
  <2>1. TAKE o \in served
  <2>2. o \in Observers /\ (o = woken \/ ~Full(o))
    BY PosInteger DEF Served
  <2>3. QED
    BY <2>2, ConstantsAssumption DEF Full, TypeOK
<1>2. evq' \in [Observers -> 0..EventQMax]
  <2>1. evq' = [o \in Observers |-> IF o \in served THEN evq[o] + 1 ELSE evq[o]]
    BY DEF Deliver
  <2> HIDE DEF served
  <2>2. QED
    BY <2>1, <1>1, ConstantsAssumption DEF TypeOK
<1>3. told' \in [Observers -> Seq(Phases)]
  <2>1. told' = [o \in Observers |-> IF o \in served /\ event # "msg"
                                     THEN Append(told[o], event) ELSE told[o]]
    BY DEF Deliver
  <2> HIDE DEF served
  <2>2. QED
    BY <2>1 DEF TypeOK
<1>4. todo' = [todo EXCEPT ![g] = targets \ served]
  BY DEF Deliver
<1>5. waiters' = queued \/ waiters' = [queued EXCEPT ![First(targets \ served)] = Append(@, g)]
  BY DEF Deliver
<1>6. ev' = [ev EXCEPT ![g] = event] \/ ev' = [ev EXCEPT ![g] = "msg"]
  BY DEF Deliver
<1> HIDE DEF served
<1>7. todo' \in [Greenlets -> SUBSET Observers]
  BY <1>4 DEF TypeOK
<1>8. waiters' \in [Queues -> Seq(Greenlets)]
  <2> DEFINE first == First(targets \ served)
  <2>1. waiters' = queued \/ waiters' = [queued EXCEPT ![first] = Append(@, g)]
    BY <1>5
  <2> HIDE DEF first
  <2>2. [queued EXCEPT ![first] = Append(@, g)] \in [Queues -> Seq(Greenlets)]
    BY AppendType
  <2>3. QED
    BY <2>1, <2>2
<1>9. ev' \in [Greenlets -> Phases \cup {"msg"}]
  BY <1>6 DEF TypeOK
<1>10. QED
  BY <1>2, <1>3, <1>7, <1>8, <1>9

-----------------------------------------------------------------------------
(***************************************************************************)
(* The life of the connection: where the greenlets can be in each phase    *)
(* and in each state of the socket.  It rests on no queue, so it is proved *)
(* first and used by the other proofs.                                     *)
(***************************************************************************)
Leaving == {"kill_send", "kill_echo", "join", "close", "shut", "done"}
Inactive == {"close", "shut", "done"}

LifeType ==
    /\ state \in Phases \cup {"none"}
    /\ sock \in {"open", "shut", "closed"}
    /\ active \in BOOLEAN
    /\ pc \in [Greenlets -> Locations]

\* Nobody but the constructor runs before the phase is set.
Begin ==
    /\ state = "none" <=> pc["R"] = "ctor"
    /\ pc["R"] = "ctor" => sock = "open" /\ pc["S"] = "none" /\ pc["E"] = "none"

\* The socket is shut down by a close() or by the end of the receive loop.
Shutting ==
    /\ pc["R"] \in Leaving => sock # "open"
    /\ sock # "open" => state = "dead" \/ pc["R"] \in Leaving
    /\ pc["R"] = "done" => state = "dead"
    /\ \A g \in Greenlets : pc[g] = "shut" => state = "dead"

\* The connection is inactive once both of its other greenlets were joined.
Ending ==
    /\ ~active <=> pc["R"] \in Inactive
    /\ ~active => pc["S"] = "dead" /\ pc["E"] = "dead"
    /\ sock = "closed" => ~active /\ state = "dead"

Life == LifeType /\ Begin /\ Shutting /\ Ending

\* A new connection satisfies the invariant.
LEMMA LifeInit == Init => Life
BY GreenletFacts DEF Init, Life, LifeType, Begin, Shutting, Ending, Leaving, Inactive,
   Locations, Phases

\* close() in a greenlet that runs while the connection exists sets the phase
\* to dead.
LEMMA CloseDead ==
    ASSUME NEW g, NEW queued, Close(g, queued)
    PROVE  state' = "dead"
BY DEF Close

\* Every step keeps the life of the connection in order.
LEMMA LifeStep == Life /\ [Next]_vars => Life'
<1> SUFFICES ASSUME Life, [Next]_vars PROVE Life'
  OBVIOUS
<1> USE GreenletFacts DEF Life, LifeType, Begin, Shutting, Ending, Leaving, Inactive,
        Locations, Phases
<1>1. CASE Construct
  BY <1>1 DEF At, Goto, Construct, SetState
<1>2. CASE Serve
  BY <1>2 DEF At, Serve
<1>3. CASE SpawnEcho
  BY <1>3 DEF At, SpawnEcho
<1>4. CASE Handle
  <2>1. /\ pc["R"] = "handle" /\ UNCHANGED <<sock, active>>
        /\ \/ state' = state
           \/ state' \in {"config", "main"} /\ state \in {"handshake", "config"}
        /\ \/ pc' = [pc EXCEPT !["R"] = "loop"]
           \/ pc' = [pc EXCEPT !["R"] = "request_features"]
    BY <1>4 DEF At, Goto, SetState, Handle, HandleHello, HandleBadHello, HandleFeatures,
       HandlePortDesc, HandleEchoRequest, HandleEchoReply, HandlePortStatus, HandleIgnored
  <2>2. QED
    BY <2>1
<1>5. CASE RequestFeatures
  BY <1>5 DEF At, Goto, RequestFeatures
<1>6. CASE LeaveLoop
  BY <1>6 DEF At, Goto, Shutdown, LeaveLoop
<1>7. CASE KillSend
  <2>1. CASE KillSendNow
    BY <1>7, <2>1 DEF At, KillSend, KillSendNow
  <2>2. CASE KillSendLoop
    <3>1. state' = "dead"
      BY <2>2, CloseDead DEF KillSendLoop, SendFinally
    <3>2. QED
      BY <1>7, <2>2, <3>1 DEF At, KillSend, KillSendLoop
  <2>3. CASE KillInClose("S") /\ pc' = [pc EXCEPT !["R"] = "kill_echo", !["S"] = "dead"]
    BY <1>7, <2>3 DEF At, KillSend, KillInClose, Shutdown
  <2>4. QED
    BY <1>7, <2>1, <2>2, <2>3 DEF KillSend
<1>8. CASE KillEcho
  BY <1>8 DEF At, KillEcho, KillEchoLoop, KillInClose, Shutdown
<1>9. CASE Join
  BY <1>9 DEF At, Goto, Join, Joined
<1>10. CASE FinalClose
  BY <1>10, CloseDead DEF At, Goto, FinalClose
<1>11. CASE \E m \in Messages : RecvMsg(m)
  BY <1>11 DEF At, Goto, RecvMsg
<1>12. CASE SendStart
  <2>1. \/ state' = "dead" /\ pc' = [pc EXCEPT !["S"] = "shut"]
        \/ state' = state /\ pc' = [pc EXCEPT !["S"] = "get"]
    BY <1>12, CloseDead DEF SendStart, SendLoopTop, SendFinally, Goto
  <2>2. QED
    BY <1>12, <2>1 DEF At, SendStart
<1>13. CASE SendGet
  BY <1>13 DEF At, Goto, SendGet
<1>14. CASE SendDone
  <2>1. \/ state' = "dead" /\ pc' = [pc EXCEPT !["S"] = "shut"]
        \/ state' = state /\ pc' = [pc EXCEPT !["S"] = "get"]
    BY <1>14, CloseDead DEF SendDone, SendLoopTop, SendFinally, Goto
  <2>2. QED
    BY <1>14, <2>1 DEF At, SendDone
<1>15. CASE SendFail
  BY <1>15, CloseDead DEF At, Goto, SendFail, SendFinally
<1>16. CASE EchoRequest
  BY <1>16 DEF At, Goto, EchoAwake, EchoRequest
<1>17. CASE EchoStop
  BY <1>17, CloseDead DEF At, Goto, EchoAwake, EchoStop
<1>18. CASE SendResume
  BY <1>18 DEF SendResume
<1>19. CASE \E o \in Observers : BroadcastResume(o)
  BY <1>19 DEF BroadcastResume
<1>20. CASE \E o \in Observers : Observe(o)
  BY <1>20 DEF Observe
<1>21. CASE \E a \in Apps : AppSend(a)
  BY <1>21 DEF AppSend
<1>22. CASE \E a \in Apps \cup Closing : AppClose(a)
  BY <1>22, CloseDead DEF At, Known, Goto, AppClose
<1>23. CASE EndClose("R", "done")
  BY <1>23 DEF At, Goto, Shutdown, EndClose
<1>24. CASE EndClose("S", "dead")
  BY <1>24 DEF At, Goto, Shutdown, EndClose
<1>25. CASE EndClose("E", "dead")
  BY <1>25 DEF At, Goto, Shutdown, EndClose
<1>26. CASE \E a \in Apps \cup Closing : EndClose(a, "run")
  BY <1>26 DEF At, Goto, Shutdown, EndClose
<1>27. CASE Crash
  BY <1>27 DEF Crash, greenletVars
<1>28. CASE Disconnect
  BY <1>28 DEF Disconnect, greenletVars
<1>29. CASE UNCHANGED vars
  BY <1>29 DEF vars
<1>30. QED
  BY <1>1, <1>2, <1>3, <1>4, <1>5, <1>6, <1>7, <1>8, <1>9, <1>10,
     <1>11, <1>12, <1>13, <1>14, <1>15, <1>16, <1>17, <1>18, <1>19, <1>20,
     <1>21, <1>22, <1>23, <1>24, <1>25, <1>26, <1>27, <1>28, <1>29
     DEF Next, RStep, SStep, EStep, RecvStop, RecvRaise

\* The life of every connection is in order.
THEOREM LifeCorrect == Spec => []Life
BY LifeInit, LifeStep, PTL DEF Spec

-----------------------------------------------------------------------------
(***************************************************************************)
(* Types and the slots of the send queue.  The bounds of qlen and sem in   *)
(* TypeOK need SlotsConserved, and SlotsConserved needs the types: the two *)
(* are proved together.                                                    *)
(***************************************************************************)
SlotInv == TypeOK /\ SlotsConserved

WaitType ==
    /\ waiters \in [Queues -> Seq(Greenlets)]
    /\ ev \in [Greenlets -> Phases \cup {"msg"}]
    /\ todo \in [Greenlets -> SUBSET Observers]

EventType ==
    /\ evq \in [Observers -> 0..EventQMax]
    /\ told \in [Observers -> Seq(Phases)]

SlotType ==
    /\ qref \in BOOLEAN
    /\ qlen \in 0..SendQMax
    /\ sem \in 0..SendQMax
    /\ SlotsConserved

RestType ==
    /\ state \in Phases \cup {"none"}
    /\ sock \in {"open", "shut", "closed"}
    /\ active \in BOOLEAN
    /\ unreplied \in 0..(MaxUnreplied + 1)
    /\ features \in BOOLEAN
    /\ cur \in Messages
    /\ pc \in [Greenlets -> Locations]
    /\ peer \in {"up", "crashed", "gone"}

\* The invariant in the parts that the operations change together.
LEMMA SlotInvParts == SlotInv <=> WaitType /\ EventType /\ SlotType /\ RestType
BY DEF SlotInv, TypeOK, WaitType, EventType, SlotType, RestType

\* The same for the next state.
LEMMA SlotInvPartsNext == WaitType' /\ EventType' /\ SlotType' /\ RestType' => SlotInv'
BY DEF SlotInv, TypeOK, WaitType, EventType, SlotType, RestType

\* send_msg takes a slot and fills it, or takes none.
LEMMA SendSlots ==
    ASSUME SlotInv, NEW g \in Greenlets, Send(g)
    PROVE  WaitType' /\ SlotType'
<1> USE ConstantsAssumption, SlotInvParts
<1>1. SlotType'
  <2>1. CASE sem > 0 /\ waiters["sem"] = << >>
    BY <2>1 DEF Send, Enqueue, SlotType, SlotsConserved
  <2>2. CASE ~(sem > 0 /\ waiters["sem"] = << >>)
    BY <2>2 DEF Send, SlotType, SlotsConserved
  <2>3. QED
    BY <2>1, <2>2
<1>2. waiters' = waiters \/ waiters' = [waiters EXCEPT !["sem"] = Append(@, g)]
  BY DEF Send
<1>3. [waiters EXCEPT !["sem"] = Append(@, g)] \in [Queues -> Seq(Greenlets)]
  BY AppendType DEF WaitType
<1>4. QED
  BY <1>1, <1>2, <1>3 DEF Send, WaitType

\* A broadcast changes only the event queues and the waiters.
LEMMA BroadcastSlots ==
    ASSUME SlotInv,
           NEW g \in Greenlets, NEW event \in Phases \cup {"msg"},
           NEW targets \in SUBSET Observers, NEW woken,
           woken \in Observers => evq[woken] < EventQMax,
           NEW queued \in [Queues -> Seq(Greenlets)],
           Deliver(g, event, targets, woken, queued)
    PROVE  WaitType' /\ EventType'
BY DeliverType DEF SlotInv, WaitType, EventType

\* set_state announces a phase.
LEMMA SetStateSlots ==
    ASSUME SlotInv, NEW g \in Greenlets, NEW phase \in Phases, SetState(g, phase)
    PROVE  WaitType' /\ EventType' /\ state' \in Phases
<1>1. Deliver(g, phase, StateObs[phase], "none", waiters) /\ state' = phase
  BY DEF SetState
<1>2. StateObs[phase] \in SUBSET Observers /\ waiters \in [Queues -> Seq(Greenlets)]
  BY ConstantsAssumption, SlotInvParts DEF WaitType
<1>3. QED
  BY <1>1, <1>2, BroadcastSlots, GreenletFacts

\* close() announces death, at most once.
LEMMA CloseSlots ==
    ASSUME SlotInv, NEW g \in Greenlets, NEW queued \in [Queues -> Seq(Greenlets)],
           Close(g, queued)
    PROVE  WaitType' /\ EventType' /\ state' \in Phases \cup {"none"}
<1>1. CASE state # "dead"
  <2>1. Deliver(g, "dead", StateObs["dead"], "none", queued) /\ state' = "dead"
    BY <1>1 DEF Close
  <2>2. StateObs["dead"] \in SUBSET Observers /\ "dead" \in Phases
    BY ConstantsAssumption DEF Phases
  <2>3. QED
    BY <2>1, <2>2, BroadcastSlots, GreenletFacts
<1>2. CASE state = "dead"
  BY <1>2, SlotInvParts DEF Close, WaitType, EventType, RestType
<1>3. QED
  BY <1>1, <1>2

\* The finally clause of the send loop empties the queue and frees its slots.
LEMMA SendFinallySlots ==
    ASSUME SlotInv, NEW queued \in [Queues -> Seq(Greenlets)], SendFinally(queued)
    PROVE  WaitType' /\ EventType' /\ SlotType' /\ state' \in Phases \cup {"none"}
<1>1. Close("S", queued)
  BY DEF SendFinally
<1>2. SlotType'
  <2>1. SlotType
    BY SlotInvParts
  <2>2. qref' = FALSE /\ qlen' = 0 /\ sem' = sem + qlen
    BY DEF SendFinally
  <2>3. qref' \in BOOLEAN
    BY <2>2
  <2>4. qlen' \in 0..SendQMax /\ sem' \in 0..SendQMax /\ sem' + qlen' = SendQMax
    BY <2>1, <2>2, ConstantsAssumption DEF SlotType, SlotsConserved
  <2>5. QED
    BY <2>3, <2>4 DEF SlotType, SlotsConserved
<1>3. QED
  BY <1>1, <1>2, CloseSlots, GreenletFacts

\* Program locations stay program locations.
LEMMA GotoType ==
    ASSUME RestType, NEW g, NEW loc \in Locations, Goto(g, loc)
    PROVE  pc' \in [Greenlets -> Locations]
BY DEF Goto, RestType

\* The finally clause of _deactivate keeps the socket's type.
LEMMA ShutdownType ==
    ASSUME RestType, Shutdown
    PROVE  sock' \in {"open", "shut", "closed"}
BY DEF Shutdown, RestType

\* Steps that change neither a queue nor a waiter.
LEMMA QuietSlots ==
    ASSUME SlotInv, UNCHANGED <<qref, qlen, sem, waiters, ev, todo, evq, told>>
    PROVE  WaitType' /\ EventType' /\ SlotType'
BY SlotInvParts DEF WaitType, EventType, SlotType, SlotsConserved

\* A step of the receive loop's handlers keeps the types and the slots.
LEMMA HandleSlots ==
    ASSUME SlotInv, Handle
    PROVE  SlotInv'
<1> USE GreenletFacts, SlotInvParts, SlotInvPartsNext
<1>1. /\ UNCHANGED <<sock, active, peer>>
      /\ cur' \in Messages
  BY DEF Handle, Messages
<1>2. "loop" \in Locations /\ "request_features" \in Locations
  BY DEF Locations
<1>3. {"config", "main"} \subseteq Phases
  BY DEF Phases
<1>4. CASE HandleHello
  <2>1. WaitType' /\ EventType' /\ state' \in Phases
    BY <1>3, <1>4, SetStateSlots DEF HandleHello
  <2>2. pc' \in [Greenlets -> Locations]
    BY <1>2, <1>4, GotoType DEF HandleHello
  <2>3. SlotType' /\ RestType'
    BY <1>1, <1>4, <2>1, <2>2 DEF HandleHello, SlotType, SlotsConserved, RestType
  <2>4. QED
    BY <2>1, <2>3
<1>5. CASE HandleBadHello
  <2>1. WaitType' /\ SlotType'
    BY <1>5, SendSlots DEF HandleBadHello
  <2>2. pc' \in [Greenlets -> Locations]
    BY <1>2, <1>5, GotoType DEF HandleBadHello
  <2>3. EventType' /\ RestType'
    BY <1>1, <1>5, <2>2 DEF HandleBadHello, EventType, RestType
  <2>4. QED
    BY <2>1, <2>3
<1>6. CASE HandleFeatures
  <2>1. pc' \in [Greenlets -> Locations]
    BY <1>2, <1>6, GotoType DEF HandleFeatures
  <2>2. UNCHANGED unreplied /\ features' = TRUE
    BY <1>6 DEF HandleFeatures
  <2>3. CASE PortDesc
    <3>1. WaitType' /\ SlotType'
      BY <1>6, <2>3, SendSlots DEF HandleFeatures
    <3>2. EventType' /\ UNCHANGED state
      BY <1>6, <2>3 DEF HandleFeatures, EventType
    <3>3. RestType'
      BY <1>1, <2>1, <2>2, <3>2 DEF RestType
    <3>4. QED
      BY <3>1, <3>2, <3>3
  <2>4. CASE ~PortDesc
    <3>1. WaitType' /\ EventType' /\ state' \in Phases
      BY <1>3, <1>6, <2>4, SetStateSlots DEF HandleFeatures
    <3>2. SlotType'
      BY <1>6, <2>4 DEF HandleFeatures, SlotType, SlotsConserved
    <3>3. RestType'
      BY <1>1, <2>1, <2>2, <3>1 DEF RestType
    <3>4. QED
      BY <3>1, <3>2, <3>3
  <2>5. QED
    BY <2>3, <2>4
<1>7. CASE HandlePortDesc
  <2>1. WaitType' /\ EventType' /\ state' \in Phases
    BY <1>3, <1>7, SetStateSlots DEF HandlePortDesc
  <2>2. pc' \in [Greenlets -> Locations]
    BY <1>2, <1>7, GotoType DEF HandlePortDesc
  <2>3. SlotType' /\ RestType'
    BY <1>1, <1>7, <2>1, <2>2 DEF HandlePortDesc, SlotType, SlotsConserved, RestType
  <2>4. QED
    BY <2>1, <2>3
<1>8. CASE HandleEchoRequest
  <2>1. WaitType' /\ SlotType'
    BY <1>8, SendSlots DEF HandleEchoRequest
  <2>2. pc' \in [Greenlets -> Locations]
    BY <1>2, <1>8, GotoType DEF HandleEchoRequest
  <2>3. EventType' /\ RestType'
    BY <1>1, <1>8, <2>2 DEF HandleEchoRequest, EventType, RestType
  <2>4. QED
    BY <2>1, <2>3
<1>9. CASE HandleEchoReply
  <2>1. WaitType' /\ EventType' /\ SlotType'
    BY <1>9, QuietSlots DEF HandleEchoReply
  <2>2. pc' \in [Greenlets -> Locations]
    BY <1>2, <1>9, GotoType DEF HandleEchoReply
  <2>3. unreplied' \in 0..(MaxUnreplied + 1)
    BY <1>9, ConstantsAssumption DEF HandleEchoReply, RestType
  <2>4. RestType'
    BY <1>1, <1>9, <2>2, <2>3 DEF HandleEchoReply, RestType
  <2>5. QED
    BY <2>1, <2>4
<1>10. CASE HandlePortStatus
  <2>1. MsgObs["main"] \in SUBSET Observers /\ waiters \in [Queues -> Seq(Greenlets)]
    BY <1>3, ConstantsAssumption DEF WaitType
  <2>2. WaitType' /\ EventType'
    BY <1>10, <2>1, BroadcastSlots DEF HandlePortStatus
  <2>3. pc' \in [Greenlets -> Locations]
    BY <1>2, <1>10, GotoType DEF HandlePortStatus
  <2>4. SlotType' /\ RestType'
    BY <1>1, <1>10, <2>3 DEF HandlePortStatus, SlotType, SlotsConserved, RestType
  <2>5. QED
    BY <2>2, <2>4
<1>11. CASE HandleIgnored
  <2>1. WaitType' /\ EventType' /\ SlotType'
    BY <1>11, QuietSlots DEF HandleIgnored
  <2>2. pc' \in [Greenlets -> Locations]
    BY <1>2, <1>11, GotoType DEF HandleIgnored
  <2>3. RestType'
    BY <1>1, <1>11, <2>2 DEF HandleIgnored, RestType
  <2>4. QED
    BY <2>1, <2>3
<1>12. QED
  BY <1>4, <1>5, <1>6, <1>7, <1>8, <1>9, <1>10, <1>11 DEF Handle

\* Greenlets that are killed leave well formed queues behind.
LEMMA UnqueuedType ==
    ASSUME WaitType, NEW g
    PROVE  Unqueued(g) \in [Queues -> Seq(Greenlets)]
<1>1. \A q \in Queues : Without(waiters[q], g) \in Seq(Greenlets)
  BY WithoutType DEF WaitType
<1>2. QED
  BY <1>1 DEF Unqueued

\* A greenlet killed in close() leaves the send queue alone.
LEMMA KillInCloseSlots ==
    ASSUME SlotInv, NEW g, KillInClose(g)
    PROVE  WaitType' /\ EventType' /\ SlotType'
<1>1. WaitType /\ EventType /\ SlotType
  BY SlotInvParts
<1>2. waiters' \in [Queues -> Seq(Greenlets)]
  BY <1>1, UnqueuedType DEF KillInClose
<1>3. ev' \in [Greenlets -> Phases \cup {"msg"}] /\ todo' \in [Greenlets -> SUBSET Observers]
  BY <1>1 DEF KillInClose, WaitType
<1>4. QED
  BY <1>1, <1>2, <1>3 DEF KillInClose, WaitType, EventType, SlotType, SlotsConserved


\* The top of the send loop: the next message or the finally clause.
LEMMA SendLoopTopSlots ==
    ASSUME SlotInv, SendLoopTop, UNCHANGED <<sock, active, unreplied, features, cur, peer>>
    PROVE  SlotInv'
<1> USE SlotInvParts, SlotInvPartsNext
<1>0. WaitType /\ EventType /\ SlotType /\ RestType /\ {"get", "shut"} \subseteq Locations
  BY DEF Locations
<1>1. CASE state = "dead"
  <2>1. SendFinally(waiters) /\ Goto("S", "shut")
    BY <1>1 DEF SendLoopTop
  <2>2. WaitType' /\ EventType' /\ SlotType' /\ state' \in Phases \cup {"none"}
    BY <1>0, <2>1, SendFinallySlots DEF WaitType
  <2>3. RestType'
    BY <1>0, <2>1, <2>2, GotoType DEF RestType
  <2>4. QED
    BY <2>2, <2>3
<1>2. CASE state # "dead"
  <2>1. /\ Goto("S", "get")
        /\ UNCHANGED <<state, qref, qlen, sem, waiters, ev, todo, evq, told>>
    BY <1>2 DEF SendLoopTop
  <2>2. WaitType' /\ EventType' /\ SlotType'
    BY <2>1, QuietSlots
  <2>3. RestType'
    BY <1>0, <2>1, GotoType DEF RestType
  <2>4. QED
    BY <2>2, <2>3
<1>3. QED
  BY <1>1, <1>2

\* Every step keeps the types, and what it takes from the send queue it gives
\* back.
LEMMA SlotInvStep == SlotInv /\ Life /\ [Next]_vars => SlotInv'
<1> SUFFICES ASSUME SlotInv, Life, [Next]_vars PROVE SlotInv'
  OBVIOUS
<1> USE GreenletFacts, SlotInvParts, SlotInvPartsNext
<1>0. /\ WaitType /\ EventType /\ SlotType /\ RestType
      /\ waiters \in [Queues -> Seq(Greenlets)]
  BY DEF WaitType
<1>1. {"serve", "spawn_echo", "loop", "handle", "request_features", "kill_send",
       "kill_echo", "join", "close", "shut", "done", "spawned", "get", "sendall",
       "dead", "sleep", "run"} \subseteq Locations
  BY DEF Locations
<1>2. "handshake" \in Phases /\ "msg" \in Phases \cup {"msg"}
  BY DEF Phases
<1>3. CASE Construct
  <2>1. WaitType' /\ EventType' /\ state' \in Phases
    BY <1>2, <1>3, SetStateSlots DEF Construct
  <2>2. pc' \in [Greenlets -> Locations]
    BY <1>0, <1>1, <1>3, GotoType DEF Construct
  <2>3. SlotType'
    BY <1>0, <1>3 DEF Construct, SlotType, SlotsConserved
  <2>4. RestType'
    BY <1>0, <1>3, <2>1, <2>2 DEF Construct, RestType
  <2>5. QED
    BY <2>1, <2>2, <2>3, <2>4
<1>4. CASE Serve
  <2>1. WaitType' /\ SlotType'
    BY <1>4, SendSlots DEF Serve
  <2>2. pc' \in [Greenlets -> Locations]
    BY <1>0, <1>1, <1>4 DEF Serve, RestType
  <2>3. EventType'
    BY <1>0, <1>4 DEF Serve, EventType
  <2>4. RestType'
    BY <1>0, <1>4, <2>2 DEF Serve, RestType
  <2>5. QED
    BY <2>1, <2>2, <2>3, <2>4
<1>5. CASE SpawnEcho
  <2>1. WaitType' /\ EventType' /\ SlotType'
    BY <1>5, QuietSlots DEF SpawnEcho
  <2>2. pc' \in [Greenlets -> Locations]
    BY <1>0, <1>1, <1>5 DEF SpawnEcho, RestType
  <2>3. RestType'
    BY <1>0, <1>5, <2>2 DEF SpawnEcho, RestType
  <2>4. QED
    BY <2>1, <2>2, <2>3
<1>6. CASE Handle
  BY <1>6, HandleSlots
<1>7. CASE RequestFeatures
  <2>1. WaitType' /\ SlotType'
    BY <1>7, SendSlots DEF RequestFeatures
  <2>2. pc' \in [Greenlets -> Locations]
    BY <1>0, <1>1, <1>7, GotoType DEF RequestFeatures
  <2>3. EventType'
    BY <1>0, <1>7 DEF RequestFeatures, EventType
  <2>4. RestType'
    BY <1>0, <1>7, <2>2 DEF RequestFeatures, RestType
  <2>5. QED
    BY <2>1, <2>2, <2>3, <2>4
<1>8. CASE LeaveLoop
  <2>1. WaitType' /\ EventType' /\ SlotType'
    BY <1>8, QuietSlots DEF LeaveLoop
  <2>2. pc' \in [Greenlets -> Locations]
    BY <1>0, <1>1, <1>8, GotoType DEF LeaveLoop
  <2>3. sock' \in {"open", "shut", "closed"}
    BY <1>0, <1>8, ShutdownType DEF LeaveLoop
  <2>4. RestType'
    BY <1>0, <1>8, <2>2, <2>3 DEF LeaveLoop, RestType
  <2>5. QED
    BY <2>1, <2>2, <2>3, <2>4
<1>9. CASE KillSend
  <2>1. UNCHANGED <<active, unreplied, features, cur, peer>>
    BY <1>9 DEF KillSend
  <2>2. CASE KillSendNow
    <3>1. WaitType' /\ EventType' /\ SlotType'
      BY <2>2, QuietSlots DEF KillSendNow
    <3>2. pc' \in [Greenlets -> Locations]
      BY <1>0, <1>1, <2>2 DEF KillSendNow, RestType
    <3>3. RestType'
      BY <1>0, <2>1, <2>2, <3>2 DEF KillSendNow, RestType
    <3>4. QED
      BY <3>1, <3>3
  <2>3. CASE KillSendLoop
    <3>1. WaitType' /\ EventType' /\ SlotType' /\ state' \in Phases \cup {"none"}
      BY <1>0, <2>3, SendFinallySlots DEF KillSendLoop
    <3>2. pc' \in [Greenlets -> Locations]
      BY <1>0, <1>1, <2>3 DEF KillSendLoop, RestType
    <3>3. RestType'
      BY <1>0, <2>1, <2>3, <3>1, <3>2 DEF KillSendLoop, RestType
    <3>4. QED
      BY <3>1, <3>3
  <2>4. CASE KillInClose("S") /\ pc' = [pc EXCEPT !["R"] = "kill_echo", !["S"] = "dead"]
    <3>1. WaitType' /\ EventType' /\ SlotType'
      BY <2>4, KillInCloseSlots
    <3>2. pc' \in [Greenlets -> Locations]
      BY <1>0, <1>1, <2>4 DEF RestType
    <3>3. sock' \in {"open", "shut", "closed"} /\ UNCHANGED state
      BY <1>0, <2>4, ShutdownType DEF KillInClose
    <3>4. RestType'
      BY <1>0, <2>1, <3>2, <3>3 DEF RestType
    <3>5. QED
      BY <3>1, <3>4
  <2>5. QED
    BY <1>9, <2>2, <2>3, <2>4 DEF KillSend
<1>10. CASE KillEcho
  <2>1. UNCHANGED <<active, unreplied, features, cur, peer>>
    BY <1>10 DEF KillEcho
  <2>2. pc' \in [Greenlets -> Locations]
    BY <1>0, <1>1, <1>10 DEF KillEcho, RestType
  <2>3. CASE KillEchoLoop
    <3>1. waiters' \in [Queues -> Seq(Greenlets)]
      BY <1>0, <2>3, UnqueuedType DEF KillEchoLoop
    <3>2. WaitType' /\ EventType' /\ SlotType'
      BY <1>0, <2>3, <3>1 DEF KillEchoLoop, WaitType, EventType, SlotType, SlotsConserved
    <3>3. RestType'
      BY <1>0, <2>1, <2>2, <2>3 DEF KillEchoLoop, RestType
    <3>4. QED
      BY <3>2, <3>3
  <2>4. CASE KillInClose("E")
    <3>1. WaitType' /\ EventType' /\ SlotType'
      BY <2>4, KillInCloseSlots
    <3>2. sock' \in {"open", "shut", "closed"} /\ UNCHANGED state
      BY <1>0, <2>4, ShutdownType DEF KillInClose
    <3>3. RestType'
      BY <1>0, <2>1, <2>2, <3>2 DEF RestType
    <3>4. QED
      BY <3>1, <3>3
  <2>5. QED
    BY <1>10, <2>3, <2>4 DEF KillEcho
<1>11. CASE Join
  <2>1. WaitType' /\ EventType' /\ SlotType'
    BY <1>11, QuietSlots DEF Join
  <2>2. pc' \in [Greenlets -> Locations]
    BY <1>0, <1>1, <1>11, GotoType DEF Join
  <2>3. RestType'
    BY <1>0, <1>11, <2>2 DEF Join, RestType
  <2>4. QED
    BY <2>1, <2>2, <2>3
<1>12. CASE FinalClose
  <2>1. WaitType' /\ EventType' /\ state' \in Phases \cup {"none"}
    BY <1>0, <1>12, CloseSlots DEF FinalClose
  <2>2. pc' \in [Greenlets -> Locations]
    BY <1>0, <1>1, <1>12, GotoType DEF FinalClose
  <2>3. SlotType'
    BY <1>0, <1>12 DEF FinalClose, SlotType, SlotsConserved
  <2>4. RestType'
    BY <1>0, <1>12, <2>1, <2>2 DEF FinalClose, RestType
  <2>5. QED
    BY <2>1, <2>2, <2>3, <2>4
<1>13. CASE \E m \in Messages : RecvMsg(m)
  <2>1. PICK m \in Messages : RecvMsg(m)
    BY <1>13
  <2>2. MsgObs[state] \in SUBSET Observers
    <3>1. pc["R"] = "loop"
      BY <2>1 DEF RecvMsg, At
    <3>2. state \in Phases
      BY <3>1 DEF Life, LifeType, Begin
    <3>3. QED
      BY <3>2, ConstantsAssumption
  <2>3. WaitType' /\ EventType'
    BY <1>0, <1>2, <2>1, <2>2, BroadcastSlots DEF RecvMsg
  <2>4. pc' \in [Greenlets -> Locations]
    BY <1>0, <1>1, <2>1, GotoType DEF RecvMsg
  <2>5. SlotType' /\ RestType'
    BY <1>0, <2>1, <2>4 DEF RecvMsg, SlotType, SlotsConserved, RestType
  <2>6. QED
    BY <2>3, <2>5
<1>14. CASE SendStart
  <2>1. SendLoopTop /\ UNCHANGED <<sock, active, unreplied, features, cur, peer>>
    BY <1>14 DEF SendStart
  <2>2. QED
    BY <2>1, SendLoopTopSlots
<1>15. CASE SendGet
  <2>1. SlotType'
    BY <1>0, <1>15, ConstantsAssumption DEF SendGet, SlotType, SlotsConserved
  <2>2. pc' \in [Greenlets -> Locations]
    BY <1>0, <1>1, <1>15, GotoType DEF SendGet
  <2>3. WaitType' /\ EventType' /\ RestType'
    BY <1>0, <1>15, <2>2 DEF SendGet, WaitType, EventType, RestType
  <2>4. QED
    BY <2>1, <2>2, <2>3
<1>16. CASE SendDone
  <2>1. SendLoopTop /\ UNCHANGED <<sock, active, unreplied, features, cur, peer>>
    BY <1>16 DEF SendDone
  <2>2. QED
    BY <2>1, SendLoopTopSlots
<1>17. CASE SendFail
  <2>1. WaitType' /\ EventType' /\ SlotType' /\ state' \in Phases \cup {"none"}
    BY <1>0, <1>17, SendFinallySlots DEF SendFail
  <2>2. pc' \in [Greenlets -> Locations]
    BY <1>0, <1>1, <1>17, GotoType DEF SendFail
  <2>3. RestType'
    BY <1>0, <1>17, <2>1, <2>2 DEF SendFail, RestType
  <2>4. QED
    BY <2>1, <2>2, <2>3
<1>18. CASE EchoRequest
  <2>1. WaitType' /\ SlotType'
    BY <1>18, SendSlots DEF EchoRequest
  <2>2. pc' \in [Greenlets -> Locations]
    BY <1>0, <1>1, <1>18, GotoType DEF EchoRequest
  <2>3. unreplied' \in 0..(MaxUnreplied + 1)
    BY <1>0, <1>18, ConstantsAssumption DEF EchoRequest, EchoMayRequest, RestType
  <2>4. EventType' /\ RestType'
    BY <1>0, <1>18, <2>2, <2>3 DEF EchoRequest, EventType, RestType
  <2>5. QED
    BY <2>1, <2>2, <2>3, <2>4
<1>19. CASE EchoStop
  <2>1. UNCHANGED <<sock, active, qref, qlen, sem, unreplied, features, cur, peer>>
    BY <1>19 DEF EchoStop
  <2>2. pc' \in [Greenlets -> Locations]
    BY <1>0, <1>1, <1>19, GotoType DEF EchoStop
  <2>3. WaitType' /\ EventType' /\ state' \in Phases \cup {"none"}
    <3>1. CASE MaxUnreplied = 0
      BY <1>0, <1>19, <3>1 DEF EchoStop, WaitType, EventType, RestType
    <3>2. CASE MaxUnreplied # 0
      BY <1>0, <1>19, <3>2, CloseSlots DEF EchoStop
    <3>3. QED
      BY <3>1, <3>2
  <2>4. SlotType' /\ RestType'
    BY <1>0, <2>1, <2>2, <2>3 DEF SlotType, SlotsConserved, RestType
  <2>5. QED
    BY <2>3, <2>4
<1>20. CASE SendResume
  <2>1. SlotType'
    BY <1>0, <1>20, ConstantsAssumption DEF SendResume, Enqueue, SlotType, SlotsConserved
  <2>2. WaitType'
    <3>1. Tail(waiters["sem"]) \in Seq(Greenlets)
      BY <1>0, <1>20 DEF SendResume
    <3>2. QED
      BY <1>0, <1>20, <3>1 DEF SendResume, WaitType
  <2>3. EventType' /\ RestType'
    BY <1>0, <1>20 DEF SendResume, EventType, RestType
  <2>4. QED
    BY <2>1, <2>2, <2>3
<1>21. CASE \E o \in Observers : BroadcastResume(o)
  <2>1. PICK o \in Observers : BroadcastResume(o)
    BY <1>21
  <2> DEFINE g == Head(waiters[o])
             queued == [waiters EXCEPT ![o] = Tail(@)]
  <2>2. Deliver(g, ev[g], todo[g], o, queued) /\ evq[o] < EventQMax
    BY <2>1 DEF BroadcastResume
  <2>3. waiters[o] \in Seq(Greenlets) /\ waiters[o] # << >>
    BY <1>0, <2>1 DEF BroadcastResume
  <2>4. g \in Greenlets /\ queued \in [Queues -> Seq(Greenlets)]
    BY <1>0, <2>3
  <2> HIDE DEF g, queued
  <2>5. ev[g] \in Phases \cup {"msg"} /\ todo[g] \in SUBSET Observers
    BY <1>0, <2>4 DEF WaitType
  <2>6. WaitType' /\ EventType'
    BY <2>2, <2>4, <2>5, BroadcastSlots
  <2>7. SlotType' /\ RestType'
    BY <1>0, <2>1 DEF BroadcastResume, SlotType, SlotsConserved, RestType
  <2>8. QED
    BY <2>6, <2>7
<1>22. CASE \E o \in Observers : Observe(o)
  <2>1. PICK o \in Observers : Observe(o)
    BY <1>22
  <2>2. EventType'
    BY <1>0, <2>1, ConstantsAssumption DEF Observe, EventType
  <2>3. WaitType' /\ SlotType'
    <3>1. CASE Send(o)
      BY <3>1, SendSlots
    <3>2. CASE UNCHANGED <<qref, qlen, sem, waiters, ev, todo>>
      BY <1>0, <3>2 DEF WaitType, SlotType, SlotsConserved
    <3>3. QED
      BY <2>1, <3>1, <3>2 DEF Observe
  <2>4. RestType'
    BY <1>0, <2>1 DEF Observe, RestType
  <2>5. QED
    BY <2>2, <2>3, <2>4
<1>23. CASE \E a \in Apps : AppSend(a)
  <2>1. PICK a \in Apps : AppSend(a)
    BY <1>23
  <2>2. WaitType' /\ SlotType'
    BY <2>1, SendSlots DEF AppSend
  <2>3. EventType' /\ RestType'
    BY <1>0, <2>1 DEF AppSend, EventType, RestType
  <2>4. QED
    BY <2>2, <2>3
<1>24. CASE \E a \in Apps \cup Closing : AppClose(a)
  <2>1. PICK a \in Apps \cup Closing : AppClose(a)
    BY <1>24
  <2>2. WaitType' /\ EventType' /\ state' \in Phases \cup {"none"}
    BY <1>0, <2>1, CloseSlots DEF AppClose
  <2>3. pc' \in [Greenlets -> Locations]
    BY <1>0, <1>1, <2>1, GotoType DEF AppClose
  <2>4. SlotType' /\ RestType'
    BY <1>0, <2>1, <2>2, <2>3 DEF AppClose, SlotType, SlotsConserved, RestType
  <2>5. QED
    BY <2>2, <2>4
<1>25. CASE \/ EndClose("R", "done") \/ EndClose("S", "dead") \/ EndClose("E", "dead")
           \/ \E a \in Apps \cup Closing : EndClose(a, "run")
  <2>1. PICK g \in Greenlets, next \in Locations : EndClose(g, next)
    BY <1>1, <1>25
  <2>2. WaitType' /\ EventType' /\ SlotType'
    BY <2>1, QuietSlots DEF EndClose
  <2>3. pc' \in [Greenlets -> Locations] /\ sock' \in {"open", "shut", "closed"}
    BY <1>0, <2>1, GotoType, ShutdownType DEF EndClose
  <2>4. RestType'
    BY <1>0, <2>1, <2>3 DEF EndClose, RestType
  <2>5. QED
    BY <2>2, <2>4
<1>26. CASE Crash
  BY <1>0, <1>26 DEF Crash, sendVars, greenletVars, eventVars, WaitType, EventType,
     SlotType, SlotsConserved, RestType
<1>27. CASE Disconnect
  BY <1>0, <1>27 DEF Disconnect, sendVars, greenletVars, eventVars, WaitType, EventType,
     SlotType, SlotsConserved, RestType
<1>28. CASE UNCHANGED vars
  BY <1>0, <1>28 DEF vars, WaitType, EventType, SlotType, SlotsConserved, RestType
<1>29. QED
  BY <1>3, <1>4, <1>5, <1>6, <1>7, <1>8, <1>9, <1>10, <1>11, <1>12,
     <1>13, <1>14, <1>15, <1>16, <1>17, <1>18, <1>19, <1>20, <1>21, <1>22,
     <1>23, <1>24, <1>25, <1>26, <1>27, <1>28
     DEF Next, RStep, SStep, EStep, RecvStop, RecvRaise

\* A new connection has an empty send queue and all of its slots.
LEMMA SlotInvInit == Init => SlotInv
<1> SUFFICES ASSUME Init PROVE SlotInv
  OBVIOUS
<1> USE SlotInvParts DEF Init
<1>1. WaitType /\ EventType
  BY ConstantsAssumption DEF WaitType, EventType
<1>2. SlotType
  BY ConstantsAssumption DEF SlotType, SlotsConserved
<1>3. pc \in [Greenlets -> Locations]
  BY DEF Locations
<1>4. RestType
  <2>1. active \in BOOLEAN /\ features \in BOOLEAN
    OBVIOUS
  <2>2. unreplied \in 0..(MaxUnreplied + 1)
    BY ConstantsAssumption
  <2>3. QED
    BY <1>3, <2>1, <2>2 DEF RestType, Messages
<1>5. QED
  BY <1>1, <1>2, <1>4

(***************************************************************************)
(* The theorems.                                                           *)
(***************************************************************************)

\* Every variable of every connection keeps its type; in particular the send
\* queue never holds more than its maxsize and no event queue overflows.
THEOREM TypeCorrect == Spec => []TypeOK
<1>1. Spec => []SlotInv
  BY LifeCorrect, SlotInvInit, SlotInvStep, PTL DEF Spec
<1>2. SlotInv => TypeOK
  BY DEF SlotInv
<1>3. QED
  BY <1>1, <1>2, PTL

\* No slot of the send queue is lost or released twice, whoever is killed.
THEOREM SlotsCorrect == Spec => []SlotsConserved
<1>1. Spec => []SlotInv
  BY LifeCorrect, SlotInvInit, SlotInvStep, PTL DEF Spec
<1>2. SlotInv => SlotsConserved
  BY DEF SlotInv
<1>3. QED
  BY <1>1, <1>2, PTL

\* Nobody uses the socket of a connection after it was closed.
THEOREM SocketCorrect == Spec => []SocketClosedLast
<1>1. Life => SocketClosedLast
  BY DEF Life, Ending, SocketClosedLast
<1>2. QED
  BY <1>1, LifeCorrect, PTL

\* The connection implements the abstract life of a connection: whoever closes
\* it and whenever, the phases only move forward, dead is final, and nothing
\* negotiates on a socket that was shut down.
THEOREM NegotiationCorrect == Spec => ImplementsNegotiation
<1>1. Init => Abstract!Init
  BY DEF Init, Abstract!Init
<1>2. Life /\ [Next]_vars => [Abstract!Next]_(Abstract!vars)
  <2> SUFFICES ASSUME Life, [Next]_vars PROVE [Abstract!Next]_(Abstract!vars)
    OBVIOUS
  <2> USE GreenletFacts DEF Life, LifeType, Begin, Shutting, Ending, Leaving, Inactive,
          Phases, Abstract!vars, Abstract!Next, Abstract!Advance, Abstract!Die,
          Abstract!ShutDown, Abstract!Release
  <2>1. CASE Construct
    BY <2>1 DEF At, Construct, SetState
  <2>2. CASE Handle
    <3>1. /\ pc["R"] = "handle" /\ UNCHANGED sock
          /\ \/ state' = state
             \/ state = "handshake" /\ state' = "config"
             \/ state = "config" /\ state' = "main"
      BY <2>2 DEF At, SetState, Handle, HandleHello, HandleBadHello, HandleFeatures,
         HandlePortDesc, HandleEchoRequest, HandleEchoReply, HandlePortStatus, HandleIgnored
    <3>2. QED
      BY <3>1
  <2>3. CASE \/ Serve \/ SpawnEcho \/ RequestFeatures \/ Join \/ SendGet \/ EchoRequest \/ SendResume
    BY <2>3 DEF Serve, SpawnEcho, RequestFeatures, Join, SendGet, EchoRequest, SendResume
  <2>4. CASE LeaveLoop
    BY <2>4 DEF At, Shutdown, LeaveLoop
  <2>5. CASE KillSend
    BY <2>5 DEF At, KillSend, KillSendNow, KillSendLoop, KillInClose, SendFinally, Close, Shutdown
  <2>6. CASE KillEcho
    BY <2>6 DEF At, KillEcho, KillEchoLoop, KillInClose, Shutdown
  <2>7. CASE FinalClose
    BY <2>7 DEF At, FinalClose, Close
  <2>8. CASE \E m \in Messages : RecvMsg(m)
    BY <2>8 DEF RecvMsg
  <2>9. CASE SendStart \/ SendDone \/ SendFail
    BY <2>9 DEF At, SendStart, SendDone, SendFail, SendLoopTop, SendFinally, Close
  <2>10. CASE EchoStop
    BY <2>10 DEF At, EchoAwake, EchoStop, Close
  <2>11. CASE \E o \in Observers : BroadcastResume(o) \/ Observe(o)
    BY <2>11 DEF BroadcastResume, Observe
  <2>12. CASE (\E a \in Apps : AppSend(a)) \/ \E a \in Apps \cup Closing : AppClose(a)
    BY <2>12 DEF Known, AppSend, AppClose, Close
  <2>13. CASE \/ EndClose("R", "done") \/ EndClose("S", "dead") \/ EndClose("E", "dead")
            \/ \E a \in Apps \cup Closing : EndClose(a, "run")
    BY <2>13 DEF At, Shutdown, EndClose
  <2>14. CASE Crash \/ Disconnect \/ UNCHANGED vars
    BY <2>14 DEF Crash, Disconnect, vars
  <2>15. QED
    BY <2>1, <2>2, <2>3, <2>4, <2>5, <2>6, <2>7, <2>8,
       <2>9, <2>10, <2>11, <2>12, <2>13, <2>14
       DEF Next, RStep, SStep, EStep, RecvStop, RecvRaise
<1>3. QED
  BY <1>1, <1>2, LifeCorrect, PTL DEF Spec, ImplementsNegotiation, Abstract!Spec

-----------------------------------------------------------------------------
(***************************************************************************)
(* The order of phase events.  A broadcast that is not finished waits at   *)
(* the first observer it has not served.  There are at most two unfinished *)
(* phase broadcasts: one of the receive loop and one of close(), which     *)
(* comes later and goes by the same observers, so that it waits behind the *)
(* first wherever it meets it.                                             *)
(***************************************************************************)

\* Every observer of a phase observes the dead phase too.
DeadObserved == \A p \in Phases : StateObs[p] \subseteq StateObs["dead"]

\* The greenlet g waits at no observer, or at the one its broadcast is to
\* serve next.
QueueOK(g) ==
    /\ todo[g] # {} => Holds(waiters[First(todo[g])], g)
    /\ \A q \in Observers : /\ Unique(waiters[q], g)
                            /\ Holds(waiters[q], g) => todo[g] # {} /\ q = First(todo[g])
    /\ todo[g] = {} => ev[g] = "msg"
    /\ todo[g] # {} => g = "R" \/ pc[g] = "shut"

Queueing == \A g \in Greenlets : QueueOK(g)

\* The receive loop announces phases, others the dead phase only, and once.
Announcing ==
    \A g \in Greenlets :
        ev[g] # "msg" => /\ g = "R" \/ ev[g] = "dead"
                         /\ todo[g] \subseteq StateObs[ev[g]]
                         /\ state # "none" /\ Rank(ev[g]) <= Rank(state)
                         /\ \A h \in Greenlets : ev[g] = "dead" /\ ev[h] = "dead" => g = h

\* All phases in s come before the phase p.
Before(s, p) == \A i \in 1 .. Len(s) : Rank(s[i]) < Rank(p)

Increasing(s) == \A i, j \in 1 .. Len(s) : i < j => Rank(s[i]) < Rank(s[j])

\* An observer was told of phases that came, in their order, and before those
\* that it is still to be told of.
ToldInv ==
    \A o \in Observers :
        /\ Increasing(told[o])
        /\ \A i \in 1 .. Len(told[o]) : state # "none" /\ Rank(told[o][i]) <= Rank(state)
        /\ \A g \in Greenlets : o \in todo[g] /\ ev[g] # "msg" => Before(told[o], ev[g])

\* close() in another greenlet serves nobody before the receive loop does that
\* has an earlier phase to announce.
DeadLast ==
    \A g \in Greenlets \ {"R"} : ev[g] = "dead" /\ ev["R"] # "msg" =>
        /\ todo["R"] \subseteq todo[g]
        /\ \A q \in Observers : Behind(waiters[q], g, "R")

\* The send and the echo loop do not run before serve() spawned them.
Spawning ==
    /\ pc["R"] \in {"ctor", "serve"} => pc["S"] = "none"
    /\ pc["R"] \in {"ctor", "serve", "spawn_echo"} => pc["E"] = "none"

OrderInv == Queueing /\ Announcing /\ ToldInv /\ DeadLast

BaseType == WaitType /\ EventType /\ RestType

\* The position of an observer, and the first of some observers.
LEMMA PosFacts ==
    \A o, p \in Observers : /\ Pos(o) \in 1 .. Len(ObsOrder)
                            /\ Pos(o) = Pos(p) => o = p
<1>1. ASSUME NEW o \in Observers
      PROVE  Pos(o) \in DOMAIN ObsOrder /\ ObsOrder[Pos(o)] = o
  <2>1. \E i \in DOMAIN ObsOrder : ObsOrder[i] = o
    BY DEF Observers
  <2>2. QED
    BY <2>1 DEF Pos
<1>2. DOMAIN ObsOrder = 1 .. Len(ObsOrder)
  BY ConstantsAssumption
<1>3. QED
  BY <1>1, <1>2

\* There is a first one of any observers.
LEMMA FirstFacts ==
    ASSUME NEW S \in SUBSET Observers, S # {}
    PROVE  First(S) \in S /\ \A p \in S : Pos(First(S)) <= Pos(p)
<1> DEFINE T == {0 - Pos(o) : o \in S}
<1>1. Len(ObsOrder) \in Nat
  BY ConstantsAssumption
<1>2. T \in SUBSET ((0 - Len(ObsOrder)) .. 0)
  BY <1>1, PosFacts
<1>3. IsFiniteSet(T)
  <2>1. 0 - Len(ObsOrder) \in Int /\ 0 \in Int
    BY <1>1
  <2>2. IsFiniteSet((0 - Len(ObsOrder)) .. 0)
    BY <2>1, FS_Interval
  <2> HIDE DEF T
  <2>3. QED
    BY <1>2, <2>2, FS_Subset
<1>4. T # {} /\ T \in SUBSET Int
  BY <1>2
<1>5. PICK x \in T : \A y \in T : x >= y
  BY <1>3, <1>4, MaxExists
<1>6. PICK o \in S : x = 0 - Pos(o)
  BY <1>5
<1>7. \A p \in S : Pos(o) <= Pos(p)
  <2>1. TAKE p \in S
  <2>2. x >= 0 - Pos(p)
    BY <1>5
  <2>3. Pos(o) \in Int /\ Pos(p) \in Int
    BY PosFacts
  <2>4. QED
    BY <1>6, <2>2, <2>3
<1>8. QED
  BY <1>6, <1>7 DEF First

\* The ranks of the phases.
LEMMA RankFacts ==
    /\ Rank("handshake") = 1 /\ Rank("config") = 2 /\ Rank("main") = 3 /\ Rank("dead") = 4
    /\ \A p \in Phases : Rank(p) \in 1 .. 4 /\ (Rank(p) = 4 => p = "dead")
BY DEF Rank, Phases

\* A later phase is appended to what an observer was told.
LEMMA IncreasingAppend ==
    ASSUME NEW s \in Seq(Phases), NEW p \in Phases, Increasing(s), Before(s, p)
    PROVE  Increasing(Append(s, p))
<1> DEFINE t == Append(s, p)
<1>1. /\ Len(s) \in Nat /\ Len(t) = Len(s) + 1
      /\ \A i \in 1 .. Len(s) : t[i] = s[i]
      /\ t[Len(t)] = p
  OBVIOUS
<1> HIDE DEF t
<1>2. ASSUME NEW i \in 1 .. Len(t), NEW j \in 1 .. Len(t), i < j PROVE Rank(t[i]) < Rank(t[j])
  <2>1. i \in 1 .. Len(s)
    BY <1>1, <1>2
  <2>2. CASE j \in 1 .. Len(s)
    BY <1>1, <1>2, <2>1, <2>2 DEF Increasing
  <2>3. CASE j = Len(t)
    BY <1>1, <2>1, <2>3 DEF Before
  <2>4. QED
    BY <1>1, <2>2, <2>3
<1>3. QED
  BY <1>2 DEF t, Increasing

\* What a broadcast does to the tables; the observers that are served come
\* before the others.
Effect(g, event, targets, woken, queued, served) ==
    /\ \A o \in served : \A p \in targets : Pos(p) <= Pos(o) => p = woken \/ ~Full(p)
    /\ \A o \in targets \ served :
          \E p \in targets : Pos(p) <= Pos(o) /\ p # woken /\ Full(p)
    /\ \A o \in Observers : told'[o] = IF o \in served /\ event # "msg"
                                       THEN Append(told[o], event) ELSE told[o]
    /\ \A h \in Greenlets : h # g => todo'[h] = todo[h] /\ ev'[h] = ev[h]
    /\ todo'[g] = targets \ served
    /\ ev'[g] = IF todo'[g] = {} THEN "msg" ELSE event
    /\ \A q \in Queues : waiters'[q] = IF todo'[g] # {} /\ q = First(todo'[g])
                                       THEN Append(queued[q], g) ELSE queued[q]

\* The effect of send_event_to_observers.
LEMMA DeliverFacts ==
    ASSUME WaitType, EventType,
           NEW g \in Greenlets, NEW event \in Phases \cup {"msg"},
           NEW targets \in SUBSET Observers, NEW woken,
           NEW queued \in [Queues -> Seq(Greenlets)],
           Deliver(g, event, targets, woken, queued)
    PROVE  \E served \in SUBSET targets : Effect(g, event, targets, woken, queued, served)
<1> DEFINE served == Served(targets, woken)
<1> DEFINE rest == targets \ served
<1>1. /\ served \in SUBSET targets
      /\ \A o \in served : \A p \in targets : Pos(p) <= Pos(o) => p = woken \/ ~Full(p)
      /\ \A o \in targets \ served :
            \E p \in targets : Pos(p) <= Pos(o) /\ p # woken /\ Full(p)
  BY DEF Served
<1>2. /\ told' = [o \in Observers |-> IF o \in served /\ event # "msg"
                                      THEN Append(told[o], event) ELSE told[o]]
      /\ todo' = [todo EXCEPT ![g] = rest]
      /\ ev' = [ev EXCEPT ![g] = IF rest = {} THEN "msg" ELSE event]
      /\ waiters' = IF rest = {} THEN queued
                    ELSE [queued EXCEPT ![First(rest)] = Append(@, g)]
  BY DEF Deliver
<1> HIDE DEF served
<1>3. /\ \A h \in Greenlets : h # g => todo'[h] = todo[h] /\ ev'[h] = ev[h]
      /\ todo'[g] = rest
      /\ ev'[g] = IF rest = {} THEN "msg" ELSE event
  BY <1>2 DEF WaitType
<1>4. \A q \in Queues : waiters'[q] = IF rest # {} /\ q = First(rest)
                                      THEN Append(queued[q], g) ELSE queued[q]
  BY <1>2
<1>5. \A o \in Observers : told'[o] = IF o \in served /\ event # "msg"
                                      THEN Append(told[o], event) ELSE told[o]
  BY <1>2
<1> HIDE DEF rest
<1>6. QED
  BY <1>1, <1>3, <1>4, <1>5 DEF rest, Effect

\* The queues when a broadcast starts or goes on: the broadcaster g is in none
\* of them, everybody else is where it was.
Released(g, queued) ==
    /\ queued \in [Queues -> Seq(Greenlets)]
    /\ \A q \in Observers :
          /\ ~Holds(queued[q], g)
          /\ \A h \in Greenlets : /\ Unique(queued[q], h)
                                  /\ h # g => (Holds(queued[q], h) <=> Holds(waiters[q], h))
          /\ \A h, k \in Greenlets : h # k /\ Behind(waiters[q], h, k) => Behind(queued[q], h, k)

\* A broadcaster that waits does so at the first observer it did not serve.
LEMMA QueueingDeliver ==
    ASSUME WaitType, EventType, Queueing,
           NEW g \in Greenlets, NEW event \in Phases \cup {"msg"},
           NEW targets \in SUBSET Observers, NEW woken, NEW queued, Released(g, queued),
           Deliver(g, event, targets, woken, queued),
           g = "R" \/ pc'[g] = "shut",
           \A h \in Greenlets \ {g, "R"} : pc'[h] = pc[h]
    PROVE  Queueing'
<1>0. queued \in [Queues -> Seq(Greenlets)] /\ Observers \subseteq Queues
  BY GreenletFacts DEF Released
<1>a. PICK served \in SUBSET targets : Effect(g, event, targets, woken, queued, served)
  BY <1>0, DeliverFacts
<1>1. /\ \A h \in Greenlets : h # g => todo'[h] = todo[h] /\ ev'[h] = ev[h]
      /\ todo'[g] = targets \ served
      /\ ev'[g] = IF todo'[g] = {} THEN "msg" ELSE event
      /\ \A q \in Queues : waiters'[q] = IF todo'[g] # {} /\ q = First(todo'[g])
                                         THEN Append(queued[q], g) ELSE queued[q]
  BY <1>a DEF Effect
<1>2. todo'[g] \in SUBSET Observers
  BY <1>1
<1>3. ASSUME NEW q \in Observers
      PROVE  /\ \A h \in Greenlets : Unique(waiters'[q], h)
             /\ \A h \in Greenlets \ {g} : Holds(waiters'[q], h) <=> Holds(waiters[q], h)
             /\ Holds(waiters'[q], g) <=> todo'[g] # {} /\ q = First(todo'[g])
  <2>1. queued[q] \in Seq(Greenlets) /\ q \in Queues
    BY <1>0
  <2>2. /\ ~Holds(queued[q], g)
        /\ \A h \in Greenlets : /\ Unique(queued[q], h)
                                /\ h # g => (Holds(queued[q], h) <=> Holds(waiters[q], h))
    BY DEF Released
  <2>3. CASE todo'[g] # {} /\ q = First(todo'[g])
    <3>1. waiters'[q] = Append(queued[q], g)
      BY <1>1, <2>1, <2>3
    <3>2. QED
      BY <2>1, <2>2, <2>3, <3>1, PutFacts
  <2>4. CASE ~(todo'[g] # {} /\ q = First(todo'[g]))
    <3>1. waiters'[q] = queued[q]
      BY <1>1, <2>1, <2>4
    <3>2. QED
      BY <2>2, <2>4, <3>1
  <2>5. QED
    BY <2>3, <2>4
<1>4. ASSUME NEW h \in Greenlets PROVE QueueOK(h)'
  <2>1. CASE h = g
    <3>1. todo'[g] # {} => First(todo'[g]) \in Observers
      BY <1>2, FirstFacts
    <3>2. QED
      BY <1>1, <1>3, <2>1, <3>1 DEF QueueOK
  <2>2. CASE h # g
    <3>1. todo'[h] = todo[h] /\ ev'[h] = ev[h] /\ QueueOK(h)
      BY <1>1, <2>2 DEF Queueing
    <3>2. todo[h] # {} => First(todo[h]) \in Observers
      <4>1. todo[h] \in SUBSET Observers
        BY DEF WaitType
      <4>2. QED
        BY <4>1, FirstFacts
    <3>3. h = "R" \/ pc'[h] = pc[h]
      BY <2>2
    <3>4. QED
      BY <1>3, <2>2, <3>1, <3>2, <3>3 DEF QueueOK
  <2>3. QED
    BY <2>1, <2>2
<1>5. QED
  BY <1>4 DEF Queueing

\* The order of phases when a broadcast starts or goes on.
LEMMA OrderDeliver ==
    ASSUME WaitType, EventType, state \in Phases \cup {"none"}, state' \in Phases \cup {"none"},
           Queueing, Announcing, ToldInv, DeadLast,
           NEW g \in Greenlets, NEW event \in Phases \cup {"msg"},
           NEW targets \in SUBSET Observers, NEW woken, NEW queued, Released(g, queued),
           Deliver(g, event, targets, woken, queued),
           state # "none" => state' # "none" /\ Rank(state) <= Rank(state'),
           event # "msg" => /\ g = "R" \/ event = "dead"
                            /\ targets \subseteq StateObs[event]
                            /\ state' # "none" /\ Rank(event) <= Rank(state')
                            /\ \A o \in targets : Before(told[o], event),
           event = "dead" => \A h \in Greenlets \ {g} : ev[h] # "dead",
           event = "dead" /\ g # "R" /\ ev["R"] # "msg" =>
              /\ todo["R"] \subseteq targets
              /\ woken # First(todo["R"]),
           event # "msg" /\ g = "R" => \A h \in Greenlets \ {g} : ev[h] = "dead" =>
              /\ targets \subseteq todo[h]
              /\ targets # {} /\ woken = First(targets)
    PROVE  Announcing' /\ ToldInv' /\ DeadLast'
<1>0. queued \in [Queues -> Seq(Greenlets)] /\ Observers \subseteq Queues /\ "R" \in Greenlets
  BY GreenletFacts DEF Released
<1>a. PICK served \in SUBSET targets : Effect(g, event, targets, woken, queued, served)
  BY <1>0, DeliverFacts
<1>1. /\ \A o \in served : \A p \in targets : Pos(p) <= Pos(o) => p = woken \/ ~Full(p)
      /\ \A o \in targets \ served :
            \E p \in targets : Pos(p) <= Pos(o) /\ p # woken /\ Full(p)
      /\ \A o \in Observers : told'[o] = IF o \in served /\ event # "msg"
                                         THEN Append(told[o], event) ELSE told[o]
      /\ \A h \in Greenlets : h # g => todo'[h] = todo[h] /\ ev'[h] = ev[h]
      /\ todo'[g] = targets \ served
      /\ ev'[g] = IF todo'[g] = {} THEN "msg" ELSE event
      /\ \A q \in Queues : waiters'[q] = IF todo'[g] # {} /\ q = First(todo'[g])
                                         THEN Append(queued[q], g) ELSE queued[q]
  BY <1>a DEF Effect
<1>2. Announcing'
  <2>1. SUFFICES ASSUME NEW h \in Greenlets, ev'[h] # "msg"
                 PROVE  /\ h = "R" \/ ev'[h] = "dead"
                        /\ todo'[h] \subseteq StateObs[ev'[h]]
                        /\ state' # "none" /\ Rank(ev'[h]) <= Rank(state')
                        /\ \A k \in Greenlets : ev'[h] = "dead" /\ ev'[k] = "dead" => h = k
    BY DEF Announcing
  <2>2. \A k \in Greenlets : k # g => ev'[k] = ev[k]
    BY <1>1
  <2>3. ev'[g] # "msg" => ev'[g] = event
    BY <1>1
  <2>4. h # g => /\ h = "R" \/ ev[h] = "dead"
                 /\ state # "none" /\ Rank(ev[h]) <= Rank(state)
                 /\ \A k \in Greenlets : ev[h] = "dead" /\ ev[k] = "dead" => h = k
    BY <2>1, <2>2 DEF Announcing
  <2>5. h = "R" \/ ev'[h] = "dead"
    BY <2>1, <2>2, <2>3, <2>4
  <2>6. state' # "none" /\ Rank(ev'[h]) <= Rank(state')
    <3>1. CASE h = g
      BY <2>1, <2>3, <3>1
    <3>2. CASE h # g
      <4>1. ev[h] \in Phases
        BY <2>1, <2>2, <3>2 DEF WaitType
      <4>2. /\ Rank(ev[h]) <= Rank(state) /\ Rank(state) <= Rank(state') /\ state' # "none"
            /\ state \in Phases /\ state' \in Phases
        BY <2>4, <3>2
      <4>3. Rank(ev[h]) \in Int /\ Rank(state) \in Int /\ Rank(state') \in Int
        BY <4>1, <4>2, RankFacts
      <4>4. QED
        BY <2>2, <3>2, <4>2, <4>3
    <3>3. QED
      BY <3>1, <3>2
  <2>7. ASSUME NEW k \in Greenlets, ev'[h] = "dead", ev'[k] = "dead" PROVE h = k
    <3>1. CASE h = g
      BY <2>2, <2>3, <2>7, <3>1
    <3>2. CASE k = g
      BY <2>2, <2>3, <2>7, <3>2
    <3>3. CASE h # g /\ k # g
      BY <2>2, <2>4, <2>7, <3>3
    <3>4. QED
      BY <3>1, <3>2, <3>3
  <2>8. todo'[h] \subseteq StateObs[ev'[h]]
    <3>1. CASE h = g
      BY <1>1, <2>1, <2>3, <3>1
    <3>2. CASE h # g
      BY <1>1, <2>1, <3>2 DEF Announcing
    <3>3. QED
      BY <3>1, <3>2
  <2>9. QED
    BY <2>5, <2>6, <2>7, <2>8
\* Nobody is told of the death before the receive loop told him what it has to.
<1>3. ASSUME event = "dead", g # "R", ev["R"] # "msg" PROVE served \cap todo["R"] = {}
  <2> DEFINE f == First(todo["R"])
  <2>1. todo["R"] \in SUBSET Observers /\ todo["R"] # {} /\ Holds(waiters[f], "R")
    BY <1>0, <1>3 DEF WaitType, Queueing, QueueOK
  <2>2. f \in todo["R"] /\ \A p \in todo["R"] : Pos(f) <= Pos(p)
    BY <2>1, FirstFacts
  <2>3. f \in targets /\ f # woken
    BY <1>3, <2>2
  <2>4. Full(f)
    <3>1. waiters[f] # << >>
      BY <2>1, EmptyQueue
    <3>2. QED
      BY <3>1 DEF Full
  <2>5. QED
    BY <1>1, <2>2, <2>3, <2>4
\* What is still to be told comes behind what was told in this step.
<1>4. ASSUME NEW h \in Greenlets \ {g}, NEW o \in served, event # "msg", o \in todo[h], ev[h] # "msg"
      PROVE  Rank(event) < Rank(ev[h])
  <2>1. h = "R" \/ ev[h] = "dead"
    BY <1>4 DEF Announcing
  <2>2. event # "dead"
    BY <1>3, <1>4, <2>1
  <2>3. ev[h] = "dead"
    BY <1>4, <2>1, <2>2
  <2>4. event \in Phases
    BY <1>4
  <2>5. QED
    BY <2>2, <2>3, <2>4, RankFacts
<1>5. ToldInv'
  <2>1. SUFFICES ASSUME NEW o \in Observers
                 PROVE  /\ Increasing(told'[o])
                        /\ \A i \in 1 .. Len(told'[o]) :
                              state' # "none" /\ Rank(told'[o][i]) <= Rank(state')
                        /\ \A h \in Greenlets : o \in todo'[h] /\ ev'[h] # "msg" =>
                              Before(told'[o], ev'[h])
    BY DEF ToldInv, Increasing, Before
  <2>2. /\ told[o] \in Seq(Phases) /\ Increasing(told[o])
        /\ \A i \in 1 .. Len(told[o]) : /\ state # "none" /\ Rank(told[o][i]) <= Rank(state)
                                        /\ told[o][i] \in Phases
        /\ \A h \in Greenlets : o \in todo[h] /\ ev[h] # "msg" => Before(told[o], ev[h])
    BY DEF ToldInv, EventType
  <2>3. \A i \in 1 .. Len(told[o]) : state' # "none" /\ Rank(told[o][i]) <= Rank(state')
    <3>1. TAKE i \in 1 .. Len(told[o])
    <3>2. /\ state \in Phases /\ state' \in Phases /\ told[o][i] \in Phases
          /\ Rank(told[o][i]) <= Rank(state) /\ Rank(state) <= Rank(state')
      BY <2>2
    <3>3. Rank(told[o][i]) \in Int /\ Rank(state) \in Int /\ Rank(state') \in Int
      BY <3>2, RankFacts
    <3>4. state' # "none"
      BY <2>2
    <3>5. QED
      BY <3>2, <3>3, <3>4
  <2>4. CASE o \in served /\ event # "msg"
    <3>1. event \in Phases /\ Before(told[o], event) /\ told'[o] = Append(told[o], event)
      BY <1>1, <2>4
    <3>2. Increasing(told'[o])
      BY <2>2, <3>1, IncreasingAppend
    <3>3. /\ Len(told'[o]) = Len(told[o]) + 1 /\ Len(told[o]) \in Nat
          /\ \A i \in 1 .. Len(told[o]) : told'[o][i] = told[o][i]
          /\ told'[o][Len(told'[o])] = event
      BY <2>2, <3>1
    <3>4. \A i \in 1 .. Len(told'[o]) : i \in 1 .. Len(told[o]) \/ i = Len(told'[o])
      BY <3>3
    <3>5. \A i \in 1 .. Len(told'[o]) : state' # "none" /\ Rank(told'[o][i]) <= Rank(state')
      BY <2>3, <2>4, <3>3, <3>4
    <3>6. ASSUME NEW h \in Greenlets, o \in todo'[h], ev'[h] # "msg"
          PROVE  Before(told'[o], ev'[h])
      <4>1. h # g
        BY <1>1, <2>4, <3>6
      <4>2. todo'[h] = todo[h] /\ ev'[h] = ev[h]
        BY <1>1, <4>1
      <4>3. Before(told[o], ev[h]) /\ Rank(event) < Rank(ev[h])
        BY <1>4, <2>2, <2>4, <3>6, <4>1, <4>2
      <4>4. QED
        BY <3>3, <3>4, <4>2, <4>3 DEF Before
    <3>7. QED
      BY <3>2, <3>5, <3>6
  <2>5. CASE ~(o \in served /\ event # "msg")
    <3>1. told'[o] = told[o]
      BY <1>1, <2>5
    <3>2. ASSUME NEW h \in Greenlets, o \in todo'[h], ev'[h] # "msg"
          PROVE  Before(told[o], ev'[h])
      <4>1. CASE h = g
        BY <1>1, <3>2, <4>1
      <4>2. CASE h # g
        BY <1>1, <2>2, <3>2, <4>2
      <4>3. QED
        BY <4>1, <4>2
    <3>3. QED
      BY <2>2, <2>3, <3>1, <3>2
  <2>6. QED
    BY <2>4, <2>5
<1>6. DeadLast'
  <2>1. SUFFICES ASSUME NEW d \in Greenlets \ {"R"}, ev'[d] = "dead", ev'["R"] # "msg"
                 PROVE  /\ todo'["R"] \subseteq todo'[d]
                        /\ \A q \in Observers : Behind(waiters'[q], d, "R")
    BY DEF DeadLast
  <2>2. CASE d = g
    <3>1. event = "dead" /\ ev'["R"] = ev["R"] /\ todo'["R"] = todo["R"]
      BY <1>0, <1>1, <2>1, <2>2
    <3>2. todo["R"] \subseteq targets /\ served \cap todo["R"] = {}
      BY <1>3, <2>1, <2>2, <3>1
    <3>3. ASSUME NEW q \in Observers PROVE Behind(waiters'[q], d, "R")
      <4>1. ~Holds(queued[q], d) /\ queued[q] \in Seq(Greenlets) /\ q \in Queues
        BY <1>0, <2>2 DEF Released
      <4>2. Behind(queued[q], d, "R")
        BY <4>1 DEF Behind, Holds
      <4>3. waiters'[q] = queued[q] \/ waiters'[q] = Append(queued[q], d)
        BY <1>1, <2>2, <4>1
      <4>4. Behind(Append(queued[q], d), d, "R")
        BY <2>1, <4>1, <4>2, BehindFacts
      <4>5. QED
        BY <4>2, <4>3, <4>4
    <3>4. QED
      BY <1>1, <2>2, <3>1, <3>2, <3>3
  <2>3. CASE d # g
    <3>1. ev[d] = "dead" /\ todo'[d] = todo[d]
      BY <1>1, <2>1, <2>3
    <3>2. CASE g = "R"
      <4>1. event # "msg" /\ todo'["R"] # {} /\ todo'["R"] = targets \ served
        BY <1>1, <2>1, <3>2
      <4>2. targets \subseteq todo[d] /\ targets # {} /\ woken = First(targets)
        BY <2>3, <3>1, <3>2, <4>1
      <4>3. woken \in targets /\ \A p \in targets : Pos(woken) <= Pos(p)
        BY <4>2, FirstFacts
      <4>4. woken \in served
        <5>1. SUFFICES ASSUME woken \notin served PROVE FALSE
          OBVIOUS
        <5>2. PICK p \in targets : Pos(p) <= Pos(woken) /\ p # woken /\ Full(p)
          BY <1>1, <4>3, <5>1
        <5>3. Pos(p) \in Int /\ Pos(woken) \in Int /\ Pos(woken) <= Pos(p)
          BY <4>3, PosFacts
        <5>4. QED
          BY <4>3, <5>2, <5>3, PosFacts
      <4>5. ASSUME NEW q \in Observers PROVE Behind(waiters'[q], d, "R")
        <5>1. queued[q] \in Seq(Greenlets) /\ q \in Queues /\ ~Holds(queued[q], "R")
          BY <1>0, <3>2 DEF Released
        <5>2. Behind(queued[q], d, "R")
          BY <5>1 DEF Behind, Holds
        <5>3. CASE waiters'[q] = queued[q]
          BY <5>2, <5>3
        <5>4. CASE waiters'[q] # queued[q]
          <6>1. waiters'[q] = Append(queued[q], "R") /\ q = First(targets \ served)
            BY <1>1, <3>2, <4>1, <5>1, <5>4
          <6>2. q \in targets \ served
            BY <4>1, <6>1, FirstFacts
          <6>3. ~Holds(queued[q], d)
            <7>1. SUFFICES ASSUME Holds(queued[q], d) PROVE FALSE
              OBVIOUS
            <7>2. Holds(waiters[q], d)
              BY <2>3, <7>1 DEF Released
            <7>3. todo[d] # {} /\ q = First(todo[d]) /\ todo[d] \in SUBSET Observers
              BY <7>2 DEF Queueing, QueueOK, WaitType
            <7>4. Pos(q) <= Pos(woken)
              BY <4>2, <4>3, <7>3, FirstFacts
            <7>5. Pos(woken) <= Pos(q) /\ Pos(q) \in Int /\ Pos(woken) \in Int
              BY <4>3, <6>2, PosFacts
            <7>6. q = woken
              BY <4>3, <7>4, <7>5, PosFacts
            <7>7. QED
              BY <4>4, <6>2, <7>6
          <6>4. d # "R" /\ "R" \in Greenlets /\ queued[q] \in Seq(Greenlets)
            BY <1>0, <2>1, <5>1
          <6>5. Behind(Append(queued[q], "R"), d, "R")
            BY <5>2, <6>3, <6>4, BehindFacts
          <6>6. QED
            BY <6>1, <6>5
        <5>5. QED
          BY <5>3, <5>4
      <4>6. QED
        BY <3>1, <4>1, <4>2, <4>5
    <3>3. CASE g # "R"
      <4>1. ev'["R"] = ev["R"] /\ todo'["R"] = todo["R"]
        BY <1>0, <1>1, <3>3
      <4>2. todo["R"] \subseteq todo[d] /\ \A q \in Observers : Behind(waiters[q], d, "R")
        BY <2>1, <3>1, <4>1 DEF DeadLast
      <4>3. ASSUME NEW q \in Observers PROVE Behind(waiters'[q], d, "R")
        <5>1. queued[q] \in Seq(Greenlets) /\ q \in Queues
          BY <1>0
        <5>2. Behind(queued[q], d, "R")
          BY <1>0, <2>1, <4>2 DEF Released
        <5>3. waiters'[q] = queued[q] \/ waiters'[q] = Append(queued[q], g)
          BY <1>1, <5>1
        <5>4. Behind(Append(queued[q], g), d, "R")
          BY <2>1, <3>3, <5>1, <5>2, BehindFacts
        <5>5. QED
          BY <5>2, <5>3, <5>4
      <4>4. QED
        BY <3>1, <4>1, <4>2, <4>3
    <3>4. QED
      BY <3>2, <3>3
  <2>4. QED
    BY <2>2, <2>3
<1>7. QED
  BY <1>2, <1>5, <1>6

\* A step that leaves the broadcasts alone.
LEMMA OrderKept ==
    ASSUME WaitType, OrderInv, UNCHANGED <<state, ev, todo, told>>,
           \A q \in Observers : waiters'[q] = waiters[q],
           \A g \in Greenlets : todo[g] = {} \/ g = "R" \/ pc'[g] = pc[g]
    PROVE  OrderInv'
<1>1. Queueing'
  <2>1. SUFFICES ASSUME NEW g \in Greenlets PROVE QueueOK(g)'
    BY DEF Queueing
  <2>2. QueueOK(g) /\ todo'[g] = todo[g] /\ ev'[g] = ev[g]
    BY DEF OrderInv, Queueing
  <2>3. todo[g] # {} => First(todo[g]) \in Observers
    <3>1. todo[g] \in SUBSET Observers
      BY DEF WaitType
    <3>2. QED
      BY <3>1, FirstFacts
  <2>4. todo[g] = {} \/ g = "R" \/ pc'[g] = pc[g]
    OBVIOUS
  <2>5. QED
    BY <2>2, <2>3, <2>4 DEF QueueOK
<1>2. Announcing' /\ ToldInv'
  BY DEF OrderInv, Announcing, ToldInv, Increasing, Before
<1>3. DeadLast'
  BY DEF OrderInv, DeadLast
<1>4. QED
  BY <1>1, <1>2, <1>3 DEF OrderInv

\* A greenlet that is not blocked is in no queue and has nothing to broadcast.
LEMMA RunsFree ==
    ASSUME WaitType, Queueing, NEW g \in Greenlets, ~Blocked(g)
    PROVE  todo[g] = {} /\ ev[g] = "msg"
<1>1. \A q \in Queues : ~Holds(waiters[q], g)
  BY DEF Blocked, Holds, WaitType
<1>2. todo[g] # {} => First(todo[g]) \in Queues
  <2>1. todo[g] \in SUBSET Observers
    BY DEF WaitType
  <2>2. QED
    BY <2>1, FirstFacts, GreenletFacts
<1>3. QED
  BY <1>1, <1>2 DEF Queueing, QueueOK

\* A greenlet without a broadcast waits at no observer.
LEMMA ReleasedIdle ==
    ASSUME WaitType, Queueing, NEW g \in Greenlets, todo[g] = {}
    PROVE  Released(g, waiters)
BY DEF WaitType, Queueing, QueueOK, Released

\* A broadcast begins: a message of the receive loop, its next phase, or the
\* death of the connection.
LEMMA OrderStart ==
    ASSUME WaitType, EventType, OrderInv, DeadObserved,
           state \in Phases \cup {"none"}, state' \in Phases \cup {"none"},
           NEW g \in Greenlets, NEW event \in Phases \cup {"msg"},
           NEW targets \in SUBSET Observers, todo[g] = {},
           Deliver(g, event, targets, "none", waiters),
           \/ event = "msg" /\ g = "R" /\ state' = state
           \/ /\ event # "msg" /\ targets = StateObs[event]
              /\ g = "R" \/ event = "dead"
              /\ state' = event /\ state # "dead"
              /\ state # "none" => Rank(state) < Rank(event),
           g = "R" \/ pc'[g] = "shut",
           \A h \in Greenlets \ {g, "R"} : pc'[h] = pc[h]
    PROVE  OrderInv'
<1>0. Queueing /\ Announcing /\ ToldInv /\ DeadLast /\ Released(g, waiters)
  BY ReleasedIdle DEF OrderInv
<1>1. Queueing'
  BY <1>0, QueueingDeliver
<1>2. state # "none" => state' # "none" /\ Rank(state) <= Rank(state')
  <2>1. state # "none" => Rank(state) \in Int
    BY RankFacts
  <2>2. event # "msg" => Rank(event) \in Int /\ event # "none"
    BY RankFacts DEF Phases
  <2>3. QED
    BY <2>1, <2>2
<1>3. ASSUME state # "dead" PROVE \A h \in Greenlets : ev[h] # "dead"
  <2>1. TAKE h \in Greenlets
  <2>2. SUFFICES ASSUME ev[h] = "dead" PROVE FALSE
    OBVIOUS
  <2>3. state # "none" /\ Rank("dead") <= Rank(state)
    BY <1>0, <2>2 DEF Announcing
  <2>4. QED
    BY <1>3, <2>3, RankFacts
<1>4. ASSUME event # "msg"
      PROVE  /\ g = "R" \/ event = "dead"
             /\ state' # "none" /\ Rank(event) <= Rank(state') /\ state # "dead"
             /\ state # "none" => Rank(state) < Rank(event)
             /\ state' = event /\ targets = StateObs[event]
  <2>1. Rank(event) \in Int /\ event # "none"
    BY <1>4, RankFacts DEF Phases
  <2>2. QED
    BY <1>4, <2>1
<1>5. ASSUME event # "msg", NEW o \in Observers PROVE Before(told[o], event)
  <2>1. SUFFICES ASSUME NEW i \in 1 .. Len(told[o]) PROVE Rank(told[o][i]) < Rank(event)
    BY DEF Before
  <2>2. state # "none" /\ Rank(told[o][i]) <= Rank(state) /\ told[o][i] \in Phases
    BY <1>0 DEF ToldInv, EventType
  <2>3. Rank(state) < Rank(event)
    BY <1>4, <1>5, <2>2
  <2>4. Rank(told[o][i]) \in Int /\ Rank(state) \in Int /\ Rank(event) \in Int
    BY <1>5, <2>2, RankFacts
  <2>5. QED
    BY <2>2, <2>3, <2>4
<1>6. event = "dead" => \A h \in Greenlets \ {g} : ev[h] # "dead"
  BY <1>3, <1>4
<1>7. ASSUME event = "dead", g # "R", ev["R"] # "msg"
      PROVE  todo["R"] \subseteq targets /\ "none" # First(todo["R"])
  <2>1. todo["R"] \subseteq targets
    <3>1. todo["R"] \subseteq StateObs[ev["R"]] /\ ev["R"] \in Phases
      BY <1>0, <1>7, GreenletFacts DEF Announcing, WaitType
    <3>2. QED
      BY <1>4, <1>7, <3>1 DEF DeadObserved
  <2>2. todo["R"] \in SUBSET Observers /\ todo["R"] # {}
    BY <1>0, <1>7, GreenletFacts DEF Queueing, QueueOK, WaitType
  <2>3. First(todo["R"]) \in Observers
    BY <2>2, FirstFacts
  <2>4. QED
    BY <2>1, <2>3, GreenletFacts
<1>8. event # "msg" /\ g = "R" => \A h \in Greenlets \ {g} : ev[h] = "dead" =>
              /\ targets \subseteq todo[h]
              /\ targets # {} /\ "none" = First(targets)
  BY <1>3, <1>4
<1>9. event # "msg" => /\ g = "R" \/ event = "dead"
                       /\ targets \subseteq StateObs[event]
                       /\ state' # "none" /\ Rank(event) <= Rank(state')
                       /\ \A o \in targets : Before(told[o], event)
  BY <1>4, <1>5
<1>10. Announcing' /\ ToldInv' /\ DeadLast'
  BY <1>0, <1>2, <1>6, <1>7, <1>8, <1>9, OrderDeliver
<1>11. QED
  BY <1>1, <1>10 DEF OrderInv

\* A broadcast goes on with the observer that has room again.
LEMMA OrderResume ==
    ASSUME BaseType, OrderInv, NEW o \in Observers, BroadcastResume(o)
    PROVE  OrderInv'
<1> DEFINE g == Head(waiters[o])
<1> DEFINE queued == [waiters EXCEPT ![o] = Tail(@)]
<1>0. /\ WaitType /\ EventType /\ state \in Phases \cup {"none"}
      /\ Queueing /\ Announcing /\ ToldInv /\ DeadLast
      /\ waiters[o] # << >> /\ o \in Queues /\ waiters[o] \in Seq(Greenlets)
      /\ Deliver(g, ev[g], todo[g], o, queued)
      /\ state' = state /\ pc' = pc
  BY GreenletFacts DEF BaseType, RestType, OrderInv, BroadcastResume, WaitType
<1>1. /\ g \in Greenlets /\ Tail(waiters[o]) \in Seq(Greenlets) /\ Holds(waiters[o], g)
      /\ \A h \in Greenlets : h # g => (Holds(Tail(waiters[o]), h) <=> Holds(waiters[o], h))
      /\ \A h \in Greenlets : Unique(waiters[o], h) => Unique(Tail(waiters[o]), h)
      /\ Unique(waiters[o], g) => ~Holds(Tail(waiters[o]), g)
  BY <1>0, TakeFacts
<1>2. /\ queued \in [Queues -> Seq(Greenlets)]
      /\ queued[o] = Tail(waiters[o])
      /\ \A q \in Queues : q # o => queued[q] = waiters[q]
  BY <1>0, <1>1 DEF WaitType
<1> HIDE DEF g, queued
<1>3. /\ todo[g] # {} /\ o = First(todo[g]) /\ todo[g] \in SUBSET Observers
      /\ g = "R" \/ pc[g] = "shut"
      /\ ev[g] \in Phases \cup {"msg"}
  BY <1>0, <1>1 DEF Queueing, QueueOK, WaitType
<1>4. Released(g, queued)
  <2>1. ASSUME NEW q \in Observers
        PROVE  /\ ~Holds(queued[q], g)
               /\ \A h \in Greenlets : /\ Unique(queued[q], h)
                                       /\ h # g => (Holds(queued[q], h) <=> Holds(waiters[q], h))
    <3>1. \A h \in Greenlets : Unique(waiters[q], h)
      BY <1>0 DEF Queueing, QueueOK
    <3>2. Holds(waiters[q], g) => q = o
      BY <1>0, <1>1, <1>3 DEF Queueing, QueueOK
    <3>3. CASE q = o
      BY <1>1, <1>2, <3>1, <3>3
    <3>4. CASE q # o
      <4>1. queued[q] = waiters[q]
        BY <1>2, <3>4, GreenletFacts
      <4>2. QED
        BY <3>1, <3>2, <3>4, <4>1
    <3>5. QED
      BY <3>3, <3>4
  <2>2. ASSUME NEW q \in Observers, NEW h \in Greenlets, NEW k \in Greenlets,
               h # k, Behind(waiters[q], h, k)
        PROVE  Behind(queued[q], h, k)
    <3>1. CASE q = o
      BY <1>0, <1>2, <2>2, <3>1, BehindFacts
    <3>2. CASE q # o
      BY <1>2, <2>2, <3>2, GreenletFacts
    <3>3. QED
      BY <3>1, <3>2
  <2>3. QED
    BY <1>2, <2>1, <2>2 DEF Released
<1>5. Queueing'
  BY <1>0, <1>1, <1>3, <1>4, QueueingDeliver
<1>6. state # "none" => state' # "none" /\ Rank(state) <= Rank(state')
  <2>1. state # "none" => Rank(state) \in Int
    BY <1>0, RankFacts
  <2>2. QED
    BY <1>0, <2>1
<1>7. ev[g] # "msg" => /\ g = "R" \/ ev[g] = "dead"
                       /\ todo[g] \subseteq StateObs[ev[g]]
                       /\ state' # "none" /\ Rank(ev[g]) <= Rank(state')
                       /\ \A x \in todo[g] : Before(told[x], ev[g])
  BY <1>0, <1>1, <1>3 DEF Announcing, ToldInv
<1>8. ev[g] = "dead" => \A h \in Greenlets \ {g} : ev[h] # "dead"
  BY <1>0, <1>1 DEF Announcing
<1>9. ASSUME ev[g] = "dead", g # "R", ev["R"] # "msg"
      PROVE  todo["R"] \subseteq todo[g] /\ o # First(todo["R"])
  <2>1. todo["R"] \subseteq todo[g] /\ Behind(waiters[o], g, "R")
    BY <1>0, <1>1, <1>9 DEF DeadLast
  <2>2. ~Holds(waiters[o], "R")
    BY <1>0, <1>9, <2>1, BehindFacts DEF g
  <2>3. todo["R"] # {} /\ Holds(waiters[First(todo["R"])], "R")
    BY <1>0, <1>9, GreenletFacts DEF Queueing, QueueOK
  <2>4. QED
    BY <2>1, <2>2, <2>3
<1>10. ev[g] # "msg" /\ g = "R" => \A h \in Greenlets \ {g} : ev[h] = "dead" =>
              /\ todo[g] \subseteq todo[h]
              /\ todo[g] # {} /\ o = First(todo[g])
  BY <1>0, <1>3 DEF DeadLast
<1>11. state' \in Phases \cup {"none"}
  BY <1>0
<1>12. Announcing' /\ ToldInv' /\ DeadLast'
  BY <1>0, <1>1, <1>3, <1>4, <1>6, <1>7, <1>8, <1>9, <1>10, <1>11, OrderDeliver
<1>13. QED
  BY <1>5, <1>12 DEF OrderInv

\* What is left of a queue without one greenlet.
LEMMA WithoutFacts ==
    ASSUME NEW G, NEW s \in Seq(G), NEW g, Unique(s, g)
    PROVE  /\ Without(s, g) \in Seq(G)
           /\ ~Holds(Without(s, g), g)
           /\ \A h : h # g => (Holds(Without(s, g), h) <=> Holds(s, h))
           /\ \A h : Unique(s, h) => Unique(Without(s, g), h)
<1>1. CASE ~Holds(s, g)
  <2>1. Without(s, g) = s
    BY <1>1 DEF Without, Holds
  <2>2. QED
    BY <1>1, <2>1
<1>2. CASE Holds(s, g)
  <2> DEFINE k == CHOOSE i \in DOMAIN s : s[i] = g
  <2> DEFINE t == SubSeq(s, 1, k - 1) \o SubSeq(s, k + 1, Len(s))
  <2>1. k \in 1 .. Len(s) /\ s[k] = g
    BY <1>2 DEF Holds
  <2>2. Without(s, g) = t
    <3>1. \E i \in DOMAIN s : s[i] = g
      BY <1>2 DEF Holds
    <3>2. QED
      BY <3>1 DEF Without, RemoveAt
  <2> HIDE DEF k
  <2>3. /\ t \in Seq(G) /\ Len(t) = Len(s) - 1 /\ Len(s) \in Nat
        /\ \A i \in 1 .. Len(t) : t[i] = IF i < k THEN s[i] ELSE s[i + 1]
    <3> DEFINE a == SubSeq(s, 1, k - 1)
    <3> DEFINE b == SubSeq(s, k + 1, Len(s))
    <3>1. /\ a \in Seq(G) /\ Len(a) = k - 1 /\ \A i \in 1 .. k - 1 : a[i] = s[i]
      BY <2>1
    <3>2. /\ b \in Seq(G) /\ Len(b) = Len(s) - k
          /\ \A i \in 1 .. Len(s) - k : b[i] = s[k + i]
      BY <2>1
    <3> HIDE DEF a, b
    <3>3. /\ a \o b \in Seq(G) /\ Len(a \o b) = Len(s) - 1 /\ Len(s) \in Nat
      <4>1. Len(s) \in Nat
        OBVIOUS
      <4>2. a \o b \in Seq(G) /\ Len(a \o b) = Len(a) + Len(b)
        BY <3>1, <3>2
      <4>3. QED
        BY <2>1, <3>1, <3>2, <4>1, <4>2
    <3>4. \A i \in 1 .. Len(s) - 1 : (a \o b)[i] = IF i < k THEN s[i] ELSE s[i + 1]
      <4>1. TAKE i \in 1 .. Len(s) - 1
      <4>2. CASE i < k
        BY <2>1, <3>1, <3>2, <4>2
      <4>3. CASE ~(i < k)
        <5>1. (a \o b)[i] = b[i - (k - 1)]
          BY <2>1, <3>1, <3>2, <4>3
        <5>2. i - (k - 1) \in 1 .. Len(s) - k /\ k + (i - (k - 1)) = i + 1
          BY <2>1, <3>3, <4>3
        <5>3. QED
          BY <3>2, <4>3, <5>1, <5>2
      <4>4. QED
        BY <4>2, <4>3
    <3>5. QED
      BY <3>3, <3>4 DEF a, b
  <2> HIDE DEF t
  <2>4. ~Holds(t, g)
    <3>1. SUFFICES ASSUME NEW i \in 1 .. Len(t), t[i] = g PROVE FALSE
      BY DEF Holds
    <3>2. CASE i < k
      BY <2>1, <2>3, <3>1, <3>2 DEF Unique
    <3>3. CASE ~(i < k)
      BY <2>1, <2>3, <3>1, <3>3 DEF Unique
    <3>4. QED
      BY <3>2, <3>3
  <2>5. ASSUME NEW h, h # g PROVE Holds(t, h) <=> Holds(s, h)
    <3>1. ASSUME Holds(t, h) PROVE Holds(s, h)
      <4>1. PICK i \in 1 .. Len(t) : t[i] = h
        BY <3>1 DEF Holds
      <4>2. s[i] = h \/ s[i + 1] = h
        BY <2>3, <4>1
      <4>3. i \in 1 .. Len(s) /\ i + 1 \in 1 .. Len(s)
        BY <2>3
      <4>4. QED
        BY <4>2, <4>3 DEF Holds
    <3>2. ASSUME Holds(s, h) PROVE Holds(t, h)
      <4>1. PICK i \in 1 .. Len(s) : s[i] = h
        BY <3>2 DEF Holds
      <4>2. i # k
        BY <2>1, <2>5, <4>1
      <4>3. CASE i < k
        <5>1. i \in 1 .. Len(t) /\ t[i] = h
          BY <2>1, <2>3, <4>1, <4>3
        <5>2. QED
          BY <5>1 DEF Holds
      <4>4. CASE i > k
        <5>1. i - 1 \in 1 .. Len(t) /\ ~(i - 1 < k) /\ (i - 1) + 1 = i
          BY <2>1, <2>3, <4>1, <4>4
        <5>2. t[i - 1] = h
          BY <2>3, <4>1, <5>1
        <5>3. QED
          BY <5>1, <5>2 DEF Holds
      <4>5. QED
        BY <2>1, <4>2, <4>3, <4>4
    <3>3. QED
      BY <3>1, <3>2
  <2>6. ASSUME NEW h, Unique(s, h) PROVE Unique(t, h)
    <3>1. SUFFICES ASSUME NEW i \in 1 .. Len(t), NEW j \in 1 .. Len(t), t[i] = h, t[j] = h
                   PROVE  i = j
      BY DEF Unique
    <3> DEFINE at(n) == IF n < k THEN n ELSE n + 1
    <3>2. at(i) \in 1 .. Len(s) /\ at(j) \in 1 .. Len(s) /\ s[at(i)] = h /\ s[at(j)] = h
      BY <2>1, <2>3, <3>1
    <3>3. at(i) = at(j)
      BY <2>6, <3>2 DEF Unique
    <3>4. QED
      BY <2>1, <3>3
  <2>7. QED
    BY <2>2, <2>3, <2>4, <2>5, <2>6
<1>3. QED
  BY <1>1, <1>2

\* serve() kills a greenlet in the middle of close(): the receive loop itself
\* has nothing to announce then.
LEMMA OrderKill ==
    ASSUME BaseType, OrderInv, NEW g \in Greenlets \ {"R"}, todo["R"] = {},
           waiters' = Unqueued(g),
           todo' = [todo EXCEPT ![g] = {}],
           ev' = [ev EXCEPT ![g] = "msg"],
           UNCHANGED <<state, told>>,
           \A h \in Greenlets \ {g, "R"} : pc'[h] = pc[h]
    PROVE  OrderInv'
<1>0. WaitType /\ Queueing /\ Announcing /\ ToldInv /\ ev["R"] = "msg" /\ "R" \in Greenlets
  BY GreenletFacts DEF BaseType, OrderInv, Queueing, QueueOK
<1>1. /\ \A h \in Greenlets : h # g => todo'[h] = todo[h] /\ ev'[h] = ev[h]
      /\ todo'[g] = {} /\ ev'[g] = "msg"
  BY <1>0 DEF WaitType
<1>2. ASSUME NEW q \in Observers
      PROVE  /\ ~Holds(waiters'[q], g)
             /\ \A h \in Greenlets : /\ Unique(waiters'[q], h)
                                     /\ h # g => (Holds(waiters'[q], h) <=> Holds(waiters[q], h))
  <2>1. waiters[q] \in Seq(Greenlets) /\ waiters'[q] = Without(waiters[q], g)
    BY <1>0, GreenletFacts DEF WaitType, Unqueued
  <2>2. \A h \in Greenlets : Unique(waiters[q], h)
    BY <1>0 DEF Queueing, QueueOK
  <2>3. QED
    BY <2>1, <2>2, WithoutFacts
<1>3. Queueing'
  <2>1. SUFFICES ASSUME NEW h \in Greenlets PROVE QueueOK(h)'
    BY DEF Queueing
  <2>2. CASE h = g
    BY <1>1, <1>2, <2>2 DEF QueueOK
  <2>3. CASE h # g
    <3>1. QueueOK(h) /\ todo'[h] = todo[h] /\ ev'[h] = ev[h] /\ todo[h] \in SUBSET Observers
      BY <1>0, <1>1, <2>3 DEF Queueing, WaitType
    <3>2. todo[h] # {} => First(todo[h]) \in Observers
      BY <3>1, FirstFacts
    <3>3. h = "R" \/ pc'[h] = pc[h]
      BY <2>3
    <3>4. QED
      BY <1>2, <2>3, <3>1, <3>2, <3>3 DEF QueueOK
  <2>4. QED
    BY <2>2, <2>3
<1>4. \A h \in Greenlets : /\ ev'[h] \in {"msg", ev[h]}
                           /\ ev'[h] # "msg" => todo'[h] = todo[h]
  BY <1>1
<1>5. Announcing'
  <2>1. SUFFICES ASSUME NEW h \in Greenlets, ev'[h] # "msg"
                 PROVE  /\ h = "R" \/ ev'[h] = "dead"
                        /\ todo'[h] \subseteq StateObs[ev'[h]]
                        /\ state' # "none" /\ Rank(ev'[h]) <= Rank(state')
                        /\ \A k \in Greenlets : ev'[h] = "dead" /\ ev'[k] = "dead" => h = k
    BY DEF Announcing
  <2>2. ev'[h] = ev[h] /\ todo'[h] = todo[h] /\ ev[h] # "msg"
    BY <1>4, <2>1
  <2>3. \A k \in Greenlets : ev'[k] = "dead" => ev[k] = "dead"
    BY <1>4
  <2>4. QED
    BY <1>0, <2>2, <2>3 DEF Announcing
<1>6. ToldInv'
  <2>1. SUFFICES ASSUME NEW o \in Observers
                 PROVE  /\ Increasing(told[o])
                        /\ \A i \in 1 .. Len(told[o]) : state # "none" /\ Rank(told[o][i]) <= Rank(state)
                        /\ \A h \in Greenlets : o \in todo'[h] /\ ev'[h] # "msg" => Before(told[o], ev'[h])
    BY DEF ToldInv, Increasing, Before
  <2>2. \A h \in Greenlets : ev'[h] # "msg" => ev'[h] = ev[h] /\ todo'[h] = todo[h]
    BY <1>4
  <2>3. QED
    BY <1>0, <2>2 DEF ToldInv
<1>7. DeadLast'
  <2>1. ev'["R"] = "msg"
    BY <1>0, <1>4
  <2>2. QED
    BY <2>1 DEF DeadLast
<1>8. QED
  BY <1>3, <1>5, <1>6, <1>7 DEF OrderInv

\* close(), in whichever greenlet.
LEMMA OrderClose ==
    ASSUME BaseType, OrderInv, DeadObserved, NEW g \in Greenlets, todo[g] = {},
           Close(g, waiters),
           g = "R" \/ pc'[g] = "shut",
           \A h \in Greenlets \ {g, "R"} : pc'[h] = pc[h]
    PROVE  OrderInv'
<1>0. /\ WaitType /\ EventType /\ state \in Phases \cup {"none"}
      /\ StateObs["dead"] \in SUBSET Observers /\ "dead" \in Phases
  BY ConstantsAssumption DEF BaseType, RestType, Phases
<1>1. CASE state # "dead"
  <2>1. state' = "dead" /\ Deliver(g, "dead", StateObs["dead"], "none", waiters)
    BY <1>1 DEF Close
  <2>2. state # "none" => Rank(state) < Rank("dead")
    <3>1. state # "none" => Rank(state) \in 1 .. 4 /\ Rank(state) # 4
      BY <1>0, <1>1, RankFacts
    <3>2. QED
      BY <3>1, RankFacts
  <2>3. "dead" # "msg"
    OBVIOUS
  <2>4. QED
    BY <1>0, <1>1, <2>1, <2>2, <2>3, OrderStart
<1>2. CASE state = "dead"
  <2>1. UNCHANGED <<state, ev, todo, told>> /\ \A q \in Observers : waiters'[q] = waiters[q]
    BY <1>2 DEF Close
  <2>2. \A h \in Greenlets : todo[h] = {} \/ h = "R" \/ pc'[h] = pc[h]
    OBVIOUS
  <2>3. QED
    BY <1>0, <2>1, <2>2, OrderKept
<1>3. QED
  BY <1>1, <1>2

\* set_state in the receive loop.
LEMMA OrderSetState ==
    ASSUME BaseType, OrderInv, DeadObserved, NEW phase \in {"handshake", "config", "main"},
           todo["R"] = {}, SetState("R", phase),
           state # "none" => state # "dead" /\ Rank(state) < Rank(phase),
           \A h \in Greenlets \ {"R"} : pc'[h] = pc[h]
    PROVE  OrderInv'
<1>0. /\ WaitType /\ EventType /\ state \in Phases \cup {"none"} /\ phase \in Phases
      /\ StateObs[phase] \in SUBSET Observers /\ "R" \in Greenlets
  BY ConstantsAssumption, GreenletFacts DEF BaseType, RestType, Phases
<1>1. state' = phase /\ Deliver("R", phase, StateObs[phase], "none", waiters)
  BY DEF SetState
<1>2. state # "dead" /\ phase # "msg"
  OBVIOUS
<1>3. QED
  BY <1>0, <1>1, <1>2, OrderStart

\* The broadcast of a message.
LEMMA OrderMessage ==
    ASSUME BaseType, OrderInv, DeadObserved, NEW targets \in SUBSET Observers, todo["R"] = {},
           Deliver("R", "msg", targets, "none", waiters), state' = state,
           \A h \in Greenlets \ {"R"} : pc'[h] = pc[h]
    PROVE  OrderInv'
<1>0. WaitType /\ EventType /\ state \in Phases \cup {"none"} /\ "R" \in Greenlets
  BY GreenletFacts DEF BaseType, RestType
<1>1. QED
  BY <1>0, OrderStart

\* send_msg waits at the send queue, not at an observer.
LEMMA OrderSend ==
    ASSUME BaseType, OrderInv, NEW g, Send(g), UNCHANGED <<state, told>>,
           \A h \in Greenlets : todo[h] = {} \/ h = "R" \/ pc'[h] = pc[h]
    PROVE  OrderInv'
<1>1. UNCHANGED <<ev, todo>>
  BY DEF Send
<1>2. \A q \in Observers : waiters'[q] = waiters[q]
  <2>1. waiters' = waiters \/ waiters' = [waiters EXCEPT !["sem"] = Append(@, g)]
    BY DEF Send
  <2>2. \A q \in Observers : q \in Queues /\ q # "sem"
    BY GreenletFacts
  <2>3. QED
    BY <2>1, <2>2 DEF BaseType, WaitType
<1>3. QED
  BY <1>1, <1>2, OrderKept DEF BaseType

\* A greenlet that runs has nothing to broadcast.
LEMMA OrderAt ==
    ASSUME BaseType, OrderInv, NEW g \in Greenlets, NEW loc, At(g, loc)
    PROVE  todo[g] = {} /\ ev[g] = "msg"
BY RunsFree DEF BaseType, OrderInv, At

\* A greenlet other than the receive loop broadcasts in close() only.
LEMMA OrderPlace ==
    ASSUME OrderInv, NEW g \in Greenlets \ {"R"}, pc[g] # "shut"
    PROVE  todo[g] = {} /\ ev[g] = "msg"
BY DEF OrderInv, Queueing, QueueOK

\* A step of one greenlet that leaves all queues alone.
LEMMA OrderMove ==
    ASSUME BaseType, OrderInv, UNCHANGED <<state, waiters, ev, todo, told>>,
           NEW g \in Greenlets, todo[g] = {}, NEW loc,
           pc' = [pc EXCEPT ![g] = loc]
    PROVE  OrderInv'
<1>1. \A h \in Greenlets : todo[h] = {} \/ h = "R" \/ pc'[h] = pc[h]
  BY DEF BaseType, RestType
<1>2. QED
  BY <1>1, OrderKept DEF BaseType

\* The handlers of the receive loop.
LEMMA OrderHandle ==
    ASSUME BaseType, OrderInv, DeadObserved, Handle
    PROVE  OrderInv'
<1>0. "R" \in Greenlets /\ todo["R"] = {} /\ pc \in [Greenlets -> Locations]
  BY OrderAt, GreenletFacts DEF Handle, BaseType, RestType
<1>1. ASSUME NEW loc, Goto("R", loc) PROVE \A h \in Greenlets \ {"R"} : pc'[h] = pc[h]
  BY <1>0, <1>1 DEF Goto
<1>2. ASSUME NEW loc, Goto("R", loc), Send("R"), UNCHANGED <<state, told>> PROVE OrderInv'
  BY <1>1, <1>2, OrderSend
<1>3. CASE HandleHello
  <2>1. /\ SetState("R", "config") /\ \A h \in Greenlets \ {"R"} : pc'[h] = pc[h]
        /\ state = "handshake"
    BY <1>1, <1>3 DEF HandleHello
  <2>2. Rank(state) < Rank("config")
    BY <2>1, RankFacts
  <2>3. QED
    BY <1>0, <2>1, <2>2, OrderSetState
<1>4. CASE HandleFeatures \/ HandlePortDesc
  <2>1. CASE SetState("R", "main")
    <3>1. \A h \in Greenlets \ {"R"} : pc'[h] = pc[h]
      BY <1>1, <1>4 DEF HandleFeatures, HandlePortDesc
    <3>2. state = "config"
      BY <1>4 DEF HandleFeatures, HandlePortDesc
    <3>3. Rank(state) < Rank("main")
      BY <3>2, RankFacts
    <3>4. QED
      BY <1>0, <2>1, <3>1, <3>2, <3>3, OrderSetState
  <2>2. CASE ~SetState("R", "main")
    <3>1. Goto("R", "loop") /\ Send("R") /\ UNCHANGED <<state, told>>
      BY <1>4, <2>2 DEF HandleFeatures, HandlePortDesc
    <3>2. QED
      BY <1>2, <3>1
  <2>3. QED
    BY <2>1, <2>2
<1>5. CASE HandlePortStatus
  <2>1. Deliver("R", "msg", MsgObs["main"], "none", waiters) /\ state' = state
    BY <1>5 DEF HandlePortStatus
  <2>2. MsgObs["main"] \in SUBSET Observers
    BY ConstantsAssumption DEF Phases
  <2>3. \A h \in Greenlets \ {"R"} : pc'[h] = pc[h]
    BY <1>1, <1>5 DEF HandlePortStatus
  <2>4. QED
    BY <1>0, <2>1, <2>2, <2>3, OrderMessage
<1>6. CASE HandleBadHello \/ HandleEchoRequest
  BY <1>2, <1>6 DEF HandleBadHello, HandleEchoRequest
<1>7. CASE HandleEchoReply \/ HandleIgnored
  <2>1. UNCHANGED <<state, waiters, ev, todo, told>> /\ Goto("R", "loop")
    BY <1>7 DEF HandleEchoReply, HandleIgnored
  <2>2. QED
    BY <1>0, <2>1, OrderMove DEF Goto
<1>8. QED
  BY <1>3, <1>4, <1>5, <1>6, <1>7 DEF Handle

\* serve() kills the send loop and the echo loop.
LEMMA OrderKills ==
    ASSUME BaseType, OrderInv, DeadObserved, KillSend \/ KillEcho
    PROVE  OrderInv'
<1>0. /\ "R" \in Greenlets /\ "S" \in Greenlets \ {"R"} /\ "E" \in Greenlets \ {"R"}
      /\ todo["R"] = {} /\ pc \in [Greenlets -> Locations] /\ WaitType
  BY OrderAt, GreenletFacts DEF KillSend, KillEcho, BaseType, RestType
<1>1. CASE KillSend
  <2>1. \A h \in Greenlets \ {"S", "R"} : pc'[h] = pc[h]
    BY <1>0, <1>1 DEF KillSend, KillSendNow, KillSendLoop
  <2>2. CASE KillSendNow
    <3>1. UNCHANGED <<state, ev, todo, told, waiters>> /\ todo["S"] = {}
      BY <1>0, <2>2, OrderPlace DEF KillSendNow
    <3>2. \A h \in Greenlets : todo[h] = {} \/ h = "R" \/ pc'[h] = pc[h]
      BY <2>1, <3>1
    <3>3. QED
      BY <1>0, <3>1, <3>2, OrderKept
  <2>3. CASE KillSendLoop
    <3>1. Close("S", waiters) /\ todo["S"] = {} /\ pc'["S"] = "shut"
      BY <1>0, <2>3, OrderPlace DEF KillSendLoop, SendFinally
    <3>2. QED
      BY <1>0, <2>1, <3>1, OrderClose
  <2>4. CASE KillInClose("S")
    BY <1>0, <2>1, <2>4, OrderKill DEF KillInClose
  <2>5. QED
    BY <1>1, <2>2, <2>3, <2>4 DEF KillSend
<1>2. CASE KillEcho
  <2>1. \A h \in Greenlets \ {"E", "R"} : pc'[h] = pc[h]
    BY <1>0, <1>2 DEF KillEcho
  <2>2. CASE KillEchoLoop
    <3>1. waiters' = Unqueued("E") /\ UNCHANGED <<state, ev, todo, told>>
      BY <2>2 DEF KillEchoLoop
    <3>2. todo["E"] = {} /\ ev["E"] = "msg"
      BY <1>0, <2>2, OrderPlace DEF KillEchoLoop
    <3>3. todo' = [todo EXCEPT !["E"] = {}] /\ ev' = [ev EXCEPT !["E"] = "msg"]
      BY <1>0, <3>1, <3>2 DEF WaitType
    <3>4. QED
      BY <1>0, <2>1, <3>1, <3>3, OrderKill
  <2>3. CASE KillInClose("E")
    BY <1>0, <2>1, <2>3, OrderKill DEF KillInClose
  <2>4. QED
    BY <1>2, <2>2, <2>3 DEF KillEcho
<1>3. QED
  BY <1>1, <1>2

\* The end of close() in a greenlet.
LEMMA OrderEndClose ==
    ASSUME BaseType, OrderInv, NEW g \in Greenlets, NEW next, EndClose(g, next)
    PROVE  OrderInv'
<1>1. todo[g] = {}
  BY OrderAt DEF EndClose
<1>2. QED
  BY <1>1, OrderMove DEF EndClose, Goto

\* The send loop.
LEMMA OrderSendLoop ==
    ASSUME BaseType, OrderInv, DeadObserved, SStep
    PROVE  OrderInv'
<1>0. "S" \in Greenlets /\ "S" # "R" /\ pc \in [Greenlets -> Locations]
  BY GreenletFacts DEF BaseType, RestType
<1>1. CASE EndClose("S", "dead")
  BY <1>0, <1>1, OrderEndClose
<1>2. CASE ~EndClose("S", "dead")
  <2>1. todo["S"] = {}
    BY <1>0, <1>2, OrderAt DEF SStep, SendStart, SendGet, SendDone, SendFail
  <2>2. ASSUME SendFinally(waiters), Goto("S", "shut") PROVE OrderInv'
    <3>1. Close("S", waiters)
      BY <2>2 DEF SendFinally
    <3>2. pc'["S"] = "shut" /\ \A h \in Greenlets \ {"S", "R"} : pc'[h] = pc[h]
      BY <1>0, <2>2 DEF Goto
    <3>3. QED
      BY <1>0, <2>1, <3>1, <3>2, OrderClose
  <2>3. ASSUME NEW loc, Goto("S", loc), UNCHANGED <<state, waiters, ev, todo, told>> PROVE OrderInv'
    BY <1>0, <2>1, <2>3, OrderMove DEF Goto
  <2>4. \/ SendFinally(waiters) /\ Goto("S", "shut")
        \/ Goto("S", "get") /\ UNCHANGED <<state, waiters, ev, todo, told>>
        \/ Goto("S", "sendall") /\ UNCHANGED <<state, waiters, ev, todo, told>>
    BY <1>2 DEF SStep, SendStart, SendGet, SendDone, SendFail, SendLoopTop
  <2>5. QED
    BY <2>2, <2>3, <2>4
<1>3. QED
  BY <1>1, <1>2

\* The echo loop.
LEMMA OrderEchoLoop ==
    ASSUME BaseType, OrderInv, DeadObserved, EStep
    PROVE  OrderInv'
<1>0. "E" \in Greenlets /\ "E" # "R" /\ pc \in [Greenlets -> Locations]
  BY GreenletFacts DEF BaseType, RestType
<1>1. CASE EndClose("E", "dead")
  BY <1>0, <1>1, OrderEndClose
<1>2. CASE ~EndClose("E", "dead")
  <2>1. todo["E"] = {}
    BY <1>0, <1>2, OrderAt DEF EStep, EchoRequest, EchoStop, EchoAwake
  <2>2. CASE EchoRequest
    <3>1. Send("E") /\ UNCHANGED <<state, told>>
      BY <2>2 DEF EchoRequest
    <3>2. \A h \in Greenlets : todo[h] = {} \/ h = "R" \/ pc'[h] = pc[h]
      BY <1>0, <2>1, <2>2 DEF EchoRequest, Goto
    <3>3. QED
      BY <3>1, <3>2, OrderSend
  <2>3. CASE EchoStop
    <3>1. CASE MaxUnreplied = 0
      <4>1. Goto("E", "dead") /\ UNCHANGED <<state, waiters, ev, todo, told>>
        BY <2>3, <3>1 DEF EchoStop
      <4>2. QED
        BY <1>0, <2>1, <4>1, OrderMove DEF Goto
    <3>2. CASE MaxUnreplied # 0
      <4>1. Goto("E", "shut") /\ Close("E", waiters)
        BY <2>3, <3>2 DEF EchoStop
      <4>2. pc'["E"] = "shut" /\ \A h \in Greenlets \ {"E", "R"} : pc'[h] = pc[h]
        BY <1>0, <4>1 DEF Goto
      <4>3. QED
        BY <1>0, <2>1, <4>1, <4>2, OrderClose
    <3>3. QED
      BY <3>1, <3>2
  <2>4. QED
    BY <1>2, <2>2, <2>3 DEF EStep
<1>3. QED
  BY <1>1, <1>2

\* serve() spawns the loops before anything else can change where they are.
LEMMA SpawningStep == Life /\ Spawning /\ [Next]_vars => Spawning'
<1> SUFFICES ASSUME Life, Spawning, [Next]_vars PROVE Spawning'
  OBVIOUS
<1>0. pc \in [Greenlets -> Locations]
  BY DEF Life, LifeType
<1> USE GreenletFacts DEF Spawning, At, Goto
<1>1. CASE Construct \/ Serve \/ SpawnEcho
  BY <1>0, <1>1 DEF Construct, Serve, SpawnEcho
<1>2. CASE Handle
  BY <1>0, <1>2 DEF Handle, HandleHello, HandleBadHello, HandleFeatures, HandlePortDesc,
     HandleEchoRequest, HandleEchoReply, HandlePortStatus, HandleIgnored
<1>3. CASE RequestFeatures \/ LeaveLoop \/ Join \/ FinalClose \/ EndClose("R", "done")
  BY <1>0, <1>3 DEF RequestFeatures, LeaveLoop, Join, FinalClose, EndClose
<1>4. CASE KillSend \/ KillEcho
  BY <1>0, <1>4 DEF KillSend, KillSendNow, KillSendLoop, KillEcho
<1>5. ASSUME NEW m \in Messages, RecvMsg(m) PROVE Spawning'
  BY <1>0, <1>5 DEF RecvMsg
<1>6. CASE SStep
  BY <1>0, <1>6 DEF SStep, SendStart, SendGet, SendDone, SendFail, SendLoopTop, EndClose
<1>7. CASE EStep
  BY <1>0, <1>7 DEF EStep, EchoRequest, EchoStop, EchoAwake, EndClose
<1>8. ASSUME NEW a \in Apps \cup Closing, AppSend(a) \/ AppClose(a) \/ EndClose(a, "run") PROVE Spawning'
  BY <1>0, <1>8 DEF AppSend, AppClose, EndClose
<1>9. ASSUME NEW o \in Observers, BroadcastResume(o) \/ Observe(o) PROVE Spawning'
  BY <1>9 DEF BroadcastResume, Observe
<1>10. CASE SendResume \/ Crash \/ Disconnect \/ UNCHANGED vars
  BY <1>10 DEF SendResume, Crash, Disconnect, vars, greenletVars
<1>11. QED
  BY <1>1, <1>2, <1>3, <1>4, <1>5, <1>6, <1>7, <1>8, <1>9, <1>10
     DEF Next, RStep, RecvStop, RecvRaise

\* Nothing runs at first.
LEMMA SpawningInit == Init => Spawning
BY GreenletFacts DEF Init, Spawning

\* The receive greenlet.
LEMMA OrderReceive ==
    ASSUME BaseType, Life, Spawning, OrderInv, DeadObserved,
           RStep \/ RecvRaise \/ \E m \in Messages : RecvMsg(m)
    PROVE  OrderInv'
<1>0. "R" \in Greenlets /\ "S" \in Greenlets /\ "E" \in Greenlets /\ pc \in [Greenlets -> Locations]
  BY GreenletFacts DEF BaseType, RestType
<1>1. ASSUME NEW loc, At("R", loc) PROVE todo["R"] = {}
  BY <1>0, <1>1, OrderAt
<1>2. ASSUME NEW loc, Goto("R", loc) PROVE \A h \in Greenlets \ {"R"} : pc'[h] = pc[h]
  BY <1>0, <1>2 DEF Goto
<1>3. CASE Construct
  <2>1. state = "none"
    BY <1>3 DEF Construct, At, Life, Begin
  <2>2. SetState("R", "handshake") /\ todo["R"] = {} /\ \A h \in Greenlets \ {"R"} : pc'[h] = pc[h]
    BY <1>1, <1>2, <1>3 DEF Construct
  <2>3. QED
    BY <2>1, <2>2, OrderSetState
<1>4. CASE Serve
  <2>1. Send("R") /\ UNCHANGED <<state, told>>
    BY <1>4 DEF Serve
  <2>2. todo["S"] = {}
    BY <1>0, <1>4, OrderPlace DEF Serve, At, Spawning
  <2>3. \A h \in Greenlets : todo[h] = {} \/ h = "R" \/ pc'[h] = pc[h]
    BY <1>0, <1>4, <2>2 DEF Serve
  <2>4. QED
    BY <2>1, <2>3, OrderSend
<1>5. CASE SpawnEcho
  <2>1. UNCHANGED <<state, waiters, ev, todo, told>>
    BY <1>5 DEF SpawnEcho
  <2>2. todo["E"] = {}
    BY <1>0, <1>5, OrderPlace DEF SpawnEcho, At, Spawning
  <2>3. \A h \in Greenlets : todo[h] = {} \/ h = "R" \/ pc'[h] = pc[h]
    BY <1>0, <1>5, <2>2 DEF SpawnEcho
  <2>4. QED
    BY <2>1, <2>3, OrderKept DEF BaseType
<1>6. CASE Handle
  BY <1>6, OrderHandle
<1>7. CASE RequestFeatures
  <2>1. Send("R") /\ UNCHANGED <<state, told>> /\ \A h \in Greenlets \ {"R"} : pc'[h] = pc[h]
    BY <1>2, <1>7 DEF RequestFeatures
  <2>2. QED
    BY <2>1, OrderSend
<1>8. CASE LeaveLoop
  <2>1. Goto("R", "kill_send") /\ UNCHANGED <<state, waiters, ev, todo, told>> /\ todo["R"] = {}
    BY <1>1, <1>8 DEF LeaveLoop
  <2>2. QED
    BY <1>0, <2>1, OrderMove DEF Goto
<1>9. CASE KillSend \/ KillEcho
  BY <1>9, OrderKills
<1>10. CASE Join
  <2>1. Goto("R", "close") /\ UNCHANGED <<state, waiters, ev, todo, told>> /\ todo["R"] = {}
    BY <1>1, <1>10 DEF Join
  <2>2. QED
    BY <1>0, <2>1, OrderMove DEF Goto
<1>11. CASE FinalClose
  <2>1. Close("R", waiters) /\ todo["R"] = {} /\ \A h \in Greenlets \ {"R"} : pc'[h] = pc[h]
    BY <1>1, <1>2, <1>11 DEF FinalClose
  <2>2. QED
    BY <1>0, <2>1, OrderClose
<1>12. CASE EndClose("R", "done")
  BY <1>0, <1>12, OrderEndClose
<1>13. ASSUME NEW m \in Messages, RecvMsg(m) PROVE OrderInv'
  <2>1. /\ Deliver("R", "msg", MsgObs[state], "none", waiters) /\ state' = state
        /\ todo["R"] = {} /\ \A h \in Greenlets \ {"R"} : pc'[h] = pc[h]
    BY <1>1, <1>2, <1>13 DEF RecvMsg
  <2>2. MsgObs[state] \in SUBSET Observers
    <3>1. state # "none" /\ state \in Phases
      BY <1>13 DEF RecvMsg, At, Life, Begin, LifeType
    <3>2. QED
      BY <3>1, ConstantsAssumption
  <2>3. QED
    BY <2>1, <2>2, OrderMessage
<1>14. QED
  BY <1>3, <1>4, <1>5, <1>6, <1>7, <1>8, <1>9, <1>10, <1>11, <1>12, <1>13
     DEF RStep, RecvStop, RecvRaise

\* Applications and observers.
LEMMA OrderApps ==
    ASSUME BaseType, OrderInv, DeadObserved, NEW a \in Apps \cup Closing,
           AppSend(a) \/ AppClose(a) \/ EndClose(a, "run")
    PROVE  OrderInv'
<1>0. a \in Greenlets /\ pc \in [Greenlets -> Locations]
  BY GreenletFacts DEF BaseType, RestType
<1>1. CASE AppSend(a)
  BY <1>1, OrderSend DEF AppSend
<1>2. CASE AppClose(a)
  <2>1. Close(a, waiters) /\ Goto(a, "shut") /\ todo[a] = {}
    BY <1>0, <1>2, OrderAt DEF AppClose
  <2>2. pc'[a] = "shut" /\ \A h \in Greenlets \ {a, "R"} : pc'[h] = pc[h]
    BY <1>0, <2>1 DEF Goto
  <2>3. QED
    BY <1>0, <2>1, <2>2, OrderClose
<1>3. CASE EndClose(a, "run")
  BY <1>0, <1>3, OrderEndClose
<1>4. QED
  BY <1>1, <1>2, <1>3

\* Every step keeps the order, if the observers of a phase observe the death.
LEMMA OrderStep ==
    ASSUME BaseType, Life, Spawning, OrderInv, DeadObserved, [Next]_vars
    PROVE  OrderInv'
<1>1. CASE RStep \/ RecvRaise \/ \E m \in Messages : RecvMsg(m)
  BY <1>1, OrderReceive
<1>2. CASE SStep
  BY <1>2, OrderSendLoop
<1>3. CASE EStep
  BY <1>3, OrderEchoLoop
<1>4. CASE SendResume
  <2>1. UNCHANGED <<state, ev, todo, told, pc>> /\ waiters' = [waiters EXCEPT !["sem"] = Tail(@)]
    BY <1>4 DEF SendResume
  <2>2. \A q \in Observers : waiters'[q] = waiters[q]
    BY <2>1, GreenletFacts DEF BaseType, WaitType
  <2>3. QED
    BY <2>1, <2>2, OrderKept DEF BaseType
<1>5. ASSUME NEW o \in Observers, BroadcastResume(o) PROVE OrderInv'
  BY <1>5, OrderResume
<1>6. ASSUME NEW o \in Observers, Observe(o) PROVE OrderInv'
  <2>1. UNCHANGED <<state, told, pc>> /\ (Send(o) \/ UNCHANGED <<waiters, ev, todo>>)
    BY <1>6 DEF Observe
  <2>2. CASE Send(o)
    BY <2>1, <2>2, OrderSend
  <2>3. CASE UNCHANGED <<waiters, ev, todo>>
    BY <2>1, <2>3, OrderKept DEF BaseType
  <2>4. QED
    BY <2>1, <2>2, <2>3
<1>7. ASSUME NEW a \in Apps \cup Closing, AppSend(a) \/ AppClose(a) \/ EndClose(a, "run") PROVE OrderInv'
  BY <1>7, OrderApps
<1>8. CASE Crash \/ Disconnect \/ UNCHANGED vars
  <2>1. UNCHANGED <<state, ev, todo, told, pc, waiters>>
    BY <1>8 DEF Crash, Disconnect, vars, greenletVars, eventVars
  <2>2. QED
    BY <2>1, OrderKept DEF BaseType
<1>9. QED
  BY <1>1, <1>2, <1>3, <1>4, <1>5, <1>6, <1>7, <1>8 DEF Next

\* Nothing is announced at first.
LEMMA OrderInit == Init => OrderInv
<1> SUFFICES ASSUME Init PROVE OrderInv
  OBVIOUS
<1>1. \A g \in Greenlets : todo[g] = {} /\ ev[g] = "msg"
  BY DEF Init
<1>2. \A q \in Observers : waiters[q] = << >>
  BY GreenletFacts DEF Init
<1>3. \A o \in Observers : told[o] = << >>
  BY DEF Init
<1>4. Queueing
  BY <1>1, <1>2, EmptyQueue DEF Queueing, QueueOK
<1>5. Announcing /\ DeadLast
  BY <1>1 DEF Announcing, DeadLast
<1>6. ToldInv
  BY <1>1, <1>3 DEF ToldInv, Increasing, Before
<1>7. QED
  BY <1>4, <1>5, <1>6 DEF OrderInv

\* Every observer is told of the phases in their order and of none twice,
\* whoever announces them and wherever a broadcast is interrupted, if whoever
\* observes a phase observes the end of the connection too.  Without that the
\* death can overtake the main phase, as the run datapath_mixed shows.
THEOREM OrderCorrect == ASSUME DeadObserved PROVE Spec => []PhaseEventsInOrder
<1>1. SlotInv => BaseType
  BY SlotInvParts DEF BaseType
<1>2. SlotInv /\ Life /\ Spawning /\ OrderInv /\ [Next]_vars => OrderInv'
  BY <1>1, OrderStep
<1>3. SlotInv /\ OrderInv => PhaseEventsInOrder
  <2>1. SUFFICES ASSUME SlotInv, OrderInv, NEW o \in Observers
                 PROVE  \A i, j \in DOMAIN told[o] : i < j => Rank(told[o][i]) < Rank(told[o][j])
    BY DEF PhaseEventsInOrder
  <2>2. told[o] \in Seq(Phases) /\ Increasing(told[o])
    BY <1>1, <2>1 DEF BaseType, EventType, OrderInv, ToldInv
  <2>3. QED
    BY <2>2 DEF Increasing
<1>4. QED
  BY <1>2, <1>3, OrderInit, SpawningInit, SpawningStep, LifeCorrect,
     SlotInvInit, SlotInvStep, PTL DEF Spec
=============================================================================
