------------------------------ MODULE Datapath ------------------------------
(***************************************************************************)
(* One OpenFlow connection of the controller: class Datapath of            *)
(* ryu/controller/controller.py with the handlers of ofp_handler.py that   *)
(* its receive loop runs.                                                  *)
(*                                                                         *)
(* The connection is served by three greenlets: R runs                     *)
(* datapath_connection_factory and serve() (the receive loop), S runs      *)
(* _send_loop and E runs _echo_request_loop.  Applications run in          *)
(* greenlets of their own: the event loop of every observer of the         *)
(* connection's events, and other greenlets (Apps) that hold the Datapath  *)
(* object.  A greenlet loses control only where it blocks: on the          *)
(* semaphore of the send queue, on the semaphore of an observer's full     *)
(* event queue, in sendall, recv, sleep and the empty send queue.  A step  *)
(* of this module is the code between two such places, or part of it.      *)
(***************************************************************************)
EXTENDS Integers, Sequences, SequencesExt

CONSTANTS
    Apps,          \* greenlets that hold the datapath and may send or close it
    ObsOrder,      \* the observers, in the order get_observers() lists them
    StateObs,      \* phase -> observers of EventOFPStateChange in that phase
    MsgObs,        \* phase -> observers of the message events in that phase
    Talkers,       \* observers whose handlers send to the switch
    Closing,       \* observers whose handlers close the datapath
    SendQMax,      \* maxsize of send_q (16)
    EventQMax,     \* slots of an observer's event queue (128)
    MaxUnreplied,  \* CONF.maximum_unreplied_echo_requests (0: no echo loop)
    PortDesc       \* TRUE: OpenFlow 1.3 or later, the ports come by multipart

Phases == {"handshake", "config", "main", "dead"}
Observers == {ObsOrder[i] : i \in DOMAIN ObsOrder}
Greenlets == {"R", "S", "E"} \cup Apps \cup Observers

\* What a switch sends, as far as the receive loop tells it apart; a reply
\* with the MORE flag is "port_desc_more", a hello whose versions the
\* controller cannot use is "bad_hello".
Messages == {"hello", "bad_hello", "features", "port_desc", "port_desc_more",
             "echo_request", "echo_reply", "port_status", "other"}

\* The queues a greenlet can wait for: the send queue's semaphore and the
\* semaphore of every observer's event queue.
Queues == {"sem"} \cup Observers

ASSUME ConstantsAssumption ==
    /\ ObsOrder \in Seq(Observers)
    /\ \A i, j \in DOMAIN ObsOrder : ObsOrder[i] = ObsOrder[j] => i = j
    /\ {"R", "S", "E", "sem", "none"} \cap (Apps \cup Observers) = {}
    /\ Apps \cap Observers = {}
    /\ StateObs \in [Phases -> SUBSET Observers]
    /\ MsgObs \in [Phases -> SUBSET Observers]
    /\ Talkers \subseteq Observers /\ Closing \subseteq Observers
    /\ SendQMax \in Nat \ {0}
    /\ EventQMax \in Nat \ {0}
    /\ MaxUnreplied \in Nat
    /\ PortDesc \in BOOLEAN

VARIABLES
    state,      \* Datapath.state; "none" before the constructor sets it
    sock,       \* "open", "shut" (SHUT_RDWR done) or "closed"
    active,     \* Datapath.is_active
    qref,       \* Datapath.send_q is not None
    qlen,       \* messages in the send queue
    sem,        \* counter of _send_q_sem
    unreplied,  \* Len(unreplied_echo_requests)
    features,   \* the features reply was handled: Datapath.id is known
    cur,        \* the message the receive loop is handling; "other" between messages
    pc,         \* where each greenlet is
    waiters,    \* queue -> greenlets blocked on its semaphore, oldest first
    ev,         \* greenlet -> the event it is broadcasting while it is blocked
    todo,       \* greenlet -> observers its broadcast has not served yet
    evq,        \* observer -> events in its queue
    told,       \* observer -> the phases announced to it, in order (history)
    peer        \* the switch: "up", "crashed" (silent) or "gone" (EOF, reset)

greenletVars == <<pc, waiters, ev, todo>>
sendVars == <<qref, qlen, sem>>
eventVars == <<evq, told>>
vars == <<state, sock, active, qref, qlen, sem, unreplied, features, cur, pc,
          waiters, ev, todo, evq, told, peer>>

Init ==
    /\ state = "none"
    /\ sock = "open"
    /\ active = TRUE
    /\ qref = TRUE
    /\ qlen = 0
    /\ sem = SendQMax
    /\ unreplied = 0
    /\ features = FALSE
    /\ cur = "other"
    /\ pc = [g \in Greenlets |->
                CASE g = "R" -> "ctor" [] g \in {"S", "E"} -> "none" [] OTHER -> "run"]
    /\ waiters = [q \in Queues |-> << >>]
    /\ ev = [g \in Greenlets |-> "msg"]
    /\ todo = [g \in Greenlets |-> {}]
    /\ evq = [o \in Observers |-> 0]
    /\ told = [o \in Observers |-> << >>]
    /\ peer = "up"

Blocked(g) == \E q \in Queues : \E i \in DOMAIN waiters[q] : waiters[q][i] = g

At(g, loc) == pc[g] = loc /\ ~Blocked(g)

(***************************************************************************)
(* send_event_to_observers: the broadcaster serves the observers in order  *)
(* and blocks on the first one whose queue has no free slot or already has *)
(* waiters (eventlet semaphores are FIFO and do not barge).                *)
(***************************************************************************)
Pos(o) == CHOOSE i \in DOMAIN ObsOrder : ObsOrder[i] = o

Full(o) == evq[o] >= EventQMax \/ waiters[o] # << >>

\* The observers of "targets" that are served before the broadcast blocks;
\* "woken" is the observer whose slot the broadcaster was just granted.
Served(targets, woken) ==
    {o \in targets : \A p \in targets : Pos(p) <= Pos(o) => p = woken \/ ~Full(p)}

First(targets) == CHOOSE o \in targets : \A p \in targets : Pos(o) <= Pos(p)

\* "queued" is the waiters function after the step's other changes to it.
Deliver(g, event, targets, woken, queued) ==
    LET served == Served(targets, woken)
        rest   == targets \ served
    IN  /\ evq' = [o \in Observers |-> IF o \in served THEN evq[o] + 1 ELSE evq[o]]
        /\ told' = [o \in Observers |->
                        IF o \in served /\ event # "msg" THEN Append(told[o], event)
                                                         ELSE told[o]]
        /\ todo' = [todo EXCEPT ![g] = rest]
        /\ ev' = [ev EXCEPT ![g] = IF rest = {} THEN "msg" ELSE event]
        /\ waiters' = IF rest = {} THEN queued
                      ELSE [queued EXCEPT ![First(rest)] = Append(@, g)]

\* Datapath.set_state
SetState(g, phase) ==
    /\ state' = phase
    /\ Deliver(g, phase, StateObs[phase], "none", waiters)

\* Mutant: close() announces the death again on a datapath that is dead.
Close_bug(g, queued) ==
    /\ state' = "dead"
    /\ Deliver(g, "dead", StateObs["dead"], "none", queued)

\* Datapath.close up to the end of set_state; the shutdown of its finally
\* clause is Shutdown, taken when the broadcast is over.
Close(g, queued) ==
    IF state # "dead"
    THEN /\ state' = "dead"
         /\ Deliver(g, "dead", StateObs["dead"], "none", queued)
    ELSE /\ waiters' = queued
         /\ UNCHANGED <<state, ev, todo, evq, told>>

\* The finally clause of _deactivate.
Shutdown == sock' = IF active THEN (IF sock = "open" THEN "shut" ELSE sock) ELSE "closed"

\* Datapath.send_msg: acquire a slot, then enqueue, or give the slot back when
\* the send queue is gone.  A greenlet that finds no slot waits (SendResume).
Enqueue ==
    /\ qlen' = IF qref THEN qlen + 1 ELSE qlen
    /\ sem' = IF qref THEN sem - 1 ELSE sem

Send(g) ==
    /\ UNCHANGED <<qref, ev, todo>>
    /\ IF sem > 0 /\ waiters["sem"] = << >>
       THEN Enqueue /\ UNCHANGED waiters
       ELSE /\ waiters' = [waiters EXCEPT !["sem"] = Append(@, g)]
            /\ UNCHANGED <<qlen, sem>>

\* A released slot goes to the oldest waiter of the send queue.
SendResume ==
    /\ sem > 0
    /\ waiters["sem"] # << >>
    /\ waiters' = [waiters EXCEPT !["sem"] = Tail(@)]
    /\ Enqueue
    /\ UNCHANGED <<state, sock, active, qref, unreplied, features, cur, pc, ev,
                   todo, evq, told, peer>>

\* A free slot of an observer's queue goes to its oldest waiter, which
\* continues its broadcast from there.
BroadcastResume(o) ==
    /\ evq[o] < EventQMax
    /\ waiters[o] # << >>
    /\ LET g == Head(waiters[o])
       IN  Deliver(g, ev[g], todo[g], o, [waiters EXCEPT ![o] = Tail(@)])
    /\ UNCHANGED <<state, sock, active, qref, qlen, sem, unreplied, features,
                   cur, pc, peer>>

-----------------------------------------------------------------------------
(* R: datapath_connection_factory, serve() and the receive loop.           *)

Goto(g, loc) == pc' = [pc EXCEPT ![g] = loc]

Construct ==
    /\ At("R", "ctor")
    /\ SetState("R", "handshake")
    /\ Goto("R", "serve")
    /\ UNCHANGED <<sock, active, qref, qlen, sem, unreplied, features, cur, peer>>

\* serve() spawns the send loop and sends the hello message.
Serve ==
    /\ At("R", "serve")
    /\ Send("R")
    /\ pc' = [pc EXCEPT !["R"] = "spawn_echo", !["S"] = "spawned"]
    /\ UNCHANGED <<state, sock, active, unreplied, features, cur, evq, told, peer>>

SpawnEcho ==
    /\ At("R", "spawn_echo")
    /\ pc' = [pc EXCEPT !["R"] = "loop", !["E"] = "spawned"]
    /\ UNCHANGED <<state, sock, active, qref, qlen, sem, unreplied, features, cur,
                   waiters, ev, todo, evq, told, peer>>

\* A switch answers requests only: no port description before the features
\* reply was handled, and none at all before OpenFlow 1.3 (external).
SwitchMaySend(m) ==
    m \in {"port_desc", "port_desc_more"} => features /\ PortDesc

\* recv() returned a message; its event goes to the observers of the phase
\* the connection is in.  The loop looks at the phase only between two calls
\* of recv, so a message can still be read after the phase became dead.
RecvMsg(m) ==
    /\ At("R", "loop")
    /\ peer = "up" /\ sock = "open"
    /\ SwitchMaySend(m)
    /\ cur' = m
    /\ Deliver("R", "msg", MsgObs[state], "none", waiters)
    /\ Goto("R", "handle")
    /\ UNCHANGED <<state, sock, active, qref, qlen, sem, unreplied, features, peer>>

\* The handlers of ofp_handler.py, chosen by the phase after the broadcast.
HandleHello ==
    /\ cur = "hello" /\ state = "handshake"
    /\ SetState("R", "config")
    /\ Goto("R", "request_features")
    /\ UNCHANGED <<qref, qlen, sem, unreplied, features>>

\* _hello_failed: an error message is sent and the handler returns.
HandleBadHello ==
    /\ cur = "bad_hello" /\ state = "handshake"
    /\ Send("R")
    /\ Goto("R", "loop")
    /\ UNCHANGED <<state, unreplied, features, evq, told>>

HandleFeatures ==
    /\ cur = "features" /\ state = "config"
    /\ features' = TRUE
    /\ IF PortDesc
       THEN Send("R") /\ UNCHANGED <<state, evq, told>>
       ELSE SetState("R", "main") /\ UNCHANGED <<qref, qlen, sem>>
    /\ Goto("R", "loop")
    /\ UNCHANGED unreplied

\* Mutant: the handler is registered for every dispatcher.
HandlePortDesc_bug ==
    /\ cur = "port_desc"
    /\ SetState("R", "main")
    /\ Goto("R", "loop")
    /\ UNCHANGED <<qref, qlen, sem, unreplied, features>>

HandlePortDesc ==
    /\ cur = "port_desc" /\ state = "config"
    /\ SetState("R", "main")
    /\ Goto("R", "loop")
    /\ UNCHANGED <<qref, qlen, sem, unreplied, features>>

HandleEchoRequest ==
    /\ cur = "echo_request" /\ state # "dead"
    /\ Send("R")
    /\ Goto("R", "loop")
    /\ UNCHANGED <<state, unreplied, features, evq, told>>

\* acknowledge_echo_reply: a reply whose xid is not on the list is ignored.
HandleEchoReply ==
    /\ cur = "echo_reply" /\ state # "dead"
    /\ unreplied' \in {n \in 0..unreplied : n >= unreplied - 1}
    /\ Goto("R", "loop")
    /\ UNCHANGED <<state, qref, qlen, sem, features, waiters, ev, todo, evq, told>>

\* port_status_handler updates Datapath.ports and announces the change.
HandlePortStatus ==
    /\ cur = "port_status" /\ state = "main"
    /\ Deliver("R", "msg", MsgObs["main"], "none", waiters)
    /\ Goto("R", "loop")
    /\ UNCHANGED <<state, qref, qlen, sem, unreplied, features>>

\* No handler of the OFPHandler brick is interested in the message in this
\* phase, or the one that is returns at once.
Ignored ==
    \/ cur \in {"hello", "bad_hello"} /\ state # "handshake"
    \/ cur \in {"features", "port_desc"} /\ state # "config"
    \/ cur \in {"echo_request", "echo_reply"} /\ state = "dead"
    \/ cur = "port_status" /\ state # "main"
    \/ cur \in {"port_desc_more", "other"}

HandleIgnored ==
    /\ Ignored
    /\ Goto("R", "loop")
    /\ UNCHANGED <<state, qref, qlen, sem, unreplied, features, waiters, ev, todo,
                   evq, told>>

Handle ==
    /\ At("R", "handle")
    /\ \/ HandleHello \/ HandleBadHello \/ HandleFeatures \/ HandlePortDesc
       \/ HandleEchoRequest \/ HandleEchoReply \/ HandlePortStatus \/ HandleIgnored
    /\ cur' = "other"
    /\ UNCHANGED <<sock, active, peer>>

\* The end of hello_handler.
RequestFeatures ==
    /\ At("R", "request_features")
    /\ Send("R")
    /\ Goto("R", "loop")
    /\ UNCHANGED <<state, sock, active, unreplied, features, cur, evq, told, peer>>

\* The receive loop ends: the phase is dead, recv() saw the end of the stream
\* or an error, or parsing or handling the message raised an exception.
LeaveLoop ==
    /\ At("R", "loop")
    /\ Shutdown
    /\ Goto("R", "kill_send")
    /\ UNCHANGED <<state, active, qref, qlen, sem, unreplied, features, cur, waiters,
                   ev, todo, evq, told, peer>>

RecvStop == (state = "dead" \/ sock # "open" \/ peer = "gone") /\ LeaveLoop

RecvRaise == peer = "up" /\ sock = "open" /\ LeaveLoop

-----------------------------------------------------------------------------
(* S: the send loop.                                                       *)

\* Mutant: the queue is drained, but its slots are not released.
SendFinally_bug(queued) ==
    /\ qref' = FALSE
    /\ qlen' = 0
    /\ sem' = sem
    /\ Close("S", queued)

\* The finally clause of _send_loop: send_q is cleared, the queue is drained
\* and its slots are released, and then the datapath is closed.
SendFinally(queued) ==
    /\ qref' = FALSE
    /\ qlen' = 0
    /\ sem' = sem + qlen
    /\ Close("S", queued)

SendLoopTop ==
    IF state = "dead"
    THEN SendFinally(waiters) /\ Goto("S", "shut")
    ELSE /\ Goto("S", "get")
         /\ UNCHANGED <<state, qref, qlen, sem, waiters, ev, todo, evq, told>>

SendStart ==
    /\ At("S", "spawned")
    /\ SendLoopTop
    /\ UNCHANGED <<sock, active, unreplied, features, cur, peer>>

SendGet ==
    /\ At("S", "get")
    /\ qlen > 0
    /\ qlen' = qlen - 1
    /\ sem' = sem + 1
    /\ Goto("S", "sendall")
    /\ UNCHANGED <<state, sock, active, qref, unreplied, features, cur, waiters, ev,
                   todo, evq, told, peer>>

\* sendall() returns: the kernel took the bytes, also when the switch is silent.
SendDone ==
    /\ At("S", "sendall")
    /\ sock = "open" /\ peer # "gone"
    /\ SendLoopTop
    /\ UNCHANGED <<sock, active, unreplied, features, cur, peer>>

\* sendall() times out or fails.
SendFail ==
    /\ At("S", "sendall")
    /\ SendFinally(waiters)
    /\ Goto("S", "shut")
    /\ UNCHANGED <<sock, active, unreplied, features, cur, peer>>

\* The end of close() in a greenlet other than R.
EndClose(g, next) ==
    /\ At(g, "shut")
    /\ Shutdown
    /\ Goto(g, next)
    /\ UNCHANGED <<state, active, qref, qlen, sem, unreplied, features, cur, waiters,
                   ev, todo, evq, told, peer>>

-----------------------------------------------------------------------------
(* E: the echo request loop.                                               *)

EchoAwake == At("E", "spawned") \/ At("E", "sleep")

\* Mutant: one request too many before the connection is given up.
EchoMayRequest_bug == MaxUnreplied # 0 /\ qref /\ unreplied <= MaxUnreplied + 1

EchoMayRequest == MaxUnreplied # 0 /\ qref /\ unreplied <= MaxUnreplied

EchoRequest ==
    /\ EchoAwake
    /\ EchoMayRequest
    /\ unreplied' = unreplied + 1
    /\ Send("E")
    /\ Goto("E", "sleep")
    /\ UNCHANGED <<state, sock, active, features, cur, evq, told, peer>>

\* Mutant: the loop ends without close().
EchoStop_bug ==
    /\ EchoAwake
    /\ ~EchoMayRequest
    /\ Goto("E", "dead")
    /\ UNCHANGED <<state, waiters, ev, todo, evq, told, sock, active, qref, qlen, sem,
                   unreplied, features, cur, peer>>

\* Too many requests are unanswered or the send loop is gone: close.  Without
\* a maximum the loop ends at once and closes nothing.
EchoStop ==
    /\ EchoAwake
    /\ ~EchoMayRequest
    /\ IF MaxUnreplied = 0
       THEN Goto("E", "dead") /\ UNCHANGED <<state, waiters, ev, todo, evq, told>>
       ELSE Goto("E", "shut") /\ Close("E", waiters)
    /\ UNCHANGED <<sock, active, qref, qlen, sem, unreplied, features, cur, peer>>

-----------------------------------------------------------------------------
(* R again: the finally clause of serve() and the end of the connection.   *)

\* A greenlet is at most once in a queue.
Without(s, g) ==
    IF \E i \in DOMAIN s : s[i] = g
    THEN RemoveAt(s, CHOOSE i \in DOMAIN s : s[i] = g)
    ELSE s

\* A killed greenlet leaves every queue it waits in.
Unqueued(g) == [q \in Queues |-> Without(waiters[q], g)]

\* kill() throws GreenletExit into the greenlet where it is blocked; one that
\* never ran is discarded without running its finally clause.
KillSendNow ==
    /\ pc["S"] \in {"spawned", "dead"}
    /\ pc' = [pc EXCEPT !["R"] = "kill_echo", !["S"] = "dead"]
    /\ UNCHANGED <<state, sock, qref, qlen, sem, waiters, ev, todo, evq, told>>

\* Mutant: the send loop swallows the exception and goes on.
KillSendLoop_bug ==
    /\ pc["S"] \in {"get", "sendall"}
    /\ pc' = [pc EXCEPT !["R"] = "kill_echo", !["S"] = "get"]
    /\ UNCHANGED <<state, sock, qref, qlen, sem, waiters, ev, todo, evq, told>>

KillSendLoop ==
    /\ pc["S"] \in {"get", "sendall"}
    /\ SendFinally(waiters)
    /\ pc' = [pc EXCEPT !["R"] = "kill_echo", !["S"] = "shut"]
    /\ UNCHANGED sock

\* Killed inside close(): what is left of the broadcast is lost.
KillInClose(g) ==
    /\ pc[g] = "shut"
    /\ waiters' = Unqueued(g)
    /\ todo' = [todo EXCEPT ![g] = {}]
    /\ ev' = [ev EXCEPT ![g] = "msg"]
    /\ Shutdown
    /\ UNCHANGED <<state, qref, qlen, sem, evq, told>>

KillSend ==
    /\ At("R", "kill_send")
    /\ \/ KillSendNow
       \/ KillSendLoop
       \/ KillInClose("S") /\ pc' = [pc EXCEPT !["R"] = "kill_echo", !["S"] = "dead"]
    /\ UNCHANGED <<active, unreplied, features, cur, peer>>

KillEchoLoop ==
    /\ pc["E"] \in {"spawned", "sleep", "dead"}
    /\ waiters' = Unqueued("E")
    /\ UNCHANGED <<state, sock, qref, qlen, sem, ev, todo, evq, told>>

KillEcho ==
    /\ At("R", "kill_echo")
    /\ KillEchoLoop \/ KillInClose("E")
    /\ pc' = [pc EXCEPT !["R"] = "join", !["E"] = "dead"]
    /\ UNCHANGED <<active, unreplied, features, cur, peer>>

\* Mutant: joinall() is given the echo loop only.
Joined_bug == pc["E"] = "dead"

Joined == pc["S"] = "dead" /\ pc["E"] = "dead"

Join ==
    /\ At("R", "join")
    /\ Joined
    /\ active' = FALSE
    /\ Goto("R", "close")
    /\ UNCHANGED <<state, sock, qref, qlen, sem, unreplied, features, cur, waiters, ev,
                   todo, evq, told, peer>>

\* contextlib.closing: close() of a datapath that is no longer active.
FinalClose ==
    /\ At("R", "close")
    /\ Close("R", waiters)
    /\ Goto("R", "shut")
    /\ UNCHANGED <<sock, active, qref, qlen, sem, unreplied, features, cur, peer>>

-----------------------------------------------------------------------------
(* Applications and the switch.                                            *)

\* An application has the object once the constructor announced it.
Known == pc["R"] # "ctor"

AppSend(a) ==
    /\ Known
    /\ At(a, "run")
    /\ Send(a)
    /\ UNCHANGED <<state, sock, active, unreplied, features, cur, pc, evq, told, peer>>

\* Also by the handler of an observer, in its event loop, for an event of this
\* connection (after Observe) or of another one: DPSet and the ofctl service
\* close the old connection of a switch that connects again.
AppClose(a) ==
    /\ Known
    /\ At(a, "run")
    /\ Close(a, waiters)
    /\ Goto(a, "shut")
    /\ UNCHANGED <<sock, active, qref, qlen, sem, unreplied, features, cur, peer>>

\* _event_loop of an observer: take an event, release its slot, and run a
\* handler that may send a message to the switch or, in the next step, close
\* the datapath (external).
Observe(o) ==
    /\ At(o, "run")
    /\ evq[o] > 0
    /\ evq' = [evq EXCEPT ![o] = @ - 1]
    /\ \/ o \in Talkers /\ Send(o)
       \/ UNCHANGED <<qref, qlen, sem, waiters, ev, todo>>
    /\ UNCHANGED <<state, sock, active, unreplied, features, cur, pc, told, peer>>

Crash ==
    /\ peer = "up"
    /\ peer' = "crashed"
    /\ UNCHANGED <<state, sock, active, sendVars, unreplied, features, cur,
                   greenletVars, eventVars>>

Disconnect ==
    /\ peer = "up"
    /\ peer' = "gone"
    /\ UNCHANGED <<state, sock, active, sendVars, unreplied, features, cur,
                   greenletVars, eventVars>>

-----------------------------------------------------------------------------
RStep ==
    \/ Construct \/ Serve \/ SpawnEcho \/ Handle \/ RequestFeatures \/ RecvStop
    \/ KillSend \/ KillEcho \/ Join \/ FinalClose \/ EndClose("R", "done")

SStep == SendStart \/ SendGet \/ SendDone \/ SendFail \/ EndClose("S", "dead")

EStep == EchoRequest \/ EchoStop \/ EndClose("E", "dead")

Next ==
    \/ RStep
    \/ RecvRaise
    \/ \E m \in Messages : RecvMsg(m)
    \/ SStep
    \/ EStep
    \/ SendResume
    \/ \E o \in Observers : BroadcastResume(o) \/ Observe(o)
    \/ \E a \in Apps : AppSend(a)
    \/ \E a \in Apps \cup Closing : AppClose(a) \/ EndClose(a, "run")
    \/ Crash
    \/ Disconnect

\* Every greenlet that can run is eventually scheduled: recv() and sendall()
\* have a timeout (CONF.socket_timeout), sleep() ends, event loops run.  What
\* the switch does and when applications send or close is left open.  The queue
\* of an observer is FIFO: what comes of other connections, and makes it close
\* this one, does not keep it from an event for ever.
Fairness ==
    /\ WF_vars(RStep)
    /\ WF_vars(SStep)
    /\ WF_vars(EStep)
    /\ WF_vars(SendResume)
    /\ \A o \in Observers : WF_vars(BroadcastResume(o)) /\ SF_vars(Observe(o))
    /\ \A a \in Apps \cup Closing : WF_vars(EndClose(a, "run"))

Spec == Init /\ [][Next]_vars

FairSpec == Spec /\ Fairness

-----------------------------------------------------------------------------
(* What is checked.                                                        *)

Locations == {"ctor", "serve", "spawn_echo", "loop", "handle", "request_features",
              "kill_send", "kill_echo", "join", "close", "shut", "done", "none",
              "spawned", "get", "sendall", "dead", "sleep", "run"}

\* Every variable keeps its type; the two queues keep their bounds.
TypeOK ==
    /\ state \in Phases \cup {"none"}
    /\ sock \in {"open", "shut", "closed"}
    /\ active \in BOOLEAN
    /\ qref \in BOOLEAN
    /\ qlen \in 0..SendQMax
    /\ sem \in 0..SendQMax
    /\ unreplied \in 0..(MaxUnreplied + 1)
    /\ features \in BOOLEAN
    /\ cur \in Messages
    /\ pc \in [Greenlets -> Locations]
    /\ waiters \in [Queues -> Seq(Greenlets)]
    /\ ev \in [Greenlets -> Phases \cup {"msg"}]
    /\ todo \in [Greenlets -> SUBSET Observers]
    /\ evq \in [Observers -> 0..EventQMax]
    /\ told \in [Observers -> Seq(Phases)]
    /\ peer \in {"up", "crashed", "gone"}

\* The free slots of the send queue and the messages in it always add up to
\* its size, whatever is sent, drained or killed in between: release() of the
\* bounded semaphore never raises, and put() after acquire() never blocks.
SlotsConserved == sem + qlen = SendQMax

Rank(phase) == CASE phase = "handshake" -> 1 [] phase = "config" -> 2
                 [] phase = "main" -> 3 [] phase = "dead" -> 4

\* Every observer is told of the phases in the order the connection went
\* through them, and of none twice: three greenlets and the applications
\* broadcast phase changes, and a broadcast can be interrupted at any observer.
PhaseEventsInOrder ==
    \A o \in Observers : \A i, j \in DOMAIN told[o] :
        i < j => Rank(told[o][i]) < Rank(told[o][j])

\* The socket is closed only when neither the send loop nor the echo loop can
\* touch it any more and the phase is dead: is_active guards close() in the
\* greenlets that call it before the connection is torn down.
SocketClosedLast ==
    sock = "closed" => pc["S"] = "dead" /\ pc["E"] = "dead" /\ state = "dead"

\* The connection implements Negotiation: its phases only move forward, dead is
\* final although several greenlets set the phase, no handler moves the phase
\* on once the socket is shut down, and the socket is closed only when dead.
Abstract == INSTANCE Negotiation WITH phase <- state, link <- sock
ImplementsNegotiation == Abstract!Spec

\* A send loop that was killed before it ran at all never cleared send_q.
SendLoopNeverRan == pc["S"] = "dead" /\ qref

\* An observer whose handler closes the connection waits for a slot of its own
\* full queue, and the receive loop waits there too.
SelfBlocked ==
    \E o \in Closing : {o, "R"} \subseteq Range(waiters[o])

\* A closed connection is torn down: serve() returns and the socket is closed,
\* though the greenlets that must end may be blocked on full queues.  A full queue
\* of an observer that is in close() itself is the one they cannot get over.
DeadIsTornDown == (state = "dead") ~> (pc["R"] = "done" \/ SendLoopNeverRan \/ SelfBlocked)

\* A greenlet waiting for a slot of the send queue gets on: the send loop makes
\* room, or its finally clause releases the slots before it blocks in close().
SendersReleased ==
    \A g \in Greenlets \ {"S"} :
        (\E i \in DOMAIN waiters["sem"] : waiters["sem"][i] = g)
            ~> (~Blocked(g) \/ SendLoopNeverRan)

\* The echo loop finds out that a switch went silent, and kills the connection.
SilentSwitchDetected == (peer = "crashed" /\ MaxUnreplied > 0) ~> (state = "dead")

\* Every observer of the dead phase is told that the connection died.
DeathAnnounced ==
    \A o \in StateObs["dead"] :
        (state = "dead") ~> (\E i \in DOMAIN told[o] : told[o][i] = "dead")
=============================================================================
