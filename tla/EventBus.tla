------------------------------ MODULE EventBus ------------------------------
(***************************************************************************)
(* The applications of one controller process and the events between them: *)
(* classes RyuApp and AppManager of ryu/base/app_manager.py, after         *)
(* instantiate_apps has registered and started all of them.                *)
(*                                                                         *)
(* Every application has a bounded event queue and an event loop in a      *)
(* greenlet of its own.  Handlers send events to other applications and    *)
(* make synchronous requests; so do greenlets outside the event loops.     *)
(* AppManager.close stops the applications one by one and can be called    *)
(* by several greenlets (run_apps calls it once more on its way out).      *)
(***************************************************************************)
EXTENDS Integers, Sequences

CONSTANTS
    Apps,       \* applications; also the greenlets of their event loops
    Outside,    \* other greenlets that send events and requests
    Closers,    \* greenlets that call AppManager.close
    Observers,  \* app -> the applications that observe its events
    Servers,    \* app -> the applications its handlers send requests to
    Contacts,   \* outside greenlet -> the applications it sends to
    QMax        \* slots of an event queue (128)

Greenlets == Apps \cup Outside \cup Closers
Callers == Apps \cup Outside

ASSUME BusAssumption ==
    /\ Apps \cap Outside = {} /\ Apps \cap Closers = {} /\ Outside \cap Closers = {}
    /\ Observers \in [Apps -> SUBSET Apps]
    /\ Servers \in [Apps -> SUBSET Apps]
    /\ Contacts \in [Outside -> SUBSET Apps]
    /\ {"free", "none"} \cap Greenlets = {}
    /\ QMax \in Nat \ {0}

VARIABLES
    applications, \* AppManager.applications
    bricks,       \* SERVICE_BRICKS
    observers,    \* app -> names registered as observers of its events
    active,       \* app -> RyuApp.is_active
    evq,          \* app -> RyuApp.events
    sem,          \* app -> counter of _events_sem
    waiters,      \* app -> greenlets blocked on _events_sem, oldest first
    out,          \* greenlet -> the event it is about to enqueue while blocked
    pc,           \* where each greenlet is
    todo,         \* greenlet -> applications its loop has still to go through
    cur,          \* app -> the event its handler was called for
    victim,       \* closer -> the application it is stopping, or "none"
    replied,      \* requesters whose reply_q holds a reply
    lost,         \* requesters nobody will reply to (history)
    lock          \* AppManager.close_sem: the closer that holds it, or "free"

queueVars == <<evq, sem, waiters, out>>
managerVars == <<applications, bricks, observers, active, victim, lock>>
vars == <<applications, bricks, observers, active, evq, sem, waiters, out, pc, todo,
          cur, victim, replied, lost, lock>>

\* Events: one without a reply, the stop event, and a request with its sender.
Event == [kind : {"event", "stop"}] \cup [kind : {"request"}, src : Callers]
Plain == [kind |-> "event"]
Stop == [kind |-> "stop"]
Request(g) == [kind |-> "request", src |-> g]

Init ==
    /\ applications = Apps
    /\ bricks = Apps
    /\ observers = Observers
    /\ active = [a \in Apps |-> TRUE]
    /\ evq = [a \in Apps |-> << >>]
    /\ sem = [a \in Apps |-> QMax]
    /\ waiters = [a \in Apps |-> << >>]
    /\ out = [g \in Greenlets |-> Plain]
    /\ pc = [g \in Greenlets |-> IF g \in Apps THEN "get" ELSE "run"]
    /\ todo = [g \in Greenlets |-> {}]
    /\ cur = [a \in Apps |-> Plain]
    /\ victim = [m \in Closers |-> "none"]
    /\ replied = {}
    /\ lost = {}
    /\ lock = "free"

Blocked(g) == \E a \in Apps : \E i \in DOMAIN waiters[a] : waiters[a][i] = g

At(g, loc) == pc[g] = loc /\ ~Blocked(g)

Goto(g, loc) == pc' = [pc EXCEPT ![g] = loc]

\* Mutant: the event is put without a slot.
SendTo_bug(g, a, event) ==
    /\ evq' = [evq EXCEPT ![a] = Append(@, event)]
    /\ UNCHANGED <<sem, waiters, out>>

\* _send_event: acquire a slot of the receiver's queue, then put the event.
SendTo(g, a, event) ==
    IF sem[a] > 0 /\ waiters[a] = << >>
    THEN /\ evq' = [evq EXCEPT ![a] = Append(@, event)]
         /\ sem' = [sem EXCEPT ![a] = @ - 1]
         /\ UNCHANGED <<waiters, out>>
    ELSE /\ waiters' = [waiters EXCEPT ![a] = Append(@, g)]
         /\ out' = [out EXCEPT ![g] = event]
         /\ UNCHANGED <<evq, sem>>

\* send_event: an event for an application that is not registered is lost.
SendEvent(g, a, event) ==
    \/ a \in bricks /\ SendTo(g, a, event) /\ UNCHANGED lost
    \/ /\ a \notin bricks
       /\ lost' = IF event.kind = "request" THEN lost \cup {g} ELSE lost
       /\ UNCHANGED queueVars

\* A released slot goes to the oldest waiter.
SendResume(a) ==
    /\ sem[a] > 0
    /\ waiters[a] # << >>
    /\ evq' = [evq EXCEPT ![a] = Append(@, out[Head(waiters[a])])]
    /\ sem' = [sem EXCEPT ![a] = @ - 1]
    /\ out' = [out EXCEPT ![Head(waiters[a])] = Plain]
    /\ waiters' = [waiters EXCEPT ![a] = Tail(@)]
    /\ UNCHANGED <<managerVars, pc, todo, cur, replied, lost>>

-----------------------------------------------------------------------------
(* The event loop of application a.                                        *)

\* The loop runs while the application is active or its queue is not empty; it
\* looks at both only between two events, "queued" are the events then left.
LoopTop(a, queued) == IF active[a] \/ queued # << >> THEN "get" ELSE "exited"

\* Mutant: the slot is not released.
Take_bug(a) ==
    /\ At(a, "get")
    /\ evq[a] # << >>
    /\ evq' = [evq EXCEPT ![a] = Tail(@)]
    /\ UNCHANGED sem
    /\ IF Head(evq[a]) = Stop
       THEN Goto(a, LoopTop(a, Tail(evq[a]))) /\ UNCHANGED cur
       ELSE Goto(a, "handler") /\ cur' = [cur EXCEPT ![a] = Head(evq[a])]
    /\ UNCHANGED <<managerVars, waiters, out, todo, replied, lost>>

\* Mutant: the slot is released twice.
TakeTwice_bug(a) ==
    /\ At(a, "get")
    /\ evq[a] # << >>
    /\ evq' = [evq EXCEPT ![a] = Tail(@)]
    /\ sem' = [sem EXCEPT ![a] = @ + 2]
    /\ IF Head(evq[a]) = Stop
       THEN Goto(a, LoopTop(a, Tail(evq[a]))) /\ UNCHANGED cur
       ELSE Goto(a, "handler") /\ cur' = [cur EXCEPT ![a] = Head(evq[a])]
    /\ UNCHANGED <<managerVars, waiters, out, todo, replied, lost>>

Take(a) ==
    /\ At(a, "get")
    /\ evq[a] # << >>
    /\ evq' = [evq EXCEPT ![a] = Tail(@)]
    /\ sem' = [sem EXCEPT ![a] = @ + 1]
    /\ IF Head(evq[a]) = Stop
       THEN Goto(a, LoopTop(a, Tail(evq[a]))) /\ UNCHANGED cur
       ELSE Goto(a, "handler") /\ cur' = [cur EXCEPT ![a] = Head(evq[a])]
    /\ UNCHANGED <<managerVars, waiters, out, todo, replied, lost>>

\* A handler starts to send an event to the observers of its application.
HandlerAnnounce(a) ==
    /\ At(a, "handler")
    /\ todo[a] = {}
    /\ observers[a] # {}
    /\ todo' = [todo EXCEPT ![a] = observers[a]]
    /\ Goto(a, "announce")
    /\ UNCHANGED <<managerVars, queueVars, cur, replied, lost>>

\* send_event_to_observers goes through the list it was given at the start.
AnnounceNext(a) ==
    /\ At(a, "announce")
    /\ \E b \in todo[a] :
           /\ SendEvent(a, b, Plain)
           /\ todo' = [todo EXCEPT ![a] = @ \ {b}]
           /\ pc' = [pc EXCEPT ![a] = IF todo[a] = {b} THEN "finish" ELSE "announce"]
    /\ UNCHANGED <<managerVars, cur, replied>>

\* send_request: the greenlet waits for the reply once the request is queued.
HandlerRequest(a, b) ==
    /\ At(a, "handler")
    /\ b \in Servers[a]
    /\ SendEvent(a, b, Request(a))
    /\ Goto(a, "reply")
    /\ UNCHANGED <<managerVars, todo, cur, replied>>

\* reply_q.get() returns.
GotReply(g, next) ==
    /\ At(g, "reply")
    /\ g \in replied
    /\ replied' = replied \ {g}
    /\ Goto(g, next)
    /\ UNCHANGED <<managerVars, queueVars, todo, cur, lost>>

\* Mutant: the reply is forgotten.
HandlerEnd_bug(a) ==
    /\ At(a, "handler") \/ At(a, "finish")
    /\ cur' = [cur EXCEPT ![a] = Plain]
    /\ Goto(a, LoopTop(a, evq[a]))
    /\ UNCHANGED <<managerVars, queueVars, todo, lost, replied>>

\* The handler returns; that of a request has replied (reply_to_request).
HandlerEnd(a) ==
    /\ At(a, "handler") \/ At(a, "finish")
    /\ replied' = IF cur[a].kind = "request" THEN replied \cup {cur[a].src} ELSE replied
    /\ cur' = [cur EXCEPT ![a] = Plain]
    /\ Goto(a, LoopTop(a, evq[a]))
    /\ UNCHANGED <<managerVars, queueVars, todo, lost>>

\* The handler raises, which the loop survives; a requester is not told.
HandlerRaise(a) ==
    /\ At(a, "handler") \/ At(a, "finish")
    /\ lost' = IF cur[a].kind = "request" THEN lost \cup {cur[a].src} ELSE lost
    /\ cur' = [cur EXCEPT ![a] = Plain]
    /\ Goto(a, LoopTop(a, evq[a]))
    /\ UNCHANGED <<managerVars, queueVars, todo, replied>>

-----------------------------------------------------------------------------
(* Greenlets outside the event loops.                                      *)

OutsideSend(g, a) ==
    /\ At(g, "run")
    /\ SendEvent(g, a, Plain)
    /\ UNCHANGED <<managerVars, pc, todo, cur, replied>>

OutsideRequest(g, a) ==
    /\ At(g, "run")
    /\ SendEvent(g, a, Request(g))
    /\ Goto(g, "reply")
    /\ UNCHANGED <<managerVars, todo, cur, replied>>

-----------------------------------------------------------------------------
(* AppManager.close, by closer m.                                          *)

CloseCall(m) ==
    /\ At(m, "run")
    /\ Goto(m, "lock")
    /\ UNCHANGED <<managerVars, queueVars, todo, cur, replied, lost>>

\* Mutant: nothing keeps a second call of close() out.
CloseLock_bug(m) ==
    /\ At(m, "lock")
    /\ lock' = m
    /\ todo' = [todo EXCEPT ![m] = applications]
    /\ Goto(m, "next")
    /\ UNCHANGED <<applications, bricks, observers, active, victim, queueVars, cur, replied, lost>>

\* close_sem is taken; the list of the applications is made under it.
CloseLock(m) ==
    /\ At(m, "lock")
    /\ lock = "free"
    /\ lock' = m
    /\ todo' = [todo EXCEPT ![m] = applications]
    /\ Goto(m, "next")
    /\ UNCHANGED <<applications, bricks, observers, active, victim, queueVars, cur, replied, lost>>

\* uninstantiate up to stop(): the application is taken off every table.
Uninstantiate(m, a) ==
    /\ At(m, "next")
    /\ a \in todo[m]
    /\ applications' = applications \ {a}
    /\ bricks' = bricks \ {a}
    /\ observers' = [b \in Apps |-> IF b \in bricks \ {a} THEN observers[b] \ {a}
                                                         ELSE observers[b]]
    /\ todo' = [todo EXCEPT ![m] = @ \ {a}]
    /\ victim' = [victim EXCEPT ![m] = a]
    /\ Goto(m, "stop")
    /\ UNCHANGED <<active, lock, queueVars, cur, replied, lost>>

\* Mutant: the application is marked, but its loop is not woken.
StopApp_bug(m) ==
    /\ At(m, "stop")
    /\ active' = [active EXCEPT ![victim[m]] = FALSE]
    /\ Goto(m, "join")
    /\ UNCHANGED <<applications, bricks, observers, victim, lock, todo, cur, replied, lost,
                   queueVars>>

\* RyuApp.stop: after its main thread was killed, the application is told to
\* stop, by its own queue.
StopApp(m) ==
    /\ At(m, "stop")
    /\ active' = [active EXCEPT ![victim[m]] = FALSE]
    /\ SendTo(m, victim[m], Stop)
    /\ Goto(m, "join")
    /\ UNCHANGED <<applications, bricks, observers, victim, lock, todo, cur, replied, lost>>

\* Mutant: stop() does not wait for the event loop.
Joined_bug(m) == TRUE

Joined(m) == pc[victim[m]] = "exited"

JoinApp(m) ==
    /\ At(m, "join")
    /\ Joined(m)
    /\ victim' = [victim EXCEPT ![m] = "none"]
    /\ Goto(m, "next")
    /\ UNCHANGED <<applications, bricks, observers, active, lock, queueVars, todo, cur,
                   replied, lost>>

CloseDone(m) ==
    /\ At(m, "next")
    /\ todo[m] = {}
    /\ lock' = "free"
    /\ Goto(m, "done")
    /\ UNCHANGED <<applications, bricks, observers, active, victim, queueVars, todo, cur,
                   replied, lost>>

-----------------------------------------------------------------------------
LoopStep(a) ==
    Take(a) \/ AnnounceNext(a) \/ GotReply(a, "finish") \/ HandlerEnd(a)

HandlerStep(a) == HandlerAnnounce(a) \/ HandlerRaise(a) \/ \E b \in Apps : HandlerRequest(a, b)

OutsideStep(g) == \E a \in Contacts[g] : OutsideSend(g, a) \/ OutsideRequest(g, a)

CloserStep(m) ==
    \/ CloseLock(m) \/ StopApp(m) \/ JoinApp(m) \/ CloseDone(m)
    \/ \E a \in Apps : Uninstantiate(m, a)

Next ==
    \/ \E a \in Apps : LoopStep(a) \/ HandlerStep(a) \/ SendResume(a)
    \/ \E g \in Outside : OutsideStep(g) \/ GotReply(g, "run")
    \/ \E m \in Closers : CloseCall(m) \/ CloserStep(m)

\* Event loops, woken waiters and calls of close() that have begun run when
\* they can; handlers return.  What a handler or another greenlet sends, and
\* whether close() is called, is left open.
Fairness ==
    /\ \A a \in Apps : WF_vars(LoopStep(a)) /\ WF_vars(SendResume(a))
    /\ \A g \in Outside : WF_vars(GotReply(g, "run"))
    /\ \A m \in Closers : WF_vars(CloserStep(m))

Spec == Init /\ [][Next]_vars

FairSpec == Spec /\ Fairness

-----------------------------------------------------------------------------
(* What is checked.                                                        *)

\* Every variable keeps its type and no event queue grows beyond its size.
TypeOK ==
    /\ applications \subseteq Apps
    /\ bricks \subseteq Apps
    /\ observers \in [Apps -> SUBSET Apps]
    /\ active \in [Apps -> BOOLEAN]
    /\ evq \in [Apps -> Seq(Event)]
    /\ sem \in [Apps -> 0..QMax]
    /\ waiters \in [Apps -> Seq(Greenlets)]
    /\ out \in [Greenlets -> Event]
    /\ pc \in [Greenlets -> {"get", "handler", "announce", "reply", "finish", "exited",
                             "run", "lock", "next", "stop", "join", "done"}]
    /\ todo \in [Greenlets -> SUBSET Apps]
    /\ cur \in [Apps -> Event]
    /\ victim \in [Closers -> Apps \cup {"none"}]
    /\ replied \subseteq Callers
    /\ lost \subseteq Callers
    /\ lock \in Closers \cup {"free"}

\* The free slots and the events of a queue always add up to its size: put()
\* after acquire() never blocks, release() never raises.
SlotsConserved == \A a \in Apps : sem[a] + Len(evq[a]) = QMax

\* When uninstantiate has returned, no handler of the application runs or will
\* run: the stop event is behind everything that was queued before, and
\* stop() waits for the event loop to leave.
StoppedIsQuiet ==
    \A a \in Apps \ applications :
        pc[a] = "exited" \/ \E m \in Closers : victim[m] = a

\* Two calls of close() never stop applications at the same time, so neither
\* finds an application of its list already gone.
CloseIsExclusive ==
    /\ \A m \in Closers : pc[m] \in {"next", "stop", "join"} => lock = m
    /\ \A m \in Closers : pc[m] = "next" => todo[m] \subseteq applications

\* Nobody will reply to g: the receiver was not registered any more, its handler
\* raised, or its event loop had left when the request got a slot.
Stranded(g) ==
    \/ g \in lost
    \/ \E a \in Apps : pc[a] = "exited" /\ \E i \in DOMAIN evq[a] : evq[a][i] = Request(g)

\* g cannot go on before x has: it waits for a slot of the full queue of x, for
\* the reply to a request that x has or handles, in stop() for the event loop
\* of x, or for the lock that x holds.
WaitsFor(g, x) ==
    \/ /\ x \in Apps /\ sem[x] = 0
       /\ \E i \in DOMAIN waiters[x] : waiters[x][i] = g
    \/ /\ x \in Apps /\ At(g, "reply") /\ g \notin replied
       /\ cur[x] = Request(g) \/ \E i \in DOMAIN evq[x] : evq[x][i] = Request(g)
    \/ At(g, "join") /\ victim[g] = x
    \/ At(g, "lock") /\ lock = x

\* g waits for a slot of a queue that was filled after its event loop had left,
\* by senders that had been waiting longer.
ShutOut(g) ==
    \E a \in Apps : /\ pc[a] = "exited" /\ sem[a] = 0
                    /\ \E i \in DOMAIN waiters[a] : waiters[a][i] = g

\* g waits for good: following those it waits for, one gets to a request that
\* nobody will reply to, to a queue nobody empties, or round a cycle.
Doomed(g) ==
    \E S \in SUBSET {x \in Greenlets : Blocked(x) \/ pc[x] \in {"reply", "join", "lock"}} :
        g \in S /\ \A x \in S : Stranded(x) \/ ShutOut(x) \/ \E y \in S : WaitsFor(x, y)

\* A synchronous request is answered, also when the applications are being
\* stopped, unless it was lost, or is behind one that was, or handlers request
\* something of each other.  Nothing is lost but in the ways Stranded names, and
\* a stranded request holds up nobody but those who wait for its sender.
RequestAnswered ==
    \A g \in Callers : (pc[g] = "reply") ~> (pc[g] # "reply" \/ Doomed(g))

\* A greenlet blocked on a full event queue gets its slot, also when the
\* application is being stopped, unless the receiver waits for good.
SendersReleased ==
    \A g \in Callers : Blocked(g) ~> (~Blocked(g) \/ Doomed(g))

\* AppManager.close returns, unless it waits for an application whose handler
\* waits for good.
CloseCompletes ==
    \A m \in Closers : (pc[m] = "lock") ~> (pc[m] = "done" \/ Doomed(m))
=============================================================================
