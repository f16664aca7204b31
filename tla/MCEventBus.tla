----------------------------- MODULE MCEventBus -----------------------------
(* An instance of EventBus for TLC: application a announces its events to b, *)
(* each sends requests to the other, a greenlet outside sends to a and makes *)
(* requests of it, and close() may be called twice.                          *)
EXTENDS EventBus, TLC

CONSTANTS a, b, g1

MCObservers == (a :> {b}) @@ (b :> {})
MCServers == (a :> {b}) @@ (b :> {a})
MCContacts == (g1 :> {a})
=============================================================================
