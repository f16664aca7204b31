---------------------------- MODULE MCDatapath ----------------------------
(* Instances of Datapath for TLC: one or two observers, and at most one     *)
(* other application.                                                       *)
EXTENDS Datapath

CONSTANTS o1, o2

Two == <<o1, o2>>
One == <<o1>>

Everybody == [p \in Phases |-> {o1, o2}]
FirstOnly == [p \in Phases |-> {o1}]
Nobody == [p \in Phases |-> {}]

\* The first observer is interested in the main phase only, the second in the
\* end of the connection too, the way DPSet is.
Mixed == [p \in Phases |->
             CASE p = "main" -> {o1, o2} [] p = "dead" -> {o2} [] OTHER -> {}]
=============================================================================
