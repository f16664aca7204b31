------------------------------- MODULE MCVrrp -------------------------------
(* Instances of Vrrp for TLC: an advertisement interval is 3 ticks, so that  *)
(* the skew of 1 or 2 ticks of two priorities is less than an interval.      *)
EXTENDS Vrrp

MCSkew == [p \in AllPriorities, i \in Intervals |->
              IF p >= 2 THEN 1 ELSE 2]
MCInterval == [r \in Routers |-> 3]
MCStartPriority == [r \in Routers |-> IF r = 1 THEN 2 ELSE 1]
MCStartMode == [r \in Routers |-> [preempt |-> TRUE, delay |-> IF r = 1 THEN 2 ELSE 0]]
MCModes == {[preempt |-> FALSE, delay |-> 0]}
=============================================================================
