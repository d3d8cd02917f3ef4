----------------------------- MODULE LossyFifo -----------------------------
(* What event delivery promises to the listeners, without its mechanism:    *)
(* numbered events are handed over in order, each at most once, from a      *)
(* bounded backlog that may lose its oldest event but never its newest.     *)
EXTENDS Integers, FiniteSets

CONSTANTS Capacity,     \* the most events that can wait
          MaxEvents     \* bound on the events sent

VARIABLES sent,         \* events sent so far, numbered 1..sent
          pending,      \* numbers of the events waiting for the listeners
          taken         \* number of the event last handed over

vars == <<sent, pending, taken>>

Init ==
  /\ sent = 0
  /\ pending = {}
  /\ taken = 0

Oldest(n) == n \in pending /\ \A m \in pending : n <= m

Send ==
  /\ sent < MaxEvents
  /\ sent' = sent + 1
  /\ \/ pending' = pending \cup {sent + 1}
     \/ \E n \in pending : Oldest(n) /\ pending' = (pending \ {n}) \cup {sent + 1}
  /\ UNCHANGED taken

Lose ==
  /\ \E n \in pending :
        /\ Oldest(n)
        /\ n # sent
        /\ pending' = pending \ {n}
  /\ UNCHANGED <<sent, taken>>

Take ==
  /\ \E n \in pending :
        /\ Oldest(n)
        /\ taken' = n
        /\ pending' = pending \ {n}
  /\ UNCHANGED sent

Next == Send \/ Lose \/ Take

(* The backlog is bounded at every step: a sender that finds it full must   *)
(* lose the oldest event, it may not grow.                                  *)
BoundedNext == Next /\ Cardinality(pending') <= Capacity

Spec == Init /\ [][BoundedNext]_vars
=============================================================================
