------------------------------- MODULE MCCalls -------------------------------
(***************************************************************************)
(* TLC instances of Calls: one call to ann, signals from her and from a    *)
(* stranger on two subscriptions, a ring of one clock tick.                *)
(***************************************************************************)
EXTENDS Calls, TLC

CONSTANTS ann, bob, r1, w1, w2

AllAnn   == [r \in Requests |-> ann]
OneTick  == [r \in Requests |-> 1]
WithHook == [r \in Requests |-> TRUE]
==============================================================================
