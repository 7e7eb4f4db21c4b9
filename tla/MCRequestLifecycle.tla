------------------------- MODULE MCRequestLifecycle -------------------------
(***************************************************************************)
(* TLC instances of RequestLifecycle: one request of ann's, of whichever   *)
(* handler the configuration says, answered by ann and by a stranger.      *)
(* Timeout and grace are the smallest that tell "in time", "in the grace   *)
(* period" and "too late" apart on a clock of three values.                *)
(***************************************************************************)
EXTENDS RequestLifecycle, TLC

CONSTANTS ann, bob,      \* users
          r1,            \* the request
          i1, i2,        \* instances; i1 creates the request
          w1, w2         \* workers

OneInstance  == [w \in Workers |-> i1]
TwoInstances == [w \in Workers |-> IF w = w1 THEN i1 ELSE i2]

AllAnn   == [r \in Requests |-> ann]
AllHome  == [r \in Requests |-> i1]
Authz    == [r \in Requests |-> "authz"]
Secrets  == [r \in Requests |-> "secrets"]
NoTime   == [r \in Requests |-> 0]
OneTick  == [r \in Requests |-> 1]
WithHook == [r \in Requests |-> TRUE]

\* The workers of one instance are interchangeable.
WorkerSymmetry == Permutations(Workers)
=============================================================================
