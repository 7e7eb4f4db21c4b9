--------------------------- MODULE MCNegotiation ---------------------------
(***************************************************************************)
(* TLC instances of Negotiation: contracts of one user, two callers.       *)
(***************************************************************************)
EXTENDS Negotiation, TLC

CONSTANTS ann, c1, c2, a1, a2, r1, p1, p2

AllAnn     == [c \in Contracts |-> ann]
\* c2 is the newer contract.
C2IsNewer  == [c \in Contracts |-> IF c = c1 THEN 1 ELSE 2]

\* A bound: once a contract was disturbed, it is followed further only while there
\* is no amendment that replaces others.
NoReplacingOnceDisturbed ==
  disturbed = {} \/ \A a \in Replacing : amendments[a] = NoAmendment

CallerSymmetry == Permutations(Callers)
=============================================================================
