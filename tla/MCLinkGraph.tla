----------------------------- MODULE MCLinkGraph -----------------------------
(* Instances of LinkGraph for TLC. *)
EXTENDS LinkGraph, TLC

CONSTANTS a1, a2, p1, p2

(* Every activity in one plan; or all but a2, which is in a plan of its own. *)
OnePlan == [a \in Activities |-> p1]
TwoPlans == [a \in Activities |-> IF a = a2 THEN p2 ELSE p1]

RequestSymmetry == Permutations(Requests)
ActivitySymmetry == RequestSymmetry \cup Permutations(Activities)
=============================================================================
