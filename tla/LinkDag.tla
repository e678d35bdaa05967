------------------------------- MODULE LinkDag -------------------------------
(***************************************************************************)
(* What the activity links of a plan promise: the graph changes by one     *)
(* new link at a time, and only one that closes no cycle at the moment it  *)
(* appears; links may disappear at any time.                               *)
(***************************************************************************)
CONSTANT Node

VARIABLE edges

Closed(E, S) == \A e \in E : e[1] \in S => e[2] \in S

(* b is in every set that contains a and the successors of its members. *)
Reaches(E, a, b) == \A S \in SUBSET Node : a \in S /\ Closed(E, S) => b \in S

Init == edges = {}

Add(s, t) ==
  /\ ~Reaches(edges, t, s)
  /\ edges' = edges \cup {<<s, t>>}

Drop == edges' \in SUBSET edges

Next == Drop \/ \E s, t \in Node : Add(s, t)

Spec == Init /\ [][Next]_edges

TypeOK == edges \subseteq Node \X Node

(* No set of nodes in which every node has a successor. *)
AcyclicIn(E) == \A S \in (SUBSET Node) \ {{}} : \E n \in S : \A m \in S : <<n, m>> \notin E

Acyclic == AcyclicIn(edges)
=============================================================================
