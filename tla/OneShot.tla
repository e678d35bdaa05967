------------------------------- MODULE OneShot -------------------------------
(* What an invitation promises: it can be opened, withdrawn and opened again *)
(* any number of times, and pays for at most one account, which it does      *)
(* only while it is open; then it is spent for good.                         *)
EXTENDS Naturals

CONSTANT Item

VARIABLE state

Init == state = [i \in Item |-> "closed"]

Move(i, from, to) ==
  /\ state[i] = from
  /\ state' = [state EXCEPT ![i] = to]

Open(i) == Move(i, "closed", "open")
Close(i) == Move(i, "open", "closed")
Spend(i) == Move(i, "open", "spent")

Next == \E i \in Item : Open(i) \/ Close(i) \/ Spend(i)

Spec == Init /\ [][Next]_state
=============================================================================
