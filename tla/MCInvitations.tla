---------------------------- MODULE MCInvitations ----------------------------
(* Invitations on small instances. *)
EXTENDS Invitations, TLC

Symmetry == Permutations(Invites) \cup Permutations(Requests) \cup Permutations(Emails)
=============================================================================
