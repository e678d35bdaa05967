---------------------------- MODULE SessionLife -----------------------------
(***************************************************************************)
(* What the session core promises, token rotation left out: a session is   *)
(* opened once, by a login, and when it is closed it stays closed.         *)
(* Sessions implements this module under the mapping it states at its end. *)
(***************************************************************************)
CONSTANT Session

VARIABLES open, closed   \* sets of sessions

TypeOK == open \subseteq Session /\ closed \subseteq Session

Init == open = {} /\ closed = {}

Open(s) ==
  /\ s \notin open \cup closed
  /\ open' = open \cup {s}
  /\ UNCHANGED closed

(* A logout closes one session, a revocation any number of them. *)
Close(S) ==
  /\ S \subseteq open
  /\ open' = open \ S
  /\ closed' = closed \cup S

Next == (\E s \in Session : Open(s)) \/ (\E S \in SUBSET Session : Close(S))

Spec == Init /\ [][Next]_<<open, closed>>
=============================================================================
