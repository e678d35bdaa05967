---------------------------- MODULE MCOfflineQueue ----------------------------
(***************************************************************************)
(* OfflineQueue with one record and one draft, and what each run lets the  *)
(* users, the server and the network do.                                   *)
(***************************************************************************)
EXTENDS OfflineQueue

AllOps == {"lose", "refuse", "reload", "expire", "signOut"}
ExpiryOps == {"refuse", "expire"}
=============================================================================
