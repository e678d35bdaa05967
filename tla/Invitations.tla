----------------------------- MODULE Invitations -----------------------------
(***************************************************************************)
(* Invitations: how accounts come to be.  Organisation invitations are     *)
(* sent, cancelled and resent by services/org/org_service.go, those for    *)
(* the platform's own team and for organisation administrators by          *)
(* services/admin/admin_service.go; AcceptInvite of                        *)
(* services/auth/auth_service.go turns one into an account.                *)
(*                                                                         *)
(* One action is one SQL statement with the checks around it.  The         *)
(* transaction of AcceptInvite is one action: its statements lock the row  *)
(* of users, of invitations and of organisations, always in this order,    *)
(* and nothing of it shows before the commit.  A link names its row: it is *)
(* looked up by its hash, so only the link mailed last is found.           *)
(*                                                                         *)
(* Ghost state, never read by a guard: uses, raced, and a request's late.  *)
(***************************************************************************)
EXTENDS Naturals

CONSTANTS
  Invites,    \* rows of invitations, in use or still to be inserted
  Orgs,       \* organisations
  Platform,   \* org_id NULL: the platform itself
  Emails,     \* people
  Requests,   \* goroutines serving a request
  Ops,        \* the operations clients and failures may start
  None

Places == Orgs \cup {Platform}

ASSUME InviteConstants ==
  /\ Platform \notin Orgs
  /\ None \notin Invites \cup Places \cup Emails

VARIABLES
  inv,        \* invitations
  accounts,   \* users: who has an account where
  orgActive,  \* organisations.is_active
  req,        \* the local state of each request
  uses,       \* ghost: the accounts each invitation has paid for
  raced       \* ghost: invitations reopened or expired by a request that had
              \*        read them before they were accepted

vars == <<inv, accounts, orgActive, req, uses, raced>>

Statuses == {"pending", "accepted", "cancelled", "expired"}

Row == [status : Statuses \cup {"unused"}, place : Places \cup {None},
        email : Emails \cup {None}, past : BOOLEAN, scoped : BOOLEAN]

Unused == [status |-> "unused", place |-> None, email |-> None,
           past |-> FALSE, scoped |-> FALSE]

(* A request to send knows what it will insert, the others their row. *)
Local == [pc : {"idle", "send", "invitePlatform", "resend", "expire", "accept"},
          invite : Invites \cup {None}, place : Places \cup {None},
          email : Emails \cup {None}, late : BOOLEAN]

Idle == [pc |-> "idle", invite |-> None, place |-> None, email |-> None,
         late |-> FALSE]

(* Sanity of the state. *)
TypeOK ==
  /\ inv \in [Invites -> Row]
  /\ accounts \subseteq Places \X Emails
  /\ orgActive \in [Orgs -> BOOLEAN]
  /\ req \in [Requests -> Local]
  /\ uses \in [Invites -> Nat]
  /\ raced \subseteq Invites

(* Some people have an account already; organisations are set up inactive. *)
Init ==
  /\ inv = [i \in Invites |-> Unused]
  /\ accounts \in SUBSET (Places \X Emails)
  /\ orgActive = [o \in Orgs |-> FALSE]
  /\ req = [r \in Requests |-> Idle]
  /\ uses = [i \in Invites |-> 0]
  /\ raced = {}

-----------------------------------------------------------------------------
(* Helpers. *)

At(r, label) == req[r].pc = label
Finish(r) == req' = [req EXCEPT ![r] = Idle]
Read(r, label, i) == req' = [req EXCEPT ![r] = [Idle EXCEPT !.pc = label, !.invite = i]]

Home(i) == <<inv[i].place, inv[i].email>>

(* Mistaken Insert: the organisation and the e-mail address are swapped. *)
InsertSwapped(place, email, scopes) ==
  \E i \in Invites, s \in scopes :
    /\ inv[i].status = "unused"
    /\ inv' = [inv EXCEPT ![i] = [status |-> "pending", place |-> email,
                                  email |-> place, past |-> FALSE, scoped |-> s]]

(* INSERT INTO invitations: a fresh link, pending. *)
Insert(place, email, scopes) ==
  \E i \in Invites, s \in scopes :
    /\ inv[i].status = "unused"
    /\ inv' = [inv EXCEPT ![i] = [status |-> "pending", place |-> place,
                                  email |-> email, past |-> FALSE, scoped |-> s]]

-----------------------------------------------------------------------------
(* Sending. *)

(* SendUserInvite: SELECT for a valid pending invitation of the same person. *)
SendCheck(r, o, e) ==
  /\ "send" \in Ops
  /\ At(r, "idle")
  /\ ~\E i \in Invites : Home(i) = <<o, e>> /\ inv[i].status = "pending" /\ ~inv[i].past
  /\ req' = [req EXCEPT ![r] = [Idle EXCEPT !.pc = "send", !.place = o, !.email = e]]
  /\ UNCHANGED <<inv, accounts, orgActive, uses, raced>>

(* ... and the INSERT; a viewer may be restricted to some plans. *)
SendInsert(r) ==
  /\ At(r, "send")
  /\ Insert(req[r].place, req[r].email, BOOLEAN)
  /\ Finish(r)
  /\ UNCHANGED <<accounts, orgActive, uses, raced>>

(* InviteOrgAdmin: no check but that the organisation exists. *)
InviteOrgAdmin(o, e) ==
  /\ "inviteAdmin" \in Ops
  /\ Insert(o, e, {FALSE})
  /\ UNCHANGED <<accounts, orgActive, req, uses, raced>>

(* InvitePlatformUser: refused if the person has a platform account.  The    *)
(* error of that SELECT is dropped: when it fails, the person counts as new. *)
InvitePlatformCheck(r, e) ==
  /\ "platform" \in Ops
  /\ At(r, "idle")
  /\ <<Platform, e>> \notin accounts \/ "fail" \in Ops
  /\ req' = [req EXCEPT ![r] = [Idle EXCEPT !.pc = "invitePlatform",
                                            !.place = Platform, !.email = e]]
  /\ UNCHANGED <<inv, accounts, orgActive, uses, raced>>

InvitePlatformInsert(r) ==
  /\ At(r, "invitePlatform")
  /\ Insert(Platform, req[r].email, {FALSE})
  /\ Finish(r)
  /\ UNCHANGED <<accounts, orgActive, uses, raced>>

-----------------------------------------------------------------------------
(* Cancelling and resending. *)

(* CancelInvitation, CancelPlatformInvitation: one UPDATE ... AND status =  *)
(* 'pending'.                                                               *)
CancelInvitation(i) ==
  /\ "cancel" \in Ops
  /\ inv[i].status = "pending"
  /\ inv' = [inv EXCEPT ![i].status = "cancelled"]
  /\ UNCHANGED <<accounts, orgActive, req, uses, raced>>

(* Mistaken ResendRead: an accepted invitation is not refused. *)
ResendReadAny(r, i) ==
  /\ "resend" \in Ops
  /\ At(r, "idle")
  /\ inv[i].place \in Orgs
  /\ Read(r, "resend", i)
  /\ UNCHANGED <<inv, accounts, orgActive, uses, raced>>

(* ResendInvitation: SELECT, and the check that it is not accepted. *)
ResendRead(r, i) ==
  /\ "resend" \in Ops
  /\ At(r, "idle")
  /\ inv[i].place \in Orgs
  /\ inv[i].status # "accepted"
  /\ Read(r, "resend", i)
  /\ UNCHANGED <<inv, accounts, orgActive, uses, raced>>

(* ResendPlatformInvitation: the SELECT does not look at the status. *)
ResendPlatformRead(r, i) ==
  /\ "platform" \in Ops
  /\ At(r, "idle")
  /\ inv[i].place = Platform
  /\ Read(r, "resend", i)
  /\ UNCHANGED <<inv, accounts, orgActive, uses, raced>>

(* Both: UPDATE ... SET token_hash, expires_at, status = 'pending' WHERE id, *)
(* whatever has become of the row.                                           *)
ResendUpdate(r) ==
  /\ At(r, "resend")
  /\ inv' = [inv EXCEPT ![req[r].invite].status = "pending", ![req[r].invite].past = FALSE]
  /\ raced' = IF req[r].late THEN raced \cup {req[r].invite} ELSE raced
  /\ Finish(r)
  /\ UNCHANGED <<accounts, orgActive, uses>>

-----------------------------------------------------------------------------
(* AcceptInvite. *)

(* SELECT ... WHERE token_hash, then the status and expiry checks. *)
AcceptRead(r, i) ==
  /\ At(r, "idle")
  /\ inv[i].status = "pending"
  /\ Read(r, IF inv[i].past THEN "expire" ELSE "accept", i)
  /\ UNCHANGED <<inv, accounts, orgActive, uses, raced>>

(* The link is past its time: UPDATE ... SET status = 'expired' WHERE id. *)
AcceptExpire(r) ==
  /\ At(r, "expire")
  /\ inv' = [inv EXCEPT ![req[r].invite].status = "expired"]
  /\ raced' = IF req[r].late THEN raced \cup {req[r].invite} ELSE raced
  /\ Finish(r)
  /\ UNCHANGED <<accounts, orgActive, uses>>

(* Mistaken acceptance: AND status = 'pending' is missing. *)
AcceptableStale(i) == Home(i) \notin accounts /\ ~inv[i].scoped

(* Mistaken acceptance: without UNIQUE (org_id, email). *)
AcceptableTwice(i) == inv[i].status = "pending" /\ ~inv[i].scoped

(* What the statements of the transaction require: UNIQUE (org_id, email),  *)
(* AND status = 'pending' with a row affected, and no plans: the INSERT     *)
(* INTO plan_viewers names a column id that the table does not have.        *)
Acceptable(i) == Home(i) \notin accounts /\ inv[i].status = "pending" /\ ~inv[i].scoped

(* Request r has committed its acceptance of i; ghost: the other requests   *)
(* that have read i are late.                                               *)
Overtake(r, i) ==
  [q \in Requests |-> IF q = r THEN Idle
                      ELSE IF req[q].invite = i THEN [req[q] EXCEPT !.late = TRUE]
                      ELSE req[q]]

(* COMMIT: the account, the invitation, and the organisation made active. *)
AcceptCommit(r) ==
  LET i == req[r].invite
  IN /\ At(r, "accept")
     /\ Acceptable(i)
     /\ accounts' = accounts \cup {Home(i)}
     /\ inv' = [inv EXCEPT ![i].status = "accepted"]
     /\ orgActive' = [o \in Orgs |-> orgActive[o] \/ o = inv[i].place]
     /\ uses' = [uses EXCEPT ![i] = @ + 1]
     /\ req' = Overtake(r, i)
     /\ UNCHANGED raced

(* A statement fails or affects no row: the transaction rolls back. *)
AcceptRollback(r) ==
  /\ At(r, "accept")
  /\ ~Acceptable(req[r].invite)
  /\ Finish(r)
  /\ UNCHANGED <<inv, accounts, orgActive, uses, raced>>

-----------------------------------------------------------------------------
(* The world around. *)

(* A first single sign-on provisions the account (sso_auth.go). *)
Provision(o, e) ==
  /\ "sso" \in Ops
  /\ <<o, e>> \notin accounts
  /\ accounts' = accounts \cup {<<o, e>>}
  /\ UNCHANGED <<inv, orgActive, req, uses, raced>>

(* UpdateOrg: UPDATE organisations SET is_active. *)
SetOrgActive(o) ==
  /\ "org" \in Ops
  /\ orgActive' = [orgActive EXCEPT ![o] = ~@]
  /\ UNCHANGED <<inv, accounts, req, uses, raced>>

(* expires_at passes. *)
Expire(i) ==
  /\ "time" \in Ops
  /\ inv[i].status # "unused"
  /\ ~inv[i].past
  /\ inv' = [inv EXCEPT ![i].past = TRUE]
  /\ UNCHANGED <<accounts, orgActive, req, uses, raced>>

(* The next statement of r fails, or its client goes away. *)
Fail(r) ==
  /\ "fail" \in Ops
  /\ ~At(r, "idle")
  /\ Finish(r)
  /\ UNCHANGED <<inv, accounts, orgActive, uses, raced>>

-----------------------------------------------------------------------------
Start(r) ==
  \/ \E o \in Orgs, e \in Emails : SendCheck(r, o, e)
  \/ \E e \in Emails : InvitePlatformCheck(r, e)
  \/ \E i \in Invites : ResendRead(r, i) \/ ResendPlatformRead(r, i) \/ AcceptRead(r, i)

Step(r) ==
  \/ SendInsert(r) \/ InvitePlatformInsert(r) \/ ResendUpdate(r)
  \/ AcceptExpire(r) \/ AcceptCommit(r) \/ AcceptRollback(r)

Next ==
  \/ \E r \in Requests : Start(r) \/ Step(r) \/ Fail(r)
  \/ \E i \in Invites : CancelInvitation(i) \/ Expire(i)
  \/ \E o \in Orgs, e \in Emails : InviteOrgAdmin(o, e) \/ Provision(o, e)
  \/ \E o \in Orgs : SetOrgActive(o)

Spec == Init /\ [][Next]_vars

-----------------------------------------------------------------------------
(* Properties. *)

(* AcceptInvite "consumes a one-time invitation token": an invitation pays   *)
(* for at most one account, and only while it is pending, although resends   *)
(* and expiries that overlap with an acceptance can make an accepted         *)
(* invitation look pending again.                                            *)
PromiseState(i) ==
  CASE uses[i] = 0 -> IF inv[i].status = "pending" THEN "open" ELSE "closed"
    [] uses[i] = 1 -> "spent"
    [] OTHER       -> "spent twice"

Promise == INSTANCE OneShot WITH
             Item <- Invites, state <- [i \in Invites |-> PromiseState(i)]
RefinesOneShot == Promise!Spec

(* The check for a duplicate in SendUserInvite is not atomic with its INSERT *)
(* and InviteOrgAdmin has none, so a person may hold several pending         *)
(* invitations to one place; no two of them are ever turned into accounts.   *)
OneInvitationPerAccount ==
  \A i, j \in Invites : uses[i] > 0 /\ uses[j] > 0 /\ Home(i) = Home(j) => i = j

(* org_service.go:162, "accepted ones are immutable".  What has been         *)
(* accepted in an organisation reads otherwise later only if a resend or an  *)
(* expiry had read it before the acceptance and wrote after it.              *)
AcceptancesUndoneOnlyInFlight ==
  \A i \in Invites :
    uses[i] > 0 /\ inv[i].status # "accepted" /\ inv[i].place \in Orgs => i \in raced

(* auth_service.go:327, "if plan_ids is set on the invitation (plan-scoped   *)
(* viewer invite), the corresponding plan_viewers rows are written within    *)
(* the same transaction": an acceptance that has passed the checks is turned *)
(* down only for an account that exists or an invitation used meanwhile.     *)
AcceptRefusedForCause ==
  [][\A r \in Requests :
       At(r, "accept") /\ ~At(r, "accept")' =>
         LET i == req[r].invite
         IN uses'[i] > uses[i] \/ Home(i) \in accounts \/ inv[i].status # "pending"]_vars
=============================================================================
