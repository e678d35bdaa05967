------------------------------ MODULE Sessions ------------------------------
(***************************************************************************)
(* The session core of the StratPlan API: refresh tokens, their rotation   *)
(* and their revocation, as the concurrent requests of                     *)
(* internal/services/auth/auth_service.go (Login, RefreshToken, Logout,    *)
(* RequestPasswordReset, ConfirmPasswordReset), services/org/profile.go    *)
(* (ChangePassword, RevokeAllSessions) and services/org/org_service.go     *)
(* (UpdateUser) perform them.                                              *)
(*                                                                         *)
(* A request is a goroutine that issues one SQL statement at a time on the *)
(* shared pool; every statement commits on its own unless the code opens a *)
(* transaction, so other requests run between any two statements.  One     *)
(* action below is one statement (reads are merged with the checks the     *)
(* handler makes on what they returned).  ConfirmPasswordReset is the only *)
(* transaction; it holds row locks from its updates to its commit.         *)
(*                                                                         *)
(* Ghost state, never read by a guard: line, late, missed, ended, redeemed. *)
(***************************************************************************)
EXTENDS Naturals, FiniteSets

CONSTANTS
  Users,         \* rows of users
  Requests,      \* goroutines serving a request
  Tokens,        \* rows of refresh_tokens, in use or still to be inserted
  ResetTokens,   \* rows of password_reset_tokens
  MaxPassword,   \* bound: number of password changes of one user
  Ops,           \* the operations clients and failures may start
  None

ASSUME ConstantsAssumption ==
  /\ None \notin Tokens \cup Users \cup ResetTokens \cup Requests
  /\ MaxPassword \in Nat

VARIABLES
  active,    \* users.is_active
  password,  \* users.password_hash, as a version number
  tok,       \* refresh_tokens
  reset,     \* password_reset_tokens
  req,       \* the local state of each request
  missed,    \* ghost: users whose last revoke-all statement did not run
  ended,     \* ghost: lines ended by a logout or by the idle timeout
  redeemed   \* ghost: how many password changes each reset token has paid for

vars == <<active, password, tok, reset, req, missed, ended, redeemed>>

(* The statements at which a request can be waiting to run. *)
Labels == {"idle", "lastLogin", "issue", "revoke", "idleRevoke", "loadUser",
           "insertReset", "confirm", "commit", "savePassword", "revokeAll"}

(* The request has authenticated its caller and may still mint a token. *)
Carrying == {"lastLogin", "issue", "revoke", "loadUser"}

(* The request works on the refresh token it was presented. *)
Refreshing == {"revoke", "idleRevoke", "loadUser", "issue"}

(* Ghost: "raced" when a revocation took effect under the request that      *)
(* minted the token; "heir" when the token it rotated was raced or an heir.  *)
Lateness == {"no", "raced", "heir"}

(* Ghost: a "token line" (auth_service.go:169) is a chain of rotations,     *)
(* named after its first token.  A login starts one, and so does a refresh  *)
(* that presents a token another refresh is still at work on: it has no     *)
(* line until it inserts its token.  Any other refresh goes on with the     *)
(* line of the token it presents.  A session is a login and all its lines.  *)
Row ==
  [status : {"unused", "live", "revoked"}, age : {"fresh", "idle", "expired"},
   user : Users \cup {None}, session : Tokens \cup {None},
   line : Tokens \cup {None}, cred : Nat, late : Lateness]

Unused == [status |-> "unused", age |-> "fresh", user |-> None,
           session |-> None, line |-> None, cred |-> 0, late |-> "no"]

Local ==
  [pc : Labels, user : Users \cup {None}, token : Tokens \cup {None},
   session : Tokens \cup {None}, line : Tokens \cup {None},
   reset : ResetTokens \cup {None}, cred : Nat, late : Lateness,
   locked : SUBSET Tokens]

Idle == [pc |-> "idle", user |-> None, token |-> None, session |-> None,
         line |-> None, reset |-> None, cred |-> 0, late |-> "no", locked |-> {}]

ResetRow == [status : {"unused", "open", "used", "expired"},
             user : Users \cup {None}]

(* Sanity of the state. *)
TypeOK ==
  /\ active \in [Users -> BOOLEAN]
  /\ password \in [Users -> Nat]
  /\ tok \in [Tokens -> Row]
  /\ reset \in [ResetTokens -> ResetRow]
  /\ req \in [Requests -> Local]
  /\ missed \subseteq Users
  /\ ended \subseteq Tokens
  /\ redeemed \in [ResetTokens -> Nat]

Init ==
  /\ active = [u \in Users |-> TRUE]
  /\ password = [u \in Users |-> 0]
  /\ tok = [t \in Tokens |-> Unused]
  /\ reset = [k \in ResetTokens |-> [status |-> "unused", user |-> None]]
  /\ req = [r \in Requests |-> Idle]
  /\ missed = {}
  /\ ended = {}
  /\ redeemed = [k \in ResetTokens |-> 0]

-----------------------------------------------------------------------------
(* Helpers. *)

Live(t) == tok[t].status = "live"
LiveOf(u) == {t \in Tokens : Live(t) /\ tok[t].user = u}

At(r, label) == req[r].pc = label
Goto(r, label) == req' = [req EXCEPT ![r].pc = label]
Finish(r) == req' = [req EXCEPT ![r] = Idle]

(* Row locks: an open ConfirmPasswordReset transaction holds its user's row *)
(* and the token rows its revoke-all statement has touched.                 *)
UserFree(u) == \A q \in Requests : ~(At(q, "commit") /\ req[q].user = u)
TokenFree(t) == \A q \in Requests : ~(At(q, "commit") /\ t \in req[q].locked)

(* Bounds: requests start only when the rows they may insert still fit. *)
RoomForToken ==
  Cardinality({t \in Tokens : tok[t].status = "unused"})
    > Cardinality({q \in Requests : req[q].pc \in Carrying})
RoomForPassword(u) ==
  password[u] + Cardinality({q \in Requests :
     req[q].pc \in {"confirm", "commit", "savePassword"} /\ req[q].user = u})
    < MaxPassword

Revoked(ts) == [t \in Tokens |->
                  IF t \in ts THEN [tok[t] EXCEPT !.status = "revoked"] ELSE tok[t]]

(* The requests past authentication, of user u and with the token t. *)
InFlightOf(u) == {q \in Requests : req[q].pc \in Carrying /\ req[q].user = u}
InFlightWith(t) == {q \in Requests : req[q].pc \in Carrying /\ req[q].token = t}

(* Request r (if any) is done.  Ghost: a revocation took effect under the   *)
(* requests of S.                                                           *)
MarkLate(S, r) ==
  [q \in Requests |-> IF q = r THEN Idle
                     ELSE IF q \in S THEN [req[q] EXCEPT !.late = "raced"]
                     ELSE req[q]]

-----------------------------------------------------------------------------
(* Login. *)

(* One SELECT returns is_active and the hash; the checks pass for an active *)
(* user whose caller knows the current password.                            *)
LoginRead(r, u) ==
  /\ "login" \in Ops
  /\ At(r, "idle")
  /\ active[u]
  /\ RoomForToken
  /\ req' = [req EXCEPT ![r] = [Idle EXCEPT !.pc = "lastLogin", !.user = u,
                                            !.cred = password[u]]]
  /\ UNCHANGED <<active, password, tok, reset, missed, ended, redeemed>>

(* UPDATE users SET last_login_at: waits for the user's row, changes nothing else. *)
LastLogin(r) ==
  /\ At(r, "lastLogin")
  /\ UserFree(req[r].user)
  /\ Goto(r, "issue")
  /\ UNCHANGED <<active, password, tok, reset, missed, ended, redeemed>>

(* Mistaken Issue: the INSERT's id and user_id arguments swapped. *)
IssueSwapped(r) ==
  /\ At(r, "issue")
  /\ \E t \in Tokens :
       /\ tok[t].status = "unused"
       /\ tok' = [tok EXCEPT ![t] =
            [status |-> "live", age |-> "fresh", user |-> t,
             session |-> req[r].session, line |-> req[r].line, cred |-> req[r].cred,
             late |-> "no"]]
  /\ Finish(r)
  /\ UNCHANGED <<active, password, reset, missed, ended, redeemed>>

(* issueTokenPair: INSERT INTO refresh_tokens.  A login opens a session,    *)
(* named after its first token; a refresh continues the session it rotates. *)
(* Ghost: the token is late when its request is, or when a reset of the     *)
(* same user has run its revoke-all and not yet committed.                  *)
Issue(r) ==
  /\ At(r, "issue")
  /\ \E t \in Tokens :
       /\ tok[t].status = "unused"
       /\ tok' = [tok EXCEPT ![t] =
            [status |-> "live", age |-> "fresh", user |-> req[r].user,
             session |-> IF req[r].session = None THEN t ELSE req[r].session,
             line |-> IF req[r].line = None THEN t ELSE req[r].line,
             cred |-> req[r].cred,
             late |-> IF UserFree(req[r].user) THEN req[r].late ELSE "raced"]]
  /\ Finish(r)
  /\ UNCHANGED <<active, password, reset, missed, ended, redeemed>>

-----------------------------------------------------------------------------
(* RefreshToken. *)

(* Ghost: another request is at work on the token.  Nothing keeps clients    *)
(* from that: tabs share the token, and a timer may refresh while a call does. *)
Contended(r, t) ==
  \E q \in Requests \ {r} : req[q].pc \in Refreshing /\ req[q].token = t
LineFor(r, t) == IF Contended(r, t) THEN None ELSE tok[t].line

(* Mistaken RefreshRead: revoked_at is not looked at. *)
RefreshReadRevoked(r, t) ==
  /\ "refresh" \in Ops
  /\ At(r, "idle")
  /\ tok[t].status # "unused"
  /\ RoomForToken
  /\ req' = [req EXCEPT ![r] =
       [Idle EXCEPT !.pc = "revoke", !.user = tok[t].user, !.token = t,
                    !.session = tok[t].session, !.line = LineFor(r, t),
                    !.cred = tok[t].cred]]
  /\ UNCHANGED <<active, password, tok, reset, missed, ended, redeemed>>

(* SELECT ... WHERE token_hash, then the revoked, expiry and idle checks. *)
RefreshRead(r, t) ==
  /\ "refresh" \in Ops
  /\ At(r, "idle")
  /\ Live(t)
  /\ tok[t].age # "expired"
  /\ RoomForToken
  /\ req' = [req EXCEPT ![r] =
       [Idle EXCEPT !.pc = IF tok[t].age = "idle" THEN "idleRevoke" ELSE "revoke",
                    !.user = tok[t].user, !.token = t, !.session = tok[t].session,
                    !.line = LineFor(r, t), !.cred = tok[t].cred,
                    !.late = IF tok[t].late = "no" THEN "no" ELSE "heir"]]
  /\ UNCHANGED <<active, password, tok, reset, missed, ended, redeemed>>

(* Mistaken idle branch: the error return is missing, the rotation goes on. *)
RefreshIdleGoesOn(r) ==
  /\ At(r, "idleRevoke")
  /\ TokenFree(req[r].token)
  /\ tok' = [tok EXCEPT ![req[r].token].status = "revoked"]
  /\ Goto(r, "loadUser")
  /\ ended' = ended \cup ({req[r].line} \ {None})
  /\ UNCHANGED <<active, password, reset, missed, redeemed>>

(* The idle branch: UPDATE ... SET revoked_at WHERE id, then the error return: *)
(* "this token line is dead either way".                                       *)
RefreshIdle(r) ==
  /\ At(r, "idleRevoke")
  /\ TokenFree(req[r].token)
  /\ tok' = [tok EXCEPT ![req[r].token].status = "revoked"]
  /\ Finish(r)
  /\ ended' = ended \cup ({req[r].line} \ {None})
  /\ UNCHANGED <<active, password, reset, missed, redeemed>>

(* Mistaken RefreshRevoke: the presented token is left alive. *)
RefreshKeepsToken(r) ==
  /\ At(r, "revoke")
  /\ Goto(r, "loadUser")
  /\ UNCHANGED <<active, password, tok, reset, missed, ended, redeemed>>

(* UPDATE refresh_tokens SET revoked_at = NOW() WHERE id: no test that the  *)
(* row is still unrevoked, so it never fails to match.                      *)
RefreshRevoke(r) ==
  /\ At(r, "revoke")
  /\ TokenFree(req[r].token)
  /\ tok' = [tok EXCEPT ![req[r].token].status = "revoked"]
  /\ Goto(r, "loadUser")
  /\ UNCHANGED <<active, password, reset, missed, ended, redeemed>>

(* Mistaken RefreshLoadUser: is_active is not checked. *)
RefreshAnyUser(r) ==
  /\ At(r, "loadUser")
  /\ Goto(r, "issue")
  /\ UNCHANGED <<active, password, tok, reset, missed, ended, redeemed>>

(* SELECT ... FROM users WHERE id, then the is_active check. *)
RefreshLoadUser(r) ==
  /\ At(r, "loadUser")
  /\ IF active[req[r].user] THEN Goto(r, "issue") ELSE Finish(r)
  /\ UNCHANGED <<active, password, tok, reset, missed, ended, redeemed>>

-----------------------------------------------------------------------------
(* Logout, RevokeAllSessions. *)

(* Logout: one UPDATE ... WHERE token_hash AND revoked_at IS NULL.  Ghost:  *)
(* the client hands in the token it holds, which is live or just being      *)
(* rotated; its line ends, and the refreshes in flight with it are late.    *)
HandedIn(t) == (IF Live(t) THEN {tok[t].line} ELSE {})
                 \cup ({req[q].line : q \in InFlightWith(t)} \ {None})
Logout(t) ==
  /\ "logout" \in Ops
  /\ TokenFree(t)
  /\ Live(t) \/ InFlightWith(t) # {}
  /\ tok' = [tok EXCEPT ![t].status = "revoked"]
  /\ req' = MarkLate(InFlightWith(t), None)
  /\ ended' = ended \cup HandedIn(t)
  /\ UNCHANGED <<active, password, reset, missed, redeemed>>

(* UPDATE refresh_tokens SET revoked_at WHERE user_id AND revoked_at IS NULL: *)
(* waits for the rows an open transaction holds.                              *)
RevokeUser(u, r) ==
  /\ \A t \in LiveOf(u) : TokenFree(t)
  /\ tok' = Revoked(LiveOf(u))
  /\ req' = MarkLate(InFlightOf(u), r)
  /\ missed' = missed \ {u}

(* POST /me/sessions/revoke-all by a user who has signed in before. *)
RevokeAllSessions(u) ==
  /\ "revokeAll" \in Ops
  /\ \E t \in Tokens : tok[t].user = u
  /\ RevokeUser(u, None)
  /\ UNCHANGED <<active, password, reset, ended, redeemed>>

(* The second statement of ChangePassword and of a deactivation. *)
RevokeAll(r) ==
  /\ At(r, "revokeAll")
  /\ RevokeUser(req[r].user, r)
  /\ UNCHANGED <<active, password, reset, ended, redeemed>>

-----------------------------------------------------------------------------
(* RequestPasswordReset, ConfirmPasswordReset. *)

(* SELECT ... WHERE email AND is_active = true. *)
ResetRead(r, u) ==
  /\ "reset" \in Ops
  /\ At(r, "idle")
  /\ active[u]
  /\ Cardinality({k \in ResetTokens : reset[k].status = "unused"})
       > Cardinality({q \in Requests : At(q, "insertReset")})
  /\ req' = [req EXCEPT ![r] = [Idle EXCEPT !.pc = "insertReset", !.user = u]]
  /\ UNCHANGED <<active, password, tok, reset, missed, ended, redeemed>>

(* INSERT INTO password_reset_tokens; the link is mailed.  Older links of   *)
(* the user stay open.                                                      *)
ResetInsert(r) ==
  /\ At(r, "insertReset")
  /\ \E k \in ResetTokens :
       /\ reset[k].status = "unused"
       /\ reset' = [reset EXCEPT ![k] = [status |-> "open", user |-> req[r].user]]
  /\ Finish(r)
  /\ UNCHANGED <<active, password, tok, missed, ended, redeemed>>

(* An hour passes. *)
ResetExpire(k) ==
  /\ reset[k].status = "open"
  /\ reset' = [reset EXCEPT ![k].status = "expired"]
  /\ UNCHANGED <<active, password, tok, req, missed, ended, redeemed>>

(* Mistaken ConfirmRead: used_at is not looked at. *)
ConfirmReadUsed(r, k) ==
  /\ At(r, "idle")
  /\ reset[k].status \in {"open", "used"}
  /\ RoomForPassword(reset[k].user)
  /\ req' = [req EXCEPT ![r] = [Idle EXCEPT !.pc = "confirm", !.reset = k,
                                            !.user = reset[k].user]]
  /\ UNCHANGED <<active, password, tok, reset, missed, ended, redeemed>>

(* SELECT ... WHERE token_hash, then the used and expiry checks. *)
ConfirmRead(r, k) ==
  /\ At(r, "idle")
  /\ reset[k].status = "open"
  /\ RoomForPassword(reset[k].user)
  /\ req' = [req EXCEPT ![r] = [Idle EXCEPT !.pc = "confirm", !.reset = k,
                                            !.user = reset[k].user]]
  /\ UNCHANGED <<active, password, tok, reset, missed, ended, redeemed>>

(* Mistaken ConfirmUpdate: the third UPDATE, revoking the tokens, is missing. *)
ConfirmKeepsTokens(r) ==
  /\ At(r, "confirm")
  /\ UserFree(req[r].user)
  /\ Goto(r, "commit")
  /\ UNCHANGED <<active, password, tok, reset, missed, ended, redeemed>>

(* BEGIN and the three UPDATEs.  What they write is invisible until the     *)
(* commit; the rows are locked.  The last one touches the tokens that are   *)
(* live now.                                                                *)
ConfirmUpdate(r) ==
  /\ At(r, "confirm")
  /\ UserFree(req[r].user)
  /\ req' = [req EXCEPT ![r].pc = "commit", ![r].locked = LiveOf(req[r].user)]
  /\ UNCHANGED <<active, password, tok, reset, missed, ended, redeemed>>

(* Mistaken ConfirmCommit: gives up on a link used meanwhile, but without   *)
(* the deferred rollback: the transaction stays open.                       *)
ConfirmLeaks(r) ==
  LET u == req[r].user
      k == req[r].reset
  IN /\ At(r, "commit")
     /\ reset[k].status # "used"
     /\ password' = [password EXCEPT ![u] = @ + 1]
     /\ reset' = [reset EXCEPT ![k].status = "used"]
     /\ redeemed' = [redeemed EXCEPT ![k] = @ + 1]
     /\ tok' = Revoked(req[r].locked)
     /\ req' = MarkLate(InFlightOf(u), r)
     /\ missed' = missed \ {u}
     /\ UNCHANGED <<active, ended>>

(* COMMIT: new password, link used (with no test that it was still unused), *)
(* the locked tokens revoked.  Ghost: that was the revocation of u.          *)
ConfirmCommit(r) ==
  LET u == req[r].user
      k == req[r].reset
  IN /\ At(r, "commit")
     /\ password' = [password EXCEPT ![u] = @ + 1]
     /\ reset' = [reset EXCEPT ![k].status = "used"]
     /\ redeemed' = [redeemed EXCEPT ![k] = @ + 1]
     /\ tok' = Revoked(req[r].locked)
     /\ req' = MarkLate(InFlightOf(u), r)
     /\ missed' = missed \ {u}
     /\ UNCHANGED <<active, ended>>

-----------------------------------------------------------------------------
(* ChangePassword; UpdateUser's is_active change. *)

(* SELECT password_hash, then the comparison with the current password; the *)
(* caller holds an access token, so has signed in before.                   *)
ChangeRead(r, u) ==
  /\ "change" \in Ops
  /\ At(r, "idle")
  /\ \E t \in Tokens : tok[t].user = u
  /\ RoomForPassword(u)
  /\ req' = [req EXCEPT ![r] = [Idle EXCEPT !.pc = "savePassword", !.user = u]]
  /\ UNCHANGED <<active, password, tok, reset, missed, ended, redeemed>>

(* UPDATE users SET password_hash WHERE id. *)
SavePassword(r) ==
  /\ At(r, "savePassword")
  /\ UserFree(req[r].user)
  /\ password' = [password EXCEPT ![req[r].user] = @ + 1]
  /\ Goto(r, "revokeAll")
  /\ UNCHANGED <<active, tok, reset, missed, ended, redeemed>>

(* UpdateUser with is_active = false: UPDATE users; the sessions are next. *)
Deactivate(r, u) ==
  /\ "admin" \in Ops
  /\ At(r, "idle")
  /\ UserFree(u)
  /\ active' = [active EXCEPT ![u] = FALSE]
  /\ req' = [req EXCEPT ![r] = [Idle EXCEPT !.pc = "revokeAll", !.user = u]]
  /\ UNCHANGED <<password, tok, reset, missed, ended, redeemed>>

(* UpdateUser with is_active = true: one UPDATE. *)
Reactivate(u) ==
  /\ "admin" \in Ops
  /\ ~active[u]
  /\ UserFree(u)
  /\ active' = [active EXCEPT ![u] = TRUE]
  /\ UNCHANGED <<password, tok, reset, req, missed, ended, redeemed>>

-----------------------------------------------------------------------------
(* Time and failures. *)

(* SESSION_IDLE_TIMEOUT, then JWT_REFRESH_EXPIRY, pass since the token was issued. *)
Age(t) ==
  /\ "age" \in Ops
  /\ Live(t)
  /\ tok[t].age # "expired"
  /\ tok' = [tok EXCEPT ![t].age = IF @ = "fresh" THEN "idle" ELSE "expired"]
  /\ UNCHANGED <<active, password, reset, req, missed, ended, redeemed>>

(* The next statement of r fails, its client goes away (the context is      *)
(* cancelled) or the server stops: nothing more of r runs, an open          *)
(* transaction rolls back.  A revoke-all that fails is only logged.         *)
Fail(r) ==
  /\ "fail" \in Ops
  /\ ~At(r, "idle")
  /\ Finish(r)
  /\ missed' = IF At(r, "revokeAll") THEN missed \cup {req[r].user} ELSE missed
  /\ UNCHANGED <<active, password, tok, reset, ended, redeemed>>

-----------------------------------------------------------------------------
(* The statements a request runs once it is under way. *)
Step(r) ==
  \/ LastLogin(r) \/ Issue(r)
  \/ RefreshIdle(r) \/ RefreshRevoke(r) \/ RefreshLoadUser(r)
  \/ ResetInsert(r) \/ ConfirmUpdate(r) \/ ConfirmCommit(r)
  \/ SavePassword(r) \/ RevokeAll(r)

(* The requests clients and administrators may make. *)
Start(r) ==
  \/ \E u \in Users : LoginRead(r, u) \/ ResetRead(r, u) \/ ChangeRead(r, u)
                      \/ Deactivate(r, u)
  \/ \E t \in Tokens : RefreshRead(r, t)
  \/ \E k \in ResetTokens : ConfirmRead(r, k)

Next ==
  \/ \E r \in Requests : Start(r) \/ Step(r) \/ Fail(r)
  \/ \E t \in Tokens : Logout(t) \/ Age(t)
  \/ \E u \in Users : RevokeAllSessions(u) \/ Reactivate(u)
  \/ \E k \in ResetTokens : ResetExpire(k)

Spec == Init /\ [][Next]_vars

(* A goroutine whose next statement can run gets to run it; one that waits  *)
(* for a row is queued for it, so it is not overtaken for ever.              *)
FairSpec == Spec /\ \A r \in Requests : SF_vars(Step(r))

-----------------------------------------------------------------------------
(* Properties. *)

(* A revoke-all of u's sessions is due. *)
RevokePending(u) ==
  \E r \in Requests : At(r, "revokeAll") /\ req[r].user = u

(* u's sessions are excused from a revocation: it is due, or it failed. *)
Excused(u) == RevokePending(u) \/ u \in missed

(* auth_service.go ConfirmPasswordReset and profile.go ChangePassword: the  *)
(* only sessions that outlive a password change are those of requests that  *)
(* were already past authentication when the sessions were revoked, and     *)
(* those later rotated out of them; except for a ChangePassword whose       *)
(* revocation is still to come, or failed and was logged.                   *)
OutlivingSessionsWereInFlight ==
  \A t \in Tokens :
    Live(t) /\ tok[t].cred # password[tok[t].user]
      => tok[t].late # "no" \/ Excused(tok[t].user)

(* org_service.go UpdateUser: the only live sessions of a deactivated user  *)
(* are those of requests that had checked is_active before it was cleared   *)
(* and inserted their token after the revocation.  Such a token is never     *)
(* rotated into another while the user stays deactivated.                   *)
DeactivatedSessionsWereInFlight ==
  \A t \in Tokens :
    Live(t) /\ ~active[tok[t].user]
      => tok[t].late = "raced" \/ Excused(tok[t].user)

(* RefreshToken "rotates the refresh token": a line has at most one live     *)
(* token.  Two refreshes of one token that overlap both insert a successor,  *)
(* so each such overlap may add one live token to the session; nothing else  *)
(* does, and what it adds is rotated as one line again.                      *)
OneLiveTokenPerLine ==
  \A t1, t2 \in Tokens :
    Live(t1) /\ Live(t2) /\ tok[t1].line = tok[t2].line => t1 = t2

(* A line whose token was handed in at a logout, or timed out, has no live  *)
(* token, except what a refresh in flight at that moment inserted and what   *)
(* that was rotated into.  A refresh that overlapped with it goes on in a    *)
(* line of its own, which the logout does not reach.                         *)
EndedLinesStayEnded ==
  \A t \in Tokens : Live(t) /\ tok[t].line \in ended => tok[t].late # "no"

(* auth_service.go:88, "one-time token".  Two confirmations that overlap can *)
(* both redeem a reset link; once one has, no later one can any more: the    *)
(* redemptions done or under way only go down.                              *)
Claims(k) == redeemed[k] + Cardinality({q \in Requests :
               req[q].pc \in {"confirm", "commit"} /\ req[q].reset = k})
LaterConfirmationsFail ==
  [][\A k \in ResetTokens : redeemed[k] > 0 => Claims(k)' <= Claims(k)]_vars

(* Every request runs to its end: no statement waits forever for a row an   *)
(* open transaction holds.                                                  *)
RequestsFinish == \A r \in Requests : ~At(r, "idle") ~> At(r, "idle")

-----------------------------------------------------------------------------
(* The abstract session.  A session is open while it has a live token or a  *)
(* refresh that may still insert one.                                       *)
Started == {s \in Tokens : \E t \in Tokens : tok[t].session = s}
Held(s) ==
  \/ \E t \in Tokens : Live(t) /\ tok[t].session = s
  \/ \E r \in Requests : req[r].pc \in Carrying /\ req[r].session = s
OpenSessions == {s \in Started : Held(s)}

Life == INSTANCE SessionLife WITH
          Session <- Tokens, open <- OpenSessions, closed <- Started \ OpenSessions

(* Rotation never revives a session: whatever logouts, timeouts and          *)
(* revocations have closed stays closed, whichever requests overlap.        *)
RefinesSessionLife == Life!Spec

-----------------------------------------------------------------------------
(* What the documentation of the code says, and the runs refute. *)

(* auth_service.go:258: "All existing refresh tokens are revoked so the     *)
(* user is logged out everywhere".                                          *)
ResetLogsOutEverywhere ==
  \A t \in Tokens : Live(t) => tok[t].cred = password[tok[t].user]
=============================================================================
