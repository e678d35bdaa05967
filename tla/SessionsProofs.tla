--------------------------- MODULE SessionsProofs ---------------------------
(***************************************************************************)
(* Proofs about Sessions, for any sets of users, requests and tokens.      *)
(*                                                                         *)
(* Four parts: what each kind of step does, field by field, and Shape, the *)
(* types strengthened with what labels promise (a request under way has a  *)
(* user, a request rotating a token has a token in use and its session);   *)
(* the sessions that outlive a revocation; the life of a session; the      *)
(* lines of rotation within a session.                                     *)
(***************************************************************************)
EXTENDS Sessions, FiniteSetTheorems, TLAPS

-----------------------------------------------------------------------------
(* What the helpers do, field by field. *)

(* The fields of a request that no statement but its first one writes. *)
Keeps(q) ==
  /\ req'[q].user = req[q].user
  /\ req'[q].token = req[q].token
  /\ req'[q].session = req[q].session
  /\ req'[q].line = req[q].line
  /\ req'[q].reset = req[q].reset
  /\ req'[q].cred = req[q].cred
  /\ req'[q].locked = req[q].locked

LEMMA IdleTyped == Idle \in Local
  BY DEF Idle, Local, Lateness, Labels

LEMMA GotoFields ==
  ASSUME NEW r \in Requests, NEW l \in Labels, req \in [Requests -> Local], Goto(r, l)
  PROVE  /\ req' \in [Requests -> Local]
         /\ req'[r].pc = l /\ req'[r].late = req[r].late /\ Keeps(r)
         /\ \A q \in Requests : q # r => req'[q] = req[q]
  BY DEF Goto, Local, Keeps

LEMMA FinishFields ==
  ASSUME NEW r \in Requests, req \in [Requests -> Local], Finish(r)
  PROVE  /\ req' \in [Requests -> Local]
         /\ req'[r] = Idle
         /\ \A q \in Requests : q # r => req'[q] = req[q]
  BY IdleTyped DEF Finish

LEMMA MarkLateFields ==
  ASSUME NEW S, NEW r, req \in [Requests -> Local], req' = MarkLate(S, r)
  PROVE  /\ req' \in [Requests -> Local]
         /\ r \in Requests => req'[r] = Idle
         /\ \A q \in Requests : q # r =>
              /\ Keeps(q) /\ req'[q].pc = req[q].pc
              /\ req'[q].late = IF q \in S THEN "raced" ELSE req[q].late
<1>1. req' \in [Requests -> Local]
  BY IdleTyped DEF MarkLate, Local, Lateness
<1>2. r \in Requests => req'[r] = Idle
  BY DEF MarkLate
<1>3. ASSUME NEW q \in Requests, q # r
      PROVE  /\ Keeps(q) /\ req'[q].pc = req[q].pc
             /\ req'[q].late = IF q \in S THEN "raced" ELSE req[q].late
  <2>1. req'[q] = IF q \in S THEN [req[q] EXCEPT !.late = "raced"] ELSE req[q]
    BY <1>3 DEF MarkLate
  <2>2. req[q] \in Local
    OBVIOUS
  <2> QED BY <2>1, <2>2 DEF Keeps, Local
<1> QED BY <1>1, <1>2, <1>3

LEMMA RevokedFields ==
  ASSUME NEW S, tok \in [Tokens -> Row], tok' = Revoked(S)
  PROVE  /\ tok' \in [Tokens -> Row]
         /\ \A t \in Tokens :
              /\ tok'[t].status = IF t \in S THEN "revoked" ELSE tok[t].status
              /\ tok'[t].user = tok[t].user
              /\ tok'[t].session = tok[t].session
              /\ tok'[t].line = tok[t].line
              /\ tok'[t].cred = tok[t].cred
              /\ tok'[t].late = tok[t].late
  BY DEF Revoked, Row

-----------------------------------------------------------------------------
(* Types. *)

Used(t) == tok[t].status # "unused"

RootedTok(t) ==
  Used(t) => /\ tok[t].user \in Users
             /\ tok[t].session \in Tokens /\ tok[t].line \in Tokens

RootedReq(r) ==
  /\ req[r].pc # "idle" => req[r].user \in Users
  /\ req[r].pc \in {"revoke", "idleRevoke", "loadUser"} =>
       req[r].token \in Tokens /\ req[r].session \in Tokens
  /\ req[r].token \in Tokens => Used(req[r].token)
  /\ req[r].pc \in {"confirm", "commit"} => req[r].reset \in ResetTokens
  /\ \A t \in req[r].locked : Used(t)

RootedReset(k) == reset[k].status = "open" => reset[k].user \in Users

Shape ==
  /\ TypeOK
  /\ \A t \in Tokens : RootedTok(t)
  /\ \A r \in Requests : RootedReq(r)
  /\ \A k \in ResetTokens : RootedReset(k)

LEMMA InitShape == Init => Shape
  BY ConstantsAssumption, IdleTyped
     DEF Init, Shape, TypeOK, RootedTok, RootedReq, RootedReset, Used, Unused, Idle, Row,
         ResetRow, Lateness

(* Steps that leave tokens in use as they are and move one request. *)
TokGrows ==
  /\ tok' \in [Tokens -> Row]
  /\ \A t \in Tokens : Used(t) => /\ tok'[t].status # "unused"
                                 /\ tok'[t].user = tok[t].user
                                 /\ tok'[t].session = tok[t].session
                                 /\ tok'[t].line = tok[t].line

OnlyMoves(r) ==
  /\ req' \in [Requests -> Local]
  /\ \A q \in Requests : q # r => /\ Keeps(q) /\ req'[q].pc = req[q].pc
                                   /\ req'[q].late \in {req[q].late, "raced"}

(* All of Shape' but what r's own move must establish. *)
LEMMA OthersRooted ==
  ASSUME NEW r, Shape, TokGrows, OnlyMoves(r)
  PROVE  \A q \in Requests : q # r => RootedReq(q)'
<1> SUFFICES ASSUME NEW q \in Requests, q # r PROVE RootedReq(q)'
  OBVIOUS
<1>1. /\ req'[q].pc = req[q].pc /\ req'[q].user = req[q].user
      /\ req'[q].token = req[q].token /\ req'[q].session = req[q].session
      /\ req'[q].reset = req[q].reset /\ req'[q].locked = req[q].locked
  BY DEF OnlyMoves, Keeps
<1>2. req[q].locked \subseteq Tokens
  BY DEF Shape, TypeOK, Local
<1>3. RootedReq(q)
  BY DEF Shape
<1> QED
  BY <1>1, <1>2, <1>3 DEF RootedReq, TokGrows, Used

LEMMA TokUnchanged == Shape /\ UNCHANGED tok => TokGrows
  BY DEF Shape, TypeOK, TokGrows, Used

LEMMA GotoMoves ==
  ASSUME NEW r \in Requests, NEW l \in Labels, Shape, Goto(r, l)
  PROVE  OnlyMoves(r) /\ req'[r].pc = l /\ req'[r].late = req[r].late /\ Keeps(r)
<1>1. req \in [Requests -> Local]
  BY DEF Shape, TypeOK
<1> QED
  BY <1>1, GotoFields DEF OnlyMoves, Keeps

LEMMA FinishMoves ==
  ASSUME NEW r \in Requests, Shape, Finish(r)
  PROVE  OnlyMoves(r) /\ req'[r] = Idle
<1>1. req \in [Requests -> Local]
  BY DEF Shape, TypeOK
<1> QED
  BY <1>1, FinishFields DEF OnlyMoves, Keeps

LEMMA MarkLateMoves ==
  ASSUME NEW S, NEW r, Shape, req' = MarkLate(S, r)
  PROVE  OnlyMoves(r) /\ (r \in Requests => req'[r] = Idle)
<1>1. req \in [Requests -> Local]
  BY DEF Shape, TypeOK
<1> QED
  BY <1>1, MarkLateFields DEF OnlyMoves

LEMMA IdleRooted == ASSUME NEW r \in Requests, req'[r] = Idle PROVE RootedReq(r)'
  BY ConstantsAssumption DEF RootedReq, Idle

LEMMA BumpTyped ==
  ASSUME NEW S, NEW f \in [S -> Nat], NEW x \in S
  PROVE  [f EXCEPT ![x] = @ + 1] \in [S -> Nat]
  OBVIOUS

(* A request that starts with the fields of x. *)
LEMMA StartMoves ==
  ASSUME NEW r \in Requests, NEW x \in Local, Shape, req' = [req EXCEPT ![r] = x]
  PROVE  OnlyMoves(r) /\ req'[r] = x
<1>1. req \in [Requests -> Local]
  BY DEF Shape, TypeOK
<1> QED
  BY <1>1 DEF OnlyMoves, Keeps

(* A request that starts to refresh token t. *)
LEMMA ReadMoves ==
  ASSUME NEW r \in Requests, NEW t \in Tokens, Shape, RefreshRead(r, t)
  PROVE  /\ Live(t) /\ At(r, "idle") /\ OnlyMoves(r)
         /\ UNCHANGED <<active, password, tok, reset, missed, ended, redeemed>>
         /\ req'[r].pc \in {"revoke", "idleRevoke"} /\ req'[r].user = tok[t].user
         /\ req'[r].token = t /\ req'[r].session = tok[t].session
         /\ req'[r].line = LineFor(r, t) /\ req'[r].cred = tok[t].cred
         /\ req'[r].late = "no" <=> tok[t].late = "no"
         /\ req'[r].locked = {}
<1>1. tok[t] \in Row
  BY DEF Shape, TypeOK
<1>2. PICK p \in {"revoke", "idleRevoke"} : p = IF tok[t].age = "idle" THEN "idleRevoke" ELSE "revoke"
  OBVIOUS
<1>3. PICK d \in Lateness : d = IF tok[t].late = "no" THEN "no" ELSE "heir"
  BY DEF Lateness
<1>4. PICK l \in Tokens \cup {None} : l = LineFor(r, t)
  BY <1>1 DEF LineFor, Row
<1> DEFINE x == [Idle EXCEPT !.pc = p, !.user = tok[t].user, !.token = t,
                             !.session = tok[t].session, !.line = l, !.cred = tok[t].cred,
                             !.late = d]
<1>5. /\ req' = [req EXCEPT ![r] = x] /\ Live(t) /\ At(r, "idle")
      /\ UNCHANGED <<active, password, tok, reset, missed, ended, redeemed>>
  BY <1>2, <1>3, <1>4 DEF RefreshRead
<1>6. x \in Local
  BY <1>1, IdleTyped DEF Local, Row, Labels
<1>7. /\ x.pc = p /\ x.user = tok[t].user /\ x.token = t /\ x.session = tok[t].session
      /\ x.line = l /\ x.cred = tok[t].cred /\ x.late = d /\ x.locked = {}
  BY DEF Idle
<1> HIDE DEF x
<1>8. OnlyMoves(r) /\ req'[r] = x
  BY <1>5, <1>6, StartMoves
<1> QED BY <1>2, <1>3, <1>4, <1>5, <1>7, <1>8

(* One token revoked. *)
LEMMA RevokeOne ==
  ASSUME NEW x \in Tokens, Shape, tok' = [tok EXCEPT ![x].status = "revoked"]
  PROVE  /\ TokGrows
         /\ tok'[x] = [tok[x] EXCEPT !.status = "revoked"]
         /\ \A t \in Tokens : t # x => tok'[t] = tok[t]
<1>1. tok \in [Tokens -> Row]
  BY DEF Shape, TypeOK
<1>2. /\ tok'[x] = [tok[x] EXCEPT !.status = "revoked"]
      /\ \A t \in Tokens : t # x => tok'[t] = tok[t]
  BY <1>1
<1>3. tok' \in [Tokens -> Row]
  BY <1>1 DEF Row
<1>4. /\ tok'[x].status = "revoked" /\ tok'[x].user = tok[x].user
      /\ tok'[x].session = tok[x].session /\ tok'[x].line = tok[x].line
  BY <1>1, <1>2 DEF Row
<1> QED
  BY <1>2, <1>3, <1>4 DEF TokGrows, Used

LEMMA RevokedGrows ==
  ASSUME NEW S, Shape, tok' = Revoked(S)
  PROVE  TokGrows
<1>1. tok \in [Tokens -> Row]
  BY DEF Shape, TypeOK
<1> QED
  BY <1>1, RevokedFields DEF TokGrows, Used

LEMMA NextShape == Shape /\ [Next]_vars => Shape'
<1> SUFFICES ASSUME Shape, [Next]_vars PROVE Shape'
  OBVIOUS
<1> USE ConstantsAssumption
<1> DEFINE Rest == /\ active' \in [Users -> BOOLEAN]
                   /\ password' \in [Users -> Nat]
                   /\ reset' \in [ResetTokens -> ResetRow]
                   /\ missed' \subseteq Users
                   /\ ended' \subseteq Tokens
                   /\ redeemed' \in [ResetTokens -> Nat]
                   /\ \A k \in ResetTokens : RootedReset(k)'
(* The shape of a step that issues no token. *)
<1>a. ASSUME NEW r, OnlyMoves(r), r \in Requests => RootedReq(r)', TokGrows,
             \A t \in Tokens : ~Used(t) => tok'[t] = tok[t], Rest
      PROVE  Shape'
  <2>1. \A t \in Tokens : RootedTok(t)'
    BY <1>a DEF TokGrows, RootedTok, Used, Shape
  <2>2. \A q \in Requests : RootedReq(q)'
    BY <1>a, OthersRooted
  <2> QED
    BY <1>a, <2>1, <2>2 DEF Shape, TypeOK, OnlyMoves, TokGrows
<1>b. UNCHANGED <<active, password, reset, missed, ended, redeemed>> => Rest
  BY DEF Shape, TypeOK, RootedReset
<1>c. UNCHANGED tok => TokGrows /\ \A t \in Tokens : ~Used(t) => tok'[t] = tok[t]
  BY TokUnchanged
(* A request that starts and reads. *)
<1>d. ASSUME NEW r \in Requests, NEW x \in Local, req' = [req EXCEPT ![r] = x],
             req'[r] = x => RootedReq(r)', UNCHANGED tok, Rest
      PROVE  Shape'
  BY <1>a, <1>c, <1>d, StartMoves
(* A request that goes on to its next statement. *)
<1>e. ASSUME NEW r \in Requests, NEW l \in Labels, Goto(r, l), UNCHANGED tok, Rest,
             ~At(r, "idle"), l \notin {"revoke", "idleRevoke", "loadUser", "confirm", "commit"}
      PROVE  Shape'
  <2>1. OnlyMoves(r) /\ req'[r].pc = l /\ Keeps(r)
    BY <1>e, GotoMoves
  <2>2. RootedReq(r)
    BY DEF Shape
  <2>3. RootedReq(r)'
    BY <1>e, <2>1, <2>2 DEF RootedReq, Keeps, At, Used
  <2> QED BY <1>a, <1>c, <1>e, <2>1, <2>3
(* A request that ends. *)
<1>f. ASSUME NEW r \in Requests, Finish(r), UNCHANGED tok, Rest
      PROVE  Shape'
  BY <1>a, <1>c, <1>f, FinishMoves, IdleRooted
(* A revocation of tokens in use. *)
<1>g. ASSUME NEW r, NEW S, NEW L, tok' = Revoked(L), \A t \in L : Used(t),
             req' = MarkLate(S, r), Rest
      PROVE  Shape'
  <2>1. tok \in [Tokens -> Row]
    BY DEF Shape, TypeOK
  <2>2. \A t \in Tokens : ~Used(t) => tok'[t] = tok[t]
    BY <1>g, <2>1 DEF Revoked
  <2> QED
    BY <1>a, <1>g, <2>2, RevokedGrows, MarkLateMoves, IdleRooted
<1> HIDE DEF Rest
<1>1. ASSUME NEW r \in Requests, NEW u \in Users, LoginRead(r, u) PROVE Shape'
  <2> DEFINE x == [Idle EXCEPT !.pc = "lastLogin", !.user = u, !.cred = password[u]]
  <2>1. x \in Local
    BY IdleTyped DEF Local, Labels, Shape, TypeOK
  <2>2. req'[r] = x => RootedReq(r)'
    BY DEF RootedReq, Idle
  <2> QED BY <1>1, <1>b, <1>d, <2>1, <2>2 DEF LoginRead
<1>2. ASSUME NEW r \in Requests, LastLogin(r) PROVE Shape'
  BY <1>2, <1>b, <1>e DEF LastLogin, Labels, At
<1>3. ASSUME NEW r \in Requests, Issue(r) PROVE Shape'
  <2>1. PICK t \in Tokens :
          /\ tok[t].status = "unused"
          /\ tok' = [tok EXCEPT ![t] =
               [status |-> "live", age |-> "fresh", user |-> req[r].user,
                session |-> IF req[r].session = None THEN t ELSE req[r].session,
                line |-> IF req[r].line = None THEN t ELSE req[r].line,
                cred |-> req[r].cred,
                late |-> IF UserFree(req[r].user) THEN req[r].late ELSE "raced"]]
    BY <1>3 DEF Issue
  <2>2. req[r] \in Local /\ req[r].user \in Users
    BY <1>3 DEF Issue, Shape, TypeOK, RootedReq, At
  <2>3. /\ tok' \in [Tokens -> Row]
        /\ \A x \in Tokens : x # t => tok'[x] = tok[x]
        /\ tok'[t].status = "live" /\ tok'[t].user = req[r].user
        /\ tok'[t].session \in Tokens /\ tok'[t].line \in Tokens
    BY <2>1, <2>2 DEF Row, Local, Lateness, Shape, TypeOK
  <2>4. TokGrows
    BY <2>1, <2>3 DEF TokGrows, Used
  <2>5. OnlyMoves(r) /\ req'[r] = Idle
    BY <1>3, FinishMoves DEF Issue
  <2>6. \A x \in Tokens : RootedTok(x)'
    BY <2>1, <2>2, <2>3 DEF RootedTok, Used, Shape
  <2>7. \A q \in Requests : RootedReq(q)'
    BY <2>4, <2>5, OthersRooted, IdleRooted
  <2>8. Rest
    BY <1>3, <1>b DEF Issue
  <2> QED
    BY <2>3, <2>5, <2>6, <2>7, <2>8 DEF Rest, Shape, TypeOK, OnlyMoves
<1>4. ASSUME NEW r \in Requests, NEW t \in Tokens, RefreshRead(r, t) PROVE Shape'
  <2>1. /\ Live(t) /\ OnlyMoves(r)
        /\ UNCHANGED <<active, password, tok, reset, missed, ended, redeemed>>
        /\ req'[r].pc \in {"revoke", "idleRevoke"} /\ req'[r].user = tok[t].user
        /\ req'[r].token = t /\ req'[r].session = tok[t].session /\ req'[r].locked = {}
    BY <1>4, ReadMoves
  <2>2. Used(t) /\ tok[t].user \in Users /\ tok[t].session \in Tokens
    BY <2>1 DEF Live, Used, Shape, RootedTok
  <2>3. RootedReq(r)'
    BY <2>1, <2>2 DEF RootedReq, Used
  <2> QED BY <1>a, <1>b, <1>c, <2>1, <2>3
<1>h. ASSUME NEW x \in Tokens, NEW r, NEW S, Used(x), req' = MarkLate(S, r), Rest,
             tok' = [tok EXCEPT ![x].status = "revoked"]
      PROVE  Shape'
  BY <1>a, <1>h, RevokeOne, MarkLateMoves, IdleRooted
<1>5. ASSUME NEW r \in Requests, RefreshIdle(r) PROVE Shape'
  <2>1. /\ req[r].token \in Tokens /\ Used(req[r].token)
        /\ tok' = [tok EXCEPT ![req[r].token].status = "revoked"]
        /\ Finish(r)
        /\ ended' = ended \cup ({req[r].line} \ {None})
        /\ UNCHANGED <<active, password, reset, missed, redeemed>>
    BY <1>5 DEF RefreshIdle, RootedReq, At, Shape
  <2>2. req[r].line \in Tokens \cup {None}
    BY DEF Shape, TypeOK, Local
  <2>3. Rest
    BY <2>1, <2>2 DEF Rest, Shape, TypeOK, RootedReset
  <2>4. TokGrows /\ \A t \in Tokens : ~Used(t) => tok'[t] = tok[t]
    BY <2>1, RevokeOne
  <2> QED BY <1>a, <2>1, <2>3, <2>4, FinishMoves, IdleRooted
<1>6. ASSUME NEW r \in Requests, RefreshRevoke(r) PROVE Shape'
  <2>1. /\ req[r].token \in Tokens /\ Used(req[r].token)
        /\ req[r].session \in Tokens /\ req[r].user \in Users
        /\ \A t \in req[r].locked : Used(t)
        /\ tok' = [tok EXCEPT ![req[r].token].status = "revoked"]
        /\ "loadUser" \in Labels /\ Goto(r, "loadUser") /\ At(r, "revoke")
    BY <1>6 DEF RefreshRevoke, RootedReq, At, Labels, Shape
  <2>2. TokGrows /\ \A t \in Tokens : ~Used(t) => tok'[t] = tok[t]
    BY <2>1, RevokeOne
  <2>3. OnlyMoves(r) /\ req'[r].pc = "loadUser" /\ Keeps(r)
    BY <2>1, GotoMoves
  <2>4. req[r].locked \subseteq Tokens
    BY DEF Shape, TypeOK, Local
  <2>5. RootedReq(r)'
    BY <2>1, <2>2, <2>3, <2>4 DEF RootedReq, Keeps, TokGrows, Used
  <2> QED
    BY <1>6, <1>a, <1>b, <2>2, <2>3, <2>5 DEF RefreshRevoke
<1>7. ASSUME NEW r \in Requests, RefreshLoadUser(r) PROVE Shape'
  BY <1>7, <1>b, <1>e, <1>f DEF RefreshLoadUser, Labels, At
<1>8. ASSUME NEW t \in Tokens, Logout(t) PROVE Shape'
  <2>1. /\ tok' = [tok EXCEPT ![t].status = "revoked"]
        /\ req' = MarkLate(InFlightWith(t), None)
        /\ ended' = ended \cup HandedIn(t)
        /\ UNCHANGED <<active, password, reset, missed, redeemed>>
    BY <1>8 DEF Logout
  <2>2. Used(t) /\ tok[t].line \in Tokens
    BY <1>8 DEF Logout, InFlightWith, Live, Used, Shape, RootedReq, RootedTok
  <2>3. HandedIn(t) \subseteq Tokens
    BY <2>2 DEF HandedIn, InFlightWith, Shape, TypeOK, Local
  <2>4. Rest
    BY <2>1, <2>3 DEF Rest, Shape, TypeOK, RootedReset
  <2> QED BY <1>h, <2>1, <2>2, <2>4
<1>9. ASSUME NEW r, NEW u \in Users, RevokeUser(u, r),
             UNCHANGED <<active, password, reset, ended, redeemed>>
      PROVE  Shape'
  <2>1. /\ tok' = Revoked(LiveOf(u)) /\ \A t \in LiveOf(u) : Used(t)
        /\ req' = MarkLate(InFlightOf(u), r) /\ missed' = missed \ {u}
    BY <1>9 DEF RevokeUser, LiveOf, Live, Used
  <2>2. Rest
    BY <1>9, <2>1 DEF Rest, Shape, TypeOK, RootedReset
  <2> QED BY <1>g, <2>1, <2>2
<1>10. ASSUME NEW u \in Users, RevokeAllSessions(u) PROVE Shape'
  BY <1>9, <1>10 DEF RevokeAllSessions
<1>11. ASSUME NEW r \in Requests, RevokeAll(r) PROVE Shape'
  BY <1>9, <1>11 DEF RevokeAll, RootedReq, At, Shape
<1>12. ASSUME NEW r \in Requests, NEW u \in Users, ResetRead(r, u) PROVE Shape'
  <2> DEFINE x == [Idle EXCEPT !.pc = "insertReset", !.user = u]
  <2>1. x \in Local
    BY IdleTyped DEF Local, Labels
  <2>2. req'[r] = x => RootedReq(r)'
    BY DEF RootedReq, Idle
  <2> QED BY <1>12, <1>b, <1>d, <2>1, <2>2 DEF ResetRead
<1>13. ASSUME NEW r \in Requests, ResetInsert(r) PROVE Shape'
  <2>1. req[r].user \in Users
    BY <1>13 DEF ResetInsert, At, RootedReq, Shape
  <2>2. Rest
    BY <1>13, <2>1 DEF ResetInsert, Rest, Shape, TypeOK, RootedReset, ResetRow
  <2> QED BY <1>13, <1>f, <2>2 DEF ResetInsert
<1>14. ASSUME NEW k \in ResetTokens, ResetExpire(k) PROVE Shape'
  BY <1>14 DEF ResetExpire, Shape, TypeOK, RootedReset, ResetRow, RootedTok, RootedReq, Used
<1>15. ASSUME NEW r \in Requests, NEW k \in ResetTokens, ConfirmRead(r, k) PROVE Shape'
  <2> DEFINE x == [Idle EXCEPT !.pc = "confirm", !.reset = k, !.user = reset[k].user]
  <2>1. reset[k].user \in Users
    BY <1>15 DEF ConfirmRead, Shape, RootedReset
  <2>2. x \in Local
    BY <2>1, IdleTyped DEF Local, Labels
  <2>3. req'[r] = x => RootedReq(r)'
    BY <2>1 DEF RootedReq, Idle
  <2> QED BY <1>15, <1>b, <1>d, <2>2, <2>3 DEF ConfirmRead
<1>16. ASSUME NEW r \in Requests, ConfirmUpdate(r) PROVE Shape'
  <2> DEFINE x == [req[r] EXCEPT !.pc = "commit", !.locked = LiveOf(req[r].user)]
  <2>1. req' = [req EXCEPT ![r] = x] /\ UNCHANGED tok
    BY <1>16 DEF ConfirmUpdate, Shape, TypeOK
  <2>2. req[r] \in Local
    BY DEF Shape, TypeOK
  <2>3. x \in Local
    BY <2>2 DEF Local, Labels, LiveOf
  <2>4. /\ req[r].user \in Users /\ req[r].reset \in ResetTokens
        /\ req[r].token \in Tokens => Used(req[r].token)
        /\ \A t \in LiveOf(req[r].user) : Used(t)
    BY <1>16 DEF ConfirmUpdate, At, RootedReq, Shape, LiveOf, Live, Used
  <2>5. /\ x.pc = "commit" /\ x.user = req[r].user /\ x.reset = req[r].reset
        /\ x.token = req[r].token /\ x.locked = LiveOf(req[r].user)
    BY <2>2 DEF Local
  <2>6. req'[r] = x => RootedReq(r)'
    <3> HIDE DEF x
    <3> QED BY <2>1, <2>4, <2>5 DEF RootedReq, Used
  <2> QED BY <1>16, <1>b, <1>d, <2>1, <2>3, <2>6 DEF ConfirmUpdate
<1>17. ASSUME NEW r \in Requests, ConfirmCommit(r) PROVE Shape'
  <2>1. /\ tok' = Revoked(req[r].locked) /\ \A t \in req[r].locked : Used(t)
        /\ req' = MarkLate(InFlightOf(req[r].user), r)
        /\ req[r].user \in Users /\ req[r].reset \in ResetTokens
    BY <1>17 DEF ConfirmCommit, RootedReq, At, Shape
  <2>2. Rest
    <3>1. password' \in [Users -> Nat] /\ redeemed' \in [ResetTokens -> Nat]
      BY <1>17, <2>1, BumpTyped DEF ConfirmCommit, Shape, TypeOK
    <3>2. /\ reset' \in [ResetTokens -> ResetRow]
          /\ \A k \in ResetTokens : RootedReset(k)'
      BY <1>17, <2>1 DEF ConfirmCommit, Shape, TypeOK, ResetRow, RootedReset
    <3> QED
      BY <1>17, <2>1, <3>1, <3>2 DEF ConfirmCommit, Rest, Shape, TypeOK
  <2> QED BY <1>g, <2>1, <2>2
<1>18. ASSUME NEW r \in Requests, NEW u \in Users, ChangeRead(r, u) PROVE Shape'
  <2> DEFINE x == [Idle EXCEPT !.pc = "savePassword", !.user = u]
  <2>1. x \in Local
    BY IdleTyped DEF Local, Labels
  <2>2. req'[r] = x => RootedReq(r)'
    BY DEF RootedReq, Idle
  <2> QED BY <1>18, <1>b, <1>d, <2>1, <2>2 DEF ChangeRead
<1>19. ASSUME NEW r \in Requests, SavePassword(r) PROVE Shape'
  <2>1. password' \in [Users -> Nat]
    BY <1>19, BumpTyped DEF SavePassword, At, RootedReq, Shape, TypeOK
  <2>2. Rest
    BY <1>19, <2>1 DEF SavePassword, Rest, Shape, TypeOK, RootedReset
  <2> QED BY <1>19, <1>e, <2>2 DEF SavePassword, Labels, At
<1>20. ASSUME NEW r \in Requests, NEW u \in Users, Deactivate(r, u) PROVE Shape'
  <2> DEFINE x == [Idle EXCEPT !.pc = "revokeAll", !.user = u]
  <2>1. x \in Local
    BY IdleTyped DEF Local, Labels
  <2>2. req'[r] = x => RootedReq(r)'
    BY DEF RootedReq, Idle
  <2>3. Rest
    BY <1>20 DEF Deactivate, Rest, Shape, TypeOK, RootedReset
  <2> QED BY <1>20, <1>d, <2>1, <2>2, <2>3 DEF Deactivate
<1>21. ASSUME NEW u \in Users, Reactivate(u) PROVE Shape'
  BY <1>21 DEF Reactivate, Shape, TypeOK, RootedReset, RootedTok, RootedReq, Used
<1>22. ASSUME NEW t \in Tokens, Age(t) PROVE Shape'
  <2>1. /\ tok' \in [Tokens -> Row]
        /\ \A x \in Tokens : /\ tok'[x].status = tok[x].status
                             /\ tok'[x].user = tok[x].user
                             /\ tok'[x].session = tok[x].session
                             /\ tok'[x].line = tok[x].line
    BY <1>22 DEF Age, Row, Shape, TypeOK
  <2>2. \A q \in Requests : RootedReq(q)'
    BY <1>22, <2>1 DEF Age, Shape, RootedReq, Used, TypeOK, Local
  <2> QED
    BY <1>22, <2>1, <2>2 DEF Age, Shape, TypeOK, RootedReset, RootedTok, Used
<1>23. ASSUME NEW r \in Requests, Fail(r) PROVE Shape'
  <2>1. Rest
    BY <1>23 DEF Fail, Rest, Shape, TypeOK, RootedReset, RootedReq, At
  <2> QED BY <1>23, <1>f, <2>1 DEF Fail
<1>24. CASE UNCHANGED vars
  BY <1>24 DEF vars, Shape, TypeOK, RootedReset, RootedTok, RootedReq, Used
<1> QED
  BY <1>1, <1>2, <1>3, <1>4, <1>5, <1>6, <1>7, <1>8, <1>10, <1>11, <1>12,
     <1>13, <1>14, <1>15, <1>16, <1>17, <1>18, <1>19, <1>20, <1>21, <1>22, <1>23, <1>24
     DEF Next, Start, Step

LEMMA ShapeAlways == Spec => []Shape
<1> QED
  BY InitShape, NextShape, PTL DEF Spec

(* Every reachable state is well typed. *)
THEOREM TypeCorrect == Spec => []TypeOK
<1>1. Shape => TypeOK
  BY DEF Shape
<1> QED
  BY <1>1, ShapeAlways, PTL

-----------------------------------------------------------------------------
(***************************************************************************)
(* The second part: the only sessions that outlive a password change or a  *)
(* deactivation are those of requests that were in flight.                 *)
(*                                                                         *)
(* The argument. A token can only be stale (its password or its user's     *)
(* is_active is no longer the one it was issued under) if a revocation was *)
(* due, failed, or ran while the token was not there to be revoked. So the *)
(* same must hold of a request that carries the credentials and has yet to *)
(* insert its token (ReqOK), and an uncommitted password reset must hold   *)
(* every live token of its user that was not inserted behind it (TxOK).    *)
(* Its last section is about the reset links themselves.                   *)
(***************************************************************************)

TokOK(t) ==
  Live(t) =>
    /\ tok[t].cred # password[tok[t].user] =>
         tok[t].late # "no" \/ Excused(tok[t].user)
    /\ ~active[tok[t].user] => tok[t].late = "raced" \/ Excused(tok[t].user)

ReqOK(r) ==
  /\ req[r].pc \in Carrying /\ req[r].cred # password[req[r].user] =>
       req[r].late # "no" \/ Excused(req[r].user)
  /\ req[r].pc \in {"lastLogin", "issue"} /\ ~active[req[r].user] =>
       req[r].late = "raced" \/ Excused(req[r].user)

TxOK(r) ==
  At(r, "commit") =>
    \A t \in Tokens : Live(t) /\ tok[t].user = req[r].user =>
                        t \in req[r].locked \/ tok[t].late = "raced"

RevInv ==
  /\ Shape
  /\ \A t \in Tokens : TokOK(t)
  /\ \A r \in Requests : ReqOK(r) /\ TxOK(r)

-----------------------------------------------------------------------------
(* No token comes alive. *)
TokLoses ==
  \A t \in Tokens : Live(t)' => /\ Live(t)
                                /\ tok'[t].user = tok[t].user
                                /\ tok'[t].cred = tok[t].cred
                                /\ tok'[t].late = tok[t].late

LEMMA LosesNone == UNCHANGED tok => TokLoses
  BY DEF TokLoses, Live

LEMMA LosesOne ==
  ASSUME NEW x \in Tokens, Shape, tok' = [tok EXCEPT ![x].status = "revoked"]
  PROVE  TokLoses
  BY RevokeOne DEF TokLoses, Live, Shape, TypeOK, Row

LEMMA LosesMany ==
  ASSUME NEW S, Shape, tok' = Revoked(S)
  PROVE  /\ TokLoses
         /\ \A t \in Tokens : Live(t)' => t \notin S
  BY RevokedFields DEF TokLoses, Live, Shape, TypeOK

LEMMA ExcusedKept ==
  ASSUME NEW r, Shape, OnlyMoves(r), missed \subseteq missed', NEW u,
         r \in Requests => ~At(r, "revokeAll") \/ req[r].user # u
  PROVE  Excused(u) => Excused(u)'
<1>1. ASSUME NEW q \in Requests, At(q, "revokeAll"), req[q].user = u
      PROVE  At(q, "revokeAll")' /\ (req[q].user = u)'
  <2>1. q # r
    BY <1>1
  <2> QED BY <1>1, <2>1 DEF OnlyMoves, Keeps, At
<1> QED
  BY <1>1 DEF Excused, RevokePending

(* Nothing of u's outlives the revocation: it is excused, or marked. *)
Settled(u) ==
  \/ Excused(u)
  \/ /\ \A t \in Tokens : Live(t) /\ tok[t].user = u => tok[t].late = "raced"
     /\ \A q \in Requests : req[q].pc \in Carrying /\ req[q].user = u =>
                              req[q].late = "raced"

(* A step that issues no token keeps RevInv if it settles the users whose  *)
(* password or is_active it changes, or whose revocation it completes.     *)
LEMMA RevStep ==
  ASSUME NEW r, NEW V, RevInv, Shape', OnlyMoves(r), TokLoses,
         \A u \in Users \ V : /\ active'[u] = active[u]
                              /\ password'[u] = password[u]
                              /\ Excused(u) => Excused(u)',
         \A u \in V : Settled(u)',
         r \in Requests => ReqOK(r)' /\ TxOK(r)'
  PROVE  RevInv'
<1>1. ASSUME NEW t \in Tokens PROVE TokOK(t)'
  <2> SUFFICES ASSUME Live(t)' PROVE TokOK(t)'
    BY DEF TokOK
  <2>1. /\ Live(t) /\ TokOK(t)
        /\ tok'[t].user = tok[t].user /\ tok'[t].cred = tok[t].cred
        /\ tok'[t].late = tok[t].late /\ tok[t].user \in Users
    BY DEF TokLoses, RevInv, Shape, RootedTok, Used, Live
  <2>2. CASE tok[t].user \in V
    BY <2>1, <2>2 DEF Settled, TokOK
  <2>3. CASE tok[t].user \notin V
    BY <2>1, <2>3 DEF TokOK
  <2> QED BY <2>2, <2>3
<1>2. ASSUME NEW q \in Requests, q # r PROVE ReqOK(q)'
  <2>1. /\ ReqOK(q) /\ req'[q].pc = req[q].pc /\ req'[q].user = req[q].user
        /\ req'[q].cred = req[q].cred /\ req'[q].late \in {req[q].late, "raced"}
    BY <1>2 DEF OnlyMoves, Keeps, RevInv
  <2>2. req[q].pc # "idle" => req[q].user \in Users
    BY DEF RevInv, Shape, RootedReq
  <2>3. CASE req[q].user \in V
    BY <2>1, <2>3 DEF Settled, ReqOK, Carrying
  <2>4. CASE req[q].user \notin V
    BY <2>1, <2>2, <2>4 DEF ReqOK, Carrying
  <2> QED BY <2>3, <2>4
<1>3. ASSUME NEW q \in Requests, q # r PROVE TxOK(q)'
  <2>1. /\ TxOK(q) /\ req'[q].pc = req[q].pc /\ req'[q].user = req[q].user
        /\ req'[q].locked = req[q].locked
    BY <1>3 DEF OnlyMoves, Keeps, RevInv
  <2> QED BY <2>1 DEF TxOK, TokLoses, At
<1> QED BY <1>1, <1>2, <1>3 DEF RevInv
-----------------------------------------------------------------------------
(* Initially, and at every step. *)

LEMMA InitRev == Init => RevInv
<1> SUFFICES ASSUME Init PROVE RevInv
  OBVIOUS
<1>1. Shape
  BY InitShape
<1>2. \A t \in Tokens : ~Live(t)
  BY DEF Init, Live, Unused
<1>3. \A r \in Requests : req[r].pc = "idle"
  BY DEF Init, Idle
<1> QED
  BY <1>1, <1>2, <1>3 DEF RevInv, TokOK, ReqOK, TxOK, Carrying, At

LEMMA IdleOK == ASSUME NEW r \in Requests, req'[r] = Idle PROVE ReqOK(r)' /\ TxOK(r)'
  BY DEF ReqOK, TxOK, Idle, Carrying, At

LEMMA RevokeUserRev ==
  ASSUME NEW u \in Users, NEW r, RevInv, Shape', RevokeUser(u, r),
         r \in Requests => At(r, "revokeAll") /\ req[r].user = u,
         UNCHANGED <<active, password, reset, ended, redeemed>>
  PROVE  RevInv'
<1>1. /\ tok' = Revoked(LiveOf(u)) /\ req' = MarkLate(InFlightOf(u), r)
      /\ missed' = missed \ {u}
  BY DEF RevokeUser
<1>2. Shape
  BY DEF RevInv
<1>3. OnlyMoves(r) /\ (r \in Requests => req'[r] = Idle)
  BY <1>1, <1>2, MarkLateMoves
<1>4. TokLoses /\ \A t \in Tokens : Live(t)' => t \notin LiveOf(u)
  BY <1>1, <1>2, LosesMany
<1>5. ASSUME NEW v \in Users \ {u} PROVE Excused(v) => Excused(v)'
  <2>1. ASSUME NEW q \in Requests, At(q, "revokeAll"), req[q].user = v
        PROVE  At(q, "revokeAll")' /\ (req[q].user = v)'
    BY <1>3, <2>1 DEF OnlyMoves, Keeps, At
  <2> QED BY <1>1, <2>1 DEF Excused, RevokePending
<1>6. Settled(u)'
  <2>1. \A t \in Tokens : Live(t)' => (tok[t].user # u)'
    BY <1>4 DEF TokLoses, LiveOf
  <2>2. ASSUME NEW q \in Requests, (req[q].pc \in Carrying /\ req[q].user = u)'
        PROVE  (req[q].late = "raced")'
    <3>1. q # r
      BY <1>3, <2>2 DEF Idle, Carrying
    <3>2. q \in InFlightOf(u)
      BY <1>3, <2>2, <3>1 DEF OnlyMoves, Keeps, InFlightOf, Carrying
    <3>3. req \in [Requests -> Local]
      BY <1>2 DEF Shape, TypeOK
    <3> QED BY <1>1, <3>1, <3>2, <3>3, MarkLateFields
  <2> QED BY <2>1, <2>2 DEF Settled
<1> DEFINE V == {u}
<1>7. /\ \A v \in Users \ V : /\ active'[v] = active[v]
                              /\ password'[v] = password[v]
                              /\ Excused(v) => Excused(v)'
      /\ \A v \in V : Settled(v)'
  BY <1>5, <1>6
<1> HIDE DEF V
<1> QED
  BY <1>3, <1>4, <1>7, IdleOK, RevStep

LEMMA NextRev == RevInv /\ [Next]_vars => RevInv'
<1> SUFFICES ASSUME RevInv, [Next]_vars PROVE RevInv'
  OBVIOUS
<1>s. Shape /\ Shape'
  BY NextShape DEF RevInv
<1>t. req \in [Requests -> Local] /\ tok \in [Tokens -> Row]
  BY <1>s DEF Shape, TypeOK
(* A step that changes no user's row and completes no revocation. *)
<1>q. ASSUME NEW r, OnlyMoves(r), TokLoses, UNCHANGED <<active, password>>,
             missed \subseteq missed',
             r \in Requests => /\ ~At(r, "revokeAll") \/ req[r].user \in missed'
                               /\ ReqOK(r)' /\ TxOK(r)'
      PROVE  RevInv'
  <2>1. ASSUME NEW u PROVE Excused(u) => Excused(u)'
    <3>1. CASE r \in Requests /\ At(r, "revokeAll") /\ req[r].user = u
      BY <1>q, <3>1 DEF Excused
    <3>2. CASE ~(r \in Requests /\ At(r, "revokeAll") /\ req[r].user = u)
      BY <1>q, <1>s, <3>2, ExcusedKept
    <3> QED BY <3>1, <3>2
  <2> DEFINE V == {}
  <2>2. /\ \A u \in Users \ V : /\ active'[u] = active[u]
                                /\ password'[u] = password[u]
                                /\ Excused(u) => Excused(u)'
        /\ \A u \in V : Settled(u)'
    BY <1>q, <2>1
  <2> HIDE DEF V
  <2> QED BY <1>q, <1>s, <2>2, RevStep
<1>1. ASSUME NEW r \in Requests, NEW u \in Users, LoginRead(r, u) PROVE RevInv'
  <2> DEFINE x == [Idle EXCEPT !.pc = "lastLogin", !.user = u, !.cred = password[u]]
  <2>1. x \in Local
    BY <1>s, IdleTyped DEF Local, Labels, Shape, TypeOK
  <2>2. OnlyMoves(r) /\ req'[r] = x
    BY <1>1, <1>s, <2>1, StartMoves DEF LoginRead
  <2>a. x.pc = "lastLogin" /\ x.user = u /\ x.cred = password[u]
    BY DEF Idle
  <2> HIDE DEF x
  <2>3. /\ req'[r].pc = "lastLogin" /\ req'[r].user = u /\ req'[r].cred = password[u]
        /\ active[u] /\ UNCHANGED <<active, password, tok, missed>> /\ At(r, "idle")
    BY <1>1, <2>2, <2>a DEF LoginRead
  <2>4. ReqOK(r)' /\ TxOK(r)'
    BY <2>3 DEF ReqOK, TxOK, At
  <2> QED BY <1>q, <2>2, <2>3, <2>4, LosesNone DEF At
<1>2. ASSUME NEW r \in Requests, LastLogin(r) PROVE RevInv'
  <2>1. /\ Goto(r, "issue") /\ "issue" \in Labels /\ At(r, "lastLogin")
        /\ UNCHANGED <<active, password, tok, missed>>
    BY <1>2 DEF LastLogin, Labels
  <2>2. OnlyMoves(r) /\ req'[r].pc = "issue" /\ req'[r].late = req[r].late /\ Keeps(r)
    BY <1>s, <2>1, GotoMoves
  <2>3. \A u : Excused(u) => Excused(u)'
    BY <1>s, <2>1, <2>2, ExcusedKept DEF At
  <2>4. ReqOK(r)' /\ TxOK(r)'
    BY <2>1, <2>2, <2>3 DEF ReqOK, TxOK, At, Keeps, Carrying, RevInv
  <2> QED BY <1>q, <2>1, <2>2, <2>4, LosesNone DEF At
<1>3. ASSUME NEW r \in Requests, Issue(r) PROVE RevInv'
  <2>1. PICK x \in Tokens :
          /\ tok[x].status = "unused"
          /\ tok' = [tok EXCEPT ![x] =
               [status |-> "live", age |-> "fresh", user |-> req[r].user,
                session |-> IF req[r].session = None THEN x ELSE req[r].session,
                line |-> IF req[r].line = None THEN x ELSE req[r].line,
                cred |-> req[r].cred,
                late |-> IF UserFree(req[r].user) THEN req[r].late ELSE "raced"]]
    BY <1>3 DEF Issue
  <2>2. /\ \A t \in Tokens : t # x => tok'[t] = tok[t]
        /\ tok'[x].user = req[r].user /\ tok'[x].cred = req[r].cred
        /\ tok'[x].late = IF UserFree(req[r].user) THEN req[r].late ELSE "raced"
    BY <1>t, <2>1
  <2>3. /\ OnlyMoves(r) /\ req'[r] = Idle /\ At(r, "issue")
        /\ UNCHANGED <<active, password, missed>>
    BY <1>3, <1>s, FinishMoves DEF Issue
  <2>4. \A u : Excused(u) => Excused(u)'
    BY <1>s, <2>3, ExcusedKept DEF At
  <2>5. ASSUME NEW t \in Tokens PROVE TokOK(t)'
    <3>1. CASE t = x
      BY <2>2, <2>3, <2>4, <3>1 DEF TokOK, ReqOK, At, Carrying, RevInv
    <3>2. CASE t # x
      BY <2>2, <2>3, <2>4, <3>2 DEF TokOK, Live, RevInv
    <3> QED BY <3>1, <3>2
  <2>6. ASSUME NEW q \in Requests, q # r PROVE ReqOK(q)' /\ TxOK(q)'
    <3>1. /\ req'[q].pc = req[q].pc /\ req'[q].user = req[q].user
          /\ req'[q].cred = req[q].cred /\ req'[q].late \in {req[q].late, "raced"}
          /\ req'[q].locked = req[q].locked /\ ReqOK(q) /\ TxOK(q)
      BY <2>3, <2>6 DEF OnlyMoves, Keeps, RevInv
    <3>2. ReqOK(q)'
      BY <2>3, <2>4, <3>1 DEF ReqOK
    <3>3. At(q, "commit") /\ req[q].user = req[r].user => tok'[x].late = "raced"
      BY <2>2 DEF UserFree
    <3>4. TxOK(q)'
      BY <2>2, <3>1, <3>3 DEF TxOK, At, Live
    <3> QED BY <3>2, <3>4
  <2> QED BY <1>s, <2>3, <2>5, <2>6, IdleOK DEF RevInv
<1>4. ASSUME NEW r \in Requests, NEW t \in Tokens, RefreshRead(r, t) PROVE RevInv'
  <2>1. /\ Live(t) /\ OnlyMoves(r) /\ At(r, "idle")
        /\ req'[r].pc \in {"revoke", "idleRevoke"} /\ req'[r].user = tok[t].user
        /\ req'[r].cred = tok[t].cred /\ (req'[r].late = "no" <=> tok[t].late = "no")
        /\ UNCHANGED <<active, password, tok, missed>>
    BY <1>4, <1>s, ReadMoves
  <2>2. \A u : Excused(u) => Excused(u)'
    BY <1>s, <2>1, ExcusedKept DEF At
  <2>3. ReqOK(r)' /\ TxOK(r)'
    BY <2>1, <2>2 DEF ReqOK, TxOK, TokOK, At, RevInv
  <2> QED BY <1>q, <2>1, <2>3, LosesNone DEF At
<1>5. ASSUME NEW r \in Requests, RefreshIdle(r) PROVE RevInv'
  <2>1. /\ At(r, "idleRevoke") /\ req[r].token \in Tokens
        /\ tok' = [tok EXCEPT ![req[r].token].status = "revoked"]
        /\ Finish(r)
        /\ UNCHANGED <<active, password, missed>>
    BY <1>5, <1>s DEF RefreshIdle, Shape, RootedReq, At
  <2> QED BY <1>s, <1>q, <2>1, LosesOne, FinishMoves, IdleOK DEF At
<1>6. ASSUME NEW r \in Requests, RefreshRevoke(r) PROVE RevInv'
  <2>1. /\ At(r, "revoke") /\ req[r].token \in Tokens
        /\ tok' = [tok EXCEPT ![req[r].token].status = "revoked"]
        /\ Goto(r, "loadUser") /\ "loadUser" \in Labels
        /\ UNCHANGED <<active, password, missed>>
    BY <1>6, <1>s DEF RefreshRevoke, Shape, RootedReq, At, Labels
  <2>2. OnlyMoves(r) /\ req'[r].pc = "loadUser" /\ req'[r].late = req[r].late /\ Keeps(r)
    BY <1>s, <2>1, GotoMoves
  <2>3. \A u : Excused(u) => Excused(u)'
    BY <1>s, <2>1, <2>2, ExcusedKept DEF At
  <2>4. ReqOK(r)' /\ TxOK(r)'
    BY <2>1, <2>2, <2>3 DEF ReqOK, TxOK, At, Keeps, Carrying, RevInv
  <2> QED BY <1>s, <1>q, <2>1, <2>2, <2>4, LosesOne DEF At
<1>7. ASSUME NEW r \in Requests, RefreshLoadUser(r) PROVE RevInv'
  <2>1. /\ At(r, "loadUser") /\ "issue" \in Labels
        /\ UNCHANGED <<active, password, tok, missed>>
    BY <1>7 DEF RefreshLoadUser, Labels
  <2>2. CASE active[req[r].user]
    <3>1. Goto(r, "issue")
      BY <1>7, <2>2 DEF RefreshLoadUser
    <3>2. OnlyMoves(r) /\ req'[r].pc = "issue" /\ req'[r].late = req[r].late /\ Keeps(r)
      BY <1>s, <2>1, <3>1, GotoMoves
    <3>3. \A u : Excused(u) => Excused(u)'
      BY <1>s, <2>1, <3>2, ExcusedKept DEF At
    <3>4. ReqOK(r)' /\ TxOK(r)'
      BY <2>1, <2>2, <3>2, <3>3 DEF ReqOK, TxOK, At, Keeps, Carrying, RevInv
    <3> QED BY <1>q, <2>1, <3>2, <3>4, LosesNone DEF At
  <2>3. CASE ~active[req[r].user]
    BY <1>7, <1>s, <1>q, <2>1, <2>3, FinishMoves, IdleOK, LosesNone DEF RefreshLoadUser, At
  <2> QED BY <2>2, <2>3
<1>8. ASSUME NEW t \in Tokens, Logout(t) PROVE RevInv'
  <2>1. /\ tok' = [tok EXCEPT ![t].status = "revoked"]
        /\ req' = MarkLate(InFlightWith(t), None)
        /\ UNCHANGED <<active, password, missed>>
    BY <1>8 DEF Logout
  <2> QED BY <1>s, <1>q, <2>1, LosesOne, MarkLateMoves, ConstantsAssumption
<1>10. ASSUME NEW u \in Users, RevokeAllSessions(u) PROVE RevInv'
  BY <1>10, <1>s, RevokeUserRev, ConstantsAssumption DEF RevokeAllSessions
<1>11. ASSUME NEW r \in Requests, RevokeAll(r) PROVE RevInv'
  BY <1>11, <1>s, RevokeUserRev DEF RevokeAll, Shape, RootedReq, At
(* A request that starts without credentials to carry. *)
<1>w. ASSUME NEW r \in Requests, NEW x \in Local, req' = [req EXCEPT ![r] = x], At(r, "idle"),
             x.pc \notin Carrying \cup {"commit"}, UNCHANGED <<active, password, tok, missed>>
      PROVE  RevInv'
  <2>1. OnlyMoves(r) /\ req'[r] = x
    BY <1>s, <1>w, StartMoves
  <2>2. ReqOK(r)' /\ TxOK(r)'
    BY <1>w, <2>1 DEF ReqOK, TxOK, At, Carrying
  <2> QED BY <1>q, <1>w, <2>1, <2>2, LosesNone DEF At
<1>12. ASSUME NEW r \in Requests, NEW u \in Users, ResetRead(r, u) PROVE RevInv'
  <2> DEFINE x == [Idle EXCEPT !.pc = "insertReset", !.user = u]
  <2>1. x \in Local /\ x.pc \notin Carrying \cup {"commit"}
    BY IdleTyped DEF Local, Labels, Carrying, Idle
  <2> QED BY <1>12, <1>w, <2>1 DEF ResetRead
<1>13. ASSUME NEW r \in Requests, ResetInsert(r) PROVE RevInv'
  BY <1>13, <1>s, <1>q, FinishMoves, IdleOK, LosesNone DEF ResetInsert, At
<1>14. ASSUME NEW k \in ResetTokens, ResetExpire(k) PROVE RevInv'
  BY <1>14, <1>s DEF ResetExpire, RevInv, TokOK, ReqOK, TxOK, Live, At, Excused, RevokePending
<1>15. ASSUME NEW r \in Requests, NEW k \in ResetTokens, ConfirmRead(r, k) PROVE RevInv'
  <2> DEFINE x == [Idle EXCEPT !.pc = "confirm", !.reset = k, !.user = reset[k].user]
  <2>1. reset[k].user \in Users
    BY <1>15, <1>s DEF ConfirmRead, Shape, RootedReset
  <2>2. x \in Local /\ x.pc \notin Carrying \cup {"commit"}
    BY <2>1, IdleTyped DEF Local, Labels, Carrying, Idle
  <2> QED BY <1>15, <1>w, <2>2 DEF ConfirmRead
<1>16. ASSUME NEW r \in Requests, ConfirmUpdate(r) PROVE RevInv'
  <2> DEFINE x == [req[r] EXCEPT !.pc = "commit", !.locked = LiveOf(req[r].user)]
  <2>1. /\ req' = [req EXCEPT ![r] = x] /\ At(r, "confirm")
        /\ UNCHANGED <<active, password, tok, missed>>
    BY <1>16, <1>t DEF ConfirmUpdate
  <2>2. req[r] \in Local
    BY <1>t
  <2>3. x \in Local /\ x.pc = "commit" /\ x.user = req[r].user /\ x.locked = LiveOf(req[r].user)
    BY <2>2 DEF Local, Labels, LiveOf
  <2> HIDE DEF x
  <2>4. OnlyMoves(r) /\ req'[r] = x
    BY <1>s, <2>1, <2>3, StartMoves
  <2>5. ReqOK(r)'
    BY <2>3, <2>4 DEF ReqOK, Carrying
  <2>6. TxOK(r)'
    BY <2>1, <2>3, <2>4 DEF TxOK, LiveOf, Live
  <2> QED BY <1>q, <2>1, <2>4, <2>5, <2>6, LosesNone DEF At
<1>17. ASSUME NEW r \in Requests, ConfirmCommit(r) PROVE RevInv'
  <2> DEFINE u == req[r].user
  <2>1. /\ At(r, "commit") /\ u \in Users
        /\ password' = [password EXCEPT ![u] = @ + 1]
        /\ tok' = Revoked(req[r].locked) /\ req' = MarkLate(InFlightOf(u), r)
        /\ missed' = missed \ {u} /\ UNCHANGED active
    BY <1>17, <1>s DEF ConfirmCommit, Shape, RootedReq, At
  <2>2. \A v \in Users \ {u} : password'[v] = password[v]
    BY <1>s, <2>1 DEF Shape, TypeOK
  <2>3. OnlyMoves(r) /\ req'[r] = Idle
    BY <1>s, <2>1, MarkLateMoves
  <2>4. TokLoses /\ \A t \in Tokens : Live(t)' => t \notin req[r].locked
    BY <1>s, <2>1, LosesMany
  <2>5. ASSUME NEW v \in Users \ {u} PROVE Excused(v) => Excused(v)'
    <3>1. ASSUME NEW q \in Requests, At(q, "revokeAll"), req[q].user = v
          PROVE  At(q, "revokeAll")' /\ (req[q].user = v)'
      BY <2>1, <2>3, <3>1 DEF OnlyMoves, Keeps, At
    <3> QED BY <2>1, <3>1 DEF Excused, RevokePending
  <2>6. ASSUME NEW t \in Tokens, Live(t)', tok'[t].user = u PROVE tok'[t].late = "raced"
    BY <2>1, <2>4, <2>6 DEF TokLoses, TxOK, RevInv
  <2>7. ASSUME NEW q \in Requests, req'[q].pc \in Carrying, req'[q].user = u
        PROVE  req'[q].late = "raced"
    <3>1. q # r
      BY <2>3, <2>7 DEF Idle, Carrying
    <3>2. q \in InFlightOf(u)
      BY <2>3, <2>7, <3>1 DEF OnlyMoves, Keeps, InFlightOf
    <3> QED BY <1>t, <2>1, <3>1, <3>2, MarkLateFields
  <2> HIDE DEF u
  <2> DEFINE V == {u}
  <2>8. /\ \A v \in Users \ V : /\ active'[v] = active[v]
                                /\ password'[v] = password[v]
                                /\ Excused(v) => Excused(v)'
        /\ \A v \in V : Settled(v)'
    BY <2>1, <2>2, <2>5, <2>6, <2>7 DEF Settled, Live
  <2> HIDE DEF V
  <2> QED BY <1>s, <2>3, <2>4, <2>8, IdleOK, RevStep
<1>18. ASSUME NEW r \in Requests, NEW u \in Users, ChangeRead(r, u) PROVE RevInv'
  <2> DEFINE x == [Idle EXCEPT !.pc = "savePassword", !.user = u]
  <2>1. x \in Local /\ x.pc \notin Carrying \cup {"commit"}
    BY IdleTyped DEF Local, Labels, Carrying, Idle
  <2> QED BY <1>18, <1>w, <2>1 DEF ChangeRead
(* The user's row changes, and the revocation is the next statement. *)
<1>v. ASSUME NEW r \in Requests, NEW u, OnlyMoves(r), UNCHANGED <<tok, missed>>, ~At(r, "revokeAll"),
             req'[r].pc = "revokeAll", req'[r].user = u,
             \A v \in Users \ {u} : active'[v] = active[v] /\ password'[v] = password[v]
      PROVE  RevInv'
  <2>1. ReqOK(r)' /\ TxOK(r)'
    BY <1>v DEF ReqOK, TxOK, At, Carrying
  <2>2. \A v : Excused(v) => Excused(v)'
    BY <1>s, <1>v, ExcusedKept
  <2>3. Excused(u)'
    BY <1>v DEF Excused, RevokePending, At
  <2> DEFINE V == {u}
  <2>4. /\ \A v \in Users \ V : /\ active'[v] = active[v]
                                /\ password'[v] = password[v]
                                /\ Excused(v) => Excused(v)'
        /\ \A v \in V : Settled(v)'
    BY <1>v, <2>2, <2>3 DEF Settled
  <2> HIDE DEF V
  <2> QED BY <1>s, <1>v, <2>1, <2>4, LosesNone, RevStep
<1>19. ASSUME NEW r \in Requests, SavePassword(r) PROVE RevInv'
  <2>1. /\ At(r, "savePassword") /\ Goto(r, "revokeAll") /\ "revokeAll" \in Labels
        /\ password' = [password EXCEPT ![req[r].user] = @ + 1]
        /\ UNCHANGED <<active, tok, missed>>
    BY <1>19 DEF SavePassword, Labels
  <2>2. OnlyMoves(r) /\ req'[r].pc = "revokeAll" /\ req'[r].user = req[r].user
    BY <1>s, <2>1, GotoMoves DEF Keeps
  <2>3. \A v \in Users \ {req[r].user} : active'[v] = active[v] /\ password'[v] = password[v]
    BY <1>s, <2>1 DEF Shape, TypeOK
  <2> QED BY <1>v, <2>1, <2>2, <2>3 DEF At
<1>20. ASSUME NEW r \in Requests, NEW u \in Users, Deactivate(r, u) PROVE RevInv'
  <2> DEFINE x == [Idle EXCEPT !.pc = "revokeAll", !.user = u]
  <2>1. x \in Local /\ x.pc = "revokeAll" /\ x.user = u
    BY IdleTyped DEF Local, Labels, Idle
  <2>2. OnlyMoves(r) /\ req'[r] = x
    BY <1>20, <1>s, <2>1, StartMoves DEF Deactivate
  <2> HIDE DEF x
  <2>3. \A v \in Users \ {u} : active'[v] = active[v] /\ password'[v] = password[v]
    BY <1>20, <1>s DEF Deactivate, Shape, TypeOK
  <2> QED BY <1>20, <1>v, <2>1, <2>2, <2>3 DEF Deactivate, At
<1>21. ASSUME NEW u \in Users, Reactivate(u) PROVE RevInv'
  <2>1. \A v \in Users : active[v] => active'[v]
    BY <1>21, <1>s DEF Reactivate, Shape, TypeOK
  <2>2. UNCHANGED <<password, tok, req, missed>>
    BY <1>21 DEF Reactivate
  <2>3. \A t \in Tokens : Live(t) => tok[t].user \in Users
    BY <1>s DEF Live, Used, Shape, RootedTok
  <2>4. \A q \in Requests : req[q].pc \in Carrying => req[q].user \in Users
    BY <1>s DEF Shape, RootedReq, Carrying
  <2> QED
    BY <1>s, <2>1, <2>2, <2>3, <2>4
       DEF RevInv, TokOK, ReqOK, TxOK, Live, At, Excused, RevokePending, Carrying
<1>22. ASSUME NEW t \in Tokens, Age(t) PROVE RevInv'
  <2>1. \A x \in Tokens : /\ tok'[x].status = tok[x].status /\ tok'[x].user = tok[x].user
                          /\ tok'[x].cred = tok[x].cred /\ tok'[x].late = tok[x].late
    BY <1>22, <1>t DEF Age, Row
  <2>2. UNCHANGED <<active, password, req, missed>>
    BY <1>22 DEF Age
  <2> QED
    BY <1>s, <2>1, <2>2 DEF RevInv, TokOK, ReqOK, TxOK, Live, At, Excused, RevokePending
<1>23. ASSUME NEW r \in Requests, Fail(r) PROVE RevInv'
  BY <1>23, <1>s, <1>q, FinishMoves, IdleOK, LosesNone DEF Fail, At
<1>24. CASE UNCHANGED vars
  BY <1>24, <1>s DEF vars, RevInv, TokOK, ReqOK, TxOK, Live, At, Excused, RevokePending
<1> QED
  BY <1>1, <1>2, <1>3, <1>4, <1>5, <1>6, <1>7, <1>8, <1>10, <1>11, <1>12,
     <1>13, <1>14, <1>15, <1>16, <1>17, <1>18, <1>19, <1>20, <1>21, <1>22, <1>23, <1>24
     DEF Next, Start, Step

LEMMA RevAlways == Spec => []RevInv
<1> QED
  BY InitRev, NextRev, PTL DEF Spec

(* auth_service.go, profile.go: whoever stays signed in across a change of   *)
(* the password was in flight when the sessions were revoked, or descends    *)
(* from such a request; unless the revocation is still due or failed.        *)
THEOREM OutlivingCorrect == Spec => []OutlivingSessionsWereInFlight
<1>1. RevInv => OutlivingSessionsWereInFlight
  BY DEF RevInv, TokOK, OutlivingSessionsWereInFlight
<1> QED
  BY <1>1, RevAlways, PTL

(* org_service.go UpdateUser: a deactivated user's live sessions were raced  *)
(* by the revocation, which otherwise is still due or failed.                *)
THEOREM DeactivatedCorrect == Spec => []DeactivatedSessionsWereInFlight
<1>1. RevInv => DeactivatedSessionsWereInFlight
  BY DEF RevInv, TokOK, DeactivatedSessionsWereInFlight
<1> QED
  BY <1>1, RevAlways, PTL

-----------------------------------------------------------------------------
(* Reset links: one that has been redeemed is used, and a used one admits  *)
(* no further confirmation.                                                *)

Confirming(k) == {q \in Requests : req[q].pc \in {"confirm", "commit"} /\ req[q].reset = k}

UsedUp == \A k \in ResetTokens : redeemed[k] > 0 => reset[k].status = "used"

ClaimsDrop == \A k \in ResetTokens : redeemed[k] > 0 => Claims(k)' <= Claims(k)

(* A step that redeems nothing, and of whose confirmations none is new but  *)
(* for a link that has not been redeemed.                                   *)
LEMMA NoneRedeemed ==
  ASSUME IsFiniteSet(Requests), Shape, UsedUp, UNCHANGED redeemed,
         \A k \in ResetTokens : reset[k].status = "used" => reset'[k].status = "used",
         \A k \in ResetTokens : redeemed[k] > 0 => Confirming(k)' \subseteq Confirming(k)
  PROVE  UsedUp' /\ ClaimsDrop
<1>1. UsedUp'
  BY DEF UsedUp
<1>2. ASSUME NEW k \in ResetTokens, redeemed[k] > 0 PROVE Claims(k)' <= Claims(k)
  <2> DEFINE S == Confirming(k)
             T == Confirming(k)'
  <2>1. S \subseteq Requests /\ T \subseteq S
    BY <1>2 DEF Confirming
  <2>2. IsFiniteSet(S) /\ IsFiniteSet(T) /\ Cardinality(T) <= Cardinality(S)
    BY <2>1, FS_Subset
  <2>3. Cardinality(S) \in Nat /\ Cardinality(T) \in Nat /\ redeemed[k] \in Nat
    BY <2>2, FS_CardinalityType DEF Shape, TypeOK
  <2>4. Claims(k) = redeemed[k] + Cardinality(S) /\ Claims(k)' = redeemed[k] + Cardinality(T)
    BY DEF Claims, Confirming
  <2> HIDE DEF S, T
  <2> QED BY <2>2, <2>3, <2>4
<1> QED BY <1>1, <1>2 DEF ClaimsDrop

LEMMA UsedUpStays ==
  ASSUME IsFiniteSet(Requests), Shape, UsedUp, [Next]_vars
  PROVE  UsedUp' /\ ClaimsDrop
<1> DEFINE Goal == UsedUp' /\ ClaimsDrop
<1>t. /\ req \in [Requests -> Local] /\ reset \in [ResetTokens -> ResetRow]
      /\ redeemed \in [ResetTokens -> Nat]
  BY DEF Shape, TypeOK
(* Request r does not start to confirm. *)
<1>e. ASSUME NEW r, OnlyMoves(r), UNCHANGED redeemed,
             r \in Requests => req'[r].pc \notin {"confirm", "commit"},
             \A k \in ResetTokens : reset[k].status = "used" => reset'[k].status = "used"
      PROVE  Goal
  <2>1. \A k \in ResetTokens : Confirming(k)' \subseteq Confirming(k)
    BY <1>e DEF Confirming, OnlyMoves, Keeps
  <2> QED BY <1>e, <2>1, NoneRedeemed
<1>i. ASSUME NEW r \in Requests, req'[r] = Idle PROVE req'[r].pc \notin {"confirm", "commit"}
  BY <1>i DEF Idle
<1>f. ASSUME NEW r \in Requests, Finish(r), UNCHANGED <<reset, redeemed>> PROVE Goal
  BY <1>f, <1>e, <1>i, FinishMoves
<1>m. ASSUME NEW S, NEW r, req' = MarkLate(S, r), UNCHANGED <<reset, redeemed>> PROVE Goal
  BY <1>m, <1>e, <1>i, MarkLateMoves
<1>g. ASSUME NEW r \in Requests, NEW l \in Labels \ {"confirm", "commit"}, Goto(r, l),
             UNCHANGED <<reset, redeemed>>
      PROVE  Goal
  BY <1>g, <1>e, GotoMoves
<1>w. ASSUME NEW r \in Requests, NEW x, req' = [req EXCEPT ![r] = x],
             x.pc \notin {"confirm", "commit"}, UNCHANGED <<reset, redeemed>>
      PROVE  Goal
  <2>1. \A q \in Requests : req'[q] = IF q = r THEN x ELSE req[q]
    BY <1>t, <1>w
  <2>2. \A k \in ResetTokens : Confirming(k)' \subseteq Confirming(k)
    BY <1>w, <2>1 DEF Confirming
  <2> QED BY <1>w, <2>2, NoneRedeemed
<1>n. ASSUME UNCHANGED <<req, redeemed>>,
             \A k \in ResetTokens : reset[k].status = "used" => reset'[k].status = "used"
      PROVE  Goal
  BY <1>n, NoneRedeemed DEF Confirming
<1> HIDE DEF Goal
<1>1. ASSUME NEW r \in Requests, Start(r), \A k \in ResetTokens : ~ConfirmRead(r, k) PROVE Goal
  <2>1. ASSUME NEW u \in Users, LoginRead(r, u) PROVE Goal
    BY <2>1, <1>w DEF LoginRead, Idle
  <2>2. ASSUME NEW u \in Users, ResetRead(r, u) PROVE Goal
    BY <2>2, <1>w DEF ResetRead, Idle
  <2>3. ASSUME NEW u \in Users, ChangeRead(r, u) PROVE Goal
    BY <2>3, <1>w DEF ChangeRead, Idle
  <2>4. ASSUME NEW u \in Users, Deactivate(r, u) PROVE Goal
    BY <2>4, <1>w DEF Deactivate, Idle
  <2>5. ASSUME NEW t \in Tokens, RefreshRead(r, t) PROVE Goal
    <3>1. /\ OnlyMoves(r) /\ UNCHANGED <<reset, redeemed>>
          /\ req'[r].pc \in {"revoke", "idleRevoke"}
      BY <2>5, ReadMoves
    <3> QED BY <1>e, <3>1
  <2> QED BY <1>1, <2>1, <2>2, <2>3, <2>4, <2>5 DEF Start
<1>2. ASSUME NEW r \in Requests, NEW k \in ResetTokens, ConfirmRead(r, k) PROVE Goal
  <2> DEFINE x == [Idle EXCEPT !.pc = "confirm", !.reset = k, !.user = reset[k].user]
  <2>1. /\ reset[k].status = "open" /\ req' = [req EXCEPT ![r] = x]
        /\ UNCHANGED <<reset, redeemed>>
    BY <1>2 DEF ConfirmRead
  <2>2. x.reset = k
    BY DEF Idle
  <2>3. \A q \in Requests : req'[q] = IF q = r THEN x ELSE req[q]
    BY <1>t, <2>1
  <2>4. ASSUME NEW j \in ResetTokens, redeemed[j] > 0 PROVE Confirming(j)' \subseteq Confirming(j)
    <3>1. j # k
      BY <2>1, <2>4 DEF UsedUp
    <3> QED BY <2>2, <2>3, <3>1 DEF Confirming
  <2> QED BY <2>1, <2>4, NoneRedeemed DEF Goal
<1>3. ASSUME NEW r \in Requests,
             LastLogin(r) \/ RefreshRevoke(r) \/ RefreshLoadUser(r) \/ SavePassword(r)
      PROVE  Goal
  BY <1>3, <1>f, <1>g DEF LastLogin, RefreshRevoke, RefreshLoadUser, SavePassword, Labels
<1>4. ASSUME NEW r \in Requests, Issue(r) \/ RefreshIdle(r) \/ Fail(r) PROVE Goal
  BY <1>4, <1>f DEF Issue, RefreshIdle, Fail
<1>5. ASSUME NEW r \in Requests, RevokeAll(r) PROVE Goal
  BY <1>5, <1>m DEF RevokeAll, RevokeUser
<1>6. ASSUME NEW r \in Requests, ResetInsert(r) PROVE Goal
  <2>1. \A k \in ResetTokens : reset[k].status = "used" => reset'[k].status = "used"
    BY <1>6, <1>t DEF ResetInsert
  <2> QED BY <1>6, <1>e, <1>i, <2>1, FinishMoves DEF ResetInsert
<1>7. ASSUME NEW r \in Requests, ConfirmUpdate(r) PROVE Goal
  <2> DEFINE x == [req[r] EXCEPT !.pc = "commit", !.locked = LiveOf(req[r].user)]
  <2>1. /\ req' = [req EXCEPT ![r] = x] /\ req[r].pc = "confirm" /\ req[r] \in Local
        /\ UNCHANGED <<reset, redeemed>>
    BY <1>7, <1>t DEF ConfirmUpdate, At
  <2>2. x.reset = req[r].reset
    BY <2>1 DEF Local
  <2> HIDE DEF x
  <2>3. \A q \in Requests : req'[q] = IF q = r THEN x ELSE req[q]
    BY <1>t, <2>1
  <2>4. \A k \in ResetTokens : Confirming(k)' \subseteq Confirming(k)
    BY <2>1, <2>2, <2>3 DEF Confirming
  <2> QED BY <2>1, <2>4, NoneRedeemed DEF Goal
<1>8. ASSUME NEW r \in Requests, ConfirmCommit(r) PROVE Goal
  <2>1. PICK k \in ResetTokens : k = req[r].reset
    BY <1>8 DEF ConfirmCommit, At, Shape, RootedReq
  <2>2. /\ r \in Confirming(k) /\ reset' = [reset EXCEPT ![k].status = "used"]
        /\ redeemed' = [redeemed EXCEPT ![k] = @ + 1]
        /\ OnlyMoves(r) /\ req'[r] = Idle
    BY <1>8, <2>1, MarkLateMoves DEF ConfirmCommit, At, Confirming
  <2>3. UsedUp'
    <3>1. reset'[k].status = "used" /\ \A j \in ResetTokens : j # k => reset'[j] = reset[j]
      BY <1>t, <2>2 DEF ResetRow
    <3>2. \A j \in ResetTokens : j # k => redeemed'[j] = redeemed[j]
      BY <1>t, <2>2
    <3> QED BY <3>1, <3>2 DEF UsedUp
  <2>4. ASSUME NEW j \in ResetTokens PROVE Claims(j)' <= Claims(j)
    <3> DEFINE S == Confirming(j)
               T == Confirming(j)'
    <3>1. T \subseteq S \ {r} /\ S \subseteq Requests
      BY <2>2 DEF Confirming, OnlyMoves, Keeps, Idle
    <3>2. IsFiniteSet(S) /\ IsFiniteSet(S \ {r}) /\ IsFiniteSet(T)
          /\ Cardinality(T) <= Cardinality(S \ {r})
      BY <3>1, FS_Subset, FS_RemoveElement
    <3>3. Cardinality(S \ {r}) = IF r \in S THEN Cardinality(S) - 1 ELSE Cardinality(S)
      BY <3>2, FS_RemoveElement
    <3>4. Cardinality(S) \in Nat /\ Cardinality(T) \in Nat /\ redeemed[j] \in Nat
      BY <1>t, <3>2, FS_CardinalityType
    <3>5. redeemed'[j] = IF j = k THEN redeemed[j] + 1 ELSE redeemed[j]
      BY <1>t, <2>2
    <3>6. Claims(j) = redeemed[j] + Cardinality(S) /\ Claims(j)' = redeemed'[j] + Cardinality(T)
      BY DEF Claims, Confirming
    <3>7. j = k => r \in S
      BY <2>2
    <3> HIDE DEF S, T
    <3> QED BY <3>2, <3>3, <3>4, <3>5, <3>6, <3>7
  <2> QED BY <2>3, <2>4 DEF Goal, ClaimsDrop
<1>9. ASSUME NEW t \in Tokens, Logout(t) PROVE Goal
  BY <1>9, <1>m DEF Logout
<1>10. ASSUME NEW u \in Users, RevokeAllSessions(u) PROVE Goal
  BY <1>10, <1>m DEF RevokeAllSessions, RevokeUser
<1>11. ASSUME NEW k \in ResetTokens, ResetExpire(k) PROVE Goal
  <2>1. \A j \in ResetTokens : reset[j].status = "used" => reset'[j].status = "used"
    BY <1>11, <1>t DEF ResetExpire
  <2> QED BY <1>11, <1>n, <2>1 DEF ResetExpire
<1>12. ASSUME NEW t \in Tokens, Age(t) PROVE Goal
  BY <1>12, <1>n DEF Age
<1>13. ASSUME NEW u \in Users, Reactivate(u) PROVE Goal
  BY <1>13, <1>n DEF Reactivate
<1>14. CASE UNCHANGED vars
  <2>1. UNCHANGED <<req, reset, redeemed>>
    BY <1>14 DEF vars
  <2>2. \A k \in ResetTokens : reset[k].status = "used" => reset'[k].status = "used"
    BY <2>1
  <2>3. \A k \in ResetTokens : Confirming(k)' = Confirming(k)
    BY <2>1 DEF Confirming
  <2> QED BY <2>1, <2>2, <2>3, NoneRedeemed DEF Goal
<1> QED
  BY <1>1, <1>2, <1>3, <1>4, <1>5, <1>6, <1>7, <1>8, <1>9, <1>10, <1>11, <1>12, <1>13, <1>14
     DEF Goal, Next, Step

(* auth_service.go:88, "one-time token": once a reset link has been redeemed *)
(* no later confirmation joins those that overlapped with it, however many   *)
(* requests run.                                                             *)
THEOREM OneTimeLinks == ASSUME IsFiniteSet(Requests) PROVE Spec => LaterConfirmationsFail
<1>1. Init => Shape /\ UsedUp
  BY InitShape DEF Init, UsedUp
<1>2. Shape /\ UsedUp /\ [Next]_vars => Shape' /\ UsedUp'
  BY NextShape, UsedUpStays
<1>3. Shape /\ UsedUp /\ [Next]_vars =>
        [\A k \in ResetTokens : redeemed[k] > 0 => Claims(k)' <= Claims(k)]_vars
  BY UsedUpStays DEF ClaimsDrop
<1> QED
  BY <1>1, <1>2, <1>3, PTL DEF Spec, LaterConfirmationsFail

-----------------------------------------------------------------------------
(***************************************************************************)
(* The third part: Sessions implements SessionLife, so a closed session    *)
(* never opens again.                                                      *)
(*                                                                         *)
(* The argument. Only Issue can make a session open that was not, and only *)
(* for a login: a request that continues a session holds the session of    *)
(* the token it was presented (Lineage), and has held it since it read     *)
(* that token alive.                                                       *)
(***************************************************************************)

LineageTok(t) ==
  IF Used(t) THEN Used(tok[t].session) ELSE tok[t].session = None

LineageReq(r) ==
  req[r].pc \in Carrying \cup {"idleRevoke"} =>
    req[r].session = IF req[r].token = None THEN None ELSE tok[req[r].token].session

Lineage ==
  /\ Shape
  /\ \A t \in Tokens : LineageTok(t)
  /\ \A r \in Requests : LineageReq(r)

-----------------------------------------------------------------------------
(* Sessions and lines of tokens stay what they are, none comes alive. *)
TokKept ==
  \A t \in Tokens : /\ tok'[t].session = tok[t].session
                    /\ tok'[t].line = tok[t].line
                    /\ Used(t)' <=> Used(t)
                    /\ Live(t)' => Live(t)

LEMMA KeptOne ==
  ASSUME NEW x \in Tokens, Used(x), Shape, tok' = [tok EXCEPT ![x].status = "revoked"]
  PROVE  TokKept
  BY RevokeOne DEF TokKept, Live, Used, Shape, TypeOK, Row

LEMMA KeptMany ==
  ASSUME NEW S, \A t \in S : Used(t), Shape, tok' = Revoked(S)
  PROVE  TokKept
  BY RevokedFields DEF TokKept, Live, Used, Shape, TypeOK

LEMMA KeptAll == UNCHANGED tok => TokKept
  BY DEF TokKept, Live, Used

(* The step maps to a step of SessionLife that closes sessions, or to none. *)
LEMMA ClosesOnly ==
  ASSUME Started' = Started, \A s \in Tokens : Held(s)' => Held(s)
  PROVE  [Life!Next]_<<OpenSessions, Started \ OpenSessions>>
<1> DEFINE S == OpenSessions \ OpenSessions'
<1>1. OpenSessions' \subseteq OpenSessions
  BY DEF OpenSessions, Started
<1>2. OpenSessions \subseteq Started /\ OpenSessions \subseteq Tokens
  BY DEF OpenSessions, Started
<1>3. S \in SUBSET Tokens /\ S \subseteq OpenSessions
  BY <1>2
<1>4. OpenSessions' = OpenSessions \ S
  BY <1>1
<1>5. (Started \ OpenSessions)' = (Started \ OpenSessions) \cup S
  BY <1>1, <1>2
<1>6. Life!Close(S)
  BY <1>3, <1>4, <1>5 DEF Life!Close
<1> QED BY <1>3, <1>6 DEF Life!Next

(* What a step keeps if it issues no token, and moves only request r. *)
LEMMA LifeStep ==
  ASSUME NEW r, Lineage, Shape', OnlyMoves(r), TokKept,
         r \in Requests => /\ LineageReq(r)'
                           /\ (req[r].pc \in Carrying)' /\ req'[r].session # None =>
                                Held(req'[r].session)
  PROVE  Lineage' /\ [Life!Next]_<<OpenSessions, Started \ OpenSessions>>
<1>1. \A t \in Tokens : LineageTok(t)'
  BY ConstantsAssumption DEF LineageTok, Lineage, TokKept, Shape, RootedTok, Used
<1>2. ASSUME NEW q \in Requests, q # r PROVE LineageReq(q)'
  <2>1. /\ req'[q].pc = req[q].pc /\ req'[q].token = req[q].token
        /\ req'[q].session = req[q].session /\ LineageReq(q)
    BY <1>2 DEF OnlyMoves, Keeps, Lineage
  <2>2. req[q].token \in Tokens \cup {None}
    BY DEF Lineage, Shape, TypeOK, Local
  <2> QED BY <2>1, <2>2 DEF LineageReq, TokKept
<1>3. Started' = Started
  BY DEF Started, TokKept
<1>4. ASSUME NEW s \in Tokens, Held(s)' PROVE Held(s)
  <2>1. CASE \E t \in Tokens : Live(t)' /\ tok'[t].session = s
    BY <2>1 DEF TokKept, Held
  <2>2. CASE \E q \in Requests : req'[q].pc \in Carrying /\ req'[q].session = s
    BY <2>2, ConstantsAssumption DEF Held, OnlyMoves, Keeps, Carrying
  <2> QED BY <1>4, <2>1, <2>2 DEF Held, Live
<1> QED BY <1>1, <1>2, <1>3, <1>4, ClosesOnly DEF Lineage

-----------------------------------------------------------------------------
LEMMA InitLife == Init => Lineage /\ Life!Init
<1> SUFFICES ASSUME Init PROVE Lineage /\ Life!Init
  OBVIOUS
<1>1. \A t \in Tokens : ~Used(t) /\ tok[t].session = None
  BY DEF Init, Used, Unused
<1>2. \A r \in Requests : req[r].pc = "idle"
  BY DEF Init, Idle
<1>3. Started = {}
  BY <1>1, ConstantsAssumption DEF Started
<1> QED
  BY <1>1, <1>2, <1>3, InitShape
     DEF Lineage, LineageTok, LineageReq, Carrying, Life!Init, OpenSessions

LEMMA NextLife ==
  Lineage /\ [Next]_vars => Lineage' /\ [Life!Next]_<<OpenSessions, Started \ OpenSessions>>
<1> DEFINE Goal == Lineage' /\ [Life!Next]_<<OpenSessions, Started \ OpenSessions>>
<1> SUFFICES ASSUME Lineage, [Next]_vars PROVE Goal
  OBVIOUS
<1>s. Shape /\ Shape'
  BY NextShape DEF Lineage
<1>t. req \in [Requests -> Local] /\ tok \in [Tokens -> Row]
  BY <1>s DEF Shape, TypeOK
(* A request that ends, or goes on to a statement that holds no session. *)
<1>e. ASSUME NEW r, OnlyMoves(r), TokKept,
             r \in Requests => req'[r].pc \notin Carrying \cup {"idleRevoke"}
      PROVE  Goal
  <2>1. r \in Requests => LineageReq(r)'
    BY <1>e DEF LineageReq
  <2> QED BY <1>e, <1>s, <2>1, LifeStep
<1>i. ASSUME NEW r, r \in Requests => req'[r] = Idle
      PROVE  r \in Requests => req'[r].pc \notin Carrying \cup {"idleRevoke"}
  BY <1>i DEF Idle, Carrying
<1>g. ASSUME NEW r \in Requests, NEW l \in Labels, Goto(r, l), TokKept,
             l \in Carrying \cup {"idleRevoke"} => req[r].pc \in Carrying
      PROVE  Goal
  <2>1. OnlyMoves(r) /\ req'[r].pc = l /\ Keeps(r)
    BY <1>g, <1>s, GotoMoves
  <2>2. LineageReq(r) /\ req[r].token \in Tokens \cup {None}
        /\ req[r].session \in Tokens \cup {None}
    BY <1>t DEF Lineage, Local
  <2>3. LineageReq(r)'
    BY <1>g, <2>1, <2>2 DEF LineageReq, Keeps, TokKept
  <2>4. (req[r].pc \in Carrying)' /\ req'[r].session # None => Held(req'[r].session)
    BY <1>g, <2>1, <2>2 DEF Keeps, Held
  <2> QED BY <1>s, <1>g, <2>1, <2>3, <2>4, LifeStep
<1>w. ASSUME NEW r \in Requests, NEW x \in Local, req' = [req EXCEPT ![r] = x],
             x.pc \notin Carrying \cup {"idleRevoke"}, UNCHANGED tok
      PROVE  Goal
  BY <1>s, <1>w, <1>e, StartMoves, KeptAll
<1> HIDE DEF Goal
<1>1. ASSUME NEW r \in Requests, NEW u \in Users, LoginRead(r, u) PROVE Goal
  <2> DEFINE x == [Idle EXCEPT !.pc = "lastLogin", !.user = u, !.cred = password[u]]
  <2>1. x \in Local
    BY <1>s, IdleTyped DEF Local, Labels, Shape, TypeOK
  <2>2. x.token = None /\ x.session = None
    BY DEF Idle
  <2> HIDE DEF x
  <2>3. OnlyMoves(r) /\ req'[r] = x /\ UNCHANGED tok
    BY <1>1, <1>s, <2>1, StartMoves DEF LoginRead, x
  <2>4. LineageReq(r)'
    BY <2>2, <2>3 DEF LineageReq
  <2> QED BY <1>s, <2>2, <2>3, <2>4, KeptAll, LifeStep DEF Goal
<1>2. ASSUME NEW r \in Requests, LastLogin(r) PROVE Goal
  BY <1>2, <1>g, KeptAll DEF LastLogin, Labels, At, Carrying
<1>3. ASSUME NEW r \in Requests, Issue(r) PROVE Goal
  <2>1. PICK x \in Tokens :
          /\ tok[x].status = "unused"
          /\ tok' = [tok EXCEPT ![x] =
               [status |-> "live", age |-> "fresh", user |-> req[r].user,
                session |-> IF req[r].session = None THEN x ELSE req[r].session,
                line |-> IF req[r].line = None THEN x ELSE req[r].line,
                cred |-> req[r].cred,
                late |-> IF UserFree(req[r].user) THEN req[r].late ELSE "raced"]]
    BY <1>3 DEF Issue
  <2>s. PICK s \in Tokens : s = IF req[r].session = None THEN x ELSE req[r].session
    BY <1>t DEF Local
  <2>2. /\ \A t \in Tokens : t # x => tok'[t] = tok[t]
        /\ Live(x)' /\ Used(x)' /\ ~Used(x) /\ ~Live(x) /\ tok'[x].session = s
    BY <1>t, <2>1, <2>s DEF Live, Used
  <2>3. OnlyMoves(r) /\ req'[r] = Idle /\ At(r, "issue")
    BY <1>3, <1>s, FinishMoves DEF Issue
  <2>4. \A t \in Tokens : Used(t) => tok[t].session \in Tokens /\ Used(tok[t].session)
    BY <1>s DEF Shape, RootedTok, Lineage, LineageTok
  <2>5. req[r].session # None => /\ req[r].session \in Started /\ Held(req[r].session)
                                 /\ req[r].session \in Tokens /\ Used(req[r].session)
    <3>1. LineageReq(r) /\ req[r].token \in Tokens \cup {None} /\ RootedReq(r)
      BY <1>s, <1>t DEF Lineage, Local, Shape
    <3> QED BY <2>3, <2>4, <3>1 DEF LineageReq, RootedReq, Started, Held, At, Carrying
  <2>6. Used(s)'
    BY <2>2, <2>5, <2>s DEF Used
  <2>7. \A t \in Tokens : LineageTok(t)'
    <3>1. LineageTok(x)'
      BY <2>2, <2>6 DEF LineageTok, Used
    <3>2. ASSUME NEW t \in Tokens, t # x PROVE LineageTok(t)'
      BY <2>2, <2>4, <3>2 DEF Lineage, LineageTok, Used
    <3> QED BY <3>1, <3>2
  <2>8. ASSUME NEW q \in Requests, q # r PROVE LineageReq(q)'
    <3>1. /\ req'[q].pc = req[q].pc /\ req'[q].token = req[q].token
          /\ req'[q].session = req[q].session /\ LineageReq(q) /\ RootedReq(q)
      BY <1>s, <2>3, <2>8 DEF OnlyMoves, Keeps, Lineage, Shape
    <3>2. req[q].token \in Tokens \cup {None}
      BY <1>t DEF Local
    <3> QED BY <2>2, <3>1, <3>2 DEF LineageReq, RootedReq, Used
  <2>9. Lineage'
    BY <1>s, <2>3, <2>7, <2>8 DEF Lineage, LineageReq, Idle, Carrying
  <2>10. Started' = Started \cup {s}
    BY <2>2, <2>6, ConstantsAssumption DEF Started, Lineage, LineageTok
  <2>11. \A y \in Tokens : Held(y)' <=> Held(y) \/ y = s
    <3>1. \A q \in Requests : q # r => req'[q].pc = req[q].pc /\ req'[q].session = req[q].session
      BY <2>3 DEF OnlyMoves, Keeps
    <3>2. req'[r].pc \notin Carrying
      BY <2>3 DEF Idle, Carrying
    <3>3. \A y \in Tokens : y = req[r].session => y = s
      BY ConstantsAssumption, <2>s
    <3> QED BY <2>2, <3>1, <3>2, <3>3 DEF Held, Live
  <2>12. CASE req[r].session = None
    <3>1. s = x /\ s \notin Started
      BY <2>2, <2>4, <2>12, <2>s, ConstantsAssumption DEF Started, Lineage, LineageTok
    <3>2. /\ OpenSessions' = OpenSessions \cup {s}
          /\ (Started \ OpenSessions)' = Started \ OpenSessions
      BY <2>6, <2>10, <2>11, <3>1 DEF OpenSessions, Started
    <3>3. Life!Open(s)
      BY <3>1, <3>2 DEF Life!Open, OpenSessions
    <3> QED BY <2>6, <2>9, <3>3 DEF Goal, Life!Next
  <2>13. CASE req[r].session # None
    <3>1. Started' = Started /\ \A y \in Tokens : Held(y)' => Held(y)
      BY <2>5, <2>10, <2>11, <2>13, <2>s
    <3> QED BY <2>9, <3>1, ClosesOnly DEF Goal
  <2> QED BY <2>12, <2>13
<1>4. ASSUME NEW r \in Requests, NEW t \in Tokens, RefreshRead(r, t) PROVE Goal
  <2>1. /\ Live(t) /\ OnlyMoves(r) /\ UNCHANGED tok
        /\ req'[r].token = t /\ req'[r].session = tok[t].session
    BY <1>4, <1>s, ReadMoves
  <2>2. LineageReq(r)'
    BY <2>1, ConstantsAssumption DEF LineageReq
  <2>3. Held(req'[r].session)
    BY <2>1 DEF Held
  <2> QED BY <1>s, <2>1, <2>2, <2>3, KeptAll, LifeStep DEF Goal
<1>5. ASSUME NEW r \in Requests, RefreshIdle(r) PROVE Goal
  <2>1. /\ req[r].token \in Tokens /\ Used(req[r].token)
        /\ tok' = [tok EXCEPT ![req[r].token].status = "revoked"]
        /\ Finish(r)
    BY <1>5, <1>s DEF RefreshIdle, Shape, RootedReq, At
  <2> QED BY <1>s, <1>e, <1>i, <2>1, KeptOne, FinishMoves
<1>6. ASSUME NEW r \in Requests, RefreshRevoke(r) PROVE Goal
  <2>1. /\ At(r, "revoke") /\ req[r].token \in Tokens /\ Used(req[r].token)
        /\ tok' = [tok EXCEPT ![req[r].token].status = "revoked"]
        /\ Goto(r, "loadUser") /\ "loadUser" \in Labels
    BY <1>6, <1>s DEF RefreshRevoke, Shape, RootedReq, At, Labels
  <2> QED BY <1>s, <1>g, <2>1, KeptOne DEF At, Carrying
<1>7. ASSUME NEW r \in Requests, RefreshLoadUser(r) PROVE Goal
  <2>1. CASE active[req[r].user]
    BY <1>7, <2>1, <1>g, KeptAll DEF RefreshLoadUser, Labels, At, Carrying
  <2>2. CASE ~active[req[r].user]
    BY <1>7, <2>2, <1>s, <1>e, <1>i, KeptAll, FinishMoves DEF RefreshLoadUser
  <2> QED BY <2>1, <2>2
<1>8. ASSUME NEW t \in Tokens, Logout(t) PROVE Goal
  <2>1. Used(t)
    BY <1>8, <1>s DEF Logout, InFlightWith, Live, Used, Shape, RootedReq
  <2> QED BY <1>8, <1>s, <1>e, <2>1, KeptOne, MarkLateMoves, ConstantsAssumption DEF Logout
<1>9. ASSUME NEW r, NEW u, RevokeUser(u, r) PROVE Goal
  <2>1. /\ tok' = Revoked(LiveOf(u)) /\ \A t \in LiveOf(u) : Used(t)
        /\ req' = MarkLate(InFlightOf(u), r)
    BY <1>9 DEF RevokeUser, LiveOf, Live, Used
  <2> QED BY <1>s, <1>e, <1>i, <2>1, KeptMany, MarkLateMoves
<1>10. ASSUME NEW u \in Users, RevokeAllSessions(u) PROVE Goal
  BY <1>9, <1>10 DEF RevokeAllSessions
<1>11. ASSUME NEW r \in Requests, RevokeAll(r) PROVE Goal
  BY <1>9, <1>11 DEF RevokeAll
<1>12. ASSUME NEW r \in Requests, NEW u \in Users, ResetRead(r, u) PROVE Goal
  <2> DEFINE x == [Idle EXCEPT !.pc = "insertReset", !.user = u]
  <2>1. x \in Local /\ x.pc \notin Carrying \cup {"idleRevoke"}
    BY IdleTyped DEF Local, Labels, Carrying, Idle
  <2> QED BY <1>12, <1>w, <2>1 DEF ResetRead
<1>13. ASSUME NEW r \in Requests, ResetInsert(r) PROVE Goal
  BY <1>13, <1>s, <1>e, <1>i, FinishMoves, KeptAll DEF ResetInsert
<1>15. ASSUME NEW r \in Requests, NEW k \in ResetTokens, ConfirmRead(r, k) PROVE Goal
  <2> DEFINE x == [Idle EXCEPT !.pc = "confirm", !.reset = k, !.user = reset[k].user]
  <2>1. reset[k].user \in Users
    BY <1>15, <1>s DEF ConfirmRead, Shape, RootedReset
  <2>2. x \in Local /\ x.pc \notin Carrying \cup {"idleRevoke"}
    BY <2>1, IdleTyped DEF Local, Labels, Carrying, Idle
  <2> QED BY <1>15, <1>w, <2>2 DEF ConfirmRead
<1>16. ASSUME NEW r \in Requests, ConfirmUpdate(r) PROVE Goal
  <2> DEFINE x == [req[r] EXCEPT !.pc = "commit", !.locked = LiveOf(req[r].user)]
  <2>1. req' = [req EXCEPT ![r] = x] /\ UNCHANGED tok
    BY <1>16, <1>t DEF ConfirmUpdate
  <2>2. req[r] \in Local
    BY <1>t
  <2>3. x \in Local /\ x.pc \notin Carrying \cup {"idleRevoke"}
    BY <2>2 DEF Local, Labels, LiveOf, Carrying
  <2> QED BY <1>w, <2>1, <2>3
<1>17. ASSUME NEW r \in Requests, ConfirmCommit(r) PROVE Goal
  <2>1. /\ tok' = Revoked(req[r].locked) /\ \A t \in req[r].locked : Used(t)
        /\ req' = MarkLate(InFlightOf(req[r].user), r)
    BY <1>17, <1>s DEF ConfirmCommit, Shape, RootedReq
  <2> QED BY <1>s, <1>e, <1>i, <2>1, KeptMany, MarkLateMoves
<1>18. ASSUME NEW r \in Requests, NEW u \in Users, ChangeRead(r, u) PROVE Goal
  <2> DEFINE x == [Idle EXCEPT !.pc = "savePassword", !.user = u]
  <2>1. x \in Local /\ x.pc \notin Carrying \cup {"idleRevoke"}
    BY IdleTyped DEF Local, Labels, Carrying, Idle
  <2> QED BY <1>18, <1>w, <2>1 DEF ChangeRead
<1>19. ASSUME NEW r \in Requests, SavePassword(r) PROVE Goal
  BY <1>19, <1>g, KeptAll DEF SavePassword, Labels, Carrying
<1>20. ASSUME NEW r \in Requests, NEW u \in Users, Deactivate(r, u) PROVE Goal
  <2> DEFINE x == [Idle EXCEPT !.pc = "revokeAll", !.user = u]
  <2>1. x \in Local /\ x.pc \notin Carrying \cup {"idleRevoke"}
    BY IdleTyped DEF Local, Labels, Carrying, Idle
  <2> QED BY <1>20, <1>w, <2>1 DEF Deactivate
<1>23. ASSUME NEW r \in Requests, Fail(r) PROVE Goal
  BY <1>23, <1>s, <1>e, <1>i, FinishMoves, KeptAll DEF Fail
(* The steps of no request: req is unchanged. *)
<1>n. ASSUME UNCHANGED req, TokKept PROVE Goal
  <2>1. OnlyMoves(None)
    BY <1>n, <1>t DEF OnlyMoves, Keeps
  <2> QED BY <1>e, <1>n, <2>1, ConstantsAssumption
<1>14. ASSUME NEW k \in ResetTokens, ResetExpire(k) PROVE Goal
  BY <1>14, <1>n, KeptAll DEF ResetExpire
<1>21. ASSUME NEW u \in Users, Reactivate(u) PROVE Goal
  BY <1>21, <1>n, KeptAll DEF Reactivate
<1>22. ASSUME NEW t \in Tokens, Age(t) PROVE Goal
  <2>1. TokKept
    BY <1>22, <1>t DEF Age, TokKept, Live, Used, Row
  <2> QED BY <1>22, <1>n, <2>1 DEF Age
<1>24. CASE UNCHANGED vars
  BY <1>24, <1>n, KeptAll DEF vars
<1> QED
  BY <1>1, <1>2, <1>3, <1>4, <1>5, <1>6, <1>7, <1>8, <1>10, <1>11, <1>12,
     <1>13, <1>14, <1>15, <1>16, <1>17, <1>18, <1>19, <1>20, <1>21, <1>22, <1>23, <1>24
     DEF Next, Start, Step

LEMMA LineageAlways == Spec => []Lineage
<1> QED
  BY InitLife, NextLife, PTL DEF Spec

(* auth_service.go: the session core implements the abstract session: no     *)
(* interleaving of rotations and revocations revives a closed session.       *)
THEOREM ImplementsSessionLife == Spec => RefinesSessionLife
<1> QED
  BY InitLife, NextLife, LineageAlways, PTL DEF Spec, RefinesSessionLife, Life!Spec

-----------------------------------------------------------------------------
(***************************************************************************)
(* The fourth part: a line of tokens has one live token at most, and what  *)
(* a logout or the idle timeout has ended stays ended, whichever refreshes *)
(* overlap.                                                                *)
(*                                                                         *)
(* Neither is inductive, because the refresh that has revoked a token has  *)
(* not inserted the next one yet.  The invariant counts it in: a line has  *)
(* either one live token, perhaps presented by one refresh that goes on    *)
(* with the line and has not revoked it, or one such refresh and no live   *)
(* token.  A refresh that overlaps with another one of the same token has  *)
(* no line, so it claims none of this; the token it inserts starts one.    *)
(***************************************************************************)

LineTok(t) == IF Used(t) THEN Used(tok[t].line) ELSE tok[t].line = None

LineReq(q) ==
  req[q].pc \in Carrying \cup {"idleRevoke"} /\ req[q].line # None =>
    req[q].token \in Tokens /\ req[q].line = tok[req[q].token].line

(* The live tokens of the line that request q goes on with. *)
SoleReq(q) ==
  \A t \in Tokens :
    req[q].pc \in Refreshing /\ Live(t) /\ tok[t].line = req[q].line
      => t = req[q].token /\ req[q].pc \in {"revoke", "idleRevoke"}

SoleRefresh ==
  \A q1, q2 \in Requests :
    /\ req[q1].pc \in Refreshing /\ req[q2].pc \in Refreshing
    /\ req[q1].line # None /\ req[q1].line = req[q2].line
    => q1 = q2

LoginReq(q) == req[q].pc = "lastLogin" => req[q].token = None

LateReq(q) == req[q].pc \in Carrying /\ req[q].line \in ended => req[q].late # "no"

(* What the invariant says of one request. *)
Keeper(q) == LineReq(q) /\ SoleReq(q) /\ LoginReq(q) /\ LateReq(q)

Serial ==
  /\ Lineage
  /\ \A t \in Tokens : LineTok(t)
  /\ OneLiveTokenPerLine
  /\ SoleRefresh
  /\ \A q \in Requests : Keeper(q)
  /\ \A l \in ended : Used(l)
  /\ EndedLinesStayEnded

-----------------------------------------------------------------------------
(* Steps that issue no token. *)

LateKept == \A t \in Tokens : tok'[t].late = tok[t].late

(* Whether r joins a line, nobody else is refreshing in it. *)
Joins(r) ==
  req'[r].pc \in Refreshing /\ req'[r].line # None =>
    \/ req[r].pc \in Refreshing /\ req'[r].line = req[r].line
    \/ \A q \in Requests \ {r} :
         ~(req[q].pc \in Refreshing /\ req[q].line = req'[r].line)

(* What is left of the line l is late. *)
AllLate(l, r) ==
  /\ \A t \in Tokens : Live(t)' /\ tok[t].line = l => tok[t].late # "no"
  /\ \A q \in Requests \ {r} :
       req[q].pc \in Carrying /\ req[q].line = l => req'[q].late # "no"

LEMMA SerialStep ==
  ASSUME NEW r, Serial, Lineage', OnlyMoves(r), TokKept, LateKept, ended \subseteq ended',
         \A s \in ended' \ ended : Used(s) /\ AllLate(s, r),
         r \in Requests => Keeper(r)' /\ Joins(r)
  PROVE  Serial'
<1>t. /\ ended \subseteq Tokens /\ ended' \subseteq Tokens
      /\ \A t \in Tokens : Live(t)' => Live(t) /\ tok'[t].line = tok[t].line
      /\ \A s \in ended' : Used(s)
  BY DEF Serial, Lineage, Shape, TypeOK, TokKept
<1>o. \A q \in Requests : q # r =>
        /\ req'[q].pc = req[q].pc /\ req'[q].token = req[q].token
        /\ req'[q].line = req[q].line /\ req'[q].late \in {req[q].late, "raced"}
  BY DEF OnlyMoves, Keeps
<1>1. OneLiveTokenPerLine'
  <2> SUFFICES ASSUME NEW t1 \in Tokens, NEW t2 \in Tokens, Live(t1)', Live(t2)',
                      tok'[t1].line = tok'[t2].line
               PROVE  t1 = t2
    BY DEF OneLiveTokenPerLine, Live
  <2> QED BY <1>t DEF Serial, OneLiveTokenPerLine
<1>2. SoleRefresh'
  <2> SUFFICES ASSUME NEW q1 \in Requests, NEW q2 \in Requests,
                      req'[q1].pc \in Refreshing, req'[q2].pc \in Refreshing,
                      req'[q1].line # None, req'[q1].line = req'[q2].line,
                      q1 # q2
               PROVE  FALSE
    BY DEF SoleRefresh
  <2>1. CASE q1 # r /\ q2 # r
    BY <1>o, <2>1 DEF Serial, SoleRefresh
  <2>2. CASE q1 = r
    BY <1>o, <2>2 DEF Serial, SoleRefresh, Joins
  <2>3. CASE q2 = r
    BY <1>o, <2>3 DEF Serial, SoleRefresh, Joins
  <2> QED BY <2>1, <2>2, <2>3
<1>3. ASSUME NEW q \in Requests, q # r PROVE Keeper(q)'
  <2>1. SoleReq(q)'
    <3> SUFFICES ASSUME NEW t \in Tokens, req'[q].pc \in Refreshing, Live(t)',
                        tok'[t].line = req'[q].line
                 PROVE  t = req'[q].token /\ req'[q].pc \in {"revoke", "idleRevoke"}
      BY DEF SoleReq, Live
    <3> QED BY <1>o, <1>t, <1>3 DEF Serial, Keeper, SoleReq
  <2>2. LoginReq(q)'
    BY <1>o, <1>3 DEF Serial, Keeper, LoginReq
  <2>3. LateReq(q)'
    <3> SUFFICES ASSUME req'[q].pc \in Carrying, req'[q].line \in ended'
                 PROVE  req'[q].late # "no"
      BY DEF LateReq
    <3>1. CASE req[q].line \in ended
      BY <1>o, <1>3, <3>1 DEF Serial, Keeper, LateReq
    <3>2. CASE req[q].line \in ended' \ ended
      BY <1>o, <1>3, <3>2 DEF AllLate
    <3> QED BY <1>o, <1>3, <3>1, <3>2
  <2>4. LineReq(q)'
    BY <1>o, <1>3 DEF Serial, Keeper, LineReq, TokKept
  <2> QED BY <2>1, <2>2, <2>3, <2>4 DEF Keeper
<1>6. \A t \in Tokens : LineTok(t)'
  BY DEF Serial, Lineage, Shape, RootedTok, LineTok, TokKept, Used
<1>4. \A s \in ended' : Used(s)'
  BY <1>t DEF TokKept
<1>5. EndedLinesStayEnded'
  <2> SUFFICES ASSUME NEW t \in Tokens, Live(t)', tok'[t].line \in ended'
               PROVE  tok'[t].late # "no"
    BY DEF EndedLinesStayEnded, Live
  <2>1. CASE tok[t].line \in ended
    BY <1>t, <2>1 DEF Serial, EndedLinesStayEnded, LateKept
  <2>2. CASE tok[t].line \in ended' \ ended
    BY <1>t, <2>2 DEF AllLate, LateKept
  <2> QED BY <1>t, <2>1, <2>2
<1> QED BY <1>1, <1>2, <1>3, <1>4, <1>5, <1>6 DEF Serial

LEMMA LateOne ==
  ASSUME NEW x \in Tokens, Shape, tok' = [tok EXCEPT ![x].status = "revoked"]
  PROVE  LateKept /\ ~Live(x)'
<1>1. tok[x] \in Row
  BY DEF Shape, TypeOK
<1>2. /\ tok'[x] = [tok[x] EXCEPT !.status = "revoked"]
      /\ \A t \in Tokens : t # x => tok'[t] = tok[t]
  BY RevokeOne
<1>3. tok'[x].status = "revoked" /\ tok'[x].late = tok[x].late
  BY <1>1, <1>2 DEF Row
<1> QED BY <1>2, <1>3 DEF LateKept, Live

LEMMA LateMany == ASSUME NEW S, Shape, tok' = Revoked(S) PROVE LateKept
  BY RevokedFields DEF LateKept, Shape, TypeOK

LEMMA LateAll == UNCHANGED tok => LateKept
  BY DEF LateKept

-----------------------------------------------------------------------------
LEMMA InitSerial == Init => Serial
<1> SUFFICES ASSUME Init PROVE Serial
  OBVIOUS
<1>1. Lineage
  BY InitLife
<1>2. \A t \in Tokens : ~Live(t)
  BY DEF Init, Live, Unused
<1>3. \A q \in Requests : req[q].pc = "idle"
  BY DEF Init, Idle
<1>4. ended = {}
  BY DEF Init
<1>5. SoleRefresh /\ \A q \in Requests : Keeper(q)
  BY <1>3, <1>4
     DEF SoleRefresh, Keeper, LineReq, SoleReq, LoginReq, LateReq, Refreshing, Carrying
<1>6. \A t \in Tokens : LineTok(t)
  BY DEF Init, LineTok, Used, Unused
<1> QED
  BY <1>1, <1>2, <1>4, <1>5, <1>6 DEF Serial, OneLiveTokenPerLine, EndedLinesStayEnded

LEMMA NextSerial ==
  ASSUME Serial, [Next]_vars
  PROVE  Serial'
<1>l. Lineage /\ Lineage'
  BY NextLife DEF Serial
<1>s. Shape /\ Shape'
  BY <1>l DEF Lineage
<1>t. /\ req \in [Requests -> Local] /\ tok \in [Tokens -> Row]
      /\ ended \subseteq Tokens /\ None \notin Tokens
  BY <1>s, ConstantsAssumption DEF Shape, TypeOK
(* A request that ends, or goes on to a statement that refreshes nothing. *)
<1>e. ASSUME NEW r, OnlyMoves(r), TokKept, LateKept, UNCHANGED ended,
             r \in Requests => req'[r].pc \notin Carrying \cup {"idleRevoke"}
      PROVE  Serial'
  <2>1. r \in Requests => Keeper(r)' /\ Joins(r)
    BY <1>e DEF Keeper, LineReq, SoleReq, LoginReq, LateReq, Joins, Carrying, Refreshing
  <2> QED BY <1>e, <1>l, <2>1, SerialStep
<1>i. ASSUME NEW r, r \in Requests => req'[r] = Idle
      PROVE  r \in Requests => req'[r].pc \notin Carrying \cup {"idleRevoke"}
  BY <1>i DEF Idle, Carrying
<1>f. ASSUME NEW r \in Requests, Finish(r), UNCHANGED <<tok, ended>> PROVE Serial'
  BY <1>f, <1>s, <1>e, <1>i, FinishMoves, KeptAll, LateAll
<1>w. ASSUME NEW r \in Requests, NEW x \in Local, req' = [req EXCEPT ![r] = x],
             x.pc \notin Carrying \cup {"idleRevoke"}, UNCHANGED <<tok, ended>>
      PROVE  Serial'
  BY <1>s, <1>w, <1>e, StartMoves, KeptAll, LateAll
(* A revocation of tokens in use that ends no line. *)
<1>v. ASSUME NEW r, NEW S, NEW L, tok' = Revoked(L), \A t \in L : Used(t),
             req' = MarkLate(S, r), UNCHANGED ended
      PROVE  Serial'
  BY <1>v, <1>s, <1>e, <1>i, KeptMany, LateMany, MarkLateMoves
(* A request that goes on with no line. *)
<1>h. ASSUME NEW r \in Requests, OnlyMoves(r), UNCHANGED <<tok, ended>>,
             req'[r].line = None, LoginReq(r)'
      PROVE  Serial'
  <2>1. \A t \in Tokens : Live(t)' => tok'[t].line \in Tokens
    BY <1>s DEF Shape, RootedTok, Live, Used
  <2>2. Keeper(r)' /\ Joins(r)
    BY <1>h, <1>t, <2>1 DEF Keeper, LineReq, SoleReq, LateReq, Joins, Live
  <2> QED BY <1>h, <1>l, <2>2, KeptAll, LateAll, SerialStep
<1>1. ASSUME NEW r \in Requests, NEW u \in Users, LoginRead(r, u) PROVE Serial'
  <2> DEFINE x == [Idle EXCEPT !.pc = "lastLogin", !.user = u, !.cred = password[u]]
  <2>1. x \in Local
    BY <1>s, IdleTyped DEF Local, Labels, Shape, TypeOK
  <2>2. x.token = None /\ x.line = None
    BY DEF Idle
  <2> HIDE DEF x
  <2>3. OnlyMoves(r) /\ req'[r] = x /\ UNCHANGED <<tok, ended>>
    BY <1>1, <1>s, <2>1, StartMoves DEF LoginRead, x
  <2> QED BY <1>h, <2>2, <2>3 DEF LoginReq
<1>2. ASSUME NEW r \in Requests, LastLogin(r) PROVE Serial'
  <2>1. Goto(r, "issue") /\ UNCHANGED <<tok, ended>> /\ "issue" \in Labels
    BY <1>2 DEF LastLogin, Labels
  <2>2. OnlyMoves(r) /\ Keeps(r)
    BY <1>s, <2>1, GotoMoves
  <2>3. req[r].token = None /\ req[r].line = None
    BY <1>2, <1>t DEF LastLogin, At, Serial, Keeper, LoginReq, LineReq, Carrying
  <2> QED BY <1>h, <2>1, <2>2, <2>3 DEF Keeps, LoginReq
<1>4. ASSUME NEW r \in Requests, NEW t \in Tokens, RefreshRead(r, t) PROVE Serial'
  <2>1. /\ Live(t) /\ OnlyMoves(r) /\ UNCHANGED <<tok, ended>>
        /\ req'[r].pc \in {"revoke", "idleRevoke"} /\ req'[r].token = t
        /\ req'[r].line = LineFor(r, t) /\ (req'[r].late = "no" <=> tok[t].late = "no")
    BY <1>4, <1>s, ReadMoves
  <2>2. LoginReq(r)'
    BY <2>1 DEF LoginReq
  <2>3. CASE Contended(r, t)
    <3>1. req'[r].line = None
      BY <2>1, <2>3 DEF LineFor
    <3> QED BY <1>h, <2>1, <2>2, <3>1
  <2>4. CASE ~Contended(r, t)
    <3>1. req'[r].line = tok[t].line
      BY <2>1, <2>4 DEF LineFor
    <3>2. SoleReq(r)'
      BY <2>1, <3>1 DEF SoleReq, Live, Serial, OneLiveTokenPerLine
    <3>3. LateReq(r)'
      BY <2>1, <3>1 DEF LateReq, Serial, EndedLinesStayEnded
    <3>4. LineReq(r)'
      BY <2>1, <3>1 DEF LineReq
    <3>5. ASSUME NEW q \in Requests \ {r}, req[q].pc \in Refreshing, req[q].line = tok[t].line
          PROVE  FALSE
      <4>1. t = req[q].token
        BY <2>1, <3>5 DEF Serial, Keeper, SoleReq
      <4> QED BY <2>4, <3>5, <4>1 DEF Contended
    <3>6. Joins(r)
      BY <3>1, <3>5 DEF Joins
    <3> QED BY <1>l, <2>1, <2>2, <3>2, <3>3, <3>4, <3>6, KeptAll, LateAll, SerialStep DEF Keeper
  <2> QED BY <2>3, <2>4
<1>6. ASSUME NEW r \in Requests, RefreshRevoke(r) PROVE Serial'
  <2>0. PICK x \in Tokens : x = req[r].token
    BY <1>6, <1>s DEF RefreshRevoke, Shape, RootedReq, At
  <2>1. /\ At(r, "revoke") /\ Used(x)
        /\ tok' = [tok EXCEPT ![x].status = "revoked"]
        /\ Goto(r, "loadUser") /\ "loadUser" \in Labels /\ UNCHANGED ended
    BY <1>6, <1>s, <2>0 DEF RefreshRevoke, Shape, RootedReq, At, Labels
  <2>2. OnlyMoves(r) /\ req'[r].pc = "loadUser" /\ req'[r].late = req[r].late /\ Keeps(r)
    BY <1>s, <2>1, GotoMoves
  <2>3. TokKept /\ LateKept /\ ~Live(x)'
    BY <1>s, <2>1, KeptOne, LateOne
  <2>4. SoleReq(r)'
    <3> SUFFICES ASSUME NEW t \in Tokens, Live(t)', tok'[t].line = req'[r].line
                 PROVE  FALSE
      BY DEF SoleReq, Live
    <3>1. Live(t) /\ tok[t].line = req[r].line
      BY <2>2, <2>3 DEF TokKept, Keeps
    <3>2. t = x
      BY <2>0, <2>1, <3>1 DEF Serial, Keeper, SoleReq, At, Refreshing
    <3> QED BY <2>3, <3>2
  <2>5. LoginReq(r)' /\ LateReq(r)' /\ LineReq(r)'
    BY <2>1, <2>2, <2>3 DEF LoginReq, LateReq, LineReq, Serial, Keeper, At, Carrying, Keeps, TokKept
  <2>6. Joins(r)
    BY <2>1, <2>2 DEF Joins, At, Refreshing, Keeps
  <2> QED BY <1>l, <2>1, <2>2, <2>3, <2>4, <2>5, <2>6, SerialStep DEF Keeper
<1>7. ASSUME NEW r \in Requests, RefreshLoadUser(r) PROVE Serial'
  <2>1. CASE active[req[r].user]
    <3>1. At(r, "loadUser") /\ Goto(r, "issue") /\ UNCHANGED <<tok, ended>> /\ "issue" \in Labels
      BY <1>7, <2>1 DEF RefreshLoadUser, Labels
    <3>2. OnlyMoves(r) /\ req'[r].pc = "issue" /\ req'[r].late = req[r].late /\ Keeps(r)
      BY <1>s, <3>1, GotoMoves
    <3>3. SoleReq(r)'
      BY <3>1, <3>2 DEF SoleReq, Serial, Keeper, At, Refreshing, Keeps, Live
    <3>4. LoginReq(r)' /\ LateReq(r)' /\ LineReq(r)'
      BY <3>1, <3>2 DEF LoginReq, LateReq, LineReq, Serial, Keeper, At, Carrying, Keeps
    <3>5. Joins(r)
      BY <3>1, <3>2 DEF Joins, At, Refreshing, Keeps
    <3> QED BY <1>l, <3>1, <3>2, <3>3, <3>4, <3>5, KeptAll, LateAll, SerialStep DEF Keeper
  <2>2. CASE ~active[req[r].user]
    BY <1>7, <2>2, <1>f DEF RefreshLoadUser
  <2> QED BY <2>1, <2>2
(* A token is revoked, and its line ends if it is in E. *)
<1>x. ASSUME NEW r, NEW x \in Tokens, NEW E, Used(x), OnlyMoves(r),
             r \in Requests => req'[r] = Idle,
             tok' = [tok EXCEPT ![x].status = "revoked"], ended' = ended \cup E,
             E \subseteq {tok[x].line},
             \A l \in E : \A t \in Tokens : Live(t) /\ tok[t].line = l => t = x,
             \A l \in E : \A q \in Requests \ {r} :
               req[q].pc \in Carrying /\ req[q].line = l => req'[q].late # "no"
      PROVE  Serial'
  <2>1. TokKept /\ LateKept /\ ~Live(x)'
    BY <1>s, <1>x, KeptOne, LateOne
  <2>2. \A l \in E : Used(l)
    BY <1>x DEF Serial, LineTok
  <2>3. \A l \in E : AllLate(l, r)
    BY <1>x, <2>1 DEF AllLate, TokKept
  <2>4. r \in Requests => Keeper(r)' /\ Joins(r)
    BY <1>x, <1>i DEF Keeper, LineReq, SoleReq, LoginReq, LateReq, Joins, Carrying, Refreshing
  <2>5. /\ ended \subseteq ended'
        /\ \A l \in ended' \ ended : Used(l) /\ AllLate(l, r)
    BY <1>x, <2>2, <2>3
  <2> QED BY <1>l, <1>x, <2>1, <2>4, <2>5, SerialStep
<1>5. ASSUME NEW r \in Requests, RefreshIdle(r) PROVE Serial'
  <2>0. PICK x \in Tokens : x = req[r].token
    BY <1>5, <1>s DEF RefreshIdle, Shape, RootedReq, At
  <2> DEFINE E == {req[r].line} \ {None}
  <2>1. /\ At(r, "idleRevoke") /\ Used(x) /\ Finish(r)
        /\ tok' = [tok EXCEPT ![x].status = "revoked"] /\ ended' = ended \cup E
    BY <1>5, <1>s, <2>0 DEF RefreshIdle, Shape, RootedReq, At
  <2>2. OnlyMoves(r) /\ req'[r] = Idle
    BY <1>s, <2>1, FinishMoves
  <2>3. E \subseteq {tok[x].line}
    BY <2>0, <2>1 DEF Serial, Keeper, LineReq, At
  <2>4. \A l \in E : \A t \in Tokens : Live(t) /\ tok[t].line = l => t = x
    BY <2>0, <2>1 DEF Serial, Keeper, SoleReq, At, Refreshing
  <2>5. ASSUME NEW l \in E, NEW q \in Requests \ {r}, req[q].pc \in Carrying, req[q].line = l
        PROVE  req'[q].late # "no"
    <3>1. req[q].pc \in Refreshing
      BY <1>t, <2>5 DEF Serial, Keeper, LineReq, LoginReq, Carrying, Refreshing
    <3> QED BY <2>1, <2>5, <3>1 DEF Serial, SoleRefresh, At, Refreshing
  <2> HIDE DEF E
  <2> QED BY <1>x, <2>1, <2>2, <2>3, <2>4, <2>5
<1>8. ASSUME NEW x \in Tokens, Logout(x) PROVE Serial'
  <2>1. /\ tok' = [tok EXCEPT ![x].status = "revoked"] /\ ended' = ended \cup HandedIn(x)
        /\ req' = MarkLate(InFlightWith(x), None) /\ (Live(x) \/ InFlightWith(x) # {})
    BY <1>8 DEF Logout
  <2>2. Used(x)
    BY <2>1, <1>s DEF InFlightWith, Live, Used, Shape, RootedReq
  <2>3. OnlyMoves(None) /\ None \notin Requests
    BY <1>s, <2>1, MarkLateMoves, ConstantsAssumption
  (* A line handed in is the line of x, and x or one refresh of x holds it. *)
  <2>4. ASSUME NEW l \in HandedIn(x)
        PROVE  /\ l = tok[x].line /\ l # None
               /\ \/ Live(x)
                  \/ \E q \in InFlightWith(x) : req[q].pc \in Refreshing /\ req[q].line = l
    <3>1. CASE Live(x) /\ l = tok[x].line
      BY <1>s, <1>t, <2>2, <3>1 DEF Shape, RootedTok
    <3>2. ASSUME NEW q \in InFlightWith(x), req[q].line = l, l # None
          PROVE  l = tok[x].line /\ req[q].pc \in Refreshing
      BY <1>t, <3>2
         DEF InFlightWith, Serial, Keeper, LineReq, LoginReq, Carrying, Refreshing
    <3>3. \/ Live(x) /\ l = tok[x].line
          \/ l # None /\ \E q \in InFlightWith(x) : req[q].line = l
      BY <2>4 DEF HandedIn
    <3> QED BY <3>1, <3>2, <3>3
  <2>5. ASSUME NEW l \in HandedIn(x), NEW t \in Tokens, Live(t), tok[t].line = l PROVE t = x
    <3>1. CASE Live(x)
      BY <2>4, <2>5, <3>1 DEF Serial, OneLiveTokenPerLine
    <3>2. ASSUME NEW q \in InFlightWith(x), req[q].pc \in Refreshing, req[q].line = l
          PROVE  t = x
      BY <2>5, <3>2 DEF InFlightWith, Serial, Keeper, SoleReq
    <3> QED BY <2>4, <3>1, <3>2
  <2>6. ASSUME NEW l \in HandedIn(x), NEW q \in Requests, req[q].pc \in Carrying, req[q].line = l
        PROVE  req'[q].late # "no"
    <3>1. req[q].pc \in Refreshing
      BY <1>t, <2>4, <2>6 DEF Serial, Keeper, LineReq, LoginReq, Carrying, Refreshing
    <3>2. req[q].token = x
      <4>1. CASE Live(x)
        BY <2>4, <2>6, <3>1, <4>1 DEF Serial, Keeper, SoleReq
      <4>2. ASSUME NEW p \in InFlightWith(x), req[p].pc \in Refreshing, req[p].line = l
            PROVE  req[q].token = x
        BY <2>4, <2>6, <3>1, <4>2 DEF InFlightWith, Serial, SoleRefresh
      <4> QED BY <2>4, <4>1, <4>2
    <3>3. q \in InFlightWith(x) /\ q # None
      BY <2>3, <2>6, <3>2 DEF InFlightWith
    <3>4. req'[q].late = "raced"
      BY <1>t, <2>1, <3>3, MarkLateFields
    <3> QED BY <3>4
  <2> QED BY <1>x, <2>1, <2>2, <2>3, <2>4, <2>5, <2>6
<1>3. ASSUME NEW r \in Requests, Issue(r) PROVE Serial'
  <2>1. PICK x \in Tokens :
          /\ tok[x].status = "unused"
          /\ tok' = [tok EXCEPT ![x] =
               [status |-> "live", age |-> "fresh", user |-> req[r].user,
                session |-> IF req[r].session = None THEN x ELSE req[r].session,
                line |-> IF req[r].line = None THEN x ELSE req[r].line,
                cred |-> req[r].cred,
                late |-> IF UserFree(req[r].user) THEN req[r].late ELSE "raced"]]
    BY <1>3 DEF Issue
  <2>s. PICK s \in Tokens : s = IF req[r].line = None THEN x ELSE req[r].line
    BY <1>t DEF Local
  <2>2. /\ \A t \in Tokens : t # x => tok'[t] = tok[t]
        /\ Live(x)' /\ ~Used(x) /\ tok'[x].line = s
        /\ (req[r].late # "no" => tok'[x].late # "no")
    BY <1>t, <2>1, <2>s DEF Live, Used
  <2>3. OnlyMoves(r) /\ req'[r] = Idle /\ At(r, "issue") /\ UNCHANGED ended
    BY <1>3, <1>s, FinishMoves DEF Issue
  <2>o. \A q \in Requests : q # r =>
          /\ req'[q].pc = req[q].pc /\ req'[q].token = req[q].token
          /\ req'[q].line = req[q].line /\ req'[q].late \in {req[q].late, "raced"}
    BY <2>3 DEF OnlyMoves, Keeps
  <2>i. req'[r].pc \notin Carrying /\ req'[r].pc \notin Refreshing /\ req'[r].pc # "lastLogin"
    BY <2>3 DEF Idle, Carrying, Refreshing
  (* Nobody else has the line: it is new, or r's own. *)
  <2>4. ASSUME NEW t \in Tokens, Live(t) PROVE tok[t].line # s
    <3>1. tok[t].line \in Tokens /\ Used(tok[t].line)
      BY <1>s, <2>4 DEF Serial, LineTok, Shape, RootedTok, Live, Used
    <3>2. CASE req[r].line = None
      BY <2>2, <2>s, <3>1, <3>2
    <3>3. CASE req[r].line # None
      BY <2>3, <2>4, <2>s, <3>3 DEF Serial, Keeper, SoleReq, At, Refreshing
    <3> QED BY <3>2, <3>3
  <2>5. ASSUME NEW q \in Requests, q # r, req[q].pc \in Refreshing PROVE req[q].line # s
    <3>1. CASE req[r].line = None
      <4>1. SUFFICES ASSUME req[q].line = x PROVE FALSE
        BY <2>s, <3>1
      <4>2. req[q].token \in Tokens /\ tok[req[q].token].line = x
        BY <1>t, <2>5, <4>1 DEF Serial, Keeper, LineReq, Refreshing, Carrying
      <4>3. Used(req[q].token)
        BY <1>s, <4>2 DEF Shape, RootedReq
      <4> QED BY <2>2, <4>2, <4>3 DEF Serial, LineTok
    <3>2. CASE req[r].line # None
      BY <2>3, <2>5, <2>s, <3>2 DEF Serial, SoleRefresh, At, Refreshing
    <3> QED BY <3>1, <3>2
  <2>6. OneLiveTokenPerLine'
    <3> SUFFICES ASSUME NEW t1 \in Tokens, NEW t2 \in Tokens, Live(t1)', Live(t2)',
                        tok'[t1].line = tok'[t2].line
                 PROVE  t1 = t2
      BY DEF OneLiveTokenPerLine, Live
    <3> QED BY <2>2, <2>4 DEF Serial, OneLiveTokenPerLine, Live
  <2>7. SoleRefresh'
    BY <2>o, <2>i DEF Serial, SoleRefresh
  <2>8. ASSUME NEW q \in Requests PROVE Keeper(q)'
    <3>1. CASE q = r
      BY <2>3, <3>1 DEF Idle, Keeper, LineReq, SoleReq, LoginReq, LateReq, Carrying, Refreshing
    <3>2. CASE q # r
      <4>1. SoleReq(q)'
        <5> SUFFICES ASSUME NEW t \in Tokens, req[q].pc \in Refreshing, Live(t)',
                            tok'[t].line = req[q].line
                     PROVE  t = req[q].token /\ req[q].pc \in {"revoke", "idleRevoke"}
          BY <2>o, <3>2 DEF SoleReq, Live
        <5>1. t # x
          BY <2>2, <2>5, <3>2
        <5> QED BY <2>2, <5>1 DEF Serial, Keeper, SoleReq, Live
      <4>2. LoginReq(q)' /\ LateReq(q)'
        BY <2>3, <2>o, <3>2 DEF Serial, Keeper, LoginReq, LateReq
      <4>3. LineReq(q)'
        <5>1. LineReq(q) /\ (req[q].token \in Tokens => Used(req[q].token))
          BY <1>s DEF Serial, Keeper, Shape, RootedReq
        <5> QED BY <2>2, <2>o, <3>2, <5>1 DEF LineReq
      <4> QED BY <4>1, <4>2, <4>3 DEF Keeper
    <3> QED BY <3>1, <3>2
  <2>9. \A y \in ended' : Used(y)'
    BY <1>t, <2>2, <2>3 DEF Serial, Used
  <2>10. EndedLinesStayEnded'
    <3> SUFFICES ASSUME NEW t \in Tokens, Live(t)', tok'[t].line \in ended
                 PROVE  tok'[t].late # "no"
      BY <2>3 DEF EndedLinesStayEnded, Live
    <3>1. CASE t # x
      BY <2>2, <3>1 DEF Serial, EndedLinesStayEnded, Live
    <3>2. CASE t = x
      <4>1. req[r].line \in ended
        BY <2>2, <2>s, <3>2 DEF Serial
      <4> QED BY <2>2, <2>3, <3>2, <4>1 DEF Serial, Keeper, LateReq, At, Carrying
    <3> QED BY <3>1, <3>2
  <2>11. Used(s)'
    <3>1. CASE req[r].line = None
      BY <2>2, <2>s, <3>1 DEF Live, Used
    <3>2. CASE req[r].line # None
      <4>1. req[r].token \in Tokens /\ s = tok[req[r].token].line /\ Used(req[r].token)
        BY <1>s, <2>3, <2>s, <3>2
           DEF Serial, Keeper, LineReq, At, Carrying, Shape, RootedReq
      <4>2. Used(s)
        BY <4>1 DEF Serial, LineTok
      <4> QED BY <2>2, <4>2 DEF Used
    <3> QED BY <3>1, <3>2
  <2>12. ASSUME NEW t \in Tokens PROVE LineTok(t)'
    <3>1. CASE t = x
      BY <2>2, <2>11, <3>1 DEF LineTok, Used, Live
    <3>2. CASE t # x
      <4>1. LineTok(t) /\ (Used(t) => tok[t].line \in Tokens)
        BY <1>s DEF Serial, Shape, RootedTok
      <4> QED BY <2>2, <3>2, <4>1 DEF LineTok, Used, Live
    <3> QED BY <3>1, <3>2
  <2> QED BY <1>l, <2>6, <2>7, <2>8, <2>9, <2>10, <2>12 DEF Serial
<1>9. ASSUME NEW r, NEW u, RevokeUser(u, r), UNCHANGED ended PROVE Serial'
  <2>1. /\ tok' = Revoked(LiveOf(u)) /\ \A t \in LiveOf(u) : Used(t)
        /\ req' = MarkLate(InFlightOf(u), r)
    BY <1>9 DEF RevokeUser, LiveOf, Live, Used
  <2> QED BY <1>9, <1>v, <2>1
<1>10. ASSUME NEW u \in Users, RevokeAllSessions(u) PROVE Serial'
  BY <1>9, <1>10 DEF RevokeAllSessions
<1>11. ASSUME NEW r \in Requests, RevokeAll(r) PROVE Serial'
  BY <1>9, <1>11 DEF RevokeAll
<1>12. ASSUME NEW r \in Requests, NEW u \in Users, ResetRead(r, u) PROVE Serial'
  <2> DEFINE x == [Idle EXCEPT !.pc = "insertReset", !.user = u]
  <2>1. x \in Local /\ x.pc \notin Carrying \cup {"idleRevoke"}
    BY IdleTyped DEF Local, Labels, Carrying, Idle
  <2> QED BY <1>12, <1>w, <2>1 DEF ResetRead
<1>13. ASSUME NEW r \in Requests, ResetInsert(r) PROVE Serial'
  BY <1>13, <1>f DEF ResetInsert
<1>15. ASSUME NEW r \in Requests, NEW k \in ResetTokens, ConfirmRead(r, k) PROVE Serial'
  <2> DEFINE x == [Idle EXCEPT !.pc = "confirm", !.reset = k, !.user = reset[k].user]
  <2>1. reset[k].user \in Users
    BY <1>15, <1>s DEF ConfirmRead, Shape, RootedReset
  <2>2. x \in Local /\ x.pc \notin Carrying \cup {"idleRevoke"}
    BY <2>1, IdleTyped DEF Local, Labels, Carrying, Idle
  <2> QED BY <1>15, <1>w, <2>2 DEF ConfirmRead
<1>16. ASSUME NEW r \in Requests, ConfirmUpdate(r) PROVE Serial'
  <2> DEFINE x == [req[r] EXCEPT !.pc = "commit", !.locked = LiveOf(req[r].user)]
  <2>1. req' = [req EXCEPT ![r] = x] /\ UNCHANGED <<tok, ended>>
    BY <1>16, <1>t DEF ConfirmUpdate
  <2>2. x \in Local /\ x.pc \notin Carrying \cup {"idleRevoke"}
    BY <1>t DEF Local, Labels, LiveOf, Carrying
  <2> QED BY <1>w, <2>1, <2>2
<1>17. ASSUME NEW r \in Requests, ConfirmCommit(r) PROVE Serial'
  <2>1. /\ tok' = Revoked(req[r].locked) /\ \A t \in req[r].locked : Used(t)
        /\ req' = MarkLate(InFlightOf(req[r].user), r) /\ UNCHANGED ended
    BY <1>17, <1>s DEF ConfirmCommit, Shape, RootedReq
  <2> QED BY <1>v, <2>1
<1>18. ASSUME NEW r \in Requests, NEW u \in Users, ChangeRead(r, u) PROVE Serial'
  <2> DEFINE x == [Idle EXCEPT !.pc = "savePassword", !.user = u]
  <2>1. x \in Local /\ x.pc \notin Carrying \cup {"idleRevoke"}
    BY IdleTyped DEF Local, Labels, Carrying, Idle
  <2> QED BY <1>18, <1>w, <2>1 DEF ChangeRead
<1>19. ASSUME NEW r \in Requests, SavePassword(r) PROVE Serial'
  <2>1. Goto(r, "revokeAll") /\ UNCHANGED <<tok, ended>> /\ "revokeAll" \in Labels
    BY <1>19 DEF SavePassword, Labels
  <2>2. OnlyMoves(r) /\ req'[r].pc = "revokeAll"
    BY <1>s, <2>1, GotoMoves
  <2>3. req'[r].pc \notin Carrying \cup {"idleRevoke"}
    BY <2>2 DEF Carrying
  <2> QED BY <1>e, <2>1, <2>2, <2>3, KeptAll, LateAll
<1>20. ASSUME NEW r \in Requests, NEW u \in Users, Deactivate(r, u) PROVE Serial'
  <2> DEFINE x == [Idle EXCEPT !.pc = "revokeAll", !.user = u]
  <2>1. x \in Local /\ x.pc \notin Carrying \cup {"idleRevoke"}
    BY IdleTyped DEF Local, Labels, Carrying, Idle
  <2> QED BY <1>20, <1>w, <2>1 DEF Deactivate
<1>23. ASSUME NEW r \in Requests, Fail(r) PROVE Serial'
  BY <1>23, <1>f DEF Fail
(* The steps of no request: req is unchanged. *)
<1>n. ASSUME UNCHANGED <<req, ended>>, TokKept, LateKept PROVE Serial'
  <2>1. OnlyMoves(None)
    BY <1>n, <1>t DEF OnlyMoves, Keeps
  <2> QED BY <1>e, <1>n, <2>1, ConstantsAssumption
<1>14. ASSUME NEW k \in ResetTokens, ResetExpire(k) PROVE Serial'
  BY <1>14, <1>n, KeptAll, LateAll DEF ResetExpire
<1>21. ASSUME NEW u \in Users, Reactivate(u) PROVE Serial'
  BY <1>21, <1>n, KeptAll, LateAll DEF Reactivate
<1>22. ASSUME NEW t \in Tokens, Age(t) PROVE Serial'
  <2>1. TokKept /\ LateKept
    BY <1>22, <1>t DEF Age, TokKept, LateKept, Live, Used, Row
  <2> QED BY <1>22, <1>n, <2>1 DEF Age
<1>24. CASE UNCHANGED vars
  BY <1>24, <1>n, KeptAll, LateAll DEF vars
<1> QED
  BY <1>1, <1>2, <1>3, <1>4, <1>5, <1>6, <1>7, <1>8, <1>10, <1>11, <1>12,
     <1>13, <1>14, <1>15, <1>16, <1>17, <1>18, <1>19, <1>20, <1>21, <1>22, <1>23, <1>24
     DEF Next, Start, Step

-----------------------------------------------------------------------------
LEMMA SerialAlways == Spec => []Serial
<1>1. Init => Serial
  BY InitSerial
<1>2. Serial /\ [Next]_vars => Serial'
  BY NextSerial
<1> QED
  BY <1>1, <1>2, PTL DEF Spec

(* auth_service.go, RefreshToken "rotates the refresh token": a line of      *)
(* tokens never has two live ones, whatever refreshes, logouts, resets and   *)
(* deactivations overlap.  Only the refreshes that overlap with one another  *)
(* on the same token add live tokens to a session, and one line each.        *)
THEOREM RotationIsSerial == Spec => []OneLiveTokenPerLine
<1>1. Serial => OneLiveTokenPerLine
  BY DEF Serial
<1> QED
  BY <1>1, SerialAlways, PTL

(* A line that was logged out of, or ended for inactivity, has no live token *)
(* but what a refresh in flight at that moment inserted, and what that was   *)
(* rotated into; whatever refreshes overlap.                                 *)
THEOREM EndedStayEnded == Spec => []EndedLinesStayEnded
<1>1. Serial => EndedLinesStayEnded
  BY DEF Serial
<1> QED
  BY <1>1, SerialAlways, PTL
=============================================================================
