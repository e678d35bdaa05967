-------------------------- MODULE InvitationsProofs --------------------------
(***************************************************************************)
(* Proofs about Invitations, for any number of invitations, people,        *)
(* organisations and requests.                                             *)
(***************************************************************************)
EXTENDS Invitations, TLAPS

(* What a label promises about the request, and a status about its row. *)
Shape ==
  /\ TypeOK
  /\ \A i \in Invites : inv[i].status # "unused"
       => inv[i].place \in Places /\ inv[i].email \in Emails
  /\ \A i \in Invites : inv[i].status = "unused"
       => inv[i].place = None /\ uses[i] = 0
  /\ \A r \in Requests : req[r].pc = "send"
       => req[r].place \in Orgs /\ req[r].email \in Emails
  /\ \A r \in Requests : req[r].pc = "invitePlatform" => req[r].email \in Emails
  /\ \A r \in Requests : req[r].pc \in {"resend", "expire", "accept"}
       => req[r].invite \in Invites /\ inv[req[r].invite].status # "unused"
  /\ \A r \in Requests : req[r].pc \in {"idle", "send", "invitePlatform"}
       => req[r].invite = None

(* An account that an invitation has paid for exists, and is paid for once. *)
Paid ==
  /\ \A i \in Invites : uses[i] > 0 => uses[i] = 1 /\ Home(i) \in accounts
  /\ OneInvitationPerAccount

(* Whoever may still undo an acceptance had read the invitation before it.  *)
Undoing ==
  /\ AcceptancesUndoneOnlyInFlight
  /\ \A r \in Requests :
       /\ req[r].pc \in {"resend", "expire"}
       /\ uses[req[r].invite] > 0
       /\ inv[req[r].invite].place \in Orgs
       => req[r].late \/ req[r].invite \in raced

Rows == Statuses \cup {"unused"}

-----------------------------------------------------------------------------
(* Every action keeps the types and what the labels promise. *)

(* A statement leaves the requests alone or ends one. *)
LEMMA Done ==
  ASSUME req \in [Requests -> Local], req' = req \/ \E r \in Requests : Finish(r)
  PROVE  /\ req' \in [Requests -> Local]
         /\ \A r \in Requests : req'[r] = req[r] \/ req'[r] = Idle
  <1>1. Idle \in Local
    BY DEF Idle, Local
  <1>2. CASE req' = req
    BY <1>2
  <1>3. CASE \E r \in Requests : Finish(r)
    <2>1. PICK r \in Requests : req' = [req EXCEPT ![r] = Idle]
      BY <1>3 DEF Finish
    <2> QED
      BY <1>1, <2>1
  <1> QED
    BY <1>2, <1>3

LEMMA ShapeInit == Init => Shape
  <1> SUFFICES ASSUME Init PROVE Shape
    OBVIOUS
  <1>1. TypeOK
    BY DEF Init, TypeOK, Row, Unused, Local, Idle, Places
  <1> QED
    BY <1>1 DEF Init, Shape, Unused, Idle

(* A new row, with the request that inserts it (if any) done. *)
LEMMA InsertKeepsShape ==
  ASSUME InviteConstants, Shape, NEW p \in Places, NEW e \in Emails, NEW S \in SUBSET BOOLEAN,
         Insert(p, e, S), UNCHANGED <<accounts, orgActive, uses, raced>>,
         req' = req \/ \E r \in Requests : Finish(r)
  PROVE  Shape'
  <1> USE DEF Shape
  <1>1. PICK i \in Invites, s \in S :
          /\ inv[i].status = "unused"
          /\ inv' = [inv EXCEPT ![i] = [status |-> "pending", place |-> p,
                                        email |-> e, past |-> FALSE, scoped |-> s]]
    BY DEF Insert
  <1>2. inv' \in [Invites -> Row]
    BY <1>1 DEF TypeOK, Row, Statuses
  <1>3. req' \in [Requests -> Local] /\ \A r \in Requests : req'[r] = req[r] \/ req'[r] = Idle
    BY Done DEF TypeOK
  <1>4. TypeOK'
    BY <1>2, <1>3 DEF TypeOK
  <1>5. \A j \in Invites : inv'[j] = inv[j] \/ (j = i /\ inv'[j].status = "pending"
                             /\ inv'[j].place = p /\ inv'[j].email = e)
    BY <1>1 DEF TypeOK
  <1> QED
    BY <1>3, <1>4, <1>5 DEF Idle

(* A request starts: nothing else changes. *)
LEMMA StartKeepsShape ==
  ASSUME InviteConstants, Shape, NEW r \in Requests, NEW x \in Local,
         req' = [req EXCEPT ![r] = x],
         UNCHANGED <<inv, accounts, orgActive, uses, raced>>,
         x.pc = "send" => x.place \in Orgs /\ x.email \in Emails,
         x.pc = "invitePlatform" => x.email \in Emails,
         x.pc \in {"resend", "expire", "accept"}
           => x.invite \in Invites /\ inv[x.invite].status # "unused",
         x.pc \in {"idle", "send", "invitePlatform"} => x.invite = None
  PROVE  Shape'
  BY DEF Shape, TypeOK

(* A row in use changes its status or its expiry; the request is done. *)
LEMMA UpdateKeepsShape ==
  ASSUME InviteConstants, Shape, NEW i \in Invites, NEW st \in Statuses, NEW b \in BOOLEAN,
         inv[i].status # "unused",
         inv' = [inv EXCEPT ![i].status = st, ![i].past = b],
         req' = req \/ \E r \in Requests : Finish(r),
         raced' \subseteq Invites,
         UNCHANGED <<accounts, orgActive, uses>>
  PROVE  Shape'
  <1>0. TypeOK
    BY DEF Shape
  <1>1. inv' \in [Invites -> Row]
    <2> DEFINE new == [inv[i] EXCEPT !.status = st, !.past = b]
    <2>1. inv' = [inv EXCEPT ![i] = new]
      BY <1>0 DEF TypeOK
    <2>2. inv[i] \in Row /\ st \in Statuses \cup {"unused"}
      BY <1>0 DEF TypeOK
    <2>3. new \in Row
      BY <2>2 DEF Row
    <2> QED
      BY <1>0, <2>1, <2>3 DEF TypeOK
  <1>2. req' \in [Requests -> Local] /\ \A r \in Requests : req'[r] = req[r] \/ req'[r] = Idle
    BY <1>0, Done DEF TypeOK
  <1>3. TypeOK'
    BY <1>0, <1>1, <1>2 DEF TypeOK
  <1>4. \A j \in Invites : /\ inv'[j].place = inv[j].place
                           /\ inv'[j].email = inv[j].email
                           /\ inv'[j].status = inv[j].status \/ (j = i /\ inv'[j].status = st)
    BY <1>0 DEF TypeOK, Row
  <1>5. /\ Idle.pc = "idle" /\ Idle.invite = None
        /\ "unused" \notin Statuses
    BY DEF Idle, Statuses
  <1>6. \A j \in Invites : inv'[j].status = "unused" <=> inv[j].status = "unused"
    BY <1>4, <1>5
  <1>7. \A r \in Requests : req'[r].pc \in {"resend", "expire", "accept"}
          => req'[r].invite \in Invites /\ inv'[req'[r].invite].status # "unused"
    <2> TAKE r \in Requests
    <2> HAVE req'[r].pc \in {"resend", "expire", "accept"}
    <2>1. req'[r] = req[r]
      BY <1>2, <1>5
    <2> QED
      BY <1>6, <2>1 DEF Shape
  <1> QED
    <2>1. \A j \in Invites : inv'[j].status # "unused"
            => inv'[j].place \in Places /\ inv'[j].email \in Emails
      BY <1>4, <1>6 DEF Shape
    <2>2. \A j \in Invites : inv'[j].status = "unused"
            => inv'[j].place = None /\ uses'[j] = 0
      BY <1>4, <1>6 DEF Shape
    <2>3. \A r \in Requests : req'[r].pc = "send"
            => req'[r].place \in Orgs /\ req'[r].email \in Emails
      BY <1>2, <1>5 DEF Shape
    <2>4. \A r \in Requests : req'[r].pc = "invitePlatform" => req'[r].email \in Emails
      BY <1>2, <1>5 DEF Shape
    <2>5. \A r \in Requests : req'[r].pc \in {"idle", "send", "invitePlatform"}
            => req'[r].invite = None
      BY <1>2, <1>5 DEF Shape
    <2> QED
      BY <1>3, <1>7, <2>1, <2>2, <2>3, <2>4, <2>5 DEF Shape, Places

(* The request of an acceptance ends, the others on its row are marked. *)
LEMMA OvertakeShape ==
  ASSUME Shape, NEW r \in Requests, NEW i \in Invites, req' = Overtake(r, i)
  PROVE  /\ req' \in [Requests -> Local]
         /\ \A q \in Requests : \/ req'[q] = Idle
                                \/ /\ req'[q].pc = req[q].pc
                                   /\ req'[q].invite = req[q].invite
                                   /\ req'[q].place = req[q].place
                                   /\ req'[q].email = req[q].email
                                   /\ req'[q].late = (req[q].late \/ req[q].invite = i)
  <1>1. Idle \in Local
    BY DEF Idle, Local
  <1>2. ASSUME NEW q \in Requests
        PROVE  LET x == [req[q] EXCEPT !.late = TRUE]
               IN x \in Local /\ x.pc = req[q].pc /\ x.invite = req[q].invite
                  /\ x.place = req[q].place /\ x.email = req[q].email /\ x.late = TRUE
    <2>1. req[q] \in Local
      BY DEF Shape, TypeOK
    <2> QED
      BY <2>1 DEF Local
  <1>3. \A q \in Requests : req[q] \in Local /\ req[q].late \in BOOLEAN
    BY DEF Shape, TypeOK, Local
  <1>4. \A q \in Requests : req'[q] \in {Idle, req[q], [req[q] EXCEPT !.late = TRUE]}
    BY DEF Overtake
  <1>5. req' \in [Requests -> Local]
    BY <1>1, <1>2, <1>3 DEF Overtake
  <1>6. ASSUME NEW q \in Requests, req'[q] # Idle
        PROVE  /\ req'[q].pc = req[q].pc
               /\ req'[q].invite = req[q].invite
               /\ req'[q].place = req[q].place
               /\ req'[q].email = req[q].email
               /\ req'[q].late = (req[q].late \/ req[q].invite = i)
    <2>1. CASE req[q].invite = i
      <3>1. req'[q] = [req[q] EXCEPT !.late = TRUE]
        BY <1>6, <2>1 DEF Overtake
      <3> QED
        BY <1>2, <2>1, <3>1
    <2>2. CASE req[q].invite # i
      <3>1. req'[q] = req[q]
        BY <1>6, <2>2 DEF Overtake
      <3> QED
        BY <1>3, <2>2, <3>1
    <2> QED
      BY <2>1, <2>2
  <1> QED
    BY <1>5, <1>6

LEMMA CommitKeepsShape ==
  ASSUME InviteConstants, Shape, NEW r \in Requests, AcceptCommit(r)
  PROVE  Shape'
  <1> DEFINE i == req[r].invite
  <1>0. i \in Invites /\ inv[i].status = "pending" /\ TypeOK
    BY DEF AcceptCommit, Acceptable, Shape, At
  <1> HIDE DEF i
  <1>1. /\ inv' = [inv EXCEPT ![i].status = "accepted"]
        /\ accounts' = accounts \cup {Home(i)}
        /\ orgActive' = [o \in Orgs |-> orgActive[o] \/ o = inv[i].place]
        /\ uses' = [uses EXCEPT ![i] = @ + 1]
        /\ req' = Overtake(r, i)
        /\ raced' = raced
    BY DEF AcceptCommit, i
  <1>2. inv[i].place \in Places /\ inv[i].email \in Emails
    BY <1>0 DEF Shape
  <1>3. inv' \in [Invites -> Row]
    BY <1>0, <1>1 DEF TypeOK, Row, Statuses
  <1>4. /\ req' \in [Requests -> Local]
        /\ \A q \in Requests : req'[q] = Idle \/ (/\ req'[q].pc = req[q].pc
                                                   /\ req'[q].invite = req[q].invite
                                                   /\ req'[q].place = req[q].place
                                                   /\ req'[q].email = req[q].email)
    BY <1>0, <1>1, OvertakeShape
  <1>5. TypeOK'
    BY <1>0, <1>1, <1>2, <1>3, <1>4 DEF TypeOK, Home
  <1>6. \A j \in Invites : /\ inv'[j].place = inv[j].place
                           /\ inv'[j].email = inv[j].email
                           /\ inv'[j].status = "unused" <=> inv[j].status = "unused"
                           /\ j # i => uses'[j] = uses[j]
    BY <1>0, <1>1 DEF TypeOK, Row
  <1>7. Idle.pc = "idle" /\ Idle.invite = None
    BY DEF Idle
  <1>8. \A j \in Invites : inv'[j].status # "unused"
          => inv'[j].place \in Places /\ inv'[j].email \in Emails
    BY <1>6 DEF Shape
  <1>9. \A j \in Invites : inv'[j].status = "unused" => inv'[j].place = None /\ uses'[j] = 0
    BY <1>0, <1>6 DEF Shape
  <1>10. \A q \in Requests : req'[q].pc = "send"
           => req'[q].place \in Orgs /\ req'[q].email \in Emails
    BY <1>4, <1>7 DEF Shape
  <1>11. \A q \in Requests : req'[q].pc = "invitePlatform" => req'[q].email \in Emails
    BY <1>4, <1>7 DEF Shape
  <1>12. \A q \in Requests : req'[q].pc \in {"resend", "expire", "accept"}
           => req'[q].invite \in Invites /\ inv'[req'[q].invite].status # "unused"
    BY <1>4, <1>6, <1>7 DEF Shape
  <1>13. \A q \in Requests : req'[q].pc \in {"idle", "send", "invitePlatform"}
           => req'[q].invite = None
    BY <1>4, <1>7 DEF Shape
  <1> QED
    BY <1>5, <1>8, <1>9, <1>10, <1>11, <1>12, <1>13 DEF Shape, Places

LEMMA ShapeNext == ASSUME InviteConstants, Shape, [Next]_vars PROVE Shape'
  <1>0. TypeOK
    BY DEF Shape
  <1>a. \A i \in Invites : inv[i].place \in Places => inv[i].status # "unused"
    BY DEF Shape, InviteConstants
  <1>b. "pending" \in Statuses /\ "cancelled" \in Statuses /\ "expired" \in Statuses
        /\ "unused" \notin Statuses
    BY DEF Statuses
  <1>1. ASSUME NEW r \in Requests, NEW o \in Orgs, NEW e \in Emails, SendCheck(r, o, e)
        PROVE  Shape'
    <2> DEFINE x == [Idle EXCEPT !.pc = "send", !.place = o, !.email = e]
    <2>1. x \in Local /\ x.pc = "send" /\ x.place = o /\ x.email = e /\ x.invite = None
      BY DEF Idle, Local, Places
    <2>2. req' = [req EXCEPT ![r] = x] /\ UNCHANGED <<inv, accounts, orgActive, uses, raced>>
      BY <1>1 DEF SendCheck
    <2> HIDE DEF x
    <2> QED
      BY <2>1, <2>2, StartKeepsShape
  <1>2. ASSUME NEW r \in Requests, NEW e \in Emails, InvitePlatformCheck(r, e)
        PROVE  Shape'
    <2> DEFINE x == [Idle EXCEPT !.pc = "invitePlatform", !.place = Platform, !.email = e]
    <2>1. x \in Local /\ x.pc = "invitePlatform" /\ x.email = e /\ x.invite = None
      BY DEF Idle, Local, Places
    <2>2. req' = [req EXCEPT ![r] = x] /\ UNCHANGED <<inv, accounts, orgActive, uses, raced>>
      BY <1>2 DEF InvitePlatformCheck
    <2> HIDE DEF x
    <2> QED
      BY <2>1, <2>2, StartKeepsShape
  <1>3. ASSUME NEW r \in Requests, NEW i \in Invites, NEW l \in {"resend", "expire", "accept"},
               Read(r, l, i), inv[i].status # "unused",
               UNCHANGED <<inv, accounts, orgActive, uses, raced>>
        PROVE  Shape'
    <2> DEFINE x == [Idle EXCEPT !.pc = l, !.invite = i]
    <2>1. x \in Local /\ x.pc = l /\ x.invite = i
      BY DEF Idle, Local
    <2>2. req' = [req EXCEPT ![r] = x]
      BY <1>3 DEF Read
    <2> HIDE DEF x
    <2> QED
      BY <1>3, <2>1, <2>2, StartKeepsShape
  <1>4. ASSUME NEW r \in Requests, NEW i \in Invites,
               ResendRead(r, i) \/ ResendPlatformRead(r, i)
        PROVE  Shape'
    BY <1>a, <1>3, <1>4 DEF ResendRead, ResendPlatformRead, Places
  <1>5. ASSUME NEW r \in Requests, NEW i \in Invites, AcceptRead(r, i)
        PROVE  Shape'
    BY <1>3, <1>5 DEF AcceptRead
  <1>6. ASSUME NEW r \in Requests, SendInsert(r) \/ InvitePlatformInsert(r)
        PROVE  Shape'
    <2>1. CASE SendInsert(r)
      <3>1. req[r].place \in Places /\ req[r].email \in Emails
        BY <2>1 DEF SendInsert, At, Shape, Places
      <3> QED
        BY <2>1, <3>1, InsertKeepsShape DEF SendInsert
    <2>2. CASE InvitePlatformInsert(r)
      <3>1. Platform \in Places /\ req[r].email \in Emails
        BY <2>2 DEF InvitePlatformInsert, At, Shape, Places
      <3> QED
        BY <2>2, <3>1, InsertKeepsShape DEF InvitePlatformInsert
    <2> QED
      BY <1>6, <2>1, <2>2
  <1>7. ASSUME NEW o \in Orgs, NEW e \in Emails, InviteOrgAdmin(o, e)
        PROVE  Shape'
    <2>1. o \in Places /\ {FALSE} \in SUBSET BOOLEAN
      BY DEF Places
    <2> QED
      BY <1>7, <2>1, InsertKeepsShape DEF InviteOrgAdmin
  <1>8. ASSUME NEW i \in Invites, CancelInvitation(i) \/ Expire(i)
        PROVE  Shape'
    <2>1. inv[i].past \in BOOLEAN /\ inv[i].status \in Statuses \cup {"unused"}
      BY <1>0 DEF TypeOK, Row
    <2>2. CASE CancelInvitation(i)
      <3>1. inv' = [inv EXCEPT ![i].status = "cancelled", ![i].past = inv[i].past]
        BY <1>0, <2>2 DEF CancelInvitation, TypeOK, Row
      <3> QED
        BY <1>0, <1>b, <2>1, <2>2, <3>1, UpdateKeepsShape DEF CancelInvitation, TypeOK
    <2>3. CASE Expire(i)
      <3>1. inv' = [inv EXCEPT ![i].status = inv[i].status, ![i].past = TRUE]
        BY <1>0, <2>3 DEF Expire, TypeOK, Row
      <3> QED
        BY <1>0, <2>1, <2>3, <3>1, UpdateKeepsShape DEF Expire, TypeOK
    <2> QED
      BY <1>8, <2>2, <2>3
  <1>9. ASSUME NEW r \in Requests, ResendUpdate(r) \/ AcceptExpire(r)
        PROVE  Shape'
    <2>1. /\ req[r].invite \in Invites
          /\ inv[req[r].invite].status # "unused"
          /\ inv[req[r].invite].past \in BOOLEAN
      BY <1>0, <1>9 DEF ResendUpdate, AcceptExpire, At, Shape, TypeOK, Row
    <2>2. raced' \subseteq Invites /\ Finish(r) /\ UNCHANGED <<accounts, orgActive, uses>>
      BY <1>0, <1>9, <2>1 DEF ResendUpdate, AcceptExpire, TypeOK
    <2>3. CASE ResendUpdate(r)
      BY <1>b, <2>1, <2>2, <2>3, UpdateKeepsShape DEF ResendUpdate
    <2>4. CASE AcceptExpire(r)
      <3>1. inv' = [inv EXCEPT ![req[r].invite].status = "expired",
                               ![req[r].invite].past = inv[req[r].invite].past]
        BY <1>0, <2>1, <2>4 DEF AcceptExpire, TypeOK, Row
      <3> QED
        BY <1>b, <2>1, <2>2, <3>1, UpdateKeepsShape
    <2> QED
      BY <1>9, <2>3, <2>4
  <1>10. ASSUME NEW r \in Requests, AcceptRollback(r) \/ Fail(r)
         PROVE  Shape'
    <2>1. Idle \in Local /\ Idle.pc = "idle" /\ Idle.invite = None
      BY DEF Idle, Local
    <2>2. req' = [req EXCEPT ![r] = Idle] /\ UNCHANGED <<inv, accounts, orgActive, uses, raced>>
      BY <1>10 DEF AcceptRollback, Fail, Finish
    <2> QED
      BY <2>1, <2>2, StartKeepsShape
  <1>11. ASSUME NEW o \in Orgs, NEW e \in Emails, Provision(o, e)
         PROVE  Shape'
    BY <1>11 DEF Provision, Shape, TypeOK, Places
  <1>12. ASSUME NEW o \in Orgs, SetOrgActive(o)
         PROVE  Shape'
    BY <1>12 DEF SetOrgActive, Shape, TypeOK, Places
  <1>13. CASE UNCHANGED vars
    BY <1>13 DEF vars, Shape, TypeOK
  <1> QED
    BY <1>1, <1>2, <1>4, <1>5, <1>6, <1>7, <1>8, <1>9, <1>10, <1>11, <1>12, <1>13,
       CommitKeepsShape DEF Next, Start, Step

(* Every reachable state is well typed. *)
THEOREM TypeCorrect == Spec => []TypeOK
  <1>1. Shape /\ [Next]_vars => Shape'
    BY InviteConstants, ShapeNext
  <1>2. Shape => TypeOK
    BY DEF Shape
  <1> QED
    BY <1>1, <1>2, ShapeInit, PTL DEF Spec

-----------------------------------------------------------------------------
(* What the actions do to the accounts, the rows and the ghosts, as the     *)
(* three properties see it.                                                 *)

(* Home and status of the rows in use stay, apart from those of rows in ex. *)
RowsStay(ex) ==
  \A j \in Invites :
    /\ inv[j].status # "unused" =>
         /\ inv'[j].place = inv[j].place
         /\ inv'[j].email = inv[j].email
    /\ inv[j].status = "accepted" /\ j \notin ex => inv'[j].status = "accepted"

LEMMA PaidStays ==
  ASSUME Shape, Paid, uses' = uses, accounts \subseteq accounts', NEW ex, RowsStay(ex)
  PROVE  Paid'
  <1>1. \A i \in Invites : uses[i] > 0 => inv[i].status # "unused"
    BY DEF Shape
  <1>2. \A i \in Invites : uses[i] > 0 => Home(i)' = Home(i)
    BY <1>1 DEF RowsStay, Home
  <1> QED
    BY <1>2 DEF Paid, OneInvitationPerAccount

LEMMA CommitPaid ==
  ASSUME Shape, Paid, NEW r \in Requests, AcceptCommit(r)
  PROVE  Paid'
  <1> DEFINE i == req[r].invite
  <1>0. i \in Invites /\ TypeOK
    BY DEF AcceptCommit, Acceptable, Shape, At
  <1>1. /\ inv' = [inv EXCEPT ![i].status = "accepted"]
        /\ accounts' = accounts \cup {Home(i)}
        /\ uses' = [uses EXCEPT ![i] = uses[i] + 1]
        /\ Home(i) \notin accounts
    BY DEF AcceptCommit, Acceptable
  <1> HIDE DEF i
  <1>2. \A j \in Invites : Home(j)' = Home(j)
    BY <1>0, <1>1 DEF TypeOK, Row, Home
  <1>3. uses[i] = 0
    BY <1>0, <1>1 DEF Paid, TypeOK
  <1>4. \A j \in Invites : uses'[j] > 0 => j = i \/ uses[j] > 0
    BY <1>0, <1>1 DEF TypeOK
  <1>5. uses'[i] = 1
    BY <1>0, <1>1, <1>3 DEF TypeOK
  <1>6. \A j \in Invites : j # i => uses'[j] = uses[j]
    BY <1>0, <1>1 DEF TypeOK
  <1>7. ASSUME NEW j \in Invites, uses'[j] > 0
        PROVE  uses'[j] = 1 /\ Home(j)' \in accounts'
    BY <1>1, <1>2, <1>4, <1>5, <1>6, <1>7 DEF Paid
  <1>8. ASSUME NEW j \in Invites, NEW k \in Invites,
               uses'[j] > 0, uses'[k] > 0, Home(j)' = Home(k)'
        PROVE  j = k
    BY <1>1, <1>2, <1>4, <1>8 DEF Paid, OneInvitationPerAccount
  <1> QED
    BY <1>7, <1>8 DEF Paid, OneInvitationPerAccount

-----------------------------------------------------------------------------
(* Every step is an acceptance, a late write to a row, or calm: nobody's    *)
(* account, no accepted row and no ghost changes.                           *)

Fresh(q) ==
  LET i == req'[q].invite
  IN i \in Invites /\ inv' = inv /\ (inv[i].status # "accepted" \/ inv[i].place \notin Orgs)

Calm ==
  /\ uses' = uses
  /\ raced' = raced
  /\ accounts \subseteq accounts'
  /\ RowsStay({})
  /\ \A q \in Requests :
       req'[q] = req[q] \/ req'[q].pc \notin {"resend", "expire"} \/ Fresh(q)

LateWrite(r) == ResendUpdate(r) \/ AcceptExpire(r)

LEMMA Effects ==
  ASSUME InviteConstants, Shape, [Next]_vars
  PROVE  Calm \/ \E r \in Requests : AcceptCommit(r) \/ LateWrite(r)
  <1>0. TypeOK /\ Idle.pc = "idle"
    BY DEF Shape, Idle
  <1>1. ASSUME inv' = inv PROVE RowsStay({})
    BY <1>1 DEF RowsStay
  <1>2. ASSUME NEW r \in Requests, NEW o \in Orgs, NEW e \in Emails, SendCheck(r, o, e)
        PROVE  Calm
    <2> DEFINE x == [Idle EXCEPT !.pc = "send", !.place = o, !.email = e]
    <2>1. x.pc = "send"
      BY DEF Idle
    <2>2. req' = [req EXCEPT ![r] = x]
      BY <1>2 DEF SendCheck
    <2> HIDE DEF x
    <2> QED
      BY <1>0, <1>1, <1>2, <2>1, <2>2 DEF SendCheck, Calm, TypeOK
  <1>3. ASSUME NEW r \in Requests, NEW e \in Emails, InvitePlatformCheck(r, e)
        PROVE  Calm
    <2> DEFINE x == [Idle EXCEPT !.pc = "invitePlatform", !.place = Platform, !.email = e]
    <2>1. x.pc = "invitePlatform"
      BY DEF Idle
    <2>2. req' = [req EXCEPT ![r] = x]
      BY <1>3 DEF InvitePlatformCheck
    <2> HIDE DEF x
    <2> QED
      BY <1>0, <1>1, <1>3, <2>1, <2>2 DEF InvitePlatformCheck, Calm, TypeOK
  <1>4. ASSUME NEW r \in Requests, NEW i \in Invites,
               ResendRead(r, i) \/ ResendPlatformRead(r, i) \/ AcceptRead(r, i)
        PROVE  Calm
    <2>1. PICK l \in {"resend", "expire", "accept"} : Read(r, l, i)
      BY <1>4 DEF ResendRead, ResendPlatformRead, AcceptRead
    <2> DEFINE x == [Idle EXCEPT !.pc = l, !.invite = i]
    <2>2. x.invite = i
      BY DEF Idle
    <2>3. req' = [req EXCEPT ![r] = x]
      BY <2>1 DEF Read
    <2> HIDE DEF x
    <2>4. inv' = inv /\ (inv[i].status # "accepted" \/ inv[i].place \notin Orgs)
      BY <1>4 DEF ResendRead, ResendPlatformRead, AcceptRead, InviteConstants
    <2>5. UNCHANGED <<accounts, uses, raced>>
      BY <1>4 DEF ResendRead, ResendPlatformRead, AcceptRead
    <2>6. \A q \in Requests : req'[q] = req[q] \/ Fresh(q)
      BY <1>0, <2>2, <2>3, <2>4 DEF Fresh, TypeOK
    <2> QED
      BY <1>1, <2>4, <2>5, <2>6 DEF Calm
  <1>5. ASSUME NEW p, NEW e, NEW S, Insert(p, e, S), UNCHANGED <<accounts, uses, raced>>,
               req' = req \/ \E r \in Requests : Finish(r)
        PROVE  Calm
    <2>1. RowsStay({})
      BY <1>0, <1>5 DEF Insert, RowsStay, TypeOK
    <2>2. \A q \in Requests : req'[q] = req[q] \/ req'[q] = Idle
      BY <1>0, <1>5, Done DEF TypeOK
    <2> QED
      BY <1>0, <1>5, <2>1, <2>2 DEF Calm
  <1>6. ASSUME NEW r \in Requests, SendInsert(r) \/ InvitePlatformInsert(r)
        PROVE  Calm
    BY <1>5, <1>6 DEF SendInsert, InvitePlatformInsert
  <1>7. ASSUME NEW o \in Orgs, NEW e \in Emails, InviteOrgAdmin(o, e) PROVE Calm
    BY <1>5, <1>7 DEF InviteOrgAdmin
  <1>8. ASSUME NEW i \in Invites, CancelInvitation(i) \/ Expire(i) PROVE Calm
    BY <1>0, <1>8 DEF CancelInvitation, Expire, Calm, RowsStay, TypeOK, Row
  <1>9. ASSUME NEW r \in Requests, AcceptRollback(r) \/ Fail(r) PROVE Calm
    BY <1>0, <1>1, <1>9 DEF AcceptRollback, Fail, Finish, Calm, TypeOK
  <1>10. ASSUME NEW o \in Orgs, NEW e \in Emails, Provision(o, e) PROVE Calm
    BY <1>1, <1>10 DEF Provision, Calm
  <1>11. ASSUME NEW o \in Orgs, SetOrgActive(o) PROVE Calm
    BY <1>1, <1>11 DEF SetOrgActive, Calm
  <1>12. CASE UNCHANGED vars
    BY <1>1, <1>12 DEF vars, Calm
  <1> QED
    BY <1>2, <1>3, <1>4, <1>6, <1>7, <1>8, <1>9, <1>10, <1>11, <1>12
       DEF Next, Start, Step, LateWrite

(* The row a late write touches, and what it does to it. *)
LEMMA LateWriteEffect ==
  ASSUME Shape, NEW r \in Requests, LateWrite(r)
  PROVE  LET i == req[r].invite
         IN /\ req[r].pc \in {"resend", "expire"}
            /\ i \in Invites
            /\ \A j \in Invites : /\ inv'[j].place = inv[j].place
                                  /\ inv'[j].email = inv[j].email
                                  /\ j # i => inv'[j] = inv[j]
            /\ raced \subseteq raced' /\ (req[r].late => i \in raced')
            /\ UNCHANGED <<accounts, uses>>
            /\ \A q \in Requests : req'[q] = IF q = r THEN Idle ELSE req[q]
  <1> DEFINE i == req[r].invite
  <1>1. TypeOK /\ i \in Invites /\ req[r].pc \in {"resend", "expire"}
    BY DEF LateWrite, ResendUpdate, AcceptExpire, At, Shape
  <1>2. \A j \in Invites : /\ inv'[j].place = inv[j].place
                           /\ inv'[j].email = inv[j].email
                           /\ j # i => inv'[j] = inv[j]
    <2>1. CASE ResendUpdate(r)
      BY <1>1, <2>1 DEF ResendUpdate, TypeOK, Row
    <2>2. CASE AcceptExpire(r)
      BY <1>1, <2>2 DEF AcceptExpire, TypeOK, Row
    <2> QED
      BY <2>1, <2>2 DEF LateWrite
  <1>3. raced' = (IF req[r].late THEN raced \cup {i} ELSE raced) /\ UNCHANGED <<accounts, uses>>
    BY DEF LateWrite, ResendUpdate, AcceptExpire
  <1>4. \A q \in Requests : req'[q] = IF q = r THEN Idle ELSE req[q]
    BY <1>1 DEF LateWrite, ResendUpdate, AcceptExpire, Finish, TypeOK
  <1> QED
    BY <1>1, <1>2, <1>3, <1>4

LEMMA UndoingInit == Init => Undoing
  BY DEF Init, Undoing, AcceptancesUndoneOnlyInFlight, Idle

LEMMA UndoingNext ==
  ASSUME InviteConstants, Shape, Undoing, [Next]_vars
  PROVE  Undoing'
  <1>0. TypeOK /\ Idle.pc = "idle"
    BY DEF Shape, Idle
  <1>u. \A i \in Invites : uses[i] > 0 => inv[i].status # "unused"
    BY DEF Shape
  <1>1. CASE Calm
    <2>1. \A i \in Invites : uses[i] > 0 => inv'[i].place = inv[i].place
      BY <1>u, <1>1 DEF Calm, RowsStay
    <2>2. ASSUME NEW i \in Invites, uses'[i] > 0, inv'[i].status # "accepted",
                 inv'[i].place \in Orgs
          PROVE  i \in raced'
      BY <1>1, <2>1, <2>2 DEF Calm, RowsStay, Undoing, AcceptancesUndoneOnlyInFlight
    <2>3. ASSUME NEW q \in Requests, req'[q].pc \in {"resend", "expire"},
                 uses'[req'[q].invite] > 0, inv'[req'[q].invite].place \in Orgs
          PROVE  req'[q].late \/ req'[q].invite \in raced'
      <3>1. CASE req'[q] = req[q]
        <4>1. req[q].invite \in Invites
          BY <2>3, <3>1 DEF Shape
        <4> QED
          BY <1>1, <2>1, <2>3, <3>1, <4>1 DEF Calm, Undoing
      <3>2. CASE Fresh(q)
        BY <1>1, <2>3, <3>2 DEF Calm, Fresh, Undoing, AcceptancesUndoneOnlyInFlight
      <3> QED
        BY <1>1, <2>3, <3>1, <3>2 DEF Calm
    <2> QED
      BY <2>2, <2>3 DEF Undoing, AcceptancesUndoneOnlyInFlight
  <1>2. ASSUME NEW r \in Requests, LateWrite(r)
        PROVE  Undoing'
    <2> DEFINE i == req[r].invite
    <2>1. /\ req[r].pc \in {"resend", "expire"}
          /\ i \in Invites
          /\ \A j \in Invites : /\ inv'[j].place = inv[j].place
                                /\ j # i => inv'[j] = inv[j]
          /\ raced \subseteq raced' /\ (req[r].late => i \in raced')
          /\ UNCHANGED <<accounts, uses>>
          /\ \A q \in Requests : req'[q] = IF q = r THEN Idle ELSE req[q]
      BY <1>2, LateWriteEffect
    <2>2. ASSUME NEW j \in Invites, uses'[j] > 0, inv'[j].status # "accepted",
                 inv'[j].place \in Orgs
          PROVE  j \in raced'
      <3>1. CASE j = i
        BY <2>1, <2>2, <3>1 DEF Undoing
      <3>2. CASE j # i
        BY <2>1, <2>2, <3>2 DEF Undoing, AcceptancesUndoneOnlyInFlight
      <3> QED
        BY <3>1, <3>2
    <2>3. ASSUME NEW q \in Requests, req'[q].pc \in {"resend", "expire"},
                 uses'[req'[q].invite] > 0, inv'[req'[q].invite].place \in Orgs
          PROVE  req'[q].late \/ req'[q].invite \in raced'
      <3>1. req'[q] = req[q]
        BY <1>0, <2>1, <2>3
      <3>2. req[q].invite \in Invites
        BY <2>3, <3>1 DEF Shape
      <3> QED
        BY <2>1, <2>3, <3>1, <3>2 DEF Undoing
    <2> QED
      BY <2>2, <2>3 DEF Undoing, AcceptancesUndoneOnlyInFlight
  <1>3. ASSUME NEW r \in Requests, AcceptCommit(r)
        PROVE  Undoing'
    <2> DEFINE i == req[r].invite
    <2>1. i \in Invites
      BY <1>3 DEF AcceptCommit, At, Shape
    <2>2. /\ \A j \in Invites : /\ inv'[j].place = inv[j].place
                                /\ j # i => inv'[j] = inv[j] /\ uses'[j] = uses[j]
          /\ inv'[i].status = "accepted"
          /\ raced' = raced
          /\ req' = Overtake(r, i)
      BY <1>0, <1>3, <2>1 DEF AcceptCommit, TypeOK, Row
    <2> HIDE DEF i
    <2>3. \A q \in Requests : \/ req'[q] = Idle
                              \/ /\ req'[q].pc = req[q].pc
                                 /\ req'[q].invite = req[q].invite
                                 /\ req'[q].late = (req[q].late \/ req[q].invite = i)
      BY <2>1, <2>2, OvertakeShape
    <2>4. ASSUME NEW j \in Invites, uses'[j] > 0, inv'[j].status # "accepted",
                 inv'[j].place \in Orgs
          PROVE  j \in raced'
      BY <2>2, <2>4 DEF Undoing, AcceptancesUndoneOnlyInFlight
    <2>5. ASSUME NEW q \in Requests, req'[q].pc \in {"resend", "expire"},
                 uses'[req'[q].invite] > 0, inv'[req'[q].invite].place \in Orgs
          PROVE  req'[q].late \/ req'[q].invite \in raced'
      <3>1. /\ req'[q].pc = req[q].pc
            /\ req'[q].invite = req[q].invite
            /\ req'[q].late = (req[q].late \/ req[q].invite = i)
        BY <1>0, <2>3, <2>5
      <3>2. req[q].invite \in Invites
        BY <2>5, <3>1 DEF Shape
      <3> QED
        BY <2>2, <2>5, <3>1, <3>2 DEF Undoing
    <2> QED
      BY <2>4, <2>5 DEF Undoing, AcceptancesUndoneOnlyInFlight
  <1> QED
    BY <1>1, <1>2, <1>3, Effects

LEMMA PaidNext ==
  ASSUME InviteConstants, Shape, Paid, [Next]_vars
  PROVE  Paid'
  <1>1. CASE Calm
    BY <1>1, PaidStays DEF Calm
  <1>2. ASSUME NEW r \in Requests, LateWrite(r)
        PROVE  Paid'
    <2>1. RowsStay({req[r].invite})
      BY <1>2, LateWriteEffect DEF RowsStay
    <2>2. uses' = uses /\ accounts \subseteq accounts'
      BY <1>2, LateWriteEffect
    <2> QED
      BY <2>1, <2>2, PaidStays
  <1> QED
    BY <1>1, <1>2, CommitPaid, Effects

LEMMA PaidInit == Init => Paid
  BY DEF Init, Paid, OneInvitationPerAccount

(* One account is never paid for by two invitations. *)
THEOREM OneInvitationCorrect == Spec => []OneInvitationPerAccount
  <1>1. (Shape /\ Paid) /\ [Next]_vars => (Shape /\ Paid)'
    BY InviteConstants, ShapeNext, PaidNext
  <1>2. Shape /\ Paid => OneInvitationPerAccount
    BY DEF Paid
  <1> QED
    BY <1>1, <1>2, ShapeInit, PaidInit, PTL DEF Spec

(* Acceptances in organisations are undone by overlapping requests only. *)
THEOREM UndoneCorrect == Spec => []AcceptancesUndoneOnlyInFlight
  <1>1. (Shape /\ Undoing) /\ [Next]_vars => (Shape /\ Undoing)'
    BY InviteConstants, ShapeNext, UndoingNext
  <1>2. Shape /\ Undoing => AcceptancesUndoneOnlyInFlight
    BY DEF Undoing
  <1> QED
    BY <1>1, <1>2, ShapeInit, UndoingInit, PTL DEF Spec

-----------------------------------------------------------------------------
(* Invitations implements OneShot. *)

States == [i \in Invites |-> PromiseState(i)]

(* One invitation moves as OneShot allows, or not at all; the others stay. *)
LEMMA OneMove ==
  ASSUME NEW i \in Invites,
         \A j \in Invites : j # i => PromiseState(j)' = PromiseState(j),
         \/ PromiseState(i)' = PromiseState(i)
         \/ PromiseState(i) = "closed" /\ PromiseState(i)' = "open"
         \/ PromiseState(i) = "open" /\ PromiseState(i)' = "closed"
         \/ PromiseState(i) = "open" /\ PromiseState(i)' = "spent"
  PROVE  Promise!Next \/ States' = States
  <1> DEFINE st == [k \in Invites |-> PromiseState(k)]
  <1>1. st' = [k \in Invites |-> IF k = i THEN PromiseState(i)' ELSE PromiseState(k)]
    OBVIOUS
  <1>2. st' = [st EXCEPT ![i] = PromiseState(i)'] /\ st[i] = PromiseState(i)
    BY <1>1
  <1>3. CASE PromiseState(i)' = PromiseState(i)
    BY <1>1, <1>3 DEF States
  <1>4. CASE PromiseState(i) = "closed" /\ PromiseState(i)' = "open"
    <2>1. Promise!Move(i, "closed", "open")
      BY <1>2, <1>4 DEF Promise!Move
    <2> QED
      BY <2>1 DEF Promise!Next, Promise!Open
  <1>5. CASE PromiseState(i) = "open" /\ PromiseState(i)' = "closed"
    <2>1. Promise!Move(i, "open", "closed")
      BY <1>2, <1>5 DEF Promise!Move
    <2> QED
      BY <2>1 DEF Promise!Next, Promise!Close
  <1>6. CASE PromiseState(i) = "open" /\ PromiseState(i)' = "spent"
    <2>1. Promise!Move(i, "open", "spent")
      BY <1>2, <1>6 DEF Promise!Move
    <2> QED
      BY <2>1 DEF Promise!Next, Promise!Spend
  <1> QED
    BY <1>3, <1>4, <1>5, <1>6

(* A step that changes no ghost count, and the status of one row at most. *)
LEMMA StatusMove ==
  ASSUME Shape, Paid, NEW i \in Invites, uses' = uses,
         \A j \in Invites : j # i => inv'[j].status = inv[j].status
  PROVE  Promise!Next \/ States' = States
  <1>1. \A j \in Invites : j # i => PromiseState(j)' = PromiseState(j)
    BY DEF PromiseState
  <1>2. uses[i] = 0 \/ uses[i] = 1
    BY DEF Paid, Shape, TypeOK
  <1>3. CASE uses[i] = 0
    <2>1. PromiseState(i) \in {"open", "closed"} /\ PromiseState(i)' \in {"open", "closed"}
      BY <1>3 DEF PromiseState
    <2> QED
      BY <1>1, <2>1, OneMove
  <1>4. CASE uses[i] = 1
    <2>1. PromiseState(i) = "spent" /\ PromiseState(i)' = "spent"
      BY <1>4 DEF PromiseState
    <2> QED
      BY <1>1, <2>1, OneMove
  <1> QED
    BY <1>2, <1>3, <1>4

LEMMA SpendMove ==
  ASSUME Shape, Paid, NEW r \in Requests, AcceptCommit(r)
  PROVE  Promise!Next \/ States' = States
  <1>0. TypeOK
    BY DEF Shape
  <1>i. PICK i \in Invites : i = req[r].invite
    BY DEF AcceptCommit, At, Shape
  <1>1. /\ inv' = [inv EXCEPT ![i].status = "accepted"]
        /\ uses' = [uses EXCEPT ![i] = uses[i] + 1]
        /\ Home(i) \notin accounts
        /\ inv[i].status = "pending"
    BY <1>i DEF AcceptCommit, Acceptable
  <1>2. uses[i] = 0
    BY <1>0, <1>1 DEF Paid, TypeOK
  <1>3. \A j \in Invites : j # i => inv'[j] = inv[j] /\ uses'[j] = uses[j]
    BY <1>0, <1>1 DEF TypeOK
  <1>4. uses'[i] = 1
    BY <1>0, <1>1, <1>2 DEF TypeOK
  <1>5. \A j \in Invites : j # i => PromiseState(j)' = PromiseState(j)
    BY <1>3 DEF PromiseState
  <1>6. PromiseState(i) = "open"
    BY <1>1, <1>2 DEF PromiseState
  <1>7. PromiseState(i)' = "spent"
    BY <1>4 DEF PromiseState
  <1> QED
    BY <1>5, <1>6, <1>7, OneMove

(* No row changes at all, or one does. *)
LEMMA OneRowMoves ==
  ASSUME Shape, [Next]_vars, Invites # {}
  PROVE  \/ \E r \in Requests : AcceptCommit(r)
         \/ /\ uses' = uses
            /\ \E i \in Invites :
                 \A j \in Invites : j # i => inv'[j].status = inv[j].status
  <1>0. TypeOK
    BY DEF Shape
  <1>1. CASE UNCHANGED <<inv, uses>>
    BY <1>1
  <1>2. ASSUME NEW p, NEW e, NEW S, Insert(p, e, S), uses' = uses
        PROVE  \E i \in Invites :
                 \A j \in Invites : j # i => inv'[j].status = inv[j].status
    BY <1>0, <1>2 DEF Insert, TypeOK
  <1>3. ASSUME NEW r \in Requests, SendInsert(r) \/ InvitePlatformInsert(r)
        PROVE  uses' = uses /\ \E i \in Invites :
                 \A j \in Invites : j # i => inv'[j].status = inv[j].status
    BY <1>2, <1>3 DEF SendInsert, InvitePlatformInsert
  <1>4. ASSUME NEW o \in Orgs, NEW e \in Emails, InviteOrgAdmin(o, e)
        PROVE  uses' = uses /\ \E i \in Invites :
                 \A j \in Invites : j # i => inv'[j].status = inv[j].status
    BY <1>2, <1>4 DEF InviteOrgAdmin
  <1>5. ASSUME NEW i \in Invites, CancelInvitation(i) \/ Expire(i)
        PROVE  uses' = uses /\ \E k \in Invites :
                 \A j \in Invites : j # k => inv'[j].status = inv[j].status
    BY <1>0, <1>5 DEF CancelInvitation, Expire, TypeOK
  <1>6. ASSUME NEW r \in Requests, LateWrite(r)
        PROVE  uses' = uses /\ \E i \in Invites :
                 \A j \in Invites : j # i => inv'[j].status = inv[j].status
    BY <1>6, LateWriteEffect
  <1>7. ASSUME NEW r \in Requests,
               \/ \E o \in Orgs, e \in Emails : SendCheck(r, o, e)
               \/ \E e \in Emails : InvitePlatformCheck(r, e)
               \/ \E i \in Invites : ResendRead(r, i) \/ ResendPlatformRead(r, i)
                                     \/ AcceptRead(r, i)
               \/ AcceptRollback(r) \/ Fail(r)
        PROVE  UNCHANGED <<inv, uses>>
    BY <1>7 DEF SendCheck, InvitePlatformCheck, ResendRead, ResendPlatformRead,
                AcceptRead, AcceptRollback, Fail
  <1>8. ASSUME NEW o \in Orgs, SetOrgActive(o) \/ \E e \in Emails : Provision(o, e)
        PROVE  UNCHANGED <<inv, uses>>
    BY <1>8 DEF SetOrgActive, Provision
  <1>9. CASE UNCHANGED vars
    BY <1>1, <1>9 DEF vars
  <1> QED
    BY <1>1, <1>3, <1>4, <1>5, <1>6, <1>7, <1>8, <1>9 DEF Next, Start, Step, LateWrite

(* Each invitation is one-shot, whatever overlaps. *)
THEOREM ImplementsOneShot == Spec => RefinesOneShot
  <1>1. Init => Promise!Init
    BY DEF Init, Promise!Init, PromiseState, Unused
  <1>2. ASSUME Shape, Paid, [Next]_vars
        PROVE  Promise!Next \/ States' = States
    <2>1. CASE Invites = {}
      BY <2>1 DEF States
    <2>2. CASE Invites # {}
      BY <1>2, <2>2, OneRowMoves, StatusMove, SpendMove
    <2> QED
      BY <2>1, <2>2
  <1>3. Shape /\ Paid /\ [Next]_vars => [Promise!Next]_States
    BY <1>2
  <1>4. (Shape /\ Paid) /\ [Next]_vars => (Shape /\ Paid)'
    BY InviteConstants, ShapeNext, PaidNext
  <1> QED
    BY <1>1, <1>3, <1>4, ShapeInit, PaidInit, PTL DEF Spec, RefinesOneShot, Promise!Spec, States
=============================================================================
