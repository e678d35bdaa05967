---------------------------- MODULE AdminPages ----------------------------
(***************************************************************************)
(* The administration pages: AdminPage.tsx with InviteUserModal.tsx (the   *)
(* members, invitations, audit log and profile of an organisation) and     *)
(* PlatformAdminPage.tsx (organisations, platform team, its invitations,   *)
(* the audit log of every organisation, statistics), above the services of *)
(* the server.  The tabs share no state, so a behaviour opens one of them, *)
(* `db.kind`.  A row is [id, st, of]: `of` is the role of a person or the  *)
(* address of an invitation.                                               *)
(***************************************************************************)
EXTENDS Spa

People  == {"members", "team"}
Mails   == {"invites", "teamInvites"}
Tables  == People \cup Mails \cup {"orgs", "stats"}
Audits  == {"audit", "platformAudit"}

Row(i, st, of) == [id |-> i, st |-> st, of |-> of]
Rows0(k) ==
    CASE k \in People -> {Row(1, "on", "admin"), Row(2, "on", "viewer"), Row(3, "off", "viewer")}
      [] k \in Mails  -> {Row(1, "pending", "e1"), Row(2, "accepted", "e2"), Row(3, "pending", "e3")}
      [] OTHER        -> {Row(1, "on", None), Row(2, "off", None)}

\* Rows of the audit log under no filter and under a filter: pages of ten.
Pages(filter) == IF filter = None THEN 3 ELSE 1

Fields == {"industry", "total_members"}
Unset(org) == org["industry"] = None          \* isOrgProfileUnset
Empty == [f \in Fields |-> None]

NoModal == [kind |-> None, id |-> None, row |-> None, loading |-> FALSE, busy |-> FALSE,
            confirm |-> FALSE, role |-> "contributor", plans |-> "unread", scoped |-> FALSE]

Tab == [list |-> {}, loading |-> TRUE, busy |-> None, only |-> FALSE, of |-> FALSE, crossed |-> FALSE, modal |-> NoModal,
        filter |-> None, at |-> 0, shown |-> <<None, 0>>, total |-> 0,
        org |-> None, form |-> Empty, saved |-> FALSE, saving |-> FALSE, unset |-> None]

\* What the mounted tab sends at once.
Effects(k) ==
    CASE k \in Tables -> << <<"list", [only |-> FALSE, row |-> FALSE]>> >>
      [] k \in Audits -> << <<"audit", <<None, 0>> >> >>
      [] OTHER        -> << <<"profile", "tab">>, <<"profile", "page">> >>

Init ==
    /\ page = "admin" /\ acts = MaxActs /\ lost = 0 /\ mixed = FALSE
    /\ \E k \in Tables \cup Audits \cup {"profile"}, super \in BOOLEAN :
         /\ k \in {"members", "invites", "audit", "profile", "stats", "platformAudit"} => super
         /\ db = [page |-> "admin", kind |-> k, can |-> super, next |-> 4,
                  rows |-> Rows0(k), org |-> Empty]
         /\ \/ view = Tab /\ net = Send({}, Effects(k))
            \/ /\ net = {}
               /\ view = [Tab EXCEPT !.list = db.rows, !.loading = FALSE, !.total = 3,
                                     !.org = IF k = "profile" THEN Empty ELSE None, !.unset = TRUE]

Here == page = "admin"
In(kinds) == Here /\ db.kind \in kinds
Clear  == Here /\ view.modal.kind = None
Usable == Clear /\ ~view.loading
Self == 1

----------------------------------------------------------------------------
(* A table: each row action puts its row into the one slot actionLoading,  *)
(* awaits its request, then load(), and empties the slot, whatever row is  *)
(* in it by then.  Failures are swallowed.                                 *)

\* load() as the handler's render closed over it: `of` is the filter it was made for.
Reload(of, row) == <<"list", [only |-> of, row |-> row]>>

ListLoaded ==
    Here /\ \E c \in Waiting("list") :
        LET v == [view EXCEPT !.loading = FALSE, !.busy = IF c.arg.row THEN None ELSE @]
        IN  Resume(c, IF c.st = "ok" THEN [v EXCEPT !.list = c.ans, !.of = c.arg.only] ELSE v)

Start(op, r, to) ==
    view.busy # r.id /\ Ask(op, [id |-> r.id, to |-> to, only |-> view.only],
                            [view EXCEPT !.busy = r.id])
Do(op, r, to) == Usable /\ Start(op, r, to)

\* Mutant: the row action ends without load().
DoneKeeps(op) ==
    \E c \in Waiting(op) : Resume(c, IF c.here THEN [view EXCEPT !.busy = None] ELSE view)
Done(op) ==
    \E c \in Waiting(op) :
        IF c.st = "ok" THEN ResumeAsks(c, << Reload(c.arg.only, TRUE) >>, view)
        ELSE Resume(c, IF c.here THEN [view EXCEPT !.busy = None] ELSE view)

Flip(r) == IF r.st = "on" THEN "off" ELSE "on"

\* UserRowMenu: no menu on one's own row.
MemberMenu == In({"members"}) /\ \E r \in view.list : r.id # Self /\
    \/ Do("setActive", r, Flip(r))
    \/ Do("setRole", r, IF r.of = "viewer" THEN "admin" ELSE "viewer")

\* TeamTab: the list of roles stays where the button gives way to the spinner.
TeamRow == In({"team"}) /\ db.can /\ \E r \in view.list : r.id # Self /\
    \/ Do("setActive", r, Flip(r))
    \/ Usable /\ Ask("setRole", [id |-> r.id, to |-> IF r.of = "viewer" THEN "admin" ELSE "viewer",
                                 only |-> FALSE], [view EXCEPT !.busy = r.id])

InviteRow(k) == In({k}) /\ db.can /\ \E r \in view.list : r.st = "pending" /\
    \/ Do("cancel", r, "cancelled")
    \/ Do("resend", r, "pending")
MemberInvites == InviteRow("invites")
TeamInvites   == InviteRow("teamInvites")

OrgRow == In({"orgs"}) /\ db.can /\ \E r \in view.list : Do("setActive", r, Flip(r))

RowsDone == db.kind \in Tables /\ \E op \in {"setActive", "setRole", "cancel", "resend"} : Done(op)

\* activeOnly: loadOrgs is made again and its effect runs; handlers under way keep the old one
\* (ghost: `crossed`).
Handlers == {"setActive", "setRole", "cancel", "resend", "submit", "remove", "flip"}
OnlyActive ==
    /\ In({"orgs"}) /\ Clear
    /\ Asks(<< Reload(~view.only, FALSE) >>,
            [view EXCEPT !.only = ~@, !.crossed = @ \/ \E c \in net : c.here /\ c.op \in Handlers])

----------------------------------------------------------------------------
(* The dialogs.  A dialog that closes leaves its handler running: its own  *)
(* state is out of reach (`mine`), the page's is not.                      *)

Orphaned(calls) ==
    {CASE c.op \in {"detail", "plans"} -> [c EXCEPT !.here = FALSE]
       [] c.op \in {"submit", "remove", "flip"} -> [c EXCEPT !.arg.mine = FALSE]
       [] OTHER -> c : c \in calls}

InModal(kind) == Here /\ view.modal.kind = kind
OpenDialog(kind, id, row) == [NoModal EXCEPT !.kind = kind, !.id = id, !.row = row]
Open(kind) == Local([view EXCEPT !.modal = OpenDialog(kind, None, None)])

Close ==
    /\ Here /\ view.modal.kind # None /\ Gesture
    /\ view' = [view EXCEPT !.modal = NoModal]
    /\ net' = Orphaned(net)
    /\ UNCHANGED <<page, db, lost, mixed>>

\* A handler of a dialog of this kind succeeds: onChanged(), not awaited, and
\* onClose(), which closes the dialog of that kind that is open by then.
Closing(c) ==
    LET shut == c.here /\ view.modal.kind = c.arg.kind
        rest == IF shut THEN Orphaned(Without(c)) ELSE Without(c)
        sent == {[r EXCEPT !.here = c.here] : r \in Send(rest, << Reload(c.arg.only, FALSE) >>) \ rest}
    IN  Answered(c, rest \cup sent, IF shut THEN [view EXCEPT !.modal = NoModal] ELSE view)
Unbusy(c) == IF c.here /\ c.arg.mine THEN [view EXCEPT !.modal.busy = FALSE] ELSE view

\* handleSubmit of a dialog: its button is disabled while it runs.
Submit(kind, to) ==
    /\ InModal(kind) /\ ~view.modal.busy
    /\ Ask("submit", [kind |-> kind, to |-> to, only |-> view.only, mine |-> TRUE],
           [view EXCEPT !.modal.busy = TRUE])
Submitted(kind) == \E c \in Waiting("submit") :
    c.arg.kind = kind /\ IF c.st = "ok" THEN Closing(c) ELSE Resume(c, Unbusy(c))

\* CreateOrgModal, with the address of a first administrator or without.
CreateOrg == \/ In({"orgs"}) /\ db.can /\ Clear /\ Open("createOrg")
             \/ \E mail \in {None, "e9"} : Submit("createOrg", mail)
             \/ Submitted("createOrg")
\* InviteOrgAdminModal: the organisation is chosen among those listed.
InviteOrgAdmin == \/ In({"orgs"}) /\ db.can /\ Clear /\ Open("inviteAdmin")
                  \/ InModal("inviteAdmin") /\ \E r \in view.list : Submit("inviteAdmin", r.id)
                  \/ Submitted("inviteAdmin")
InviteTeam == \/ In({"teamInvites"}) /\ db.can /\ Clear /\ Open("inviteTeam")
              \/ Submit("inviteTeam", "e9")
              \/ Submitted("inviteTeam")

\* InviteUserModal: the plans are read once, the first time the role is viewer;
\* another role gives up the plans chosen.
ChooseRole ==
    /\ InModal("inviteUser")
    /\ \/ /\ view.modal.role # "viewer"
          /\ LET v == [view EXCEPT !.modal.role = "viewer"] IN
             IF view.modal.plans = "unread"
             THEN Ask("plans", None, [v EXCEPT !.modal.plans = "reading"]) ELSE Local(v)
       \/ view.modal.role = "viewer" /\ Local([view EXCEPT !.modal.role = "contributor", !.modal.scoped = FALSE])
PlansRead == Here /\ \E c \in Waiting("plans") :
    Resume(c, IF ~c.here THEN view
              ELSE [view EXCEPT !.modal.plans = IF c.st = "ok" THEN "read" ELSE "none"])
TogglePlan ==
    /\ InModal("inviteUser") /\ view.modal.role = "viewer" /\ view.modal.plans = "read"
    /\ Local([view EXCEPT !.modal.scoped = ~@])
InviteUser == \/ In({"members", "invites"}) /\ Clear /\ Open("inviteUser")
              \/ \E mail \in {"e1", "e9"} : Submit("inviteUser", mail)
              \/ Submitted("inviteUser") \/ ChooseRole \/ PlansRead \/ TogglePlan

\* DeleteOrgConfirmModal, from the row of an inactive organisation.
RemoveOrg(kind) ==
    /\ InModal(kind) /\ ~view.modal.busy
    /\ Ask("remove", [kind |-> kind, id |-> view.modal.id, only |-> view.only, mine |-> TRUE],
           [view EXCEPT !.modal.busy = TRUE])
DeleteOrg ==
    \/ In({"orgs"}) /\ db.can /\ Usable /\ \E r \in view.list :
         r.st = "off" /\ view.busy # r.id
         /\ Local([view EXCEPT !.modal = OpenDialog("delete", r.id, r)])
    \/ RemoveOrg("delete")
    \/ \E c \in Waiting("remove") :
         c.arg.kind = "delete" /\ IF c.st = "ok" THEN Closing(c) ELSE Resume(c, Unbusy(c))

\* OrgDetailModal: its own copy of the organisation, its own toggle and delete.
OrgDetail ==
    \/ In({"orgs"}) /\ Usable /\ \E r \in view.list :
         Ask("detail", [id |-> r.id],
             [view EXCEPT !.modal = [OpenDialog("detail", r.id, None) EXCEPT !.loading = TRUE]])
    \/ Here /\ \E c \in Waiting("detail") :
         Resume(c, IF ~c.here THEN view
                   ELSE IF c.st = "ok" THEN [view EXCEPT !.modal.loading = FALSE, !.modal.row = c.ans]
                   ELSE [view EXCEPT !.modal.loading = FALSE])
Detailed == InModal("detail") /\ db.can /\ view.modal.row # None
DetailToggle ==
    \/ /\ Detailed /\ ~view.modal.confirm /\ ~view.modal.busy
       /\ Ask("flip", [id |-> view.modal.id, to |-> Flip(view.modal.row), only |-> view.only, mine |-> TRUE],
              [view EXCEPT !.modal.busy = TRUE])
    \/ \E c \in Waiting("flip") :
         IF c.st # "ok" THEN Resume(c, Unbusy(c))
         ELSE ResumeAsks(c, << Reload(c.arg.only, FALSE) >>,
                IF c.here /\ c.arg.mine
                THEN [view EXCEPT !.modal.row = c.ans, !.modal.busy = FALSE] ELSE view)
DetailDelete ==
    \/ Detailed /\ ~view.modal.confirm /\ view.modal.row.st = "off" /\ ~view.modal.busy
       /\ Local([view EXCEPT !.modal.confirm = TRUE])
    \/ Detailed /\ view.modal.confirm /\ Local([view EXCEPT !.modal.confirm = FALSE])
    \/ Detailed /\ view.modal.confirm /\ RemoveOrg("detail")
    \/ \E c \in Waiting("remove") :
         /\ c.arg.kind = "detail"
         /\ IF c.st = "ok" THEN Closing(c)
            ELSE Resume(c, IF c.here /\ c.arg.mine
                           THEN [view EXCEPT !.modal.busy = FALSE, !.modal.confirm = FALSE] ELSE view)

----------------------------------------------------------------------------
(* AuditLogTab: load() runs for every filter and every page; a new filter  *)
(* on a later page first loads that page, then page 0.                     *)

Choose(f) ==
    LET v == [view EXCEPT !.filter = f, !.loading = TRUE] IN
    IF view.at = 0 THEN Ask("audit", <<f, 0>>, v)
    ELSE Asks(<< <<"audit", <<f, view.at>> >>, <<"audit", <<f, 0>> >> >>, [v EXCEPT !.at = 0])
Turn(to) == Ask("audit", <<view.filter, to>>, [view EXCEPT !.at = to, !.loading = TRUE])
AuditTab ==
    \/ \E f \in {None, "action"} \ {view.filter} : Choose(f)
    \/ view.total > 1 /\ view.at > 0 /\ Turn(view.at - 1)
    \/ view.total > 1 /\ view.at < view.total - 1 /\ Turn(view.at + 1)
OrgAudit      == In({"audit"}) /\ AuditTab
PlatformAudit == In({"platformAudit"}) /\ AuditTab
AuditLoaded ==
    Here /\ \E c \in Waiting("audit") :
        LET v == [view EXCEPT !.loading = FALSE]
        IN  Resume(c, IF c.st = "ok" THEN [v EXCEPT !.shown = c.arg, !.total = c.ans] ELSE v)

----------------------------------------------------------------------------
(* OrganisationTab: the profile, and the flag it reports to the page,      *)
(* which also reads it for itself.                                         *)

ProfileRead ==
    Here /\ \E c \in Waiting("profile") :
        LET v == IF c.arg = "tab" THEN [view EXCEPT !.loading = FALSE] ELSE view IN
        Resume(c, IF c.st # "ok" THEN v
                  ELSE IF c.arg = "page" THEN [v EXCEPT !.unset = Unset(c.ans)]
                  ELSE [v EXCEPT !.org = c.ans, !.form = c.ans, !.unset = Unset(c.ans)])
EditProfile ==
    /\ In({"profile"}) /\ Usable
    /\ \E f \in Fields, x \in {None, "x"} :
         view.form[f] # x /\ Local([view EXCEPT !.form[f] = x, !.saved = FALSE])
\* handleSave: an empty field is not sent.
SaveProfile ==
    \/ /\ In({"profile"}) /\ Usable /\ ~view.saving
       /\ Ask("save", view.form, [view EXCEPT !.saving = TRUE])
    \/ Here /\ \E c \in Waiting("save") :
         LET v == [view EXCEPT !.saving = FALSE]
         IN  Resume(c, IF c.st # "ok" THEN v
                       ELSE [v EXCEPT !.org = c.ans, !.form = c.ans, !.saved = TRUE, !.unset = Unset(c.ans)])

----------------------------------------------------------------------------
(* The server: services/org and services/admin. *)

Live == {r \in db.rows : r.st # "gone"}
Listed(only) == {r \in Live : only => r.st = "on"}
Insert(st, of) == [db EXCEPT !.rows = @ \cup {Row(db.next, st, of)}, !.next = @ + 1]
Rewrite(r, new) == [db EXCEPT !.rows = (@ \ {r}) \cup {new}]
Change(c, r, new) == Serve(c, Rewrite(r, new), new) \/ LoseAnswer(c, Rewrite(r, new))
Target(c) == {r \in Live : r.id = c.arg.id}

ServeReads == \E c \in net :
    \/ c.op = "list" /\ Serve(c, db, Listed(c.arg.only))
    \/ c.op = "audit" /\ Serve(c, db, Pages(c.arg[1]))
    \/ c.op = "plans" /\ Serve(c, db, None)
    \/ c.op = "profile" /\ Serve(c, db, db.org)
    \/ c.op = "detail" /\ IF Target(c) = {} THEN Reject(c) ELSE \E r \in Target(c) : Serve(c, db, r)

\* UpdateUser, UpdatePlatformUser, UpdateOrg.
UpdateRow == \E c \in net :
    /\ c.op \in {"setActive", "setRole", "flip"}
    /\ IF Target(c) = {} THEN Reject(c)
       ELSE \E r \in Target(c) :
              Change(c, r, IF c.op = "setRole" THEN [r EXCEPT !.of = c.arg.to] ELSE [r EXCEPT !.st = c.arg.to])

\* CancelInvitation: a pending one.  ResendInvitation: one not accepted;
\* ResendPlatformInvitation does not look.
UpdateInvitation == \E c \in net, r \in db.rows :
    /\ c.op \in {"cancel", "resend"} /\ c.arg.id = r.id
    /\ IF CASE c.op = "cancel"        -> r.st = "pending"
            [] db.kind = "invites"    -> r.st # "accepted"
            [] OTHER                  -> TRUE
       THEN Change(c, r, [r EXCEPT !.st = c.arg.to]) ELSE Reject(c)

\* CreateOrg: the organisation stays when its administrator cannot be invited.
\* SendUserInvite: one pending invitation to an address.
Create == \E c \in net :
    /\ c.op = "submit"
    /\ LET d == IF c.arg.kind = "createOrg" THEN Insert("on", None)
                ELSE IF c.arg.kind = "inviteAdmin" \/ db.kind = "members" THEN db
                ELSE Insert("pending", c.arg.to)
           taken == c.arg.kind = "inviteUser"
                    /\ \E r \in db.rows : r.st = "pending" /\ r.of = c.arg.to
       IN  IF taken THEN Reject(c) ELSE Serve(c, d, None) \/ LoseAnswer(c, d)

\* DeleteOrg: only a deactivated organisation.
Delete == \E c \in net :
    /\ c.op = "remove"
    /\ IF \E r \in Target(c) : r.st = "off"
       THEN \E r \in Target(c) : Change(c, r, [r EXCEPT !.st = "gone"]) ELSE Reject(c)

\* UpdateOrgProfile: what is not sent stays.
UpdateProfile == \E c \in net :
    /\ c.op = "save"
    /\ IF c.arg = Empty THEN Reject(c)
       ELSE LET new == [f \in Fields |-> IF c.arg[f] = None THEN db.org[f] ELSE c.arg[f]]
                d   == [db EXCEPT !.org = new]
            IN  Serve(c, d, new) \/ LoseAnswer(c, d)

Fail == \E c \in net : Refuse(c)
Gone == \E c \in net : page = "away" /\ c.op \notin Handlers /\ Resume(c, view)

\* Another tab or page and back.
Reopen == page = "away" /\ Mount("admin", Tab, Effects(db.kind))

----------------------------------------------------------------------------
User == Leave \/ Reopen \/ Close \/ OnlyActive
TableSteps == ListLoaded \/ MemberMenu \/ TeamRow \/ MemberInvites \/ TeamInvites \/ OrgRow \/ RowsDone
Dialogs == CreateOrg \/ InviteOrgAdmin \/ InviteTeam \/ InviteUser \/ DeleteOrg \/ OrgDetail \/ DetailToggle \/ DetailDelete
Others == OrgAudit \/ PlatformAudit \/ AuditLoaded \/ ProfileRead \/ EditProfile \/ SaveProfile
Server == ServeReads \/ UpdateRow \/ UpdateInvitation \/ Create \/ Delete \/ UpdateProfile \/ Fail \/ Gone
Next == db.page = "admin" /\ (User \/ TableSteps \/ Dialogs \/ Others \/ Server)
Spec == Init /\ [][Next]_vars

Resting == Here /\ Quiet
\* At rest the table, or the profile, is the one stored, under the filter the user has
\* chosen unless he chose it while an action was under way, which loads with the old one.
Truth ==
    Resting /\ Calm =>
        /\ db.kind \in Tables => view.list = Listed(view.of) /\ (view.of = view.only \/ view.crossed)
        /\ db.kind = "profile" => view.org = db.org /\ view.unset = Unset(db.org)
\* At rest the audit log shows the page and the filter that are selected.
Pager == Resting /\ Calm /\ db.kind \in Audits => view.shown = <<view.filter, view.at>>
Settled ==
    Resting => /\ ~view.loading /\ view.busy = None /\ ~view.saving
               /\ ~view.modal.busy /\ ~view.modal.loading /\ view.modal.plans # "reading"
=============================================================================
