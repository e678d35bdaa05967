------------------------------- MODULE Client -------------------------------
(***************************************************************************)
(* The web client (src/web/src): its pages, the tokens and the routes of a *)
(* tab, side by side.  A behaviour is that of a user on one of them, named *)
(* by `db.page`, from any state in Init on.  No fairness is assumed: what  *)
(* the pages promise is stated of the moments when nothing is under way.   *)
(***************************************************************************)
EXTENDS PagesProofs

Chapters == INSTANCE PlanChapters
Admin    == INSTANCE AdminPages
Plans    == INSTANCE PlanPages
Kpis     == INSTANCE KpiPages

\* These pages, and `Board`, `Reports` and `Routes` of PagesProofs, come with what is
\* proved of them, which ClientProofs takes from there.
Editor   == INSTANCE EditorProofs
Tokens   == INSTANCE TokensProofs

Init == \/ Chapters!Init \/ Board!Init \/ Admin!Init \/ Plans!Init \/ Editor!Init
        \/ Kpis!Init \/ Reports!Init \/ Tokens!Init \/ Routes!Init
Next == \/ Chapters!Next \/ Board!Next \/ Admin!Next \/ Plans!Next \/ Editor!Next
        \/ Kpis!Next \/ Reports!Next \/ Tokens!Next \/ Routes!Next
Spec == Init /\ [][Next]_vars

On(p) == db.page = p

\* None (null, undefined) is nothing a page knows by name.
ASSUME NoneAssumption ==
    /\ None \notin Routes!Roles \cup Routes!Addresses
    /\ None \notin Tokens!Users
    /\ None \notin Tokens!Users \X (1..Tokens!MaxPairs)
    /\ None # "no"
    /\ None \notin Nat

----------------------------------------------------------------------------
\* LocalPlanChapters.tsx: once every answer is in, in the order of the requests and
\* without a failure, each section lists the rows the server has; its handlers patch
\* the list themselves and never load it again.
ChaptersTrue == On("chapters") => Chapters!Truth

\* LocalPlanBoard.tsx: the same of pillars, objectives and activities, whose handlers
\* load everything again while other handlers are under way.
BoardTrue == On("board") => Board!Truth

\* CreateActivityModal.tsx: a new activity goes under the objective whose button opened
\* the dialog, though the board reloads under it and remounts it, unless the user has
\* picked another objective or this one is gone.
CreatedWhereAsked == On("board") => Board!CreatedWhereAsked

\* PlatformAdminPage.tsx, AdminPage.tsx: the tables show the rows stored once all is
\* answered in order, under the filter chosen unless it was switched while an action was
\* under way, and the audit log the page and filter that are chosen, though a filter
\* changed on a later page sends two loads.
AdminTrue == On("admin") => Admin!Truth /\ Admin!Pager

\* PlansPage.tsx: so does the table of plans, after single and bulk actions, unless a
\* bulk action was torn by a stale row or the queue was replayed behind it.
PlansTrue == On("plans") => Plans!Truth

\* PlanDetailPage.tsx: a status chosen while the server cannot be reached is the plan's
\* once the offline queue is empty, unless another change crossed it.
StatusLasts == On("plans") => Plans!StatusLasts

\* ActivityEditorPage.tsx, useAutoSave.ts: at rest what is typed is stored or queued, or
\* the page says it is not, unless the edit fell into one of the gaps `slip` names.
KeptUnlessSlipped == On("editor") => Editor!KeptUnlessSlipped

\* AiDraftPanel.tsx: text the AI wrote is stored after the user has approved it, unless
\* a timer of the autosave was armed when it was put on the page.
DraftsNeedApproval == On("editor") => Editor!DraftsNeedApproval

\* LocalActivityEditor.tsx, TrackingModule.tsx: the KPIs on the page are those stored,
\* and every change of the user is among them unless he outran an answer.
KpisTrue == On("kpis") => Kpis!Truth

\* TrackingModule.tsx, report_service.go: the gauge of the tracking page and the figure
\* of the report, computed twice, agree on every list of KPIs that is scored in full.
GaugesAgree == On("kpis") => Kpis!GaugesAgree

\* ReportsPage.tsx: the history is of the selected plan and with the jobs complete, and
\* a report is announced once unless two ticks of the timer met.
ReportsTrue == On("reports") => Reports!Truth

\* Every page: no button stays disabled, no spinner up and no list loading when
\* nothing is under way any more, whatever failed.
PagesSettle ==
    CASE On("chapters") -> Chapters!Settled
      [] On("board")   -> Board!Settled
      [] On("admin")   -> Admin!Settled
      [] On("plans")   -> Plans!Settled
      [] On("editor")  -> Editor!Settled
      [] On("kpis")    -> Kpis!Settled
      [] On("reports") -> Reports!Settled
      [] On("tokens")  -> Tokens!Settled
      [] On("routes")  -> Routes!Settled

\* client.ts, store/auth.ts: the user on the screen is the one whose tokens the calls
\* carry, unless somebody signed in over stored tokens, or a refresh met a sign-in, a
\* sign-out or another refresh.
SameIdentity == On("tokens") => Tokens!SameIdentity

\* AppShell.handleLogout, clearAuth: a log-out leaves no token in the tab and no session
\* on the server, unless a refresh or a reload came between or a request was lost.
SignedOutMeansOut == On("tokens") => Tokens!SignedOutMeansOut

\* The interceptors: an expired access token fails no call and ends no session that
\* lives, however calls, refreshes and replays interleave.
ExpiryUnseen == On("tokens") => Tokens!ExpiryUnseen

\* App.tsx, ProtectedRoute.tsx: a user ends on pages whose calls the router takes from
\* his role, after two redirects at most, wherever links, late answers, typed addresses
\* and expired sessions send him.
PagesAllowed == On("routes") => Routes!Allowed

\* AppShell.tsx, CommandPalette.tsx, useKeyboardShortcuts.ts, usePermission.ts: none of
\* the four tables of roles offers what the guard or the router then refuses.
OfferedPagesOpen == On("routes") => Routes!OfferedOpen

\* OrgPickerPage.tsx, AppShell.tsx: the page, the banner and the palette of an advisor
\* are all of the organisation his next request will carry, unless the answer of
\* a dialog he had closed changed it.
AdvisesOneOrg == On("routes") => Routes!OneOrg
=============================================================================
