# StratPlan / SPE-LIGHT: formal models

TLA+ models of the StratPlan backend (Go, `internal/`) and of its browser client
(`web/src`), checked with TLC and partly proved with TLAPS. Paths below are relative to the repository's root.

## 1. The system

One Go process (`cmd/server/main.go`) serves a JSON API over PostgreSQL to a
React client. A request is a goroutine; it authenticates by a JWT, runs a
handler, which calls a service, which issues SQL statements one at a time on a
shared pool (`internal/database/db.go`, 25 connections, isolation READ
COMMITTED). Only a few operations open a transaction. So **between any two
statements of a request, any other request may run**; that, partial failure (a
statement fails, the client leaves and the context is cancelled, the process
stops) and what the client does when answers are lost are what is hard here.

| Component | State | Operations | Interacts with | Hard behaviour | Must hold |
|---|---|---|---|---|---|
| Sessions (`services/auth`, `services/org/profile.go`, `org_service.go`) | `users.is_active`, `password_hash`; `refresh_tokens`; `password_reset_tokens` | login, refresh with rotation, logout, forgot/reset password, change password, revoke all, (de)activate user | mail; client's token store | check in one statement, effect in a later one; revocation racing issue | revocations reach every session; a line of rotations has one live token; closed sessions stay closed; reset links work once |
| Activity links (`services/plan`: `cycle_check.go`, `links.go`, `plan_service.go`) | `activities`, `activity_links`, `plans.deleted_at` | create/delete link, activity, plan; auto-detect (read only) | plan hierarchy, reports, AI | graph search by many queries over a changing graph; soft deletes | no cycles; no links to deleted activities; deletions sweep everything |
| Plan hierarchy (`strategic_pillars.go`, `plan_service.go` CreateActivity, DuplicatePlan) | `strategic_pillars`, `strategic_objectives`, `activities.objective_id`, `user_order` | create/update/delete on three levels, duplicate a plan | links | count-then-delete against foreign keys; soft-deleted children; copy of a changing tree | parents are deletable once their children are; copies are complete |
| Plan lifecycle and viewers (`UpdatePlan`, `plan_viewer.go`, `GetPlan` filters) | `plans.status`, `plan_viewers` | status changes, grant, revoke | roles, invitations | archived check only on status change; last grant | archived plans do not change; revoking never widens access |
| Invitations (`auth_service.go` AcceptInvite, `org_service.go`, `admin_service.go`) | `invitations`, `users` | invite, cancel, resend, accept, expire | mail, sessions, organisations | resend and cancel racing accept | an invitation is accepted at most once and only while pending |
| Organisations and platform administration (`services/admin`, `services/org`) | `organisations`, `users`, audit log | create/update/delete organisation, platform users | sessions, invitations | several statements per operation, some outside a transaction | deactivated organisations have no session |
| SSO (`services/sso`, `handlers/sso*.go`) | `sso_configs`, `saml_replay_cache`, `users` | configure, SAML/OIDC login with just-in-time provisioning | sessions | two first logins at once; replays | one account per subject; one use per assertion |
| Request pipeline (`internal/middleware`, `handlers/router.go`) | pooled connections, rate-limit windows | authenticate, pin a connection with row-level-security settings, limit | every service | a pinned connection per request and services that need a second one | requests do not wait on each other forever |
| Overdue notifier (`internal/jobs`) | `notification_log` | scan, mail, record | mail | crash between mail and record; restart scans at once | no repeat within the cooldown, no lost alert |
| Milestones, chapters (`services/milestone`, `situational_analysis.go`, `monitoring_evaluation.go`, `vision_mission.go`, `org_structure.go`) | one table each | create, list, update, delete | plans | reporting lines between roles | reporting lines form a tree |
| Progress and completeness (`GetProgress`, `completeness.go`) | none (reads) | compute | activities | rounding, empty plans | percentages stay in range |
| Reports (`services/report`) | `reports`, files | generate, poll, download | plans, AI | a render that fails half way | a job's record says what became of it |
| AI drafting (`services/ai`) | none | draft, summarise, suggest links | Ollama | free-form answers | drafts stay within the schema |
| Client: requests and tokens (`web/src/api/client.ts`, `store/auth.ts`) | tokens, refresh in flight, proactive timer, user on screen | request, refresh on 401, proactive refresh, sign-in, log-out, reload | sessions | two refresh triggers; queue of waiting requests | an expired token is not noticed; who is on screen is who calls; a log-out is one |
| Client: offline queue (`store/offline.ts`, `hooks/index.ts`) | queued writes, ids of unsynced records | enqueue, sync, rewrite temporary ids | every write endpoint | lost answers, overlapping syncs, failure in the middle | every write arrives once and in order |
| Client: activity editor (`ActivityEditorPage.tsx`, `useAutoSave.ts`, `AiDraftPanel.tsx`) | fields, pending edit, timer, save in flight, AI draft awaiting approval | edit, debounce, save, retry, draft, approve, discard, delete | activities, offline queue | an edit while a save is in flight; a draft put over an armed timer | the last edit is saved or said not to be; a draft waits for approval |
| Client: plan chapters and board (`LocalPlanChapters.tsx`, `LocalPlanBoard.tsx`, `CreateActivityModal.tsx`, `AiChapterAssist.tsx`) | lists of rows, row being edited, dialogs, AI attempts | add, edit, remove, accept a draft row by row | plan hierarchy, chapters, AI drafting | handlers overlap; a reload under an open dialog; a fan-out that fails half way | what is listed is what is stored; an activity goes where it was asked for |
| Client: KPIs, tracking, reports (`LocalActivityEditor.tsx`, `TrackingModule.tsx`, `ReportsPage.tsx`) | list of KPIs, drafts of their fields; jobs, history, poll timer | edit, add, remove, accept; generate, poll, download | activities, reports | whole lists sent back; overlapping ticks | edits are stored; the two completion figures agree; the history is of the chosen plan |
| Client: plan and administration pages (`PlansPage.tsx`, `PlanDetailPage.tsx`, `AdminPage.tsx`, `PlatformAdminPage.tsx`) | tables, selection, filters, dialogs, pages of the audit log | row and bulk actions, creation, status, invitations | plans, organisations, offline queue | a table reloaded while an action is under way; a filter changed on a later page | tables show what is stored once all is answered |
| Client: routes and permissions (`App.tsx`, `ProtectedRoute.tsx`, `AppShell.tsx`, `CommandPalette.tsx`, `hooks/use*.ts`, `OrgPickerPage.tsx`) | address, user, role, organisation advised | navigate, search, shortcut, sign in and out, enter and exit an organisation | router and its roles | redirects in a circle; four tables of roles; late answers that navigate | every page offered opens and its calls are served |

## 2. What is modelled now

### Sessions
`Sessions.tla` is the concurrent session core; `SessionLife.tla` is what it
promises; `MCSessions.tla` instantiates it.

*State.* `active`, `password` (a version number for the hash), `tok`
(`refresh_tokens`: status, age, user, session, the password version of the
login it descends from), `reset` (`password_reset_tokens`), `req` (the local
state of each request: the statement it is about to run and what it has read).
A *session* is a login and all that is rotated from it, named after its first
token; the code has no such id. Its tokens form *lines*: a line is a chain of
rotations, and a refresh that presents a token while another refresh of it is under
way (nothing forbids that, `RefreshToken` revokes without looking) starts a line of its
own. Ghost state (`line`, `missed`, `ended`, `redeemed`, and the `late` marks) is read
by no guard.

*Actions.* One per SQL statement, together with the checks the handler makes on
its result: `LoginRead`, `LastLogin`, `Issue`; `RefreshRead`, `RefreshIdle`,
`RefreshRevoke`, `RefreshLoadUser`, `Issue`; `Logout`; `ResetRead`,
`ResetInsert`; `ConfirmRead`, `ConfirmUpdate`, `ConfirmCommit`; `ChangeRead`,
`SavePassword`, `RevokeAll`; `Deactivate`, `RevokeAll`, `Reactivate`;
`RevokeAllSessions`. Time is `Age` and `ResetExpire`; `Fail` ends any request
at any statement. `ConfirmPasswordReset` is the one transaction: it holds the
user's row and the token rows it touched until its commit, and other statements
wait for them (`UserFree`, `TokenFree`).

*Abstractions.* Secrets are names. A multi-row UPDATE takes its locks at once: a
deadlock abort between two of them is a `Fail`. A revoke-all that waits for an
open reset would in PostgreSQL see the rows of its own start; a token inserted
while it waits is inserted under the open reset too and is marked `raced`
either way. A failing `UPDATE last_login_at` is ignored by the code, which is
the action's normal outcome. UpdateUser's role change
touches no session and is left out, as are its checks of the caller's organisation.

### Activity links
`LinkGraph.tla` is link creation with the breadth-first search of
`cycle_check.go`, node by node and query by query, next to the creation and
deletion of activities, links and plans; `LinkDag.tla` is what it promises;
`MCLinkGraph.tla` instantiates it.

*State.* `gone` (plans with `deleted_at`), `row` (activities: unused, live,
deleted), `links` (a set of pairs: the table has UNIQUE(source, target)),
`req` (`seen`, `todo`, `next`, `depth` are `visited`, `current`, `frontier`,
`depth` of `hasCycle`). Ghost: `stale`, `late`.

*Actions.* `ActivityCheckPlan`, `InsertActivity`; `LinkReadSource`,
`LinkReadTarget`, `QueryNode`, `NextLevel`, `CycleFound`, `InsertLink`;
`DeleteActivityLink`; `DeleteMark`, `DropLinks`, `CommitActivity`;
`DeletePlanMark`, `DropActivities`, `CommitPlan`; `Fail`.

*Abstractions.* Titles, contents, KPIs and the objective are left out (the
hierarchy is a module of its own in the plan). The order of a level is any
order. Two transactions that delete one link need no lock: the link is gone
when the first commits, whichever waits.

### Invitations
`Invitations.tla` is how accounts come to be; `OneShot.tla` is what a one-time
invitation promises; `MCInvitations.tla` instantiates it.

*State.* `inv` (rows of `invitations`: status, place, person, whether `expires_at`
has passed, whether it is restricted to plans), `accounts` (pairs of a place and a
person: `users` has UNIQUE(org_id, email)), `orgActive`, `req`. Ghost: `uses`
(accounts an invitation has paid for), `raced`, `late`.

*Actions.* `SendCheck`, `SendInsert`; `InviteOrgAdmin`; `InvitePlatformCheck`,
`InvitePlatformInsert`; `CancelInvitation`; `ResendRead`, `ResendPlatformRead`,
`ResendUpdate`; `AcceptRead`, `AcceptExpire`, `AcceptCommit`, `AcceptRollback`; and
around them `Provision` (single sign-on), `SetOrgActive`, `Expire`, `Fail`.

*Abstractions.* A link is its row, since it is looked up by its hash and a resend
replaces the hash. The transaction of AcceptInvite is one action: its statements
lock rows of `users`, `invitations` and `organisations`, always in this order, and
nothing shows before the commit. The refresh token it issues is `Issue` of Sessions.

### The offline queue of the client
`OfflineQueue.tla` is the browser's side of a bad connection; `MCOfflineQueue.tla`
instantiates it.

*State.* `queue` and `stamp` (the queue and its order), `syncing` (isSyncing),
`shell` (sign-in page, loading, application), `call` (the request each page and each
pass of sync() awaits) and `left` (what a pass has still to send), `made` (the
user's last edit), `late` (requests the client has given up and the network has
not); of the server `stored` and `rows`. Ghost: `reached`, `dropped`, `doubtful`,
`skipped`, `reconnected`.

*Actions.* A page: `Save`, `PageAnswered`, `PageUnanswered` (the write is queued).
sync(): `Press` (the button) and `AutoSync` (part of `GoOnline` and `Mount`), then
`PassAnswered`, `PassRefused`, `PassUnanswered`, each of which also sends the next
item. `GoOnline`, `GoOffline`, `ReloadPage`, `SessionEnds` (a 401 that a refresh
cannot mend), `Mount`, `SignIn`, `SignOut`. The server: `Handle`, `ArriveLate`.

*Abstractions.* JavaScript runs one callback at a time, so an action is what happens
between two awaits. A refusal changes nothing on the server, so it is answered where
it happens. resolveTempId is left out: a temporary id occurs only in the address of
the page of its own plan, which shows a placeholder and queues nothing under it.
sync()'s delete branch is left out because nothing queues a deletion. One tab only.

### The pages of the client
`Spa.tla` is what all pages have in common: a page component, the requests it has in
flight and what becomes of them. `PlanChapters`, `PlanBoard`, `AdminPages`, `PlanPages`,
`ActivityEditor`, `KpiPages`, `ReportPages`, `ClientTokens` and `ClientRoutes` are the
pages and the two mechanisms under them; `AiPanel` is the drafting panel three of them
share. `Client.tla` puts them side by side and states what they promise.

*State.* `page` (the page shown, or `away`), `view` (the React state of the page, a
record whose fields are its `useState`s and refs), `net` (the requests under way: what
was asked, whether the server has acted, whether the component that asked is still
mounted), `db` (the rows on the server, and what the browser stores), and three
counters and marks: `acts` (gestures left), `lost` (requests that failed), `mixed` (a
request or an answer overtook an older one, or a page left behind sent another).

*Actions.* A handler is cut at its awaits. Up to the first it is a gesture (`Ask`,
`Local`); after an await it is the continuation with the answer (`Resume`, and
`ResumeAsk` when another await follows), in which a `catch`, a `finally` and a call of
`load()` are included. The server's half (`Serve...`) does what the service does with
the rows: for instance `DeleteObjectiveRow` of `PlanBoard` counts live activities and
then meets the foreign key of the deleted ones. `Refuse` is a request that fails before
the server acts, `LoseAnswer` one that fails after. A page is left (`Leave`) and opened
again while requests are under way; their continuations run all the same.

*Which state is kept.* Rows are numbers with a small record of the fields the page edits;
a text field is one of two or three values. A chapter of `PlanChapters` is one of six
`Kinds`, with the differences between its sections (which patches merge, which refuse
blanks, which throw) as operators on the kind. `KpiPages` has the tracking page and the
editor's KPI table; `PeriodCompletion` and `ReportPeriod` are the TypeScript and the Go
computation over the same lists, compared as fractions over a common denominator.
`ClientTokens` has one user's tab next to the server's `refresh_tokens`, with time as
the expiry of the access token. `ClientRoutes` has every address of `App.tsx`, what each
page asks of the server when it opens (`Addresses`), which roles the router serves
(`Serves`, `Grants`), and the four tables of the client that decide what is offered;
what a page shows without asking them (ReportsPage's Generate) is not compared. The
requests of a bulk action of `PlanPages` are one step, which does all of them, or, when
one is turned down or lost, some.

*Initial states.* `Init` of each module is the page being opened, and the page in use
with something on it, so that two gestures reach what would take many from an empty page.

## 3. Runs

| Run | Instance | Shows |
|---|---|---|
| `sessions_live` | 1 user, 2 requests, 2 tokens, every operation, strong fairness | only sessions of requests in flight outlive a password change or a deactivation; a closed session never reopens (`RefinesSessionLife`); a reset link fails once it is used; every request runs to its end |
| `sessions_lines` | 1 user, 2 requests, 4 tokens that age, refreshes of one token that may overlap, logouts, failures | one live token per line, so each overlap forks the session once and no more; a line ended by a logout or a timeout stays ended |
| `sessions_reset` (violation) | login during a reset | the user is not logged out everywhere |
| `links_serial` | 4 activities, 2 requests, link creation and activity deletion, MaxDepth 4, one creation at a time | no cycles, over every graph and search order; search and insert act as one atomic step (`RefinesLinkDag`) |
| `links_delete` | 3 activities in 2 plans, 2 requests of every kind, failures | what deletions miss was in flight |
| `links_race` (violation) | 2 overlapping creations | a cycle |
| `invites_races` | 2 invitations, 1 organisation and the platform, 1 person, 3 requests of every kind | an invitation pays for one account at most, only while pending (`RefinesOneShot`); no two pay for one person; what may undo an acceptance |
| `invites_scoped` (violation) | a plan-scoped invitation, nothing else going on | it can never be accepted |
| `offline_sync` | 2 edits and a draft, 2 passes, any flapping of the connection, any refusals, 1 interruption | queued writes survive; a plan is doubled only for cause; a pass keeps the order; one pass unless reconnected; isSyncing is reset |
| `offline_expiry` (violation) | a session that ends with writes queued | the next sign-in drops them |
| `client_pages` | every page, 2 gestures, 2 requests at once, 1 failed request or lost answer, any order | what is shown is what is stored, or a named cause (18 properties, commented in `Client.tla`) |
| `editor_autosave` (violation) | the editor with nothing lost and nothing refused | an edit that no timer will save |

*Bounds.* Sessions: two requests are enough for every pairwise race; four tokens give
a login and three rotations, or two sessions. `MaxPassword` bounds the password
changes of a user, `Tokens`, `ResetTokens` and `Activities` the rows that can be
inserted. LinkGraph: a cycle the search could miss needs a path, so four activities
give paths of three links and levels with two nodes; `MaxDepth` stands for 50 and is
at least the number of activities (`LinkGraphProofs` shows what this is for).
Invitations: two rows make a duplicate, three requests an acceptance, a resend and a
late click at once. OfflineQueue: two edits of one record make an order, one draft a
duplicate; `MaxFaults` bounds lost answers, time-outs, reloads, ended sessions and
sign-outs together, while failing for want of a connection is free; two passes
are what one reconnection can cause, and a reconnection that would start a third is
cut off. Client: `MaxActs` gestures (one more on the routes, whose gestures are short) from the
initial states above, `MaxCalls` requests at once and `MaxLost` failures: two
requests make an order, two gestures a handler that meets another. `MaxPairs` (5)
bounds the pairs of tokens that `ClientTokens` issues; `GaugesAgree` compares the two
figures on the lists that gestures make of the initial ones, which have two KPIs.
`MaxReports` and `MaxPolls` bound the jobs and the ticks of the timer, `MaxHops` (4) the
redirects `Target` follows, two more than the properties allow.
`OneCreator` is a hypothesis on the clients (one link is created at a time in a plan);
`links_race` shows what happens without it. CHECK_DEADLOCK is off where
the bounds let every row be used up, after which nothing more can start.

*Fairness.* `FairSpec` of Sessions is strong fairness of the next statement of each
request: a goroutine gets to run, and a statement that waits for a row is queued for
it by PostgreSQL, so others do not overtake it for ever. `FairSpec` of OfflineQueue
is weak fairness of the request a pass awaits: it is answered, or axios gives up
after 15 s. Nothing else is assumed to happen: no client is obliged to call, no
connection to come back. The pages have no fairness: what they promise is stated of the
moments when nothing is under way (`Quiet`), which every behaviour with answered requests
reaches.

*Seen while modelling.* What the models allow and a reader of the code should know
of, beside the five violation runs:

- Two overlapping refreshes of one token both succeed (`auth_service.go` 135 reads,
  181 revokes without looking): the session forks into two lines, and a logout or an
  idle timeout of one does not reach the other. The client does overlap them
  (`client.ts` 161 does not look at `isRefreshing`). Two overlapping confirmations
  of one reset link both succeed (302 against 257).
- A user deactivated while logging in keeps the session (`org_service.go` 285).
- A link can be created to an activity being deleted, and an activity in a plan being
  deleted (`plan_service.go` 1113 against 787, 590 against 241): these are the
  stragglers of `links_delete`. A chain longer than maxDepth would hide a cycle from
  the search (`cycle_check.go` 41).
- A resend or an expiry that overlaps with an acceptance makes an accepted invitation
  read pending or expired (`org_service.go` 203, `auth_service.go` 353); a resend
  revives a cancelled one, and on the platform an accepted one (`admin_service.go`
  657). An error of the query that looks for an existing platform user is dropped (532),
  and the invitation goes out as if there were none. Accepting an invitation re-activates an organisation that was deactivated
  (`auth_service.go` 323).
- A save that goes straight to the server does not look at the queue, so an older
  edit queued for the same record overwrites it at the next sync
  (`ActivityEditorPage.tsx` 409 and 431); the page of an activity opened while an edit of
  it is queued shows the old text.
- Tokens (`client.ts`). A wrong password answers 401, so the interceptor refreshes with
  an empty token, clears the store and reloads: the sign-in page's own error is never
  seen. Signing in over another user's stored tokens asks `/org/me` with the old token
  (205), so the old user is shown with the new one's tokens. A network failure during a
  refresh signs the user out; `isAuthenticated` and the user stay persisted. A proactive
  refresh answered after a log-out stores the old user's pair again, and a log-out sent
  during one leaves the new session alive. A reload during a refresh loses the pair.
- Routes. A guard looks at the user again whenever the store changes, so a sign-in or a
  sign-out moves the page that is open as well (`On`, `AtShell`). Closing the "New organisation" dialog does not stop its request, whose late
  answer switches the organisation under the pages of another (`OrgPickerPage.tsx` 170);
  `/org-picker` is open to every role that is signed in; a late sign-in answer
  navigates from wherever the user is.
- Editor. An edit made while a save is in flight, during an approval, or before the first
  render after loading is not saved; a status chosen while a draft is pending goes with
  it; the timer that takes away "Saved" takes away a later "Retry"; "Save now" and "Retry" pressed while a draft is pending take
  away the timer and save nothing (`useAutoSave.ts` 86); a timer armed before
  a draft is accepted saves the draft without approval, and so does an approval of
  earlier text that is in flight when another draft is accepted; a draft discarded while
  a save is in flight puts back text that this save may be about to replace
  (`ActivityEditorPage.tsx` 481); an answer of the KPI panel
  throws away later local edits.
- Tables. A plan created offline leaves the table at the next load before it is synced,
  against the comment at `PlansPage.tsx` 230; the placeholder of its page stays after the
  jump to the real id (`PlanDetailPage.tsx` 166 promises otherwise). A bulk action with
  one stale id does the rest and keeps the old table; the selection keeps rows a filter
  hides. A filter changed on a later page of the audit log sends two loads, of which the
  last answered is shown. An action of
  a row or a dialog that is answered after "Active only" was switched loads with the old
  filter, so the list contradicts the switch (`crossed`).
- Board and chapters. A reload under an open dialog throws its text away. An objective
  whose activities are all deleted cannot be deleted (`strategic_pillars.go` 285). Saving
  an edit closes the editor of another row; adding a row wipes what was typed meanwhile;
  the AI's rows are announced as applied when none was saved (PESTEL excepted); fields
  cleared in PESTEL rows are not sent; deleting a manager hides his subtree until a
  reload. A plan that fails to load renders an empty page.
- Tracking and reports. Two KPI edits faster than an answer: the second undoes the
  first. The report leaves unscored KPIs out of the average, the gauge counts them as 0
  (`report_service.go` 1063, `TrackingModule.tsx` 68), so the figures that "can never
  disagree" (1080) do on every list with one. Overlapping ticks announce a report twice;
  two plan changes answered out of order show the history of the wrong plan; a failed
  report is polled for ever.

## 4. Proofs

All proofs are for every value of the constants, under the assumptions the modules
name (`ConstantsAssumption`, `GraphAssumption` and so on: distinct kinds of identifiers
do not meet, a link is not an activity) and what a theorem's own ASSUME adds.

* `SessionsProofs`: `TypeCorrect`. The invariant is `Shape`, the types plus what a
  label promises: a request under way has a user, a rotating request has a token
  in use and that token's session.
  `OutlivingCorrect` and `DeactivatedCorrect`. Neither
  property is inductive: that a live token is excused says nothing about the
  request about to insert the next one. `RevInv` adds the same statement for
  requests (`ReqOK`) and for the rows an open reset has locked (`TxOK`).
  `OneTimeLinks` is an action property, for finitely many requests (confirmations are
  counted): a redeemed link is marked used (`UsedUp`), so nobody starts to confirm it,
  and each commit moves one confirmation from those under way to those done.
  `ImplementsSessionLife`, that `Sessions` implements
  `SessionLife`. `Lineage` says that each token and each rotating request belongs
  to a session already started; then every step maps to opening a new session,
  closing some, or a stutter.
  `RotationIsSerial` and `EndedStayEnded`, with no assumption on how requests overlap.
  A refresh has a moment when its old token is revoked and the next not inserted;
  `Serial` counts it in: a line has one live token, perhaps presented by one refresh that
  goes on with the line, or one such refresh and no live token (`LineTok`, `LineReq`,
  `Keeper`). A refresh that overlaps has no line until it inserts its token, so it can
  claim none of these. A request that will insert into an ended line is marked late.
* `LinkGraphProofs`: `DagIsAcyclic` (the abstract graph has no cycle),
  `ImplementsLinkDag` and `LinksAcyclic`, under `Assumed`: one creation per plan at
  a time, finitely many activities, at most maxDepth of them in a plan. The
  invariant `SearchInv` is that of the search over a graph that may lose links:
  what is visited is closed under the links but for the frontier, lacks the
  source, and has grown in every level, so that `DepthSuffices`: the depth bound
  never cuts a search short. `links` acyclic is stated without paths (no set of
  activities in which each has a successor), which keeps the proof free of
  induction over data.
  `GraphTypes` and `StragglersAreInFlight`. `Ready` says of each
  request what its checks still guarantee: the end of a link it is about to insert is not
  deleted, or the request is stale, and a deletion that has swept its table holds all
  there was but what a late request has added. Here `OneCreator` is not assumed.
* `InvitationsProofs`: `TypeCorrect`, `OneInvitationCorrect`, `UndoneCorrect`,
  `ImplementsOneShot`. `Shape` is the types plus what labels and statuses promise;
  `Paid` adds that an account paid for exists, which is what turns the unique key of
  `users` into at most one use; `Undoing` adds that whoever may still overwrite an
  acceptance had read the row before it. `OneMove` maps a step to at most one move of
  the abstract invitation.
* `OfflineProofs`: `TypeCorrect`, `CapturedCorrect`, `PassesAreSolitary`,
  `EditsGoInOrder` and `CopiesHaveCause`. `IInv` adds `Answered`: an
  answered request's write has reached the server. `FirstIsFirst` (a queue that is
  not empty has a first item) rests on the order of the natural numbers being
  well-founded; steps that answer nobody keep the rest for one reason (`Survive`).
  `Solo` adds that `isSyncing` is set while a pass runs. Order rests on `Numbered`
  (a record's edits get their places in the queue in the order they are made, and
  the next one is still with its page) and `Ordered`: what is queued and older than what a
  pass sends or has yet to send, it sends too or has failed to send. Copies rest on
  `Single`: the one write of a draft without a cause for doubt is with the page, in the
  queue or with one request, and once it is stored, that request has been answered.

* `ClientProofs`: eleven of the properties of `client_pages`, for any number of gestures,
  requests in flight and failures. A behaviour of `Client` stays on the page it starts on
  (`KpisStay` and its like go through the steps of the pages of which nothing else is
  proved), so `ClientInv` is that the state is tagged with such a page or has the
  invariant of one of five, proved in modules of their own. `Client` instantiates or
  extends those modules (`Editor == INSTANCE EditorProofs`), which brings their lemmas
  with the page.
* `EditorProofs`, behind `WorkIsKept` and `DraftsAreApproved`. At rest the page and the
  server agree, but a step before that nothing is at rest: `Known` says what the server
  will hold once it has answered what is in flight. A save and an approval may be under
  way together, and then their order decides which has the last word: `pending` is set
  exactly when the save is the older one. This needs that requests are numbered in the
  order of sending (`Numbered`) and, under `~mixed`, served in it (`Ordered`), that a
  page has one save under way (`Own`), and that a change not yet sent has a timer or an
  error on the screen (`Told`). `Gated` says where a draft may be before it is approved: in
  no save, no queued write, no row and no answer, only on the page, where `pending` is set
  (`Hidden`), and in the approval. The proof attempt was not idle: it asked for a save or an
  approval in flight at the wrong moment, and TLC then found both (section 3, Editor), so
  that `slip` now names them.
* `TokensProofs`, behind `ScreenAndTokensAgree`, `LogOutLeavesNothing` and
  `RenewalIsTransparent`. `Calls` says what each request under way knows of the stored
  pair: a refresh renews the stored one and has spent it when it is answered, a replay
  carries a valid token, a sign-in asks with its own pair. `Alone`: one request at most
  signs somebody in or out, and the page is busy meanwhile. `Accounted`: every session
  that lives is that of the stored pair or of one on its way.
* `PagesProofs`, routes, behind `UsersEndWhereAllowed`, `NothingOfferedBounces` and
  `AdvisorsSeeOneOrg`. The tables are compared role by role (`Offers`, `Ranks`), and a
  redirect's target is shown to be one of those that redirect no further
  (`TargetAgain`), so that two hops are enough from any address; `Outside` and `OfOrg` say
  which organisation the page, the banner and the requests under way are of.
* `PagesProofs`, board, behind `BoardShowsTheRows` and `ActivitiesGoWhereAsked`. The lists
  differ from the rows whenever a handler is under way, so neither is inductive.
  `Synced` says why a difference does not last: a list that differs has a load, or a
  handler whose answer patches it or sends a load, still to come, and a load that has
  been served has what is stored, or a write served after it loads again. That needs the
  requests numbered (`Numbered`) and, under `~mixed`, served in the order of sending
  (`Ordered`). `Busy` names, for the spinner, each disabled button, the dialog and the AI
  panel, the request that will end it. `Untouched` and `Asked` follow the dialog: the
  objective whose button opened it stays preselected through every remount, or is gone
  from what was loaded; ids are new (`Aged`), so a deleted one never comes back.
* `PagesProofs`, reports, behind `ReportsAreShownAndToldOnce`. Two loads of the history may
  be under way, of two plans, so what is shown need not be of the plan selected:
  `HistoryTrue` says that the last one asked for is, and, as requests are answered in the
  order of sending under `~mixed`, it has the last word. `Covers` says of a history, shown
  or on its way, that a report it misses is among the jobs or in an answer that will add it.
  `ToldOnce` follows a report from the answer that names it to its announcement: it is in
  one answer, or a job, or polled by the one tick under way, and none of these while it
  has been announced; a tick that finds another under way (`crossed`) breaks it, and then
  the code announces twice. That a tick polls each job once needs a newest one
  to exist (`NewestIs`), which rests on the natural numbers being well-founded.

Only model-checked: `RequestsFinish` and `SyncingEnds`, which are liveness under
fairness, out of the prover's reach; `GaugesAgree`, which compares two recursive
computations over every list (induction over data); and the properties of the tables
(`ChaptersTrue`, `AdminTrue`, `PlansTrue`, `StatusLasts`, `KpisTrue`) and
`PagesSettle`, over every order of gestures and answers in the instance of `client_pages`
(its part about the reports is `ReportsTell`). What the violation runs check is false, so
there is nothing to prove.

## 5. Plan

Done: `Sessions`, `SessionLife`, `LinkGraph`, `LinkDag`, `Invitations`, `OneShot`,
`OfflineQueue`, and the client: `Spa`, its nine parts and `Client`. What would come next:

1. Proofs about the other pages: `StatusLasts` before `PlansTrue`, `AdminTrue`, `KpisTrue`
   and `ChaptersTrue`, along the lines of the board's and the reports'.
2. `ConnPool`: requests that hold a pinned connection and need another; that they cannot
   all wait for each other while fewer requests than connections run.
3. `Notifier` (scan, mail, record, restart), `Sso` (just-in-time provisioning, replay
   cache), the grants of plan viewers, and DuplicatePlan.
4. Two tabs: `ClientTokens` and `OfflineQueue` with two browsers on one user.

## 6. Not modelled

Rendering of reports and the AI prompts (formatting, external model), the i18n
catalogues, the mock API of the client, types and one-line endpoint functions, the
dashboard (reads), the profile, password-recovery and documentation pages (one form, or
text), the development seed, configuration parsing, and the statistics of the platform
administrator (reads only). Of the server: SSO beyond the account it inserts, the pinned
connections, the rate limiter, the notifier, the grants of plan viewers, DuplicatePlan,
the order of activities, row-level security in SQL, and the percentages of `GetProgress`
and `completeness.go`. UpdateOrg compares with the `is_active` it has read before its
other statements (`admin_service.go` 244); organisations' sessions are not in Sessions.
