---------------------------- MODULE ClientRoutes ----------------------------
(***************************************************************************)
(* Where a user may go in the web client: the route tree (App.tsx) and its *)
(* guard (ProtectedRoute.tsx), the ways through it (the sidebar of         *)
(* AppShell.tsx, CommandPalette.tsx, useKeyboardShortcuts.ts, the sign-in, *)
(* invitation and organisation pages) and the capabilities the pages show  *)
(* controls by (usePermission.ts), above the server's router.  An advisor  *)
(* acts in the organisation its tab has selected, which every request      *)
(* carries in a header.  `view.at` is the address, `view.on` the page that *)
(* is mounted for it.  Signing in over another user's tokens is            *)
(* ClientTokens' subject and left out here.                                *)
(***************************************************************************)
EXTENDS Spa

Roles == {"super_admin", "platform_support", "advisor", "org_admin", "planner", "contributor", "viewer"}
Orgs == {1, 2}
NewOrg == 3
MaxHops == 4        \* bound: redirects in a row

OrgPages == {"/dashboard", "/plans", "/reports"}
ShellPages == OrgPages \cup {"/profile", "/admin", "/platform-admin"}
PublicPages == {"/login", "/invitations/accept", "/docs"}
\* "*" is an address without a page.
Addresses == ShellPages \cup PublicPages \cup {"/org-picker", "*"}

----------------------------------------------------------------------------
(* ProtectedRoute and the route tree. *)

Rank(role) ==
    CASE role = "super_admin" -> 100
      [] role = "platform_support" -> 80
      [] role \in {"advisor", "org_admin"} -> 60
      [] role = "planner" -> 40
      [] role = "contributor" -> 20
      [] role = "viewer" -> 10
PlatformRoles == {"super_admin", "platform_support"}

\* minimumRole of the inner guard of a page, if it has one.
Minimum(p) ==
    CASE p \in OrgPages -> "viewer"
      [] p = "/admin" -> "org_admin"
      [] p = "/platform-admin" -> "platform_support"
      [] OTHER -> None

Orgless(role, org) == role = "advisor" /\ org = None

\* Where the address p leads somebody: to p itself, or to another address.
\* Mutant: the guard sends an advisor without an organisation away from the picker too.
TargetLoops(p, role, org) ==
    IF p \in PublicPages THEN p
    ELSE IF p = "*" THEN "/dashboard"
    ELSE IF role = None THEN "/login"
    ELSE IF Orgless(role, org) THEN IF p = "/org-picker" THEN "/dashboard" ELSE "/org-picker"
    ELSE p
Target(p, role, org) ==
    IF p \in PublicPages THEN p
    ELSE IF p = "*" THEN "/dashboard"
    ELSE IF role = None THEN "/login"
    ELSE IF Orgless(role, org) THEN "/org-picker"
    ELSE IF Minimum(p) = None THEN p
    ELSE IF role \in PlatformRoles /\ Minimum(p) \notin PlatformRoles THEN "/platform-admin"
    ELSE IF Rank(role) < Rank(Minimum(p)) THEN "/dashboard"
    ELSE p

----------------------------------------------------------------------------
(* State.  The shell lives while a page of it is mounted: it has the name  *)
(* of the organisation in its banner and the index of its palette.         *)

Shell0 == [name |-> None, search |-> FALSE, index |-> None, indexing |-> FALSE]
Document(p) == [at |-> p, on |-> None, hops |-> 0, from |-> None, shows |-> None,
                shell |-> Shell0, busy |-> FALSE, creating |-> FALSE, saving |-> FALSE]
InShell(p) == p \in ShellPages

Init ==
    /\ page = "routes" /\ acts = MaxActs + 1 /\ lost = 0 /\ mixed = FALSE
    /\ \E role \in Roles \cup {None}, org \in Orgs \cup {None}, p \in Addresses :
         /\ role # "advisor" => org = None
         /\ db = [page |-> "routes", user |-> role, org |-> org, tokens |-> role # None,
                  orgs |-> Orgs, late |-> FALSE, over |-> FALSE]
         /\ \/ view = Document(p)
            \/ /\ role = "advisor" /\ org = None /\ p = "/org-picker"
               /\ view = [Document(p) EXCEPT !.on = p, !.creating = TRUE]
    /\ net = {}

Goto(v, p) == [v EXCEPT !.at = p, !.hops = 0, !.from = None]
Here == page = "routes"
Aim == Target(view.at, db.user, db.org)
\* The guard renders again with every change of the user or the organisation, before
\* the user can touch the page under it.
On(p) == Here /\ view.on = p /\ view.at = p /\ Aim = p

\* <Navigate replace>: the page under it is unmounted, and the shell with it
\* when the outer guard is the one that redirects.
Redirect ==
    /\ Here /\ Aim # view.at /\ view.hops < MaxHops
    /\ view' = [view EXCEPT !.at = Aim, !.hops = @ + 1, !.on = None,
                            !.from = IF Aim = "/login" THEN view.at ELSE None,
                            !.shell = IF InShell(Aim) /\ view.at # "*" THEN @ ELSE Shell0]
    /\ UNCHANGED <<page, net, db, acts, lost, mixed>>

\* The page is mounted and loads what it shows, from the organisation of the
\* header; the shell asks for the name of an advisor's organisation.
\* A handler of a shell that is gone reaches nobody.
\* Mutant: what a shell has found out outlives it.
MountedKeeps(p) ==
    [view EXCEPT !.on = p, !.shows = IF InShell(p) THEN db.org ELSE None,
                 !.busy = FALSE, !.creating = FALSE, !.saving = FALSE]
Mounted(p) ==
    [view EXCEPT !.on = p, !.shows = IF InShell(p) THEN db.org ELSE None,
                 !.shell = IF InShell(p) THEN @ ELSE Shell0,
                 !.busy = FALSE, !.creating = FALSE, !.saving = FALSE]
ShellCalls == {"name", "plans", "activities"}
Kept(p) == {[c EXCEPT !.here = @ /\ (InShell(p) \/ c.op \notin ShellCalls)] : c \in net}
Arrive ==
    /\ Here /\ Aim = view.at /\ view.on # view.at
    /\ view' = Mounted(view.at)
    /\ net' = IF InShell(view.at) /\ ~InShell(view.on) /\ db.user = "advisor"
              THEN Send(Kept(view.at), << <<"name", db.org>> >>) ELSE Kept(view.at)
    /\ UNCHANGED <<page, db, acts, lost, mixed>>

\* The address is typed, or the page loaded again.
Visit == \E p \in Addresses :
    /\ Here /\ Gesture
    /\ view' = Document(p)
    /\ net' = {[c EXCEPT !.here = FALSE] : c \in net}
    /\ UNCHANGED <<page, db, lost, mixed>>

----------------------------------------------------------------------------
(* What the shell offers. *)

CanSeeOrgPages(role, org) == role \notin PlatformRoles /\ ~Orgless(role, org)
CanSeeAdminPage(role, org) == CanSeeOrgPages(role, org) /\ role # None /\ Rank(role) >= Rank("org_admin")

NavItems(role) ==
    {"/docs"} \cup (IF role \in PlatformRoles THEN {"/platform-admin"}
                    ELSE OrgPages \cup IF Rank(role) >= Rank("org_admin") THEN {"/admin"} ELSE {})
Chords(role, org) ==
    (IF CanSeeOrgPages(role, org) THEN OrgPages ELSE {})
    \cup (IF CanSeeAdminPage(role, org) THEN {"/admin"} ELSE {})

\* The pages useGlobalSearch finds, one of which is gone, and those the palette keeps.
StaticPages == OrgPages \cup {"/progress", "/admin"}
KnownPages == OrgPages \cup {"/admin", "/docs"}
\* Mutant: the palette shows the administration page to whoever has an organisation.
PaletteUnranked(role, org) == {p \in StaticPages \cap KnownPages : CanSeeOrgPages(role, org)}
Palette(role, org) ==
    {p \in StaticPages \cap KnownPages :
        IF p = "/admin" THEN CanSeeAdminPage(role, org) ELSE CanSeeOrgPages(role, org)}
\* A plan or an activity the index has.
PlanResults == IF view.shell.index = None THEN {} ELSE {"/plans"}

AtShell == InShell(view.on) /\ On(view.on)
Follow(p, v) == Local(Goto(v, p))
Sidebar == AtShell /\ \E p \in NavItems(db.user) \cup {"/profile"} : Follow(p, view)
Shortcut == AtShell /\ ~view.shell.search /\ \E p \in Chords(db.user, db.org) : Follow(p, view)

\* The palette: its index is built once in the life of the shell.
OpenSearch ==
    /\ AtShell /\ ~view.shell.search
    /\ LET v == [view EXCEPT !.shell.search = TRUE]
       IN  IF view.shell.index # None \/ view.shell.indexing THEN Local(v)
           ELSE Ask("plans", db.org, [v EXCEPT !.shell.indexing = TRUE])
CloseSearch == AtShell /\ view.shell.search /\ Local([view EXCEPT !.shell.search = FALSE])
Select ==
    /\ AtShell /\ view.shell.search
    /\ \E p \in Palette(db.user, db.org) \cup PlanResults : Follow(p, [view EXCEPT !.shell.search = FALSE])
\* buildIndex: the plans, then their activities; what has failed is tried on the next opening.
Indexed ==
    \/ \E c \in Waiting("plans") :
         /\ c.here
         /\ IF c.st = "ok" THEN ResumeAsk(c, "activities", c.arg, view)
            ELSE Resume(c, [view EXCEPT !.shell.indexing = FALSE])
    \/ \E c \in Waiting("activities") :
         c.here /\ Resume(c, [view EXCEPT !.shell.indexing = FALSE, !.shell.index = <<c.arg>>])

\* The banner: the answer of an organisation that is no longer selected is dropped.
Named == \E c \in Waiting("name") :
    Resume(c, IF c.arg # db.org THEN view ELSE [view EXCEPT !.shell.name = IF c.st = "ok" THEN <<c.arg>> ELSE None])

----------------------------------------------------------------------------
(* Who the user is. *)

Home(role) ==
    IF role \in PlatformRoles THEN "/platform-admin" ELSE IF role = "advisor" THEN "/org-picker" ELSE "/dashboard"

\* handleSubmit of LoginPage: to the page the user was sent away from, or home;
\* wherever he has gone meanwhile.
SignIn ==
    /\ On("/login") \/ On("/invitations/accept")
    /\ ~view.busy /\ ~db.tokens
    /\ \E role \in Roles :
         Ask("login", [role |-> role, from |-> view.from, accept |-> view.on # "/login"], [view EXCEPT !.busy = TRUE])
Arrival(c) == IF c.arg.from = None THEN Home(c.arg.role) ELSE c.arg.from
\* handleSubmit of AcceptInvitePage stays and offers a button home instead.
SignedIn == \E c \in Waiting("login") :
    LET v == [view EXCEPT !.busy = FALSE]
        d == [db EXCEPT !.user = c.arg.role, !.tokens = TRUE]
    IN  /\ c.here
        /\ IF c.st # "ok" THEN Resume(c, v)
           ELSE AnsweredWith(c, Without(c), IF c.arg.accept THEN v ELSE Goto(v, Arrival(c)),
                             IF db.tokens THEN [db EXCEPT !.over = TRUE] ELSE d)
Continue == On("/invitations/accept") /\ db.tokens /\ Follow(Home(db.user), view)
ToDocs == (On("/login") \/ On("/invitations/accept")) /\ Follow("/docs", view)
\* The header of the documentation.
FromDocs ==
    /\ On("/docs")
    /\ Follow(IF db.user = None THEN "/login" ELSE IF db.user \in PlatformRoles THEN "/platform-admin" ELSE "/dashboard", view)

SignedOut(d) == [d EXCEPT !.user = None, !.org = None, !.tokens = FALSE]
LogOut ==
    \/ AtShell /\ ~view.busy /\ Ask("logout", None, [view EXCEPT !.busy = TRUE])
    \/ \E c \in Waiting("logout") :
         c.here /\ AnsweredWith(c, Without(c), Goto([view EXCEPT !.busy = FALSE], "/login"), SignedOut(db))

\* A refresh that fails clears the tokens and the organisation, not the user, and
\* loads the sign-in page.
Expired ==
    /\ AtShell /\ Gesture
    /\ view' = Document("/login")
    /\ net' = {[c EXCEPT !.here = FALSE] : c \in net}
    /\ db' = [db EXCEPT !.org = None, !.tokens = FALSE]
    /\ UNCHANGED <<page, lost, mixed>>

----------------------------------------------------------------------------
(* The organisation an advisor acts in. *)

Entered(org) == [db EXCEPT !.org = org]
\* The shell renders with another organisation: its effect asks for the name.
Enter(calls, v, org) == IF InShell(v.on) /\ db.user = "advisor" /\ org # db.org
                        THEN Send(calls, << <<"name", org>> >>) ELSE calls
EnterOrg ==
    /\ On("/org-picker") /\ ~view.creating
    /\ \E org \in (IF db.user \in PlatformRoles \cup {"advisor"} THEN db.orgs ELSE {}) :
         /\ Gesture
         /\ view' = Goto(view, "/dashboard") /\ db' = Entered(org)
         /\ UNCHANGED <<page, net, lost, mixed>>

\* The dialog of a new organisation: closing it does not stop what it has sent, and
\* the answer enters the organisation, wherever the user is by then.
OpenDialog == On("/org-picker") /\ ~view.creating /\ Local([view EXCEPT !.creating = TRUE])
CloseDialog == On("/org-picker") /\ view.creating /\ Local([view EXCEPT !.creating = FALSE, !.saving = FALSE])
CreateOrg ==
    On("/org-picker") /\ view.creating /\ ~view.saving /\ Ask("create", None, [view EXCEPT !.saving = TRUE])
Created == \E c \in Waiting("create") :
    /\ c.here
    /\ IF c.st # "ok" THEN Resume(c, [view EXCEPT !.saving = FALSE])
       ELSE AnsweredWith(c, Enter(Without(c), view, NewOrg),
                         Goto([view EXCEPT !.creating = FALSE, !.saving = FALSE], "/dashboard"),
                         [Entered(NewOrg) EXCEPT !.late = @ \/ view.on # "/org-picker"])
ExitOrg ==
    /\ AtShell /\ db.user = "advisor" /\ db.org # None /\ Gesture
    /\ db' = [db EXCEPT !.org = None]
    /\ view' = Goto(view, "/org-picker")
    /\ UNCHANGED <<page, net, lost, mixed>>

----------------------------------------------------------------------------
(* The server: who may call what a page calls (handlers/router.go).  An    *)
(* advisor with an organisation is its org_admin.                          *)

Acting(role, org) == IF role = "advisor" /\ org # None THEN "org_admin" ELSE role
\* Plans and reports are read without a role in router.go, but their handlers ask for an
\* organisation (mustOrgClaims, handlers/plan.go:373), which only its members have.
OrgMembers == {"org_admin", "planner", "contributor", "viewer"}
Serves(p, role) ==
    CASE p \in OrgPages -> role \in OrgMembers
      [] p = "/admin" -> role = "org_admin"
      [] p = "/platform-admin" -> role \in PlatformRoles
      [] OTHER -> TRUE

\* usePermission's flags, by the least role that has them, and the roles of the routes they stand for.
Flags ==
    {<<"createPlan", "planner">>, <<"deletePlan", "org_admin">>, <<"managePlanViewers", "org_admin">>,
     <<"createActivity", "planner">>, <<"editActivity", "contributor">>, <<"deleteActivity", "planner">>,
     <<"createLink", "planner">>, <<"editMilestone", "planner">>, <<"deleteMilestone", "org_admin">>,
     <<"generateReport", "planner">>, <<"runAI", "planner">>, <<"manageUsers", "org_admin">>}
Capabilities(role, org) ==
    IF role = None \/ Orgless(role, org) THEN {} ELSE {f[1] : f \in {g \in Flags : Rank(role) >= Rank(g[2])}}
Grants(role) ==
    CASE role = "org_admin" -> {f[1] : f \in Flags}
      [] role = "planner" -> {"createPlan", "createActivity", "editActivity", "deleteActivity", "createLink",
                              "editMilestone", "generateReport", "runAI"}
      [] role = "contributor" -> {"editActivity"}
      [] OTHER -> {}

ServeLogin == \E c \in net : c.op = "login" /\ (Serve(c, db, None) \/ Reject(c))
ServeCreate == \E c \in net :
    /\ c.op = "create"
    /\ IF db.user \in {"super_admin", "advisor"} /\ NewOrg \notin db.orgs
       THEN LET d == [db EXCEPT !.orgs = @ \cup {NewOrg}] IN Serve(c, d, None) \/ LoseAnswer(c, d)
       ELSE Reject(c)
ServeRest == \E c \in net : c.op \in {"logout", "name", "plans", "activities"} /\ Serve(c, db, None)
Fail == \E c \in net : Refuse(c)
Gone == \E c \in net : ~c.here /\ c.op # "name" /\ Resume(c, view)

----------------------------------------------------------------------------
Ways == Redirect \/ Arrive \/ Visit \/ Sidebar \/ Shortcut \/ OpenSearch \/ CloseSearch \/ Select \/ Indexed \/ Named
Identity == SignIn \/ SignedIn \/ Continue \/ ToDocs \/ FromDocs \/ LogOut \/ Expired
Advising == EnterOrg \/ OpenDialog \/ CloseDialog \/ CreateOrg \/ Created \/ ExitOrg
Server == ServeLogin \/ ServeCreate \/ ServeRest \/ Fail \/ Gone
Next == db.page = "routes" /\ (Ways \/ Identity \/ Advising \/ Server)
Spec == Init /\ [][Next]_vars

----------------------------------------------------------------------------
\* Whatever was typed, clicked or answered late, the page a user ends on is one
\* whose calls the server takes from him, and two redirects at most lead there.
Allowed ==
    /\ AtShell /\ db.tokens => Serves(view.on, Acting(db.user, db.org))
    /\ view.hops <= 2

\* Nothing the shell offers bounces, and what the roles of the sidebar, the chords, the
\* palette and usePermission allow, the router takes.  Controls that ask none of the four
\* are not compared: ReportsPage shows everyone its Generate button (router.go:280 refuses
\* a contributor and a viewer).
OfferedOpen ==
    /\ AtShell => \A p \in NavItems(db.user) \cup Chords(db.user, db.org) \cup Palette(db.user, db.org) :
                     Target(p, db.user, db.org) = p
    /\ (On("/dashboard") \/ On("/plans")) /\ db.tokens =>
         Capabilities(db.user, db.org) \subseteq Grants(Acting(db.user, db.org))

\* The banner, the page and the palette are of the organisation the header
\* selects, unless an organisation was created behind the user's back.
OneOrg ==
    AtShell /\ db.user = "advisor" /\ db.tokens /\ ~db.late =>
        /\ view.shows = db.org
        /\ view.shell.name \in {None, <<db.org>>}
        /\ view.shell.index \in {None, <<db.org>>}

Settled == Here /\ Quiet => ~view.busy /\ ~view.saving /\ ~view.shell.indexing
=============================================================================
