----------------------------- MODULE PagesProofs -----------------------------
(***************************************************************************)
(* Proofs about the pages "routes", "board" and "reports" of Client, for   *)
(* any number of gestures, requests in flight and lost answers.            *)
(*                                                                         *)
(* Routes: where redirects end, what the four tables of roles offer, and   *)
(* the organisation of an advisor.  Hops says that a second redirect in a  *)
(* row ends where the guard lets the user stay, unless a sign-in on the    *)
(* invitation page may still change who he is, and that none was pending   *)
(* before the first; OfOrg that page, banner, palette and requests are of  *)
(* one organisation, and Outside that nothing of a shell outlives it,      *)
(* which is what makes a new organisation start from nothing.              *)
(*                                                                         *)
(* Board: the lists shown are the rows stored, and an activity goes under  *)
(* the objective it was asked for.  It is shown while requests are on the  *)
(* way, so Synced says what will become of it: what differs from the rows  *)
(* will be patched by an answer that is in, or read again by a load that   *)
(* comes after every write, which needs that requests are numbered, served *)
(* and answered in the order of sending.  Busy gives every spinner and     *)
(* disabled button the request that will end it, and Untouched and Asked   *)
(* say of the dialog and of what it sent under which objective a new       *)
(* activity goes.                                                          *)
(*                                                                         *)
(* Reports: the history shown is that of the selected plan, and a report   *)
(* that is ready is announced once.  HistoryTrue says that the last        *)
(* history asked for is of the plan selected, and that a report a history  *)
(* lacks is among the jobs, or the answer that adds it is in; ToldOnce     *)
(* that what is polled or may still be has not been announced, which holds *)
(* while no tick of the timer meets the requests of the one before.        *)
(***************************************************************************)
EXTENDS Spa, FiniteSetTheorems, TLAPS

Routes == INSTANCE ClientRoutes

-----------------------------------------------------------------------------
(* Requests: in flight, answered, or gone. *)

IsRequest(c) == c = [id |-> c.id, op |-> c.op, arg |-> c.arg, st |-> c.st, ans |-> c.ans, here |-> c.here]

Renumbered(c, q) ==
  /\ IsRequest(c)
  /\ c.op = q.op /\ c.arg = q.arg /\ c.st = q.st /\ c.ans = q.ans /\ c.here = q.here
Requests == \A c \in net : IsRequest(c)

LEMMA SendAdds == ASSUME NEW calls, NEW asks, NEW c \in Routes!Send(calls, asks), c \notin calls
  PROVE /\ IsRequest(c) /\ c.st = "sent" /\ c.here = TRUE
        /\ \E i \in DOMAIN asks : c.op = asks[i][1] /\ c.arg = asks[i][2]
  BY DEF Routes!Send, Routes!Request, IsRequest

LEMMA WithoutKeeps == ASSUME Requests, NEW d, NEW c \in Routes!Without(d)
  PROVE \E q \in net \ {d} : Renumbered(c, q)
  BY DEF Requests, Routes!Without, IsRequest, Renumbered

LEMMA ResumeAsksAdds == ASSUME NEW c, c.here \in BOOLEAN, NEW asks, NEW v, Routes!ResumeAsks(c, asks, v), NEW d \in net', d \notin Routes!Without(c)
  PROVE /\ IsRequest(d) /\ d.st = "sent" /\ d.here = c.here
        /\ \E i \in DOMAIN asks : d.op = asks[i][1] /\ d.arg = asks[i][2]
  <1> DEFINE W == Routes!Without(c)
  <1>0. net' = W \cup {[r EXCEPT !.here = c.here] : r \in Routes!Send(W, asks) \ W}
    BY DEF Routes!ResumeAsks, Routes!Answered, Routes!AnsweredWith
  <1> HIDE DEF W
  <1>a. d \notin W BY DEF W
  <1>1. PICK r \in Routes!Send(W, asks) \ W : d = [r EXCEPT !.here = c.here]
    BY <1>0, <1>a
  <1>2. /\ IsRequest(r) /\ r.st = "sent"
        /\ \E i \in DOMAIN asks : r.op = asks[i][1] /\ r.arg = asks[i][2]
    BY <1>1, SendAdds
  <1>3. d.here = c.here /\ d.op = r.op /\ d.arg = r.arg /\ d.st = r.st /\ IsRequest(d)
    BY <1>1, <1>2 DEF IsRequest
  <1>4. QED BY <1>2, <1>3

LEMMA AnswerKeeps == ASSUME Requests, NEW c \in net, NEW d, NEW st, NEW a, Routes!AnswerIs(c, d, st, a), NEW x \in net', x \notin net
  PROVE IsRequest(x) /\ x.op = c.op /\ x.arg = c.arg /\ x.here = c.here /\ x.st = st /\ x.ans = a
  BY DEF Requests, IsRequest, Routes!AnswerIs

(* What becomes of a request in a step: the same, answered or renumbered, or left behind. *)
Becomes(q, x) == IsRequest(x) /\ x.op = q.op /\ x.arg = q.arg /\ (x.here = q.here \/ x.here = FALSE)
LEMMA Unchanged == ASSUME Requests, NEW q \in net PROVE Becomes(q, q)
  BY DEF Requests, Becomes
LEMMA WithoutBecomes == ASSUME Requests, NEW d, NEW x \in Routes!Without(d)
  PROVE \E q \in net : Becomes(q, x)
  BY WithoutKeeps DEF Renumbered, Becomes
LEMMA AnswerBecomes == ASSUME Requests, NEW c \in net, NEW d, NEW st, NEW a, Routes!AnswerIs(c, d, st, a), NEW x \in net'
  PROVE \E q \in net : Becomes(q, x)
  BY AnswerKeeps, Unchanged DEF Becomes
LEMMA LeftBecomes == ASSUME Requests, NEW calls, calls = {[c EXCEPT !.here = FALSE] : c \in net}, NEW x \in calls
  PROVE \E q \in net : Becomes(q, x) /\ x.here = FALSE
  BY DEF Requests, IsRequest, Becomes

-----------------------------------------------------------------------------
(* Types, and the tables of roles. *)

AnyOrg == {None, 1, 2, 3}
Somewhere == Routes!Addresses \ {"*"}
RouteShell ==
  [name : {None} \cup {<<o>> : o \in AnyOrg}, search : BOOLEAN,
   index : {None} \cup {<<o>> : o \in AnyOrg}, indexing : BOOLEAN]
RouteView ==
  [at : Routes!Addresses, on : Routes!Addresses \cup {None}, hops : Nat,
   from : Somewhere \cup {None}, shows : AnyOrg,
   shell : RouteShell,
   busy : BOOLEAN, creating : BOOLEAN, saving : BOOLEAN]
RouteDb ==
  [page : {"routes"}, user : Routes!Roles \cup {None}, org : AnyOrg, tokens : BOOLEAN,
   orgs : SUBSET {1, 2, 3}, late : BOOLEAN, over : BOOLEAN]
RouteCall(c) ==
  /\ IsRequest(c) /\ c.here \in BOOLEAN
  /\ c.op = "login" => c.arg \in [role : Routes!Roles, from : Somewhere \cup {None}, accept : BOOLEAN]
  /\ c.op \in Routes!ShellCalls => c.arg \in AnyOrg
NoneApart == None \notin Routes!Roles \cup Routes!Addresses
RoutesShape == NoneApart /\ view \in RouteView /\ db \in RouteDb /\ \A c \in net : RouteCall(c)

LEMMA NoneIs == ASSUME RoutesShape PROVE None \notin Routes!Roles \cup Routes!Addresses
  BY DEF RoutesShape, NoneApart

LEMMA Somewheres ==
  /\ {"/login", "/dashboard", "/org-picker", "/profile", "/docs", "/platform-admin", "/admin"} \subseteq Somewhere
  /\ Somewhere \subseteq Routes!Addresses /\ Routes!Addresses \ {"*"} = Somewhere
  BY DEF Somewhere, Routes!Addresses, Routes!ShellPages, Routes!OrgPages, Routes!PublicPages

LEMMA Offers == ASSUME NEW role \in Routes!Roles \cup {None}, NEW org PROVE
  /\ Routes!NavItems(role) \subseteq Somewhere \ {"/invitations/accept"}
  /\ Routes!Chords(role, org) \subseteq Somewhere \ {"/invitations/accept"}
  /\ Routes!Palette(role, org) \subseteq Somewhere \ {"/invitations/accept"}
  /\ Routes!Home(role) \in Somewhere \ {"/invitations/accept"}
  BY DEF Somewhere, Routes!NavItems, Routes!Chords, Routes!Palette, Routes!Home, Routes!Addresses, Routes!ShellPages, Routes!OrgPages, Routes!PublicPages, Routes!StaticPages, Routes!KnownPages

LEMMA Ranks ==
  /\ Routes!Rank("super_admin") = 100 /\ Routes!Rank("platform_support") = 80
  /\ Routes!Rank("advisor") = 60 /\ Routes!Rank("org_admin") = 60
  /\ Routes!Rank("planner") = 40 /\ Routes!Rank("contributor") = 20 /\ Routes!Rank("viewer") = 10
  BY DEF Routes!Rank

LEMMA Minimums ==
  /\ \A p \in {"/dashboard", "/plans", "/reports"} : Routes!Minimum(p) = "viewer"
  /\ Routes!Minimum("/admin") = "org_admin"
  /\ Routes!Minimum("/platform-admin") = "platform_support"
  /\ \A p \in {"/profile", "/login", "/invitations/accept", "/docs", "/org-picker", "*"} : Routes!Minimum(p) = None
  BY DEF Routes!Minimum, Routes!OrgPages


LEMMA Guarded == ASSUME NoneApart, NEW role \in Routes!Roles, NEW org, ~Routes!Orgless(role, org), NEW p PROVE
  /\ p \in {"/profile", "/org-picker"} => Routes!Target(p, role, org) = p
  /\ p \in Routes!OrgPages => Routes!Target(p, role, org) = IF role \in Routes!PlatformRoles THEN "/platform-admin" ELSE p
  /\ p = "/admin" => Routes!Target(p, role, org) =
       IF role \in Routes!PlatformRoles THEN "/platform-admin"
       ELSE IF role \in {"advisor", "org_admin"} THEN p ELSE "/dashboard"
  /\ p = "/platform-admin" => Routes!Target(p, role, org) = IF role \in Routes!PlatformRoles THEN p ELSE "/dashboard"
  <1>0. role # None /\ None \notin {"viewer", "org_admin", "platform_support"} BY DEF NoneApart, Routes!Roles
  <1>1. CASE p \in {"/profile", "/org-picker"} BY <1>0, <1>1, Minimums DEF Routes!Target, Routes!PublicPages, Routes!OrgPages
  <1>2. CASE p \in Routes!OrgPages
    <2>1. Routes!Minimum(p) = "viewer" /\ p \notin Routes!PublicPages /\ p # "*"
       BY <1>2, Minimums DEF Routes!OrgPages, Routes!PublicPages
    <2>2. role \notin Routes!PlatformRoles => ~(Routes!Rank(role) < 10) BY Ranks DEF Routes!Roles, Routes!PlatformRoles
    <2>3. QED BY <1>0, <1>2, <2>1, <2>2, Ranks DEF Routes!Target, Routes!PlatformRoles, Routes!OrgPages
  <1>3. CASE p = "/admin"
    <2>1. role \notin Routes!PlatformRoles => (Routes!Rank(role) < 60 <=> role \notin {"advisor", "org_admin"})
       BY Ranks DEF Routes!Roles, Routes!PlatformRoles
    <2>3. QED BY <1>0, <1>3, <2>1, Ranks, Minimums DEF Routes!Target, Routes!PlatformRoles, Routes!OrgPages, Routes!PublicPages
  <1>4. CASE p = "/platform-admin"
    <2>1. Routes!Rank(role) < 80 <=> role \notin Routes!PlatformRoles
       BY Ranks DEF Routes!Roles, Routes!PlatformRoles
    <2>3. QED BY <1>0, <1>4, <2>1, Ranks, Minimums DEF Routes!Target, Routes!PlatformRoles, Routes!OrgPages, Routes!PublicPages
  <1>5. QED BY <1>1, <1>2, <1>3, <1>4 DEF Routes!OrgPages

LEMMA TargetAgain == ASSUME NoneApart, NEW p \in Routes!Addresses, NEW role \in Routes!Roles \cup {None}, NEW org PROVE
  /\ Routes!Target(p, role, org) \in Somewhere
  /\ p = "*" => Routes!Target(p, role, org) = "/dashboard"
  /\ p # "*" => Routes!Target(Routes!Target(p, role, org), role, org) = Routes!Target(p, role, org)
  /\ p # "/invitations/accept" => Routes!Target(p, role, org) # "/invitations/accept"
  <1>1. CASE p \in Routes!PublicPages \/ p = "*"
    BY <1>1 DEF Routes!Target, Somewhere, Routes!Addresses, Routes!PublicPages, Routes!ShellPages, Routes!OrgPages
  <1>3. CASE p \notin Routes!PublicPages /\ p # "*" /\ (role = None \/ Routes!Orgless(role, org))
    BY <1>3 DEF Routes!Target, Routes!PublicPages, Somewhere, Routes!Addresses
  <1>4. CASE p \notin Routes!PublicPages /\ p # "*" /\ role # None /\ ~Routes!Orgless(role, org)
    <2> HIDE DEF Routes!Target
    <2>1. p \in Routes!OrgPages \cup {"/profile", "/org-picker", "/admin", "/platform-admin"} 
       BY <1>4 DEF Routes!Addresses, Routes!ShellPages
    <2>3. QED BY <1>4, <2>1, Guarded DEF Somewhere, Routes!Addresses, Routes!PublicPages, Routes!ShellPages, Routes!OrgPages
  <1>5. QED BY <1>1, <1>3, <1>4

\* On a page of the shell there is a user who may call what the page calls.
LEMMA AtShellMeans == ASSUME RoutesShape, Routes!AtShell PROVE
    /\ view.on = view.at
    /\ db.user \in Routes!Roles /\ ~Routes!Orgless(db.user, db.org)
    /\ \/ view.at = "/profile"
       \/ view.at \in Routes!OrgPages /\ Routes!Acting(db.user, db.org) \in Routes!OrgMembers
       \/ view.at = "/admin" /\ Routes!Acting(db.user, db.org) = "org_admin"
       \/ view.at = "/platform-admin" /\ Routes!Acting(db.user, db.org) \in Routes!PlatformRoles
  <1>1. NoneApart /\ view.on = view.at /\ view.at \in Routes!ShellPages /\ Routes!Target(view.at, db.user, db.org) = view.at
    BY DEF RoutesShape, Routes!AtShell, Routes!On, Routes!InShell, Routes!Aim
  <1>2. db.user \in Routes!Roles /\ ~Routes!Orgless(db.user, db.org)
    BY <1>1 DEF Routes!Target, RoutesShape, RouteDb, Routes!PublicPages, Routes!ShellPages, Routes!OrgPages
  <1>3. db.user = "advisor" => db.org # None BY <1>2 DEF Routes!Orgless
  <1>4. CASE view.at \in Routes!OrgPages
    <2>1. db.user \notin Routes!PlatformRoles BY <1>1, <1>2, <1>4, Guarded DEF Routes!OrgPages
    <2>2. QED BY <1>1, <1>2, <1>3, <1>4, <2>1 DEF Routes!Acting, Routes!Roles, Routes!PlatformRoles, Routes!OrgMembers
  <1>5. CASE view.at = "/admin"
    <2>1. db.user \in {"advisor", "org_admin"} BY <1>1, <1>2, <1>5, Guarded
    <2>2. QED BY <1>1, <1>2, <1>3, <1>5, <2>1 DEF Routes!Acting
  <1>6. CASE view.at = "/platform-admin"
    <2>1. db.user \in Routes!PlatformRoles BY <1>1, <1>2, <1>6, Guarded
    <2>2. QED BY <1>1, <1>2, <1>6, <2>1 DEF Routes!Acting, Routes!PlatformRoles
  <1>7. QED BY <1>1, <1>2, <1>4, <1>5, <1>6 DEF Routes!ShellPages

\* The router takes the calls of a page the guard lets a user stay on.
LEMMA ShellIsServed == ASSUME RoutesShape, Routes!AtShell
  PROVE Routes!Serves(view.on, Routes!Acting(db.user, db.org))
  <1>1. \A role : /\ \A p \in Routes!OrgPages : Routes!Serves(p, role) <=> role \in Routes!OrgMembers
                  /\ Routes!Serves("/admin", role) <=> role = "org_admin"
                  /\ Routes!Serves("/platform-admin", role) <=> role \in Routes!PlatformRoles
                  /\ Routes!Serves("/profile", role)
    BY DEF Routes!Serves, Routes!OrgPages
  <1>2. QED BY <1>1, AtShellMeans

\* The guard lets him go wherever the shell offers him to go.
LEMMA OffersOpen ==
  ASSUME RoutesShape, Routes!AtShell,
         NEW p \in Routes!NavItems(db.user) \cup Routes!Chords(db.user, db.org) \cup Routes!Palette(db.user, db.org)
  PROVE  Routes!Target(p, db.user, db.org) = p
  <1>1. NoneApart /\ db.user \in Routes!Roles /\ ~Routes!Orgless(db.user, db.org) BY AtShellMeans DEF RoutesShape
  <1>2. p = "/docs" \/ (IF db.user \in Routes!PlatformRoles THEN p = "/platform-admin"
                        ELSE p \in Routes!OrgPages \/ (p = "/admin" /\ Routes!Rank(db.user) >= 60))
    BY <1>1, Ranks DEF Routes!NavItems, Routes!Chords, Routes!Palette, Routes!CanSeeOrgPages, Routes!CanSeeAdminPage, Routes!StaticPages, Routes!KnownPages, Routes!OrgPages
  <1>3. CASE p = "/docs" BY <1>3 DEF Routes!Target, Routes!PublicPages
  <1>4. db.user \notin Routes!PlatformRoles /\ Routes!Rank(db.user) >= 60 => db.user \in {"advisor", "org_admin"}
    BY <1>1, Ranks DEF Routes!Roles, Routes!PlatformRoles
  <1>5. QED BY <1>1, <1>2, <1>3, <1>4, Guarded

\* The pages show no control whose route refuses his role.
LEMMA ControlsGranted ==
  ASSUME RoutesShape, Routes!AtShell, view.at \in {"/dashboard", "/plans"}
  PROVE  Routes!Capabilities(db.user, db.org) \subseteq Routes!Grants(Routes!Acting(db.user, db.org))
  <1>1. /\ Routes!Acting(db.user, db.org) \in Routes!OrgMembers
        /\ db.user \in Routes!Roles /\ ~Routes!Orgless(db.user, db.org) /\ db.user # None
    BY AtShellMeans, NoneIs DEF Routes!OrgPages
  <1>2. Routes!Capabilities(db.user, db.org) = {f[1] : f \in {g \in Routes!Flags : Routes!Rank(db.user) >= Routes!Rank(g[2])}}
    BY <1>1 DEF Routes!Capabilities
  <1>3. /\ Routes!Grants("org_admin") = {f[1] : f \in Routes!Flags}
        /\ Routes!Grants("planner") = {"createPlan", "createActivity", "editActivity", "deleteActivity", "createLink",
                                       "editMilestone", "generateReport", "runAI"}
        /\ Routes!Grants("contributor") = {"editActivity"}
    BY DEF Routes!Grants
  <1>4. CASE Routes!Acting(db.user, db.org) = "org_admin" BY <1>2, <1>3, <1>4
  <1>5. CASE Routes!Acting(db.user, db.org) = "planner"
    <2>1. db.user = "planner" BY <1>5 DEF Routes!Acting
    <2>2. QED BY <1>2, <1>3, <1>5, <2>1, Ranks DEF Routes!Flags
  <1>6. CASE Routes!Acting(db.user, db.org) = "contributor"
    <2>1. db.user = "contributor" BY <1>6 DEF Routes!Acting
    <2>2. QED BY <1>2, <1>3, <1>6, <2>1, Ranks DEF Routes!Flags
  <1>7. CASE Routes!Acting(db.user, db.org) = "viewer"
    <2>1. db.user = "viewer" BY <1>7 DEF Routes!Acting
    <2>2. {g \in Routes!Flags : Routes!Rank(db.user) >= Routes!Rank(g[2])} = {} BY <2>1, Ranks DEF Routes!Flags
    <2>3. QED BY <1>2, <2>2
  <1>8. QED BY <1>1, <1>4, <1>5, <1>6, <1>7 DEF Routes!OrgMembers

-----------------------------------------------------------------------------
(* What a step sends, and the types. *)

(* A request the step has sent. *)
Sent(x) ==
  /\ IsRequest(x) /\ x.here \in BOOLEAN
  /\ \/ x.op \in {"logout", "create"}
     \/ /\ x.op = "login" /\ x.arg \in [role : Routes!Roles, from : Somewhere \cup {None}, accept : BOOLEAN]
        /\ x.arg.accept => Routes!On("/invitations/accept") /\ view'.at = view.at
     \/ x.op \in Routes!ShellCalls /\ x.arg = db'.org /\ Routes!InShell(view'.on)
     \/ /\ x.op \in Routes!ShellCalls
        /\ \E q \in net : q.here /\ q.op \in Routes!ShellCalls /\ x.arg = q.arg
Stems(x) == (\E q \in net : Becomes(q, x)) \/ Sent(x)

LEMMA RoutesNet == ASSUME RoutesShape, Routes!Next PROVE \A x \in net' : Stems(x)
  <1>1. Requests BY DEF RoutesShape, RouteCall, Requests
  <1>2. SUFFICES ASSUME NEW x \in net' PROVE Stems(x) OBVIOUS
  <1>3. CASE net' = net BY <1>1, <1>3, Unchanged DEF Stems
  <1>4. ASSUME NEW c, net' = Routes!Without(c) PROVE Stems(x)
    BY <1>1, <1>4, WithoutBecomes DEF Stems
  <1>5. ASSUME NEW c \in net, NEW d, NEW st, NEW a, Routes!AnswerIs(c, d, st, a) PROVE Stems(x)
    BY <1>1, <1>5, AnswerBecomes DEF Stems
  <1>6. CASE net' = {[c EXCEPT !.here = FALSE] : c \in net}
    BY <1>1, <1>6, LeftBecomes DEF Stems
  <1>7. ASSUME NEW op, NEW arg, NEW calls, net' = Routes!Send(calls, << <<op, arg>> >>), x \notin calls
        PROVE IsRequest(x) /\ x.here = TRUE /\ x.op = op /\ x.arg = arg
    <2> DEFINE asks == << <<op, arg>> >>
    <2>1. PICK i \in DOMAIN asks : IsRequest(x) /\ x.here = TRUE /\ x.op = asks[i][1] /\ x.arg = asks[i][2]
      BY <1>7, SendAdds
    <2>2. i = 1 OBVIOUS
    <2>3. QED BY <2>1, <2>2
  <1>10. CASE Routes!Server
    <2>1. CASE Routes!ServeLogin BY <1>5, <2>1 DEF Routes!ServeLogin, Routes!Serve, Routes!Reject
    <2>2. CASE Routes!ServeCreate BY <1>5, <2>2 DEF Routes!ServeCreate, Routes!Serve, Routes!Reject, Routes!LoseAnswer
    <2>3. CASE Routes!ServeRest BY <1>5, <2>3 DEF Routes!ServeRest, Routes!Serve
    <2>4. CASE Routes!Fail BY <1>5, <2>4 DEF Routes!Fail, Routes!Refuse, Routes!LoseAnswer
    <2>5. CASE Routes!Gone BY <1>4, <2>5 DEF Routes!Gone, Routes!Resume, Routes!Answered, Routes!AnsweredWith
    <2>6. QED BY <1>10, <2>1, <2>2, <2>3, <2>4, <2>5 DEF Routes!Server
  <1>11. CASE Routes!Arrive
    <2>1. ASSUME x \in Routes!Kept(view.at) PROVE \E q \in net : Becomes(q, x)
      BY <1>1, <2>1 DEF Routes!Kept, Requests, IsRequest, Becomes
    <2>2. CASE x \in Routes!Kept(view.at) BY <2>1, <2>2 DEF Stems
    <2>3. CASE x \notin Routes!Kept(view.at)
      <3>1. net' = Routes!Send(Routes!Kept(view.at), << <<"name", db.org>> >>) /\ Routes!InShell(view.at) /\ db' = db
        BY <1>11, <2>3 DEF Routes!Arrive
      <3>2. IsRequest(x) /\ x.here = TRUE /\ x.op = "name" /\ x.arg = db.org BY <1>7, <2>3, <3>1
      <3>3. view'.on = view.at BY <1>11 DEF Routes!Arrive, Routes!Mounted, RoutesShape, RouteView
      <3>4. QED BY <3>1, <3>2, <3>3 DEF Stems, Sent, Routes!ShellCalls
    <2>4. QED BY <2>2, <2>3
  <1>12. CASE Routes!OpenSearch
    <2>1. CASE x \in net BY <1>1, <2>1, Unchanged DEF Stems
    <2>2. CASE x \notin net
      <3>1. net' = Routes!Send(net, << <<"plans", db.org>> >>) /\ db' = db /\ Routes!InShell(view.on) /\ view'.on = view.on
        BY <1>12, <2>2 DEF Routes!OpenSearch, Routes!Local, Routes!Ask, Routes!Asks, Routes!AtShell, RoutesShape, RouteView
      <3>2. IsRequest(x) /\ x.here = TRUE /\ x.op = "plans" /\ x.arg = db.org BY <1>7, <2>2, <3>1
      <3>3. QED BY <3>1, <3>2 DEF Stems, Sent, Routes!ShellCalls
    <2>3. QED BY <2>1, <2>2
  <1>13. CASE Routes!Indexed
    <2>1. CASE \E c \in net : net' = Routes!Without(c) BY <1>4, <2>1
    <2>2. CASE \A c \in net : net' # Routes!Without(c)
      <3>1. PICK c \in net : c.op = "plans" /\ c.here /\ Routes!ResumeAsk(c, "activities", c.arg, view)
        BY <1>13, <2>2 DEF Routes!Indexed, Routes!Waiting, Routes!Resume, Routes!Answered, Routes!AnsweredWith, Routes!ResumeAsk
      <3>2. Routes!ResumeAsks(c, << <<"activities", c.arg>> >>, view) BY <3>1 DEF Routes!ResumeAsk
      <3>3. CASE x \in Routes!Without(c) BY <1>1, <3>3, WithoutBecomes DEF Stems
      <3>4. CASE x \notin Routes!Without(c)
        <4>1. c.here \in BOOLEAN BY <3>1
        <4>2. IsRequest(x) /\ x.here = c.here /\ x.op = "activities" /\ x.arg = c.arg BY <3>2, <3>4, <4>1, ResumeAsksAdds
        <4>3. QED BY <3>1, <4>1, <4>2 DEF Stems, Sent, Routes!ShellCalls
      <3>5. QED BY <3>3, <3>4
    <2>3. QED BY <2>1, <2>2
  <1>14. CASE Routes!Named
    BY <1>4, <1>14 DEF Routes!Named, Routes!Waiting, Routes!Resume, Routes!Answered, Routes!AnsweredWith
  <1>15. CASE Routes!SignIn
    <2>1. CASE x \in net BY <1>1, <2>1, Unchanged DEF Stems
    <2>2. CASE x \notin net
      <3>1. PICK b \in BOOLEAN : b = (view.on # "/login") OBVIOUS
      <3>2. PICK role \in Routes!Roles : net' = Routes!Send(net, << <<"login", [role |-> role, from |-> view.from, accept |-> b]>> >>)
        BY <1>15, <3>1 DEF Routes!SignIn, Routes!Ask, Routes!Asks
      <3>3. IsRequest(x) /\ x.here = TRUE /\ x.op = "login" /\ x.arg = [role |-> role, from |-> view.from, accept |-> b]
        BY <1>7, <2>2, <3>2
      <3>4. view'.at = view.at BY <1>15 DEF Routes!SignIn, Routes!Ask, Routes!Asks, RoutesShape, RouteView
      <3>5. x.arg.accept = b BY <3>3
      <3>6. b => Routes!On("/invitations/accept") BY <1>15, <3>1 DEF Routes!SignIn, Routes!On
      <3>7. x.arg \in [role : Routes!Roles, from : Somewhere \cup {None}, accept : BOOLEAN]
        BY <3>3 DEF RoutesShape, RouteView
      <3>8. QED BY <3>3, <3>4, <3>5, <3>6, <3>7 DEF Stems, Sent
    <2>3. QED BY <2>1, <2>2
  <1>16. CASE Routes!SignedIn
    BY <1>4, <1>16 DEF Routes!SignedIn, Routes!Waiting, Routes!Resume, Routes!Answered, Routes!AnsweredWith
  <1>17. CASE Routes!LogOut
    <2>1. CASE x \in net BY <1>1, <2>1, Unchanged DEF Stems
    <2>2. CASE \E c \in net : net' = Routes!Without(c) BY <1>4, <2>2
    <2>3. CASE x \notin net /\ \A c \in net : net' # Routes!Without(c)
      <3>1. net' = Routes!Send(net, << <<"logout", None>> >>)
        BY <1>17, <2>3 DEF Routes!LogOut, Routes!Ask, Routes!Asks, Routes!Waiting, Routes!AnsweredWith
      <3>2. IsRequest(x) /\ x.here = TRUE /\ x.op = "logout" BY <1>7, <2>3, <3>1
      <3>3. QED BY <3>2 DEF Stems, Sent
    <2>4. QED BY <2>1, <2>2, <2>3
  <1>18. CASE Routes!CreateOrg
    <2>1. CASE x \in net BY <1>1, <2>1, Unchanged DEF Stems
    <2>2. CASE x \notin net
      <3>1. net' = Routes!Send(net, << <<"create", None>> >>)
        BY <1>18 DEF Routes!CreateOrg, Routes!Ask, Routes!Asks
      <3>2. IsRequest(x) /\ x.here = TRUE /\ x.op = "create" BY <1>7, <2>2, <3>1
      <3>3. QED BY <3>2 DEF Stems, Sent
    <2>3. QED BY <2>1, <2>2
  <1>19. CASE Routes!Created
    <2>1. PICK c \in net : net' = Routes!Without(c) \/ (net' = Routes!Enter(Routes!Without(c), view, 3) /\ view'.on = view.on /\ db'.org = 3)
      BY <1>19 DEF Routes!Created, Routes!Waiting, Routes!Resume, Routes!Answered, Routes!AnsweredWith, Routes!NewOrg, Routes!Entered, Routes!Goto, RoutesShape, RouteView, RouteDb
    <2>2. CASE x \in Routes!Without(c) BY <1>1, <2>2, WithoutBecomes DEF Stems
    <2>3. CASE x \notin Routes!Without(c)
      <3>1. net' = Routes!Send(Routes!Without(c), << <<"name", 3>> >>) /\ Routes!InShell(view.on) /\ view'.on = view.on /\ db'.org = 3
        BY <2>1, <2>3 DEF Routes!Enter
      <3>2. IsRequest(x) /\ x.here = TRUE /\ x.op = "name" /\ x.arg = 3 BY <1>7, <2>3, <3>1
      <3>3. QED BY <3>1, <3>2 DEF Stems, Sent, Routes!ShellCalls
    <2>4. QED BY <2>2, <2>3
  <1>20. CASE Routes!Redirect \/ Routes!CloseSearch \/ Routes!EnterOrg \/ Routes!OpenDialog \/ Routes!CloseDialog \/ Routes!ExitOrg
    BY <1>3, <1>20 DEF Routes!Redirect, Routes!CloseSearch, Routes!Local, Routes!EnterOrg, Routes!OpenDialog, Routes!CloseDialog, Routes!ExitOrg
  <1>21. CASE Routes!Sidebar \/ Routes!Shortcut \/ Routes!Select \/ Routes!Continue \/ Routes!ToDocs \/ Routes!FromDocs
    BY <1>3, <1>21 DEF Routes!Sidebar, Routes!Shortcut, Routes!Select, Routes!Continue, Routes!ToDocs, Routes!FromDocs, Routes!Follow, Routes!Local
  <1>22. CASE Routes!Visit \/ Routes!Expired
    BY <1>6, <1>22 DEF Routes!Visit, Routes!Expired
  <1>30. QED BY <1>10, <1>11, <1>12, <1>13, <1>14, <1>15, <1>16, <1>17, <1>18, <1>19, <1>20, <1>21, <1>22
         DEF Routes!Next, Routes!Ways, Routes!Identity, Routes!Advising

LEMMA RoutesShapeStep == ASSUME RoutesShape, Routes!Next PROVE RoutesShape'
  <1>1. view.at \in Routes!Addresses /\ view.on \in Routes!Addresses \cup {None} /\ view.hops \in Nat
        /\ db.user \in Routes!Roles \cup {None} /\ db.org \in AnyOrg /\ Routes!Aim \in Somewhere
    BY TargetAgain DEF RoutesShape, RouteView, RouteShell, RouteDb, Routes!Aim
  <1>2. ASSUME NEW v \in RouteView, NEW p \in Routes!Addresses PROVE Routes!Goto(v, p) \in RouteView
    BY DEF Routes!Goto, RouteView, RouteShell
  <1>3. ASSUME NEW p \in Routes!Addresses PROVE Routes!Document(p) \in RouteView
    BY DEF Routes!Document, Routes!Shell0, RouteView, RouteShell, AnyOrg
  <1>4. ASSUME NEW p \in Routes!Addresses, NEW v \in RouteView, Routes!Follow(p, v) PROVE view' \in RouteView /\ db' = db
    BY <1>2, <1>4 DEF Routes!Follow, Routes!Local
  <1>5. view \in RouteView /\ db \in RouteDb BY DEF RoutesShape
  <1>6. ASSUME NEW v, v.arg \in AnyOrg PROVE [view EXCEPT !.shell.index = <<v.arg>>, !.shell.indexing = FALSE] \in RouteView
    BY <1>5, <1>6 DEF RouteView, RouteShell
  <1> DEFINE Answer(c) ==
        IF c.st # "ok" THEN Routes!Resume(c, [view EXCEPT !.busy = FALSE])
        ELSE Routes!AnsweredWith(c, Routes!Without(c),
               IF c.arg.accept THEN [view EXCEPT !.busy = FALSE] ELSE Routes!Goto([view EXCEPT !.busy = FALSE], Routes!Arrival(c)),
               IF db.tokens THEN [db EXCEPT !.over = TRUE] ELSE [db EXCEPT !.user = c.arg.role, !.tokens = TRUE])
  <1>10. view' \in RouteView /\ db' \in RouteDb
    <2>1. CASE Routes!Server
      <3>1. CASE Routes!ServeCreate
        BY <1>5, <3>1 DEF Routes!ServeCreate, Routes!Serve, Routes!AnswerIs, Routes!LoseAnswer, Routes!Reject, Routes!NewOrg, RouteDb
      <3>2. CASE Routes!ServeLogin \/ Routes!ServeRest \/ Routes!Fail
        BY <1>5, <3>2 DEF Routes!ServeLogin, Routes!ServeRest, Routes!Fail, Routes!Serve, Routes!AnswerIs, Routes!LoseAnswer, Routes!Reject, Routes!Refuse
      <3>3. CASE Routes!Gone
        BY <1>5, <3>3 DEF Routes!Gone, Routes!Resume, Routes!Answered, Routes!AnsweredWith
      <3>4. QED BY <2>1, <3>1, <3>2, <3>3 DEF Routes!Server
    <2>2. CASE Routes!Redirect
      <3>1. Routes!Aim = "/login" => view.at \in Somewhere
        BY <1>1, NoneIs, TargetAgain, Somewheres DEF Routes!Aim, NoneApart
      <3>2. (IF Routes!Aim = "/login" THEN view.at ELSE None) \in Somewhere \cup {None} BY <3>1
      <3>3. ASSUME NEW p \in Routes!Addresses, NEW f \in Somewhere \cup {None}, NEW s \in RouteShell
            PROVE [view EXCEPT !.at = p, !.hops = view.hops + 1, !.on = None, !.from = f, !.shell = s] \in RouteView
        <4>1. view.hops + 1 \in Nat BY <1>1
        <4>2. QED BY <1>5, <4>1 DEF RouteView
      <3>4. view.shell \in RouteShell /\ Routes!Shell0 \in RouteShell
        BY <1>5 DEF RouteView, RouteShell, Routes!Shell0, AnyOrg
      <3>5. view' \in RouteView BY <1>1, <2>2, <3>2, <3>3, <3>4, Somewheres DEF Routes!Redirect
      <3>6. QED BY <1>5, <2>2, <3>5 DEF Routes!Redirect
    <2>3. CASE Routes!Arrive
      BY <1>1, <1>5, <2>3 DEF Routes!Arrive, Routes!Mounted, Routes!Shell0, RouteView, RouteShell, AnyOrg
    <2>4. CASE Routes!Visit \/ Routes!Expired
      <3>1. "/login" \in Routes!Addresses BY Somewheres
      <3>2. [db EXCEPT !.org = None, !.tokens = FALSE] \in RouteDb BY <1>5 DEF RouteDb, AnyOrg
      <3>3. QED BY <1>3, <1>5, <2>4, <3>1, <3>2 DEF Routes!Visit, Routes!Expired
    <2>5. CASE Routes!Sidebar \/ Routes!Shortcut \/ Routes!Continue \/ Routes!ToDocs \/ Routes!FromDocs
      BY <1>1, <1>4, <1>5, <2>5, Offers, Somewheres DEF Routes!Sidebar, Routes!Shortcut, Routes!Continue, Routes!ToDocs, Routes!FromDocs
    <2>6. CASE Routes!OpenSearch \/ Routes!CloseSearch
      <3>1. /\ [view EXCEPT !.shell.search = TRUE] \in RouteView
            /\ [view EXCEPT !.shell.search = FALSE] \in RouteView
        BY <1>5 DEF RouteView, RouteShell
      <3>2. \A v \in RouteView : [v EXCEPT !.shell.indexing = TRUE] \in RouteView BY DEF RouteView, RouteShell
      <3>3. QED BY <1>5, <2>6, <3>1, <3>2 DEF Routes!OpenSearch, Routes!CloseSearch, Routes!Local, Routes!Ask, Routes!Asks
    <2>7. CASE Routes!Select
      <3>1. [view EXCEPT !.shell.search = FALSE] \in RouteView BY <1>5 DEF RouteView, RouteShell
      <3>2. Routes!PlanResults \subseteq Routes!Addresses BY DEF Routes!PlanResults, Routes!Addresses, Routes!ShellPages, Routes!OrgPages
      <3>3. PICK p \in Routes!Palette(db.user, db.org) \cup Routes!PlanResults : Routes!Follow(p, [view EXCEPT !.shell.search = FALSE])
        BY <2>7 DEF Routes!Select
      <3>4. p \in Routes!Addresses BY <1>1, <3>2, <3>3, Offers, Somewheres
      <3>5. QED BY <1>4, <1>5, <3>1, <3>3, <3>4
    <2>8. CASE Routes!Indexed
      <3>1. [view EXCEPT !.shell.indexing = FALSE] \in RouteView BY <1>5 DEF RouteView, RouteShell
      <3>2. \A c \in Routes!Waiting("activities") : c.arg \in AnyOrg BY DEF RoutesShape, RouteCall, Routes!Waiting, Routes!ShellCalls
      <3>3. \A c \in Routes!Waiting("activities") : [view EXCEPT !.shell.indexing = FALSE, !.shell.index = <<c.arg>>] \in RouteView
        BY <1>5, <3>2 DEF RouteView, RouteShell
      <3>4. QED BY <1>5, <2>8, <3>1, <3>3 DEF Routes!Indexed, Routes!Resume, Routes!ResumeAsk, Routes!ResumeAsks, Routes!Answered, Routes!AnsweredWith
    <2>9. CASE Routes!Named
      <3>1. [view EXCEPT !.shell.name = None] \in RouteView BY <1>5 DEF RouteView, RouteShell
      <3>2. \A c \in Routes!Waiting("name") : c.arg \in AnyOrg BY DEF RoutesShape, RouteCall, Routes!Waiting, Routes!ShellCalls
      <3>3. \A c \in Routes!Waiting("name") : [view EXCEPT !.shell.name = <<c.arg>>] \in RouteView
        BY <1>5, <3>2 DEF RouteView, RouteShell
      <3>4. QED BY <1>5, <2>9, <3>1, <3>3 DEF Routes!Named, Routes!Resume, Routes!Answered, Routes!AnsweredWith
    <2>10. CASE Routes!SignIn \/ Routes!CreateOrg \/ Routes!OpenDialog \/ Routes!CloseDialog
      BY <1>5, <2>10 DEF Routes!SignIn, Routes!CreateOrg, Routes!OpenDialog, Routes!CloseDialog, Routes!Local, Routes!Ask, Routes!Asks, RouteView, RouteShell
    <2>11. CASE Routes!SignedIn
      <3>1. PICK c \in Routes!Waiting("login") : Answer(c)
        BY <2>11 DEF Routes!SignedIn, Answer
      <3>2. c.arg.role \in Routes!Roles /\ Routes!Arrival(c) \in Routes!Addresses
        BY Offers, Somewheres DEF RoutesShape, RouteCall, Routes!Waiting, Routes!Arrival
      <3>3. [view EXCEPT !.busy = FALSE] \in RouteView BY <1>5 DEF RouteView, RouteShell
      <3>4. [db EXCEPT !.over = TRUE] \in RouteDb /\ [db EXCEPT !.user = c.arg.role, !.tokens = TRUE] \in RouteDb
        BY <1>5, <3>2 DEF RouteDb
      <3>5. Routes!Goto([view EXCEPT !.busy = FALSE], Routes!Arrival(c)) \in RouteView BY <1>2, <3>2, <3>3
      <3>6. QED BY <1>5, <3>1, <3>3, <3>4, <3>5 DEF Answer, Routes!Resume, Routes!Answered, Routes!AnsweredWith
    <2>12. CASE Routes!LogOut
      <3>1. [view EXCEPT !.busy = FALSE] \in RouteView /\ [view EXCEPT !.busy = TRUE] \in RouteView BY <1>5 DEF RouteView, RouteShell
      <3>2. Routes!SignedOut(db) \in RouteDb BY <1>5 DEF RouteDb, Routes!SignedOut, AnyOrg
      <3>3. QED BY <1>2, <1>5, <2>12, <3>1, <3>2, Somewheres DEF Routes!LogOut, Routes!Ask, Routes!Asks, Routes!AnsweredWith
    <2>13. CASE Routes!EnterOrg \/ Routes!ExitOrg
      <3>1. \A o \in AnyOrg : [db EXCEPT !.org = o] \in RouteDb BY <1>5 DEF RouteDb
      <3>2. db.orgs \subseteq AnyOrg /\ None \in AnyOrg BY <1>5 DEF RouteDb, AnyOrg
      <3>3. QED BY <1>2, <1>5, <2>13, <3>1, <3>2, Somewheres DEF Routes!EnterOrg, Routes!ExitOrg, Routes!Entered
    <2>14. CASE Routes!Created
      <3>1. \A b \in BOOLEAN : [view EXCEPT !.saving = FALSE, !.creating = b] \in RouteView BY <1>5 DEF RouteView, RouteShell
      <3>2. [view EXCEPT !.saving = FALSE] \in RouteView /\ [view EXCEPT !.creating = FALSE, !.saving = FALSE] \in RouteView BY <1>5 DEF RouteView, RouteShell
      <3>3. \A b \in BOOLEAN : [Routes!Entered(Routes!NewOrg) EXCEPT !.late = @ \/ b] \in RouteDb
        BY <1>5 DEF Routes!Entered, Routes!NewOrg, RouteDb, AnyOrg
      <3>4. QED BY <1>2, <1>5, <2>14, <3>2, <3>3, Somewheres DEF Routes!Created, Routes!Resume, Routes!Answered, Routes!AnsweredWith
    <2>15. QED BY <2>1, <2>2, <2>3, <2>4, <2>5, <2>6, <2>7, <2>8, <2>9, <2>10, <2>11, <2>12, <2>13, <2>14
           DEF Routes!Next, Routes!Ways, Routes!Identity, Routes!Advising
  <1>11. \A x \in net' : RouteCall(x)
    <2>1. SUFFICES ASSUME NEW x \in net' PROVE RouteCall(x) OBVIOUS
    <2>2. CASE \E q \in net : Becomes(q, x) BY <2>2 DEF Becomes, RoutesShape, RouteCall
    <2>3. CASE Sent(x)
      BY <1>10, <2>3 DEF Sent, RoutesShape, RouteCall, RouteDb, Routes!ShellCalls
    <2>4. QED BY <2>2, <2>3, RoutesNet DEF Stems
  <1>12. QED BY <1>10, <1>11 DEF RoutesShape

-----------------------------------------------------------------------------
(* Redirects. *)

Pending == ~db.tokens /\ \E c \in net : c.here /\ c.op = "login" /\ c.arg.accept
Hops ==
  /\ view.hops <= 2
  /\ view.at = "*" => view.hops = 0 /\ ~Pending
  /\ view.at = "/invitations/accept" => view.hops = 0
  /\ view.hops = 1 /\ Pending => Routes!Aim = view.at
  /\ view.hops = 2 => Routes!Aim = view.at /\ ~Pending
Lands == view'.hops = 0 /\ view'.at \in Somewhere
Stays == /\ view'.at = view.at /\ view'.hops = view.hops
         /\ db'.user = db.user /\ db'.org = db.org /\ db'.tokens = db.tokens
Admitted == view'.at = view.at /\ view'.hops = view.hops /\ Pending /\ db'.tokens

LEMMA Follows == ASSUME NEW p \in Somewhere, NEW v \in RouteView, Routes!Follow(p, v) PROVE Lands
  BY DEF Routes!Follow, Routes!Local, Routes!Goto, RouteView, Lands

LEMMA RoutesKinds == ASSUME RoutesShape, Routes!Next
  PROVE Lands \/ Stays \/ Routes!Redirect \/ Routes!Visit \/ Admitted
  <1>1. view \in RouteView /\ db \in RouteDb /\ \A c \in net : RouteCall(c) BY DEF RoutesShape
  <1>2. view.at \in Routes!Addresses /\ db.user \in Routes!Roles \cup {None} /\ "/login" \in Somewhere /\ "/dashboard" \in Somewhere /\ "/org-picker" \in Somewhere
    BY <1>1, Somewheres DEF RouteView, RouteDb
  <1>3. ASSUME NEW v \in RouteView, NEW p \in Somewhere, view' = Routes!Goto(v, p) PROVE Lands
    BY <1>3 DEF Routes!Goto, RouteView, Lands
  <1>4. ASSUME view' = view, db'.user = db.user, db'.org = db.org, db'.tokens = db.tokens PROVE Stays
    BY <1>4 DEF Stays
  <1>10. CASE Routes!Server
    BY <1>1, <1>4, <1>10 DEF Routes!Server, Routes!ServeLogin, Routes!ServeCreate, Routes!ServeRest, Routes!Fail, Routes!Gone, Routes!Serve, Routes!LoseAnswer, Routes!Reject, Routes!Refuse, Routes!AnswerIs, Routes!Resume, Routes!Answered, Routes!AnsweredWith, RouteDb
  <1>11. CASE Routes!Arrive
    BY <1>1, <1>11 DEF Routes!Arrive, Routes!Mounted, RouteView, Stays
  <1>12. CASE Routes!OpenSearch \/ Routes!CloseSearch \/ Routes!OpenDialog \/ Routes!CloseDialog \/ Routes!CreateOrg \/ Routes!SignIn
    BY <1>1, <1>12 DEF Routes!OpenSearch, Routes!CloseSearch, Routes!OpenDialog, Routes!CloseDialog, Routes!CreateOrg, Routes!SignIn, Routes!Local, Routes!Ask, Routes!Asks, RouteView, Stays
  <1>13. CASE Routes!Indexed \/ Routes!Named
    BY <1>1, <1>13 DEF Routes!Indexed, Routes!Named, Routes!Resume, Routes!ResumeAsk, Routes!ResumeAsks, Routes!Answered, Routes!AnsweredWith, RouteView, Stays
  <1>14. CASE Routes!Sidebar \/ Routes!Shortcut \/ Routes!Continue \/ Routes!ToDocs \/ Routes!FromDocs
    BY <1>1, <1>2, <1>14, Follows, Offers, Somewheres DEF Routes!Sidebar, Routes!Shortcut, Routes!Continue, Routes!ToDocs, Routes!FromDocs
  <1>15. CASE Routes!Select
    <2>1. [view EXCEPT !.shell.search = FALSE] \in RouteView BY <1>1 DEF RouteView, RouteShell
    <2>2. Routes!PlanResults \subseteq Somewhere BY DEF Routes!PlanResults, Somewhere, Routes!Addresses, Routes!ShellPages, Routes!OrgPages
    <2>3. PICK p \in Routes!Palette(db.user, db.org) \cup Routes!PlanResults : Routes!Follow(p, [view EXCEPT !.shell.search = FALSE])
      BY <1>15 DEF Routes!Select
    <2>4. p \in Somewhere BY <1>2, <2>2, <2>3, Offers, Somewheres
    <2>5. QED BY <2>1, <2>3, <2>4, Follows
  <1>16. CASE Routes!SignedIn
    <2>1. PICK c \in Routes!Waiting("login") :
            /\ c.here
            /\ view' = IF c.st # "ok" \/ c.arg.accept THEN [view EXCEPT !.busy = FALSE] ELSE Routes!Goto([view EXCEPT !.busy = FALSE], Routes!Arrival(c))
            /\ db' = IF c.st # "ok" THEN db ELSE IF db.tokens THEN [db EXCEPT !.over = TRUE] ELSE [db EXCEPT !.user = c.arg.role, !.tokens = TRUE]
      BY <1>16 DEF Routes!SignedIn, Routes!Resume, Routes!Answered, Routes!AnsweredWith
    <2>2. c \in net /\ c.op = "login" /\ Routes!Arrival(c) \in Somewhere
      BY <1>1, Offers, Somewheres DEF RouteCall, Routes!Waiting, Routes!Arrival
    <2>3. CASE c.st = "ok" /\ ~c.arg.accept
      <3>1. [view EXCEPT !.busy = FALSE] \in RouteView BY <1>1 DEF RouteView
      <3>2. QED BY <1>3, <2>1, <2>2, <2>3, <3>1
    <2>4. CASE c.st # "ok" \/ (db.tokens /\ c.arg.accept)
      BY <1>1, <2>1, <2>4 DEF Stays, RouteView, RouteDb
    <2>5. CASE c.st = "ok" /\ c.arg.accept /\ ~db.tokens
      BY <1>1, <2>1, <2>2, <2>5 DEF Admitted, Pending, RouteView, RouteDb
    <2>6. QED BY <2>3, <2>4, <2>5
  <1>17. CASE Routes!LogOut
    <2>1. [view EXCEPT !.busy = FALSE] \in RouteView BY <1>1 DEF RouteView
    <2>2. QED BY <1>1, <1>2, <1>3, <1>17, <2>1 DEF Routes!LogOut, Routes!Ask, Routes!Asks, Routes!AnsweredWith, RouteView, Stays
  <1>18. CASE Routes!Expired
    BY <1>2, <1>18 DEF Routes!Expired, Routes!Document, Lands
  <1>19. CASE Routes!EnterOrg \/ Routes!ExitOrg
    BY <1>1, <1>2, <1>3, <1>19 DEF Routes!EnterOrg, Routes!ExitOrg
  <1>20. CASE Routes!Created
    <2>1. [view EXCEPT !.creating = FALSE, !.saving = FALSE] \in RouteView BY <1>1 DEF RouteView
    <2>2. QED BY <1>1, <1>2, <1>3, <1>20, <2>1 DEF Routes!Created, Routes!Resume, Routes!Answered, Routes!AnsweredWith, RouteView, Stays
  <1>21. QED BY <1>10, <1>11, <1>12, <1>13, <1>14, <1>15, <1>16, <1>17, <1>18, <1>19, <1>20
         DEF Routes!Next, Routes!Ways, Routes!Identity, Routes!Advising

LEMMA HopsStep == ASSUME RoutesShape, RoutesShape', Hops, Routes!Next PROVE Hops'
  <1>1. view \in RouteView /\ db \in RouteDb /\ view' \in RouteView /\ db' \in RouteDb BY DEF RoutesShape
  <1>2. view.hops \in Nat /\ view'.hops \in Nat /\ view.at \in Routes!Addresses /\ db.user \in Routes!Roles \cup {None}
    BY <1>1 DEF RouteView, RouteDb
  <1>3. ASSUME Pending', db'.tokens = db.tokens PROVE Pending \/ (Routes!On("/invitations/accept") /\ view'.at = view.at)
    <2>1. PICK x \in net' : x.here /\ x.op = "login" /\ x.arg.accept BY <1>3 DEF Pending
    <2>2. ~db.tokens BY <1>3 DEF Pending
    <2>3. CASE \E q \in net : Becomes(q, x) BY <2>1, <2>2, <2>3 DEF Becomes, Pending
    <2>4. CASE Sent(x) BY <2>1, <2>4 DEF Sent, Routes!ShellCalls
    <2>5. QED BY <2>3, <2>4, RoutesNet DEF Stems
  <1>4. CASE Lands
    <2>1. view'.at # "*" BY <1>4 DEF Lands, Somewhere
    <2>2. QED BY <1>4, <2>1 DEF Lands, Hops
  <1>5. CASE Stays
    <2>1. Routes!Aim' = Routes!Aim BY <1>5 DEF Stays, Routes!Aim
    <2>2. Routes!On("/invitations/accept") => view.at = "/invitations/accept" BY DEF Routes!On
    <2>3. Pending' => Pending \/ view.at = "/invitations/accept" BY <1>3, <1>5, <2>2 DEF Stays
    <2>4. QED BY <1>2, <1>5, <2>1, <2>3 DEF Stays, Hops
  <1>6. CASE Routes!Redirect
    <2>1. view'.at = Routes!Aim /\ view'.hops = view.hops + 1 /\ db' = db /\ net' = net /\ Routes!Aim # view.at
      BY <1>1, <1>6 DEF Routes!Redirect, RouteView
    <2>2. Pending' = Pending BY <2>1 DEF Pending
    <2>3. Routes!Aim' = Routes!Target(Routes!Aim, db.user, db.org) BY <2>1 DEF Routes!Aim
    <2>4. Routes!Aim \in Somewhere /\ (view.at # "*" => Routes!Aim' = Routes!Aim) /\ (view.at # "/invitations/accept" => Routes!Aim # "/invitations/accept")
      BY <1>2, <2>3, NoneIs, TargetAgain DEF Routes!Aim, NoneApart
    <2>5. view.at # "/invitations/accept"
      BY <2>1 DEF Routes!Aim, Routes!Target, Routes!PublicPages
    <2>6. Routes!Aim # "*" BY <2>4 DEF Somewhere
    <2>7. QED BY <1>2, <2>1, <2>2, <2>4, <2>5, <2>6 DEF Hops
  <1>7. CASE Routes!Visit
    <2>1. view'.hops = 0 BY <1>7 DEF Routes!Visit, Routes!Document
    <2>2. \A x \in net' : x.here = FALSE
      BY <1>7, LeftBecomes DEF Routes!Visit, RoutesShape, RouteCall, Requests
    <2>3. ~Pending' BY <2>2 DEF Pending
    <2>4. QED BY <2>1, <2>3 DEF Hops
  <1>8. CASE Admitted
    <2>1. ~Pending' BY <1>8 DEF Pending, Admitted
    <2>2. QED BY <1>2, <1>8, <2>1 DEF Hops, Admitted
  <1>9. QED BY <1>4, <1>5, <1>6, <1>7, <1>8, RoutesKinds

-----------------------------------------------------------------------------
(* The organisation of an advisor. *)

ShellCallsHere == {c \in net : c.here /\ c.op \in Routes!ShellCalls}
OfOrg ==
  ~db.late /\ db.org # None =>
     /\ Routes!InShell(view.on) => view.shows = db.org
     /\ view.shell.name \in {None, <<db.org>>}
     /\ view.shell.index \in {None, <<db.org>>}
     /\ \A c \in ShellCallsHere : c.arg = db.org
Outside == ~Routes!InShell(view.on) /\ view.on # None => view.shell = Routes!Shell0 /\ ShellCallsHere = {}

SameShell ==
  /\ view'.on = view.on /\ view'.shows = view.shows
  /\ view'.shell.name = view.shell.name /\ view'.shell.index = view.shell.index
  /\ view'.shell = view.shell \/ Routes!InShell(view.on)
  /\ db'.late = FALSE => db.late = FALSE
  /\ db'.org = db.org \/ db'.org = None

LEMMA ShellKinds == ASSUME RoutesShape, Routes!Next
  PROVE SameShell \/ Routes!Redirect \/ Routes!Arrive \/ Routes!Visit \/ Routes!Expired \/ Routes!EnterOrg
        \/ Routes!Indexed \/ Routes!Named \/ Routes!Created
  <1>1. view \in RouteView /\ db \in RouteDb /\ \A c \in net : RouteCall(c) BY DEF RoutesShape
  <1>10. CASE Routes!Server
    BY <1>1, <1>10 DEF Routes!Server, Routes!ServeLogin, Routes!ServeCreate, Routes!ServeRest, Routes!Fail, Routes!Gone, Routes!Serve, Routes!LoseAnswer, Routes!Reject, Routes!Refuse, Routes!AnswerIs, Routes!Resume, Routes!Answered, Routes!AnsweredWith, RouteDb, SameShell
  <1>12. CASE Routes!OpenSearch \/ Routes!CloseSearch \/ Routes!Select
    <2> DEFINE Searching(b) == [view EXCEPT !.shell.search = b]
               Alike(v, w) == /\ v.on = w.on /\ v.shows = w.shows
                              /\ v.shell.name = w.shell.name /\ v.shell.index = w.shell.index
    <2>1. \A b \in BOOLEAN : Searching(b) \in RouteView /\ Alike(Searching(b), view)
      BY <1>1 DEF RouteView, RouteShell
    <2>2. \A v \in RouteView : Alike([v EXCEPT !.shell.indexing = TRUE], v)
      BY DEF RouteView, RouteShell
    <2>3. \A v \in RouteView : \A p : Alike(Routes!Goto(v, p), v)
      BY DEF Routes!Goto, RouteView
    <2>4. /\ Routes!InShell(view.on) /\ db' = db
          /\ \/ \E b \in BOOLEAN : view' = Searching(b) \/ view' = [Searching(b) EXCEPT !.shell.indexing = TRUE]
             \/ \E p : view' = Routes!Goto(Searching(FALSE), p)
      BY <1>12 DEF Routes!OpenSearch, Routes!CloseSearch, Routes!Select, Routes!AtShell, Routes!Follow, Routes!Local, Routes!Ask, Routes!Asks
    <2> HIDE DEF Searching
    <2>5. Alike(view', view)
      <3>1. CASE \E b \in BOOLEAN : view' = Searching(b) BY <2>1, <3>1
      <3>2. CASE \E b \in BOOLEAN : view' = [Searching(b) EXCEPT !.shell.indexing = TRUE]
        <4>1. PICK b \in BOOLEAN : view' = [Searching(b) EXCEPT !.shell.indexing = TRUE] BY <3>2
        <4>2. Alike([Searching(b) EXCEPT !.shell.indexing = TRUE], Searching(b)) BY <2>1, <2>2
        <4>3. QED BY <2>1, <4>1, <4>2
      <3>3. CASE \E p : view' = Routes!Goto(Searching(FALSE), p)
        <4>1. PICK p : view' = Routes!Goto(Searching(FALSE), p) BY <3>3
        <4>2. Alike(Routes!Goto(Searching(FALSE), p), Searching(FALSE)) BY <2>1, <2>3
        <4>3. QED BY <2>1, <4>1, <4>2
      <3>4. QED BY <2>4, <3>1, <3>2, <3>3
    <2>6. QED BY <2>4, <2>5 DEF SameShell
  <1>13. CASE Routes!OpenDialog \/ Routes!CloseDialog \/ Routes!CreateOrg \/ Routes!SignIn
    BY <1>1, <1>13 DEF Routes!OpenDialog, Routes!CloseDialog, Routes!CreateOrg, Routes!SignIn, Routes!Local, Routes!Ask, Routes!Asks, RouteView, SameShell
  <1>14. CASE Routes!Sidebar \/ Routes!Shortcut \/ Routes!Continue \/ Routes!ToDocs \/ Routes!FromDocs
    BY <1>1, <1>14 DEF Routes!Sidebar, Routes!Shortcut, Routes!Continue, Routes!ToDocs, Routes!FromDocs, Routes!Follow, Routes!Goto, Routes!Local, RouteView, SameShell
  <1>16. CASE Routes!SignedIn
    <2>1. PICK c \in Routes!Waiting("login") :
            /\ view' = IF c.st # "ok" \/ c.arg.accept THEN [view EXCEPT !.busy = FALSE] ELSE Routes!Goto([view EXCEPT !.busy = FALSE], Routes!Arrival(c))
            /\ db' = IF c.st # "ok" THEN db ELSE IF db.tokens THEN [db EXCEPT !.over = TRUE] ELSE [db EXCEPT !.user = c.arg.role, !.tokens = TRUE]
      BY <1>16 DEF Routes!SignedIn, Routes!Resume, Routes!Answered, Routes!AnsweredWith
    <2>2. QED BY <1>1, <2>1 DEF Routes!Goto, RouteView, RouteDb, SameShell
  <1>17. CASE Routes!LogOut
    BY <1>1, <1>17 DEF Routes!LogOut, Routes!SignedOut, Routes!Goto, Routes!Ask, Routes!Asks, Routes!AnsweredWith, RouteView, RouteDb, SameShell
  <1>19. CASE Routes!ExitOrg
    BY <1>1, <1>19 DEF Routes!ExitOrg, Routes!Goto, RouteView, RouteDb, SameShell
  <1>21. QED BY <1>10, <1>12, <1>13, <1>14, <1>16, <1>17, <1>19
         DEF Routes!Next, Routes!Ways, Routes!Identity, Routes!Advising

LEMMA OrgStep == ASSUME RoutesShape, RoutesShape', OfOrg, Outside, Routes!Next PROVE OfOrg' /\ Outside'
  <1>1. view \in RouteView /\ db \in RouteDb /\ (\A c \in net : RouteCall(c)) /\ view' \in RouteView /\ db' \in RouteDb /\ Requests
    BY DEF RoutesShape, RouteCall, Requests
  <1>2. db.late \in BOOLEAN /\ db'.late \in BOOLEAN BY <1>1 DEF RouteDb
  <1>3. ASSUME NEW x \in ShellCallsHere' PROVE \/ x.arg = db'.org /\ Routes!InShell(view'.on)
                                              \/ \E q \in ShellCallsHere : q.arg = x.arg
    <2>1. x \in net' /\ x.here /\ x.op \in Routes!ShellCalls BY <1>3 DEF ShellCallsHere
    <2>2. CASE \E q \in net : Becomes(q, x)
      <3>1. PICK q \in net : Becomes(q, x) BY <2>2
      <3>2. q.here /\ q.op \in Routes!ShellCalls /\ q.arg = x.arg BY <1>1, <2>1, <3>1 DEF Becomes, RouteCall
      <3>3. q \in ShellCallsHere BY <3>2 DEF ShellCallsHere
      <3>4. QED BY <3>2, <3>3
    <2>3. CASE Sent(x) BY <2>1, <2>3 DEF Sent, Routes!ShellCalls, ShellCallsHere
    <2>4. QED BY <2>1, <2>2, <2>3, RoutesNet DEF Stems
  <1>4. CASE SameShell
    <2>1. OfOrg'
      <3>1. SUFFICES ASSUME ~db'.late, db'.org # None PROVE
               /\ Routes!InShell(view'.on) => view'.shows = db'.org
               /\ view'.shell.name \in {None, <<db'.org>>}
               /\ view'.shell.index \in {None, <<db'.org>>}
               /\ \A c \in ShellCallsHere' : c.arg = db'.org
        BY DEF OfOrg
      <3>2. ~db.late /\ db.org # None /\ db'.org = db.org BY <1>2, <1>4, <3>1 DEF SameShell
      <3>3. QED BY <1>3, <1>4, <3>2 DEF OfOrg, SameShell
    <2>2. Outside' BY <1>3, <1>4 DEF Outside, SameShell
    <2>3. QED BY <2>1, <2>2
  <1>5. CASE Routes!Redirect
    <2>1. net' = net /\ db' = db /\ view'.on = None /\ view'.shell \in {view.shell, Routes!Shell0}
      BY <1>1, <1>5 DEF Routes!Redirect, RouteView
    <2>2. ~Routes!InShell(None) BY NoneIs DEF Routes!InShell, Routes!Addresses
    <2>3. ShellCallsHere' = ShellCallsHere BY <2>1 DEF ShellCallsHere
    <2>4. QED BY <2>1, <2>2, <2>3 DEF OfOrg, Outside, Routes!Shell0
  <1>6. CASE Routes!Arrive
    <2>1. db' = db /\ view'.on = view.at /\ view'.shows = (IF Routes!InShell(view.at) THEN db.org ELSE None)
          /\ view'.shell = IF Routes!InShell(view.at) THEN view.shell ELSE Routes!Shell0
      BY <1>1, <1>6 DEF Routes!Arrive, Routes!Mounted, RouteView
    <2>2. CASE Routes!InShell(view.at)
      BY <1>3, <2>1, <2>2 DEF OfOrg, Outside
    <2>3. CASE ~Routes!InShell(view.at)
      <3>1. net' = Routes!Kept(view.at) BY <1>6, <2>3 DEF Routes!Arrive
      <3>2. \A x \in net' : x.here => x.op \notin Routes!ShellCalls
        BY <1>1, <2>3, <3>1 DEF Routes!Kept, Requests, IsRequest
      <3>3. ShellCallsHere' = {} BY <3>2 DEF ShellCallsHere
      <3>4. QED BY <2>1, <2>3, <3>3 DEF OfOrg, Outside, Routes!Shell0
    <2>4. QED BY <2>2, <2>3
  <1>7. CASE Routes!Visit \/ Routes!Expired
    <2>1. view'.on = None /\ view'.shell = Routes!Shell0 BY <1>7 DEF Routes!Visit, Routes!Expired, Routes!Document
    <2>2. \A x \in net' : x.here = FALSE
      BY <1>1, <1>7, LeftBecomes DEF Routes!Visit, Routes!Expired
    <2>3. ShellCallsHere' = {} BY <2>2 DEF ShellCallsHere
    <2>4. ~Routes!InShell(None) BY NoneIs DEF Routes!InShell, Routes!Addresses
    <2>5. QED BY <2>1, <2>3, <2>4 DEF OfOrg, Outside, Routes!Shell0
  <1>8. ~Routes!InShell("/org-picker") /\ "/org-picker" # None
    BY NoneIs DEF Routes!InShell, Routes!ShellPages, Routes!OrgPages, Routes!Addresses
  <1>9. CASE Routes!EnterOrg
    <2>1. net' = net /\ view.on = "/org-picker" /\ view'.on = view.on /\ view'.shell = view.shell
      BY <1>1, <1>9 DEF Routes!EnterOrg, Routes!On, Routes!Goto, RouteView
    <2>2. ShellCallsHere' = {} /\ view.shell = Routes!Shell0 BY <1>8, <2>1 DEF ShellCallsHere, Outside
    <2>3. QED BY <1>8, <2>1, <2>2 DEF OfOrg, Outside, Routes!Shell0
  <1>10. CASE Routes!Created
    <2>1. PICK c \in net : /\ net' \in {Routes!Without(c), Routes!Enter(Routes!Without(c), view, Routes!NewOrg)}
                           /\ view'.on = view.on /\ view'.shell = view.shell /\ view'.shows = view.shows
                           /\ \/ db' = db
                              \/ db' = [Routes!Entered(Routes!NewOrg) EXCEPT !.late = @ \/ view.on # "/org-picker"]
      BY <1>1, <1>10 DEF Routes!Created, Routes!Waiting, Routes!Resume, Routes!Answered, Routes!AnsweredWith, Routes!Goto, RouteView
    <2>2. CASE db' = db
      BY <1>4, <2>1, <2>2 DEF SameShell
    <2>3. CASE db' = [Routes!Entered(Routes!NewOrg) EXCEPT !.late = @ \/ view.on # "/org-picker"]
      <3>1. db'.late <=> db.late \/ view.on # "/org-picker" BY <1>1, <1>2, <2>3 DEF Routes!Entered, RouteDb
      <3>2. CASE view.on = "/org-picker"
        <4>1. ShellCallsHere = {} /\ view.shell = Routes!Shell0 BY <1>8, <3>2 DEF Outside
        <4>2. ShellCallsHere' = {} BY <1>3, <1>8, <2>1, <3>2, <4>1
        <4>3. QED BY <1>8, <2>1, <3>2, <4>1, <4>2 DEF OfOrg, Outside, Routes!Shell0
      <3>3. CASE view.on # "/org-picker"
        <4>1. OfOrg' BY <3>1, <3>3 DEF OfOrg
        <4>2. Outside' BY <1>3, <2>1 DEF Outside
        <4>3. QED BY <4>1, <4>2
      <3>4. QED BY <3>2, <3>3
    <2>4. QED BY <2>1, <2>2, <2>3
  <1>11. CASE Routes!Indexed \/ Routes!Named
    <2>1. CASE SameShell BY <1>4, <2>1
    <2>2. CASE ~SameShell
      <3> DEFINE Naming(o) == [view EXCEPT !.shell.name = o]
                 Failed == [view EXCEPT !.shell.indexing = FALSE]
                 Indexing(o) == [view EXCEPT !.shell.indexing = FALSE, !.shell.index = <<o>>]
                 Shown(v, name, index) == v.on = view.on /\ v.shows = view.shows /\ v.shell.name = name /\ v.shell.index = index
      <3>0. /\ \A o : Shown(Naming(o), o, view.shell.index)
            /\ Shown(Failed, view.shell.name, view.shell.index)
            /\ \A o : Shown(Indexing(o), view.shell.name, <<o>>)
        BY <1>1 DEF RouteView, RouteShell
      <3> HIDE DEF Naming, Failed, Indexing
      <3>1. \E c \in ShellCallsHere :
              /\ db' = db /\ view'.on = view.on /\ view'.shows = view.shows
              /\ view'.shell.name \in {view.shell.name, None, <<c.arg>>}
              /\ view'.shell.index \in {view.shell.index, None, <<c.arg>>}
        <4>1. CASE Routes!Named
          <5>1. PICK c \in Routes!Waiting("name") :
                  Routes!Resume(c, IF c.arg # db.org THEN view ELSE Naming(IF c.st = "ok" THEN <<c.arg>> ELSE None))
            BY <4>1 DEF Routes!Named, Naming
          <5>2. db' = db /\ (~c.here => view' = view) BY <5>1 DEF Routes!Resume, Routes!Answered, Routes!AnsweredWith
          <5>4. c \in net /\ c.op \in Routes!ShellCalls /\ c.here \in BOOLEAN BY <1>1 DEF Routes!Waiting, Routes!ShellCalls, RouteCall
          <5>5. view' # view BY <1>1, <2>2, <5>2 DEF SameShell, RouteDb
          <5>6. c \in ShellCallsHere BY <5>2, <5>4, <5>5 DEF ShellCallsHere
          <5>7. QED BY <3>0, <5>1, <5>2, <5>6 DEF Routes!Resume, Routes!Answered, Routes!AnsweredWith
        <4>2. CASE Routes!Indexed
          <5>1. PICK c \in net : /\ c.here /\ c.op \in Routes!ShellCalls /\ db' = db
                  /\ view' \in {view, Failed, Indexing(c.arg)}
            BY <4>2 DEF Failed, Routes!Indexed, Indexing, Routes!Waiting, Routes!ShellCalls, Routes!Resume, Routes!ResumeAsk, Routes!ResumeAsks, Routes!Answered, Routes!AnsweredWith
          <5>2. c \in ShellCallsHere BY <5>1 DEF ShellCallsHere
          <5>3. \E name \in {view.shell.name}, index \in {view.shell.index, <<c.arg>>} : Shown(view', name, index)
            BY <3>0, <5>1
          <5>4. QED BY <5>1, <5>2, <5>3
        <4>3. QED BY <1>11, <4>1, <4>2
      <3>2. Outside' BY <3>1 DEF Outside
      <3>3. OfOrg' BY <1>3, <3>1 DEF OfOrg
      <3>4. QED BY <3>2, <3>3
    <2>3. QED BY <2>1, <2>2
  <1>12. QED BY <1>4, <1>5, <1>6, <1>7, <1>9, <1>10, <1>11, ShellKinds

-----------------------------------------------------------------------------
(* The routes: the theorems. *)

RoutesInv == RoutesShape /\ Hops /\ OfOrg /\ Outside

\* A document just loaded satisfies the invariant.
LEMMA RoutesStart == ASSUME Routes!Init, NoneApart PROVE RoutesInv
  <1>1. net = {} BY DEF Routes!Init
  <1>2. PICK role \in Routes!Roles \cup {None}, org \in Routes!Orgs \cup {None}, p \in Routes!Addresses :
          /\ db = [page |-> "routes", user |-> role, org |-> org, tokens |-> role # None,
                   orgs |-> Routes!Orgs, late |-> FALSE, over |-> FALSE]
          /\ \/ view = Routes!Document(p)
             \/ p = "/org-picker" /\ view = [Routes!Document(p) EXCEPT !.on = p, !.creating = TRUE]
    BY DEF Routes!Init
  <1>3. ~Routes!InShell(None) /\ ~Routes!InShell("/org-picker")
    BY DEF NoneApart, Routes!InShell, Routes!Addresses, Routes!ShellPages, Routes!OrgPages
  <1>4. db \in RouteDb BY <1>2 DEF RouteDb, Routes!Orgs, AnyOrg
  <1>5. view \in RouteView /\ view.hops = 0 /\ view.on \in {None, "/org-picker"} /\ view.shell = Routes!Shell0
    <2>1. /\ Routes!Document(p) \in RouteView /\ Routes!Document(p).hops = 0
          /\ Routes!Document(p).on = None /\ Routes!Document(p).shell = Routes!Shell0
      BY DEF Routes!Document, Routes!Shell0, RouteView, RouteShell, AnyOrg
    <2>2. \A v \in RouteView : LET w == [v EXCEPT !.on = p, !.creating = TRUE]
                                IN  w \in RouteView /\ w.hops = v.hops /\ w.on = p /\ w.shell = v.shell
      BY DEF RouteView
    <2>3. QED BY <1>2, <2>1, <2>2
  <1>6. Hops BY <1>1, <1>5 DEF Hops, Pending
  <1>7. OfOrg /\ Outside BY <1>1, <1>3, <1>5 DEF OfOrg, Outside, ShellCallsHere, Routes!Shell0
  <1>8. QED BY <1>1, <1>4, <1>5, <1>6, <1>7 DEF RoutesInv, RoutesShape

LEMMA RoutesStep == ASSUME RoutesInv, Routes!Next PROVE RoutesInv'
  BY RoutesShapeStep, HopsStep, OrgStep DEF RoutesInv

LEMMA RoutesStutter == ASSUME RoutesInv, UNCHANGED Routes!vars PROVE RoutesInv'
  <1>1. view' = view /\ net' = net /\ db' = db BY DEF Routes!vars
  <1>2. RoutesShape' BY <1>1 DEF RoutesInv, RoutesShape, NoneApart
  <1>3. Hops' BY <1>1 DEF RoutesInv, Hops, Pending, Routes!Aim
  <1>4. OfOrg' /\ Outside' BY <1>1 DEF RoutesInv, OfOrg, Outside, ShellCallsHere
  <1>5. QED BY <1>2, <1>3, <1>4 DEF RoutesInv

LEMMA RoutesTell == ASSUME RoutesInv PROVE db.page = "routes" /\ Routes!Allowed /\ Routes!OfferedOpen /\ Routes!OneOrg
  <1>1. RoutesShape BY DEF RoutesInv
  <1>2. db.page = "routes" BY <1>1 DEF RoutesShape, RouteDb
  <1>3. Routes!Allowed BY ShellIsServed DEF RoutesInv, Hops, Routes!Allowed
  <1>4. Routes!OfferedOpen
    <2>1. Routes!On("/dashboard") \/ Routes!On("/plans") => Routes!AtShell /\ view.at \in {"/dashboard", "/plans"}
      BY DEF Routes!On, Routes!AtShell, Routes!InShell, Routes!ShellPages, Routes!OrgPages
    <2>2. QED BY <1>1, <2>1, OffersOpen, ControlsGranted DEF Routes!OfferedOpen
  <1>5. Routes!OneOrg
    <2>1. Routes!AtShell /\ db.user = "advisor" => db.org # None
      BY <1>1, AtShellMeans DEF Routes!Orgless
    <2>2. QED BY <2>1 DEF RoutesInv, OfOrg, Routes!OneOrg, Routes!AtShell
  <1>6. QED BY <1>2, <1>3, <1>4, <1>5

-----------------------------------------------------------------------------
(* Requests: numbered in the order of sending. *)

\* The requests are numbered from 1 on, without a gap.
Numbered(S) ==
  /\ IsFiniteSet(S)
  /\ \A c \in S : IsRequest(c) /\ c.id \in 1..Cardinality(S)
  /\ \A c, d \in S : c.id = d.id => c = d
Same(x, q) == x.op = q.op /\ x.arg = q.arg /\ x.st = q.st /\ x.ans = q.ans /\ x.here = q.here

\* Requests that are answered or left behind keep their places.
LEMMA MarkedNumbered ==
  ASSUME NEW S, Numbered(S), NEW f, DOMAIN f = S, \A q \in S : IsRequest(f[q]) /\ f[q].id = q.id
  PROVE  Numbered({f[q] : q \in S})
  <1> DEFINE T == {f[q] : q \in S}
             g == [q \in S |-> f[q]]
  <1>1. \A p, q \in S : f[p] = f[q] => p = q BY DEF Numbered
  <1>2. g \in Surjection(S, T) /\ g \in Injection(S, T) BY <1>1 DEF Surjection, Injection, IsInjective
  <1>3. IsFiniteSet(T) /\ Cardinality(T) = Cardinality(S) BY <1>2, FS_Surjection DEF Numbered
  <1>4. \A x \in T : \E q \in S : x = f[q] OBVIOUS
  <1> HIDE DEF T, g
  <1>5. \A x \in T : IsRequest(x) /\ x.id \in 1..Cardinality(S) BY <1>4 DEF Numbered
  <1>6. \A x, y \in T : x.id = y.id => x = y BY <1>4 DEF Numbered
  <1>7. Numbered(T) BY <1>3, <1>5, <1>6 DEF Numbered
  <1>8. QED BY <1>7 DEF T

\* The place in the order of a request that moves up.
Up(q, c) == IF q.id > c.id THEN q.id - 1 ELSE q.id
\* What is left when an answer is taken keeps the order of sending.
LEMMA WithoutNumbered == ASSUME Numbered(net), NEW c \in net
  PROVE /\ Numbered(Without(c))
        /\ \A x \in Without(c) : \E q \in net \ {c} : Same(x, q) /\ x.id = Up(q, c)
        /\ \A q \in net \ {c} : \E x \in Without(c) : Same(x, q) /\ x.id = Up(q, c)
        /\ \A p, q \in net \ {c} : Up(p, c) < Up(q, c) <=> p.id < q.id
  <1> DEFINE f == [q \in net \ {c} |-> [q EXCEPT !.id = Up(q, c)]]
             T == Without(c)
  <1>1. \A q \in net : q.id \in 1..Cardinality(net) /\ IsRequest(q) BY DEF Numbered
  <1>2. Cardinality(net) \in Nat /\ IsFiniteSet(net) BY FS_CardinalityType DEF Numbered
  <1>3. \A q \in net \ {c} : q.id # c.id BY DEF Numbered
  <1>4. \A p, q \in net \ {c} : Up(p, c) < Up(q, c) <=> p.id < q.id BY <1>1, <1>2, <1>3 DEF Up
  <1>5. \A q \in net \ {c} : Up(q, c) \in 1..(Cardinality(net) - 1) BY <1>1, <1>2, <1>3 DEF Up
  <1>6. \A p, q \in net \ {c} : Up(p, c) = Up(q, c) => p = q
    <2>1. \A p, q \in net \ {c} : Up(p, c) = Up(q, c) => p.id = q.id BY <1>1, <1>2, <1>3 DEF Up
    <2>2. QED BY <2>1 DEF Numbered
  <1>7. \A q \in net \ {c} : IsRequest(f[q]) /\ Same(f[q], q) /\ f[q].id = Up(q, c) BY <1>1 DEF IsRequest, Same
  <1>8. T = {f[q] : q \in net \ {c}} BY DEF Without, Up
  <1>9. IsFiniteSet(net \ {c}) /\ Cardinality(net \ {c}) = Cardinality(net) - 1 BY <1>2, FS_RemoveElement
  <1>10. DOMAIN f = net \ {c} /\ f = [q \in net \ {c} |-> f[q]] OBVIOUS
  <1> HIDE DEF f, T
  <1>11. \A p, q \in net \ {c} : f[p] = f[q] => p = q BY <1>6, <1>7
  <1>12. f \in Surjection(net \ {c}, T) /\ f \in Injection(net \ {c}, T) BY <1>8, <1>10, <1>11 DEF Surjection, Injection, IsInjective
  <1>13. IsFiniteSet(T) /\ Cardinality(T) = Cardinality(net) - 1 BY <1>9, <1>12, FS_Surjection
  <1>14. Numbered(T)
    <2>1. \A x \in T : \E q \in net \ {c} : x = f[q] BY <1>8
    <2>2. \A x \in T : IsRequest(x) /\ x.id \in 1..Cardinality(T) BY <1>5, <1>7, <1>13, <2>1
    <2>3. \A x, y \in T : x.id = y.id => x = y BY <1>6, <1>7, <2>1
    <2>4. QED BY <1>13, <2>2, <2>3 DEF Numbered
  <1>15. QED BY <1>4, <1>7, <1>8, <1>14 DEF T

\* What is sent comes after all that is in flight.
LEMMA SendNumbered == ASSUME NEW S, Numbered(S), NEW n \in Nat, NEW asks, DOMAIN asks = 1..n
  PROVE /\ Numbered(Send(S, asks)) /\ S \subseteq Send(S, asks)
        /\ \A x \in Send(S, asks) \ S :
             /\ IsRequest(x) /\ x.st = "sent" /\ x.here
             /\ \E i \in 1..n : x.op = asks[i][1] /\ x.arg = asks[i][2] /\ x.id = Cardinality(S) + i
        /\ \A q \in S : q.id <= Cardinality(S)
  <1> DEFINE f == [i \in 1..n |-> Request(Cardinality(S) + i, asks[i])]
             T == {f[i] : i \in 1..n}
  <1>1. Cardinality(S) \in Nat /\ IsFiniteSet(S) BY FS_CardinalityType DEF Numbered
  <1>2. \A i \in 1..n : /\ IsRequest(f[i]) /\ f[i].id = Cardinality(S) + i /\ f[i].st = "sent" /\ f[i].here = TRUE
                        /\ f[i].op = asks[i][1] /\ f[i].arg = asks[i][2]
    BY DEF Request, IsRequest
  <1>3. Send(S, asks) = S \cup T BY DEF Send
  <1>4. DOMAIN f = 1..n /\ f = [i \in 1..n |-> f[i]] OBVIOUS
  <1> HIDE DEF f
  <1>5. \A i, j \in 1..n : f[i] = f[j] => i = j
    <2>1. \A i, j \in 1..n : Cardinality(S) + i = Cardinality(S) + j => i = j BY <1>1
    <2>2. \A i \in 1..n : f[i].id = Cardinality(S) + i BY <1>2
    <2>3. QED BY <2>1, <2>2
  <1>6. f \in Surjection(1..n, T) /\ f \in Injection(1..n, T) BY <1>4, <1>5 DEF Surjection, Injection, IsInjective
  <1>7. IsFiniteSet(1..n) /\ Cardinality(1..n) = n BY FS_Interval
  <1>8. IsFiniteSet(T) /\ Cardinality(T) = n BY <1>6, <1>7, FS_Surjection
  <1>9. \A q \in S : IsRequest(q) /\ q.id \in 1..Cardinality(S) BY DEF Numbered
  <1>t. \A x \in T : \E i \in 1..n : x = f[i] OBVIOUS
  <1> HIDE DEF T
  <1>10. S \cap T = {} BY <1>1, <1>2, <1>9, <1>t
  <1>11. IsFiniteSet(S \cup T) /\ Cardinality(S \cup T) = Cardinality(S) + n
    <2>1. Cardinality({}) = 0 BY FS_EmptySet
    <2>2. QED BY <1>1, <1>8, <1>10, <2>1, FS_Union
  <1>12. Numbered(S \cup T)
    <2>1. \A c \in S \cup T : IsRequest(c) /\ c.id \in 1..(Cardinality(S) + n) BY <1>1, <1>2, <1>9, <1>t
    <2>2. \A c, d \in S \cup T : c.id = d.id => c = d
      <3>1. \A c \in S, d \in T : c.id # d.id BY <1>1, <1>2, <1>9, <1>t
      <3>2. \A c, d \in T : c.id = d.id => c = d BY <1>1, <1>2, <1>t
      <3>3. QED BY <3>1, <3>2 DEF Numbered
    <2>3. QED BY <1>11, <2>1, <2>2 DEF Numbered
  <1>13. \A q \in S : q.id <= Cardinality(S) BY <1>1, <1>9
  <1>14. \A x \in T : /\ IsRequest(x) /\ x.st = "sent" /\ x.here
                      /\ \E i \in 1..n : x.op = asks[i][1] /\ x.arg = asks[i][2] /\ x.id = Cardinality(S) + i
    BY <1>2, <1>t
  <1>16. (S \cup T) \ S = T BY <1>10
  <1>17. QED BY <1>3, <1>12, <1>13, <1>14, <1>16


\* The requests R and those they have become: each the image of one by f, in the same
\* order, with the new ones F, not served yet, after them.
Moved(f, R, T, F) ==
  /\ F \subseteq T /\ T \ F = {f[q] : q \in R}
  /\ \A q \in R : f[q].op = q.op /\ f[q].st = q.st /\ f[q].ans = q.ans
  /\ \A p, q \in R : f[p].id < f[q].id <=> p.id < q.id
  /\ \A x \in F : x.st = "sent" /\ \A q \in R : f[q].id < x.id
Intact(f, R) == \A q \in R : f[q].arg = q.arg /\ (f[q].here <=> q.here)
\* What is sent, by a page that is still there or has been left.
Asking(F, asks, here) ==
  /\ \A x \in F : (x.here <=> here) /\ \E i \in DOMAIN asks : x.op = asks[i][1] /\ x.arg = asks[i][2]
  /\ \A i \in DOMAIN asks : \E x \in F : x.op = asks[i][1] /\ x.arg = asks[i][2]

\* Nothing happens to the requests ...
LEMMA StillMoved == ASSUME Numbered(net)
  PROVE \E f : Moved(f, net, net, {}) /\ Intact(f, net) /\ \A q \in net : f[q] = q
  <1>1. PICK f : f = [q \in net |-> q] OBVIOUS
  <1>2. Moved(f, net, net, {}) /\ Intact(f, net) /\ \A q \in net : f[q] = q BY <1>1 DEF Moved, Intact
  <1>3. QED BY <1>2

\* ... one is answered ...
LEMMA WithoutMoved == ASSUME Numbered(net), NEW c \in net
  PROVE \E f : Moved(f, net \ {c}, Without(c), {}) /\ Intact(f, net \ {c})
  <1>1. PICK f : f = [q \in net \ {c} |-> [q EXCEPT !.id = Up(q, c)]] OBVIOUS
  <1>2. \A q \in net \ {c} : /\ f[q].op = q.op /\ f[q].st = q.st /\ f[q].ans = q.ans /\ f[q].arg = q.arg
                             /\ f[q].here = q.here /\ f[q].id = Up(q, c)
    BY <1>1 DEF Numbered, IsRequest
  <1>3. \A p, q \in net \ {c} : f[p].id < f[q].id <=> p.id < q.id BY <1>2, WithoutNumbered
  <1>4. Without(c) \ {} = {f[q] : q \in net \ {c}} BY <1>1 DEF Without, Up
  <1>5. QED BY <1>2, <1>3, <1>4 DEF Moved, Intact

\* ... some are sent ...
LEMMA SendMoved == ASSUME NEW S, Numbered(S), NEW n \in Nat, NEW asks, DOMAIN asks = 1..n
  PROVE /\ \E f : Moved(f, S, Send(S, asks), Send(S, asks) \ S) /\ Intact(f, S)
        /\ Asking(Send(S, asks) \ S, asks, TRUE)
  <1>1. PICK f : f = [q \in S |-> q] OBVIOUS
  <1>2. PICK T : T = Send(S, asks) OBVIOUS
  <1>3. Cardinality(S) \in Nat BY FS_CardinalityType DEF Numbered
  <1>4. \A q \in S : q.id \in Nat /\ q.id <= Cardinality(S) BY <1>3 DEF Numbered
  <1>5. S \subseteq T BY <1>2, SendNumbered
  <1>6. \A x \in T \ S : /\ IsRequest(x) /\ x.st = "sent" /\ x.here
                         /\ \E i \in 1..n : x.op = asks[i][1] /\ x.arg = asks[i][2] /\ x.id = Cardinality(S) + i
    BY <1>2, SendNumbered
  <1>7. \A x \in T \ S, q \in S : q.id < x.id BY <1>3, <1>4, <1>6
  <1>8. Moved(f, S, T, T \ S) /\ Intact(f, S) BY <1>1, <1>5, <1>6, <1>7 DEF Moved, Intact
  <1>9. \A i \in 1..n : \E x \in T \ S : x.op = asks[i][1] /\ x.arg = asks[i][2]
    <2>1. SUFFICES ASSUME NEW i \in 1..n PROVE \E x \in T \ S : x.op = asks[i][1] /\ x.arg = asks[i][2] OBVIOUS
    <2>2. PICK x : x = Request(Cardinality(S) + i, asks[i]) OBVIOUS
    <2>3. x \in T BY <1>2, <2>2 DEF Send
    <2>4. x.id = Cardinality(S) + i /\ x.op = asks[i][1] /\ x.arg = asks[i][2] BY <2>2 DEF Request
    <2>5. x \notin S BY <1>3, <1>4, <2>4
    <2>6. QED BY <2>3, <2>4, <2>5
  <1>10. Asking(T \ S, asks, TRUE) BY <1>6, <1>9 DEF Asking
  <1>11. QED BY <1>2, <1>8, <1>10

\* ... or both, one after the other.
LEMMA MovedTwice == ASSUME NEW R, NEW S, NEW T, NEW F, NEW f, NEW g, Moved(f, R, S, {}), Moved(g, S, T, F)
  PROVE \E h : Moved(h, R, T, F) /\ \A q \in R : h[q] = g[f[q]] /\ f[q] \in S
  <1>1. PICK h : h = [q \in R |-> g[f[q]]] OBVIOUS
  <1>2. S = {f[q] : q \in R} BY DEF Moved
  <1>3. \A q \in R : f[q] \in S /\ h[q] = g[f[q]] BY <1>1, <1>2
  <1>4. {g[s] : s \in S} = {h[q] : q \in R} BY <1>2, <1>3
  <1>5. \A q \in R : h[q].op = q.op /\ h[q].st = q.st /\ h[q].ans = q.ans
    <2>1. \A q \in R : f[q].op = q.op /\ f[q].st = q.st /\ f[q].ans = q.ans BY DEF Moved
    <2>2. \A s \in S : g[s].op = s.op /\ g[s].st = s.st /\ g[s].ans = s.ans BY DEF Moved
    <2>3. QED BY <1>3, <2>1, <2>2
  <1>6. \A p, q \in R : h[p].id < h[q].id <=> p.id < q.id
    <2>1. \A p, q \in R : f[p].id < f[q].id <=> p.id < q.id BY DEF Moved
    <2>2. \A p, q \in S : g[p].id < g[q].id <=> p.id < q.id BY DEF Moved
    <2>3. QED BY <1>3, <2>1, <2>2
  <1>7. \A x \in F : x.st = "sent" /\ \A q \in R : h[q].id < x.id BY <1>3 DEF Moved
  <1>8. F \subseteq T /\ T \ F = {h[q] : q \in R} BY <1>4 DEF Moved
  <1>9. QED BY <1>3, <1>5, <1>6, <1>7, <1>8 DEF Moved

\* A handler that resumes with the answer c and sends the requests of `asks`.
LEMMA AsksMoved ==
  ASSUME Numbered(net), NEW c \in net, NEW n \in Nat, NEW asks, DOMAIN asks = 1..n, NEW more,
         more = Without(c) \cup {[r EXCEPT !.here = c.here] : r \in Send(Without(c), asks) \ Without(c)}
  PROVE  /\ Numbered(more) /\ (n > 0 => more # Without(c))
         /\ \E f, F : /\ Moved(f, net \ {c}, more, F) /\ Intact(f, net \ {c}) /\ Asking(F, asks, c.here)
                     /\ \A x \in F : x \notin Without(c)
  <1>1. PICK W : W = Without(c) OBVIOUS
  <1>2. PICK U : U = Send(W, asks) OBVIOUS
  <1>3. Numbered(W) BY <1>1, WithoutNumbered
  <1>4. /\ Numbered(U) /\ W \subseteq U
        /\ \A x \in U \ W : /\ IsRequest(x) /\ x.st = "sent" /\ x.here
                            /\ \E i \in 1..n : x.op = asks[i][1] /\ x.arg = asks[i][2] /\ x.id = Cardinality(W) + i
        /\ \A q \in W : q.id <= Cardinality(W)
    BY <1>2, <1>3, SendNumbered
  <1>5. Asking(U \ W, asks, TRUE) BY <1>2, <1>3, SendMoved
  <1>6. PICK g : g = [u \in U |-> IF u \in W THEN u ELSE [u EXCEPT !.here = c.here]] OBVIOUS
  <1>7. PICK F : F = {g[u] : u \in U \ W} OBVIOUS
  <1>8. \A u \in U : IsRequest(u) BY <1>4 DEF Numbered
  <1>9. \A u \in U : IsRequest(g[u]) /\ g[u].id = u.id /\ g[u].op = u.op /\ g[u].arg = u.arg /\ g[u].st = u.st
    <2>1. SUFFICES ASSUME NEW u \in U
                   PROVE IsRequest(g[u]) /\ g[u].id = u.id /\ g[u].op = u.op /\ g[u].arg = u.arg /\ g[u].st = u.st
      OBVIOUS
    <2>2. CASE u \in W BY <1>6, <1>8, <2>2
    <2>3. CASE u \notin W
      <3>1. g[u] = [u EXCEPT !.here = c.here] BY <1>6, <2>3
      <3>2. u = [id |-> u.id, op |-> u.op, arg |-> u.arg, st |-> u.st, ans |-> u.ans, here |-> u.here] BY <1>8 DEF IsRequest
      <3>3. g[u] = [id |-> u.id, op |-> u.op, arg |-> u.arg, st |-> u.st, ans |-> u.ans, here |-> c.here] BY <3>1, <3>2
      <3>4. QED BY <3>3 DEF IsRequest
    <2>4. QED BY <2>2, <2>3
  <1>10. \A u \in U \ W : g[u].here = c.here
    <2>1. SUFFICES ASSUME NEW u \in U \ W PROVE g[u].here = c.here OBVIOUS
    <2>2. g[u] = [u EXCEPT !.here = c.here] BY <1>6
    <2>3. u = [id |-> u.id, op |-> u.op, arg |-> u.arg, st |-> u.st, ans |-> u.ans, here |-> u.here] BY <1>8 DEF IsRequest
    <2>4. QED BY <2>2, <2>3
  <1>11. more = {g[u] : u \in U}
    <2>1. {[r EXCEPT !.here = c.here] : r \in U \ W} = F BY <1>6, <1>7
    <2>2. W = {g[u] : u \in W} BY <1>4, <1>6
    <2>3. QED BY <1>1, <1>2, <1>4, <1>7, <2>1, <2>2
  <1>12. Numbered(more)
    <2>1. DOMAIN g = U BY <1>6
    <2>2. \A q \in U : IsRequest(g[q]) /\ g[q].id = q.id BY <1>9
    <2>3. Numbered({g[u] : u \in U}) BY <1>4, <2>1, <2>2, MarkedNumbered
    <2>4. QED BY <1>11, <2>3
  <1>13. Cardinality(W) \in Nat BY <1>3, FS_CardinalityType DEF Numbered
  <1>14. \A q \in W : q.id \in Nat BY <1>3, <1>13 DEF Numbered
  <1>15. \A u \in U \ W, q \in W : q.id < u.id BY <1>4, <1>13, <1>14
  <1>16. \A x \in F, q \in W : q.id < x.id BY <1>7, <1>9, <1>15
  <1>17. more \ F = W
    <2>1. F \cap W = {} BY <1>14, <1>16
    <2>2. more = W \cup F BY <1>4, <1>6, <1>7, <1>11
    <2>3. QED BY <2>1, <2>2
  <1>18. PICK f : Moved(f, net \ {c}, W, {}) /\ Intact(f, net \ {c}) BY <1>1, WithoutMoved
  <1>19. \A q \in net \ {c} : f[q] \in W BY <1>18 DEF Moved
  <1>20. Moved(f, net \ {c}, more, F)
    <2>1. F \subseteq more BY <1>7, <1>11
    <2>2. \A x \in F : x.st = "sent" BY <1>4, <1>7, <1>9
    <2>3. \A x \in F, q \in net \ {c} : f[q].id < x.id BY <1>16, <1>19
    <2>4. W = {f[q] : q \in net \ {c}} BY <1>18 DEF Moved
    <2>5. QED BY <1>17, <1>18, <2>1, <2>2, <2>3, <2>4 DEF Moved
  <1>21. Asking(F, asks, c.here)
    <2>1. \A x \in F : (x.here <=> c.here) /\ \E i \in DOMAIN asks : x.op = asks[i][1] /\ x.arg = asks[i][2]
      BY <1>4, <1>7, <1>9, <1>10
    <2>2. \A i \in DOMAIN asks : \E x \in F : x.op = asks[i][1] /\ x.arg = asks[i][2]
      <3>1. SUFFICES ASSUME NEW i \in DOMAIN asks PROVE \E x \in F : x.op = asks[i][1] /\ x.arg = asks[i][2] OBVIOUS
      <3>2. PICK u \in U \ W : u.op = asks[i][1] /\ u.arg = asks[i][2] BY <1>5 DEF Asking
      <3>3. g[u] \in F /\ g[u].op = u.op /\ g[u].arg = u.arg BY <1>7, <1>9
      <3>4. QED BY <3>2, <3>3
    <2>3. QED BY <2>1, <2>2 DEF Asking
  <1>22. n > 0 => more # W
    <2>1. SUFFICES ASSUME n > 0, more = W PROVE FALSE OBVIOUS
    <2>2. 1 \in DOMAIN asks BY <2>1
    <2>3. PICK x \in F : TRUE BY <1>21, <2>2 DEF Asking
    <2>4. x \in more BY <1>7, <1>11, <2>3
    <2>5. QED BY <1>17, <2>1, <2>3, <2>4
  <1>23. \E h, G : /\ Moved(h, net \ {c}, more, G) /\ Intact(h, net \ {c}) /\ Asking(G, asks, c.here)
                  /\ \A x \in G : x \notin Without(c)
    <2>1. \A x \in F : x \notin Without(c) BY <1>1, <1>17
    <2>2. QED BY <1>18, <1>20, <1>21, <2>1
  <1>24. n > 0 => more # Without(c) BY <1>1, <1>22
  <1>25. QED BY <1>12, <1>23, <1>24

-----------------------------------------------------------------------------
(* What a step does to the requests. *)

\* The requests R have become those of T that are not in F.
Passage(f, R, T, F) == Numbered(T) /\ Moved(f, R, T, F) /\ Intact(f, R)

\* Nothing is sent or answered, ...
LEMMA PassStill == ASSUME Numbered(net) PROVE \E f : Passage(f, net, net, {})
  BY StillMoved DEF Passage
\* ... requests are sent, ...
LEMMA PassSend == ASSUME Numbered(net), NEW n \in Nat, NEW asks, DOMAIN asks = 1..n, NEW T, T = Send(net, asks)
  PROVE \E f, F : Passage(f, net, T, F) /\ Asking(F, asks, TRUE)
  <1>1. PICK f : Moved(f, net, T, T \ net) /\ Intact(f, net) BY SendMoved
  <1>2. Asking(T \ net, asks, TRUE) BY SendMoved
  <1>3. Numbered(T) BY SendNumbered
  <1>4. QED BY <1>1, <1>2, <1>3 DEF Passage
\* ... one is answered, ...
LEMMA PassResume == ASSUME Numbered(net), NEW c \in net
  PROVE \E f : Passage(f, net \ {c}, Without(c), {})
  BY WithoutMoved, WithoutNumbered DEF Passage
\* ... and its handler goes on to send others.
LEMMA PassAsks ==
  ASSUME Numbered(net), NEW c \in net, NEW n \in Nat, NEW asks, DOMAIN asks = 1..n, NEW T,
         T = Without(c) \cup {[r EXCEPT !.here = c.here] : r \in Send(Without(c), asks) \ Without(c)}
  PROVE  /\ n > 0 => T # Without(c)
         /\ \E f, F : /\ Passage(f, net \ {c}, T, F) /\ Asking(F, asks, c.here)
                     /\ \A x \in F : x \notin Without(c)
  <1>1. PICK f, F : /\ Moved(f, net \ {c}, T, F) /\ Intact(f, net \ {c}) /\ Asking(F, asks, c.here)
                    /\ \A x \in F : x \notin Without(c)
    BY AsksMoved
  <1>2. Numbered(T) /\ (n > 0 => T # Without(c)) BY AsksMoved
  <1>3. QED BY <1>1, <1>2 DEF Passage

\* One request is sent.
LEMMA PassOne == ASSUME Numbered(net), NEW op, NEW arg, NEW T, T = Send(net, << <<op, arg>> >>)
  PROVE \E f, F : /\ Passage(f, net, T, F) /\ F # {} /\ \A x \in F : x.here /\ x.op = op /\ x.arg = arg
                  /\ \A x, y \in F : x = y
  <1>1. PICK asks : asks = << <<op, arg>> >> OBVIOUS
  <1>2. PICK n \in Nat : n = 1 OBVIOUS
  <1>3. DOMAIN asks = 1..n /\ asks[1] = <<op, arg>> BY <1>1, <1>2
  <1>4. PICK f : Moved(f, net, T, T \ net) /\ Intact(f, net) BY <1>1, <1>3, SendMoved
  <1>5. Asking(T \ net, asks, TRUE) BY <1>1, <1>3, SendMoved
  <1>6. Numbered(T) BY <1>1, <1>3, SendNumbered
  <1>7. 1 \in DOMAIN asks /\ \A i \in DOMAIN asks : i = 1 BY <1>2, <1>3
  <1>8. T \ net # {} BY <1>5, <1>7 DEF Asking
  <1>9. \A x \in T \ net : x.here /\ x.op = op /\ x.arg = arg BY <1>3, <1>5, <1>7 DEF Asking
  <1>10. \A x \in T \ net : x = Request(Cardinality(net) + 1, asks[1]) BY <1>1, <1>7 DEF Send
  <1>11. QED BY <1>4, <1>6, <1>8, <1>9, <1>10 DEF Passage

\* The requests are natural numbers apart.
LEMMA Places == ASSUME NEW S, Numbered(S), NEW c \in S PROVE IsRequest(c) /\ c.id \in Nat /\ c.id >= 1
  <1>1. Cardinality(S) \in Nat BY FS_CardinalityType DEF Numbered
  <1>2. QED BY <1>1 DEF Numbered

\* Where a request of T comes from.
LEMMA Origin == ASSUME NEW f, NEW R, NEW T, NEW F, Passage(f, R, T, F), NEW x \in T
  PROVE \/ x \in F /\ x.st = "sent"
        \/ \E q \in R : x = f[q] /\ x.op = q.op /\ x.st = q.st /\ x.ans = q.ans /\ x.arg = q.arg /\ (x.here <=> q.here)
  <1>1. CASE x \in F BY <1>1 DEF Passage, Moved
  <1>2. CASE x \notin F
    <2>1. PICK q \in R : x = f[q] BY <1>2 DEF Passage, Moved
    <2>2. QED BY <2>1 DEF Passage, Moved, Intact
  <1>3. QED BY <1>1, <1>2
\* Where a request of R goes to.
LEMMA Onwards == ASSUME NEW f, NEW R, NEW T, NEW F, Passage(f, R, T, F), NEW q \in R
  PROVE /\ f[q] \in T /\ f[q].op = q.op /\ f[q].st = q.st /\ f[q].ans = q.ans /\ f[q].arg = q.arg
        /\ f[q].here <=> q.here
  BY DEF Passage, Moved, Intact

\* Answered in the order of sending.
Ordered(calls) == \A c, d \in calls : c.id < d.id /\ d.st # "sent" => c.st # "sent"
LEMMA PassOrdered == ASSUME Numbered(net), NEW f, NEW R, R \subseteq net, NEW T, NEW F, Passage(f, R, T, F), Ordered(net)
  PROVE Ordered(T)
  <1>1. SUFFICES ASSUME NEW x \in T, NEW y \in T, x.id < y.id, y.st # "sent" PROVE x.st # "sent" BY DEF Ordered
  <1>2. PICK q \in R : y = f[q] /\ y.st = q.st BY <1>1, Origin
  <1>3. CASE x \in F
    <2>1. y.id < x.id BY <1>2, <1>3 DEF Passage, Moved
    <2>2. x.id \in Nat /\ y.id \in Nat BY Places DEF Passage
    <2>3. QED BY <1>1, <2>1, <2>2
  <1>4. CASE x \notin F
    <2>1. PICK p \in R : x = f[p] /\ x.st = p.st
      <3>1. PICK p \in R : x = f[p] BY <1>4 DEF Passage, Moved
      <3>2. QED BY <3>1 DEF Passage, Moved
    <2>2. p.id < q.id BY <1>1, <1>2, <2>1 DEF Passage, Moved
    <2>3. QED BY <1>1, <1>2, <2>1, <2>2 DEF Ordered
  <1>5. QED BY <1>3, <1>4

\* The server answers: the requests keep their places.
LEMMA PassAnswer == ASSUME Numbered(net), NEW c \in net, NEW d, NEW st, NEW a, AnswerIs(c, d, st, a), NEW T, T = net'
  PROVE /\ Numbered(T)
        /\ \E g : /\ T = {g[q] : q \in net}
                  /\ \A q \in net : /\ g[q].id = q.id /\ g[q].op = q.op /\ g[q].arg = q.arg /\ (g[q].here <=> q.here)
                                    /\ q # c => g[q] = q
                  /\ g[c].st = st /\ g[c].ans = a
  <1>1. PICK x : x = [c EXCEPT !.st = st, !.ans = a] OBVIOUS
  <1>2. IsRequest(c) BY DEF Numbered
  <1>3. IsRequest(x) /\ x.id = c.id /\ x.op = c.op /\ x.arg = c.arg /\ (x.here <=> c.here) /\ x.st = st /\ x.ans = a
    BY <1>1, <1>2 DEF IsRequest
  <1>4. T = (net \ {c}) \cup {x} BY <1>1 DEF AnswerIs
  <1>5. PICK g : g = [q \in net |-> IF q = c THEN x ELSE q] OBVIOUS
  <1>6. DOMAIN g = net /\ g[c] = x /\ \A q \in net : q # c => g[q] = q BY <1>5
  <1>7. T = {g[q] : q \in net}
    <2>1. \A y \in T : \E q \in net : y = g[q] BY <1>4, <1>6
    <2>2. \A q \in net : g[q] \in T BY <1>4, <1>6
    <2>3. QED BY <2>1, <2>2
  <1>8. \A q \in net : IsRequest(g[q]) /\ g[q].id = q.id BY <1>3, <1>6 DEF Numbered
  <1>9. \A q \in net : g[q].op = q.op /\ g[q].arg = q.arg /\ (g[q].here <=> q.here) BY <1>3, <1>6
  <1>10. Numbered({g[q] : q \in net}) BY <1>6, <1>8, MarkedNumbered
  <1>11. QED BY <1>3, <1>6, <1>7, <1>8, <1>9, <1>10

LEMMA AnswerOrdered ==
  ASSUME Numbered(net), NEW c \in net, NEW d, NEW st, NEW a, AnswerIs(c, d, st, a), st # "sent", ~mixed', Ordered(net)
  PROVE  Ordered(net')
  <1>1. PICK T : T = net' OBVIOUS
  <1>2. PICK g : /\ T = {g[q] : q \in net}
                 /\ \A q \in net : g[q].id = q.id /\ (q # c => g[q] = q)
                 /\ g[c].st = st
    BY <1>1, PassAnswer
  <1>3. ~Overtakes(c) BY DEF AnswerIs
  <1>4. SUFFICES ASSUME NEW p \in net, NEW q \in net, p.id < q.id, g[q].st # "sent" PROVE g[p].st # "sent"
    BY <1>1, <1>2 DEF Ordered
  <1>5. CASE p = c BY <1>2, <1>5
  <1>6. CASE p # c /\ q = c
    <2>1. p.st # "sent" BY <1>3, <1>4, <1>6 DEF Overtakes
    <2>2. QED BY <1>2, <1>6, <2>1
  <1>7. CASE p # c /\ q # c
    <2>1. g[p] = p /\ g[q] = q BY <1>2, <1>7
    <2>2. QED BY <1>4, <2>1 DEF Ordered
  <1>8. QED BY <1>5, <1>6, <1>7

\* The page is left: so are its requests.
Orphans == {[c EXCEPT !.here = FALSE] : c \in net}
LEMMA PassLeft == ASSUME Numbered(net), NEW T, T = Orphans
  PROVE /\ Numbered(T)
        /\ \E g : /\ T = {g[q] : q \in net}
                  /\ \A q \in net : /\ g[q].id = q.id /\ g[q].op = q.op /\ g[q].arg = q.arg /\ ~g[q].here
                                    /\ g[q].st = q.st /\ g[q].ans = q.ans
  <1>1. PICK g : g = [q \in net |-> [q EXCEPT !.here = FALSE]] OBVIOUS
  <1>2. DOMAIN g = net /\ T = {g[q] : q \in net} BY <1>1 DEF Orphans
  <1>3. ASSUME NEW q \in net
        PROVE  /\ g[q].id = q.id /\ g[q].op = q.op /\ g[q].arg = q.arg /\ ~g[q].here
               /\ g[q].st = q.st /\ g[q].ans = q.ans /\ IsRequest(g[q])
    <2>1. IsRequest(q) BY DEF Numbered
    <2>2. g[q] = [q EXCEPT !.here = FALSE] BY <1>1
    <2>3. QED BY <2>1, <2>2 DEF IsRequest
  <1>4. Numbered(T) BY <1>2, <1>3, MarkedNumbered
  <1>5. QED BY <1>2, <1>3, <1>4

-----------------------------------------------------------------------------
(* Board: the requests of the components that a handler unmounts. *)

Board == INSTANCE PlanBoard

\* The board sends and answers its requests as Spa does.
LEMMA BoardCounts == \A S : Board!Cardinality(S) = Cardinality(S)
  BY DEF Board!Cardinality, Cardinality
LEMMA BoardSend == \A S, asks : Board!Send(S, asks) = Send(S, asks)
  BY BoardCounts DEF Board!Send, Board!Request, Send, Request
LEMMA BoardWithout == \A c : Board!Without(c) = Without(c)
  BY DEF Board!Without, Without

Shape(op, arg) ==
  /\ op = "create" => arg = [up |-> arg.up, for |-> arg.for, picked |-> arg.picked, mine |-> arg.mine]
  /\ op = "fan" => arg = [of |-> arg.of, left |-> arg.left]
Shaped(S) == \A c \in S : Shape(c.op, c.arg)
\* What is unmounted: nothing, the dialog, or the dialog and the sections.
Cut(q, mark) == \/ mark # "none" /\ q.op = "modalLists"
                \/ mark = "sections" /\ q.op = "draft" /\ q.arg.of # 0
Marked(f, R, mark) == \A q \in R :
  /\ f[q].here <=> q.here /\ ~Cut(q, mark)
  /\ q.op # "create" => f[q].arg = q.arg
  /\ q.op = "create" =>
       /\ f[q].arg = [up |-> q.arg.up, for |-> q.arg.for, picked |-> q.arg.picked, mine |-> f[q].arg.mine]
       /\ f[q].arg.mine <=> (q.arg.mine /\ mark = "none")

\* Requests nobody has touched are marked so, ...
LEMMA IntactMarked == ASSUME NEW f, NEW R, Intact(f, R), Shaped(R) PROVE Marked(f, R, "none")
  BY DEF Intact, Marked, Cut, Shaped, Shape

\* ... the dialog is unmounted ...
LEMMA ModalMarked == ASSUME NEW S, Numbered(S), Shaped(S)
  PROVE /\ Numbered(Board!WithoutModal(S)) /\ Shaped(Board!WithoutModal(S))
        /\ \E f : Moved(f, S, Board!WithoutModal(S), {}) /\ Marked(f, S, "modal")
  <1>1. PICK f : f = [c \in S |-> CASE c.op = "modalLists" -> [c EXCEPT !.here = FALSE]
                                   [] c.op = "create"     -> [c EXCEPT !.arg.mine = FALSE]
                                   [] OTHER               -> c]
    OBVIOUS
  <1>2. Board!WithoutModal(S) = {f[q] : q \in S} BY <1>1 DEF Board!WithoutModal
  <1>3. \A q \in S : /\ IsRequest(f[q]) /\ f[q].id = q.id /\ f[q].op = q.op /\ f[q].st = q.st /\ f[q].ans = q.ans
                     /\ f[q].here <=> q.here /\ q.op # "modalLists"
                     /\ q.op # "create" => f[q].arg = q.arg
                     /\ q.op = "create" => f[q].arg = [q.arg EXCEPT !.mine = FALSE]
    <2>1. SUFFICES ASSUME NEW q \in S
          PROVE /\ IsRequest(f[q]) /\ f[q].id = q.id /\ f[q].op = q.op /\ f[q].st = q.st /\ f[q].ans = q.ans
                /\ f[q].here <=> q.here /\ q.op # "modalLists"
                /\ q.op # "create" => f[q].arg = q.arg
                /\ q.op = "create" => f[q].arg = [q.arg EXCEPT !.mine = FALSE]
      OBVIOUS
    <2>2. IsRequest(q) BY DEF Numbered
    <2>3. CASE q.op = "modalLists"
      <3>1. f[q] = [q EXCEPT !.here = FALSE] BY <1>1, <2>3
      <3>2. QED BY <2>2, <2>3, <3>1 DEF IsRequest
    <2>4. CASE q.op = "create"
      <3>1. f[q] = [q EXCEPT !.arg.mine = FALSE] BY <1>1, <2>4
      <3>2. QED BY <2>2, <2>4, <3>1 DEF IsRequest
    <2>5. CASE q.op \notin {"modalLists", "create"}
      <3>1. f[q] = q BY <1>1, <2>5
      <3>2. QED BY <2>2, <2>5, <3>1
    <2>6. QED BY <2>3, <2>4, <2>5
  <1>4. \A q \in S : q.op = "create" =>
          f[q].arg = [up |-> q.arg.up, for |-> q.arg.for, picked |-> q.arg.picked, mine |-> FALSE]
    BY <1>3 DEF Shaped, Shape
  <1>5. Marked(f, S, "modal") BY <1>3, <1>4 DEF Marked, Cut
  <1>6. Moved(f, S, Board!WithoutModal(S), {}) BY <1>2, <1>3 DEF Moved
  <1>7. Shaped(Board!WithoutModal(S))
    <2>1. SUFFICES ASSUME NEW q \in S PROVE Shape(f[q].op, f[q].arg) BY <1>2 DEF Shaped
    <2>2. CASE q.op = "create"
      <3>1. f[q].arg = [up |-> q.arg.up, for |-> q.arg.for, picked |-> q.arg.picked, mine |-> FALSE] BY <1>4, <2>2
      <3>2. f[q].op = "create" BY <1>3, <2>2
      <3>3. QED BY <3>1, <3>2 DEF Shape
    <2>3. CASE q.op # "create" BY <1>3, <2>3 DEF Shaped
    <2>4. QED BY <2>2, <2>3
  <1>8. Numbered(Board!WithoutModal(S))
    <2>1. DOMAIN f = S BY <1>1
    <2>2. \A q \in S : IsRequest(f[q]) /\ f[q].id = q.id BY <1>3
    <2>3. Numbered({f[q] : q \in S}) BY <2>1, <2>2, MarkedNumbered
    <2>4. QED BY <1>2, <2>3
  <1>9. \E h : Moved(h, S, Board!WithoutModal(S), {}) /\ Marked(h, S, "modal") BY <1>5, <1>6
  <1>10. QED BY <1>7, <1>8, <1>9

\* ... or the sections with it.
LEMMA SectionsMarked == ASSUME NEW S, Numbered(S), Shaped(S)
  PROVE /\ Numbered(Board!WithoutSections(S)) /\ Shaped(Board!WithoutSections(S))
        /\ \E f : Moved(f, S, Board!WithoutSections(S), {}) /\ Marked(f, S, "sections")
  <1>1. PICK M : M = Board!WithoutModal(S) OBVIOUS
  <1>2. Numbered(M) /\ Shaped(M) BY <1>1, ModalMarked
  <1>3. PICK f : Moved(f, S, M, {}) /\ Marked(f, S, "modal") BY <1>1, ModalMarked
  <1>4. PICK g : g = [c \in M |-> IF c.op = "draft" /\ c.arg.of # 0 THEN [c EXCEPT !.here = FALSE] ELSE c] OBVIOUS
  <1>5. PICK T : T = Board!WithoutSections(S) OBVIOUS
  <1>6. T = {g[q] : q \in M} BY <1>1, <1>4, <1>5 DEF Board!WithoutSections
  <1>7. \A q \in M : /\ IsRequest(g[q]) /\ g[q].id = q.id /\ g[q].op = q.op /\ g[q].st = q.st /\ g[q].ans = q.ans
                     /\ g[q].arg = q.arg
                     /\ g[q].here <=> q.here /\ ~(q.op = "draft" /\ q.arg.of # 0)
    <2>1. SUFFICES ASSUME NEW q \in M
          PROVE /\ IsRequest(g[q]) /\ g[q].id = q.id /\ g[q].op = q.op /\ g[q].st = q.st /\ g[q].ans = q.ans
                /\ g[q].arg = q.arg
                /\ g[q].here <=> q.here /\ ~(q.op = "draft" /\ q.arg.of # 0)
      OBVIOUS
    <2>2. IsRequest(q) BY <1>2 DEF Numbered
    <2>3. CASE q.op = "draft" /\ q.arg.of # 0
      <3>1. g[q] = [q EXCEPT !.here = FALSE] BY <1>4, <2>3
      <3>2. QED BY <2>2, <2>3, <3>1 DEF IsRequest
    <2>4. CASE ~(q.op = "draft" /\ q.arg.of # 0)
      <3>1. g[q] = q BY <1>4, <2>4
      <3>2. QED BY <2>2, <2>4, <3>1
    <2>5. QED BY <2>3, <2>4
  <1>8. Moved(g, M, T, {}) BY <1>6, <1>7 DEF Moved
  <1>9. PICK h : Moved(h, S, T, {}) /\ \A q \in S : h[q] = g[f[q]] /\ f[q] \in M BY <1>3, <1>8, MovedTwice
  <1>10. Marked(h, S, "sections")
    <2>1. SUFFICES ASSUME NEW q \in S
          PROVE /\ h[q].here <=> q.here /\ ~Cut(q, "sections")
                /\ q.op # "create" => h[q].arg = q.arg
                /\ q.op = "create" =>
                     /\ h[q].arg = [up |-> q.arg.up, for |-> q.arg.for, picked |-> q.arg.picked, mine |-> h[q].arg.mine]
                     /\ h[q].arg.mine <=> (q.arg.mine /\ "sections" = "none")
      BY DEF Marked
    <2>2. PICK s \in M : s = f[q] BY <1>9
    <2>3. h[q] = g[s] BY <1>9, <2>2
    <2>4. s.op = q.op BY <1>3, <2>2 DEF Moved
    <2>5. /\ s.here <=> q.here /\ q.op # "modalLists"
          /\ q.op # "create" => s.arg = q.arg
          /\ q.op = "create" =>
               /\ s.arg = [up |-> q.arg.up, for |-> q.arg.for, picked |-> q.arg.picked, mine |-> s.arg.mine]
               /\ ~s.arg.mine
      BY <1>3, <2>2 DEF Marked, Cut
    <2>6. h[q].arg = s.arg /\ (h[q].here <=> s.here /\ ~(s.op = "draft" /\ s.arg.of # 0)) BY <1>7, <2>3
    <2>7. q.op = "draft" => s.arg = q.arg BY <2>5
    <2>8. QED BY <2>4, <2>5, <2>6, <2>7 DEF Cut
  <1>11. Shaped(T) BY <1>2, <1>6, <1>7 DEF Shaped
  <1>12. Numbered(T)
    <2>1. DOMAIN g = M BY <1>4
    <2>2. \A q \in M : IsRequest(g[q]) /\ g[q].id = q.id BY <1>7
    <2>3. Numbered({g[q] : q \in M}) BY <1>2, <2>1, <2>2, MarkedNumbered
    <2>4. QED BY <1>6, <2>3
  <1>13. QED BY <1>5, <1>9, <1>10, <1>11, <1>12

\* A create request sent, if any, has the shape of one.
Proper(asks) == \A i \in DOMAIN asks : Shape(asks[i][1], asks[i][2])
\* The requests R have become those of T that are not in F.
Flow(f, R, T, F, mark) == Numbered(T) /\ Shaped(T) /\ Moved(f, R, T, F) /\ Marked(f, R, mark)

LEMMA FlowShaped == ASSUME NEW f, NEW R, NEW T, NEW F, NEW mark, NEW asks, NEW here, Proper(asks), Asking(F, asks, here), Shaped(R),
    Numbered(T), Moved(f, R, T, F), Marked(f, R, mark)
  PROVE Flow(f, R, T, F, mark)
  <1>1. SUFFICES ASSUME NEW c \in T PROVE Shape(c.op, c.arg) BY DEF Flow, Shaped, Shape
  <1>2. CASE c \in F
    <2>1. PICK i \in DOMAIN asks : c.op = asks[i][1] /\ c.arg = asks[i][2] BY <1>2 DEF Asking
    <2>2. QED BY <2>1 DEF Proper, Shape
  <1>3. CASE c \notin F
    <2>1. PICK q \in R : c = f[q] BY <1>3 DEF Moved
    <2>2. c.op = q.op /\ Shape(q.op, q.arg) BY <2>1 DEF Moved, Shaped, Shape
    <2>3. CASE q.op = "create"
      <3>1. c.arg = [up |-> q.arg.up, for |-> q.arg.for, picked |-> q.arg.picked, mine |-> c.arg.mine] BY <2>1, <2>3 DEF Marked
      <3>2. QED BY <2>2, <2>3, <3>1 DEF Shape
    <2>4. CASE q.op # "create"
      <3>1. c.arg = q.arg BY <2>1, <2>4 DEF Marked
      <3>2. QED BY <2>2, <3>1
    <2>5. QED BY <2>3, <2>4
  <1>4. QED BY <1>2, <1>3

Nothing == <<>>
LEMMA AskNothing == Asking({}, Nothing, TRUE) /\ Proper(Nothing)
  BY DEF Asking, Proper, Shape, Nothing

\* The requests in flight stay as they are ...
LEMMA FlowStill == ASSUME Numbered(net), Shaped(net)
  PROVE \E f : Flow(f, net, net, {}, "none")
  <1>1. PICK f : Moved(f, net, net, {}) /\ Intact(f, net) BY StillMoved
  <1>2. Marked(f, net, "none") BY <1>1, IntactMarked
  <1>3. QED BY <1>1, <1>2 DEF Flow
\* ... others are sent ...
LEMMA FlowSend == ASSUME Numbered(net), Shaped(net), NEW n \in Nat, NEW asks, DOMAIN asks = 1..n, Proper(asks), NEW T, T = Board!Send(net, asks)
  PROVE \E f, F : Flow(f, net, T, F, "none") /\ Asking(F, asks, TRUE)
  <1>0. T = Send(net, asks) BY BoardSend
  <1>1. PICK f : Moved(f, net, T, T \ net) /\ Intact(f, net) BY <1>0, SendMoved
  <1>2. Asking(T \ net, asks, TRUE) BY <1>0, SendMoved
  <1>3. Marked(f, net, "none") BY <1>1, IntactMarked
  <1>4. Numbered(T) BY <1>0, SendNumbered
  <1>5. QED BY <1>1, <1>2, <1>3, <1>4, FlowShaped
\* ... one is answered ...
LEMMA FlowResume == ASSUME Numbered(net), Shaped(net), NEW c \in net
  PROVE \E f : Flow(f, net \ {c}, Board!Without(c), {}, "none")
  <1>1. PICK f : Moved(f, net \ {c}, Board!Without(c), {}) /\ Intact(f, net \ {c}) BY WithoutMoved, BoardWithout
  <1>2. Shaped(net \ {c}) BY DEF Shaped, Shape
  <1>3. Marked(f, net \ {c}, "none") BY <1>1, <1>2, IntactMarked
  <1>4. Numbered(Board!Without(c)) BY WithoutNumbered, BoardWithout
  <1>5. QED BY <1>1, <1>2, <1>3, <1>4, AskNothing, FlowShaped
\* ... and its handler goes on to send others ...
LEMMA FlowAsks ==
  ASSUME Numbered(net), Shaped(net), NEW c \in net, NEW n \in Nat, NEW asks, DOMAIN asks = 1..n, Proper(asks), NEW T,
         T = Board!Without(c) \cup {[r EXCEPT !.here = c.here] : r \in Board!Send(Board!Without(c), asks) \ Board!Without(c)}
  PROVE  /\ n > 0 => T # Board!Without(c)
         /\ \E f, F : Flow(f, net \ {c}, T, F, "none") /\ Asking(F, asks, c.here)
  <1>6. PICK W : W = Without(c) OBVIOUS
  <1>7. PICK U : U = Send(W, asks) OBVIOUS
  <1>8. Board!Without(c) = W /\ Board!Send(W, asks) = U BY <1>6, <1>7, BoardWithout, BoardSend
  <1>9. T = Without(c) \cup {[r EXCEPT !.here = c.here] : r \in Send(Without(c), asks) \ Without(c)}
    <2>1. T = W \cup {[r EXCEPT !.here = c.here] : r \in U \ W} BY <1>8
    <2>2. QED BY <1>6, <1>7, <2>1
  <1>1. PICK f, F : Moved(f, net \ {c}, T, F) /\ Intact(f, net \ {c}) /\ Asking(F, asks, c.here) BY <1>9, AsksMoved
  <1>2. Shaped(net \ {c}) BY DEF Shaped, Shape
  <1>3. Marked(f, net \ {c}, "none") BY <1>1, <1>2, IntactMarked
  <1>4. Numbered(T) /\ (n > 0 => T # Board!Without(c)) BY <1>6, <1>8, <1>9, AsksMoved
  <1>5. QED BY <1>1, <1>2, <1>3, <1>4, FlowShaped
\* ... the dialog is closed ...
LEMMA FlowClose == ASSUME Numbered(net), Shaped(net)
  PROVE \E f : Flow(f, net, Board!WithoutModal(net), {}, "modal")
  <1>1. PICK f : Moved(f, net, Board!WithoutModal(net), {}) /\ Marked(f, net, "modal") BY ModalMarked
  <1>2. QED BY <1>1, ModalMarked DEF Flow
\* ... everything is loaded again, by a gesture ...
LEMMA FlowReload ==
  ASSUME Numbered(net), Shaped(net), NEW n \in Nat, NEW asks, DOMAIN asks = 1..n, Proper(asks), NEW T, T = Board!Send(Board!WithoutSections(net), asks)
  PROVE \E f, F : Flow(f, net, T, F, "sections") /\ Asking(F, asks, TRUE)
  <1>1. PICK S : S = Board!WithoutSections(net) OBVIOUS
  <1>2. PICK g : Moved(g, net, S, {}) /\ Marked(g, net, "sections") BY <1>1, SectionsMarked
  <1>3. Numbered(S) /\ Shaped(S) BY <1>1, SectionsMarked
  <1>4. T = Send(S, asks) BY <1>1, BoardSend
  <1>5. PICK h : Moved(h, S, T, T \ S) /\ Intact(h, S) BY <1>3, <1>4, SendMoved
  <1>6. Asking(T \ S, asks, TRUE) BY <1>3, <1>4, SendMoved
  <1>7. Numbered(T) BY <1>3, <1>4, SendNumbered
  <1>8. PICK f : Moved(f, net, T, T \ S) /\ \A q \in net : f[q] = h[g[q]] /\ g[q] \in S BY <1>2, <1>5, MovedTwice
  <1>9. Marked(f, net, "sections")
    <2>1. \A q \in net : f[q].arg = g[q].arg /\ (f[q].here <=> g[q].here) BY <1>5, <1>8 DEF Intact
    <2>2. QED BY <1>2, <2>1 DEF Marked
  <1>10. QED BY <1>6, <1>7, <1>8, <1>9, FlowShaped
\* ... or by a handler that ends so.
LEMMA FlowEnd ==
  ASSUME Numbered(net), Shaped(net), NEW c \in net, NEW n \in Nat, NEW asks, DOMAIN asks = 1..n, Proper(asks), NEW T,
         T = Board!Send(Board!WithoutSections(Board!Without(c)), asks)
  PROVE \E f, F : Flow(f, net \ {c}, T, F, "sections") /\ Asking(F, asks, TRUE)
  <1>1. PICK W : W = Board!Without(c) OBVIOUS
  <1>2. PICK e : Flow(e, net \ {c}, W, {}, "none") BY <1>1, FlowResume
  <1>3. PICK S : S = Board!WithoutSections(W) OBVIOUS
  <1>4. PICK g : Moved(g, W, S, {}) /\ Marked(g, W, "sections") BY <1>2, <1>3, SectionsMarked DEF Flow
  <1>5. Numbered(S) /\ Shaped(S) BY <1>2, <1>3, SectionsMarked DEF Flow
  <1>6. T = Send(S, asks) BY <1>1, <1>3, BoardSend
  <1>7. PICK h : Moved(h, S, T, T \ S) /\ Intact(h, S) BY <1>5, <1>6, SendMoved
  <1>8. Asking(T \ S, asks, TRUE) BY <1>5, <1>6, SendMoved
  <1>9. Numbered(T) BY <1>5, <1>6, SendNumbered
  <1>10. PICK k : Moved(k, net \ {c}, S, {}) /\ \A q \in net \ {c} : k[q] = g[e[q]] /\ e[q] \in W
    BY <1>2, <1>4, MovedTwice DEF Flow
  <1>11. PICK f : Moved(f, net \ {c}, T, T \ S) /\ \A q \in net \ {c} : f[q] = h[k[q]] /\ k[q] \in S
    BY <1>7, <1>10, MovedTwice
  <1>12. Marked(f, net \ {c}, "sections")
    <2>1. \A q \in net \ {c} : f[q].arg = k[q].arg /\ (f[q].here <=> k[q].here) BY <1>7, <1>11 DEF Intact
    <2>2. SUFFICES ASSUME NEW q \in net \ {c}
          PROVE /\ k[q].here <=> q.here /\ ~Cut(q, "sections")
                /\ q.op # "create" => k[q].arg = q.arg
                /\ q.op = "create" =>
                     /\ k[q].arg = [up |-> q.arg.up, for |-> q.arg.for, picked |-> q.arg.picked, mine |-> k[q].arg.mine]
                     /\ k[q].arg.mine <=> (q.arg.mine /\ "sections" = "none")
      BY <2>1 DEF Marked
    <2>3. PICK w \in W : w = e[q] BY <1>10
    <2>4. k[q] = g[w] BY <1>10, <2>3
    <2>5. /\ w.op = q.op /\ (w.here <=> q.here) /\ (q.op # "create" => w.arg = q.arg)
          /\ q.op = "create" =>
               w.arg = [up |-> q.arg.up, for |-> q.arg.for, picked |-> q.arg.picked, mine |-> w.arg.mine]
      BY <1>2, <2>3 DEF Flow, Moved, Marked, Cut
    <2>6. Cut(w, "sections") <=> Cut(q, "sections") BY <2>5 DEF Cut
    <2>7. /\ k[q].here <=> w.here /\ ~Cut(w, "sections")
          /\ w.op # "create" => k[q].arg = w.arg
          /\ w.op = "create" =>
               /\ k[q].arg = [up |-> w.arg.up, for |-> w.arg.for, picked |-> w.arg.picked, mine |-> k[q].arg.mine]
               /\ ~k[q].arg.mine
      BY <1>4, <2>4 DEF Marked
    <2>8. QED BY <2>5, <2>6, <2>7
  <1>13. Shaped(net \ {c}) BY DEF Shaped, Shape
  <1>14. QED BY <1>8, <1>9, <1>11, <1>12, <1>13, FlowShaped

-----------------------------------------------------------------------------
(* The invariant. *)

IsAi(ai) == ai = [of |-> ai.of, open |-> ai.open, loading |-> ai.loading, applying |-> ai.applying,
                  tries |-> ai.tries, cur |-> ai.cur]
IsModal(m) ==
  \/ m = Board!NoModal
  \/ /\ m.for \in Nat
     /\ m = [for |-> m.for, pillar |-> m.pillar, obj |-> m.obj, pillars |-> m.pillars, objs |-> m.objs,
             listing |-> m.listing, picked |-> m.picked, busy |-> m.busy]
IsView(v) ==
  /\ v = [plan |-> v.plan, acts |-> v.acts, pillars |-> v.pillars, objs |-> v.objs, loading |-> v.loading,
          busy |-> v.busy, open |-> v.open, from |-> v.from, modal |-> v.modal, target |-> v.target,
          deleting |-> v.deleting, ai |-> v.ai]
  /\ IsModal(v.modal) /\ IsAi(v.ai)
IsDb(d) ==
  /\ d = [page |-> d.page, edit |-> d.edit, del |-> d.del, next |-> d.next,
          pillars |-> d.pillars, objs |-> d.objs, acts |-> d.acts]
  /\ d.page = "board" /\ d.next \in Nat
  /\ \A r \in d.objs : r = [id |-> r.id, up |-> r.up, t |-> r.t]
  /\ \A r \in d.pillars : r = [id |-> r.id, t |-> r.t]

\* Rows are numbered from below n.
Aged(rows, n) == \A r \in rows : r.id \in Nat /\ r.id < n
AgedLists(l, n) == Aged(l.pillars, n) /\ Aged(l.objs, n)
\* The objective of the dialog is the one it was opened from, or the user's choice, or
\* that one is gone; so is that of an activity which is being created.
Untouched(m, objs) == m.for # None /\ m.obj # m.for /\ ~m.picked => m.for \notin Board!Ids(objs)
Asked(c, objs) == c.arg.up # c.arg.for /\ ~c.arg.picked => c.arg.for \notin Board!Ids(objs)
WhereCalls(calls, d) ==
  /\ \A c \in calls : c.op = "lists" /\ c.st = "ok" => AgedLists(c.ans, d.next)
  /\ \A c \in calls : c.op = "create" => c.arg.for \in Nat /\ c.arg.for < d.next /\ Asked(c, d.objs)
WhereView(calls, v, d) ==
  /\ AgedLists(v, d.next)
  /\ v.modal.for # None => v.modal.for < d.next
  /\ Untouched(v.modal, d.objs)
  /\ \A c \in calls : c.op = "modalLists" /\ c.here =>
       /\ v.modal.for # None
       /\ c.st = "ok" => v.modal.for \in Board!Ids(c.ans.objs) \/ v.modal.for \notin Board!Ids(d.objs)


\* A page whose plan is not loaded awaits nothing else.
Opens(calls, v) == ~v.plan => \A c \in calls : c.here => c.op = "plan"
\* What the page shows as under way is.
Handlers == {"addPillar", "setPillar", "delPillar", "addObjective", "setObjective", "delObjective"}
Busy(calls, v) ==
  /\ v.loading /\ v.plan => \E c \in calls : c.here /\ c.op = "lists"
  /\ v.busy => \E c \in calls : c.here /\ c.op \in Handlers
  /\ v.deleting => \E c \in calls : c.here /\ c.op = "delActivity"
  /\ v.ai.loading => v.ai.of \in Nat /\ \E c \in calls : c.here /\ c.op = "draft" /\ c.arg.of = v.ai.of
  /\ v.ai.applying => \E c \in calls : c.here /\ c.op = "fan" /\ c.arg.of = v.ai.of
  /\ v.modal.for # None /\ v.modal.busy => \E c \in calls : c.here /\ c.op = "create" /\ c.arg.mine
  /\ v.modal.for # None /\ v.modal.listing => v.loading \/ \E c \in calls : c.here /\ c.op = "modalLists"

\* What the page shows is what is stored, or it will load it again.
ListWrites == Handlers \cup {"fan"}
ActWrites == {"create", "fan", "delActivity"}
Synced(calls, v, lists, rows) ==
  /\ \A c \in calls : ~c.here /\ c.op \notin {"modalLists", "draft"} => ~v.plan /\ \A d \in calls : d.here => c.id < d.id
  /\ ~v.plan => \E c \in calls : c.here /\ c.op = "plan"
  /\ \A c \in calls : c.here /\ c.op = "lists" =>
       /\ c.st \in {"sent", "ok"}
       /\ c.st = "ok" => c.ans = lists \/ \E w \in calls : w.here /\ w.op \in ListWrites /\ w.st = "ok" /\ w.id > c.id
  /\ \A c \in calls : c.here /\ c.op = "plan" =>
       /\ c.st \in {"sent", "ok"}
       /\ c.st = "ok" => c.ans = rows \/ \E w \in calls : w.here /\ w.op \in ActWrites /\ w.st = "ok" /\ w.id > c.id
  /\ v.plan => \/ v.pillars = lists.pillars /\ v.objs = lists.objs
               \/ \E c \in calls : c.here /\ (c.op \in {"lists", "fan"} \/ (c.op \in ListWrites /\ c.st = "ok"))
  /\ v.plan => \/ v.acts = rows
               \/ \E c \in calls : c.here /\ (c.op \in {"plan", "fan"} \/ (c.op \in ActWrites /\ c.st = "ok"))

BoardRequests == Numbered(net) /\ Shaped(net) /\ (~mixed => Ordered(net))
Mounted ==
  /\ IsView(view) /\ WhereView(net, view, db) /\ Opens(net, view) /\ Busy(net, view)
  /\ ~mixed /\ lost = 0 => Synced(net, view, Board!Lists, Board!Live)
Away == \A c \in net : ~c.here
BoardInv ==
  /\ IsDb(db) /\ AgedLists(db, db.next) /\ lost \in Nat
  /\ BoardRequests /\ WhereCalls(net, db)
  /\ (page = "board" /\ Mounted) \/ (page = "away" /\ Away)

-----------------------------------------------------------------------------
(* What a step of the page must see to: `gone` is answered, F is sent, the   *)
(* components `mark` names are unmounted and v is shown.                     *)

\* The dialog and the lists.
Placed(v, F, mark) ==
  /\ AgedLists(v, db.next)
  /\ v.modal.for # None => v.modal.for < db.next
  /\ Untouched(v.modal, db.objs)
  /\ v.modal.for = view.modal.for \/ view.modal.for = None \/ mark # "none"
  /\ \A x \in F : x.op = "modalLists" => v.modal.for # None
NewCalls(F) == \A x \in F : x.op = "create" => x.arg.for \in Nat /\ x.arg.for < db.next /\ Asked(x, db.objs)
\* What is shown as under way.
Awaited(v, gone, F, mark) ==
  /\ v.loading /\ v.plan => \/ \E x \in F : x.op = "lists"
                            \/ view.loading /\ view.plan /\ \A c \in gone : c.op # "lists"
  /\ v.busy => \/ \E x \in F : x.op \in Handlers
               \/ view.busy /\ \A c \in gone : c.op \notin Handlers
  /\ v.deleting => \/ \E x \in F : x.op = "delActivity"
                   \/ view.deleting /\ \A c \in gone : c.op # "delActivity"
  /\ v.ai.loading => \/ v.ai.of \in Nat /\ \E x \in F : x.op = "draft" /\ x.arg.of = v.ai.of
                     \/ /\ view.ai.loading /\ v.ai.of = view.ai.of /\ (mark = "sections" => v.ai.of \in {None, 0})
                        /\ \A c \in gone : c.op # "draft"
  /\ v.ai.applying => \/ \E x \in F : x.op = "fan" /\ x.arg.of = v.ai.of
                      \/ /\ view.ai.applying /\ v.ai.of = view.ai.of
                         /\ \A c \in gone : c.op = "fan" => c.arg.of # view.ai.of
  /\ v.modal.for # None /\ v.modal.busy =>
       \/ \E x \in F : x.op = "create" /\ x.arg.mine
       \/ /\ view.modal.for # None /\ view.modal.busy /\ mark = "none"
          /\ \A c \in gone : c.op = "create" => ~c.arg.mine
  /\ v.modal.for # None /\ v.modal.listing =>
       \/ v.loading
       \/ \E x \in F : x.op = "modalLists"
       \/ /\ view.modal.for # None /\ view.modal.listing /\ ~view.loading /\ mark = "none"
          /\ \A c \in gone : c.op # "modalLists"
\* What is stored, or will be loaded again.
Truthful(v, gone, F) ==
  /\ v.plan /\ ~view.plan => gone # {}
  /\ ~v.plan => ~view.plan /\ gone = {}
  /\ v.plan => \/ \E x \in F : x.op \in {"lists", "fan"}
               \/ /\ view.plan /\ v.pillars = view.pillars /\ v.objs = view.objs
                  /\ \A c \in gone : c.op \notin {"lists", "fan"} /\ (c.op \in ListWrites => c.st # "ok")
               \/ \E c \in gone : c.op = "lists" /\ c.st = "ok" /\ v.pillars = c.ans.pillars /\ v.objs = c.ans.objs
  /\ v.plan => \/ \E x \in F : x.op \in {"plan", "fan"}
               \/ /\ view.plan /\ v.acts = view.acts
                  /\ \A c \in gone : c.op \notin {"plan", "fan"} /\ (c.op \in ActWrites => c.st # "ok")
               \/ \E c \in gone : c.op = "plan" /\ c.st = "ok" /\ v.acts = c.ans

LEMMA OrderedKept == ASSUME Numbered(net), Ordered(net), NEW R, R \subseteq net, NEW f, NEW T, NEW F, Numbered(T), Moved(f, R, T, F)
  PROVE Ordered(T)
  <1>1. SUFFICES ASSUME NEW c \in T, NEW d \in T, c.id < d.id, d.st # "sent" PROVE c.st # "sent" BY DEF Ordered
  <1>2. d \notin F BY <1>1 DEF Moved
  <1>3. PICK q \in R : d = f[q] BY <1>2 DEF Moved
  <1>4. CASE c \in F
    <2>1. d.id < c.id BY <1>3, <1>4 DEF Moved
    <2>2. Cardinality(T) \in Nat BY FS_CardinalityType DEF Numbered
    <2>3. c.id \in Nat /\ d.id \in Nat BY <2>2 DEF Numbered
    <2>4. QED BY <1>1, <2>1, <2>3
  <1>5. CASE c \notin F
    <2>1. PICK p \in R : c = f[p] BY <1>5 DEF Moved
    <2>2. p.id < q.id /\ q.st # "sent" BY <1>1, <1>3, <2>1 DEF Moved
    <2>3. p.st # "sent" BY <2>2 DEF Ordered
    <2>4. QED BY <2>1, <2>3 DEF Moved
  <1>6. QED BY <1>4, <1>5

LEMMA CallsKept == ASSUME WhereCalls(net, db), NEW R, R \subseteq net, NEW f, NEW T, NEW F, NEW mark, Flow(f, R, T, F, mark), NewCalls(F)
  PROVE WhereCalls(T, db)
  <1>1. \A c \in F : c.st = "sent" BY DEF Flow, Moved
  <1>2. \A c \in T \ F : \E q \in R : c = f[q] BY DEF Flow, Moved
  <1>3. \A q \in R : /\ f[q].op = q.op /\ f[q].st = q.st /\ f[q].ans = q.ans
                     /\ q.op = "create" => f[q].arg.up = q.arg.up /\ f[q].arg.for = q.arg.for /\ f[q].arg.picked = q.arg.picked
    <2>1. \A q \in R : f[q].op = q.op /\ f[q].st = q.st /\ f[q].ans = q.ans BY DEF Flow, Moved
    <2>2. \A q \in R : q.op = "create" =>
            f[q].arg = [up |-> q.arg.up, for |-> q.arg.for, picked |-> q.arg.picked, mine |-> f[q].arg.mine]
      BY DEF Flow, Marked
    <2>3. \A q \in R : q.op = "create" => f[q].arg.up = q.arg.up /\ f[q].arg.for = q.arg.for /\ f[q].arg.picked = q.arg.picked
      <3>1. SUFFICES ASSUME NEW q \in R, q.op = "create"
                     PROVE f[q].arg.up = q.arg.up /\ f[q].arg.for = q.arg.for /\ f[q].arg.picked = q.arg.picked
        OBVIOUS
      <3>2. PICK m : f[q].arg = [up |-> q.arg.up, for |-> q.arg.for, picked |-> q.arg.picked, mine |-> m] BY <2>2, <3>1
      <3>3. QED BY <3>2
    <2>4. QED BY <2>1, <2>3
  <1>4. \A c \in T : c.op = "lists" /\ c.st = "ok" => AgedLists(c.ans, db.next)
    BY <1>1, <1>2, <1>3 DEF WhereCalls
  <1>5. \A c \in T : c.op = "create" => c.arg.for \in Nat /\ c.arg.for < db.next /\ Asked(c, db.objs)
    <2>1. SUFFICES ASSUME NEW c \in T, c.op = "create" PROVE c.arg.for \in Nat /\ c.arg.for < db.next /\ Asked(c, db.objs)
      OBVIOUS
    <2>2. CASE c \in F BY <2>1, <2>2 DEF NewCalls
    <2>3. CASE c \notin F
      <3>1. PICK q \in R : c = f[q] BY <1>2, <2>3
      <3>2. q.op = "create" BY <1>3, <2>1, <3>1
      <3>3. q.arg.for \in Nat /\ q.arg.for < db.next /\ Asked(q, db.objs) BY <3>2 DEF WhereCalls
      <3>4. QED BY <1>3, <3>1, <3>2, <3>3 DEF Asked
    <2>4. QED BY <2>2, <2>3
  <1>6. QED BY <1>4, <1>5 DEF WhereCalls

LEMMA PlaceKept ==
  ASSUME WhereView(net, view, db), NEW R, R \subseteq net, NEW f, NEW T, NEW F, NEW mark, Flow(f, R, T, F, mark), NEW v, Placed(v, F, mark)
  PROVE  WhereView(T, v, db)
  <1>1. SUFFICES ASSUME NEW c \in T, c.op = "modalLists", c.here
        PROVE /\ v.modal.for # None
              /\ c.st = "ok" => v.modal.for \in Board!Ids(c.ans.objs) \/ v.modal.for \notin Board!Ids(db.objs)
    BY DEF WhereView, Placed
  <1>2. CASE c \in F BY <1>1, <1>2 DEF Placed, Flow, Moved
  <1>3. CASE c \notin F
    <2>1. PICK q \in R : c = f[q] BY <1>3 DEF Flow, Moved
    <2>a. q.op = c.op /\ q.st = c.st /\ q.ans = c.ans BY <2>1 DEF Flow, Moved
    <2>b. q.here /\ ~Cut(q, mark) BY <1>1, <2>1 DEF Flow, Marked
    <2>2. q.op = c.op /\ q.st = c.st /\ q.ans = c.ans /\ q.here /\ mark = "none"
      BY <1>1, <2>a, <2>b DEF Cut
    <2>3. /\ view.modal.for # None
          /\ q.st = "ok" => view.modal.for \in Board!Ids(q.ans.objs) \/ view.modal.for \notin Board!Ids(db.objs)
      BY <1>1, <2>2 DEF WhereView
    <2>4. v.modal.for = view.modal.for BY <2>2, <2>3 DEF Placed
    <2>5. QED BY <2>2, <2>3, <2>4
  <1>4. QED BY <1>2, <1>3

\* A request that is not unmounted and not answered is still awaited.
LEMMA StillAwaited == ASSUME NEW R, NEW f, NEW T, NEW F, NEW mark, Flow(f, R, T, F, mark), NEW q \in R, q.here, ~Cut(q, mark)
  PROVE /\ f[q] \in T /\ f[q].here /\ f[q].op = q.op /\ f[q].st = q.st /\ f[q].ans = q.ans
        /\ q.op # "create" => f[q].arg = q.arg
        /\ q.op = "create" => (f[q].arg.mine <=> q.arg.mine /\ mark = "none")
  BY DEF Flow, Moved, Marked

LEMMA BusyKept ==
  ASSUME None \notin Nat, Busy(net, view), NEW out, NEW gone, \A c \in out : c.here => c \in gone,
         NEW f, NEW T, NEW N, NEW mark, Flow(f, net \ out, T, N, mark), NEW F, F \subseteq N, \A x \in F : x.here,
         NEW v, Awaited(v, gone, F, mark)
  PROVE  Busy(T, v)
  <1> DEFINE R == net \ out
  <1>f. F \subseteq T BY DEF Flow, Moved
  <1>1. v.loading /\ v.plan => \E c \in T : c.here /\ c.op = "lists"
    <2>1. SUFFICES ASSUME view.loading /\ view.plan /\ \A c \in gone : c.op # "lists"
                   PROVE \E c \in T : c.here /\ c.op = "lists"
      BY <1>f DEF Awaited
    <2>2. PICK q \in R : q.here /\ q.op = "lists" BY <2>1 DEF Busy
    <2>3. ~Cut(q, mark) BY <2>2 DEF Cut
    <2>4. QED BY <2>2, <2>3, StillAwaited
  <1>2. v.busy => \E c \in T : c.here /\ c.op \in Handlers
    <2>1. SUFFICES ASSUME view.busy /\ \A c \in gone : c.op \notin Handlers
                   PROVE \E c \in T : c.here /\ c.op \in Handlers
      BY <1>f DEF Awaited
    <2>2. PICK q \in R : q.here /\ q.op \in Handlers BY <2>1 DEF Busy
    <2>3. ~Cut(q, mark) BY <2>2 DEF Cut, Handlers
    <2>4. QED BY <2>2, <2>3, StillAwaited
  <1>3. v.deleting => \E c \in T : c.here /\ c.op = "delActivity"
    <2>1. SUFFICES ASSUME view.deleting /\ \A c \in gone : c.op # "delActivity"
                   PROVE \E c \in T : c.here /\ c.op = "delActivity"
      BY <1>f DEF Awaited
    <2>2. PICK q \in R : q.here /\ q.op = "delActivity" BY <2>1 DEF Busy
    <2>3. ~Cut(q, mark) BY <2>2 DEF Cut
    <2>4. QED BY <2>2, <2>3, StillAwaited
  <1>4. v.ai.loading => v.ai.of \in Nat /\ \E c \in T : c.here /\ c.op = "draft" /\ c.arg.of = v.ai.of
    <2>1. SUFFICES ASSUME /\ view.ai.loading /\ v.ai.of = view.ai.of /\ (mark = "sections" => v.ai.of \in {None, 0})
                          /\ \A c \in gone : c.op # "draft"
                   PROVE v.ai.of \in Nat /\ \E c \in T : c.here /\ c.op = "draft" /\ c.arg.of = v.ai.of
      BY <1>f DEF Awaited
    <2>2. PICK q \in R : q.here /\ q.op = "draft" /\ q.arg.of = v.ai.of BY <2>1 DEF Busy
    <2>3. v.ai.of \in Nat BY <2>1 DEF Busy
    <2>4. ~Cut(q, mark) BY <2>1, <2>2, <2>3 DEF Cut
    <2>5. f[q] \in T /\ f[q].here /\ f[q].op = q.op /\ (q.op # "create" => f[q].arg = q.arg) BY <2>2, <2>4, StillAwaited
    <2>6. QED BY <2>2, <2>3, <2>5
  <1>5. v.ai.applying => \E c \in T : c.here /\ c.op = "fan" /\ c.arg.of = v.ai.of
    <2>1. SUFFICES ASSUME /\ view.ai.applying /\ v.ai.of = view.ai.of
                          /\ \A c \in gone : c.op = "fan" => c.arg.of # view.ai.of
                   PROVE \E c \in T : c.here /\ c.op = "fan" /\ c.arg.of = v.ai.of
      BY <1>f DEF Awaited
    <2>2. PICK q \in R : q.here /\ q.op = "fan" /\ q.arg.of = v.ai.of BY <2>1 DEF Busy
    <2>3. ~Cut(q, mark) BY <2>2 DEF Cut
    <2>4. f[q] \in T /\ f[q].here /\ f[q].op = q.op /\ (q.op # "create" => f[q].arg = q.arg) BY <2>2, <2>3, StillAwaited
    <2>5. QED BY <2>2, <2>4
  <1>6. v.modal.for # None /\ v.modal.busy => \E c \in T : c.here /\ c.op = "create" /\ c.arg.mine
    <2>1. SUFFICES ASSUME /\ view.modal.for # None /\ view.modal.busy /\ mark = "none"
                          /\ \A c \in gone : c.op = "create" => ~c.arg.mine
                   PROVE \E c \in T : c.here /\ c.op = "create" /\ c.arg.mine
      BY <1>f DEF Awaited
    <2>2. PICK q \in R : q.here /\ q.op = "create" /\ q.arg.mine BY <2>1 DEF Busy
    <2>3. ~Cut(q, mark) BY <2>2 DEF Cut
    <2>4. f[q] \in T /\ f[q].here /\ f[q].op = q.op /\ (q.op = "create" => (f[q].arg.mine <=> q.arg.mine /\ mark = "none"))
      BY <2>2, <2>3, StillAwaited
    <2>5. QED BY <2>1, <2>2, <2>4
  <1>7. v.modal.for # None /\ v.modal.listing => v.loading \/ \E c \in T : c.here /\ c.op = "modalLists"
    <2>1. SUFFICES ASSUME /\ view.modal.for # None /\ view.modal.listing /\ ~view.loading /\ mark = "none"
                          /\ \A c \in gone : c.op # "modalLists"
                   PROVE \E c \in T : c.here /\ c.op = "modalLists"
      BY <1>f DEF Awaited
    <2>2. PICK q \in R : q.here /\ q.op = "modalLists" BY <2>1 DEF Busy
    <2>3. ~Cut(q, mark) BY <2>1, <2>2 DEF Cut
    <2>4. QED BY <2>2, <2>3, StillAwaited
  <1>8. QED BY <1>1, <1>2, <1>3, <1>4, <1>5, <1>6, <1>7 DEF Busy

\* The requests and the lists of a page that is in step with what is stored.
LEMMA SyncKept ==
  ASSUME Numbered(net), Synced(net, view, Board!Lists, Board!Live), Opens(net, view),
         NEW out, out \subseteq net, \A c \in out : c.id = 1, NEW gone, gone = {c \in out : c.here},
         NEW f, NEW T, NEW F, NEW mark, Flow(f, net \ out, T, F, mark), \A x \in F : x.here,
         NEW v, Truthful(v, gone, F)
  PROVE  Synced(T, v, Board!Lists, Board!Live)
  <1> DEFINE R == net \ out
  <1>f. F \subseteq T /\ \A x \in F : x.st = "sent" BY DEF Flow, Moved
  <1>n. \A q \in net : q.id \in Nat /\ q.id >= 1
    <2>1. Cardinality(net) \in Nat BY FS_CardinalityType DEF Numbered
    <2>2. QED BY <2>1 DEF Numbered
  <1>o. \A c \in T \ F : \E q \in R : c = f[q] BY DEF Flow, Moved
  <1>m. \A q \in R : /\ f[q].op = q.op /\ f[q].st = q.st /\ f[q].ans = q.ans
                     /\ f[q].here <=> q.here /\ ~Cut(q, mark)
    BY DEF Flow, Moved, Marked
  <1>i. \A p, q \in R : f[p].id < f[q].id <=> p.id < q.id BY DEF Flow, Moved
  <1>s. \A w \in net : \A c \in net : w.id > c.id => w \in R
    <2>1. SUFFICES ASSUME NEW w \in net, NEW c \in net, w.id > c.id, w \in out PROVE FALSE OBVIOUS
    <2>2. w.id = 1 BY <2>1
    <2>3. QED BY <1>n, <2>1, <2>2
  <1>1. \A c \in T : ~c.here /\ c.op \notin {"modalLists", "draft"} => ~v.plan /\ \A d \in T : d.here => c.id < d.id
    <2>1. SUFFICES ASSUME NEW c \in T, ~c.here, c.op \notin {"modalLists", "draft"}
                   PROVE ~v.plan /\ \A d \in T : d.here => c.id < d.id
      OBVIOUS
    <2>2. PICK q \in R : c = f[q] BY <1>o, <2>1
    <2>3. ~q.here /\ q.op \notin {"modalLists", "draft"} BY <1>m, <2>1, <2>2 DEF Cut
    <2>4. ~view.plan /\ \A d \in net : d.here => q.id < d.id BY <2>3 DEF Synced
    <2>5. gone = {}
      <3>1. SUFFICES ASSUME NEW g \in gone PROVE FALSE OBVIOUS
      <3>2. g.here /\ g.id = 1 /\ g \in net OBVIOUS
      <3>3. q.id < 1 BY <2>4, <3>2
      <3>4. QED BY <1>n, <3>3
    <2>6. ~v.plan BY <2>4, <2>5 DEF Truthful
    <2>7. SUFFICES ASSUME NEW d \in T, d.here PROVE c.id < d.id BY <2>6
    <2>8. CASE d \in F BY <2>2, <2>8 DEF Flow, Moved
    <2>9. CASE d \notin F
      <3>1. PICK p \in R : d = f[p] BY <1>o, <2>9
      <3>2. p.here BY <1>m, <2>7, <3>1
      <3>3. q.id < p.id BY <2>4, <3>2
      <3>4. QED BY <1>i, <2>2, <3>1, <3>3
    <2>10. QED BY <2>8, <2>9
  <1>2. ~v.plan => \E c \in T : c.here /\ c.op = "plan"
    <2>1. SUFFICES ASSUME ~v.plan PROVE \E c \in T : c.here /\ c.op = "plan" OBVIOUS
    <2>2. ~view.plan /\ gone = {} BY <2>1 DEF Truthful
    <2>3. PICK q \in R : q.here /\ q.op = "plan" BY <2>2 DEF Synced
    <2>4. ~Cut(q, mark) BY <2>3 DEF Cut
    <2>5. QED BY <2>3, <2>4, StillAwaited
  <1>3. \A c \in T : c.here /\ c.op = "lists" =>
         /\ c.st \in {"sent", "ok"}
         /\ c.st = "ok" => c.ans = Board!Lists \/ \E w \in T : w.here /\ w.op \in ListWrites /\ w.st = "ok" /\ w.id > c.id
    <2>1. SUFFICES ASSUME NEW c \in T, c.here, c.op = "lists"
          PROVE /\ c.st \in {"sent", "ok"}
                /\ c.st = "ok" => c.ans = Board!Lists \/ \E w \in T : w.here /\ w.op \in ListWrites /\ w.st = "ok" /\ w.id > c.id
      OBVIOUS
    <2>2. CASE c \in F BY <1>f, <2>2
    <2>3. CASE c \notin F
      <3>1. PICK q \in R : c = f[q] BY <1>o, <2>3
      <3>2. q.here /\ q.op = "lists" /\ q.st = c.st /\ q.ans = c.ans BY <1>m, <2>1, <3>1
      <3>3. /\ q.st \in {"sent", "ok"}
            /\ q.st = "ok" => q.ans = Board!Lists \/ \E w \in net : w.here /\ w.op \in ListWrites /\ w.st = "ok" /\ w.id > q.id
        BY <3>2 DEF Synced
      <3>4. SUFFICES ASSUME NEW w \in net, w.here, w.op \in ListWrites, w.st = "ok", w.id > q.id
                     PROVE \E x \in T : x.here /\ x.op \in ListWrites /\ x.st = "ok" /\ x.id > c.id
        BY <3>2, <3>3
      <3>5. w \in R BY <1>s, <3>4
      <3>6. ~Cut(w, mark) BY <3>4 DEF Cut, ListWrites, Handlers
      <3>7. f[w] \in T /\ f[w].here /\ f[w].op = w.op /\ f[w].st = w.st BY <3>4, <3>5, <3>6, StillAwaited
      <3>8. f[w].id > c.id BY <1>i, <3>1, <3>4, <3>5
      <3>9. QED BY <3>4, <3>7, <3>8
    <2>4. QED BY <2>2, <2>3
  <1>4. \A c \in T : c.here /\ c.op = "plan" =>
         /\ c.st \in {"sent", "ok"}
         /\ c.st = "ok" => c.ans = Board!Live \/ \E w \in T : w.here /\ w.op \in ActWrites /\ w.st = "ok" /\ w.id > c.id
    <2>1. SUFFICES ASSUME NEW c \in T, c.here, c.op = "plan"
          PROVE /\ c.st \in {"sent", "ok"}
                /\ c.st = "ok" => c.ans = Board!Live \/ \E w \in T : w.here /\ w.op \in ActWrites /\ w.st = "ok" /\ w.id > c.id
      OBVIOUS
    <2>2. CASE c \in F BY <1>f, <2>2
    <2>3. CASE c \notin F
      <3>1. PICK q \in R : c = f[q] BY <1>o, <2>3
      <3>2. q.here /\ q.op = "plan" /\ q.st = c.st /\ q.ans = c.ans BY <1>m, <2>1, <3>1
      <3>3. /\ q.st \in {"sent", "ok"}
            /\ q.st = "ok" => q.ans = Board!Live \/ \E w \in net : w.here /\ w.op \in ActWrites /\ w.st = "ok" /\ w.id > q.id
        BY <3>2 DEF Synced
      <3>4. SUFFICES ASSUME NEW w \in net, w.here, w.op \in ActWrites, w.st = "ok", w.id > q.id
                     PROVE \E x \in T : x.here /\ x.op \in ActWrites /\ x.st = "ok" /\ x.id > c.id
        BY <3>2, <3>3
      <3>5. w \in R BY <1>s, <3>4
      <3>6. ~Cut(w, mark) BY <3>4 DEF Cut, ActWrites
      <3>7. f[w] \in T /\ f[w].here /\ f[w].op = w.op /\ f[w].st = w.st BY <3>4, <3>5, <3>6, StillAwaited
      <3>8. f[w].id > c.id BY <1>i, <3>1, <3>4, <3>5
      <3>9. QED BY <3>4, <3>7, <3>8
    <2>4. QED BY <2>2, <2>3
  <1>5. v.plan => \/ v.pillars = Board!Lists.pillars /\ v.objs = Board!Lists.objs
                  \/ \E c \in T : c.here /\ (c.op \in {"lists", "fan"} \/ (c.op \in ListWrites /\ c.st = "ok"))
    <2>1. SUFFICES ASSUME v.plan
          PROVE \/ v.pillars = Board!Lists.pillars /\ v.objs = Board!Lists.objs
                \/ \E c \in T : c.here /\ (c.op \in {"lists", "fan"} \/ (c.op \in ListWrites /\ c.st = "ok"))
      OBVIOUS
    <2>k. ASSUME NEW q \in R, q.here, q.op \in {"lists", "fan"} \/ (q.op \in ListWrites /\ q.st = "ok")
          PROVE \E c \in T : c.here /\ (c.op \in {"lists", "fan"} \/ (c.op \in ListWrites /\ c.st = "ok"))
      <3>1. ~Cut(q, mark) BY <2>k DEF Cut, ListWrites, Handlers
      <3>2. f[q] \in T /\ f[q].here /\ f[q].op = q.op /\ f[q].st = q.st BY <2>k, <3>1, StillAwaited
      <3>3. QED BY <2>k, <3>2
    <2>2. CASE \E x \in F : x.op \in {"lists", "fan"} BY <1>f, <2>2
    <2>3. CASE /\ view.plan /\ v.pillars = view.pillars /\ v.objs = view.objs
               /\ \A c \in gone : c.op \notin {"lists", "fan"} /\ (c.op \in ListWrites => c.st # "ok")
      <3>1. CASE view.pillars = Board!Lists.pillars /\ view.objs = Board!Lists.objs BY <2>3, <3>1
      <3>2. CASE \E c \in net : c.here /\ (c.op \in {"lists", "fan"} \/ (c.op \in ListWrites /\ c.st = "ok"))
        <4>1. PICK q \in net : q.here /\ (q.op \in {"lists", "fan"} \/ (q.op \in ListWrites /\ q.st = "ok")) BY <3>2
        <4>2. q \in R BY <2>3, <4>1
        <4>3. QED BY <2>k, <4>1, <4>2
      <3>3. QED BY <2>3, <3>1, <3>2 DEF Synced
    <2>4. CASE \E c \in gone : c.op = "lists" /\ c.st = "ok" /\ v.pillars = c.ans.pillars /\ v.objs = c.ans.objs
      <3>1. PICK c \in gone : c.op = "lists" /\ c.st = "ok" /\ v.pillars = c.ans.pillars /\ v.objs = c.ans.objs BY <2>4
      <3>2. CASE c.ans = Board!Lists BY <3>1, <3>2
      <3>3. CASE c.ans # Board!Lists
        <4>1. PICK w \in net : w.here /\ w.op \in ListWrites /\ w.st = "ok" /\ w.id > c.id BY <3>1, <3>3 DEF Synced
        <4>2. w \in R BY <1>s, <4>1
        <4>3. QED BY <2>k, <4>1, <4>2
      <3>4. QED BY <3>2, <3>3
    <2>5. QED BY <2>1, <2>2, <2>3, <2>4 DEF Truthful
  <1>6. v.plan => \/ v.acts = Board!Live
                  \/ \E c \in T : c.here /\ (c.op \in {"plan", "fan"} \/ (c.op \in ActWrites /\ c.st = "ok"))
    <2>1. SUFFICES ASSUME v.plan
          PROVE \/ v.acts = Board!Live
                \/ \E c \in T : c.here /\ (c.op \in {"plan", "fan"} \/ (c.op \in ActWrites /\ c.st = "ok"))
      OBVIOUS
    <2>k. ASSUME NEW q \in R, q.here, q.op \in {"plan", "fan"} \/ (q.op \in ActWrites /\ q.st = "ok")
          PROVE \E c \in T : c.here /\ (c.op \in {"plan", "fan"} \/ (c.op \in ActWrites /\ c.st = "ok"))
      <3>1. ~Cut(q, mark) BY <2>k DEF Cut, ActWrites
      <3>2. f[q] \in T /\ f[q].here /\ f[q].op = q.op /\ f[q].st = q.st BY <2>k, <3>1, StillAwaited
      <3>3. QED BY <2>k, <3>2
    <2>2. CASE \E x \in F : x.op \in {"plan", "fan"} BY <1>f, <2>2
    <2>3. CASE /\ view.plan /\ v.acts = view.acts
               /\ \A c \in gone : c.op \notin {"plan", "fan"} /\ (c.op \in ActWrites => c.st # "ok")
      <3>1. CASE view.acts = Board!Live BY <2>3, <3>1
      <3>2. CASE \E c \in net : c.here /\ (c.op \in {"plan", "fan"} \/ (c.op \in ActWrites /\ c.st = "ok"))
        <4>1. PICK q \in net : q.here /\ (q.op \in {"plan", "fan"} \/ (q.op \in ActWrites /\ q.st = "ok")) BY <3>2
        <4>2. q \in R BY <2>3, <4>1
        <4>3. QED BY <2>k, <4>1, <4>2
      <3>3. QED BY <2>3, <3>1, <3>2 DEF Synced
    <2>4. CASE \E c \in gone : c.op = "plan" /\ c.st = "ok" /\ v.acts = c.ans
      <3>1. PICK c \in gone : c.op = "plan" /\ c.st = "ok" /\ v.acts = c.ans BY <2>4
      <3>2. CASE c.ans = Board!Live BY <3>1, <3>2
      <3>3. CASE c.ans # Board!Live
        <4>1. PICK w \in net : w.here /\ w.op \in ActWrites /\ w.st = "ok" /\ w.id > c.id BY <3>1, <3>3 DEF Synced
        <4>2. w \in R BY <1>s, <4>1
        <4>3. QED BY <2>k, <4>1, <4>2
      <3>4. QED BY <3>2, <3>3
    <2>5. QED BY <2>1, <2>2, <2>3, <2>4 DEF Truthful
  <1>7. QED BY <1>1, <1>2, <1>3, <1>4, <1>5, <1>6 DEF Synced

\* What a step of the mounted page that is ready for it leaves behind.
Ready(v, gone, F, mark) ==
  /\ IsView(v) /\ NewCalls(F) /\ Placed(v, F, mark) /\ Awaited(v, gone, F, mark)
  /\ ~v.plan => ~view.plan /\ \A x \in F : x.op = "plan"
  /\ ~mixed /\ lost = 0 => Truthful(v, gone, F)

LEMMA LiveStep ==
  ASSUME None \notin Nat, BoardInv, page = "board", page' = page, db' = db, lost' = lost,
         NEW gone, gone \subseteq net, \A c \in gone : c.here /\ c.st # "sent", \A c, d \in gone : c = d,
         ~mixed' => ~mixed /\ \A c \in gone : c.id <= 1,
         NEW f, NEW F, NEW mark, Flow(f, net \ gone, net', F, mark), \A x \in F : x.here,
         NEW v, view' = v, Ready(v, gone, F, mark)
  PROVE  BoardInv'
  <1>1. Mounted /\ BoardRequests /\ WhereCalls(net, db) /\ IsDb(db) /\ AgedLists(db, db.next) /\ lost \in Nat BY DEF BoardInv
  <1>2. PICK T : T = net' OBVIOUS
  <1>3. Flow(f, net \ gone, T, F, mark) BY <1>2
  <1>4. WhereCalls(T, db) BY <1>1, <1>3, CallsKept DEF Ready
  <1>5. WhereView(T, v, db) BY <1>1, <1>3, PlaceKept DEF Ready, Mounted
  <1>6. Busy(T, v) BY <1>1, <1>3, BusyKept DEF Ready, Mounted
  <1>g. gone = {c \in gone : c.here} OBVIOUS
  <1>7. Numbered(T) /\ Shaped(T) BY <1>3 DEF Flow
  <1>8. ~mixed' => Ordered(T)
    <2>1. SUFFICES ASSUME ~mixed' PROVE Ordered(T) OBVIOUS
    <2>2. Numbered(net) /\ Ordered(net) BY <1>1, <2>1 DEF BoardRequests
    <2>3. Moved(f, net \ gone, T, F) BY <1>3 DEF Flow
    <2>4. QED BY <1>7, <2>2, <2>3, OrderedKept
  <1>9. Opens(T, v)
    <2>1. SUFFICES ASSUME ~v.plan, NEW c \in T, c.here PROVE c.op = "plan" BY DEF Opens
    <2>2. CASE c \in F BY <2>1, <2>2 DEF Ready
    <2>3. CASE c \notin F
      <3>1. PICK q \in net \ gone : c = f[q] BY <1>3, <2>3 DEF Flow, Moved
      <3>2. q.here /\ q.op = c.op BY <1>3, <2>1, <3>1 DEF Flow, Moved, Marked
      <3>3. QED BY <1>1, <2>1, <3>2 DEF Ready, Mounted, Opens
    <2>4. QED BY <2>2, <2>3
  <1>10. ~mixed' /\ lost = 0 => Synced(T, v, Board!Lists, Board!Live)
    <2>1. SUFFICES ASSUME ~mixed', lost = 0 PROVE Synced(T, v, Board!Lists, Board!Live) OBVIOUS
    <2>2. Truthful(v, gone, F) /\ Synced(net, view, Board!Lists, Board!Live) /\ Opens(net, view) /\ Numbered(net)
      BY <1>1, <2>1 DEF Ready, Mounted, BoardRequests
    <2>3. \A c \in gone : c.id = 1
      <3>1. Cardinality(net) \in Nat BY <2>2, FS_CardinalityType DEF Numbered
      <3>2. \A c \in net : c.id \in Nat /\ c.id >= 1 BY <2>2, <3>1 DEF Numbered
      <3>3. QED BY <2>1, <3>2
    <2>4. QED BY <1>3, <1>g, <2>2, <2>3, SyncKept
  <1>11. Board!Lists' = Board!Lists /\ Board!Live' = Board!Live BY DEF Board!Lists, Board!Live
  <1>12. Mounted'
    <2>1. IsView(v) BY DEF Ready
    <2>2. WhereView(net, view, db)' /\ Opens(net, view)' /\ Busy(net, view)' /\ IsView(view)'
      BY <1>2, <1>5, <1>6, <1>9, <2>1
    <2>3. ~mixed' /\ lost' = 0 => Synced(net', view', Board!Lists', Board!Live') BY <1>2, <1>10, <1>11
    <2>4. QED BY <2>2, <2>3 DEF Mounted
  <1>13. BoardRequests' BY <1>2, <1>7, <1>8 DEF BoardRequests
  <1>14. QED BY <1>1, <1>2, <1>4, <1>12, <1>13 DEF BoardInv

One(op, arg) == << <<op, arg>> >>
\* A gesture changes the page only ...
LEMMA LocalStep == ASSUME None \notin Nat, BoardInv, page = "board", NEW v, Board!Local(v), Ready(v, {}, {}, "none") PROVE BoardInv'
  <1>1. Numbered(net) /\ Shaped(net) BY DEF BoardInv, BoardRequests
  <1>2. PICK f : Flow(f, net, net, {}, "none") BY <1>1, FlowStill
  <1>3. page' = page /\ db' = db /\ lost' = lost /\ mixed' = mixed /\ net' = net /\ view' = v BY DEF Board!Local
  <1>4. Flow(f, net \ {}, net', {}, "none") BY <1>2, <1>3
  <1>5. QED BY <1>3, <1>4, LiveStep
\* ... or starts requests.
LEMMA AskStep ==
  ASSUME None \notin Nat, BoardInv, page = "board", NEW v, NEW n \in Nat, NEW asks, DOMAIN asks = 1..n, Proper(asks), Board!Asks(asks, v),
         \A F : Asking(F, asks, TRUE) => Ready(v, {}, F, "none")
  PROVE  BoardInv'
  <1>1. Numbered(net) /\ Shaped(net) BY DEF BoardInv, BoardRequests
  <1>2. page' = page /\ db' = db /\ lost' = lost /\ mixed' = mixed /\ net' = Board!Send(net, asks) /\ view' = v BY DEF Board!Asks
  <1>3. PICK f, F : Flow(f, net, net', F, "none") /\ Asking(F, asks, TRUE) BY <1>1, <1>2, FlowSend
  <1>4. Flow(f, net \ {}, net', F, "none") BY <1>3
  <1>5. \A x \in F : x.here BY <1>3 DEF Asking
  <1>6. QED BY <1>2, <1>3, <1>4, <1>5, LiveStep
\* A handler of the mounted page ends ...
LEMMA ResumeStep ==
  ASSUME None \notin Nat, BoardInv, page = "board", NEW c \in net, c.here, NEW v, Board!Resume(c, v), Ready(v, {c}, {}, "none")
  PROVE  BoardInv'
  <1>1. Numbered(net) /\ Shaped(net) BY DEF BoardInv, BoardRequests
  <1>2. page' = page /\ db' = db /\ lost' = lost /\ net' = Board!Without(c) /\ view' = v /\ c.st # "sent" /\ mixed' = (mixed \/ c.id > 1)
    BY DEF Board!Resume, Board!Answered, Board!AnsweredWith
  <1>3. PICK f : Flow(f, net \ {c}, net', {}, "none") BY <1>1, <1>2, FlowResume
  <1>4. ~mixed' => ~mixed /\ c.id <= 1
    <2>1. Cardinality(net) \in Nat BY <1>1, FS_CardinalityType DEF Numbered
    <2>2. c.id \in Nat BY <1>1, <2>1 DEF Numbered
    <2>3. ~mixed' => ~mixed /\ ~(c.id > 1) BY <1>2
    <2>4. QED BY <2>2, <2>3
  <1>5. QED BY <1>2, <1>3, <1>4, LiveStep
\* ... or sends other requests first ...
LEMMA ResumeAsksStep ==
  ASSUME None \notin Nat, BoardInv, page = "board", NEW c \in net, c.here, NEW v, NEW n \in Nat, NEW asks, DOMAIN asks = 1..n, Proper(asks),
         Board!ResumeAsks(c, asks, v), \A F : Asking(F, asks, TRUE) => Ready(v, {c}, F, "none")
  PROVE  BoardInv'
  <1>1. Numbered(net) /\ Shaped(net) BY DEF BoardInv, BoardRequests
  <1>2. /\ page' = page /\ db' = db /\ lost' = lost /\ view' = v /\ c.st # "sent" /\ mixed' = (mixed \/ c.id > 1)
        /\ net' = Board!Without(c) \cup {[r EXCEPT !.here = c.here] : r \in Board!Send(Board!Without(c), asks) \ Board!Without(c)}
    BY DEF Board!ResumeAsks, Board!Answered, Board!AnsweredWith
  <1>3. PICK f, F : Flow(f, net \ {c}, net', F, "none") /\ Asking(F, asks, c.here) BY <1>1, <1>2, FlowAsks
  <1>4. ~mixed' => ~mixed /\ c.id <= 1
    <2>1. Cardinality(net) \in Nat BY <1>1, FS_CardinalityType DEF Numbered
    <2>2. c.id \in Nat BY <1>1, <2>1 DEF Numbered
    <2>3. ~mixed' => ~mixed /\ ~(c.id > 1) BY <1>2
    <2>4. QED BY <2>2, <2>3
  <1>5. Asking(F, asks, TRUE) /\ \A x \in F : x.here BY <1>3 DEF Asking
  <1>6. QED BY <1>2, <1>3, <1>4, <1>5, LiveStep
\* ... or loads everything again.
LEMMA EndStep ==
  ASSUME None \notin Nat, BoardInv, page = "board", NEW c \in net, c.here, NEW v, NEW n \in Nat, NEW asks, DOMAIN asks = 1..n, Proper(asks),
         Board!Answered(c, Board!Send(Board!WithoutSections(Board!Without(c)), asks), v), \A F : Asking(F, asks, TRUE) => Ready(v, {c}, F, "sections")
  PROVE  BoardInv'
  <1>1. Numbered(net) /\ Shaped(net) BY DEF BoardInv, BoardRequests
  <1>2. /\ page' = page /\ db' = db /\ lost' = lost /\ view' = v /\ c.st # "sent" /\ mixed' = (mixed \/ c.id > 1)
        /\ net' = Board!Send(Board!WithoutSections(Board!Without(c)), asks)
    BY DEF Board!Answered, Board!AnsweredWith
  <1>3. PICK f, F : Flow(f, net \ {c}, net', F, "sections") /\ Asking(F, asks, TRUE) BY <1>1, <1>2, FlowEnd
  <1>4. ~mixed' => ~mixed /\ c.id <= 1
    <2>1. Cardinality(net) \in Nat BY <1>1, FS_CardinalityType DEF Numbered
    <2>2. c.id \in Nat BY <1>1, <2>1 DEF Numbered
    <2>3. ~mixed' => ~mixed /\ ~(c.id > 1) BY <1>2
    <2>4. QED BY <2>2, <2>3
  <1>5. \A x \in F : x.here BY <1>3 DEF Asking
  <1>6. QED BY <1>2, <1>3, <1>4, <1>5, LiveStep

\* A handler of a page, a dialog or a section that is gone ends, or sends requests.
LEMMA OrphanStep ==
  ASSUME None \notin Nat, BoardInv, NEW c \in net, ~c.here, UNCHANGED <<page, view, db, lost>>,
         NEW f, NEW F, Flow(f, net \ {c}, net', F, "none"), \A x \in F : ~x.here /\ x.op \notin {"create", "modalLists"},
         ~mixed' => ~mixed /\ c.id <= 1 /\ F = {}
  PROVE  BoardInv'
  <1>1. BoardRequests /\ WhereCalls(net, db) /\ IsDb(db) /\ AgedLists(db, db.next) /\ lost \in Nat BY DEF BoardInv
  <1>2. PICK T : T = net' OBVIOUS
  <1>3. Flow(f, net \ {c}, T, F, "none") BY <1>2
  <1>4. WhereCalls(T, db)
    <2>1. NewCalls(F) BY DEF NewCalls
    <2>2. net \ {c} \subseteq net OBVIOUS
    <2>3. QED BY <1>1, <1>3, <2>1, <2>2, CallsKept
  <1>5. Numbered(T) /\ Shaped(T) BY <1>3 DEF Flow
  <1>6. ~mixed' => Ordered(T)
    <2>1. SUFFICES ASSUME ~mixed' PROVE Ordered(T) OBVIOUS
    <2>2. Numbered(net) /\ Ordered(net) BY <1>1, <2>1 DEF BoardRequests
    <2>3. Moved(f, net \ {c}, T, F) BY <1>3 DEF Flow
    <2>4. net \ {c} \subseteq net OBVIOUS
    <2>5. QED BY <1>5, <2>2, <2>3, <2>4, OrderedKept
  <1>7. BoardRequests' BY <1>2, <1>5, <1>6 DEF BoardRequests
  <1>8. \A x \in T : x.here => \E q \in net \ {c} : q.here /\ q.op = x.op
    <2>1. SUFFICES ASSUME NEW x \in T, x.here PROVE \E q \in net \ {c} : q.here /\ q.op = x.op OBVIOUS
    <2>2. x \notin F BY <2>1
    <2>3. PICK q \in net \ {c} : x = f[q] BY <1>3, <2>2 DEF Flow, Moved
    <2>4. QED BY <1>3, <2>1, <2>3 DEF Flow, Moved, Marked
  <1>9. ASSUME page = "away", Away PROVE Away' BY <1>2, <1>8, <1>9 DEF Away
  <1>10. ASSUME page = "board", Mounted PROVE Mounted'
    <2>1. WhereView(T, view, db)
      <3>1. Placed(view, F, "none") BY <1>10 DEF Mounted, Placed, WhereView
      <3>2. WhereView(net, view, db) BY <1>10 DEF Mounted
      <3>3. net \ {c} \subseteq net OBVIOUS
      <3>4. QED BY <1>3, <3>1, <3>2, <3>3, PlaceKept
    <2>2. Busy(T, view)
      <3>1. PICK N : N = {} OBVIOUS
      <3>2. Busy(net, view) BY <1>10 DEF Mounted
      <3>3. Awaited(view, N, N, "none") BY <3>1, <3>2 DEF Busy, Awaited
      <3>4. \A d \in {c} : d.here => d \in N OBVIOUS
      <3>5. N \subseteq F /\ \A x \in N : x.here BY <3>1
      <3>6. QED BY <1>3, <3>2, <3>3, <3>4, <3>5, BusyKept
    <2>3. Opens(T, view) BY <1>8, <1>10 DEF Mounted, Opens
    <2>4. ~mixed' /\ lost = 0 => Synced(T, view, Board!Lists, Board!Live)
      <3>1. SUFFICES ASSUME ~mixed', lost = 0 PROVE Synced(T, view, Board!Lists, Board!Live) OBVIOUS
      <3>2. Synced(net, view, Board!Lists, Board!Live) /\ Opens(net, view) /\ Numbered(net) BY <1>1, <1>10, <3>1 DEF Mounted, BoardRequests
      <3>3. c.id = 1
        <4>1. Cardinality(net) \in Nat BY <3>2, FS_CardinalityType DEF Numbered
        <4>2. c.id \in Nat /\ c.id >= 1 BY <3>2, <4>1 DEF Numbered
        <4>3. QED BY <3>1, <4>2
      <3>4. PICK N : N = {} OBVIOUS
      <3>5. PICK out : out = {c} OBVIOUS
      <3>6. N = {d \in out : d.here} BY <3>4, <3>5
      <3>7. Truthful(view, N, F)
        <4>1. CASE view.plan BY <3>4, <4>1 DEF Truthful
        <4>2. CASE ~view.plan BY <3>4, <4>2 DEF Truthful
        <4>3. QED BY <4>1, <4>2
      <3>8. Flow(f, net \ out, T, F, "none") BY <1>3, <3>5
      <3>9. out \subseteq net /\ \A d \in out : d.id = 1 BY <3>3, <3>5
      <3>10. \A x \in F : x.here BY <3>1
      <3>11. QED BY <3>2, <3>6, <3>7, <3>8, <3>9, <3>10, SyncKept
    <2>5. Board!Lists' = Board!Lists /\ Board!Live' = Board!Live BY DEF Board!Lists, Board!Live
    <2>6. WhereView(net, view, db)' /\ Opens(net, view)' /\ Busy(net, view)' /\ IsView(view)'
      BY <1>2, <1>10, <2>1, <2>2, <2>3 DEF Mounted
    <2>7. ~mixed' /\ lost' = 0 => Synced(net', view', Board!Lists', Board!Live') BY <1>2, <2>4, <2>5
    <2>8. QED BY <2>6, <2>7 DEF Mounted
  <1>11. QED BY <1>1, <1>2, <1>4, <1>7, <1>9, <1>10 DEF BoardInv

\* The handler of what is gone ends ...
LEMMA OrphanResumes == ASSUME None \notin Nat, BoardInv, NEW c \in net, ~c.here, NEW v, Board!Resume(c, v) PROVE BoardInv'
  <1>1. Numbered(net) /\ Shaped(net) BY DEF BoardInv, BoardRequests
  <1>2. UNCHANGED <<page, view, db, lost>> /\ net' = Board!Without(c) BY DEF Board!Resume, Board!Answered, Board!AnsweredWith
  <1>3. PICK f : Flow(f, net \ {c}, net', {}, "none") BY <1>1, <1>2, FlowResume
  <1>4. ~mixed' => ~mixed /\ ~(c.id > 1) BY DEF Board!Resume, Board!Answered, Board!AnsweredWith
  <1>5. ~mixed' => ~mixed /\ c.id <= 1
    <2>1. Cardinality(net) \in Nat BY <1>1, FS_CardinalityType DEF Numbered
    <2>2. c.id \in Nat BY <1>1, <2>1 DEF Numbered
    <2>3. QED BY <1>4, <2>2
  <1>6. QED BY <1>2, <1>3, <1>5, OrphanStep
\* ... or sends what it would have sent.
LEMMA OrphanAsks ==
  ASSUME None \notin Nat, BoardInv, NEW c \in net, ~c.here, NEW v, NEW n \in Nat, n > 0, NEW asks, DOMAIN asks = 1..n,
         Proper(asks), \A i \in 1..n : asks[i][1] \notin {"create", "modalLists"}, Board!ResumeAsks(c, asks, v)
  PROVE  BoardInv'
  <1>1. Numbered(net) /\ Shaped(net) BY DEF BoardInv, BoardRequests
  <1>2. /\ UNCHANGED <<page, view, db, lost>>
        /\ net' = Board!Without(c) \cup {[r EXCEPT !.here = c.here] : r \in Board!Send(Board!Without(c), asks) \ Board!Without(c)}
    BY DEF Board!ResumeAsks, Board!Answered, Board!AnsweredWith
  <1>3. Proper(asks) OBVIOUS
  <1>4. PICK f, F : Flow(f, net \ {c}, net', F, "none") /\ Asking(F, asks, c.here) BY <1>1, <1>2, <1>3, FlowAsks
  <1>5. net' # Board!Without(c) BY <1>1, <1>2, <1>3, FlowAsks
  <1>6. mixed'
    <2>1. mixed' = (mixed \/ c.id > 1 \/ (~c.here /\ net' # Board!Without(c))) BY DEF Board!ResumeAsks, Board!Answered, Board!AnsweredWith
    <2>2. QED BY <1>5, <2>1
  <1>7. \A x \in F : ~x.here /\ x.op \notin {"create", "modalLists"} BY <1>4 DEF Asking
  <1>8. QED BY <1>2, <1>4, <1>6, <1>7, OrphanStep

-----------------------------------------------------------------------------
(* The server. *)

ListsOf(d) == [pillars |-> d.pillars, objs |-> d.objs]
LiveOf(d) == {a \in d.acts : ~a.gone}
\* What serving c may do to the rows, and what it may answer.
Serves(c, d, st, a) ==
  /\ IsDb(d) /\ AgedLists(d, d.next) /\ db.next <= d.next
  /\ \A i \in Nat : i < db.next /\ i \notin Board!Ids(db.objs) => i \notin Board!Ids(d.objs)
  /\ c.op = "lists" /\ st = "ok" => AgedLists(a, d.next)
  /\ c.op = "modalLists" /\ st = "ok" => a.objs = d.objs
  /\ st \in {"ok", "err"}
  /\ lost' = 0 =>
       /\ lost = 0
       /\ c.op = "lists" => st = "ok" /\ a = ListsOf(d)
       /\ c.op = "plan" => st = "ok" /\ a = LiveOf(d)
       /\ ListsOf(d) # ListsOf(db) => c.op \in ListWrites /\ st = "ok"
       /\ LiveOf(d) # LiveOf(db) => c.op \in ActWrites /\ st = "ok"

\* The answered request stays where it is.
LEMMA AnswerMoved == ASSUME Numbered(net), Shaped(net), NEW c \in net, NEW d, NEW st, NEW a, Board!AnswerIs(c, d, st, a)
  PROVE /\ Numbered(net') /\ Shaped(net')
        /\ \E g : /\ net' = {g[q] : q \in net}
                  /\ \A q \in net : g[q].id = q.id /\ g[q].op = q.op /\ g[q].arg = q.arg /\ g[q].here = q.here
                  /\ \A q \in net \ {c} : g[q] = q
                  /\ g[c].st = st /\ g[c].ans = a
  <1>1. PICK x : x = [c EXCEPT !.st = st, !.ans = a] OBVIOUS
  <1>2. IsRequest(c) BY DEF Numbered
  <1>3. IsRequest(x) /\ x.id = c.id /\ x.op = c.op /\ x.arg = c.arg /\ x.here = c.here /\ x.st = st /\ x.ans = a
    BY <1>1, <1>2 DEF IsRequest
  <1>4. net' = (net \ {c}) \cup {x} BY <1>1 DEF Board!AnswerIs
  <1>5. PICK g : g = [q \in net |-> IF q = c THEN x ELSE q] OBVIOUS
  <1>6. g[c] = x /\ \A q \in net \ {c} : g[q] = q BY <1>5
  <1>7. net' = {g[q] : q \in net}
    <2>1. \A y \in net' : \E q \in net : y = g[q] BY <1>4, <1>6
    <2>2. \A q \in net : g[q] \in net' BY <1>4, <1>6
    <2>3. QED BY <2>1, <2>2
  <1>8. \A q \in net : IsRequest(g[q]) /\ g[q].id = q.id BY <1>3, <1>6 DEF Numbered
  <1>9. \A q \in net : g[q].op = q.op /\ g[q].arg = q.arg /\ g[q].here = q.here BY <1>3, <1>6
  <1>10. Numbered(net')
    <2>1. DOMAIN g = net BY <1>5
    <2>2. Numbered({g[q] : q \in net}) BY <1>8, <2>1, MarkedNumbered
    <2>3. QED BY <1>7, <2>2
  <1>11. Shaped(net') BY <1>4, <1>3 DEF Shaped, Shape
  <1>12. QED BY <1>3, <1>6, <1>7, <1>8, <1>9, <1>10, <1>11

\* Where activities will go, whatever the server has done.
LEMMA WhereServed ==
  ASSUME IsDb(db), WhereCalls(net, db), NEW c \in net, NEW d, NEW st, NEW a, Serves(c, d, st, a), NEW T, NEW g, T = {g[q] : q \in net},
         \A q \in net : g[q].op = q.op /\ g[q].arg = q.arg, \A q \in net \ {c} : g[q] = q, g[c].st = st, g[c].ans = a
  PROVE  WhereCalls(T, d)
  <1>1. db.next \in Nat /\ d.next \in Nat /\ db.next <= d.next BY DEF Serves, IsDb
  <1>2. ASSUME NEW l, AgedLists(l, db.next) PROVE AgedLists(l, d.next) BY <1>1, <1>2 DEF AgedLists, Aged
  <1>3. \A q \in net : g[q].op = "lists" /\ g[q].st = "ok" => AgedLists(g[q].ans, d.next)
    <2>1. SUFFICES ASSUME NEW q \in net, g[q].op = "lists", g[q].st = "ok" PROVE AgedLists(g[q].ans, d.next) OBVIOUS
    <2>2. CASE q = c BY <2>1, <2>2 DEF Serves
    <2>3. CASE q # c
      <3>1. q.op = "lists" /\ q.st = "ok" /\ g[q] = q BY <2>1, <2>3
      <3>2. AgedLists(q.ans, db.next) BY <3>1 DEF WhereCalls
      <3>3. QED BY <1>2, <3>1, <3>2
    <2>4. QED BY <2>2, <2>3
  <1>4. \A q \in net : g[q].op = "create" => g[q].arg.for \in Nat /\ g[q].arg.for < d.next /\ Asked(g[q], d.objs)
    <2>1. SUFFICES ASSUME NEW q \in net, q.op = "create" PROVE q.arg.for \in Nat /\ q.arg.for < d.next /\ Asked(g[q], d.objs) OBVIOUS
    <2>2. q.arg.for \in Nat /\ q.arg.for < db.next /\ Asked(q, db.objs) BY <2>1 DEF WhereCalls
    <2>3. Asked(q, d.objs) BY <2>2 DEF Asked, Serves
    <2>4. Asked(g[q], d.objs) BY <2>3 DEF Asked
    <2>5. QED BY <1>1, <2>2, <2>4
  <1>5. QED BY <1>3, <1>4 DEF WhereCalls

LEMMA PlaceServed ==
  ASSUME None \notin Nat, IsDb(db), IsView(view), WhereView(net, view, db), NEW c \in net, NEW d, NEW st, NEW a, Serves(c, d, st, a),
         NEW T, NEW g, T = {g[q] : q \in net},
         \A q \in net : g[q].op = q.op /\ g[q].here = q.here, \A q \in net \ {c} : g[q] = q, g[c].st = st, g[c].ans = a
  PROVE  WhereView(T, view, d)
  <1>1. db.next \in Nat /\ d.next \in Nat /\ db.next <= d.next BY DEF Serves, IsDb
  <1>2. AgedLists(view, d.next) BY <1>1 DEF WhereView, AgedLists, Aged
  <1>3. view.modal.for # None => view.modal.for \in Nat /\ view.modal.for < db.next BY DEF WhereView, IsView, IsModal, Board!NoModal
  <1>4. view.modal.for # None /\ view.modal.for \notin Board!Ids(db.objs) => view.modal.for \notin Board!Ids(d.objs) BY <1>3 DEF Serves
  <1>5. Untouched(view.modal, d.objs) BY <1>4 DEF WhereView, Untouched
  <1>6. \A q \in net : g[q].op = "modalLists" /\ g[q].here =>
          /\ view.modal.for # None
          /\ g[q].st = "ok" => view.modal.for \in Board!Ids(g[q].ans.objs) \/ view.modal.for \notin Board!Ids(d.objs)
    <2>1. SUFFICES ASSUME NEW q \in net, q.op = "modalLists", q.here
          PROVE /\ view.modal.for # None
                /\ g[q].st = "ok" => view.modal.for \in Board!Ids(g[q].ans.objs) \/ view.modal.for \notin Board!Ids(d.objs)
      OBVIOUS
    <2>2. view.modal.for # None BY <2>1 DEF WhereView
    <2>3. CASE q = c BY <2>1, <2>2, <2>3 DEF Serves
    <2>4. CASE q # c BY <1>4, <2>1, <2>2, <2>4 DEF WhereView
    <2>5. QED BY <2>3, <2>4
  <1>7. view.modal.for # None => view.modal.for < d.next BY <1>1, <1>3
  <1>8. QED BY <1>2, <1>5, <1>6, <1>7 DEF WhereView

\* What the page shows and what is under way, whatever the server has done.
LEMMA SyncServed ==
  ASSUME Numbered(net), Ordered(net), Synced(net, view, Board!Lists, Board!Live), Opens(net, view), lost' = 0,
         NEW c \in net, c.st = "sent", NEW d, NEW st, NEW a, Serves(c, d, st, a), NEW T, NEW g, T = {g[q] : q \in net},
         \A q \in net : g[q].id = q.id /\ g[q].op = q.op /\ g[q].here = q.here,
         \A q \in net \ {c} : g[q] = q, g[c].st = st, g[c].ans = a
  PROVE  Synced(T, view, ListsOf(d), LiveOf(d))
  <1>o. Board!Lists = ListsOf(db) /\ Board!Live = LiveOf(db) BY DEF Board!Lists, ListsOf, Board!Live, LiveOf
  <1>d. c.op = "lists" => st = "ok" /\ a = ListsOf(d) BY DEF Serves
  <1>e. c.op = "plan" => st = "ok" /\ a = LiveOf(d) BY DEF Serves
  <1>l. ListsOf(d) # Board!Lists => c.op \in ListWrites /\ st = "ok" BY <1>o DEF Serves
  <1>a. LiveOf(d) # Board!Live => c.op \in ActWrites /\ st = "ok" BY <1>o DEF Serves
  <1>n. \A q \in net : q.id \in Nat
    <2>1. Cardinality(net) \in Nat BY FS_CardinalityType DEF Numbered
    <2>2. QED BY <2>1 DEF Numbered
  <1>t. \A q \in net : g[q] \in T OBVIOUS
  \* A write that is served after an answered read of the page is the page's, too.
  <1>v. ASSUME c.op \in ListWrites \cup ActWrites, NEW q \in net, q.here, q.st # "sent" PROVE c.here /\ q.id < c.id
    <2>1. q # c BY <1>v
    <2>2. q.id # c.id BY <2>1 DEF Numbered
    <2>3. ~(c.id < q.id) BY <1>v DEF Ordered
    <2>4. c.op \notin {"modalLists", "draft"} BY <1>v DEF ListWrites, ActWrites, Handlers
    <2>5. c.here BY <1>v, <2>3, <2>4 DEF Synced
    <2>6. QED BY <1>n, <2>2, <2>3, <2>5
  <1>1. \A y \in T : ~y.here /\ y.op \notin {"modalLists", "draft"} => ~view.plan /\ \A z \in T : z.here => y.id < z.id
    BY DEF Synced
  <1>2. ~view.plan => \E y \in T : y.here /\ y.op = "plan" BY <1>t DEF Synced
  <1>3. \A y \in T : y.here /\ y.op = "lists" =>
         /\ y.st \in {"sent", "ok"}
         /\ y.st = "ok" => y.ans = ListsOf(d) \/ \E w \in T : w.here /\ w.op \in ListWrites /\ w.st = "ok" /\ w.id > y.id
    <2>1. SUFFICES ASSUME NEW q \in net, q.here, q.op = "lists"
          PROVE /\ g[q].st \in {"sent", "ok"}
                /\ g[q].st = "ok" => g[q].ans = ListsOf(d) \/ \E w \in T : w.here /\ w.op \in ListWrites /\ w.st = "ok" /\ w.id > q.id
      OBVIOUS
    <2>2. CASE q = c BY <1>d, <2>1, <2>2
    <2>3. CASE q # c
      <3>1. g[q] = q BY <2>3
      <3>2. /\ q.st \in {"sent", "ok"}
            /\ q.st = "ok" => q.ans = Board!Lists \/ \E w \in net : w.here /\ w.op \in ListWrites /\ w.st = "ok" /\ w.id > q.id
        BY <2>1 DEF Synced
      <3>3. SUFFICES ASSUME q.st = "ok"
                     PROVE q.ans = ListsOf(d) \/ \E w \in T : w.here /\ w.op \in ListWrites /\ w.st = "ok" /\ w.id > q.id
        BY <3>1, <3>2
      <3>4. CASE ListsOf(d) # Board!Lists
        <4>1. c.op \in ListWrites /\ st = "ok" BY <1>l, <3>4
        <4>2. c.here /\ q.id < c.id BY <1>v, <2>1, <3>3, <4>1
        <4>3. g[c].here /\ g[c].op \in ListWrites /\ g[c].st = "ok" /\ g[c].id > q.id BY <1>n, <4>1, <4>2
        <4>4. QED BY <1>t, <4>3
      <3>5. CASE ListsOf(d) = Board!Lists
        <4>1. SUFFICES ASSUME NEW w \in net, w.here, w.op \in ListWrites, w.st = "ok", w.id > q.id
                       PROVE \E x \in T : x.here /\ x.op \in ListWrites /\ x.st = "ok" /\ x.id > q.id
          BY <3>2, <3>3, <3>5
        <4>2. w # c BY <4>1
        <4>3. g[w] = w BY <4>2
        <4>4. QED BY <1>t, <4>1, <4>3
      <3>6. QED BY <3>4, <3>5
    <2>4. QED BY <2>2, <2>3
  <1>4. \A y \in T : y.here /\ y.op = "plan" =>
         /\ y.st \in {"sent", "ok"}
         /\ y.st = "ok" => y.ans = LiveOf(d) \/ \E w \in T : w.here /\ w.op \in ActWrites /\ w.st = "ok" /\ w.id > y.id
    <2>1. SUFFICES ASSUME NEW q \in net, q.here, q.op = "plan"
          PROVE /\ g[q].st \in {"sent", "ok"}
                /\ g[q].st = "ok" => g[q].ans = LiveOf(d) \/ \E w \in T : w.here /\ w.op \in ActWrites /\ w.st = "ok" /\ w.id > q.id
      OBVIOUS
    <2>2. CASE q = c BY <1>e, <2>1, <2>2
    <2>3. CASE q # c
      <3>1. g[q] = q BY <2>3
      <3>2. /\ q.st \in {"sent", "ok"}
            /\ q.st = "ok" => q.ans = Board!Live \/ \E w \in net : w.here /\ w.op \in ActWrites /\ w.st = "ok" /\ w.id > q.id
        BY <2>1 DEF Synced
      <3>3. SUFFICES ASSUME q.st = "ok"
                     PROVE q.ans = LiveOf(d) \/ \E w \in T : w.here /\ w.op \in ActWrites /\ w.st = "ok" /\ w.id > q.id
        BY <3>1, <3>2
      <3>4. CASE LiveOf(d) # Board!Live
        <4>1. c.op \in ActWrites /\ st = "ok" BY <1>a, <3>4
        <4>2. c.here /\ q.id < c.id BY <1>v, <2>1, <3>3, <4>1
        <4>3. g[c].here /\ g[c].op \in ActWrites /\ g[c].st = "ok" /\ g[c].id > q.id BY <1>n, <4>1, <4>2
        <4>4. QED BY <1>t, <4>3
      <3>5. CASE LiveOf(d) = Board!Live
        <4>1. SUFFICES ASSUME NEW w \in net, w.here, w.op \in ActWrites, w.st = "ok", w.id > q.id
                       PROVE \E x \in T : x.here /\ x.op \in ActWrites /\ x.st = "ok" /\ x.id > q.id
          BY <3>2, <3>3, <3>5
        <4>2. w # c BY <4>1
        <4>3. g[w] = w BY <4>2
        <4>4. QED BY <1>t, <4>1, <4>3
      <3>6. QED BY <3>4, <3>5
    <2>4. QED BY <2>2, <2>3
  \* A write that is not the page's is served before the page has anything.
  <1>h. ASSUME c.op \in ListWrites \cup ActWrites, view.plan PROVE c.here
    <2>1. c.op \notin {"modalLists", "draft"} BY <1>h DEF ListWrites, ActWrites, Handlers
    <2>2. QED BY <1>h, <2>1 DEF Synced
  <1>5. view.plan => \/ view.pillars = ListsOf(d).pillars /\ view.objs = ListsOf(d).objs
                     \/ \E y \in T : y.here /\ (y.op \in {"lists", "fan"} \/ (y.op \in ListWrites /\ y.st = "ok"))
    <2>1. SUFFICES ASSUME view.plan
          PROVE \/ view.pillars = ListsOf(d).pillars /\ view.objs = ListsOf(d).objs
                \/ \E y \in T : y.here /\ (y.op \in {"lists", "fan"} \/ (y.op \in ListWrites /\ y.st = "ok"))
      OBVIOUS
    <2>2. CASE ListsOf(d) # Board!Lists
      <3>1. c.op \in ListWrites /\ st = "ok" BY <1>l, <2>2
      <3>2. c.here BY <1>h, <2>1, <3>1
      <3>3. g[c].here /\ g[c].op \in ListWrites /\ g[c].st = "ok" BY <3>1, <3>2
      <3>4. QED BY <1>t, <3>3
    <2>3. CASE ListsOf(d) = Board!Lists
      <3>1. SUFFICES ASSUME NEW w \in net, w.here, w.op \in {"lists", "fan"} \/ (w.op \in ListWrites /\ w.st = "ok")
                     PROVE \E y \in T : y.here /\ (y.op \in {"lists", "fan"} \/ (y.op \in ListWrites /\ y.st = "ok"))
        BY <2>1, <2>3 DEF Synced
      <3>2. g[w].here /\ g[w].op = w.op /\ (w.st = "ok" => g[w].st = "ok") BY <3>1
      <3>3. QED BY <1>t, <3>1, <3>2
    <2>4. QED BY <2>2, <2>3
  <1>6. view.plan => \/ view.acts = LiveOf(d)
                     \/ \E y \in T : y.here /\ (y.op \in {"plan", "fan"} \/ (y.op \in ActWrites /\ y.st = "ok"))
    <2>1. SUFFICES ASSUME view.plan
          PROVE \/ view.acts = LiveOf(d)
                \/ \E y \in T : y.here /\ (y.op \in {"plan", "fan"} \/ (y.op \in ActWrites /\ y.st = "ok"))
      OBVIOUS
    <2>2. CASE LiveOf(d) # Board!Live
      <3>1. c.op \in ActWrites /\ st = "ok" BY <1>a, <2>2
      <3>2. c.here BY <1>h, <2>1, <3>1
      <3>3. g[c].here /\ g[c].op \in ActWrites /\ g[c].st = "ok" BY <3>1, <3>2
      <3>4. QED BY <1>t, <3>3
    <2>3. CASE LiveOf(d) = Board!Live
      <3>1. SUFFICES ASSUME NEW w \in net, w.here, w.op \in {"plan", "fan"} \/ (w.op \in ActWrites /\ w.st = "ok")
                     PROVE \E y \in T : y.here /\ (y.op \in {"plan", "fan"} \/ (y.op \in ActWrites /\ y.st = "ok"))
        BY <2>1, <2>3 DEF Synced
      <3>2. g[w].here /\ g[w].op = w.op /\ (w.st = "ok" => g[w].st = "ok") BY <3>1
      <3>3. QED BY <1>t, <3>1, <3>2
    <2>4. QED BY <2>2, <2>3
  <1>7. QED BY <1>1, <1>2, <1>3, <1>4, <1>5, <1>6 DEF Synced

\* The server answers a request.
LEMMA ServerStep ==
  ASSUME None \notin Nat, BoardInv, NEW c \in net, NEW d, NEW st, NEW a, Board!AnswerIs(c, d, st, a), Serves(c, d, st, a), lost' \in Nat
  PROVE  BoardInv'
  <1>1. BoardRequests /\ WhereCalls(net, db) /\ IsDb(db) /\ lost \in Nat BY DEF BoardInv
  <1>2. db' = d /\ page' = page /\ view' = view /\ c.st = "sent" BY DEF Board!AnswerIs
  <1>3. ~mixed' => ~mixed /\ ~Board!Overtakes(c) BY DEF Board!AnswerIs
  <1>4. PICK T : T = net' OBVIOUS
  <1>5. Numbered(net) /\ Shaped(net) BY <1>1 DEF BoardRequests
  <1>6. PICK g : /\ T = {g[q] : q \in net}
                 /\ \A q \in net : g[q].id = q.id /\ g[q].op = q.op /\ g[q].arg = q.arg /\ g[q].here = q.here
                 /\ \A q \in net \ {c} : g[q] = q
                 /\ g[c].st = st /\ g[c].ans = a
    BY <1>4, <1>5, AnswerMoved
  <1>7. Numbered(T) /\ Shaped(T) BY <1>4, <1>5, AnswerMoved
  <1>8. ~mixed' => Ordered(T)
    <2>1. SUFFICES ASSUME ~mixed', NEW p \in net, NEW q \in net, p.id < q.id, g[q].st # "sent" PROVE g[p].st # "sent"
      BY <1>6 DEF Ordered
    <2>2. Ordered(net) BY <1>1, <1>3, <2>1 DEF BoardRequests
    <2>3. CASE p = c BY <1>6, <2>3 DEF Serves
    <2>4. CASE p # c /\ q = c
      <3>1. p.st # "sent" BY <1>3, <2>1, <2>4 DEF Board!Overtakes
      <3>2. QED BY <1>6, <2>4, <3>1
    <2>5. CASE p # c /\ q # c
      <3>1. g[p] = p /\ g[q] = q BY <1>6, <2>5
      <3>2. QED BY <2>1, <2>2, <3>1 DEF Ordered
    <2>6. QED BY <2>3, <2>4, <2>5
  <1>9. BoardRequests' BY <1>4, <1>7, <1>8 DEF BoardRequests
  <1>10. WhereCalls(T, d)
    <2>1. \A q \in net : g[q].op = q.op /\ g[q].arg = q.arg BY <1>6
    <2>2. \A q \in net \ {c} : g[q] = q BY <1>6
    <2>3. g[c].st = st /\ g[c].ans = a /\ T = {g[q] : q \in net} BY <1>6
    <2>4. IsDb(db) /\ WhereCalls(net, db) BY <1>1
    <2>5. Serves(c, d, st, a) OBVIOUS
    <2>6. QED BY ONLY <2>1, <2>2, <2>3, <2>4, <2>5, c \in net, WhereServed, SMTT(40)
  <1>11. ASSUME page = "away", Away PROVE Away' BY <1>4, <1>6, <1>11 DEF Away
  <1>12. ASSUME page = "board", Mounted PROVE Mounted'
    <2>0. IsView(view) /\ WhereView(net, view, db) BY <1>12 DEF Mounted
    <2>s. Serves(c, d, st, a) /\ None \notin Nat /\ IsDb(db) BY <1>1
    <2>g. /\ T = {g[q] : q \in net} /\ \A q \in net : g[q].op = q.op /\ g[q].here = q.here
          /\ \A q \in net \ {c} : g[q] = q
          /\ g[c].st = st /\ g[c].ans = a
      BY <1>6
    <2>1. WhereView(T, view, d) BY ONLY <2>0, <2>s, <2>g, c \in net, PlaceServed, SMTT(40)
    <2>t. \A q \in net : g[q] \in T BY <1>6
    <2>2. Opens(T, view) BY <1>6, <1>12 DEF Mounted, Opens
    <2>3. Busy(T, view)
      <3>0. Busy(net, view) BY <1>12 DEF Mounted
      <3>1. view.loading /\ view.plan => \E y \in T : y.here /\ y.op = "lists" BY <1>6, <2>t, <3>0 DEF Busy
      <3>2. view.busy => \E y \in T : y.here /\ y.op \in Handlers BY <1>6, <2>t, <3>0 DEF Busy
      <3>3. view.deleting => \E y \in T : y.here /\ y.op = "delActivity" BY <1>6, <2>t, <3>0 DEF Busy
      <3>4. view.ai.loading => view.ai.of \in Nat /\ \E y \in T : y.here /\ y.op = "draft" /\ y.arg.of = view.ai.of
        BY <1>6, <2>t, <3>0 DEF Busy
      <3>5. view.ai.applying => \E y \in T : y.here /\ y.op = "fan" /\ y.arg.of = view.ai.of BY <1>6, <2>t, <3>0 DEF Busy
      <3>6. view.modal.for # None /\ view.modal.busy => \E y \in T : y.here /\ y.op = "create" /\ y.arg.mine
        BY <1>6, <2>t, <3>0 DEF Busy
      <3>7. view.modal.for # None /\ view.modal.listing => view.loading \/ \E y \in T : y.here /\ y.op = "modalLists"
        BY <1>6, <2>t, <3>0 DEF Busy
      <3>8. QED BY <3>1, <3>2, <3>3, <3>4, <3>5, <3>6, <3>7 DEF Busy
    <2>4. ~mixed' /\ lost' = 0 => Synced(T, view, ListsOf(d), LiveOf(d))
      <3>1. SUFFICES ASSUME ~mixed', lost' = 0 PROVE Synced(T, view, ListsOf(d), LiveOf(d)) OBVIOUS
      <3>2. lost = 0 BY <3>1 DEF Serves
      <3>3. Ordered(net) BY <1>1, <1>3, <3>1 DEF BoardRequests
      <3>4. Synced(net, view, Board!Lists, Board!Live) /\ Opens(net, view) BY <1>3, <1>12, <3>1, <3>2 DEF Mounted
      <3>5. lost' = 0 /\ c.st = "sent" /\ Numbered(net) BY <1>2, <1>5, <3>1
      <3>6. \A q \in net : g[q].id = q.id /\ g[q].op = q.op /\ g[q].here = q.here BY <1>6
      <3>7. QED BY ONLY <2>s, <2>g, <3>3, <3>4, <3>5, <3>6, c \in net, SyncServed, SMTT(40)
    <2>5. Board!Lists' = ListsOf(d) /\ Board!Live' = LiveOf(d) BY <1>2 DEF Board!Lists, ListsOf, Board!Live, LiveOf
    <2>6. WhereView(net, view, db)' /\ Opens(net, view)' /\ Busy(net, view)' /\ IsView(view)'
      BY <1>2, <1>4, <1>12, <2>1, <2>2, <2>3 DEF Mounted
    <2>7. ~mixed' /\ lost' = 0 => Synced(net', view', Board!Lists', Board!Live') BY <1>2, <1>4, <2>4, <2>5
    <2>8. QED BY <2>6, <2>7 DEF Mounted
  <1>13. IsDb(d) /\ AgedLists(d, d.next) BY DEF Serves
  <1>14. QED BY <1>1, <1>2, <1>4, <1>9, <1>10, <1>11, <1>12, <1>13 DEF BoardInv

\* The rows stay as they are: the request is refused, turned down, or reads.
LEMMA KeptRows == ASSUME BoardInv, NEW c \in net, NEW a, lost' # 0 \/ (c.op \notin {"lists", "plan"} /\ lost' = lost)
  PROVE Serves(c, db, "err", a)
  BY DEF Serves, BoardInv, IsDb
LEMMA RefuseStep == ASSUME None \notin Nat, BoardInv, NEW c \in net, Board!Refuse(c) PROVE BoardInv'
  <1>1. Board!AnswerIs(c, db, "err", None) /\ lost' = lost + 1 BY DEF Board!Refuse, Board!LoseAnswer, Board!Failing
  <1>2. lost \in Nat BY DEF BoardInv
  <1>3. lost' \in Nat /\ lost' # 0 BY <1>1, <1>2
  <1>4. Serves(c, db, "err", None) BY <1>3, KeptRows
  <1>5. QED BY <1>1, <1>3, <1>4, ServerStep
LEMMA RejectStep == ASSUME None \notin Nat, BoardInv, NEW c \in net, c.op \notin {"lists", "plan"}, Board!Reject(c) PROVE BoardInv'
  <1>1. Board!AnswerIs(c, db, "err", "no") /\ lost' = lost BY DEF Board!Reject
  <1>2. lost \in Nat BY DEF BoardInv
  <1>3. Serves(c, db, "err", "no") BY <1>1, KeptRows
  <1>4. QED BY <1>1, <1>2, <1>3, ServerStep
\* The rows change, and the page hears of it or does not.
LEMMA ServedStep ==
  ASSUME None \notin Nat, BoardInv, NEW c \in net, NEW d, Board!Served(c, d), c.op \notin {"lists", "plan", "modalLists"},
         IsDb(d), AgedLists(d, d.next), db.next <= d.next, \A i \in Nat : i < db.next /\ i \notin Board!Ids(db.objs) => i \notin Board!Ids(d.objs),
         ListsOf(d) # ListsOf(db) => c.op \in ListWrites, LiveOf(d) # LiveOf(db) => c.op \in ActWrites
  PROVE  BoardInv'
  <1>1. lost \in Nat BY DEF BoardInv
  <1>2. CASE Board!Serve(c, d, None)
    <2>1. Board!AnswerIs(c, d, "ok", None) /\ lost' = lost BY <1>2 DEF Board!Serve
    <2>2. Serves(c, d, "ok", None) BY <2>1 DEF Serves
    <2>3. QED BY <1>1, <2>1, <2>2, ServerStep
  <1>3. CASE Board!LoseAnswer(c, d)
    <2>1. Board!AnswerIs(c, d, "err", None) /\ lost' = lost + 1 BY <1>3 DEF Board!LoseAnswer, Board!Failing
    <2>2. lost' \in Nat /\ lost' # 0 BY <1>1, <2>1
    <2>3. Serves(c, d, "err", None) BY <2>2 DEF Serves
    <2>4. QED BY <2>1, <2>2, <2>3, ServerStep
  <1>4. QED BY <1>2, <1>3 DEF Board!Served

\* The reads.
LEMMA ReadsServed == ASSUME None \notin Nat, BoardInv, Board!ServeReads PROVE BoardInv'
  <1>1. PICK c \in net : \/ c.op = "plan" /\ Board!Serve(c, db, Board!Live)
                         \/ c.op \in {"lists", "modalLists"} /\ Board!Serve(c, db, Board!Lists)
    BY DEF Board!ServeReads
  <1>2. IsDb(db) /\ AgedLists(db, db.next) /\ lost \in Nat BY DEF BoardInv
  <1>3. db.next \in Nat BY <1>2 DEF IsDb
  <1>4. CASE c.op = "plan" /\ Board!Serve(c, db, Board!Live)
    <2>1. Board!AnswerIs(c, db, "ok", Board!Live) /\ lost' = lost BY <1>4 DEF Board!Serve
    <2>2. Serves(c, db, "ok", Board!Live) BY <1>2, <1>3, <1>4, <2>1 DEF Serves, Board!Live, LiveOf
    <2>3. QED BY <1>2, <2>1, <2>2, ServerStep
  <1>5. CASE c.op \in {"lists", "modalLists"} /\ Board!Serve(c, db, Board!Lists)
    <2>1. Board!AnswerIs(c, db, "ok", Board!Lists) /\ lost' = lost BY <1>5 DEF Board!Serve
    <2>2. Serves(c, db, "ok", Board!Lists) BY <1>2, <1>3, <1>5, <2>1 DEF Serves, Board!Lists, ListsOf, AgedLists
    <2>3. QED BY <1>2, <2>1, <2>2, ServerStep
  <1>6. QED BY <1>1, <1>4, <1>5

\* A draft is written.
LEMMA DraftServed == ASSUME None \notin Nat, BoardInv, Board!ServeDraft({0, 2}) PROVE BoardInv'
  <1>1. PICK c \in net, t \in {0, 2} : c.op = "draft" /\ Board!Serve(c, db, t) BY DEF Board!ServeDraft
  <1>2. IsDb(db) /\ AgedLists(db, db.next) /\ lost \in Nat BY DEF BoardInv
  <1>3. db.next \in Nat BY <1>2 DEF IsDb
  <1>4. Board!AnswerIs(c, db, "ok", t) /\ lost' = lost BY <1>1 DEF Board!Serve
  <1>5. Serves(c, db, "ok", t) BY <1>1, <1>2, <1>3, <1>4 DEF Serves
  <1>6. QED BY <1>2, <1>4, <1>5, ServerStep

\* Rows are added, each with a number no row has had.
LEMMA PillarCreated == ASSUME None \notin Nat, BoardInv, Board!CreatePillarRow PROVE BoardInv'
  <1>1. PICK c \in net : /\ c.op = "addPillar" \/ (c.op = "fan" /\ c.arg.of = 0)
                         /\ Board!Served(c, Board!Insert("pillars", [id |-> db.next, t |-> "x"]))
    BY DEF Board!CreatePillarRow
  <1>2. PICK d : d = Board!Insert("pillars", [id |-> db.next, t |-> "x"]) OBVIOUS
  <1>3. IsDb(db) /\ AgedLists(db, db.next) BY DEF BoardInv
  <1>4. /\ d = [page |-> db.page, edit |-> db.edit, del |-> db.del, next |-> db.next + 1,
                pillars |-> db.pillars \cup {[id |-> db.next, t |-> "x"]}, objs |-> db.objs, acts |-> db.acts]
        /\ db.next \in Nat
    <2>1. /\ db = [page |-> db.page, edit |-> db.edit, del |-> db.del, next |-> db.next,
                   pillars |-> db.pillars, objs |-> db.objs, acts |-> db.acts]
          /\ db.next \in Nat
      BY <1>3 DEF IsDb
    <2>2. d = [db EXCEPT !.pillars = db.pillars \cup {[id |-> db.next, t |-> "x"]}, !.next = db.next + 1] BY <1>2, <2>1 DEF Board!Insert
    <2>3. QED BY <2>1, <2>2
  <1>5. IsDb(d) BY <1>3, <1>4 DEF IsDb
  <1>6. AgedLists(d, d.next) BY <1>3, <1>4 DEF AgedLists, Aged
  <1>7. LiveOf(d) = LiveOf(db) /\ Board!Ids(d.objs) = Board!Ids(db.objs) /\ db.next <= d.next BY <1>4 DEF LiveOf
  <1>8. c.op \in ListWrites /\ c.op \notin {"lists", "plan", "modalLists"} BY <1>1 DEF ListWrites, Handlers
  <1>9. Board!Served(c, d) BY <1>1, <1>2
  <1>10. QED BY <1>5, <1>6, <1>7, <1>8, <1>9, ServedStep
LEMMA ObjectiveCreated == ASSUME None \notin Nat, BoardInv, Board!CreateObjectiveRow PROVE BoardInv'
  <1>0. PICK c \in net : \E up : /\ c.op = "addObjective" \/ (c.op = "fan" /\ c.arg.of \in {1, 2})
                                 /\ Board!Served(c, Board!Insert("objs", [id |-> db.next, up |-> up, t |-> "x"])) \/ Board!Reject(c)
    BY DEF Board!CreateObjectiveRow
  <1>1. PICK up : /\ c.op = "addObjective" \/ (c.op = "fan" /\ c.arg.of \in {1, 2})
                  /\ Board!Served(c, Board!Insert("objs", [id |-> db.next, up |-> up, t |-> "x"])) \/ Board!Reject(c)
    BY <1>0
  <1>2. PICK d : d = Board!Insert("objs", [id |-> db.next, up |-> up, t |-> "x"]) OBVIOUS
  <1>3. IsDb(db) /\ AgedLists(db, db.next) BY DEF BoardInv
  <1>4. /\ d = [page |-> db.page, edit |-> db.edit, del |-> db.del, next |-> db.next + 1, pillars |-> db.pillars,
                objs |-> db.objs \cup {[id |-> db.next, up |-> up, t |-> "x"]}, acts |-> db.acts]
        /\ db.next \in Nat
    <2>1. /\ db = [page |-> db.page, edit |-> db.edit, del |-> db.del, next |-> db.next,
                   pillars |-> db.pillars, objs |-> db.objs, acts |-> db.acts]
          /\ db.next \in Nat
      BY <1>3 DEF IsDb
    <2>2. d = [db EXCEPT !.objs = db.objs \cup {[id |-> db.next, up |-> up, t |-> "x"]}, !.next = db.next + 1] BY <1>2, <2>1 DEF Board!Insert
    <2>3. QED BY <2>1, <2>2
  <1>5. IsDb(d) BY <1>3, <1>4 DEF IsDb
  <1>6. AgedLists(d, d.next) BY <1>3, <1>4 DEF AgedLists, Aged
  <1>7. LiveOf(d) = LiveOf(db) /\ db.next <= d.next BY <1>4 DEF LiveOf
  <1>8. c.op \in ListWrites /\ c.op \notin {"lists", "plan", "modalLists"} BY <1>1 DEF ListWrites, Handlers
  <1>9. \A i \in Nat : i < db.next /\ i \notin Board!Ids(db.objs) => i \notin Board!Ids(d.objs) BY <1>4 DEF Board!Ids
  <1>10. CASE Board!Served(c, d) BY <1>5, <1>6, <1>7, <1>8, <1>9, <1>10, ServedStep
  <1>11. CASE Board!Reject(c) BY <1>8, <1>11, RejectStep
  <1>12. QED BY <1>1, <1>2, <1>10, <1>11
LEMMA ActivityCreated == ASSUME None \notin Nat, BoardInv, Board!CreateActivityRow PROVE BoardInv'
  <1>0. PICK c \in net : \E up : /\ c.op = "create" \/ (c.op = "fan" /\ c.arg.of > 2)
                                 /\ Board!Served(c, Board!Insert("acts", [id |-> db.next, up |-> up, gone |-> FALSE])) \/ Board!Reject(c)
    BY DEF Board!CreateActivityRow
  <1>1. PICK up : /\ c.op = "create" \/ (c.op = "fan" /\ c.arg.of > 2)
                  /\ Board!Served(c, Board!Insert("acts", [id |-> db.next, up |-> up, gone |-> FALSE])) \/ Board!Reject(c)
    BY <1>0
  <1>2. PICK d : d = Board!Insert("acts", [id |-> db.next, up |-> up, gone |-> FALSE]) OBVIOUS
  <1>3. IsDb(db) /\ AgedLists(db, db.next) BY DEF BoardInv
  <1>4. /\ d = [page |-> db.page, edit |-> db.edit, del |-> db.del, next |-> db.next + 1, pillars |-> db.pillars,
                objs |-> db.objs, acts |-> db.acts \cup {[id |-> db.next, up |-> up, gone |-> FALSE]}]
        /\ db.next \in Nat
    <2>1. /\ db = [page |-> db.page, edit |-> db.edit, del |-> db.del, next |-> db.next,
                   pillars |-> db.pillars, objs |-> db.objs, acts |-> db.acts]
          /\ db.next \in Nat
      BY <1>3 DEF IsDb
    <2>2. d = [db EXCEPT !.acts = db.acts \cup {[id |-> db.next, up |-> up, gone |-> FALSE]}, !.next = db.next + 1] BY <1>2, <2>1 DEF Board!Insert
    <2>3. QED BY <2>1, <2>2
  <1>5. IsDb(d) BY <1>3, <1>4 DEF IsDb
  <1>6. AgedLists(d, d.next) BY <1>3, <1>4 DEF AgedLists, Aged
  <1>7. ListsOf(d) = ListsOf(db) /\ Board!Ids(d.objs) = Board!Ids(db.objs) /\ db.next <= d.next BY <1>4 DEF ListsOf
  <1>8. c.op \in ActWrites /\ c.op \notin {"lists", "plan", "modalLists"} BY <1>1 DEF ActWrites
  <1>9. CASE Board!Served(c, d) BY <1>5, <1>6, <1>7, <1>8, <1>9, ServedStep
  <1>10. CASE Board!Reject(c) BY <1>8, <1>10, RejectStep
  <1>11. QED BY <1>1, <1>2, <1>9, <1>10

\* Rows are renamed ...
LEMMA RowRenamed == ASSUME None \notin Nat, BoardInv, Board!RenameRow PROVE BoardInv'
  <1>1. PICK c \in net, t \in {"pillars", "objs"} :
          /\ c.op = (IF t = "pillars" THEN "setPillar" ELSE "setObjective")
          /\ IF c.arg.id \in Board!Ids(db[t])
             THEN Board!Served(c, [db EXCEPT ![t] = {IF r.id = c.arg.id THEN [r EXCEPT !.t = c.arg.t] ELSE r : r \in @}])
             ELSE Board!Reject(c)
    BY DEF Board!RenameRow
  <1>2. c.op \in ListWrites /\ c.op \notin {"lists", "plan", "modalLists"} BY <1>1 DEF ListWrites, Handlers
  <1>3. IsDb(db) /\ AgedLists(db, db.next) BY DEF BoardInv
  <1>4. PICK d : d = [db EXCEPT ![t] = {IF r.id = c.arg.id THEN [r EXCEPT !.t = c.arg.t] ELSE r : r \in @}] OBVIOUS
  <1>5. CASE Board!Served(c, d)
    <2>1. CASE t = "pillars"
      <3>1. d = [db EXCEPT !.pillars = {IF r.id = c.arg.id THEN [r EXCEPT !.t = c.arg.t] ELSE r : r \in db.pillars}] BY <1>3, <1>4, <2>1 DEF IsDb
      <3>2. PICK rows : rows = {IF r.id = c.arg.id THEN [r EXCEPT !.t = c.arg.t] ELSE r : r \in db.pillars} OBVIOUS
      <3>3. d = [page |-> db.page, edit |-> db.edit, del |-> db.del, next |-> db.next, pillars |-> rows, objs |-> db.objs, acts |-> db.acts]
        BY <1>3, <3>1, <3>2 DEF IsDb
      <3>4. \A r \in rows : r = [id |-> r.id, t |-> r.t] /\ \E p \in db.pillars : r.id = p.id
        <4>1. SUFFICES ASSUME NEW p \in db.pillars, NEW r, r = IF p.id = c.arg.id THEN [p EXCEPT !.t = c.arg.t] ELSE p
                       PROVE r = [id |-> r.id, t |-> r.t] /\ r.id = p.id
          BY <3>2
        <4>2. p = [id |-> p.id, t |-> p.t] BY <1>3 DEF IsDb
        <4>3. QED BY <4>1, <4>2
      <3>5. IsDb(d) BY <1>3, <3>3, <3>4 DEF IsDb
      <3>6. AgedLists(d, d.next) BY <1>3, <3>3, <3>4 DEF AgedLists, Aged
      <3>7. LiveOf(d) = LiveOf(db) /\ Board!Ids(d.objs) = Board!Ids(db.objs) /\ db.next <= d.next BY <1>3, <3>3 DEF LiveOf, IsDb
      <3>8. QED BY <1>2, <1>5, <3>5, <3>6, <3>7, ServedStep
    <2>2. CASE t = "objs"
      <3>1. d = [db EXCEPT !.objs = {IF r.id = c.arg.id THEN [r EXCEPT !.t = c.arg.t] ELSE r : r \in db.objs}] BY <1>3, <1>4, <2>2 DEF IsDb
      <3>2. PICK rows : rows = {IF r.id = c.arg.id THEN [r EXCEPT !.t = c.arg.t] ELSE r : r \in db.objs} OBVIOUS
      <3>3. d = [page |-> db.page, edit |-> db.edit, del |-> db.del, next |-> db.next, pillars |-> db.pillars, objs |-> rows, acts |-> db.acts]
        BY <1>3, <3>1, <3>2 DEF IsDb
      <3>4. \A r \in rows : r = [id |-> r.id, up |-> r.up, t |-> r.t] /\ \E p \in db.objs : r.id = p.id
        <4>1. SUFFICES ASSUME NEW p \in db.objs, NEW r, r = IF p.id = c.arg.id THEN [p EXCEPT !.t = c.arg.t] ELSE p
                       PROVE r = [id |-> r.id, up |-> r.up, t |-> r.t] /\ r.id = p.id
          BY <3>2
        <4>2. p = [id |-> p.id, up |-> p.up, t |-> p.t] BY <1>3 DEF IsDb
        <4>3. QED BY <4>1, <4>2
      <3>5. IsDb(d) BY <1>3, <3>3, <3>4 DEF IsDb
      <3>6. AgedLists(d, d.next) BY <1>3, <3>3, <3>4 DEF AgedLists, Aged
      <3>7. LiveOf(d) = LiveOf(db) /\ db.next <= d.next BY <1>3, <3>3 DEF LiveOf, IsDb
      <3>8. \A i \in Nat : i < db.next /\ i \notin Board!Ids(db.objs) => i \notin Board!Ids(d.objs) BY <3>3, <3>4 DEF Board!Ids
      <3>9. QED BY <1>2, <1>5, <3>5, <3>6, <3>7, <3>8, ServedStep
    <2>3. QED BY <2>1, <2>2
  <1>6. CASE Board!Reject(c) BY <1>2, <1>6, RejectStep
  <1>7. QED BY <1>1, <1>4, <1>5, <1>6

\* ... or deleted.
LEMMA PillarDeleted == ASSUME None \notin Nat, BoardInv, Board!DeletePillarRow PROVE BoardInv'
  <1>1. PICK c \in net : /\ c.op = "delPillar"
                         /\ Board!Served(c, [db EXCEPT !.pillars = {p \in @ : p.id # c.arg.id}]) \/ Board!Reject(c)
    BY DEF Board!DeletePillarRow
  <1>2. c.op \in ListWrites /\ c.op \notin {"lists", "plan", "modalLists"} BY <1>1 DEF ListWrites, Handlers
  <1>3. IsDb(db) /\ AgedLists(db, db.next) BY DEF BoardInv
  <1>4. PICK d : d = [db EXCEPT !.pillars = {p \in @ : p.id # c.arg.id}] OBVIOUS
  <1>5. /\ d = [page |-> db.page, edit |-> db.edit, del |-> db.del, next |-> db.next,
                pillars |-> {p \in db.pillars : p.id # c.arg.id}, objs |-> db.objs, acts |-> db.acts]
        /\ db.next \in Nat
    BY <1>3, <1>4 DEF IsDb
  <1>6. IsDb(d) BY <1>3, <1>5 DEF IsDb
  <1>7. AgedLists(d, d.next) BY <1>3, <1>5 DEF AgedLists, Aged
  <1>8. LiveOf(d) = LiveOf(db) /\ Board!Ids(d.objs) = Board!Ids(db.objs) /\ db.next <= d.next BY <1>5 DEF LiveOf
  <1>9. CASE Board!Served(c, d) BY <1>2, <1>6, <1>7, <1>8, <1>9, ServedStep
  <1>10. CASE Board!Reject(c) BY <1>2, <1>10, RejectStep
  <1>11. QED BY <1>1, <1>4, <1>9, <1>10
LEMMA ObjectiveDeleted == ASSUME None \notin Nat, BoardInv, Board!DeleteObjectiveRow PROVE BoardInv'
  <1>1. PICK c \in net : /\ c.op = "delObjective"
                         /\ Board!Served(c, [db EXCEPT !.objs = {o \in @ : o.id # c.arg.id}]) \/ Board!Reject(c)
    BY DEF Board!DeleteObjectiveRow
  <1>2. c.op \in ListWrites /\ c.op \notin {"lists", "plan", "modalLists"} BY <1>1 DEF ListWrites, Handlers
  <1>3. IsDb(db) /\ AgedLists(db, db.next) BY DEF BoardInv
  <1>4. PICK d : d = [db EXCEPT !.objs = {o \in @ : o.id # c.arg.id}] OBVIOUS
  <1>5. /\ d = [page |-> db.page, edit |-> db.edit, del |-> db.del, next |-> db.next,
                pillars |-> db.pillars, objs |-> {o \in db.objs : o.id # c.arg.id}, acts |-> db.acts]
        /\ db.next \in Nat
    BY <1>3, <1>4 DEF IsDb
  <1>6. IsDb(d) BY <1>3, <1>5 DEF IsDb
  <1>7. AgedLists(d, d.next) BY <1>3, <1>5 DEF AgedLists, Aged
  <1>8. LiveOf(d) = LiveOf(db) /\ db.next <= d.next BY <1>5 DEF LiveOf
  <1>9. \A i \in Nat : i < db.next /\ i \notin Board!Ids(db.objs) => i \notin Board!Ids(d.objs) BY <1>5 DEF Board!Ids
  <1>10. CASE Board!Served(c, d) BY <1>2, <1>6, <1>7, <1>8, <1>9, <1>10, ServedStep
  <1>11. CASE Board!Reject(c) BY <1>2, <1>11, RejectStep
  <1>12. QED BY <1>1, <1>4, <1>10, <1>11
LEMMA ActivityDeleted == ASSUME None \notin Nat, BoardInv, Board!DeleteActivityRow PROVE BoardInv'
  <1>1. PICK c \in net :
          /\ c.op = "delActivity"
          /\ Board!Served(c, [db EXCEPT !.acts = {IF a.id = c.arg.id THEN [a EXCEPT !.gone = TRUE] ELSE a : a \in @}]) \/ Board!Reject(c)
    BY DEF Board!DeleteActivityRow
  <1>2. c.op \in ActWrites /\ c.op \notin {"lists", "plan", "modalLists"} BY <1>1 DEF ActWrites
  <1>3. IsDb(db) /\ AgedLists(db, db.next) BY DEF BoardInv
  <1>4. PICK d : d = [db EXCEPT !.acts = {IF a.id = c.arg.id THEN [a EXCEPT !.gone = TRUE] ELSE a : a \in @}] OBVIOUS
  <1>5. PICK rows : d = [page |-> db.page, edit |-> db.edit, del |-> db.del, next |-> db.next,
                         pillars |-> db.pillars, objs |-> db.objs, acts |-> rows]
    BY <1>3, <1>4 DEF IsDb
  <1>6. IsDb(d) BY <1>3, <1>5 DEF IsDb
  <1>7. AgedLists(d, d.next) BY <1>3, <1>5 DEF AgedLists, Aged
  <1>8. ListsOf(d) = ListsOf(db) /\ Board!Ids(d.objs) = Board!Ids(db.objs) /\ db.next <= d.next BY <1>3, <1>5 DEF ListsOf, IsDb
  <1>9. CASE Board!Served(c, d) BY <1>2, <1>6, <1>7, <1>8, <1>9, ServedStep
  <1>10. CASE Board!Reject(c) BY <1>2, <1>10, RejectStep
  <1>11. QED BY <1>1, <1>4, <1>9, <1>10

-----------------------------------------------------------------------------
(* The page is left, and opened again. *)

LEMMA LeaveKept == ASSUME None \notin Nat, BoardInv, Board!Leave PROVE BoardInv'
  <1>1. BoardRequests /\ WhereCalls(net, db) /\ IsDb(db) /\ AgedLists(db, db.next) /\ lost \in Nat BY DEF BoardInv
  <1>2. PICK T : T = net' OBVIOUS
  <1>3. page' = "away" /\ db' = db /\ lost' = lost /\ mixed' = mixed /\ T = {[c EXCEPT !.here = FALSE] : c \in net}
    BY <1>2 DEF Board!Leave
  <1>4. PICK g : g = [q \in net |-> [q EXCEPT !.here = FALSE]] OBVIOUS
  <1>5. T = {g[q] : q \in net} BY <1>3, <1>4
  <1>6. \A q \in net : IsRequest(q) BY <1>1 DEF BoardRequests, Numbered
  <1>7. \A q \in net : /\ IsRequest(g[q]) /\ g[q].id = q.id /\ g[q].op = q.op /\ g[q].arg = q.arg
                       /\ g[q].st = q.st /\ g[q].ans = q.ans /\ ~g[q].here
    <2>1. SUFFICES ASSUME NEW q \in net
          PROVE /\ IsRequest(g[q]) /\ g[q].id = q.id /\ g[q].op = q.op /\ g[q].arg = q.arg
                /\ g[q].st = q.st /\ g[q].ans = q.ans /\ ~g[q].here
      OBVIOUS
    <2>2. g[q] = [q EXCEPT !.here = FALSE] BY <1>4
    <2>3. q = [id |-> q.id, op |-> q.op, arg |-> q.arg, st |-> q.st, ans |-> q.ans, here |-> q.here] BY <1>6 DEF IsRequest
    <2>4. QED BY <2>2, <2>3 DEF IsRequest
  <1>8. Numbered(T)
    <2>1. DOMAIN g = net BY <1>4
    <2>2. Numbered(net) BY <1>1 DEF BoardRequests
    <2>3. QED BY <1>5, <1>7, <2>1, <2>2, MarkedNumbered
  <1>9. Shaped(T) BY <1>1, <1>5, <1>7 DEF BoardRequests, Shaped
  <1>10. ~mixed => Ordered(T) BY <1>1, <1>5, <1>7 DEF BoardRequests, Ordered
  <1>11. WhereCalls(T, db) BY <1>1, <1>5, <1>7 DEF WhereCalls, Asked
  <1>12. Away' BY <1>2, <1>5, <1>7 DEF Away
  <1>13. BoardRequests' BY <1>2, <1>3, <1>8, <1>9, <1>10 DEF BoardRequests
  <1>14. QED BY <1>1, <1>2, <1>3, <1>11, <1>12, <1>13 DEF BoardInv

\* A page that has just been mounted awaits its plan.
LEMMA FreshMounted ==
  ASSUME None \notin Nat, IsDb(db), NEW v, IsView(v), AgedLists(v, db.next), ~v.plan, ~v.busy, ~v.deleting, ~v.ai.loading, ~v.ai.applying,
         v.modal = Board!NoModal, NEW T, NEW F, F \subseteq T, \A x \in F : x.op = "plan" /\ x.here /\ x.st = "sent", \E x \in F : TRUE,
         \A c \in T \ F : ~c.here /\ \A x \in F : c.id < x.id
  PROVE  /\ WhereView(T, v, db) /\ Opens(T, v) /\ Busy(T, v) /\ Synced(T, v, Board!Lists, Board!Live)
  <1>1. v.modal.for = None BY DEF Board!NoModal
  <1>2. \A c \in T : c.here => c.op = "plan" /\ c \in F OBVIOUS
  <1>3. WhereView(T, v, db) BY <1>1, <1>2 DEF WhereView, Untouched
  <1>4. Opens(T, v) BY <1>2 DEF Opens
  <1>5. Busy(T, v) BY <1>1 DEF Busy
  <1>6. Synced(T, v, Board!Lists, Board!Live) BY <1>2 DEF Synced
  <1>7. QED BY <1>3, <1>4, <1>5, <1>6

LEMMA FreshView == ASSUME NEW from PROVE
  LET v == [Board!Fresh EXCEPT !.from = from] IN
  /\ IsView(v) /\ ~v.plan /\ ~v.busy /\ ~v.deleting /\ ~v.ai.loading /\ ~v.ai.applying /\ v.modal = Board!NoModal
  /\ v.pillars = {} /\ v.objs = {}
  <1>1. PICK v : v = [Board!Fresh EXCEPT !.from = from] OBVIOUS
  <1>2. v = [plan |-> FALSE, acts |-> {}, pillars |-> {}, objs |-> {}, loading |-> TRUE,
             busy |-> FALSE, open |-> {}, from |-> from, modal |-> Board!NoModal,
             target |-> None, deleting |-> FALSE, ai |-> Board!NoAi]
    BY <1>1 DEF Board!Fresh
  <1>3. IsModal(Board!NoModal) BY DEF IsModal
  <1>4. IsAi(Board!NoAi) /\ ~Board!NoAi.loading /\ ~Board!NoAi.applying BY DEF IsAi, Board!NoAi
  <1>5. IsView(v) BY <1>2, <1>3, <1>4 DEF IsView
  <1>6. QED BY <1>1, <1>2, <1>4, <1>5

LEMMA OpenKept == ASSUME None \notin Nat, BoardInv, Board!Open PROVE BoardInv'
  <1>1. BoardRequests /\ WhereCalls(net, db) /\ IsDb(db) /\ AgedLists(db, db.next) /\ lost \in Nat BY DEF BoardInv
  <1>2. PICK T : T = net' OBVIOUS
  <1>3. PICK asks : asks = << <<"plan", None>> >> OBVIOUS
  <1>4. page = "away" /\ page' = "board" /\ view' = Board!Fresh /\ db' = db /\ lost' = lost /\ mixed' = mixed /\ T = Board!Send(net, asks)
    BY <1>2, <1>3 DEF Board!Open, Board!Mount
  <1>5. DOMAIN asks = 1..1 /\ asks[1][1] = "plan" /\ Proper(asks) BY <1>3 DEF Proper, Shape
  <1>6. Numbered(net) /\ Shaped(net) BY <1>1 DEF BoardRequests
  <1>7. PICK f, F : Flow(f, net, T, F, "none") /\ Asking(F, asks, TRUE) BY <1>4, <1>5, <1>6, FlowSend
  <1>8. F \subseteq T /\ (\A x \in F : x.op = "plan" /\ x.here /\ x.st = "sent") /\ \E x \in F : TRUE
    <2>1. \A x \in F : x.op = "plan" /\ x.here BY <1>5, <1>7 DEF Asking
    <2>2. \E x \in F : TRUE BY <1>5, <1>7 DEF Asking
    <2>3. QED BY <1>7, <2>1, <2>2 DEF Flow, Moved
  <1>9. Away BY <1>4 DEF BoardInv
  <1>10. \A c \in T \ F : ~c.here /\ \A x \in F : c.id < x.id
    <2>1. SUFFICES ASSUME NEW c \in T \ F PROVE ~c.here /\ \A x \in F : c.id < x.id OBVIOUS
    <2>2. PICK q \in net : c = f[q] BY <1>7 DEF Flow, Moved
    <2>3. ~q.here BY <1>9 DEF Away
    <2>4. QED BY <1>7, <2>2, <2>3 DEF Flow, Moved, Marked
  <1>11. PICK v : v = [Board!Fresh EXCEPT !.from = None] OBVIOUS
  <1>12. v = Board!Fresh BY <1>11 DEF Board!Fresh
  <1>13. /\ IsView(v) /\ ~v.plan /\ ~v.busy /\ ~v.deleting /\ ~v.ai.loading /\ ~v.ai.applying /\ v.modal = Board!NoModal
         /\ v.pillars = {} /\ v.objs = {}
    BY <1>11, FreshView
  <1>14. AgedLists(v, db.next) BY <1>13 DEF AgedLists, Aged
  <1>15. WhereView(T, v, db) /\ Opens(T, v) /\ Busy(T, v) /\ Synced(T, v, Board!Lists, Board!Live)
    BY <1>1, <1>8, <1>10, <1>13, <1>14, FreshMounted
  <1>16. Board!Lists' = Board!Lists /\ Board!Live' = Board!Live BY <1>4 DEF Board!Lists, Board!Live
  <1>17. Mounted'
    <2>1. WhereView(net, view, db)' /\ Opens(net, view)' /\ Busy(net, view)' /\ IsView(view)' BY <1>2, <1>4, <1>12, <1>13, <1>15
    <2>2. Synced(net', view', Board!Lists', Board!Live') BY <1>2, <1>4, <1>12, <1>15, <1>16
    <2>3. QED BY <2>1, <2>2 DEF Mounted
  <1>18. BoardRequests'
    <2>1. Numbered(T) /\ Shaped(T) /\ Moved(f, net, T, F) BY <1>7 DEF Flow
    <2>2. ~mixed => Ordered(T) BY <1>1, <1>6, <2>1, OrderedKept DEF BoardRequests
    <2>3. QED BY <1>2, <1>4, <2>1, <2>2 DEF BoardRequests
  <1>19. WhereCalls(T, db)
    <2>1. NewCalls(F) BY <1>8 DEF NewCalls
    <2>2. QED BY <1>1, <1>7, <2>1, CallsKept
  <1>20. QED BY <1>1, <1>2, <1>4, <1>17, <1>18, <1>19 DEF BoardInv

-----------------------------------------------------------------------------
(* The mounted page. *)

\* What a gesture or an answer that concerns neither lists nor dialog must see to.
LEMMA MinorReady ==
  ASSUME BoardInv, page = "board", view.plan, NEW v, IsView(v), v.plan, v.acts = view.acts, v.pillars = view.pillars,
         v.objs = view.objs, v.loading = view.loading, v.modal = view.modal,
         NEW gone, NEW F, \A x \in F : x.op \notin {"create", "modalLists"},
         \A c \in gone : c.op \notin {"lists", "plan", "modalLists", "create"},
         \A c \in gone : c.op = "fan" => \E x \in F : x.op = "fan",
         \A c \in gone : c.op \in Handlers => c.st # "ok",
         \A c \in gone : c.op = "delActivity" /\ c.st = "ok" => \E x \in F : x.op = "plan",
         v.busy => (\E x \in F : x.op \in Handlers) \/ (view.busy /\ \A c \in gone : c.op \notin Handlers),
         v.deleting => (\E x \in F : x.op = "delActivity") \/ (view.deleting /\ \A c \in gone : c.op # "delActivity"),
         v.ai.loading => \/ v.ai.of \in Nat /\ \E x \in F : x.op = "draft" /\ x.arg.of = v.ai.of
                         \/ view.ai.loading /\ v.ai.of = view.ai.of /\ \A c \in gone : c.op # "draft",
         v.ai.applying => \/ \E x \in F : x.op = "fan" /\ x.arg.of = v.ai.of
                          \/ view.ai.applying /\ v.ai.of = view.ai.of /\ \A c \in gone : c.op = "fan" => c.arg.of # view.ai.of
  PROVE  Ready(v, gone, F, "none")
  <1>1. Mounted BY DEF BoardInv
  <1>2. NewCalls(F) BY DEF NewCalls
  <1>3. Placed(v, F, "none") BY <1>1 DEF Mounted, WhereView, Placed, AgedLists
  <1>4. Awaited(v, gone, F, "none")
    <2>1. v.modal.for # None /\ v.modal.listing =>
            \/ v.loading
            \/ view.modal.for # None /\ view.modal.listing /\ ~view.loading /\ \A c \in gone : c.op # "modalLists"
      OBVIOUS
    <2>2. v.modal.for # None /\ v.modal.busy =>
            view.modal.for # None /\ view.modal.busy /\ \A c \in gone : c.op = "create" => ~c.arg.mine
      OBVIOUS
    <2>3. v.loading /\ v.plan => view.loading /\ view.plan /\ \A c \in gone : c.op # "lists" OBVIOUS
    <2>4. QED BY <2>1, <2>2, <2>3 DEF Awaited
  <1>5. Truthful(v, gone, F)
    <2>1. \/ \E x \in F : x.op \in {"lists", "fan"}
          \/ \A c \in gone : c.op \notin {"lists", "fan"} /\ (c.op \in ListWrites => c.st # "ok")
      BY DEF ListWrites
    <2>2. \/ \E x \in F : x.op \in {"plan", "fan"}
          \/ \A c \in gone : c.op \notin {"plan", "fan"} /\ (c.op \in ActWrites => c.st # "ok")
      BY DEF ActWrites
    <2>3. QED BY <2>1, <2>2 DEF Truthful
  <1>6. QED BY <1>2, <1>3, <1>4, <1>5 DEF Ready

\* A handler that ends with load() unmounts the sections and the dialog.
LEMMA ReloadReady ==
  ASSUME None \notin Nat, BoardInv, page = "board", view.plan, NEW u, IsView(u), u.plan, u.acts = view.acts, u.pillars = view.pillars,
         u.objs = view.objs, u.modal = view.modal \/ u.modal = Board!NoModal,
         NEW gone, NEW F, \A x \in F : x.op \in {"lists", "plan"}, \E x \in F : x.op = "lists",
         \A c \in gone : c.op \in Handlers \cup {"create", "fan"},
         (\E x \in F : x.op = "plan") \/ (\A c \in gone : c.op \in Handlers),
         u.busy => view.busy /\ \A c \in gone : c.op \notin Handlers,
         u.deleting => view.deleting,
         u.ai.loading => view.ai.loading /\ u.ai.of = view.ai.of,
         u.ai.applying => view.ai.applying /\ u.ai.of = view.ai.of /\ \A c \in gone : c.op = "fan" => c.arg.of # view.ai.of
  PROVE  Ready(Board!Reloading(u), gone, F, "sections")
  <1>1. Mounted BY DEF BoardInv
  <1>2. PICK v : v = Board!Reloading(u) OBVIOUS
  <1>3. PICK m : m = IF u.modal.for = None THEN u.modal ELSE Board!Modal(u.modal.for) OBVIOUS
  <1>4. PICK i : i = IF u.ai.of \in {None, 0} THEN u.ai ELSE Board!NoAi OBVIOUS
  <1>5. v = [plan |-> u.plan, acts |-> u.acts, pillars |-> u.pillars, objs |-> u.objs, loading |-> TRUE,
             busy |-> u.busy, open |-> u.open, from |-> u.from, modal |-> m, target |-> u.target,
             deleting |-> u.deleting, ai |-> i]
    BY <1>2, <1>3, <1>4 DEF Board!Reloading, IsView
  <1>6. IsModal(m) /\ m.for = u.modal.for /\ (m.for # None => m.obj = m.for /\ ~m.busy)
    <2>1. CASE u.modal.for = None BY <1>3, <2>1 DEF IsView
    <2>2. CASE u.modal.for # None
      <3>1. u.modal.for \in Nat BY <2>2 DEF IsView, IsModal, Board!NoModal
      <3>2. m = [for |-> u.modal.for, pillar |-> None, obj |-> u.modal.for, pillars |-> {}, objs |-> {},
                 listing |-> TRUE, picked |-> FALSE, busy |-> FALSE]
        BY <1>3, <2>2 DEF Board!Modal
      <3>3. QED BY <3>1, <3>2 DEF IsModal
    <2>3. QED BY <2>1, <2>2
  <1>7. IsAi(i) /\ (i.loading => u.ai.loading /\ i.of = u.ai.of /\ i.of \in {None, 0}) /\ (i.applying => u.ai.applying /\ i.of = u.ai.of)
    BY <1>4 DEF IsView, Board!NoAi, IsAi
  <1>8. IsView(v) BY <1>5, <1>6, <1>7 DEF IsView
  <1>9. NewCalls(F) BY DEF NewCalls
  <1>10. Placed(v, F, "sections")
    <2>1. AgedLists(view, db.next) BY <1>1 DEF Mounted, WhereView
    <2>2. AgedLists(v, db.next) BY <1>5, <2>1 DEF AgedLists
    <2>3. v.modal.for # None => v.modal.for = view.modal.for BY <1>5, <1>6 DEF Board!NoModal
    <2>4. v.modal.for # None => v.modal.for < db.next BY <1>1, <2>3 DEF Mounted, WhereView
    <2>5. Untouched(v.modal, db.objs) BY <1>5, <1>6 DEF Untouched
    <2>6. QED BY <2>2, <2>4, <2>5 DEF Placed
  <1>11. Awaited(v, gone, F, "sections")
    <2>1. v.busy = u.busy /\ v.deleting = u.deleting /\ v.loading /\ v.ai = i /\ v.modal = m BY <1>5
    <2>2. v.busy => view.busy /\ \A c \in gone : c.op \notin Handlers BY <2>1
    <2>3. v.deleting => view.deleting /\ \A c \in gone : c.op # "delActivity" BY <2>1 DEF Handlers
    <2>4. v.ai.loading => view.ai.loading /\ v.ai.of = view.ai.of /\ v.ai.of \in {None, 0} /\ \A c \in gone : c.op # "draft"
      BY <1>7, <2>1 DEF Handlers
    <2>5. v.ai.applying => view.ai.applying /\ v.ai.of = view.ai.of /\ \A c \in gone : c.op = "fan" => c.arg.of # view.ai.of
      BY <1>7, <2>1
    <2>6. ~(v.modal.for # None /\ v.modal.busy) BY <1>6, <2>1
    <2>7. QED BY <2>1, <2>2, <2>3, <2>4, <2>5, <2>6 DEF Awaited
  <1>12. Truthful(v, gone, F)
    <2>1. v.plan /\ v.acts = view.acts BY <1>5
    <2>2. (\E x \in F : x.op = "plan") \/ (\A c \in gone : c.op \notin {"plan", "fan"} /\ c.op \notin ActWrites) BY DEF Handlers, ActWrites
    <2>3. QED BY <2>1, <2>2 DEF Truthful
  <1>13. v.plan BY <1>5
  <1>14. Ready(v, gone, F, "sections") BY <1>8, <1>9, <1>10, <1>11, <1>12, <1>13 DEF Ready
  <1>15. QED BY <1>2, <1>14

\* A page that is in use.
LEMMA InUseFacts == ASSUME BoardInv, page = "board"
  PROVE /\ IsView(view) /\ WhereView(net, view, db) /\ Busy(net, view) /\ Opens(net, view) /\ IsDb(db)
        /\ Numbered(net) /\ Shaped(net)
        /\ \A c \in net : c.here /\ c.op # "plan" => view.plan
  BY DEF BoardInv, Mounted, BoardRequests, Opens

LEMMA AskingOne == ASSUME NEW op, NEW arg, NEW F, Asking(F, One(op, arg), TRUE)
  PROVE (\A x \in F : x.op = op /\ x.arg = arg) /\ \E x \in F : x.op = op /\ x.arg = arg
  <1>1. PICK asks : asks = One(op, arg) OBVIOUS
  <1>2. DOMAIN asks = 1..1 /\ asks[1][1] = op /\ asks[1][2] = arg BY <1>1 DEF One
  <1>3. Asking(F, asks, TRUE) BY <1>1
  <1>4. \A i \in DOMAIN asks : i = 1 BY <1>2
  <1>5. QED BY <1>2, <1>3, <1>4 DEF Asking
LEMMA OneShape == ASSUME NEW op, NEW arg, Shape(op, arg)
  PROVE DOMAIN One(op, arg) = 1..1 /\ Proper(One(op, arg)) /\ One(op, arg)[1][1] = op
  BY DEF One, Proper

\* One request more, sent by a gesture, or by a handler that goes on.
LEMMA AskOne ==
  ASSUME None \notin Nat, BoardInv, page = "board", NEW v, NEW op, NEW arg, Shape(op, arg), Board!Ask(op, arg, v),
         \A F : (\A x \in F : x.op = op /\ x.arg = arg) /\ (\E x \in F : x.op = op /\ x.arg = arg) => Ready(v, {}, F, "none")
  PROVE  BoardInv'
  <1>1. PICK asks : asks = One(op, arg) OBVIOUS
  <1>2. DOMAIN asks = 1..1 /\ Proper(asks) BY <1>1, OneShape
  <1>3. Board!Asks(asks, v) BY <1>1 DEF Board!Ask, One
  <1>4. ASSUME NEW F, Asking(F, asks, TRUE) PROVE Ready(v, {}, F, "none")
    <2>1. Asking(F, One(op, arg), TRUE) BY <1>1, <1>4
    <2>2. (\A x \in F : x.op = op /\ x.arg = arg) /\ \E x \in F : x.op = op /\ x.arg = arg BY ONLY <2>1, AskingOne
    <2>3. QED BY <2>2
  <1>5. PICK n \in Nat : n = 1 OBVIOUS
  <1>6. DOMAIN asks = 1..n BY <1>2, <1>5
  <1>7. QED BY <1>2, <1>3, <1>4, <1>6, AskStep
LEMMA ResumeAskOne ==
  ASSUME None \notin Nat, BoardInv, page = "board", NEW c \in net, c.here, NEW v, NEW op, NEW arg, Shape(op, arg), Board!ResumeAsk(c, op, arg, v),
         \A F : (\A x \in F : x.op = op /\ x.arg = arg) /\ (\E x \in F : x.op = op /\ x.arg = arg) => Ready(v, {c}, F, "none")
  PROVE  BoardInv'
  <1>1. PICK asks : asks = One(op, arg) OBVIOUS
  <1>2. DOMAIN asks = 1..1 /\ Proper(asks) BY <1>1, OneShape
  <1>3. Board!ResumeAsks(c, asks, v) BY <1>1 DEF Board!ResumeAsk, One
  <1>4. ASSUME NEW F, Asking(F, asks, TRUE) PROVE Ready(v, {c}, F, "none")
    <2>1. Asking(F, One(op, arg), TRUE) BY <1>1, <1>4
    <2>2. (\A x \in F : x.op = op /\ x.arg = arg) /\ \E x \in F : x.op = op /\ x.arg = arg BY ONLY <2>1, AskingOne
    <2>3. QED BY <2>2
  <1>5. PICK n \in Nat : n = 1 OBVIOUS
  <1>6. DOMAIN asks = 1..n BY <1>2, <1>5
  <1>7. QED BY <1>2, <1>3, <1>4, <1>6, ResumeAsksStep
LEMMA OrphanAskOne ==
  ASSUME None \notin Nat, BoardInv, NEW c \in net, ~c.here, NEW v, NEW op, NEW arg, op \notin {"create", "modalLists"}, Shape(op, arg), Board!ResumeAsk(c, op, arg, v)
  PROVE  BoardInv'
  <1>1. PICK asks : asks = One(op, arg) OBVIOUS
  <1>2. DOMAIN asks = 1..1 /\ asks[1][1] = op /\ Proper(asks) BY <1>1, OneShape
  <1>3. Board!ResumeAsks(c, asks, v) BY <1>1 DEF Board!ResumeAsk, One
  <1>4. PICK n \in Nat : n = 1 OBVIOUS
  <1>5. DOMAIN asks = 1..n /\ n > 0 BY <1>2, <1>4
  <1>6. \A i \in 1..n : asks[i][1] \notin {"create", "modalLists"} BY <1>2, <1>4
  <1>7. QED BY <1>2, <1>3, <1>5, <1>6, OrphanAsks

-----------------------------------------------------------------------------
(* The handlers of the board. *)

\* The page in use, but for what a gesture or an answer sets aside from its rows.
Minor(busy, open, target, deleting, ai) ==
  [plan |-> view.plan, acts |-> view.acts, pillars |-> view.pillars, objs |-> view.objs, loading |-> view.loading,
   busy |-> busy, open |-> open, from |-> view.from, modal |-> view.modal, target |-> target,
   deleting |-> deleting, ai |-> ai]
LEMMA MinorView == ASSUME IsView(view), NEW busy, NEW open, NEW target, NEW deleting, NEW ai, IsAi(ai), NEW v,
                          v = Minor(busy, open, target, deleting, ai)
  PROVE /\ IsView(v) /\ v.plan = view.plan /\ v.acts = view.acts /\ v.pillars = view.pillars /\ v.objs = view.objs
        /\ v.loading = view.loading /\ v.modal = view.modal /\ v.busy = busy /\ v.deleting = deleting /\ v.ai = ai
  BY DEF IsView, Minor

\* What load() and onChanged() await.
Loads(both) == << <<"lists", None>> >> \o IF both THEN << <<"plan", None>> >> ELSE <<>>
LEMMA TwoAsked == ASSUME NEW x, NEW y, NEW l, l = <<x>> \o <<y>> PROVE DOMAIN l = 1..2 /\ l[1] = x /\ l[2] = y
  <1>1. PICK S : S = {x, y} OBVIOUS
  <1>2. <<x>> \in Seq(S) /\ <<y>> \in Seq(S) BY <1>1
  <1>3. l \in Seq(S) /\ Len(l) = 2 BY <1>2
  <1>4. l[1] = x /\ l[2] = y BY <1>2
  <1>5. QED BY <1>3, <1>4
LEMMA LoadsShape == ASSUME NEW both \in BOOLEAN
  PROVE \E n \in Nat : /\ n > 0 /\ DOMAIN Loads(both) = 1..n /\ Proper(Loads(both))
                       /\ \A i \in 1..n : Loads(both)[i][1] \in {"lists", "plan"}
                       /\ \E i \in 1..n : Loads(both)[i][1] = "lists"
                       /\ both => \E i \in 1..n : Loads(both)[i][1] = "plan"
  <1>1. PICK l : l = Loads(both) OBVIOUS
  <1>2. CASE both
    <2>a. PICK x, y : x = <<"lists", None>> /\ y = <<"plan", None>> OBVIOUS
    <2>b. l = <<x>> \o <<y>> BY <1>1, <1>2, <2>a DEF Loads
    <2>1. DOMAIN l = 1..2 /\ l[1] = x /\ l[2] = y BY <2>b, TwoAsked
    <2>2. DOMAIN l = 1..2 /\ l[1][1] = "lists" /\ l[2][1] = "plan" BY <2>a, <2>1
    <2>3. \A i \in 1..2 : i = 1 \/ i = 2 OBVIOUS
    <2>4. Proper(l) BY <2>2, <2>3 DEF Proper, Shape
    <2>5. \A i \in 1..2 : l[i][1] \in {"lists", "plan"} BY <2>2, <2>3
    <2>6. QED BY <1>1, <2>2, <2>4, <2>5
  <1>3. CASE ~both
    <2>1. l = << <<"lists", None>> >> BY <1>1, <1>3 DEF Loads
    <2>2. DOMAIN l = 1..1 /\ l[1][1] = "lists" BY <2>1
    <2>3. \A i \in 1..1 : i = 1 OBVIOUS
    <2>4. Proper(l) BY <2>2, <2>3 DEF Proper, Shape
    <2>5. QED BY <1>1, <1>3, <2>2, <2>3, <2>4
  <1>4. QED BY <1>2, <1>3
LEMMA LoadsAsked == ASSUME NEW both \in BOOLEAN, NEW F, Asking(F, Loads(both), TRUE)
  PROVE /\ \A x \in F : x.op \in {"lists", "plan"}
        /\ \E x \in F : x.op = "lists"
        /\ both => \E x \in F : x.op = "plan"
  <1>1. PICK l : l = Loads(both) OBVIOUS
  <1>2. PICK n \in Nat : /\ DOMAIN l = 1..n
                         /\ \A i \in 1..n : l[i][1] \in {"lists", "plan"}
                         /\ \E i \in 1..n : l[i][1] = "lists"
                         /\ both => \E i \in 1..n : l[i][1] = "plan"
    BY <1>1, LoadsShape
  <1>3. Asking(F, l, TRUE) BY <1>1
  <1>4. \A x \in F : \E i \in 1..n : x.op = l[i][1] BY <1>2, <1>3 DEF Asking
  <1>5. \A i \in 1..n : \E x \in F : x.op = l[i][1] BY <1>2, <1>3 DEF Asking
  <1>6. \A x \in F : x.op \in {"lists", "plan"} BY <1>2, <1>4
  <1>7. QED BY <1>2, <1>5, <1>6

LEMMA EndsHere ==
  ASSUME None \notin Nat, BoardInv, page = "board", NEW c \in net, c.here, NEW both \in BOOLEAN, NEW u, Board!EndLoading(c, both, u),
         c.op \in Handlers \/ (both /\ c.op \in {"create", "fan"}),
         IsView(u), u.plan, u.acts = view.acts, u.pillars = view.pillars,
         u.objs = view.objs, u.modal = view.modal \/ u.modal = Board!NoModal,
         u.busy => view.busy /\ c.op \notin Handlers,
         u.deleting => view.deleting,
         u.ai.loading => view.ai.loading /\ u.ai.of = view.ai.of,
         u.ai.applying => view.ai.applying /\ u.ai.of = view.ai.of /\ (c.op = "fan" => c.arg.of # view.ai.of)
  PROVE  BoardInv'
  <1>1. PICK asks : asks = Loads(both) OBVIOUS
  <1>2. PICK n \in Nat : DOMAIN asks = 1..n /\ Proper(asks) BY <1>1, LoadsShape
  <1>3. PICK v : v = Board!Reloading(u) OBVIOUS
  <1>4. Board!Answered(c, Board!Send(Board!WithoutSections(Board!Without(c)), asks), v) BY <1>1, <1>3 DEF Board!EndLoading, Loads
  <1>5. view.plan BY InUseFacts DEF Handlers
  <1>6. ASSUME NEW F, Asking(F, asks, TRUE) PROVE Ready(v, {c}, F, "sections")
    <2>1. Asking(F, Loads(both), TRUE) BY <1>1, <1>6
    <2>2. (\A x \in F : x.op \in {"lists", "plan"}) /\ (\E x \in F : x.op = "lists") /\ (both => \E x \in F : x.op = "plan")
      BY <2>1, LoadsAsked
    <2>3. PICK gone : gone = {c} OBVIOUS
    <2>4. \A d \in gone : d = c BY <2>3
    <2>5. \A y \in gone : y.op \in Handlers \cup {"create", "fan"} BY <2>4
    <2>6. (\E x \in F : x.op = "plan") \/ (\A y \in gone : y.op \in Handlers) BY <2>2, <2>4
    <2>7. Ready(Board!Reloading(u), gone, F, "sections") BY <1>5, <2>2, <2>4, <2>5, <2>6, ReloadReady
    <2>8. QED BY <1>3, <2>3, <2>7
  <1>7. QED BY <1>2, <1>4, <1>6, EndStep
LEMMA EndsAway == ASSUME None \notin Nat, BoardInv, NEW c \in net, ~c.here, NEW both \in BOOLEAN, NEW u, Board!EndLoading(c, both, u)
  PROVE BoardInv'
  <1>1. PICK asks : asks = Loads(both) OBVIOUS
  <1>2. PICK n \in Nat : n > 0 /\ DOMAIN asks = 1..n /\ Proper(asks) /\ \A i \in 1..n : asks[i][1] \in {"lists", "plan"}
    BY <1>1, LoadsShape
  <1>3. Board!ResumeAsks(c, asks, view) BY <1>1 DEF Board!EndLoading, Loads
  <1>4. \A i \in 1..n : asks[i][1] \notin {"create", "modalLists"} BY <1>2
  <1>5. QED BY <1>2, <1>3, <1>4, OrphanAsks

LEMMA HandleKept == ASSUME None \notin Nat, BoardInv, Board!Usable, NEW op \in Handlers, NEW arg, Board!Handle(op, arg) PROVE BoardInv'
  <1>1. page = "board" /\ view.plan BY DEF Board!Usable, Board!Here
  <1>2. IsView(view) BY <1>1, InUseFacts
  <1>3. PICK v : v = [view EXCEPT !.busy = TRUE] OBVIOUS
  <1>b. PICK b : b = TRUE OBVIOUS
  <1>a. PICK o, t, d, i : o = view.open /\ t = view.target /\ d = view.deleting /\ i = view.ai OBVIOUS
  <1>4. v = Minor(b, o, t, d, i) BY <1>2, <1>3, <1>a, <1>b DEF IsView, Minor
  <1>5. /\ IsView(v) /\ v.plan /\ v.acts = view.acts /\ v.pillars = view.pillars /\ v.objs = view.objs
        /\ v.loading = view.loading /\ v.modal = view.modal /\ v.deleting = view.deleting /\ v.ai = view.ai
    <2>1. IsAi(i) BY <1>2, <1>a DEF IsView
    <2>2. /\ IsView(v) /\ v.plan = view.plan /\ v.acts = view.acts /\ v.pillars = view.pillars /\ v.objs = view.objs
          /\ v.loading = view.loading /\ v.modal = view.modal /\ v.busy = b /\ v.deleting = d /\ v.ai = i
      BY <1>2, <1>4, <2>1, MinorView
    <2>3. QED BY <1>1, <1>a, <2>2
  <1>6. op \notin {"create", "modalLists"} BY DEF Handlers
  <1>7. ASSUME NEW F, \A x \in F : x.op = op /\ x.arg = arg, \E x \in F : x.op = op /\ x.arg = arg PROVE Ready(v, {}, F, "none")
    <2>1. PICK gone : gone = {} OBVIOUS
    <2>2. \A c \in gone : FALSE BY <2>1
    <2>3. Ready(v, gone, F, "none") BY <1>1, <1>5, <1>6, <1>7, <2>2, MinorReady
    <2>4. QED BY <2>1, <2>3
  <1>8. Board!Ask(op, arg, v) BY <1>3 DEF Board!Handle
  <1>9. Shape(op, arg) BY DEF Shape, Handlers
  <1>10. QED BY <1>1, <1>7, <1>8, <1>9, AskOne

LEMMA HandledKept == ASSUME None \notin Nat, BoardInv, NEW op \in Handlers, Board!Handled(op) PROVE BoardInv'
  <1>1. PICK c \in Board!Waiting(op) :
          IF c.st = "ok" THEN Board!EndLoading(c, FALSE, [view EXCEPT !.busy = FALSE]) ELSE Board!Resume(c, [view EXCEPT !.busy = FALSE])
    BY DEF Board!Handled
  <1>2. page = "board" /\ c \in net /\ c.op = op BY DEF Board!Handled, Board!Here, Board!Waiting
  <1>3. PICK v : v = [view EXCEPT !.busy = FALSE] OBVIOUS
  <1>4. IF c.st = "ok" THEN Board!EndLoading(c, FALSE, v) ELSE Board!Resume(c, v) BY <1>1, <1>3
  <1>5. CASE ~c.here
    <2>1. CASE c.st = "ok"
      <3>1. Board!EndLoading(c, FALSE, v) BY <1>4, <2>1
      <3>2. QED BY <1>2, <1>5, <3>1, EndsAway
    <2>2. CASE c.st # "ok"
      <3>1. Board!Resume(c, v) BY <1>4, <2>2
      <3>2. QED BY <1>2, <1>5, <3>1, OrphanResumes
    <2>3. QED BY <2>1, <2>2
  <1>6. CASE c.here
    <2>c. IsView(view) BY <1>2, InUseFacts
    <2>1. IsView(view) /\ view.plan BY <1>2, <1>6, InUseFacts DEF Handlers
    <2>b. PICK b : b = FALSE OBVIOUS
    <2>a. PICK o, t, d, i : o = view.open /\ t = view.target /\ d = view.deleting /\ i = view.ai OBVIOUS
    <2>2. v = Minor(b, o, t, d, i) BY <1>3, <2>1, <2>a, <2>b DEF IsView, Minor
    <2>3. /\ IsView(v) /\ v.plan /\ v.acts = view.acts /\ v.pillars = view.pillars /\ v.objs = view.objs
          /\ v.loading = view.loading /\ v.modal = view.modal /\ v.deleting = view.deleting /\ v.ai = view.ai /\ ~v.busy
      <3>1. IsAi(i) BY <2>1, <2>a DEF IsView
      <3>2. /\ IsView(v) /\ v.plan = view.plan /\ v.acts = view.acts /\ v.pillars = view.pillars /\ v.objs = view.objs
            /\ v.loading = view.loading /\ v.modal = view.modal /\ v.busy = b /\ v.deleting = d /\ v.ai = i
        BY <2>c, <2>2, <3>1, MinorView
      <3>3. QED BY <2>1, <2>a, <2>b, <3>2
    <2>4. CASE c.st = "ok"
      <3>1. Board!EndLoading(c, FALSE, v) BY <1>4, <2>4
      <3>2. c.op # "fan" BY <1>2 DEF Handlers
      <3>3. QED BY <1>2, <1>6, <2>3, <3>1, <3>2, EndsHere
    <2>5. CASE c.st # "ok"
      <3>1. Board!Resume(c, v) BY <1>4, <2>5
      <3>2. PICK gone : gone = {c} OBVIOUS
      <3>3. \A y \in gone : y.op \in Handlers /\ y.st # "ok" BY <1>2, <2>5, <3>2
      <3>4. \A y \in gone : y.op \notin {"lists", "plan", "modalLists", "create", "fan", "delActivity", "draft"} BY <3>3 DEF Handlers
      <3>5. PICK F : F = {} OBVIOUS
      <3>6. \A x \in F : FALSE BY <3>5
      <3>7. Ready(v, gone, F, "none") BY <1>2, <2>1, <2>3, <3>3, <3>4, <3>6, MinorReady
      <3>8. QED BY <1>2, <1>6, <3>1, <3>2, <3>5, <3>7, ResumeStep
    <2>6. QED BY <2>4, <2>5
  <1>7. QED BY <1>5, <1>6

LEMMA HandlersKept == ASSUME None \notin Nat, BoardInv,
    Board!AddPillar \/ Board!RenamePillar \/ Board!DeletePillar \/ Board!AddObjective \/ Board!RenameObjective \/ Board!DeleteObjective
  PROVE BoardInv'
  <1>1. ASSUME NEW op \in Handlers, Board!Handled(op) PROVE BoardInv' BY <1>1, HandledKept
  <1>2. ASSUME Board!Usable, NEW op \in Handlers, NEW arg, Board!Handle(op, arg) PROVE BoardInv' BY <1>2, HandleKept
  <1>3. CASE Board!AddPillar BY <1>1, <1>2, <1>3 DEF Board!AddPillar, Handlers
  <1>4. CASE Board!RenamePillar BY <1>1, <1>2, <1>4 DEF Board!RenamePillar, Handlers
  <1>5. CASE Board!DeletePillar BY <1>1, <1>2, <1>5 DEF Board!DeletePillar, Handlers
  <1>6. CASE Board!AddObjective BY <1>1, <1>2, <1>6 DEF Board!AddObjective, Handlers
  <1>7. CASE Board!RenameObjective BY <1>1, <1>2, <1>7 DEF Board!RenameObjective, Handlers
  <1>8. CASE Board!DeleteObjective BY <1>1, <1>2, <1>8 DEF Board!DeleteObjective, Handlers
  <1>9. QED BY <1>3, <1>4, <1>5, <1>6, <1>7, <1>8

\* What sets aside the rest of the page changes it alone, ...
LEMMA MinorLocal ==
  ASSUME None \notin Nat, BoardInv, Board!Usable, NEW o, NEW t, NEW i, IsAi(i), NEW v, v = Minor(view.busy, o, t, view.deleting, i), Board!Local(v),
         i.loading => view.ai.loading /\ i.of = view.ai.of,
         i.applying => view.ai.applying /\ i.of = view.ai.of
  PROVE  BoardInv'
  <1>1. page = "board" /\ view.plan BY DEF Board!Usable, Board!Here
  <1>2. IsView(view) BY <1>1, InUseFacts
  <1>a. PICK b, d : b = view.busy /\ d = view.deleting OBVIOUS
  <1>3. v = Minor(b, o, t, d, i) BY <1>a
  <1>4. /\ IsView(v) /\ v.plan = view.plan /\ v.acts = view.acts /\ v.pillars = view.pillars /\ v.objs = view.objs
        /\ v.loading = view.loading /\ v.modal = view.modal /\ v.busy = b /\ v.deleting = d /\ v.ai = i
    BY <1>2, <1>3, MinorView
  <1>5. PICK N : N = {} OBVIOUS
  <1>6. \A c \in N : FALSE BY <1>5
  <1>7. Ready(v, N, N, "none") BY <1>1, <1>4, <1>6, <1>a, MinorReady
  <1>8. QED BY <1>1, <1>5, <1>7, LocalStep
\* ... with one request, ...
LEMMA MinorAsk ==
  ASSUME None \notin Nat, BoardInv, Board!Usable, NEW b, NEW o, NEW t, NEW d, NEW i, IsAi(i), NEW v, v = Minor(b, o, t, d, i),
         NEW op, NEW arg, op \notin {"create", "modalLists"}, Shape(op, arg), Board!Ask(op, arg, v),
         b => op \in Handlers \/ view.busy,
         d => op = "delActivity" \/ view.deleting,
         i.loading => (i.of \in Nat /\ op = "draft" /\ arg.of = i.of) \/ (view.ai.loading /\ i.of = view.ai.of),
         i.applying => (op = "fan" /\ arg.of = i.of) \/ (view.ai.applying /\ i.of = view.ai.of)
  PROVE  BoardInv'
  <1>1. page = "board" /\ view.plan BY DEF Board!Usable, Board!Here
  <1>2. IsView(view) BY <1>1, InUseFacts
  <1>4. /\ IsView(v) /\ v.plan = view.plan /\ v.acts = view.acts /\ v.pillars = view.pillars /\ v.objs = view.objs
        /\ v.loading = view.loading /\ v.modal = view.modal /\ v.busy = b /\ v.deleting = d /\ v.ai = i
    BY <1>2, MinorView
  <1>5. PICK N : N = {} OBVIOUS
  <1>6. \A c \in N : FALSE BY <1>5
  <1>7. ASSUME NEW F, \A x \in F : x.op = op /\ x.arg = arg, \E x \in F : x.op = op /\ x.arg = arg PROVE Ready(v, {}, F, "none")
    <2>1. Ready(v, N, F, "none") BY <1>1, <1>4, <1>6, <1>7, MinorReady
    <2>2. QED BY <1>5, <2>1
  <1>8. QED BY <1>1, <1>7, AskOne
\* ... or with an answer that brings none of it.
LEMMA MinorResume ==
  ASSUME None \notin Nat, BoardInv, page = "board", view.plan, NEW b, NEW o, NEW t, NEW d, NEW i, IsAi(i), NEW v, v = Minor(b, o, t, d, i),
         NEW c \in net, c.here, Board!Resume(c, v), c.op \in {"draft", "delActivity"}, c.op = "delActivity" => c.st # "ok",
         b => view.busy,
         d => view.deleting /\ c.op # "delActivity",
         i.loading => view.ai.loading /\ i.of = view.ai.of /\ c.op # "draft",
         i.applying => view.ai.applying /\ i.of = view.ai.of
  PROVE  BoardInv'
  <1>2. IsView(view) BY InUseFacts
  <1>3. IsAi(i) /\ v = Minor(b, o, t, d, i) OBVIOUS
  <1>4. /\ IsView(v) /\ v.plan = view.plan /\ v.acts = view.acts /\ v.pillars = view.pillars /\ v.objs = view.objs
        /\ v.loading = view.loading /\ v.modal = view.modal /\ v.busy = b /\ v.deleting = d /\ v.ai = i
    BY ONLY <1>2, <1>3, MinorView
  <1>5. PICK N : N = {} OBVIOUS
  <1>6. \A x \in N : FALSE BY <1>5
  <1>7. PICK gone : gone = {c} OBVIOUS
  <1>8. \A x \in gone : x = c BY <1>7
  <1>9. \A x \in gone : x.op \notin Handlers /\ x.op \notin {"lists", "plan", "modalLists", "create", "fan"} BY <1>8 DEF Handlers
  <1>a. /\ v.busy => view.busy
        /\ v.deleting => view.deleting /\ \A x \in gone : x.op # "delActivity"
        /\ v.ai.loading => view.ai.loading /\ v.ai.of = view.ai.of /\ \A x \in gone : x.op # "draft"
        /\ v.ai.applying => view.ai.applying /\ v.ai.of = view.ai.of
        /\ v.plan
    BY <1>4, <1>8
  <1>b. \A x \in gone : ~(x.op = "delActivity" /\ x.st = "ok") BY <1>8
  <1>10. Ready(v, gone, N, "none") BY <1>4, <1>6, <1>9, <1>a, <1>b, MinorReady
  <1>11. QED BY <1>5, <1>7, <1>10, ResumeStep

LEMMA Toggled == ASSUME None \notin Nat, BoardInv, Board!TogglePillar PROVE BoardInv'
  <1>1. PICK p \in Board!Ids(view.pillars) : Board!Local([view EXCEPT !.open = IF p \in @ THEN @ \ {p} ELSE @ \cup {p}]) BY DEF Board!TogglePillar
  <1>2. Board!Usable /\ page = "board" BY DEF Board!TogglePillar, Board!Usable, Board!Here
  <1>3. IsView(view) BY <1>2, InUseFacts
  <1>4. PICK o : o = IF p \in view.open THEN view.open \ {p} ELSE view.open \cup {p} OBVIOUS
  <1>5. PICK v : v = [view EXCEPT !.open = o] OBVIOUS
  <1>6. Board!Local(v) BY <1>1, <1>4, <1>5
  <1>7. v = Minor(view.busy, o, view.target, view.deleting, view.ai) BY <1>3, <1>5 DEF IsView, Minor
  <1>8. IsAi(view.ai) BY <1>3 DEF IsView
  <1>9. QED BY <1>2, <1>6, <1>7, <1>8, MinorLocal

LEMMA ActivityDeletes == ASSUME None \notin Nat, BoardInv, Board!DeleteActivity PROVE BoardInv'
  <1>1. page = "board" BY DEF Board!DeleteActivity, Board!Usable, Board!Here
  <1>2. IsView(view) BY <1>1, InUseFacts
  <1>3. IsAi(view.ai) BY <1>2 DEF IsView
  <1>4. ASSUME Board!Usable, NEW t, Board!Local([view EXCEPT !.target = t]) PROVE BoardInv'
    <2>1. PICK v : v = [view EXCEPT !.target = t] OBVIOUS
    <2>2. v = Minor(view.busy, view.open, t, view.deleting, view.ai) BY <1>2, <2>1 DEF IsView, Minor
    <2>3. Board!Local(v) BY <1>4, <2>1
    <2>4. QED BY <1>3, <1>4, <2>2, <2>3, MinorLocal
  <1>5. CASE \E a \in view.acts : \E o \in view.objs : o.id = a.up /\ Board!Shows(o) /\ Board!Usable /\ Board!Local([view EXCEPT !.target = a.id])
    BY <1>4, <1>5
  <1>6. CASE Board!Usable /\ Board!Local([view EXCEPT !.target = None]) BY <1>4, <1>6
  <1>7. CASE Board!Usable /\ Board!Ask("delActivity", [id |-> view.target], [view EXCEPT !.deleting = TRUE])
    <2>1. PICK v : v = [view EXCEPT !.deleting = TRUE] OBVIOUS
    <2>2. PICK d : d = TRUE OBVIOUS
    <2>3. v = Minor(view.busy, view.open, view.target, d, view.ai) BY <1>2, <2>1, <2>2 DEF IsView, Minor
    <2>4. PICK op, arg : op = "delActivity" /\ arg = [id |-> view.target] OBVIOUS
    <2>5. Board!Ask(op, arg, v) BY <1>7, <2>1, <2>4
    <2>6. op \notin {"create", "modalLists"} /\ Shape(op, arg) BY <2>4 DEF Shape
    <2>7. QED BY <1>3, <1>7, <2>3, <2>4, <2>5, <2>6, MinorAsk
  <1>8. CASE \E c \in Board!Waiting("delActivity") :
               IF c.st = "ok" THEN Board!ResumeAsk(c, "plan", None, [view EXCEPT !.deleting = FALSE, !.target = None])
               ELSE Board!Resume(c, [view EXCEPT !.deleting = FALSE, !.target = None])
    <2>1. PICK v : v = [view EXCEPT !.deleting = FALSE, !.target = None] OBVIOUS
    <2>2. PICK c \in net : c.op = "delActivity" /\ IF c.st = "ok" THEN Board!ResumeAsk(c, "plan", None, v) ELSE Board!Resume(c, v)
      BY <1>8, <2>1 DEF Board!Waiting
    <2>3. CASE ~c.here /\ c.st = "ok"
      <3>1. PICK op : op = "plan" OBVIOUS
      <3>2. Board!ResumeAsk(c, op, None, v) /\ op \notin {"create", "modalLists"} /\ Shape(op, None) BY <2>2, <2>3, <3>1 DEF Shape
      <3>3. QED BY <2>3, <3>2, OrphanAskOne
    <2>4. CASE ~c.here /\ c.st # "ok" BY <2>2, <2>4, OrphanResumes
    <2>5. CASE c.here
      <3>1. view.plan BY <1>1, <2>2, <2>5, InUseFacts
      <3>2. PICK d : d = FALSE OBVIOUS
      <3>3. v = Minor(view.busy, view.open, None, d, view.ai) BY <1>2, <2>1, <3>2 DEF IsView, Minor
      <3>4. CASE c.st # "ok"
        <4>1. Board!Resume(c, v) BY <2>2, <3>4
        <4>2. QED BY <1>1, <1>3, <2>2, <2>5, <3>1, <3>2, <3>3, <3>4, <4>1, MinorResume
      <3>5. CASE c.st = "ok"
        <4>1. PICK op, arg : op = "plan" /\ arg = None OBVIOUS
        <4>2. Board!ResumeAsk(c, op, arg, v) /\ op # "create" /\ Shape(op, arg) BY <2>2, <3>5, <4>1 DEF Shape
        <4>3. PICK b, o, t, i : b = view.busy /\ o = view.open /\ t = None /\ i = view.ai OBVIOUS
        <4>4. v = Minor(b, o, t, d, i) BY <3>3, <4>3
        <4>5. /\ IsView(v) /\ v.plan = view.plan /\ v.acts = view.acts /\ v.pillars = view.pillars /\ v.objs = view.objs
              /\ v.loading = view.loading /\ v.modal = view.modal /\ v.busy = b /\ v.deleting = d /\ v.ai = i
          BY <1>2, <1>3, <4>3, <4>4, MinorView
        <4>6. ASSUME NEW F, \A x \in F : x.op = op /\ x.arg = arg, \E x \in F : x.op = op /\ x.arg = arg PROVE Ready(v, {c}, F, "none")
          <5>1. PICK gone : gone = {c} OBVIOUS
          <5>2. \A x \in gone : x.op = "delActivity" BY <2>2, <5>1
          <5>3. \A x \in gone : x.op \notin Handlers /\ x.op \notin {"lists", "plan", "modalLists", "create", "fan", "draft"}
            BY <5>2 DEF Handlers
          <5>4. Ready(v, gone, F, "none") BY <1>1, <3>1, <3>2, <4>1, <4>3, <4>5, <4>6, <5>2, <5>3, MinorReady
          <5>5. QED BY <5>1, <5>4
        <4>7. QED BY <1>1, <2>5, <4>2, <4>6, ResumeAskOne
      <3>6. QED BY <3>4, <3>5
    <2>6. QED BY <2>3, <2>4, <2>5
  <1>9. QED BY <1>5, <1>6, <1>7, <1>8 DEF Board!DeleteActivity

-----------------------------------------------------------------------------
(* The panel of a section. *)

\* Nothing more is under way than before.
Milder(i, ai) ==
  /\ IsAi(i)
  /\ i.loading => ai.loading /\ i.of = ai.of
  /\ i.applying => ai.applying /\ i.of = ai.of
LEMMA MilderAi == ASSUME NEW ai, NEW i, NEW of, NEW open, NEW l, NEW p, NEW tries, NEW cur,
    i = [of |-> of, open |-> open, loading |-> l, applying |-> p, tries |-> tries, cur |-> cur],
    l => ai.loading /\ of = ai.of, p => ai.applying /\ of = ai.of
  PROVE Milder(i, ai)
  BY DEF Milder, IsAi
LEMMA AiShapes == ASSUME NEW ai, IsAi(ai) PROVE
  /\ Milder(Board!Closed(ai), ai)
  /\ \A of : Milder(IF ai.of = of THEN [ai EXCEPT !.open = TRUE] ELSE [Board!NoAi EXCEPT !.of = of, !.open = TRUE], ai)
  /\ \A n : Milder([ai EXCEPT !.cur = n], ai)
  <1>1. PICK l, p, a, z : l = ai.loading /\ p = ai.applying /\ a = ai.of /\ z = FALSE OBVIOUS
  <1>2. Milder(Board!Closed(ai), ai)
    <2>1. PICK i : i = Board!Closed(ai) OBVIOUS
    <2>2. PICK e, n : e = <<>> /\ n = 0 OBVIOUS
    <2>3. i = [of |-> a, open |-> z, loading |-> l, applying |-> p, tries |-> e, cur |-> n] BY <1>1, <2>1, <2>2 DEF IsAi, Board!Closed
    <2>4. Milder(i, ai) BY <1>1, <2>3, MilderAi
    <2>5. QED BY <2>1, <2>4
  <1>3. ASSUME NEW of PROVE Milder(IF ai.of = of THEN [ai EXCEPT !.open = TRUE] ELSE [Board!NoAi EXCEPT !.of = of, !.open = TRUE], ai)
    <2>1. PICK i : i = IF ai.of = of THEN [ai EXCEPT !.open = TRUE] ELSE [Board!NoAi EXCEPT !.of = of, !.open = TRUE] OBVIOUS
    <2>2. PICK t : t = TRUE OBVIOUS
    <2>3. CASE ai.of = of
      <3>1. i = [of |-> a, open |-> t, loading |-> l, applying |-> p, tries |-> ai.tries, cur |-> ai.cur]
        BY <1>1, <2>1, <2>2, <2>3 DEF IsAi
      <3>2. Milder(i, ai) BY <1>1, <3>1, MilderAi
      <3>3. QED BY <2>1, <3>2
    <2>4. CASE ai.of # of
      <3>1. i = [of |-> of, open |-> t, loading |-> z, applying |-> z, tries |-> <<>>, cur |-> 0]
        BY <1>1, <2>1, <2>2, <2>4 DEF Board!NoAi
      <3>2. Milder(i, ai) BY <1>1, <3>1, MilderAi
      <3>3. QED BY <2>1, <3>2
    <2>5. QED BY <2>3, <2>4
  <1>4. ASSUME NEW n PROVE Milder([ai EXCEPT !.cur = n], ai)
    <2>1. PICK i : i = [ai EXCEPT !.cur = n] OBVIOUS
    <2>2. PICK o, t : o = ai.open /\ t = ai.tries OBVIOUS
    <2>3. i = [of |-> a, open |-> o, loading |-> l, applying |-> p, tries |-> t, cur |-> n] BY <1>1, <2>1, <2>2 DEF IsAi
    <2>4. Milder(i, ai) BY <1>1, <2>3, MilderAi
    <2>5. QED BY <2>1, <2>4
  <1>5. QED BY <1>2, <1>3, <1>4

LEMMA OpenedOf == ASSUME BoardInv, page = "board", Board!Opened(view.ai.of) PROVE view.ai.of \in Nat
  <1>1. AgedLists(view, db.next) BY InUseFacts DEF WhereView
  <1>2. QED BY <1>1 DEF Board!Opened, Board!Ids, AgedLists, Aged

\* A gesture that changes the panel alone.
LEMMA PanelLocal == ASSUME None \notin Nat, BoardInv, Board!Usable, NEW i, Board!Local([view EXCEPT !.ai = i]), Milder(i, view.ai)
  PROVE BoardInv'
  <1>1. page = "board" BY DEF Board!Usable, Board!Here
  <1>2. IsView(view) BY <1>1, InUseFacts
  <1>3. PICK v : v = [view EXCEPT !.ai = i] OBVIOUS
  <1>4. v = Minor(view.busy, view.open, view.target, view.deleting, i) BY <1>2, <1>3 DEF IsView, Minor
  <1>5. Board!Local(v) BY <1>3
  <1>6. QED BY <1>4, <1>5, MinorLocal DEF Milder

LEMMA PanelKept == ASSUME None \notin Nat, BoardInv, Board!Panel PROVE BoardInv'
  <1>1. CASE Board!ServeDraft({0, 2}) BY <1>1, DraftServed
  <1>2. ASSUME page = "board" PROVE IsView(view) /\ IsAi(view.ai) BY <1>2, InUseFacts DEF IsView
  <1>3. CASE Board!Usable /\ \E of : Board!StartAi(of)
    <2>1. PICK of : Board!StartAi(of) BY <1>3
    <2>2. PICK i : i = IF view.ai.of = of THEN [view.ai EXCEPT !.open = TRUE] ELSE [Board!NoAi EXCEPT !.of = of, !.open = TRUE] OBVIOUS
    <2>3. IsAi(view.ai) BY <1>2, <1>3 DEF Board!Usable, Board!Here
    <2>4. Board!Local([view EXCEPT !.ai = i]) BY <2>1, <2>2 DEF Board!StartAi
    <2>5. Milder(i, view.ai)
      BY <2>2, <2>3, AiShapes
    <2>6. QED BY <1>3, <2>4, <2>5, PanelLocal
  <1>4. CASE Board!Usable /\ Board!CloseAi
    <2>1. PICK i : i = Board!Closed(view.ai) OBVIOUS
    <2>2. IsAi(view.ai) BY <1>2, <1>4 DEF Board!Usable, Board!Here
    <2>3. Board!Local([view EXCEPT !.ai = i]) BY <1>4, <2>1 DEF Board!CloseAi
    <2>4. Milder(i, view.ai) BY <2>1, <2>2, AiShapes
    <2>5. QED BY <1>4, <2>3, <2>4, PanelLocal
  <1>5. CASE Board!Usable /\ Board!SelectAttempt
    <2>1. PICK n : Board!Local([view EXCEPT !.ai.cur = n]) BY <1>5 DEF Board!SelectAttempt
    <2>2. PICK i : i = [view.ai EXCEPT !.cur = n] OBVIOUS
    <2>3. IsAi(view.ai) BY <1>2, <1>5 DEF Board!Usable, Board!Here
    <2>4. Board!Local([view EXCEPT !.ai = i]) BY <2>1, <2>2
    <2>5. Milder(i, view.ai) BY <2>2, <2>3, AiShapes
    <2>6. QED BY <1>5, <2>4, <2>5, PanelLocal
  <1>6. CASE Board!Usable /\ Board!Opened(view.ai.of) /\ Board!Ask("draft", [of |-> view.ai.of], [view EXCEPT !.ai.loading = TRUE])
    <2>1. page = "board" BY <1>6 DEF Board!Usable, Board!Here
    <2>2. IsView(view) /\ IsAi(view.ai) /\ view.ai.of \in Nat BY <1>2, <1>6, <2>1, OpenedOf
    <2>3. PICK i : i = [of |-> view.ai.of, open |-> view.ai.open, loading |-> TRUE, applying |-> view.ai.applying,
                        tries |-> view.ai.tries, cur |-> view.ai.cur]
      OBVIOUS
    <2>4. PICK v : v = [view EXCEPT !.ai.loading = TRUE] OBVIOUS
    <2>5. i = [view.ai EXCEPT !.loading = TRUE]
      <3>1. PICK k, z, t : k = view.ai /\ z = k.applying /\ t = TRUE OBVIOUS
      <3>2. k = [of |-> k.of, open |-> k.open, loading |-> k.loading, applying |-> z, tries |-> k.tries, cur |-> k.cur]
        BY <2>2, <3>1 DEF IsAi
      <3>3. i = [of |-> k.of, open |-> k.open, loading |-> t, applying |-> z, tries |-> k.tries, cur |-> k.cur] BY <2>3, <3>1
      <3>4. i = [k EXCEPT !.loading = t] BY <3>2, <3>3
      <3>5. QED BY <3>1, <3>4
    <2>6. v = [view EXCEPT !.ai = i] BY <2>4, <2>5
    <2>7. v = Minor(view.busy, view.open, view.target, view.deleting, i) BY <2>2, <2>6 DEF IsView, Minor
    <2>8. PICK op, arg : op = "draft" /\ arg = [of |-> view.ai.of] OBVIOUS
    <2>9. IsAi(i) /\ i.of = view.ai.of /\ i.of \in Nat /\ i.applying = view.ai.applying BY <2>2, <2>3 DEF IsAi
    <2>10. op \notin {"create", "modalLists"} /\ Shape(op, arg) /\ arg.of = i.of BY <2>8, <2>9 DEF Shape
    <2>11. Board!Ask(op, arg, v) BY <1>6, <2>4, <2>8
    <2>12. QED BY <1>6, <2>7, <2>8, <2>9, <2>10, <2>11, MinorAsk
  <1>7. CASE Board!Here /\ \E c \in Board!Waiting("draft") : Board!Resume(c, IF c.here THEN [view EXCEPT !.ai = Board!WithDraft(@, c)] ELSE view)
    <2>1. page = "board" BY <1>7 DEF Board!Here
    <2>2. PICK c \in net : c.op = "draft" /\ Board!Resume(c, IF c.here THEN [view EXCEPT !.ai = Board!WithDraft(@, c)] ELSE view)
      BY <1>7 DEF Board!Waiting
    <2>3. CASE ~c.here BY <2>2, <2>3, OrphanResumes
    <2>4. CASE c.here
      <3>1. IsView(view) /\ IsAi(view.ai) BY <1>2, <2>1
      <3>2. view.plan BY <2>1, <2>2, <2>4, InUseFacts
      <3>3. PICK i : i = Board!WithDraft(view.ai, c) OBVIOUS
      <3>4. IsAi(i) /\ ~i.loading /\ i.applying = view.ai.applying /\ i.of = view.ai.of
        <4>1. CASE c.st = "ok"
          <5>1. PICK t, n : t = Append(view.ai.tries, c.ans) /\ n = Len(view.ai.tries) + 1 OBVIOUS
          <5>2. i = [view.ai EXCEPT !.loading = FALSE, !.tries = t, !.cur = n] BY <3>3, <4>1, <5>1 DEF Board!WithDraft
          <5>3. i = [of |-> view.ai.of, open |-> view.ai.open, loading |-> FALSE, applying |-> view.ai.applying, tries |-> t, cur |-> n]
            BY <3>1, <5>2 DEF IsAi
          <5>4. QED BY <5>3 DEF IsAi
        <4>2. CASE c.st # "ok"
          <5>1. i = [view.ai EXCEPT !.loading = FALSE] BY <3>3, <4>2 DEF Board!WithDraft
          <5>2. i = [of |-> view.ai.of, open |-> view.ai.open, loading |-> FALSE, applying |-> view.ai.applying,
                     tries |-> view.ai.tries, cur |-> view.ai.cur]
            BY <3>1, <5>1 DEF IsAi
          <5>3. QED BY <5>2 DEF IsAi
        <4>3. QED BY <4>1, <4>2
      <3>5. PICK v : v = [view EXCEPT !.ai = i] OBVIOUS
      <3>6. Board!Resume(c, v) BY <2>2, <2>4, <3>3, <3>5
      <3>7. v = Minor(view.busy, view.open, view.target, view.deleting, i) BY <3>1, <3>5 DEF IsView, Minor
      <3>8. c.op # "delActivity" /\ c.op \in {"draft", "delActivity"} BY <2>2
      <3>9. QED BY <2>1, <2>2, <2>4, <3>2, <3>4, <3>6, <3>7, <3>8, MinorResume
    <2>5. QED BY <2>3, <2>4
  <1>8. QED BY <1>1, <1>3, <1>4, <1>5, <1>6, <1>7 DEF Board!Panel

\* What acceptance leaves of the page.
LEMMA AppliedView == ASSUME IsView(view) PROVE
  LET u == Board!Applied(view) IN
  /\ IsView(u) /\ u.plan = view.plan /\ u.acts = view.acts /\ u.pillars = view.pillars /\ u.objs = view.objs /\ u.modal = view.modal
  /\ u.busy = view.busy /\ u.deleting = view.deleting /\ ~u.ai.applying /\ u.ai.loading = view.ai.loading /\ u.ai.of = view.ai.of
  <1>1. PICK u : u = Board!Applied(view) OBVIOUS
  <1>2. PICK i : i = [of |-> view.ai.of, open |-> FALSE, loading |-> view.ai.loading, applying |-> FALSE, tries |-> <<>>, cur |-> 0] OBVIOUS
  <1>3. i = [Board!Closed(view.ai) EXCEPT !.applying = FALSE]
    <2>1. PICK k : k = Board!Closed(view.ai) OBVIOUS
    <2>2. PICK l, z, p, e, n : l = view.ai.loading /\ z = FALSE /\ p = view.ai.applying /\ e = <<>> /\ n = 0 OBVIOUS
    <2>3. k = [of |-> view.ai.of, open |-> z, loading |-> l, applying |-> p, tries |-> e, cur |-> n]
      BY <2>1, <2>2 DEF IsView, IsAi, Board!Closed
    <2>4. i = [of |-> view.ai.of, open |-> z, loading |-> l, applying |-> z, tries |-> e, cur |-> n] BY <1>2, <2>2
    <2>5. i = [k EXCEPT !.applying = z] BY <2>3, <2>4
    <2>6. QED BY <2>1, <2>2, <2>5
  <1>4. u = [view EXCEPT !.ai = i] BY <1>1, <1>3 DEF Board!Applied
  <1>5. PICK b, o, t, d : b = view.busy /\ o = view.open /\ t = view.target /\ d = view.deleting OBVIOUS
  <1>6. u = Minor(b, o, t, d, i) BY <1>4, <1>5 DEF IsView, Minor
  <1>7. IsAi(i) /\ ~i.applying /\ i.loading = view.ai.loading /\ i.of = view.ai.of BY <1>2 DEF IsAi
  <1>8. /\ IsView(u) /\ u.plan = view.plan /\ u.acts = view.acts /\ u.pillars = view.pillars /\ u.objs = view.objs
        /\ u.loading = view.loading /\ u.modal = view.modal /\ u.busy = b /\ u.deleting = d /\ u.ai = i
    BY <1>6, <1>7, MinorView
  <1>9. QED BY <1>1, <1>5, <1>7, <1>8

\* None of the draft can be saved: the page is loaded again at once ...
LEMMA AcceptNothing ==
  ASSUME None \notin Nat, BoardInv, Board!Usable, NEW T, T = Board!Send(Board!WithoutSections(net), << <<"lists", None>>, <<"plan", None>> >>),
         net' = T, view' = Board!Reloading(Board!Applied(view)), UNCHANGED <<page, db, lost, mixed>>
  PROVE  BoardInv'
  <1>1. page = "board" /\ view.plan BY DEF Board!Usable, Board!Here
  <1>2. IsView(view) /\ Numbered(net) /\ Shaped(net) BY <1>1, InUseFacts
  <1>3. PICK asks : asks = << <<"lists", None>>, <<"plan", None>> >> OBVIOUS
  <1>4. DOMAIN asks = 1..2 /\ asks[1][1] = "lists" /\ asks[2][1] = "plan" /\ \A i \in 1..2 : i = 1 \/ i = 2 BY <1>3
  <1>5. Proper(asks) BY <1>4 DEF Proper, Shape
  <1>6. PICK f, F : Flow(f, net, T, F, "sections") /\ Asking(F, asks, TRUE) BY <1>2, <1>3, <1>4, <1>5, FlowReload
  <1>7. (\A x \in F : x.here /\ x.op \in {"lists", "plan"}) /\ (\E x \in F : x.op = "lists") /\ (\E x \in F : x.op = "plan")
    BY <1>4, <1>6 DEF Asking
  <1>8. PICK u : u = Board!Applied(view) OBVIOUS
  <1>9. /\ IsView(u) /\ u.plan = view.plan /\ u.acts = view.acts /\ u.pillars = view.pillars /\ u.objs = view.objs /\ u.modal = view.modal
        /\ u.busy = view.busy /\ u.deleting = view.deleting /\ ~u.ai.applying /\ u.ai.loading = view.ai.loading /\ u.ai.of = view.ai.of
    BY <1>2, <1>8, AppliedView
  <1>10. PICK N : N = {} OBVIOUS
  <1>11. \A c \in N : FALSE BY <1>10
  <1>12. PICK v : v = Board!Reloading(u) OBVIOUS
  <1>13. Ready(v, N, F, "sections") BY <1>1, <1>7, <1>9, <1>11, <1>12, ReloadReady
  <1>14. Flow(f, net \ N, net', F, "sections") BY <1>6, <1>10
  <1>15. view' = v BY <1>8, <1>12
  <1>16. page' = page /\ db' = db /\ lost' = lost /\ mixed' = mixed OBVIOUS
  <1>17. QED BY <1>1, <1>7, <1>11, <1>13, <1>14, <1>15, <1>16, LiveStep

LEMMA AcceptKept == ASSUME None \notin Nat, BoardInv, Board!Accept PROVE BoardInv'
  <1>1. CASE /\ Board!Usable
             /\ net' = Board!Send(Board!WithoutSections(net), << <<"lists", None>>, <<"plan", None>> >>)
             /\ view' = Board!Reloading(Board!Applied(view)) /\ UNCHANGED <<page, db, lost, mixed>>
    BY <1>1, AcceptNothing
  <1>2. CASE Board!Usable /\ Board!Opened(view.ai.of) /\ Board!Ask("fan", [of |-> view.ai.of, left |-> Board!Draft - 1], Board!Accepting(view))
    <2>1. page = "board" BY <1>2 DEF Board!Usable, Board!Here
    <2>2. IsView(view) /\ IsAi(view.ai) BY <2>1, InUseFacts DEF IsView
    <2>3. PICK k, l, t : k = view.ai /\ l = k.loading /\ t = TRUE OBVIOUS
    <2>4. PICK i : i = [of |-> k.of, open |-> k.open, loading |-> l, applying |-> t, tries |-> k.tries, cur |-> k.cur] OBVIOUS
    <2>5. k = [of |-> k.of, open |-> k.open, loading |-> l, applying |-> k.applying, tries |-> k.tries, cur |-> k.cur]
      BY <2>2, <2>3 DEF IsAi
    <2>6. i = [k EXCEPT !.applying = t] BY <2>4, <2>5
    <2>7. PICK v : v = Board!Accepting(view) OBVIOUS
    <2>8. v = [view EXCEPT !.ai = i] BY <2>3, <2>6, <2>7 DEF Board!Accepting
    <2>9. v = Minor(view.busy, view.open, view.target, view.deleting, i) BY <2>2, <2>8 DEF IsView, Minor
    <2>10. IsAi(i) /\ i.of = view.ai.of /\ i.loading = l BY <2>3, <2>4 DEF IsAi
    <2>11. PICK n : n = Board!Draft - 1 OBVIOUS
    <2>12. PICK op, arg : op = "fan" /\ arg = [of |-> k.of, left |-> n] OBVIOUS
    <2>13. op \notin {"create", "modalLists"} /\ Shape(op, arg) /\ arg.of = i.of BY <2>3, <2>10, <2>12 DEF Shape
    <2>14. Board!Ask(op, arg, v) BY <1>2, <2>3, <2>7, <2>11, <2>12
    <2>15. QED BY <1>2, <2>3, <2>9, <2>10, <2>12, <2>13, <2>14, MinorAsk
  <1>3. ASSUME NEW c \in Board!Waiting("fan"),
               IF c.arg.left > 0 THEN Board!ResumeAsk(c, "fan", [c.arg EXCEPT !.left = @ - 1], view)
               ELSE IF ~c.here THEN Board!Resume(c, view)
               ELSE Board!EndLoading(c, TRUE, IF c.arg.of = view.ai.of THEN Board!Applied(view) ELSE view)
        PROVE  BoardInv'
    <2>1. c \in net /\ c.op = "fan" BY DEF Board!Waiting
    <2>2. Shape("fan", c.arg) BY <2>1 DEF BoardInv, BoardRequests, Shaped
    <2>3. CASE c.arg.left > 0
      <3>1. PICK n : n = c.arg.left - 1 OBVIOUS
      <3>2. PICK op, arg : op = "fan" /\ arg = [of |-> c.arg.of, left |-> n] OBVIOUS
      <3>3. c.arg = [of |-> c.arg.of, left |-> c.arg.left] BY <2>2 DEF Shape
      <3>4. arg = [c.arg EXCEPT !.left = @ - 1] BY <3>1, <3>2, <3>3
      <3>5. Board!ResumeAsk(c, op, arg, view) BY <1>3, <2>3, <3>2, <3>4
      <3>6. Shape(op, arg) /\ op \notin {"create", "modalLists"} /\ arg.of = c.arg.of BY <3>2 DEF Shape
      <3>7. CASE ~c.here BY <2>1, <3>5, <3>6, <3>7, OrphanAskOne
      <3>8. CASE c.here
        <4>1. page = "board" BY <2>1, <3>8 DEF BoardInv, Away
        <4>2. IsView(view) /\ view.plan BY <2>1, <3>8, <4>1, InUseFacts
        <4>3. ASSUME NEW F, \A x \in F : x.op = op /\ x.arg = arg, \E x \in F : x.op = op /\ x.arg = arg
              PROVE Ready(view, {c}, F, "none")
          <5>1. PICK gone : gone = {c} OBVIOUS
          <5>2. \A x \in gone : x.op = "fan" /\ x.arg = c.arg BY <2>1, <5>1
          <5>3. \A x \in gone : x.op \notin Handlers /\ x.op \notin {"lists", "plan", "modalLists", "create", "delActivity", "draft"}
            BY <5>2 DEF Handlers
          <5>4. \E x \in F : x.op = "fan" BY <3>2, <4>3
          <5>5. \A x \in F : x.op \notin {"create", "modalLists"} BY <3>2, <4>3
          <5>6. view.ai.applying => \/ \E x \in F : x.op = "fan" /\ x.arg.of = view.ai.of
                                    \/ \A x \in gone : x.op = "fan" => x.arg.of # view.ai.of
            <6>1. CASE c.arg.of = view.ai.of BY <3>2, <3>6, <4>3, <6>1
            <6>2. CASE c.arg.of # view.ai.of BY <5>2, <6>2
            <6>3. QED BY <6>1, <6>2
          <5>7. view.ai.loading => view.ai.loading /\ view.ai.of = view.ai.of /\ \A x \in gone : x.op # "draft" BY <5>3
          <5>8. Ready(view, gone, F, "none") BY <4>1, <4>2, <5>3, <5>4, <5>5, <5>6, <5>7, MinorReady
          <5>9. QED BY <5>1, <5>8
        <4>4. QED BY <2>1, <3>5, <3>6, <3>8, <4>1, <4>3, ResumeAskOne
      <3>9. QED BY <3>7, <3>8
    <2>4. CASE ~(c.arg.left > 0) /\ ~c.here BY <1>3, <2>1, <2>4, OrphanResumes
    <2>5. CASE ~(c.arg.left > 0) /\ c.here
      <3>1. page = "board" BY <2>1, <2>5 DEF BoardInv, Away
      <3>2. IsView(view) /\ view.plan BY <2>1, <2>5, <3>1, InUseFacts
      <3>3. PICK u : u = IF c.arg.of = view.ai.of THEN Board!Applied(view) ELSE view OBVIOUS
      <3>4. Board!EndLoading(c, TRUE, u) BY <1>3, <2>5, <3>3
      <3>5. /\ IsView(u) /\ u.plan = view.plan /\ u.acts = view.acts /\ u.pillars = view.pillars /\ u.objs = view.objs
            /\ u.modal = view.modal /\ u.busy = view.busy /\ u.deleting = view.deleting
            /\ u.ai.loading => view.ai.loading /\ u.ai.of = view.ai.of
            /\ u.ai.applying => view.ai.applying /\ u.ai.of = view.ai.of /\ c.arg.of # view.ai.of
        <4>1. CASE c.arg.of = view.ai.of
          <5>1. u = Board!Applied(view) BY <3>3, <4>1
          <5>2. /\ IsView(u) /\ u.plan = view.plan /\ u.acts = view.acts /\ u.pillars = view.pillars /\ u.objs = view.objs
                /\ u.modal = view.modal /\ u.busy = view.busy /\ u.deleting = view.deleting /\ ~u.ai.applying
                /\ u.ai.loading = view.ai.loading /\ u.ai.of = view.ai.of
            BY ONLY <3>2, <5>1, AppliedView
          <5>3. QED BY <5>2
        <4>2. CASE c.arg.of # view.ai.of BY <3>2, <3>3, <4>2
        <4>3. QED BY <4>1, <4>2
      <3>6. c.op \notin Handlers /\ c.op \in {"create", "fan"} BY <2>1 DEF Handlers
      <3>7. PICK both \in BOOLEAN : both = TRUE OBVIOUS
      <3>8. Board!EndLoading(c, both, u) /\ both BY <3>4, <3>7
      <3>9. QED BY <2>1, <2>5, <3>1, <3>2, <3>5, <3>6, <3>8, EndsHere
    <2>6. QED BY <2>3, <2>4, <2>5
  <1>4. CASE \E c \in Board!Waiting("fan") :
               IF c.arg.left > 0 THEN Board!ResumeAsk(c, "fan", [c.arg EXCEPT !.left = @ - 1], view)
               ELSE IF ~c.here THEN Board!Resume(c, view)
               ELSE Board!EndLoading(c, TRUE, IF c.arg.of = view.ai.of THEN Board!Applied(view) ELSE view)
    BY <1>3, <1>4
  <1>5. QED BY <1>1, <1>2, <1>4 DEF Board!Accept

-----------------------------------------------------------------------------
(* The plan and the lists are in. *)

\* The page with the rows an answer brings.
Rows(plan, acts0, pillars, objs, loading, open) ==
  [plan |-> plan, acts |-> acts0, pillars |-> pillars, objs |-> objs, loading |-> loading,
   busy |-> view.busy, open |-> open, from |-> view.from, modal |-> view.modal, target |-> view.target,
   deleting |-> view.deleting, ai |-> view.ai]
LEMMA RowsView == ASSUME IsView(view), NEW plan, NEW acts0, NEW pillars, NEW objs, NEW loading, NEW open, NEW v,
                         v = Rows(plan, acts0, pillars, objs, loading, open)
  PROVE /\ IsView(v) /\ v.plan = plan /\ v.acts = acts0 /\ v.pillars = pillars /\ v.objs = objs /\ v.loading = loading
        /\ v.modal = view.modal /\ (v.busy <=> view.busy) /\ (v.deleting <=> view.deleting) /\ v.ai = view.ai
  <1>1. PICK m, i, b, d : m = view.modal /\ i = view.ai /\ b = view.busy /\ d = view.deleting OBVIOUS
  <1>2. v = [plan |-> plan, acts |-> acts0, pillars |-> pillars, objs |-> objs, loading |-> loading,
             busy |-> b, open |-> open, from |-> view.from, modal |-> m, target |-> view.target, deleting |-> d, ai |-> i]
    BY <1>1 DEF Rows
  <1>3. IsModal(m) /\ IsAi(i) BY <1>1 DEF IsView
  <1>4. IsView(v) BY <1>2, <1>3 DEF IsView
  <1>5. QED BY <1>1, <1>2, <1>4

LEMMA PlanReady ==
  ASSUME None \notin Nat, BoardInv, page = "board", NEW c \in net, c.here, c.op = "plan", c.st # "sent",
         NEW v, IsView(v), v.plan <=> view.plan \/ c.st = "ok", v.acts = IF c.st = "ok" THEN c.ans ELSE view.acts,
         v.pillars = view.pillars, v.objs = view.objs, v.loading <=> view.loading, v.modal = view.modal,
         v.busy <=> view.busy, v.deleting <=> view.deleting, v.ai = view.ai,
         NEW F, \A x \in F : x.op = "lists", view.plan \/ c.st # "ok" \/ \E x \in F : x.op = "lists",
         view.plan \/ c.st = "ok" \/ F = {}
  PROVE  Ready(v, {c}, F, "none")
  <1>1. Mounted BY DEF BoardInv
  <1>2. WhereView(net, view, db) /\ Busy(net, view) /\ Opens(net, view) BY <1>1 DEF Mounted
  <1>3. PICK gone : gone = {c} OBVIOUS
  <1>4. gone # {} /\ \A x \in gone : x = c BY <1>3
  <1>5. \A x \in gone : x.op = "plan" /\ x.op \notin Handlers BY <1>4 DEF Handlers
  <1>6. NewCalls(F) BY DEF NewCalls
  <1>7. Placed(v, F, "none") BY <1>2 DEF WhereView, Placed, AgedLists
  <1>8. Awaited(v, gone, F, "none")
    <2>1. v.loading /\ v.plan => \/ \E x \in F : x.op = "lists"
                                 \/ view.loading /\ view.plan /\ \A x \in gone : x.op # "lists"
      BY <1>5
    <2>2. /\ v.busy => view.busy /\ \A x \in gone : x.op \notin Handlers
          /\ v.deleting => view.deleting /\ \A x \in gone : x.op # "delActivity"
          /\ v.ai.loading => view.ai.loading /\ v.ai.of = view.ai.of /\ \A x \in gone : x.op # "draft"
          /\ v.ai.applying => view.ai.applying /\ v.ai.of = view.ai.of /\ \A x \in gone : x.op # "fan"
      BY <1>5
    <2>3. v.modal.for # None /\ v.modal.busy => view.modal.for # None /\ view.modal.busy /\ \A x \in gone : x.op # "create"
      BY <1>5
    <2>4. v.modal.for # None /\ v.modal.listing =>
            v.loading \/ (view.modal.for # None /\ view.modal.listing /\ ~view.loading /\ \A x \in gone : x.op # "modalLists")
      BY <1>5
    <2>5. QED BY <2>1, <2>2, <2>3, <2>4 DEF Awaited
  <1>9. ASSUME ~mixed, lost = 0 PROVE Truthful(v, gone, F)
    <2>1. c.st = "ok" BY <1>1, <1>9 DEF Mounted, Synced
    <2>2. v.plan /\ v.acts = c.ans BY <2>1
    <2>3. \/ \E x \in F : x.op \in {"lists", "fan"}
          \/ /\ view.plan /\ v.pillars = view.pillars /\ v.objs = view.objs
             /\ \A x \in gone : x.op \notin {"lists", "fan"} /\ x.op \notin ListWrites
      BY <1>5, <2>1 DEF ListWrites
    <2>4. \E x \in gone : x.op = "plan" /\ x.st = "ok" /\ v.acts = x.ans BY <1>3, <2>1, <2>2
    <2>5. QED BY <1>4, <2>2, <2>3, <2>4 DEF Truthful
  <1>10. ~v.plan => ~view.plan /\ \A x \in F : x.op = "plan" OBVIOUS
  <1>11. Ready(v, gone, F, "none") BY <1>6, <1>7, <1>8, <1>9, <1>10 DEF Ready
  <1>12. QED BY <1>3, <1>11

LEMMA PlanKept == ASSUME None \notin Nat, BoardInv, Board!PlanLoaded PROVE BoardInv'
  <1>1. page = "board" BY DEF Board!PlanLoaded, Board!Here
  <1>2. PICK c \in Board!Waiting("plan") :
          IF c.st # "ok" \/ ~c.here THEN Board!Resume(c, view)
          ELSE IF view.plan THEN Board!Resume(c, [view EXCEPT !.acts = c.ans])
          ELSE Board!ResumeAsk(c, "lists", None, [view EXCEPT !.plan = TRUE, !.acts = c.ans])
    BY DEF Board!PlanLoaded
  <1>3. c \in net /\ c.op = "plan" /\ c.st # "sent" BY DEF Board!Waiting
  <1>4. IsView(view) BY <1>1, InUseFacts
  <1>5. PICK N : N = {} OBVIOUS
  <1>6. \A x \in N : FALSE BY <1>5
  <1>7. CASE ~c.here BY <1>2, <1>3, <1>7, OrphanResumes
  <1>8. CASE c.here /\ c.st # "ok"
    <2>1. Board!Resume(c, view) BY <1>2, <1>8
    <2>2. Ready(view, {c}, N, "none") BY <1>1, <1>3, <1>4, <1>5, <1>6, <1>8, PlanReady
    <2>3. QED BY <1>1, <1>3, <1>5, <1>8, <2>1, <2>2, ResumeStep
  <1>9. CASE c.here /\ c.st = "ok" /\ view.plan
    <2>1. PICK v : v = [view EXCEPT !.acts = c.ans] OBVIOUS
    <2>2. PICK p, l : p = view.plan /\ l = view.loading OBVIOUS
    <2>3. v = Rows(p, c.ans, view.pillars, view.objs, l, view.open) BY <1>4, <2>1, <2>2 DEF IsView, Rows
    <2>4. /\ IsView(v) /\ v.plan = p /\ v.acts = c.ans /\ v.pillars = view.pillars /\ v.objs = view.objs /\ v.loading = l
          /\ v.modal = view.modal /\ (v.busy <=> view.busy) /\ (v.deleting <=> view.deleting) /\ v.ai = view.ai
      BY ONLY <1>4, <2>3, RowsView
    <2>5. Board!Resume(c, v) BY <1>2, <1>9, <2>1
    <2>6. Ready(v, {c}, N, "none") BY <1>1, <1>3, <1>5, <1>6, <1>9, <2>2, <2>4, PlanReady
    <2>7. QED BY <1>1, <1>3, <1>5, <1>9, <2>5, <2>6, ResumeStep
  <1>10. CASE c.here /\ c.st = "ok" /\ ~view.plan
    <2>1. PICK v : v = [view EXCEPT !.plan = TRUE, !.acts = c.ans] OBVIOUS
    <2>2. PICK p, l : p = TRUE /\ l = view.loading OBVIOUS
    <2>3. v = Rows(p, c.ans, view.pillars, view.objs, l, view.open) BY <1>4, <2>1, <2>2 DEF IsView, Rows
    <2>4. /\ IsView(v) /\ v.plan = p /\ v.acts = c.ans /\ v.pillars = view.pillars /\ v.objs = view.objs /\ v.loading = l
          /\ v.modal = view.modal /\ (v.busy <=> view.busy) /\ (v.deleting <=> view.deleting) /\ v.ai = view.ai
      BY ONLY <1>4, <2>3, RowsView
    <2>5. PICK op : op = "lists" OBVIOUS
    <2>6. Board!ResumeAsk(c, op, None, v) BY <1>2, <1>10, <2>1, <2>5
    <2>7. ASSUME NEW F, \A x \in F : x.op = op /\ x.arg = None, \E x \in F : x.op = op /\ x.arg = None
          PROVE Ready(v, {c}, F, "none")
      BY <1>1, <1>3, <1>10, <2>2, <2>4, <2>5, <2>7, PlanReady
    <2>8. Shape(op, None) BY <2>5 DEF Shape
    <2>9. QED BY <1>1, <1>3, <1>10, <2>6, <2>7, <2>8, ResumeAskOne
  <1>11. QED BY <1>7, <1>8, <1>9, <1>10

LEMMA ListsReady ==
  ASSUME None \notin Nat, BoardInv, page = "board", NEW c \in net, c.here, c.op = "lists", c.st # "sent",
         NEW v, IsView(v), v.plan, v.acts = view.acts, ~v.loading, v.modal = view.modal,
         v.pillars = IF c.st = "ok" THEN c.ans.pillars ELSE view.pillars,
         v.objs = IF c.st = "ok" THEN c.ans.objs ELSE view.objs,
         v.busy <=> view.busy, v.deleting <=> view.deleting, v.ai = view.ai,
         NEW F, \A x \in F : x.op = "modalLists" /\ view.modal.for # None,
         (view.loading /\ view.modal.for # None) => \E x \in F : x.op = "modalLists"
  PROVE  Ready(v, {c}, F, "none")
  <1>1. Mounted /\ WhereCalls(net, db) BY DEF BoardInv
  <1>2. WhereView(net, view, db) /\ Busy(net, view) /\ Opens(net, view) BY <1>1 DEF Mounted
  <1>v. view.plan BY InUseFacts
  <1>3. PICK gone : gone = {c} OBVIOUS
  <1>4. gone # {} /\ \A x \in gone : x = c BY <1>3
  <1>5. \A x \in gone : x.op = "lists" /\ x.op \notin Handlers BY <1>4 DEF Handlers
  <1>6. NewCalls(F) BY DEF NewCalls
  <1>7. Placed(v, F, "none")
    <2>1. c.st = "ok" => AgedLists(c.ans, db.next) BY <1>1 DEF WhereCalls
    <2>2. AgedLists(view, db.next) BY <1>2 DEF WhereView
    <2>3. AgedLists(v, db.next) BY <2>1, <2>2 DEF AgedLists
    <2>4. QED BY <1>2, <2>3 DEF WhereView, Placed
  <1>8. Awaited(v, gone, F, "none")
    <2>2. /\ v.busy => view.busy /\ \A x \in gone : x.op \notin Handlers
          /\ v.deleting => view.deleting /\ \A x \in gone : x.op # "delActivity"
          /\ v.ai.loading => view.ai.loading /\ v.ai.of = view.ai.of /\ \A x \in gone : x.op # "draft"
          /\ v.ai.applying => view.ai.applying /\ v.ai.of = view.ai.of /\ \A x \in gone : x.op # "fan"
      BY <1>5
    <2>3. v.modal.for # None /\ v.modal.busy => view.modal.for # None /\ view.modal.busy /\ \A x \in gone : x.op # "create"
      BY <1>5
    <2>4. v.modal.for # None /\ v.modal.listing =>
            \/ \E x \in F : x.op = "modalLists"
            \/ view.modal.for # None /\ view.modal.listing /\ ~view.loading /\ \A x \in gone : x.op # "modalLists"
      BY <1>5
    <2>5. QED BY <2>2, <2>3, <2>4 DEF Awaited
  <1>9. ASSUME ~mixed, lost = 0 PROVE Truthful(v, gone, F)
    <2>1. c.st = "ok" BY <1>1, <1>9 DEF Mounted, Synced
    <2>2. \E x \in gone : x.op = "lists" /\ x.st = "ok" /\ v.pillars = x.ans.pillars /\ v.objs = x.ans.objs
      BY <1>3, <2>1
    <2>3. v.acts = view.acts /\ \A x \in gone : x.op \notin {"plan", "fan"} /\ x.op \notin ActWrites
      BY <1>5 DEF ActWrites
    <2>4. QED BY <1>v, <1>4, <2>2, <2>3 DEF Truthful
  <1>11. Ready(v, gone, F, "none") BY <1>6, <1>7, <1>8, <1>9 DEF Ready
  <1>12. QED BY <1>3, <1>11

LEMMA ListsKept == ASSUME None \notin Nat, BoardInv, Board!ListsLoaded PROVE BoardInv'
  <1>1. page = "board" BY DEF Board!ListsLoaded, Board!Here
  <1>2. PICK c \in Board!Waiting("lists") :
          LET v == IF c.st # "ok" THEN [view EXCEPT !.loading = FALSE]
                   ELSE [view EXCEPT !.loading = FALSE, !.pillars = c.ans.pillars, !.objs = c.ans.objs,
                                     !.open = IF @ = {} /\ view.from \in Board!Ids(c.ans.pillars) THEN {view.from} ELSE @]
          IN  IF c.here /\ view.loading /\ view.modal.for # None
              THEN Board!ResumeAsk(c, "modalLists", None, v) ELSE Board!Resume(c, v)
    BY DEF Board!ListsLoaded
  <1>3. c \in net /\ c.op = "lists" /\ c.st # "sent" BY DEF Board!Waiting
  <1>4. IsView(view) BY <1>1, InUseFacts
  <1>5. PICK o : o = IF c.st = "ok" /\ view.open = {} /\ view.from \in Board!Ids(c.ans.pillars) THEN {view.from} ELSE view.open OBVIOUS
  <1>6. PICK v : v = IF c.st # "ok" THEN [view EXCEPT !.loading = FALSE]
                     ELSE [view EXCEPT !.loading = FALSE, !.pillars = c.ans.pillars, !.objs = c.ans.objs, !.open = o]
    OBVIOUS
  <1>7. IF c.here /\ view.loading /\ view.modal.for # None THEN Board!ResumeAsk(c, "modalLists", None, v) ELSE Board!Resume(c, v)
    <2>1. CASE c.st = "ok"
      <3>1. v = [view EXCEPT !.loading = FALSE, !.pillars = c.ans.pillars, !.objs = c.ans.objs,
                             !.open = IF @ = {} /\ view.from \in Board!Ids(c.ans.pillars) THEN {view.from} ELSE @]
        BY <1>5, <1>6, <2>1
      <3>2. QED BY <1>2, <2>1, <3>1
    <2>2. CASE c.st # "ok" BY <1>2, <1>6, <2>2
    <2>3. QED BY <2>1, <2>2
  <1>8. CASE ~c.here BY <1>3, <1>7, <1>8, OrphanResumes
  <1>9. CASE c.here
    <2>v. view.plan BY <1>1, <1>3, <1>9, InUseFacts
    <2>1. PICK p, z, ps, os : p = view.plan /\ z = FALSE /\ (ps = IF c.st = "ok" THEN c.ans.pillars ELSE view.pillars)
                              /\ (os = IF c.st = "ok" THEN c.ans.objs ELSE view.objs)
      OBVIOUS
    <2>2. v = Rows(p, view.acts, ps, os, z, o)
      <3>1. CASE c.st = "ok" BY <1>4, <1>6, <2>1, <3>1 DEF IsView, Rows
      <3>2. CASE c.st # "ok" BY <1>4, <1>5, <1>6, <2>1, <3>2 DEF IsView, Rows
      <3>3. QED BY <3>1, <3>2
    <2>3. /\ IsView(v) /\ v.plan = p /\ v.acts = view.acts /\ v.pillars = ps /\ v.objs = os /\ v.loading = z
          /\ v.modal = view.modal /\ (v.busy <=> view.busy) /\ (v.deleting <=> view.deleting) /\ v.ai = view.ai
      BY ONLY <1>4, <2>2, RowsView
    <2>4. ASSUME NEW F, \A x \in F : x.op = "modalLists" /\ view.modal.for # None,
                 (view.loading /\ view.modal.for # None) => \E x \in F : x.op = "modalLists"
          PROVE  Ready(v, {c}, F, "none")
      BY <1>1, <1>3, <1>9, <2>v, <2>1, <2>3, <2>4, ListsReady
    <2>5. CASE view.loading /\ view.modal.for # None
      <3>1. PICK op : op = "modalLists" OBVIOUS
      <3>2. Board!ResumeAsk(c, op, None, v) BY <1>7, <1>9, <2>5, <3>1
      <3>3. ASSUME NEW F, \A x \in F : x.op = op /\ x.arg = None, \E x \in F : x.op = op /\ x.arg = None
            PROVE Ready(v, {c}, F, "none")
        BY <2>4, <2>5, <3>1, <3>3
      <3>4. Shape(op, None) BY <3>1 DEF Shape
      <3>5. QED BY <1>1, <1>3, <1>9, <3>2, <3>3, <3>4, ResumeAskOne
    <2>6. CASE ~(view.loading /\ view.modal.for # None)
      <3>1. Board!Resume(c, v) BY <1>7, <2>6
      <3>2. PICK N : N = {} OBVIOUS
      <3>3. \A x \in N : FALSE BY <3>2
      <3>4. Ready(v, {c}, N, "none") BY <2>4, <2>6, <3>3
      <3>5. QED BY <1>1, <1>3, <1>9, <3>1, <3>2, <3>4, ResumeStep
    <2>7. QED BY <2>5, <2>6
  <1>10. QED BY <1>8, <1>9

-----------------------------------------------------------------------------
(* The dialog. *)

\* The page with another dialog.
Dialogue(m) ==
  [plan |-> view.plan, acts |-> view.acts, pillars |-> view.pillars, objs |-> view.objs, loading |-> view.loading,
   busy |-> view.busy, open |-> view.open, from |-> view.from, modal |-> m, target |-> view.target,
   deleting |-> view.deleting, ai |-> view.ai]
LEMMA DialogueView == ASSUME IsView(view), NEW m, IsModal(m), NEW v, v = [view EXCEPT !.modal = m]
  PROVE /\ IsView(v) /\ (v.plan <=> view.plan) /\ v.acts = view.acts /\ v.pillars = view.pillars /\ v.objs = view.objs
        /\ (v.loading <=> view.loading) /\ v.modal = m /\ (v.busy <=> view.busy) /\ (v.deleting <=> view.deleting) /\ v.ai = view.ai
  <1>1. PICK p, l, i, b, d : p = view.plan /\ l = view.loading /\ i = view.ai /\ b = view.busy /\ d = view.deleting OBVIOUS
  <1>2. v = [plan |-> p, acts |-> view.acts, pillars |-> view.pillars, objs |-> view.objs, loading |-> l,
             busy |-> b, open |-> view.open, from |-> view.from, modal |-> m, target |-> view.target, deleting |-> d, ai |-> i]
    BY <1>1 DEF IsView
  <1>3. IsAi(i) BY <1>1 DEF IsView
  <1>4. IsView(v) BY <1>2, <1>3 DEF IsView
  <1>5. QED BY <1>1, <1>2, <1>4

LEMMA DialogueReady ==
  ASSUME None \notin Nat, BoardInv, page = "board", view.plan, NEW m, IsModal(m), NEW v, v = [view EXCEPT !.modal = m], NEW mark, mark # "sections",
         NEW gone, \A c \in gone : c.op \in {"modalLists", "create"} /\ (c.op = "create" => c.st # "ok"),
         NEW F, \A x \in F : x.op \in {"modalLists", "create"}, NewCalls(F),
         m.for # None => m.for < db.next,
         Untouched(m, db.objs),
         m.for = view.modal.for \/ view.modal.for = None \/ mark # "none",
         \A x \in F : x.op = "modalLists" => m.for # None,
         m.for # None /\ m.busy => \/ \E x \in F : x.op = "create" /\ x.arg.mine
                                   \/ view.modal.for # None /\ view.modal.busy /\ mark = "none" /\ \A c \in gone : c.op = "create" => ~c.arg.mine,
         m.for # None /\ m.listing => \/ \E x \in F : x.op = "modalLists"
                                      \/ view.modal.for # None /\ view.modal.listing /\ mark = "none" /\ \A c \in gone : c.op # "modalLists"
  PROVE  Ready(v, gone, F, mark)
  <1>1. WhereView(net, view, db) /\ IsView(view) BY InUseFacts
  <1>2. /\ IsView(v) /\ (v.plan <=> view.plan) /\ v.acts = view.acts /\ v.pillars = view.pillars /\ v.objs = view.objs
        /\ (v.loading <=> view.loading) /\ v.modal = m /\ (v.busy <=> view.busy) /\ (v.deleting <=> view.deleting) /\ v.ai = view.ai
    BY <1>1, DialogueView
  <1>3. \A c \in gone : c.op \notin Handlers /\ c.op \notin {"lists", "plan", "fan", "delActivity", "draft"} BY DEF Handlers
  <1>4. Placed(v, F, mark) BY <1>1, <1>2 DEF Placed, WhereView, AgedLists
  <1>5. Awaited(v, gone, F, mark)
    <2>1. v.loading /\ v.plan => view.loading /\ view.plan /\ \A c \in gone : c.op # "lists" BY <1>2, <1>3
    <2>2. /\ v.busy => view.busy /\ \A x \in gone : x.op \notin Handlers
          /\ v.deleting => view.deleting /\ \A x \in gone : x.op # "delActivity"
          /\ v.ai.loading => view.ai.loading /\ v.ai.of = view.ai.of /\ \A x \in gone : x.op # "draft"
          /\ v.ai.applying => view.ai.applying /\ v.ai.of = view.ai.of /\ \A x \in gone : x.op # "fan"
      BY <1>2, <1>3
    <2>3. v.modal.for # None /\ v.modal.busy =>
            \/ \E x \in F : x.op = "create" /\ x.arg.mine
            \/ view.modal.for # None /\ view.modal.busy /\ mark = "none" /\ \A c \in gone : c.op = "create" => ~c.arg.mine
      BY <1>2
    <2>4. v.modal.for # None /\ v.modal.listing =>
            \/ v.loading
            \/ \E x \in F : x.op = "modalLists"
            \/ view.modal.for # None /\ view.modal.listing /\ ~view.loading /\ mark = "none" /\ \A c \in gone : c.op # "modalLists"
      BY <1>2
    <2>5. QED BY <2>1, <2>2, <2>3, <2>4 DEF Awaited
  <1>6. Truthful(v, gone, F)
    <2>1. v.plan BY <1>2
    <2>2. \A c \in gone : c.op \notin {"lists", "fan"} /\ c.op \notin ListWrites BY <1>3 DEF ListWrites
    <2>3. \A c \in gone : c.op \notin {"plan", "fan"} /\ (c.op \in ActWrites => c.st # "ok") BY <1>3 DEF ActWrites
    <2>4. QED BY <1>2, <2>1, <2>2, <2>3 DEF Truthful
  <1>7. v.plan BY <1>2
  <1>8. QED BY <1>2, <1>4, <1>5, <1>6, <1>7 DEF Ready

\* The fields of a dialog.
Fields(for, pillar, obj, pillars, objs, listing, picked, busy) ==
  [for |-> for, pillar |-> pillar, obj |-> obj, pillars |-> pillars, objs |-> objs,
   listing |-> listing, picked |-> picked, busy |-> busy]
LEMMA FieldsModal == ASSUME NEW for \in Nat, NEW pillar, NEW obj, NEW pillars, NEW objs, NEW listing, NEW picked, NEW busy, NEW m,
                            m = Fields(for, pillar, obj, pillars, objs, listing, picked, busy)
  PROVE /\ IsModal(m) /\ m.for = for /\ m.obj = obj /\ m.pillars = pillars /\ m.objs = objs
        /\ (m.listing <=> listing) /\ (m.picked <=> picked) /\ (m.busy <=> busy)
  BY DEF Fields, IsModal
LEMMA OpenModalShape == ASSUME NEW m, IsModal(m), m.for # None
  PROVE m.for \in Nat /\ m = Fields(m.for, m.pillar, m.obj, m.pillars, m.objs, m.listing, m.picked, m.busy)
  <1>1. m # Board!NoModal BY DEF Board!NoModal
  <1>2. QED BY <1>1 DEF IsModal, Fields

LEMMA ModalOpens == ASSUME None \notin Nat, BoardInv, Board!OpenModal PROVE BoardInv'
  <1>1. PICK r \in view.objs : Board!Ask("modalLists", None, [view EXCEPT !.modal = Board!Modal(r.id)]) BY DEF Board!OpenModal
  <1>2. page = "board" /\ view.plan /\ view.modal.for = None BY DEF Board!OpenModal, Board!Usable, Board!Here
  <1>3. WhereView(net, view, db) BY <1>2, InUseFacts
  <1>4. r.id \in Nat /\ r.id < db.next BY <1>3 DEF WhereView, AgedLists, Aged
  <1>5. PICK m : m = Board!Modal(r.id) OBVIOUS
  <1>6. PICK k, e, t, z : k = r.id /\ e = {} /\ t = TRUE /\ z = FALSE OBVIOUS
  <1>7. m = Fields(k, None, k, e, e, t, z, z) BY <1>5, <1>6 DEF Board!Modal, Fields
  <1>8. IsModal(m) /\ m.for = k /\ m.obj = k /\ (m.listing <=> t) /\ (m.picked <=> z) /\ (m.busy <=> z)
    <2>1. k \in Nat BY <1>4, <1>6
    <2>2. QED BY ONLY <1>7, <2>1, FieldsModal
  <1>9. PICK v : v = [view EXCEPT !.modal = m] OBVIOUS
  <1>10. PICK op : op = "modalLists" OBVIOUS
  <1>11. Board!Ask(op, None, v) BY <1>1, <1>5, <1>9, <1>10
  <1>12. ASSUME NEW F, \A x \in F : x.op = op /\ x.arg = None, \E x \in F : x.op = op /\ x.arg = None PROVE Ready(v, {}, F, "none")
    <2>1. PICK N, mark : N = {} /\ mark = "none" OBVIOUS
    <2>2. (\A x \in N : FALSE) /\ mark # "sections" BY <2>1
    <2>3. NewCalls(F) BY <1>10, <1>12 DEF NewCalls
    <2>4. Untouched(m, db.objs) BY <1>8 DEF Untouched
    <2>5. m.for # None /\ m.for < db.next /\ ~m.busy BY <1>4, <1>6, <1>8
    <2>6. (\A x \in F : x.op \in {"modalLists", "create"}) /\ (\E x \in F : x.op = "modalLists") BY <1>10, <1>12
    <2>7. Ready(v, N, F, mark) BY <1>2, <1>8, <1>9, <2>2, <2>3, <2>4, <2>5, <2>6, DialogueReady
    <2>8. QED BY <2>1, <2>7
  <1>13. Shape(op, None) BY <1>10 DEF Shape
  <1>14. QED BY <1>2, <1>11, <1>12, <1>13, AskOne

\* A gesture or an answer that leaves the dialog open on the same objective.
LEMMA DialogueStays ==
  ASSUME None \notin Nat, BoardInv, page = "board", view.plan, view.modal.for # None, NEW m, IsModal(m), m.for = view.modal.for,
         NEW v, v = [view EXCEPT !.modal = m],
         NEW gone, \A c \in gone : c.op \in {"modalLists", "create"} /\ (c.op = "create" => c.st # "ok"),
         Untouched(m, db.objs),
         m.busy => view.modal.busy /\ \A c \in gone : c.op = "create" => ~c.arg.mine,
         m.listing => view.modal.listing /\ \A c \in gone : c.op # "modalLists"
  PROVE  Ready(v, gone, {}, "none")
  <1>1. PICK N, mark : N = {} /\ mark = "none" OBVIOUS
  <1>2. (\A x \in N : FALSE) /\ mark # "sections" BY <1>1
  <1>3. NewCalls(N) BY <1>2 DEF NewCalls
  <1>4. WhereView(net, view, db) BY InUseFacts
  <1>5. m.for < db.next BY <1>4 DEF WhereView
  <1>6. Ready(v, gone, N, mark) BY <1>1, <1>2, <1>3, <1>5, DialogueReady
  <1>7. QED BY <1>1, <1>6

\* What is preselected is the objective the dialog was opened from, if it is listed.
LEMMA Preselected == ASSUME NEW m, IsModal(m), m.for # None
  PROVE /\ IsModal(Board!Preselect(m)) /\ Board!Preselect(m).for = m.for
        /\ (Board!Preselect(m).busy <=> m.busy) /\ (Board!Preselect(m).listing <=> m.listing)
        /\ m.for \in Board!Ids(m.objs) => Board!Preselect(m).obj = m.for
  <1>1. m.for \in Nat /\ m = Fields(m.for, m.pillar, m.obj, m.pillars, m.objs, m.listing, m.picked, m.busy) BY OpenModalShape
  <1>2. PICK l, k, b : l = m.listing /\ k = m.picked /\ b = m.busy OBVIOUS
  <1>3. PICK n : n = Board!Preselect(m) OBVIOUS
  <1>4. ASSUME NEW p, NEW o, n = [m EXCEPT !.pillar = p, !.obj = o] PROVE IsModal(n) /\ n.for = m.for /\ n.obj = o /\ (n.busy <=> b) /\ (n.listing <=> l)
    <2>1. n = Fields(m.for, p, o, m.pillars, m.objs, l, k, b) BY <1>1, <1>2, <1>4 DEF Fields
    <2>2. QED BY <1>1, <2>1, FieldsModal
  <1>5. CASE m.for \in Board!Ids(m.objs)
    <2>1. PICK p, o : p = (CHOOSE r \in m.objs : r.id = m.for).up /\ o = m.for OBVIOUS
    <2>2. n = [m EXCEPT !.pillar = p, !.obj = o] BY <1>3, <1>5, <2>1 DEF Board!Preselect
    <2>3. IsModal(n) /\ n.for = m.for /\ n.obj = o /\ (n.busy <=> b) /\ (n.listing <=> l) BY <1>4, <2>2
    <2>4. QED BY <1>2, <1>3, <2>1, <2>3
  <1>6. CASE m.for \notin Board!Ids(m.objs)
    <2>1. CASE m.pillars = {}
      <3>1. n = m BY <1>3, <1>6, <2>1 DEF Board!Preselect
      <3>2. QED BY <1>3, <1>6, <3>1
    <2>2. CASE m.pillars # {}
      <3>1. PICK p : p = Board!FirstId(m.pillars) OBVIOUS
      <3>2. PICK o : o = IF Board!Under(m.objs, p) = {} THEN m.obj ELSE Board!FirstId(Board!Under(m.objs, p)) OBVIOUS
      <3>3. n = [m EXCEPT !.pillar = p, !.obj = o] BY <1>3, <1>6, <2>2, <3>1, <3>2 DEF Board!Preselect
      <3>4. IsModal(n) /\ n.for = m.for /\ n.obj = o /\ (n.busy <=> b) /\ (n.listing <=> l) BY <1>4, <3>3
      <3>5. QED BY <1>2, <1>3, <1>6, <3>4
    <2>3. QED BY <2>1, <2>2
  <1>7. QED BY <1>5, <1>6

LEMMA ModalLists == ASSUME None \notin Nat, BoardInv, Board!ModalListed PROVE BoardInv'
  <1>1. PICK c \in Board!Waiting("modalLists") :
        Board!Resume(c, IF ~c.here THEN view
                  ELSE IF c.st # "ok" THEN [view EXCEPT !.modal.listing = FALSE]
                  ELSE [view EXCEPT !.modal = Board!Preselect([@ EXCEPT !.listing = FALSE,
                                                !.pillars = c.ans.pillars, !.objs = c.ans.objs])])
    BY DEF Board!ModalListed
  <1>2. page = "board" /\ c \in net /\ c.op = "modalLists" BY DEF Board!ModalListed, Board!Here, Board!Waiting
  <1>3. CASE ~c.here BY <1>1, <1>2, <1>3, OrphanResumes
  <1>4. CASE c.here
    <2>1. view.plan /\ IsView(view) /\ WhereView(net, view, db) BY <1>2, <1>4, InUseFacts
    <2>2. /\ view.modal.for # None
          /\ c.st = "ok" => view.modal.for \in Board!Ids(c.ans.objs) \/ view.modal.for \notin Board!Ids(db.objs)
      BY <1>2, <1>4, <2>1 DEF WhereView
    <2>3. PICK k : k = view.modal OBVIOUS
    <2>4. IsModal(k) BY <2>1, <2>3 DEF IsView
    <2>5. k.for \in Nat /\ k = Fields(k.for, k.pillar, k.obj, k.pillars, k.objs, k.listing, k.picked, k.busy)
      BY <2>2, <2>3, <2>4, OpenModalShape
    <2>6. PICK z, q, b : z = FALSE /\ q = k.picked /\ b = k.busy OBVIOUS
    <2>7. PICK gone : gone = {c} OBVIOUS
    <2>8. \A x \in gone : x.op = "modalLists" BY <1>2, <2>7
    <2>9. ASSUME NEW m, NEW v, v = [view EXCEPT !.modal = m], Board!Resume(c, v), IsModal(m), m.for = k.for, m.busy <=> b, ~m.listing,
                 Untouched(m, db.objs)
          PROVE  BoardInv'
      <3>1. Ready(v, gone, {}, "none") BY <1>2, <2>1, <2>2, <2>3, <2>6, <2>8, <2>9, DialogueStays
      <3>2. QED BY <1>2, <1>4, <2>7, <2>9, <3>1, ResumeStep
    <2>10. CASE c.st # "ok"
      <3>1. PICK m : m = [k EXCEPT !.listing = z] OBVIOUS
      <3>2. m = Fields(k.for, k.pillar, k.obj, k.pillars, k.objs, z, q, b) BY <2>5, <2>6, <3>1 DEF Fields
      <3>3. IsModal(m) /\ m.for = k.for /\ m.obj = k.obj /\ (m.listing <=> z) /\ (m.picked <=> q) /\ (m.busy <=> b)
        BY <2>5, <3>2, FieldsModal
      <3>4. Untouched(m, db.objs) BY <2>1, <2>3, <2>6, <3>3 DEF Untouched, WhereView
      <3>5. PICK v : v = [view EXCEPT !.modal = m] OBVIOUS
      <3>6. Board!Resume(c, v) BY <1>1, <1>4, <2>3, <2>6, <2>10, <3>1, <3>5
      <3>7. QED BY <2>6, <2>9, <3>3, <3>4, <3>5, <3>6
    <2>11. CASE c.st = "ok"
      <3>1. PICK n : n = [k EXCEPT !.listing = z, !.pillars = c.ans.pillars, !.objs = c.ans.objs] OBVIOUS
      <3>2. n = Fields(k.for, k.pillar, k.obj, c.ans.pillars, c.ans.objs, z, q, b) BY <2>5, <2>6, <3>1 DEF Fields
      <3>3. IsModal(n) /\ n.for = k.for /\ n.objs = c.ans.objs /\ (n.listing <=> z) /\ (n.busy <=> b)
        BY <2>5, <3>2, FieldsModal
      <3>4. PICK m : m = Board!Preselect(n) OBVIOUS
      <3>5. n.for # None BY <2>2, <2>3, <3>3
      <3>6. /\ IsModal(m) /\ m.for = n.for /\ (m.busy <=> n.busy) /\ (m.listing <=> n.listing)
            /\ n.for \in Board!Ids(n.objs) => m.obj = n.for
        BY <3>3, <3>4, <3>5, Preselected
      <3>7. Untouched(m, db.objs) BY <2>2, <2>3, <2>11, <3>3, <3>6 DEF Untouched
      <3>8. PICK v : v = [view EXCEPT !.modal = m] OBVIOUS
      <3>9. Board!Resume(c, v) BY <1>1, <1>4, <2>3, <2>6, <2>11, <3>1, <3>4, <3>8
      <3>10. QED BY <2>6, <2>9, <3>3, <3>6, <3>7, <3>8, <3>9
    <2>12. QED BY <2>10, <2>11
  <1>5. QED BY <1>3, <1>4

\* What the dialog that is open now knows of its objective.
LEMMA DialogueNow == ASSUME BoardInv, Board!InModal PROVE
  /\ page = "board" /\ view.plan /\ IsView(view) /\ view.modal.for # None /\ IsModal(view.modal) /\ Untouched(view.modal, db.objs)
  /\ view.modal.for \in Nat /\ view.modal.for < db.next
  <1>1. page = "board" /\ view.plan /\ view.modal.for # None BY DEF Board!InModal, Board!Usable, Board!Here
  <1>2. IsView(view) /\ WhereView(net, view, db) BY <1>1, InUseFacts
  <1>3. IsModal(view.modal) BY <1>2 DEF IsView
  <1>4. view.modal.for \in Nat BY <1>1, <1>3, OpenModalShape
  <1>5. QED BY <1>1, <1>2, <1>3, <1>4 DEF WhereView

LEMMA Picks == ASSUME None \notin Nat, BoardInv, Board!Pick PROVE BoardInv'
  <1>1. Board!InModal /\ ~view.modal.listing BY DEF Board!Pick
  <1>2. PICK k : k = view.modal OBVIOUS
  <1>3. page = "board" /\ view.plan /\ IsView(view) /\ view.modal.for # None /\ IsModal(k) BY <1>1, <1>2, DialogueNow
  <1>4. k.for \in Nat /\ k = Fields(k.for, k.pillar, k.obj, k.pillars, k.objs, k.listing, k.picked, k.busy)
    BY <1>2, <1>3, OpenModalShape
  <1>5. PICK l, b, t : l = k.listing /\ b = k.busy /\ t = TRUE OBVIOUS
  <1>6. ASSUME NEW p, NEW o, NEW m, m = Fields(k.for, p, o, k.pillars, k.objs, l, t, b), Board!Local([view EXCEPT !.modal = m]) PROVE BoardInv'
    <2>1. IsModal(m) /\ m.for = k.for /\ (m.listing <=> l) /\ (m.picked <=> t) /\ (m.busy <=> b)
      BY <1>4, <1>6, FieldsModal
    <2>2. Untouched(m, db.objs) BY <1>5, <2>1 DEF Untouched
    <2>3. PICK N : N = {} OBVIOUS
    <2>4. \A x \in N : FALSE BY <2>3
    <2>5. PICK v : v = [view EXCEPT !.modal = m] OBVIOUS
    <2>6. Ready(v, N, {}, "none") BY <1>1, <1>2, <1>3, <1>5, <2>1, <2>2, <2>4, <2>5, DialogueStays
    <2>7. Board!Local(v) BY <1>6, <2>5
    <2>8. QED BY <1>3, <2>3, <2>6, <2>7, LocalStep
  <1>7. ASSUME NEW p, NEW o, Board!Local([view EXCEPT !.modal.pillar = p, !.modal.picked = TRUE, !.modal.obj = o]) PROVE BoardInv'
    <2>1. PICK m : m = [k EXCEPT !.pillar = p, !.picked = t, !.obj = o] OBVIOUS
    <2>2. m = Fields(k.for, p, o, k.pillars, k.objs, l, t, b) BY <1>4, <1>5, <2>1 DEF Fields
    <2>3. [view EXCEPT !.modal = m] = [view EXCEPT !.modal.pillar = p, !.modal.picked = TRUE, !.modal.obj = o]
      BY <1>2, <1>3, <1>5, <2>1 DEF IsView
    <2>4. Board!Local([view EXCEPT !.modal = m]) BY <1>7, <2>3
    <2>5. QED BY <1>6, <2>2, <2>4
  <1>8. ASSUME NEW o, Board!Local([view EXCEPT !.modal.obj = o, !.modal.picked = TRUE]) PROVE BoardInv'
    <2>1. PICK m : m = [k EXCEPT !.obj = o, !.picked = t] OBVIOUS
    <2>2. m = Fields(k.for, k.pillar, o, k.pillars, k.objs, l, t, b) BY <1>4, <1>5, <2>1 DEF Fields
    <2>3. [view EXCEPT !.modal = m] = [view EXCEPT !.modal.obj = o, !.modal.picked = TRUE]
      BY <1>2, <1>3, <1>5, <2>1 DEF IsView
    <2>4. Board!Local([view EXCEPT !.modal = m]) BY <1>8, <2>3
    <2>5. QED BY <1>6, <2>2, <2>4
  <1>9. CASE \E p : \E o : Board!Local([view EXCEPT !.modal.pillar = p, !.modal.picked = TRUE, !.modal.obj = o]) BY <1>7, <1>9
  <1>10. CASE \E o : Board!Local([view EXCEPT !.modal.obj = o, !.modal.picked = TRUE]) BY <1>8, <1>10
  <1>11. QED BY <1>9, <1>10 DEF Board!Pick

LEMMA ModalCloses == ASSUME None \notin Nat, BoardInv, Board!CloseModal PROVE BoardInv'
  <1>1. page = "board" /\ view.plan /\ IsView(view) BY DialogueNow DEF Board!CloseModal
  <1>2. view' = [view EXCEPT !.modal = Board!NoModal] /\ net' = Board!WithoutModal(net) /\ UNCHANGED <<page, db, lost, mixed>> BY DEF Board!CloseModal
  <1>3. Numbered(net) /\ Shaped(net) BY DEF BoardInv, BoardRequests
  <1>4. PICK f : Flow(f, net, net', {}, "modal") BY <1>2, <1>3, FlowClose
  <1>5. PICK N, mark : N = {} /\ mark = "modal" OBVIOUS
  <1>6. (\A x \in N : FALSE) /\ mark # "sections" /\ mark # "none" BY <1>5
  <1>7. PICK m : m = Board!NoModal OBVIOUS
  <1>8. IsModal(m) /\ m.for = None BY <1>7 DEF IsModal, Board!NoModal
  <1>9. Untouched(m, db.objs) BY <1>8 DEF Untouched
  <1>10. NewCalls(N) BY <1>6 DEF NewCalls
  <1>11. PICK v : v = [view EXCEPT !.modal = m] OBVIOUS
  <1>12. Ready(v, N, N, mark) BY <1>1, <1>6, <1>8, <1>9, <1>10, <1>11, DialogueReady
  <1>13. Flow(f, net \ N, net', N, mark) BY <1>4, <1>5
  <1>14. view' = v BY <1>2, <1>7, <1>11
  <1>15. page' = page /\ db' = db /\ lost' = lost /\ mixed' = mixed BY <1>2
  <1>16. QED BY <1>1, <1>6, <1>12, <1>13, <1>14, <1>15, LiveStep

LEMMA SubmitAsks == ASSUME None \notin Nat, BoardInv, Board!InModal, ~view.modal.busy,
    Board!Ask("create", [up |-> view.modal.obj, for |-> view.modal.for, picked |-> view.modal.picked, mine |-> TRUE],
        [view EXCEPT !.modal.busy = TRUE])
  PROVE BoardInv'
  <1>1. PICK k : k = view.modal OBVIOUS
  <1>2. page = "board" /\ view.plan /\ IsView(view) /\ k.for # None /\ IsModal(k) /\ Untouched(k, db.objs)
        /\ k.for \in Nat /\ k.for < db.next
    BY <1>1, DialogueNow
  <1>3. k = Fields(k.for, k.pillar, k.obj, k.pillars, k.objs, k.listing, k.picked, k.busy) BY <1>2, OpenModalShape
  <1>4. PICK l, q, t : l = k.listing /\ q = k.picked /\ t = TRUE OBVIOUS
  <1>5. PICK m : m = [k EXCEPT !.busy = t] OBVIOUS
  <1>6. m = Fields(k.for, k.pillar, k.obj, k.pillars, k.objs, l, q, t) BY <1>3, <1>4, <1>5 DEF Fields
  <1>7. IsModal(m) /\ m.for = k.for /\ m.obj = k.obj /\ (m.listing <=> l) /\ (m.picked <=> q) BY <1>2, <1>6, FieldsModal
  <1>8. PICK v : v = [view EXCEPT !.modal = m] OBVIOUS
  <1>9. PICK op, arg : op = "create" /\ arg = [up |-> k.obj, for |-> k.for, picked |-> q, mine |-> t] OBVIOUS
  <1>10. Board!Ask(op, arg, v)
    <2>1. v = [view EXCEPT !.modal.busy = TRUE] BY <1>1, <1>2, <1>4, <1>5, <1>8 DEF IsView
    <2>2. arg = [up |-> view.modal.obj, for |-> view.modal.for, picked |-> view.modal.picked, mine |-> TRUE] BY <1>1, <1>4, <1>9
    <2>3. QED BY <1>9, <2>1, <2>2
  <1>11. arg.up = k.obj /\ arg.for = k.for /\ arg.picked = q /\ arg.mine = t BY <1>9
  <1>12. Shape(op, arg) BY <1>9, <1>11 DEF Shape
  <1>13. Untouched(m, db.objs) BY <1>2, <1>4, <1>7 DEF Untouched
  <1>14. ASSUME NEW F, \A x \in F : x.op = op /\ x.arg = arg, \E x \in F : x.op = op /\ x.arg = arg PROVE Ready(v, {}, F, "none")
    <2>1. PICK N, mark : N = {} /\ mark = "none" OBVIOUS
    <2>2. (\A x \in N : FALSE) /\ mark # "sections" BY <2>1
    <2>3. NewCalls(F)
      <3>1. SUFFICES ASSUME NEW x \in F PROVE x.arg.for \in Nat /\ x.arg.for < db.next /\ Asked(x, db.objs) BY DEF NewCalls
      <3>2. x.arg = arg BY <1>14
      <3>3. Asked(x, db.objs) BY <1>2, <1>4, <1>11, <3>2 DEF Asked, Untouched
      <3>4. QED BY <1>2, <1>11, <3>2, <3>3
    <2>4. (\A x \in F : x.op = "create") /\ \E x \in F : x.op = "create" /\ x.arg.mine BY <1>4, <1>9, <1>11, <1>14
    <2>5. m.listing => view.modal.for # None /\ view.modal.listing BY <1>1, <1>2, <1>4, <1>7
    <2>6. Ready(v, N, F, mark) BY <1>1, <1>2, <1>7, <1>8, <1>13, <2>1, <2>2, <2>3, <2>4, <2>5, DialogueReady
    <2>7. QED BY <2>1, <2>6
  <1>15. QED BY <1>2, <1>10, <1>12, <1>14, AskOne

LEMMA SubmitEnds == ASSUME None \notin Nat, BoardInv, page = "board", NEW c \in Board!Waiting("create"),
    IF c.st = "ok" THEN Board!EndLoading(c, TRUE, [view EXCEPT !.modal = Board!NoModal])
    ELSE Board!Resume(c, IF c.arg.mine /\ view.modal.for # None THEN [view EXCEPT !.modal.busy = FALSE] ELSE view)
  PROVE BoardInv'
  <1>1. c \in net /\ c.op = "create" BY DEF Board!Waiting
  <1>2. PICK both \in BOOLEAN : both = TRUE OBVIOUS
  <1>3. PICK n : n = Board!NoModal OBVIOUS
  <1>4. PICK u : u = [view EXCEPT !.modal = n] OBVIOUS
  <1>5. CASE ~c.here /\ c.st = "ok"
    <2>1. Board!EndLoading(c, both, u) BY <1>2, <1>3, <1>4, <1>5
    <2>2. QED BY <1>1, <1>5, <2>1, EndsAway
  <1>6. CASE ~c.here /\ c.st # "ok" BY <1>1, <1>6, OrphanResumes
  <1>7. CASE c.here
    <2>1. view.plan /\ IsView(view) /\ WhereView(net, view, db) BY <1>1, <1>7, InUseFacts
    <2>2. CASE c.st = "ok"
      <3>1. Board!EndLoading(c, both, u) /\ both BY <1>2, <1>3, <1>4, <2>2
      <3>2. IsModal(n) BY <1>3 DEF IsModal
      <3>3. /\ IsView(u) /\ (u.plan <=> view.plan) /\ u.acts = view.acts /\ u.pillars = view.pillars /\ u.objs = view.objs
            /\ (u.loading <=> view.loading) /\ u.modal = n /\ (u.busy <=> view.busy) /\ (u.deleting <=> view.deleting) /\ u.ai = view.ai
        BY <1>4, <2>1, <3>2, DialogueView
      <3>4. c.op \notin Handlers /\ c.op # "fan" /\ c.op \in {"create", "fan"} BY <1>1 DEF Handlers
      <3>5. u.modal = Board!NoModal BY <1>3, <3>3
      <3>6. QED BY <1>1, <1>7, <2>1, <3>1, <3>3, <3>4, <3>5, EndsHere
    <2>3. CASE c.st # "ok"
      <3>1. PICK N, gone, mark : N = {} /\ gone = {c} /\ mark = "none" OBVIOUS
      <3>2. (\A x \in N : FALSE) /\ \A x \in gone : x.op = "create" /\ x.st # "ok" /\ x.arg = c.arg BY <1>1, <2>3, <3>1
      <3>3. CASE c.arg.mine /\ view.modal.for # None
        <4>1. PICK k : k = view.modal OBVIOUS
        <4>2. IsModal(k) /\ k.for \in Nat /\ k = Fields(k.for, k.pillar, k.obj, k.pillars, k.objs, k.listing, k.picked, k.busy)
          BY <2>1, <3>3, <4>1, OpenModalShape DEF IsView
        <4>3. PICK l, q, z : l = k.listing /\ q = k.picked /\ z = FALSE OBVIOUS
        <4>4. PICK m : m = [k EXCEPT !.busy = z] OBVIOUS
        <4>5. m = Fields(k.for, k.pillar, k.obj, k.pillars, k.objs, l, q, z) BY <4>2, <4>3, <4>4 DEF Fields
        <4>6. IsModal(m) /\ m.for = k.for /\ m.obj = k.obj /\ (m.listing <=> l) /\ (m.picked <=> q) /\ (m.busy <=> z)
          BY <4>2, <4>5, FieldsModal
        <4>7. Untouched(m, db.objs) BY <2>1, <4>1, <4>3, <4>6 DEF Untouched, WhereView
        <4>8. PICK v : v = [view EXCEPT !.modal = m] OBVIOUS
        <4>9. v = [view EXCEPT !.modal.busy = FALSE] BY <2>1, <4>1, <4>3, <4>4, <4>8 DEF IsView
        <4>10. Board!Resume(c, v) BY <2>3, <3>3, <4>9
        <4>11. Ready(v, gone, {}, "none") BY <2>1, <3>2, <3>3, <4>1, <4>3, <4>6, <4>7, <4>8, DialogueStays
        <4>12. QED BY <1>1, <1>7, <3>1, <4>10, <4>11, ResumeStep
      <3>4. CASE ~(c.arg.mine /\ view.modal.for # None)
        <4>1. Board!Resume(c, view) BY <2>3, <3>4
        <4>2. PICK m : m = view.modal OBVIOUS
        <4>3. view = [view EXCEPT !.modal = m] /\ IsModal(m) BY <2>1, <4>2 DEF IsView
        <4>4. m.for # None /\ m.busy => view.modal.for # None /\ view.modal.busy /\ \A x \in gone : x.op = "create" => ~x.arg.mine
          BY <3>2, <3>4, <4>2
        <4>5. m.for # None /\ m.listing => view.modal.for # None /\ view.modal.listing /\ \A x \in gone : x.op # "modalLists"
          BY <3>2, <4>2
        <4>6. NewCalls(N) BY <3>2 DEF NewCalls
        <4>7. Untouched(m, db.objs) /\ (m.for # None => m.for < db.next) BY <2>1, <4>2 DEF WhereView
        <4>8. mark # "sections" BY <3>1
        <4>9. PICK v : v = view OBVIOUS
        <4>10. v = [view EXCEPT !.modal = m] BY <4>3, <4>9
        <4>11. Ready(v, gone, N, mark) BY <2>1, <3>1, <3>2, <4>2, <4>3, <4>4, <4>5, <4>6, <4>7, <4>8, <4>10, DialogueReady
        <4>12. QED BY <1>1, <1>7, <3>1, <4>1, <4>9, <4>11, ResumeStep
      <3>5. QED BY <3>3, <3>4
    <2>4. QED BY <2>2, <2>3
  <1>8. QED BY <1>5, <1>6, <1>7

LEMMA SubmitKept == ASSUME None \notin Nat, BoardInv, Board!Submit PROVE BoardInv'
  <1>1. CASE /\ Board!InModal /\ ~view.modal.busy
             /\ Board!Ask("create", [up |-> view.modal.obj, for |-> view.modal.for, picked |-> view.modal.picked, mine |-> TRUE],
                    [view EXCEPT !.modal.busy = TRUE])
    BY <1>1, SubmitAsks
  <1>2. CASE Board!Here /\ \E c \in Board!Waiting("create") :
               IF c.st = "ok" THEN Board!EndLoading(c, TRUE, [view EXCEPT !.modal = Board!NoModal])
               ELSE Board!Resume(c, IF c.arg.mine /\ view.modal.for # None THEN [view EXCEPT !.modal.busy = FALSE] ELSE view)
    BY <1>2, SubmitEnds DEF Board!Here
  <1>3. QED BY <1>1, <1>2 DEF Board!Submit

-----------------------------------------------------------------------------
(* The states the page starts in, and every step. *)

LEMMA StartDb == ASSUME Board!Init PROVE IsDb(db) /\ AgedLists(db, db.next) /\ lost \in Nat /\ lost = 0 /\ ~mixed /\ page = "board"
                                   /\ db.pillars = Board!Pillars0 /\ db.objs = Board!Objectives0 /\ db.next = 7
  <1>1. PICK edit, del : db = [page |-> "board", edit |-> edit, del |-> del, next |-> 7,
                  pillars |-> Board!Pillars0, objs |-> Board!Objectives0, acts |-> Board!Activities0]
    BY DEF Board!Init
  <1>2. lost = 0 /\ ~mixed /\ page = "board" BY DEF Board!Init
  <1>3. \A r \in Board!Pillars0 : r = [id |-> r.id, t |-> r.t] /\ r.id \in Nat /\ r.id < 7 BY DEF Board!Pillars0
  <1>4. \A r \in Board!Objectives0 : r = [id |-> r.id, up |-> r.up, t |-> r.t] /\ r.id \in Nat /\ r.id < 7 BY DEF Board!Objectives0
  <1>5. IsDb(db) BY <1>1, <1>3, <1>4 DEF IsDb
  <1>6. AgedLists(db, db.next) BY <1>1, <1>3, <1>4 DEF AgedLists, Aged
  <1>7. QED BY <1>1, <1>2, <1>5, <1>6

LEMMA StartFresh == ASSUME None \notin Nat, Board!Init, NEW from, view = [Board!Fresh EXCEPT !.from = from], net = Board!Send({}, << <<"plan", None>> >>)
  PROVE BoardInv
  <1>1. IsDb(db) /\ AgedLists(db, db.next) /\ lost \in Nat /\ lost = 0 /\ ~mixed /\ page = "board" BY StartDb
  <1>2. PICK r : r = [id |-> 1, op |-> "plan", arg |-> None, st |-> "sent", ans |-> None, here |-> TRUE] OBVIOUS
  <1>3. net = {r}
    <2>1. PICK asks : asks = << <<"plan", None>> >> OBVIOUS
    <2>2. DOMAIN asks = {1} /\ asks[1] = <<"plan", None>> BY <2>1
    <2>3. Cardinality({}) = 0 BY FS_EmptySet
    <2>4. net = {} \cup {Board!Request(Cardinality({}) + i, asks[i]) : i \in DOMAIN asks} BY <2>1, BoardCounts DEF Board!Send
    <2>5. net = {Board!Request(1, <<"plan", None>>)} BY <2>2, <2>3, <2>4
    <2>6. Board!Request(1, <<"plan", None>>) = r BY <1>2 DEF Board!Request
    <2>7. QED BY <2>5, <2>6
  <1>4. IsRequest(r) /\ r.id = 1 /\ r.op = "plan" /\ r.st = "sent" /\ r.here BY <1>2 DEF IsRequest
  <1>5. Numbered(net)
    <2>1. IsFiniteSet(net) /\ Cardinality(net) = 1 BY <1>3, FS_Singleton
    <2>2. QED BY <1>3, <1>4, <2>1 DEF Numbered
  <1>6. Shaped(net) BY <1>3, <1>4 DEF Shaped, Shape
  <1>7. Ordered(net) BY <1>3 DEF Ordered
  <1>8. BoardRequests BY <1>5, <1>6, <1>7 DEF BoardRequests
  <1>9. WhereCalls(net, db) BY <1>3, <1>4 DEF WhereCalls
  <1>10. /\ IsView(view) /\ ~view.plan /\ ~view.busy /\ ~view.deleting /\ ~view.ai.loading /\ ~view.ai.applying /\ view.modal = Board!NoModal
         /\ view.pillars = {} /\ view.objs = {}
    BY FreshView
  <1>11. AgedLists(view, db.next) BY <1>10 DEF AgedLists, Aged
  <1>12. PICK F : F = net OBVIOUS
  <1>13. F \subseteq net /\ (\A x \in F : x.op = "plan" /\ x.here /\ x.st = "sent") /\ (\E x \in F : TRUE)
         /\ \A c \in net \ F : ~c.here /\ \A x \in F : c.id < x.id
    BY <1>3, <1>4, <1>12
  <1>14. WhereView(net, view, db) /\ Opens(net, view) /\ Busy(net, view) /\ Synced(net, view, Board!Lists, Board!Live)
    BY <1>1, <1>10, <1>11, <1>13, FreshMounted
  <1>15. Mounted BY <1>10, <1>14 DEF Mounted
  <1>16. QED BY <1>1, <1>8, <1>9, <1>15 DEF BoardInv

LEMMA StartInUse == ASSUME None \notin Nat, Board!Init, NEW i, IsAi(i), ~i.loading, ~i.applying, view = [Board!InUse EXCEPT !.ai = i], net = {}
  PROVE BoardInv
  <1>1. /\ IsDb(db) /\ AgedLists(db, db.next) /\ lost \in Nat /\ lost = 0 /\ ~mixed /\ page = "board"
        /\ db.pillars = Board!Pillars0 /\ db.objs = Board!Objectives0
    BY StartDb
  <1>2. PICK t, z, o, m : t = TRUE /\ z = FALSE /\ o = {1, 2} /\ m = Board!NoModal OBVIOUS
  <1>3. view = [plan |-> t, acts |-> Board!Live, pillars |-> Board!Pillars0, objs |-> Board!Objectives0, loading |-> z,
                busy |-> z, open |-> o, from |-> None, modal |-> m, target |-> None, deleting |-> z, ai |-> i]
    BY <1>2 DEF Board!InUse, Board!Fresh
  <1>4. IsModal(m) /\ m.for = None BY <1>2 DEF IsModal, Board!NoModal
  <1>5. IsView(view)
    <2>1. IsAi(i) OBVIOUS
    <2>2. QED BY ONLY <1>3, <1>4, <2>1 DEF IsView
  <1>6. \A c \in net : FALSE OBVIOUS
  <1>7. Numbered(net) BY <1>6, FS_EmptySet DEF Numbered
  <1>8. BoardRequests BY <1>6, <1>7 DEF BoardRequests, Shaped, Ordered
  <1>9. WhereCalls(net, db) BY <1>6 DEF WhereCalls
  <1>10. view.plan /\ ~view.loading /\ ~view.busy /\ ~view.deleting /\ view.ai = i /\ view.modal = m
         /\ view.pillars = db.pillars /\ view.objs = db.objs /\ view.acts = Board!Live
    <2>1. view.plan = t /\ view.loading = z /\ view.busy = z /\ view.deleting = z BY <1>3
    <2>2. view.ai = i /\ view.modal = m /\ view.pillars = db.pillars /\ view.objs = db.objs /\ view.acts = Board!Live BY <1>1, <1>3
    <2>3. QED BY <1>2, <2>1, <2>2
  <1>11. WhereView(net, view, db) BY <1>1, <1>4, <1>6, <1>10 DEF WhereView, Untouched, AgedLists
  <1>12. Opens(net, view) /\ Busy(net, view) BY <1>4, <1>10 DEF Opens, Busy
  <1>13. Synced(net, view, Board!Lists, Board!Live) BY <1>6, <1>10 DEF Synced, Board!Lists
  <1>14. Mounted BY <1>5, <1>11, <1>12, <1>13 DEF Mounted
  <1>15. QED BY <1>1, <1>8, <1>9, <1>14 DEF BoardInv

LEMMA BoardInit == ASSUME None \notin Nat, Board!Init PROVE BoardInv
  <1>1. CASE \E from : view = [Board!Fresh EXCEPT !.from = from] /\ net = Board!Send({}, << <<"plan", None>> >>)
    BY <1>1, StartFresh
  <1>2. CASE view = Board!InUse /\ net = {}
    <2>1. PICK i : i = Board!NoAi OBVIOUS
    <2>2. IsAi(i) /\ ~i.loading /\ ~i.applying BY <2>1 DEF Board!NoAi, IsAi
    <2>3. Board!InUse = [Board!InUse EXCEPT !.ai = i]
      <3>1. PICK t, z, o, m : t = TRUE /\ z = FALSE /\ o = {1, 2} /\ m = Board!NoModal OBVIOUS
      <3>2. PICK k : k = Board!NoAi OBVIOUS
      <3>3. PICK e : e = {} OBVIOUS
      <3>4. Board!Fresh = [plan |-> z, acts |-> e, pillars |-> e, objs |-> e, loading |-> t,
                     busy |-> z, open |-> e, from |-> None, modal |-> m, target |-> None, deleting |-> z, ai |-> k]
        BY ONLY <3>1, <3>2, <3>3 DEF Board!Fresh
      <3>5. Board!InUse = [Board!Fresh EXCEPT !.plan = t, !.loading = z, !.pillars = Board!Pillars0, !.objs = Board!Objectives0, !.acts = Board!Live, !.open = o]
        BY ONLY <3>1 DEF Board!InUse
      <3>6. Board!InUse = [plan |-> t, acts |-> Board!Live, pillars |-> Board!Pillars0, objs |-> Board!Objectives0, loading |-> z,
                     busy |-> z, open |-> o, from |-> None, modal |-> m, target |-> None, deleting |-> z, ai |-> k]
        BY ONLY <3>4, <3>5
      <3>7. QED BY <2>1, <3>2, <3>6
    <2>4. QED BY <1>2, <2>2, <2>3, StartInUse
  <1>3. CASE \E of : view = [Board!InUse EXCEPT !.ai = Board!Drafted(of, 2)] /\ net = {}
    <2>1. PICK of : view = [Board!InUse EXCEPT !.ai = Board!Drafted(of, 2)] /\ net = {} BY <1>3
    <2>2. PICK i : i = Board!Drafted(of, 2) OBVIOUS
    <2>3. IsAi(i) /\ ~i.loading /\ ~i.applying BY <2>2 DEF Board!Drafted, Board!NoAi, IsAi
    <2>4. QED BY <2>1, <2>2, <2>3, StartInUse
  <1>4. QED BY <1>1, <1>2, <1>3 DEF Board!Init

LEMMA ServerKept == ASSUME None \notin Nat, BoardInv, Board!Server PROVE BoardInv'
  <1>1. CASE Board!Fail BY <1>1, RefuseStep DEF Board!Fail
  <1>2. CASE Board!Gone BY <1>2, OrphanResumes DEF Board!Gone
  <1>3. CASE Board!Late BY <1>3, OrphanResumes DEF Board!Late
  <1>4. CASE Board!ServeReads \/ Board!CreatePillarRow \/ Board!CreateObjectiveRow \/ Board!CreateActivityRow \/ Board!RenameRow
    BY <1>4, ReadsServed, PillarCreated, ObjectiveCreated, ActivityCreated, RowRenamed
  <1>5. CASE Board!DeletePillarRow \/ Board!DeleteObjectiveRow \/ Board!DeleteActivityRow
    BY <1>5, PillarDeleted, ObjectiveDeleted, ActivityDeleted
  <1>6. QED BY <1>1, <1>2, <1>3, <1>4, <1>5 DEF Board!Server

LEMMA BoardStep == ASSUME None \notin Nat, BoardInv, Board!Next PROVE BoardInv'
  <1>1. CASE Board!User BY <1>1, Toggled, LeaveKept, OpenKept DEF Board!User
  <1>2. CASE Board!Board BY <1>2, HandlersKept, ActivityDeletes, PlanKept, ListsKept DEF Board!Board
  <1>3. CASE Board!Dialog BY <1>3, ModalOpens, ModalLists, Picks, ModalCloses, SubmitKept DEF Board!Dialog
  <1>4. CASE Board!Panel BY <1>4, PanelKept
  <1>5. CASE Board!Accept BY <1>5, AcceptKept
  <1>6. CASE Board!Server BY <1>6, ServerKept
  <1>7. QED BY <1>1, <1>2, <1>3, <1>4, <1>5, <1>6 DEF Board!Next

LEMMA BoardStutter == ASSUME BoardInv, UNCHANGED Board!vars PROVE BoardInv'
  <1>1. page' = page /\ view' = view /\ net' = net /\ db' = db /\ lost' = lost /\ mixed' = mixed BY DEF Board!vars
  <1>2. Board!Lists' = Board!Lists /\ Board!Live' = Board!Live BY <1>1 DEF Board!Lists, Board!Live
  <1>3. Mounted => Mounted' BY <1>1, <1>2 DEF Mounted
  <1>4. QED BY <1>1, <1>3 DEF BoardInv, BoardRequests, Away

\* What the invariant says of the page.
LEMMA BoardTells == ASSUME BoardInv PROVE db.page = "board" /\ Board!Truth /\ Board!CreatedWhereAsked /\ Board!Settled
  <1>1. db.page = "board" BY DEF BoardInv, IsDb
  <1>2. Board!Truth
    <2>1. SUFFICES ASSUME Board!Here, Board!Quiet, Board!Calm PROVE view.pillars = db.pillars /\ view.objs = db.objs /\ view.acts = Board!Live
      BY DEF Board!Truth
    <2>2. Synced(net, view, Board!Lists, Board!Live) BY <2>1 DEF Board!Calm, Board!Here, BoardInv, Mounted
    <2>3. \A c \in net : FALSE BY <2>1 DEF Board!Quiet
    <2>4. view.plan BY <2>2, <2>3 DEF Synced
    <2>5. QED BY <2>2, <2>3, <2>4 DEF Synced, Board!Lists
  <1>3. Board!CreatedWhereAsked BY DEF BoardInv, WhereCalls, Asked, Board!CreatedWhereAsked
  <1>4. Board!Settled
    <2>1. SUFFICES ASSUME Board!Here, Board!Quiet, view.plan
          PROVE ~view.loading /\ ~view.busy /\ ~view.deleting /\ Board!Resting
                /\ (view.modal.for # None => ~view.modal.busy /\ ~view.modal.listing)
      BY DEF Board!Settled
    <2>2. Busy(net, view) BY <2>1 DEF Board!Here, BoardInv, Mounted
    <2>3. \A c \in net : FALSE BY <2>1 DEF Board!Quiet
    <2>4. ~view.loading BY <2>1, <2>2, <2>3 DEF Busy
    <2>5. QED BY <2>2, <2>3, <2>4 DEF Busy, Board!Resting
  <1>5. QED BY <1>1, <1>2, <1>3, <1>4

-----------------------------------------------------------------------------
(* Reports: the invariant. *)

Reports == INSTANCE ReportPages

JobIds(jobs) == {j.id : j \in jobs}
PollIds(c) == {c.arg.id} \cup c.arg.rest
IsReport(r) == r = [id |-> r.id, plan |-> r.plan]
IsReportDb(d) ==
  /\ d = [page |-> d.page, plans |-> d.plans, rows |-> d.rows, told |-> d.told, again |-> d.again, crossed |-> d.crossed]
  /\ d.page = "reports" /\ d.plans \subseteq {1, 2, 3} /\ d.crossed \in BOOLEAN
  /\ IsFiniteSet(d.rows) /\ \A r \in d.rows : IsReport(r) /\ r.id \in 1..Cardinality(d.rows)
IsReportView(v) ==
  /\ v = [loading |-> v.loading, plans |-> v.plans, sel |-> v.sel, history |-> v.history, type |-> v.type,
          sections |-> v.sections, generating |-> v.generating, jobs |-> v.jobs, download |-> v.download]
  /\ v.plans \subseteq {1, 2, 3} /\ (v.sel = None => v.plans = {})

\* What requests, jobs and announcements name is stored.
KnownReports(calls, jobs, d) ==
  /\ \A c \in calls : c.op = "poll" =>
       c.arg = [id |-> c.arg.id, rest |-> c.arg.rest] /\ PollIds(c) \subseteq 1..Cardinality(d.rows)
  /\ \A c \in calls : c.op = "plans" /\ c.st = "ok" => c.ans \subseteq {1, 2, 3}
  /\ \A c \in calls : c.op = "generate" /\ c.st = "ok" => c.ans \in d.rows
  /\ \A j \in jobs : j = [id |-> j.id, plan |-> j.plan, st |-> j.st] /\ j.id \in 1..Cardinality(d.rows)
  /\ d.told \subseteq 1..Cardinality(d.rows)
\* While the ticks do not cross, a job that is polled or may still be has not been announced.
ToldOnce(calls, jobs, d) ==
  /\ ~d.again
  /\ \A j \in jobs : j.st = "processing" => j.id \notin d.told
  /\ \A c, e \in calls : c.op = "poll" /\ e.op = "poll" => c = e
  /\ \A c \in calls : c.op = "poll" =>
       /\ c.arg.id \notin c.arg.rest /\ PollIds(c) \cap d.told = {}
       /\ ~c.here => PollIds(c) \cap JobIds(jobs) = {}
  /\ \A g \in calls : g.op = "generate" /\ g.st = "ok" =>
       /\ g.ans.id \notin d.told /\ g.ans.id \notin JobIds(jobs)
       /\ \A c \in calls : c.op = "poll" => g.ans.id \notin PollIds(c)
       /\ \A h \in calls : h.op = "generate" /\ h.st = "ok" /\ h.ans.id = g.ans.id => h = g
\* What the history h misses of the plan p is among the jobs, or will be.
Covers(h, p, calls, v, rows) ==
  /\ h \subseteq {r \in rows : r.plan = p}
  /\ \A r \in rows : r.plan = p /\ r \notin h =>
       \/ r.id \in JobIds(v.jobs)
       \/ \E g \in calls : g.here /\ g.op = "generate" /\ g.st = "ok" /\ g.ans = r
Histories(calls) == {c \in calls : c.here /\ c.op \in {"first", "history"}}
\* The history shown is, or the last one asked for will be, that of the selected plan.
HistoryTrue(calls, v, rows) ==
  /\ \A c \in calls : ~c.here => v.sel = None /\ \A d \in calls : d.here => c.id < d.id
  /\ \A c \in Histories(calls) : c.st # "sent" => c.st = "ok" /\ Covers(c.ans, c.arg, calls, v, rows)
  /\ \A c \in Histories(calls) : (\A d \in Histories(calls) : d.id <= c.id) => c.arg = v.sel
  /\ v.sel # None /\ Histories(calls) = {} => Covers(v.history, v.sel, calls, v, rows)
\* What the page shows as under way is.
ReportsBusy(calls, v) ==
  /\ v.loading => \E c \in calls : c.here /\ c.op \in {"plans", "first"}
  /\ v.generating => \E c \in calls : c.here /\ c.op = "generate"
  /\ v.download # None => \E c \in calls : c.here /\ c.op = "download"
ListedJobs == IF page = "reports" THEN view.jobs ELSE {}
ReportsMounted(calls, v, d) == IsReportView(v) /\ ReportsBusy(calls, v) /\ (~mixed /\ lost = 0 => HistoryTrue(calls, v, d.rows))
ReportsInv ==
  /\ IsReportDb(db) /\ lost \in Nat
  /\ Numbered(net) /\ (~mixed => Ordered(net))
  /\ KnownReports(net, ListedJobs, db) /\ (~db.crossed => ToldOnce(net, ListedJobs, db))
  /\ \/ page = "reports" /\ ReportsMounted(net, view, db)
     \/ page = "away" /\ \A c \in net : ~c.here


\* Requests are sent and answered here as they are in Spa.
LEMMA ReportsCount == \A S : Reports!Cardinality(S) = Cardinality(S)
  BY DEF Reports!Cardinality, Cardinality
LEMMA ReportsSend == \A S, asks : Reports!Send(S, asks) = Send(S, asks)
  BY ReportsCount DEF Reports!Send, Reports!Request, Send, Request
LEMMA ReportsWithout == \A c : Reports!Without(c) = Without(c)
  BY DEF Reports!Without, Without
LEMMA ReportsAnswerIs == \A c, d, st, a : Reports!AnswerIs(c, d, st, a) <=> AnswerIs(c, d, st, a)
  BY DEF Reports!AnswerIs, AnswerIs, Reports!Overtakes, Overtakes
LEMMA ReportsResume == ASSUME Numbered(net), NEW c \in net
  PROVE \E f : Passage(f, net \ {c}, Reports!Without(c), {})
  BY PassResume, ReportsWithout
LEMMA ReportsAsks ==
  ASSUME Numbered(net), NEW c \in net, NEW n \in Nat, NEW asks, DOMAIN asks = 1..n, NEW T,
         T = Reports!Without(c) \cup {[r EXCEPT !.here = c.here] : r \in Reports!Send(Reports!Without(c), asks) \ Reports!Without(c)}
  PROVE  /\ n > 0 => T # Reports!Without(c)
         /\ \E f, F : /\ Passage(f, net \ {c}, T, F) /\ Asking(F, asks, c.here)
                      /\ \A x \in F : x \notin Reports!Without(c)
  <1>1. PICK W : W = Without(c) OBVIOUS
  <1>2. PICK U : U = Send(W, asks) OBVIOUS
  <1>3. Reports!Without(c) = W BY <1>1, ReportsWithout
  <1>4. Reports!Send(W, asks) = U BY <1>2, ReportsSend
  <1>5. T = W \cup {[r EXCEPT !.here = c.here] : r \in U \ W} BY <1>3, <1>4
  <1>6. T = Without(c) \cup {[r EXCEPT !.here = c.here] : r \in Send(Without(c), asks) \ Without(c)} BY <1>1, <1>2, <1>5
  <1>7. /\ n > 0 => T # Without(c)
        /\ \E f, F : Passage(f, net \ {c}, T, F) /\ Asking(F, asks, c.here) /\ \A x \in F : x \notin Without(c)
    BY <1>6, PassAsks
  <1>8. QED BY <1>1, <1>3, <1>7
LEMMA ReportsOne == ASSUME Numbered(net), NEW op, NEW arg, NEW T, T = Reports!Send(net, << <<op, arg>> >>)
  PROVE \E f, F : /\ Passage(f, net, T, F) /\ F # {} /\ \A x \in F : x.here /\ x.op = op /\ x.arg = arg
                  /\ \A x, y \in F : x = y
  <1>1. T = Send(net, << <<op, arg>> >>) BY ReportsSend
  <1>2. QED BY <1>1, PassOne
-----------------------------------------------------------------------------
(* Reports: what a passage keeps. *)

Polite(x, d) ==
  x.op = "poll" => x.arg = [id |-> x.arg.id, rest |-> x.arg.rest] /\ PollIds(x) \subseteq 1..Cardinality(d.rows)
LEMMA KnownReportsKept ==
  ASSUME NEW f, NEW R, R \subseteq net, NEW T, NEW F, Passage(f, R, T, F), NEW jobs, NEW d, KnownReports(net, jobs, d),
         \A x \in F : Polite(x, d)
  PROVE  KnownReports(T, jobs, d)
  <1>1. ASSUME NEW c \in T, c.op = "poll" PROVE Polite(c, d)
    <2>1. CASE c \in F BY <2>1
    <2>2. CASE c \notin F
      <3>1. PICK q \in R : c = f[q] BY <2>2 DEF Passage, Moved
      <3>2. q.op = "poll" /\ c.arg = q.arg /\ q \in net BY <1>1, <3>1 DEF Passage, Moved, Intact
      <3>3. QED BY <1>1, <3>2 DEF KnownReports, Polite, PollIds
    <2>3. QED BY <2>1, <2>2
  <1>2. ASSUME NEW c \in T, c.st = "ok" PROVE \E q \in net : q.op = c.op /\ q.st = c.st /\ q.ans = c.ans
    BY <1>2, Origin
  <1>3. \A c \in T : c.op = "plans" /\ c.st = "ok" => c.ans \subseteq {1, 2, 3} BY <1>2 DEF KnownReports
  <1>4. \A c \in T : c.op = "generate" /\ c.st = "ok" => c.ans \in d.rows BY <1>2 DEF KnownReports
  <1>5. QED BY <1>1, <1>3, <1>4 DEF KnownReports, Polite

LEMMA ToldOnceKept ==
  ASSUME NEW f, NEW R, NEW T, NEW F, Passage(f, R, T, F), NEW jobs, NEW d, ToldOnce(R, jobs, d),
         \A x \in F : x.op # "poll"
  PROVE  ToldOnce(T, jobs, d)
  <1>1. ASSUME NEW c \in T, c.op = "poll"
        PROVE  \E q \in R : c = f[q] /\ q.op = "poll" /\ c.arg = q.arg /\ (c.here <=> q.here)
    BY <1>1, Origin
  <1>2. ASSUME NEW c \in T, c.op = "generate", c.st = "ok"
        PROVE  \E q \in R : c = f[q] /\ q.op = "generate" /\ q.st = "ok" /\ c.ans = q.ans
    BY <1>2, Origin
  <1>3. ASSUME NEW c \in T, NEW e \in T, c.op = "poll", e.op = "poll" PROVE c = e
    <2>1. PICK p \in R : c = f[p] /\ p.op = "poll" BY <1>1, <1>3
    <2>2. PICK q \in R : e = f[q] /\ q.op = "poll" BY <1>1, <1>3
    <2>3. p = q BY <2>1, <2>2 DEF ToldOnce
    <2>4. QED BY <2>1, <2>2, <2>3
  <1>4. ASSUME NEW c \in T, c.op = "poll"
        PROVE  /\ c.arg.id \notin c.arg.rest /\ PollIds(c) \cap d.told = {}
               /\ ~c.here => PollIds(c) \cap JobIds(jobs) = {}
    <2>1. PICK q \in R : q.op = "poll" /\ c.arg = q.arg /\ (c.here <=> q.here) BY <1>1, <1>4
    <2>2. PollIds(c) = PollIds(q) BY <2>1 DEF PollIds
    <2>3. QED BY <2>1, <2>2 DEF ToldOnce
  <1>5. ASSUME NEW g \in T, g.op = "generate", g.st = "ok"
        PROVE  /\ g.ans.id \notin d.told /\ g.ans.id \notin JobIds(jobs)
               /\ \A c \in T : c.op = "poll" => g.ans.id \notin PollIds(c)
               /\ \A h \in T : h.op = "generate" /\ h.st = "ok" /\ h.ans.id = g.ans.id => h = g
    <2>1. PICK q \in R : g = f[q] /\ q.op = "generate" /\ q.st = "ok" /\ g.ans = q.ans BY <1>2, <1>5
    <2>2. q.ans.id \notin d.told /\ q.ans.id \notin JobIds(jobs) BY <2>1 DEF ToldOnce
    <2>3. ASSUME NEW c \in T, c.op = "poll" PROVE g.ans.id \notin PollIds(c)
      <3>1. PICK p \in R : p.op = "poll" /\ c.arg = p.arg BY <1>1, <2>3
      <3>2. PollIds(c) = PollIds(p) BY <3>1 DEF PollIds
      <3>3. QED BY <2>1, <3>1, <3>2 DEF ToldOnce
    <2>4. ASSUME NEW h \in T, h.op = "generate", h.st = "ok", h.ans.id = g.ans.id PROVE h = g
      <3>1. PICK p \in R : h = f[p] /\ p.op = "generate" /\ p.st = "ok" /\ h.ans = p.ans BY <1>2, <2>4
      <3>2. p = q BY <2>1, <2>4, <3>1 DEF ToldOnce
      <3>3. QED BY <2>1, <3>1, <3>2
    <2>5. QED BY <2>1, <2>2, <2>3, <2>4
  <1>6. QED BY <1>3, <1>4, <1>5 DEF ToldOnce

\* What is missing stays among the jobs or on its way.
LEMMA CoversKept ==
  ASSUME NEW R, R \subseteq net, NEW f, NEW T, NEW F, Passage(f, R, T, F), NEW v, NEW w, JobIds(v.jobs) \subseteq JobIds(w.jobs),
         \A q \in net \ R : q.here /\ q.op = "generate" /\ q.st = "ok" => q.ans.id \in JobIds(w.jobs),
         NEW h, NEW p, NEW rows, Covers(h, p, net, v, rows)
  PROVE  Covers(h, p, T, w, rows)
  <1>1. SUFFICES ASSUME NEW r \in rows, r.plan = p, r \notin h, r.id \notin JobIds(w.jobs)
                 PROVE  \E g \in T : g.here /\ g.op = "generate" /\ g.st = "ok" /\ g.ans = r
    BY DEF Covers
  <1>2. r.id \notin JobIds(v.jobs) BY <1>1
  <1>3. PICK g \in net : g.here /\ g.op = "generate" /\ g.st = "ok" /\ g.ans = r BY <1>1, <1>2 DEF Covers
  <1>4. g \in R BY <1>1, <1>3
  <1>5. f[g] \in T /\ f[g].op = g.op /\ f[g].st = g.st /\ f[g].ans = g.ans /\ (f[g].here <=> g.here) BY <1>4, Onwards
  <1>6. QED BY <1>3, <1>5

\* Requests that are not for a history pass, and answers that are not one.
LEMMA HistoryTrueKept ==
  ASSUME Numbered(net), NEW f, NEW R, R \subseteq net, NEW T, NEW F, Passage(f, R, T, F), NEW v, NEW w, NEW rows, HistoryTrue(net, v, rows),
         \A x \in F : x.here /\ x.op \notin {"first", "history"},
         \A q \in net \ R : q \notin Histories(net),
         \A q \in net \ R : q.here /\ q.op = "generate" /\ q.st = "ok" => q.ans.id \in JobIds(w.jobs),
         JobIds(v.jobs) \subseteq JobIds(w.jobs), w.sel = v.sel, w.history = v.history
  PROVE  HistoryTrue(T, w, rows)
  <1>1. \A x \in T : x \in F \/ \E q \in R : x = f[q] BY DEF Passage, Moved
  <1>2. ASSUME NEW c \in T, ~c.here PROVE w.sel = None /\ \A d \in T : d.here => c.id < d.id
    <2>1. PICK q \in R : c = f[q] /\ ~q.here BY <1>2, Origin
    <2>2. ASSUME NEW d \in T, d.here PROVE c.id < d.id
      <3>1. CASE d \in F BY <2>1, <3>1 DEF Passage, Moved
      <3>2. CASE d \notin F
        <4>1. PICK p \in R : d = f[p] BY <1>1, <3>2
        <4>2. p.here BY <2>2, <4>1 DEF Passage, Intact
        <4>3. q.id < p.id BY <2>1, <4>2 DEF HistoryTrue
        <4>4. QED BY <2>1, <4>1, <4>3 DEF Passage, Moved
      <3>3. QED BY <3>1, <3>2
    <2>3. QED BY <2>1, <2>2 DEF HistoryTrue
  <1>3. \A c \in Histories(T) : \E q \in Histories(net) \cap R : c = f[q] /\ c.st = q.st /\ c.ans = q.ans /\ c.arg = q.arg
    BY Origin DEF Histories
  <1>4. \A q \in Histories(net) : q \in R /\ f[q] \in Histories(T) BY Onwards DEF Histories
  <1>5. ASSUME NEW c \in Histories(T), c.st # "sent" PROVE c.st = "ok" /\ Covers(c.ans, c.arg, T, w, rows)
    <2>1. PICK q \in Histories(net) \cap R : c.st = q.st /\ c.ans = q.ans /\ c.arg = q.arg BY <1>3, <1>5
    <2>2. q.st = "ok" /\ Covers(q.ans, q.arg, net, v, rows) BY <1>5, <2>1 DEF HistoryTrue
    <2>3. Covers(q.ans, q.arg, T, w, rows) BY <2>2, CoversKept
    <2>4. QED BY <2>1, <2>2, <2>3
  <1>6. ASSUME NEW c \in Histories(T), \A d \in Histories(T) : d.id <= c.id PROVE c.arg = w.sel
    <2>1. PICK q \in Histories(net) \cap R : c = f[q] /\ c.arg = q.arg BY <1>3, <1>6
    <2>2. ASSUME NEW p \in Histories(net) PROVE p.id <= q.id
      <3>1. f[p].id <= f[q].id /\ p \in R /\ f[p] \in T /\ f[q] \in T BY <1>4, <1>6, <2>1 DEF Histories
      <3>2. f[p].id \in Nat /\ f[q].id \in Nat BY <3>1, Places DEF Passage
      <3>3. p.id \in Nat /\ q.id \in Nat BY Places DEF Histories
      <3>4. ~(f[q].id < f[p].id) BY <3>1, <3>2
      <3>5. ~(q.id < p.id) BY <3>1, <3>4 DEF Passage, Moved
      <3>6. QED BY <3>3, <3>5
    <2>3. QED BY <2>1, <2>2 DEF HistoryTrue
  <1>7. ASSUME w.sel # None, Histories(T) = {} PROVE Covers(w.history, w.sel, T, w, rows)
    <2>1. Histories(net) = {} BY <1>4, <1>7
    <2>2. Covers(v.history, v.sel, net, v, rows) BY <1>7, <2>1 DEF HistoryTrue
    <2>3. QED BY <2>2, CoversKept
  <1>8. QED BY <1>2, <1>5, <1>6, <1>7 DEF HistoryTrue

\* A history is chosen, and asked for.
LEMMA HistoryChosen ==
  ASSUME Numbered(net), NEW f, NEW R, R \subseteq net, NEW T, NEW F, Passage(f, R, T, F), NEW v, NEW w, NEW rows, HistoryTrue(net, v, rows),
         \A x \in F : x.here /\ x.op \in {"first", "history"} /\ x.arg = w.sel, F # {},
         \A q \in R : q.here,
         \A q \in net \ R : q.op # "generate",
         w.jobs = v.jobs
  PROVE  HistoryTrue(T, w, rows)
  <1>1. \A x \in T : x.here BY Origin
  <1>2. ASSUME NEW c \in Histories(T), c.st # "sent" PROVE c.st = "ok" /\ Covers(c.ans, c.arg, T, w, rows)
    <2>1. c \in T BY DEF Histories
    <2>2. PICK q \in R : c.op = q.op /\ c.st = q.st /\ c.ans = q.ans /\ c.arg = q.arg BY <1>2, <2>1, Origin
    <2>3. q \in Histories(net) BY <2>2 DEF Histories
    <2>4. q.st = "ok" /\ Covers(q.ans, q.arg, net, v, rows) BY <1>2, <2>2, <2>3 DEF HistoryTrue
    <2>5. Covers(q.ans, q.arg, T, w, rows) BY <2>4, CoversKept
    <2>6. QED BY <2>2, <2>4, <2>5
  <1>3. F \subseteq Histories(T) BY DEF Passage, Moved, Histories
  <1>4. ASSUME NEW c \in Histories(T), \A d \in Histories(T) : d.id <= c.id PROVE c.arg = w.sel
    <2>1. CASE c \in F BY <2>1
    <2>2. CASE c \notin F
      <3>1. PICK x \in F : TRUE OBVIOUS
      <3>2. PICK q \in R : c = f[q] BY <2>2 DEF Passage, Moved, Histories
      <3>3. c.id < x.id BY <3>2 DEF Passage, Moved
      <3>4. x.id <= c.id BY <1>3, <1>4
      <3>5. x.id \in Nat /\ c.id \in Nat BY <1>3, Places DEF Passage, Histories
      <3>6. QED BY <3>3, <3>4, <3>5
    <2>3. QED BY <2>1, <2>2
  <1>5. QED BY <1>1, <1>2, <1>3, <1>4 DEF HistoryTrue

\* A history comes in.
LEMMA HistoryComes ==
  ASSUME Numbered(net), NEW c \in Histories(net), c.id = 1, c.st # "sent", NEW f, NEW T, Passage(f, net \ {c}, T, {}),
         NEW v, NEW w, NEW rows, HistoryTrue(net, v, rows), w.jobs = v.jobs, w.sel = v.sel, w.history = c.ans
  PROVE  HistoryTrue(T, w, rows)
  <1>1. c \in net /\ c.here /\ c.op # "generate" BY DEF Histories
  <1>2. \A x \in T : x.here
    <2>1. SUFFICES ASSUME NEW x \in T, ~x.here PROVE FALSE OBVIOUS
    <2>2. PICK q \in net \ {c} : ~q.here BY <2>1, Origin
    <2>3. q.id < 1 BY <1>1, <2>2 DEF HistoryTrue
    <2>4. QED BY <2>3, Places
  <1>3. ASSUME NEW x \in Histories(T), x.st # "sent" PROVE x.st = "ok" /\ Covers(x.ans, x.arg, T, w, rows)
    <2>1. x \in T BY DEF Histories
    <2>2. PICK q \in net \ {c} : x.op = q.op /\ x.st = q.st /\ x.ans = q.ans /\ x.arg = q.arg /\ (x.here <=> q.here)
      BY <2>1, Origin
    <2>3. q \in Histories(net) BY <2>2 DEF Histories
    <2>4. q.st = "ok" /\ Covers(q.ans, q.arg, net, v, rows) BY <1>3, <2>2, <2>3 DEF HistoryTrue
    <2>5. Covers(q.ans, q.arg, T, w, rows) BY <1>1, <2>4, CoversKept
    <2>6. QED BY <2>2, <2>4, <2>5
  <1>4. \A q \in Histories(net) \ {c} : f[q] \in Histories(T) BY Onwards DEF Histories
  <1>5. ASSUME NEW x \in Histories(T), \A d \in Histories(T) : d.id <= x.id PROVE x.arg = w.sel
    <2>1. x \in T /\ x.here /\ x.op \in {"first", "history"} BY DEF Histories
    <2>2. PICK q \in net \ {c} : x = f[q] /\ x.op = q.op /\ x.arg = q.arg /\ (x.here <=> q.here) BY <2>1, Origin
    <2>3. q \in Histories(net) BY <2>1, <2>2 DEF Histories
    <2>4. ASSUME NEW p \in Histories(net) PROVE p.id <= q.id
      <3>1. p.id \in Nat /\ q.id \in Nat /\ q.id >= 1 BY Places DEF Histories
      <3>2. CASE p = c BY <3>1, <3>2
      <3>3. CASE p # c
        <4>1. f[p].id <= f[q].id /\ f[p] \in T /\ f[q] \in T /\ p \in net \ {c}
          BY <1>4, <1>5, <2>2, <3>3 DEF Histories
        <4>2. f[p].id \in Nat /\ f[q].id \in Nat BY <4>1, Places DEF Passage
        <4>3. ~(f[q].id < f[p].id) BY <4>1, <4>2
        <4>4. ~(q.id < p.id) BY <4>1, <4>3 DEF Passage, Moved
        <4>5. QED BY <3>1, <4>4
      <3>4. QED BY <3>2, <3>3
    <2>5. QED BY <2>2, <2>3, <2>4 DEF HistoryTrue
  <1>6. ASSUME w.sel # None, Histories(T) = {} PROVE Covers(w.history, w.sel, T, w, rows)
    <2>1. Histories(net) = {c} BY <1>4, <1>6
    <2>2. c.id \in Nat BY <1>1, Places
    <2>3. c.arg = v.sel BY <2>1, <2>2 DEF HistoryTrue
    <2>4. Covers(c.ans, c.arg, net, v, rows) BY DEF HistoryTrue
    <2>5. QED BY <1>1, <2>3, <2>4, CoversKept
  <1>7. QED BY <1>2, <1>3, <1>5, <1>6 DEF HistoryTrue

-----------------------------------------------------------------------------
(* Reports: the steps. *)

LEMMA ToldOnceLess == ASSUME NEW jobs, NEW d, ToldOnce(net, jobs, d), NEW R, R \subseteq net PROVE ToldOnce(R, jobs, d)
  BY DEF ToldOnce
\* What holds whatever the page shows.
ReportsBase == /\ IsReportDb(db) /\ lost \in Nat
        /\ Numbered(net) /\ (~mixed => Ordered(net))
        /\ KnownReports(net, ListedJobs, db) /\ (~db.crossed => ToldOnce(net, ListedJobs, db))
LEMMA ReportsBaseKept ==
  ASSUME ReportsInv, NEW f, NEW R, R \subseteq net, NEW F, Passage(f, R, net', F), ~mixed' => ~mixed, lost' = lost, db' = db,
         \A x \in F : x.op # "poll", KnownReports(net, ListedJobs', db), ~db.crossed => ToldOnce(R, ListedJobs', db)
  PROVE  ReportsBase'
  <1>1. PICK T : T = net' OBVIOUS
  <1>2. Passage(f, R, T, F) /\ Numbered(T) BY <1>1 DEF Passage
  <1>3. ASSUME ~mixed' PROVE Ordered(T)
    <2>1. Numbered(net) /\ Ordered(net) BY <1>3 DEF ReportsInv
    <2>2. QED BY <1>2, <2>1, PassOrdered
  <1>4. PICK jobs : jobs = ListedJobs' OBVIOUS
  <1>5. KnownReports(T, jobs, db) BY <1>2, <1>4, KnownReportsKept DEF Polite
  <1>6. ASSUME ~db.crossed PROVE ToldOnce(T, jobs, db)
    <2>1. ToldOnce(R, jobs, db) BY <1>4, <1>6
    <2>2. QED BY <1>2, <2>1, ToldOnceKept
  <1>7. IsReportDb(db) /\ lost \in Nat BY DEF ReportsInv
  <1>8. QED BY <1>1, <1>2, <1>3, <1>4, <1>5, <1>6, <1>7 DEF ReportsBase
LEMMA ReportsBaseSame ==
  ASSUME ReportsInv, NEW f, NEW R, R \subseteq net, NEW F, Passage(f, R, net', F), ~mixed' => ~mixed, lost' = lost, db' = db,
         \A x \in F : x.op # "poll", ListedJobs' = ListedJobs
  PROVE  ReportsBase'
  <1>1. KnownReports(net, ListedJobs', db) BY DEF ReportsInv
  <1>2. ~db.crossed => ToldOnce(R, ListedJobs', db) BY ToldOnceLess DEF ReportsInv
  <1>3. QED BY <1>1, <1>2, ReportsBaseKept

\* The page changes nothing the history depends on.
LEMMA ReportsPageKept ==
  ASSUME ReportsInv, page = "reports", page' = page, NEW f, NEW R, R \subseteq net, NEW F, Passage(f, R, net', F),
         ~mixed' => ~mixed, lost' = lost, db' = db,
         \A x \in F : x.op # "poll", ~mixed' => \A x \in F : x.here /\ x.op \notin {"first", "history"},
         ~mixed' => \A q \in net \ R : q \notin Histories(net) /\ ~(q.here /\ q.op = "generate"),
         view'.jobs = view.jobs, view'.sel = view.sel, view'.history = view.history,
         IsReportView(view'), ReportsBusy(net', view')
  PROVE  ReportsInv'
  <1>1. ListedJobs' = ListedJobs BY DEF ListedJobs
  <1>2. ReportsBase' BY <1>1, ReportsBaseSame
  <1>3. ASSUME ~mixed', lost' = 0 PROVE HistoryTrue(net, view, db.rows)'
    <2>1. PICK T, w : T = net' /\ w = view' OBVIOUS
    <2>2. Numbered(net) /\ HistoryTrue(net, view, db.rows) BY <1>3 DEF ReportsInv, ReportsMounted
    <2>3. HistoryTrue(T, w, db.rows)
      <3>1. Passage(f, R, T, F) /\ \A x \in F : x.here /\ x.op \notin {"first", "history"} BY <1>3, <2>1
      <3>2. \A q \in net \ R : q \notin Histories(net) BY <1>3
      <3>3. \A q \in net \ R : q.here /\ q.op = "generate" /\ q.st = "ok" => q.ans.id \in JobIds(w.jobs) BY <1>3
      <3>4. w.jobs = view.jobs /\ w.sel = view.sel /\ w.history = view.history BY <2>1
      <3>5. JobIds(view.jobs) \subseteq JobIds(w.jobs) BY <3>4
      <3>6. QED BY <2>2, <3>1, <3>2, <3>3, <3>4, <3>5, HistoryTrueKept
    <2>4. QED BY <2>1, <2>3
  <1>4. ReportsMounted(net, view, db)' BY <1>3 DEF ReportsMounted
  <1>5. QED BY <1>2, <1>4 DEF ReportsInv, ReportsBase

\* An answer for a page left behind.
LEMMA ReportsOrphanStep ==
  ASSUME ReportsInv, NEW c \in net, ~c.here, NEW f, NEW F, Passage(f, net \ {c}, net', F), ~mixed' => ~mixed /\ F = {}, lost' = lost,
         db' = db, page' = page, view' = view, \A x \in F : x.op # "poll" /\ ~x.here
  PROVE  ReportsInv'
  <1>1. CASE page = "reports"
    <2>1. IsReportView(view') /\ ReportsBusy(net, view) BY <1>1 DEF ReportsInv, ReportsMounted
    <2>2. \A q \in net : q.here => f[q] \in net' /\ f[q].here /\ f[q].op = q.op BY Onwards
    <2>3. ReportsBusy(net', view') BY <2>1, <2>2 DEF ReportsBusy
    <2>4. QED BY <1>1, <2>1, <2>3, ReportsPageKept DEF Histories
  <1>2. CASE page = "away"
    <2>1. ListedJobs' = ListedJobs BY <1>2 DEF ListedJobs
    <2>2. ReportsBase' BY <2>1, ReportsBaseSame
    <2>3. \A x \in net' : ~x.here BY <1>2, Origin DEF ReportsInv
    <2>4. QED BY <1>2, <2>2, <2>3 DEF ReportsInv, ReportsBase
  <1>3. QED BY <1>1, <1>2 DEF ReportsInv
LEMMA ReportsOrphanResumes == ASSUME ReportsInv, NEW c \in net, ~c.here, NEW w, Reports!Resume(c, w) PROVE ReportsInv'
  <1>1. Numbered(net) BY DEF ReportsInv
  <1>2. PICK f : Passage(f, net \ {c}, Reports!Without(c), {}) BY <1>1, ReportsResume
  <1>3. /\ net' = Reports!Without(c) /\ db' = db /\ page' = page /\ view' = view /\ lost' = lost
        /\ ~mixed' => ~mixed
    BY DEF Reports!Resume, Reports!Answered, Reports!AnsweredWith
  <1>4. QED BY <1>2, <1>3, ReportsOrphanStep
LEMMA ReportsOrphanAsks == ASSUME ReportsInv, NEW c \in net, ~c.here, NEW op, NEW arg, NEW w, op # "poll", Reports!ResumeAsk(c, op, arg, w)
  PROVE ReportsInv'
  <1>1. PICK asks : asks = << <<op, arg>> >> OBVIOUS
  <1>2. DOMAIN asks = 1..1 /\ asks[1][1] = op BY <1>1
  <1>3. PICK T : T = Reports!Without(c) \cup {[r EXCEPT !.here = c.here] : r \in Reports!Send(Reports!Without(c), asks) \ Reports!Without(c)} OBVIOUS
  <1>4. /\ net' = T /\ db' = db /\ page' = page /\ view' = view /\ lost' = lost
        /\ mixed' = (mixed \/ c.id > 1 \/ (~c.here /\ T # Reports!Without(c)))
    BY <1>1, <1>3 DEF Reports!ResumeAsk, Reports!ResumeAsks, Reports!Answered, Reports!AnsweredWith
  <1>5. Numbered(net) BY DEF ReportsInv
  <1>6. T # Reports!Without(c) /\ \E f, F : Passage(f, net \ {c}, T, F) /\ Asking(F, asks, c.here)
    <2>1. PICK n \in Nat : n = 1 OBVIOUS
    <2>2. DOMAIN asks = 1..n /\ n > 0 BY <1>2, <2>1
    <2>3. QED BY <1>3, <1>5, <2>2, ReportsAsks
  <1>7. PICK f, F : Passage(f, net \ {c}, T, F) /\ Asking(F, asks, c.here) BY <1>6
  <1>8. \A x \in F : x.op # "poll" /\ ~x.here BY <1>2, <1>7 DEF Asking
  <1>9. QED BY <1>4, <1>6, <1>7, <1>8, ReportsOrphanStep

LEMMA AsksOne ==
  ASSUME Numbered(net), NEW c \in net, c.here, NEW op, NEW arg, NEW w, Reports!ResumeAsk(c, op, arg, w)
  PROVE  /\ \E f, F : Passage(f, net \ {c}, net', F) /\ F # {} /\ \A x \in F : x.here /\ x.op = op /\ x.arg = arg
         /\ view' = w /\ db' = db /\ page' = page /\ lost' = lost /\ (~mixed' => ~mixed /\ ~(c.id > 1))
  <1>1. PICK asks : asks = << <<op, arg>> >> OBVIOUS
  <1>2. PICK n \in Nat : n = 1 OBVIOUS
  <1>3. DOMAIN asks = 1..n /\ asks[1] = <<op, arg>> BY <1>1, <1>2
  <1>4. PICK T : T = Reports!Without(c) \cup {[r EXCEPT !.here = c.here] : r \in Reports!Send(Reports!Without(c), asks) \ Reports!Without(c)} OBVIOUS
  <1>5. /\ net' = T /\ db' = db /\ page' = page /\ view' = w /\ lost' = lost
        /\ ~mixed' => ~mixed /\ ~(c.id > 1)
    BY <1>1, <1>4 DEF Reports!ResumeAsk, Reports!ResumeAsks, Reports!Answered, Reports!AnsweredWith
  <1>6. PICK f, F : Passage(f, net \ {c}, T, F) /\ Asking(F, asks, c.here) BY <1>3, <1>4, ReportsAsks
  <1>7. 1 \in DOMAIN asks /\ \A i \in DOMAIN asks : i = 1 BY <1>2, <1>3
  <1>8. F # {} /\ \A x \in F : x.here /\ x.op = op /\ x.arg = arg BY <1>3, <1>6, <1>7 DEF Asking
  <1>9. QED BY <1>5, <1>6, <1>8

\* The gestures that change the form only.
LEMMA FormKept == ASSUME ReportsInv, Reports!ChooseType \/ Reports!ToggleSection PROVE ReportsInv'
  <1>1. Numbered(net) /\ page = "reports" /\ IsReportView(view) /\ ReportsBusy(net, view)
    BY DEF ReportsInv, ReportsMounted, Reports!ChooseType, Reports!ToggleSection, Reports!Here
  <1>2. PICK t, s : view' = [view EXCEPT !.type = t, !.sections = s]
    <2>1. CASE Reports!ChooseType
      <3>1. PICK t : t = IF view.type = "custom" THEN "full_plan" ELSE "custom" OBVIOUS
      <3>2. view' = [view EXCEPT !.type = t] BY <2>1, <3>1 DEF Reports!ChooseType, Reports!Local
      <3>3. view' = [view EXCEPT !.type = t, !.sections = view.sections] BY <1>1, <3>2 DEF IsReportView
      <3>4. QED BY <3>3
    <2>2. CASE Reports!ToggleSection
      <3>1. PICK s : s = ~view.sections OBVIOUS
      <3>2. view' = [view EXCEPT !.sections = s] BY <2>2, <3>1 DEF Reports!ToggleSection, Reports!Local
      <3>3. view' = [view EXCEPT !.type = view.type, !.sections = s] BY <1>1, <3>2 DEF IsReportView
      <3>4. QED BY <3>3
    <2>3. QED BY <2>1, <2>2
  <1>3. view' = [loading |-> view.loading, plans |-> view.plans, sel |-> view.sel, history |-> view.history, type |-> t,
                 sections |-> s, generating |-> view.generating, jobs |-> view.jobs, download |-> view.download]
    BY <1>1, <1>2 DEF IsReportView
  <1>4. IsReportView(view') /\ ReportsBusy(net, view') BY <1>1, <1>3 DEF IsReportView, ReportsBusy
  <1>5. net' = net /\ page' = page /\ db' = db /\ lost' = lost /\ mixed' = mixed BY DEF Reports!ChooseType, Reports!ToggleSection, Reports!Local
  <1>6. PICK f : Passage(f, net, net, {}) BY <1>1, PassStill
  <1>7. QED BY <1>1, <1>3, <1>4, <1>5, <1>6, ReportsPageKept

\* A report is asked for, or a file.
LEMMA GenerateKept == ASSUME ReportsInv, Reports!Generate PROVE ReportsInv'
  <1>1. Numbered(net) /\ page = "reports" /\ IsReportView(view) /\ ReportsBusy(net, view)
    BY DEF ReportsInv, ReportsMounted, Reports!Generate, Reports!Here
  <1>2. PICK g : g = TRUE OBVIOUS
  <1>3. /\ view' = [view EXCEPT !.generating = g] /\ net' = Reports!Send(net, << <<"generate", view.sel>> >>)
        /\ page' = page /\ db' = db /\ lost' = lost /\ mixed' = mixed
    BY <1>2 DEF Reports!Generate, Reports!Ask, Reports!Asks
  <1>4. view' = [loading |-> view.loading, plans |-> view.plans, sel |-> view.sel, history |-> view.history, type |-> view.type,
                 sections |-> view.sections, generating |-> g, jobs |-> view.jobs, download |-> view.download]
    BY <1>1, <1>3 DEF IsReportView
  <1>5. PICK f, F : Passage(f, net, net', F) /\ F # {} /\ \A x \in F : x.here /\ x.op = "generate" BY <1>1, <1>3, ReportsOne
  <1>6. IsReportView(view') BY <1>1, <1>4 DEF IsReportView
  <1>7. ReportsBusy(net', view')
    <2>1. \A q \in net : f[q] \in net' /\ (f[q].here <=> q.here) /\ f[q].op = q.op BY <1>5, Onwards
    <2>2. F \subseteq net' BY <1>5 DEF Passage, Moved
    <2>3. QED BY <1>1, <1>4, <1>5, <2>1, <2>2 DEF ReportsBusy
  <1>8. QED BY <1>1, <1>3, <1>4, <1>5, <1>6, <1>7, ReportsPageKept
LEMMA DownloadKept == ASSUME ReportsInv, Reports!Download PROVE ReportsInv'
  <1>1. Numbered(net) /\ page = "reports" /\ IsReportView(view) /\ ReportsBusy(net, view)
    BY DEF ReportsInv, ReportsMounted, Reports!Download, Reports!Here
  <1>3. PICK i : /\ view' = [view EXCEPT !.download = i] /\ net' = Reports!Send(net, << <<"download", i>> >>)
                 /\ page' = page /\ db' = db /\ lost' = lost /\ mixed' = mixed
    BY DEF Reports!Download, Reports!Ask, Reports!Asks
  <1>4. view' = [loading |-> view.loading, plans |-> view.plans, sel |-> view.sel, history |-> view.history, type |-> view.type,
                 sections |-> view.sections, generating |-> view.generating, jobs |-> view.jobs, download |-> i]
    BY <1>1, <1>3 DEF IsReportView
  <1>5. PICK f, F : Passage(f, net, net', F) /\ F # {} /\ \A x \in F : x.here /\ x.op = "download" BY <1>1, <1>3, ReportsOne
  <1>6. IsReportView(view') BY <1>1, <1>4 DEF IsReportView
  <1>7. ReportsBusy(net', view')
    <2>1. \A q \in net : f[q] \in net' /\ (f[q].here <=> q.here) /\ f[q].op = q.op BY <1>5, Onwards
    <2>2. F \subseteq net' BY <1>5 DEF Passage, Moved
    <2>3. QED BY <1>1, <1>4, <1>5, <2>1, <2>2 DEF ReportsBusy
  <1>8. QED BY <1>1, <1>3, <1>4, <1>5, <1>6, <1>7, ReportsPageKept

\* An answer for the page, after which nothing more is sent.
LEMMA ResumesHere ==
  ASSUME ReportsInv, NEW c \in net, c.here, NEW w, Reports!Resume(c, w)
  PROVE  /\ page = "reports" /\ IsReportView(view) /\ ReportsBusy(net, view) /\ view' = w /\ c.st # "sent"
         /\ \E f : Passage(f, net \ {c}, net', {})
         /\ db' = db /\ page' = page /\ lost' = lost /\ (~mixed' => ~mixed /\ c.id = 1)
  <1>1. Numbered(net) BY DEF ReportsInv
  <1>2. PICK f : Passage(f, net \ {c}, Reports!Without(c), {}) BY <1>1, ReportsResume
  <1>3. /\ net' = Reports!Without(c) /\ db' = db /\ page' = page /\ view' = w /\ lost' = lost /\ c.st # "sent"
        /\ ~mixed' => ~mixed /\ ~(c.id > 1)
    BY DEF Reports!Resume, Reports!Answered, Reports!AnsweredWith
  <1>4. c.id \in Nat /\ c.id >= 1 BY <1>1, Places
  <1>5. page = "reports" /\ IsReportView(view) /\ ReportsBusy(net, view) BY DEF ReportsInv, ReportsMounted
  <1>6. QED BY <1>2, <1>3, <1>4, <1>5
LEMMA DownloadedKept == ASSUME ReportsInv, Reports!Downloaded PROVE ReportsInv'
  <1>1. PICK c \in net : c.op = "download" /\ Reports!Resume(c, [view EXCEPT !.download = None]) BY DEF Reports!Downloaded, Reports!Waiting
  <1>2. CASE ~c.here BY <1>1, <1>2, ReportsOrphanResumes
  <1>3. CASE c.here
    <2>1. /\ page = "reports" /\ IsReportView(view) /\ ReportsBusy(net, view) /\ view' = [view EXCEPT !.download = None]
          /\ \E f : Passage(f, net \ {c}, net', {})
          /\ db' = db /\ page' = page /\ lost' = lost /\ (~mixed' => ~mixed)
      BY <1>1, <1>3, ResumesHere
    <2>2. PICK f : Passage(f, net \ {c}, net', {}) BY <2>1
    <2>3. view' = [loading |-> view.loading, plans |-> view.plans, sel |-> view.sel, history |-> view.history, type |-> view.type,
                   sections |-> view.sections, generating |-> view.generating, jobs |-> view.jobs, download |-> None]
      BY <2>1 DEF IsReportView
    <2>4. IsReportView(view') BY <2>1, <2>3 DEF IsReportView
    <2>5. \A q \in net : q.op # "download" => f[q] \in net' /\ (f[q].here <=> q.here) /\ f[q].op = q.op
      BY <1>1, <2>2, Onwards
    <2>6. ReportsBusy(net', view') BY <2>1, <2>3, <2>5 DEF ReportsBusy
    <2>7. \A q \in net \ (net \ {c}) : q = c OBVIOUS
    <2>8. QED BY <1>1, <2>1, <2>2, <2>3, <2>4, <2>6, <2>7, ReportsPageKept DEF Histories
  <1>4. QED BY <1>2, <1>3

\* A plan is selected and its history asked for.
LEMMA ChosenKept ==
  ASSUME ReportsInv, page = "reports", page' = page, NEW f, NEW R, R \subseteq net, NEW F, Passage(f, R, net', F), F # {},
         ~mixed' => ~mixed, lost' = lost, db' = db,
         \A x \in F : x.here /\ x.op \in {"first", "history"} /\ x.arg = view'.sel,
         ~mixed' /\ lost' = 0 => \A q \in R : q.here, \A q \in net \ R : q.op # "generate",
         view'.jobs = view.jobs, IsReportView(view'), ReportsBusy(net', view')
  PROVE  ReportsInv'
  <1>1. ListedJobs' = ListedJobs BY DEF ListedJobs
  <1>2. ReportsBase' BY <1>1, ReportsBaseSame
  <1>3. ASSUME ~mixed', lost' = 0 PROVE HistoryTrue(net, view, db.rows)'
    <2>1. PICK T, w : T = net' /\ w = view' OBVIOUS
    <2>2. Numbered(net) /\ HistoryTrue(net, view, db.rows) BY <1>3 DEF ReportsInv, ReportsMounted
    <2>3. Passage(f, R, T, F) /\ (\A q \in R : q.here) /\ w.jobs = view.jobs BY <1>3, <2>1
    <2>4. \A x \in F : x.here /\ x.op \in {"first", "history"} /\ x.arg = w.sel BY <2>1
    <2>5. HistoryTrue(T, w, db.rows) BY <2>2, <2>3, <2>4, HistoryChosen
    <2>6. QED BY <2>1, <2>5
  <1>4. ReportsMounted(net, view, db)' BY <1>3 DEF ReportsMounted
  <1>5. QED BY <1>2, <1>4 DEF ReportsInv, ReportsBase
LEMMA ChoosePlanKept == ASSUME None \notin Nat, ReportsInv, Reports!ChoosePlan PROVE ReportsInv'
  <1>1. Numbered(net) /\ page = "reports" /\ IsReportView(view) /\ ReportsBusy(net, view)
    BY DEF ReportsInv, ReportsMounted, Reports!ChoosePlan, Reports!Here
  <1>2. PICK p : /\ p \in view.plans /\ view' = [view EXCEPT !.sel = p] /\ net' = Reports!Send(net, << <<"history", p>> >>)
                 /\ page' = page /\ db' = db /\ lost' = lost /\ mixed' = mixed
    BY DEF Reports!ChoosePlan, Reports!Ask, Reports!Asks
  <1>3. view' = [loading |-> view.loading, plans |-> view.plans, sel |-> p, history |-> view.history, type |-> view.type,
                 sections |-> view.sections, generating |-> view.generating, jobs |-> view.jobs, download |-> view.download]
    BY <1>1, <1>2 DEF IsReportView
  <1>4. PICK f, F : Passage(f, net, net', F) /\ F # {} /\ \A x \in F : x.here /\ x.op = "history" /\ x.arg = p
    BY <1>1, <1>2, ReportsOne
  <1>5. view.sel # None BY <1>1, <1>2 DEF IsReportView
  <1>6. ~mixed' /\ lost' = 0 => \A q \in net : q.here
    <2>1. ~mixed' /\ lost' = 0 => HistoryTrue(net, view, db.rows) BY <1>1, <1>2 DEF ReportsInv, ReportsMounted
    <2>2. QED BY <1>5, <2>1 DEF HistoryTrue
  <1>7. IsReportView(view') BY <1>1, <1>2, <1>3 DEF IsReportView
  <1>8. QED
    <2>1. \A q \in net : f[q] \in net' /\ (f[q].here <=> q.here) /\ f[q].op = q.op BY <1>4, Onwards
    <2>2. ReportsBusy(net', view') BY <1>1, <1>3, <2>1 DEF ReportsBusy
    <2>3. QED BY <1>1, <1>2, <1>3, <1>4, <1>6, <1>7, <2>2, ChosenKept

\* The plans come in: the first of them is selected.
LEMMA LeastIs == ASSUME NEW s, s \subseteq {1, 2, 3} \ {3}, s # {} PROVE Reports!Least(s) \in s
  <1>1. \E p \in s : \A q \in s : p <= q
    <2>1. CASE 1 \in s BY <2>1
    <2>2. CASE 1 \notin s /\ 2 \in s BY <2>2
    <2>3. QED BY <2>1, <2>2
  <1>2. QED BY <1>1 DEF Reports!Least
LEMMA PlansLoadedKept == ASSUME None \notin Nat, ReportsInv, Reports!PlansLoaded PROVE ReportsInv'
  <1>1. PICK c \in net : c.op = "plans" /\ c.st # "sent" /\
          IF c.st # "ok" THEN Reports!Resume(c, [view EXCEPT !.loading = FALSE])
          ELSE IF c.ans \ {Reports!Archived} = {} THEN Reports!Resume(c, [[view EXCEPT !.plans = c.ans \ {Reports!Archived}] EXCEPT !.loading = FALSE])
          ELSE Reports!ResumeAsk(c, "first", Reports!Least(c.ans \ {Reports!Archived}),
                         [[view EXCEPT !.plans = c.ans \ {Reports!Archived}] EXCEPT !.sel = Reports!Least(c.ans \ {Reports!Archived})])
    BY DEF Reports!PlansLoaded, Reports!Waiting
  <1>2. CASE ~c.here
    <2>1. (\E w : Reports!Resume(c, w)) \/ (\E arg, w : Reports!ResumeAsk(c, "first", arg, w)) BY <1>1
    <2>2. QED BY <1>2, <2>1, ReportsOrphanResumes, ReportsOrphanAsks
  <1>3. PICK s : s = c.ans \ {Reports!Archived} OBVIOUS
  <1>4. c.st = "ok" => s \subseteq {1, 2, 3} \ {3} BY <1>1, <1>3 DEF ReportsInv, KnownReports, Reports!Archived
  <1>5. CASE c.here /\ ~(c.st = "ok" /\ s # {})
    <2>1. PICK z : z = FALSE OBVIOUS
    <2>2. PICK w : (w = [view EXCEPT !.loading = z] \/ (w = [view EXCEPT !.plans = s, !.loading = z] /\ s = {})) /\ Reports!Resume(c, w)
      BY <1>1, <1>3, <1>5, <2>1
    <2>3. /\ page = "reports" /\ IsReportView(view) /\ ReportsBusy(net, view) /\ view' = w
          /\ \E f : Passage(f, net \ {c}, net', {})
          /\ db' = db /\ page' = page /\ lost' = lost /\ (~mixed' => ~mixed)
      BY <1>5, <2>2, ResumesHere
    <2>4. PICK f : Passage(f, net \ {c}, net', {}) BY <2>3
    <2>5. PICK p : (p = view.plans \/ p = {}) /\
                   view' = [loading |-> z, plans |-> p, sel |-> view.sel, history |-> view.history, type |-> view.type,
                   sections |-> view.sections, generating |-> view.generating, jobs |-> view.jobs, download |-> view.download]
      BY <2>2, <2>3 DEF IsReportView
    <2>6. IsReportView(view') BY <2>3, <2>5 DEF IsReportView
    <2>7. \A q \in net : q.op # "plans" => f[q] \in net' /\ (f[q].here <=> q.here) /\ f[q].op = q.op
      BY <1>1, <2>4, Onwards
    <2>8. ReportsBusy(net', view') BY <2>1, <2>3, <2>5, <2>7 DEF ReportsBusy
    <2>9. \A q \in net \ (net \ {c}) : q = c OBVIOUS
    <2>10. QED BY <1>1, <2>3, <2>4, <2>5, <2>6, <2>8, <2>9, ReportsPageKept DEF Histories
  <1>6. CASE c.here /\ c.st = "ok" /\ s # {}
    <2>1. PICK l : l = Reports!Least(s) OBVIOUS
    <2>2. l \in s BY <1>4, <1>6, <2>1, LeastIs
    <2>3. Reports!ResumeAsk(c, "first", l, [[view EXCEPT !.plans = s] EXCEPT !.sel = l]) BY <1>1, <1>3, <1>6, <2>1
    <2>4. Numbered(net) /\ page = "reports" /\ IsReportView(view) /\ ReportsBusy(net, view)
      BY <1>6 DEF ReportsInv, ReportsMounted
    <2>w. PICK w : w = [[view EXCEPT !.plans = s] EXCEPT !.sel = l] OBVIOUS
    <2>r. Reports!ResumeAsk(c, "first", l, w) BY <2>3, <2>w
    <2>a. /\ \E f, F : Passage(f, net \ {c}, net', F) /\ F # {} /\ \A x \in F : x.here /\ x.op = "first" /\ x.arg = l
          /\ view' = w /\ db' = db /\ page' = page /\ lost' = lost /\ (~mixed' => ~mixed /\ ~(c.id > 1))
      <3>1. PICK op : op = "first" OBVIOUS
      <3>2. Reports!ResumeAsk(c, op, l, w) /\ c.here /\ Numbered(net) BY <1>6, <2>4, <2>r, <3>1
      <3>3. /\ \E f, F : Passage(f, net \ {c}, net', F) /\ F # {} /\ \A x \in F : x.here /\ x.op = op /\ x.arg = l
            /\ view' = w /\ db' = db /\ page' = page /\ lost' = lost /\ (~mixed' => ~mixed /\ ~(c.id > 1))
        BY ONLY c \in net, <3>2, AsksOne
      <3>4. QED BY <3>1, <3>3
    <2>5. PICK f, F : /\ Passage(f, net \ {c}, net', F) /\ F # {} /\ \A x \in F : x.here /\ x.op = "first" /\ x.arg = l
                      /\ view' = [[view EXCEPT !.plans = s] EXCEPT !.sel = l]
                      /\ db' = db /\ page' = page /\ lost' = lost /\ (~mixed' => ~mixed /\ ~(c.id > 1))
      BY <2>w, <2>a
    <2>6. view' = [loading |-> view.loading, plans |-> s, sel |-> l, history |-> view.history, type |-> view.type,
                   sections |-> view.sections, generating |-> view.generating, jobs |-> view.jobs, download |-> view.download]
      BY <2>4, <2>5 DEF IsReportView
    <2>7. s \subseteq {1, 2, 3} /\ l # None BY <1>4, <1>6, <2>2
    <2>8. IsReportView(view') BY <2>6, <2>7 DEF IsReportView
    <2>9. ReportsBusy(net', view')
      <3>1. \A q \in net : q.op # "plans" => f[q] \in net' /\ (f[q].here <=> q.here) /\ f[q].op = q.op
        BY <1>1, <2>5, Onwards
      <3>2. \E x \in net' : x.here /\ x.op = "first" BY <2>5 DEF Passage, Moved
      <3>3. QED BY <2>4, <2>6, <3>1, <3>2 DEF ReportsBusy
    <2>10. ASSUME ~mixed', lost' = 0, NEW q \in net \ {c} PROVE q.here
      <3>1. HistoryTrue(net, view, db.rows) BY <2>4, <2>5, <2>10 DEF ReportsInv, ReportsMounted
      <3>2. ~q.here => q.id < c.id BY <1>6, <3>1 DEF HistoryTrue
      <3>3. q.id \in Nat /\ q.id >= 1 /\ c.id \in Nat /\ ~(c.id > 1) BY <2>4, <2>5, <2>10, Places
      <3>4. QED BY <3>2, <3>3
    <2>11. \A q \in net \ (net \ {c}) : q.op # "generate" BY <1>1
    <2>12. \A x \in F : x.here /\ x.op \in {"first", "history"} /\ x.arg = view'.sel BY <2>5, <2>6
    <2>13. view'.jobs = view.jobs BY <2>6
    <2>14. QED BY <2>4, <2>5, <2>8, <2>9, <2>10, <2>11, <2>12, <2>13, ChosenKept
  <1>7. QED BY <1>2, <1>5, <1>6

\* A history comes in: nothing failed, or it is not promised.
LEMMA LoadedKept ==
  ASSUME ReportsInv, NEW c \in net, c.here, c.op \in {"first", "history"}, NEW w, Reports!Resume(c, w), w.jobs = view.jobs, w.sel = view.sel,
         c.st = "ok" => w.history = c.ans, IsReportView(w),
         w.loading => view.loading, w.loading => c.op # "first", w.generating <=> view.generating, w.download = view.download
  PROVE  ReportsInv'
  <1>1. /\ page = "reports" /\ IsReportView(view) /\ ReportsBusy(net, view) /\ view' = w /\ c.st # "sent"
        /\ \E f : Passage(f, net \ {c}, net', {})
        /\ db' = db /\ page' = page /\ lost' = lost /\ (~mixed' => ~mixed /\ c.id = 1)
    BY ResumesHere
  <1>2. PICK f : Passage(f, net \ {c}, net', {}) BY <1>1
  <1>3. ListedJobs' = ListedJobs BY <1>1 DEF ListedJobs
  <1>4. ReportsBase' BY <1>1, <1>2, <1>3, ReportsBaseSame
  <1>5. ReportsBusy(net', w)
    <2>1. \A q \in net : q # c => f[q] \in net' /\ (f[q].here <=> q.here) /\ f[q].op = q.op BY <1>2, Onwards
    <2>2. QED BY <1>1, <2>1 DEF ReportsBusy
  <1>6. ASSUME ~mixed', lost' = 0 PROVE HistoryTrue(net', w, db.rows)
    <2>1. PICK T : T = net' OBVIOUS
    <2>2. Numbered(net) /\ HistoryTrue(net, view, db.rows) BY <1>1, <1>6 DEF ReportsInv, ReportsMounted
    <2>3. c \in Histories(net) BY DEF Histories
    <2>4. c.st = "ok" BY <1>1, <2>2, <2>3 DEF HistoryTrue
    <2>5. Passage(f, net \ {c}, T, {}) /\ c.id = 1 BY <1>1, <1>2, <1>6, <2>1
    <2>6. HistoryTrue(T, w, db.rows) BY <1>1, <2>2, <2>3, <2>4, <2>5, HistoryComes
    <2>7. QED BY <2>1, <2>6
  <1>7. ReportsMounted(net, view, db)' BY <1>1, <1>5, <1>6 DEF ReportsMounted
  <1>8. QED BY <1>1, <1>4, <1>7 DEF ReportsInv, ReportsBase
LEMMA HistoryLoadedKept == ASSUME ReportsInv, Reports!HistoryLoaded \/ Reports!FirstHistory PROVE ReportsInv'
  <1>1. PICK c \in net : c.op \in {"first", "history"} /\ \E w : Reports!Resume(c, w)
            /\ \/ c.op = "history" /\ w = Reports!HistoryShown(view, c)
               \/ c.op = "first" /\ w = [view EXCEPT !.loading = FALSE, !.history = IF c.st = "ok" THEN c.ans ELSE @]
    BY DEF Reports!HistoryLoaded, Reports!FirstHistory, Reports!Waiting
  <1>2. CASE ~c.here BY <1>1, <1>2, ReportsOrphanResumes
  <1>3. CASE c.here
    <2>1. IsReportView(view) BY <1>3 DEF ReportsInv, ReportsMounted
    <2>2. PICK z : z = FALSE OBVIOUS
    <2>3. PICK w, h, l : /\ w = [view EXCEPT !.loading = l, !.history = h] /\ Reports!Resume(c, w)
                         /\ c.st = "ok" => h = c.ans
                         /\ l = z \/ (l = view.loading /\ c.op # "first")
      <3>1. CASE c.op = "history"
        <4>1. PICK h : h = IF c.st = "ok" THEN c.ans ELSE {} OBVIOUS
        <4>2. Reports!Resume(c, [view EXCEPT !.history = h]) BY <1>1, <3>1, <4>1 DEF Reports!HistoryShown
        <4>3. [view EXCEPT !.history = h] = [view EXCEPT !.loading = view.loading, !.history = h] BY <2>1 DEF IsReportView
        <4>4. QED BY <3>1, <4>1, <4>2, <4>3
      <3>2. CASE c.op = "first"
        <4>1. PICK h : h = IF c.st = "ok" THEN c.ans ELSE view.history OBVIOUS
        <4>2. Reports!Resume(c, [view EXCEPT !.loading = z, !.history = h]) BY <1>1, <2>2, <3>2, <4>1
        <4>4. QED BY <4>1, <4>2
      <3>3. QED BY <1>1, <3>1, <3>2
    <2>4. w = [loading |-> l, plans |-> view.plans, sel |-> view.sel, history |-> h, type |-> view.type,
               sections |-> view.sections, generating |-> view.generating, jobs |-> view.jobs, download |-> view.download]
      BY <2>1, <2>3 DEF IsReportView
    <2>5. IsReportView(w) BY <2>1, <2>4 DEF IsReportView
    <2>6. QED BY <1>1, <1>3, <2>2, <2>3, <2>4, <2>5, LoadedKept
  <1>4. QED BY <1>2, <1>3

\* A report comes in: it is a job of the page.
LEMMA GeneratedKept == ASSUME ReportsInv, Reports!Generated PROVE ReportsInv'
  <1>1. PICK c \in net : c.op = "generate" /\ c.st # "sent" /\
          LET v == [view EXCEPT !.generating = FALSE]
          IN  Reports!Resume(c, IF c.st = "ok" THEN [v EXCEPT !.jobs = @ \cup {Reports!Job(c.ans)}] ELSE v)
    BY DEF Reports!Generated, Reports!Waiting
  <1>2. CASE ~c.here BY <1>1, <1>2, ReportsOrphanResumes
  <1>3. CASE c.here
    <2>1. PICK z : z = FALSE OBVIOUS
    <2>2. PICK j : j = view.jobs \cup (IF c.st = "ok" THEN {Reports!Job(c.ans)} ELSE {}) OBVIOUS
    <2>3. IsReportView(view) BY <1>3 DEF ReportsInv, ReportsMounted
    <2>4. PICK w : w = [loading |-> view.loading, plans |-> view.plans, sel |-> view.sel, history |-> view.history,
                        type |-> view.type, sections |-> view.sections, generating |-> z, jobs |-> j, download |-> view.download]
      OBVIOUS
    <2>5. Reports!Resume(c, w)
      <3>1. PICK v : v = [view EXCEPT !.generating = z] OBVIOUS
      <3>2. v = [loading |-> view.loading, plans |-> view.plans, sel |-> view.sel, history |-> view.history,
                 type |-> view.type, sections |-> view.sections, generating |-> z, jobs |-> view.jobs, download |-> view.download]
        BY <2>3, <3>1 DEF IsReportView
      <3>3. CASE c.st = "ok"
        <4>1. Reports!Resume(c, [v EXCEPT !.jobs = v.jobs \cup {Reports!Job(c.ans)}]) BY <1>1, <2>1, <3>1, <3>3
        <4>2. v.jobs \cup {Reports!Job(c.ans)} = j BY <2>2, <3>2, <3>3
        <4>3. [v EXCEPT !.jobs = j] = w BY <2>4, <3>2
        <4>4. QED BY <4>1, <4>2, <4>3
      <3>4. CASE c.st # "ok"
        <4>1. Reports!Resume(c, v) BY <1>1, <2>1, <3>1, <3>4
        <4>2. j = view.jobs BY <2>2, <3>4
        <4>3. QED BY <2>4, <3>2, <4>1, <4>2
      <3>5. QED BY <3>3, <3>4
    <2>6. /\ page = "reports" /\ ReportsBusy(net, view) /\ view' = w
          /\ \E f : Passage(f, net \ {c}, net', {})
          /\ db' = db /\ page' = page /\ lost' = lost /\ (~mixed' => ~mixed)
      BY <1>3, <2>5, ResumesHere
    <2>7. PICK f : Passage(f, net \ {c}, net', {}) BY <2>6
    <2>8. ListedJobs = view.jobs /\ ListedJobs' = j BY <2>4, <2>6 DEF ListedJobs
    <2>9. c.st = "ok" => c.ans \in db.rows /\ IsReport(c.ans) /\ c.ans.id \in 1..Cardinality(db.rows)
      BY <1>1 DEF ReportsInv, KnownReports, IsReportDb
    <2>10. c.st = "ok" => Reports!Job(c.ans) = [id |-> c.ans.id, plan |-> c.ans.plan, st |-> "processing"] BY DEF Reports!Job
    <2>11. KnownReports(net, j, db)
      <3>1. KnownReports(net, view.jobs, db) BY <2>8 DEF ReportsInv
      <3>2. \A x \in j : x = [id |-> x.id, plan |-> x.plan, st |-> x.st] /\ x.id \in 1..Cardinality(db.rows)
        BY <2>2, <2>9, <2>10, <3>1 DEF KnownReports
      <3>3. QED BY <3>1, <3>2 DEF KnownReports
    <2>12. ASSUME ~db.crossed PROVE ToldOnce(net \ {c}, j, db)
      <3>1. ToldOnce(net, view.jobs, db) BY <2>8, <2>12 DEF ReportsInv
      <3>2. CASE c.st # "ok"
        <4>1. j = view.jobs BY <2>2, <3>2
        <4>2. QED BY <3>1, <4>1, ToldOnceLess
      <3>3. CASE c.st = "ok"
        <4>1. PICK i : i = c.ans.id OBVIOUS
        <4>2. JobIds(j) = JobIds(view.jobs) \cup {i} BY <2>2, <2>10, <3>3, <4>1 DEF JobIds
        <4>3. i \notin db.told /\ \A p \in net : p.op = "poll" => i \notin PollIds(p) BY <1>1, <3>1, <3>3, <4>1 DEF ToldOnce
        <4>4. \A h \in net : h.op = "generate" /\ h.st = "ok" /\ h.ans.id = i => h = c BY <1>1, <3>1, <3>3, <4>1 DEF ToldOnce
        <4>5. \A x \in j : x.st = "processing" => x.id \notin db.told BY <2>2, <2>10, <3>1, <4>1, <4>3 DEF ToldOnce
        <4>6. \A p \in net \ {c} : p.op = "poll" =>
                /\ p.arg.id \notin p.arg.rest /\ PollIds(p) \cap db.told = {}
                /\ ~p.here => PollIds(p) \cap JobIds(j) = {}
          BY <3>1, <4>2, <4>3 DEF ToldOnce
        <4>7. \A g \in net \ {c} : g.op = "generate" /\ g.st = "ok" =>
                /\ g.ans.id \notin db.told /\ g.ans.id \notin JobIds(j)
                /\ \A p \in net \ {c} : p.op = "poll" => g.ans.id \notin PollIds(p)
                /\ \A h \in net \ {c} : h.op = "generate" /\ h.st = "ok" /\ h.ans.id = g.ans.id => h = g
          BY <3>1, <4>2, <4>4 DEF ToldOnce
        <4>8. QED BY <3>1, <4>5, <4>6, <4>7 DEF ToldOnce
      <3>4. QED BY <3>2, <3>3
    <2>13. ReportsBase' BY <2>6, <2>7, <2>8, <2>11, <2>12, ReportsBaseKept
    <2>14. ASSUME ~mixed', lost' = 0 PROVE HistoryTrue(net', w, db.rows)
      <3>1. PICK T : T = net' OBVIOUS
      <3>2. Numbered(net) /\ HistoryTrue(net, view, db.rows) BY <2>6, <2>14 DEF ReportsInv, ReportsMounted
      <3>3. JobIds(view.jobs) \subseteq JobIds(w.jobs) BY <2>2, <2>4 DEF JobIds
      <3>4. c.st = "ok" => c.ans.id \in JobIds(w.jobs) BY <2>2, <2>4, <2>10 DEF JobIds
      <3>5. \A q \in net \ (net \ {c}) : q = c OBVIOUS
      <3>6. \A q \in net \ (net \ {c}) : q \notin Histories(net) BY <1>1, <3>5 DEF Histories
      <3>7. \A q \in net \ (net \ {c}) : q.here /\ q.op = "generate" /\ q.st = "ok" => q.ans.id \in JobIds(w.jobs)
        BY <3>4, <3>5
      <3>8. w.sel = view.sel /\ w.history = view.history BY <2>4
      <3>9. Passage(f, net \ {c}, T, {}) BY <2>7, <3>1
      <3>10. HistoryTrue(T, w, db.rows) BY <3>2, <3>3, <3>6, <3>7, <3>8, <3>9, HistoryTrueKept
      <3>11. QED BY <3>1, <3>10
    <2>15. IsReportView(w) BY <2>3, <2>4 DEF IsReportView
    <2>16. ReportsBusy(net', w)
      <3>1. \A q \in net : q.op # "generate" => f[q] \in net' /\ (f[q].here <=> q.here) /\ f[q].op = q.op
        BY <1>1, <2>7, Onwards
      <3>2. QED BY <2>1, <2>4, <2>6, <3>1 DEF ReportsBusy
    <2>17. ReportsMounted(net, view, db)' BY <2>6, <2>14, <2>15, <2>16 DEF ReportsMounted
    <2>18. QED BY <2>6, <2>13, <2>17 DEF ReportsInv, ReportsBase
  <1>4. QED BY <1>2, <1>3

\* What the server answers, and what it stores.
Replies(c, d, st, a) ==
  /\ st \in {"ok", "err"} /\ (lost' = 0 => lost = 0 /\ st = "ok") /\ lost' \in Nat
  /\ IsReportDb(d) /\ d.told = db.told /\ (d.again <=> db.again) /\ (d.crossed <=> db.crossed)
  /\ db.rows \subseteq d.rows /\ Cardinality(db.rows) <= Cardinality(d.rows)
  /\ \A r \in d.rows \ db.rows : lost' = 0 => c.op = "generate" /\ a = r
  /\ c.op = "plans" /\ st = "ok" => a \subseteq {1, 2, 3}
  /\ c.op = "generate" /\ st = "ok" => a \in d.rows /\ a.id \notin 1..Cardinality(db.rows)
  /\ c.op \in {"first", "history"} /\ st = "ok" => d.rows = db.rows /\ a = {r \in db.rows : r.plan = c.arg}
Answering(g, c, st, a, T) ==
  /\ T = {g[q] : q \in net}
  /\ \A q \in net : /\ g[q].id = q.id /\ g[q].op = q.op /\ g[q].arg = q.arg /\ (g[q].here <=> q.here)
                    /\ q # c => g[q] = q
  /\ g[c].st = st /\ g[c].ans = a
LEMMA CoversServed ==
  ASSUME NEW c \in net, c.st = "sent", NEW st, NEW a, NEW g, NEW T, Answering(g, c, st, a, T), NEW h, NEW p, NEW v, NEW rows, NEW more,
         rows \subseteq more, \A r \in more \ rows : c.here /\ c.op = "generate" /\ st = "ok" /\ a = r,
         Covers(h, p, net, v, rows)
  PROVE  Covers(h, p, T, v, more)
  <1>1. SUFFICES ASSUME NEW r \in more, r.plan = p, r \notin h, r.id \notin JobIds(v.jobs)
                 PROVE  \E x \in T : x.here /\ x.op = "generate" /\ x.st = "ok" /\ x.ans = r
    BY DEF Covers
  <1>2. CASE r \in rows
    <2>1. PICK q \in net : q.here /\ q.op = "generate" /\ q.st = "ok" /\ q.ans = r BY <1>1, <1>2 DEF Covers
    <2>2. g[q] = q /\ g[q] \in T BY <2>1 DEF Answering
    <2>3. QED BY <2>1, <2>2
  <1>3. CASE r \notin rows
    <2>1. g[c] \in T /\ g[c].here /\ g[c].op = "generate" /\ g[c].st = "ok" /\ g[c].ans = r BY <1>3 DEF Answering
    <2>2. QED BY <2>1
  <1>4. QED BY <1>2, <1>3

LEMMA ReportsAnswerKept ==
  ASSUME ReportsInv, NEW c \in net, NEW d, NEW st, NEW a, Reports!AnswerIs(c, d, st, a), Replies(c, d, st, a)
  PROVE  ReportsInv'
  <1>1. Numbered(net) /\ IsReportDb(db) BY DEF ReportsInv
  <1>2. db' = d /\ page' = page /\ view' = view /\ c.st = "sent" /\ (~mixed' => ~mixed) BY DEF Reports!AnswerIs
  <1>3. PICK T : T = net' OBVIOUS
  <1>4. Numbered(T) /\ \E g : Answering(g, c, st, a, T) BY <1>1, <1>3, PassAnswer, ReportsAnswerIs DEF Answering
  <1>5. PICK g : Answering(g, c, st, a, T) BY <1>4
  <1>6. ~mixed' => Ordered(T)
    <2>1. st # "sent" BY DEF Replies
    <2>2. ~mixed' => Ordered(net) BY <1>2 DEF ReportsInv
    <2>3. ~mixed' => Ordered(net') BY <1>1, <2>1, <2>2, AnswerOrdered, ReportsAnswerIs
    <2>4. QED BY <1>3, <2>3
  <1>7. PICK jobs : jobs = ListedJobs OBVIOUS
  <1>8. ListedJobs' = jobs BY <1>2, <1>7 DEF ListedJobs
  <1>9. KnownReports(net, jobs, db) /\ (~db.crossed => ToldOnce(net, jobs, db)) BY <1>7 DEF ReportsInv
  <1>n. /\ Cardinality(db.rows) \in Nat /\ Cardinality(d.rows) \in Nat
        /\ 1..Cardinality(db.rows) \subseteq 1..Cardinality(d.rows)
    <2>1. Cardinality(db.rows) \in Nat /\ Cardinality(d.rows) \in Nat BY <1>1, FS_CardinalityType DEF IsReportDb, Replies
    <2>2. Cardinality(db.rows) <= Cardinality(d.rows) BY DEF Replies
    <2>3. QED BY <2>1, <2>2
  <1>10. KnownReports(T, jobs, d)
    <2>1. ASSUME NEW x \in T, x.op = "poll"
          PROVE x.arg = [id |-> x.arg.id, rest |-> x.arg.rest] /\ PollIds(x) \subseteq 1..Cardinality(d.rows)
      <3>1. PICK q \in net : q.op = "poll" /\ x.arg = q.arg BY <1>5, <2>1 DEF Answering
      <3>2. PollIds(x) = PollIds(q) BY <3>1 DEF PollIds
      <3>3. q.arg = [id |-> q.arg.id, rest |-> q.arg.rest] /\ PollIds(q) \subseteq 1..Cardinality(db.rows)
        BY <1>9, <3>1 DEF KnownReports
      <3>4. QED BY <1>n, <3>1, <3>2, <3>3
    <2>2. ASSUME NEW x \in T, x.op = "plans", x.st = "ok" PROVE x.ans \subseteq {1, 2, 3}
      <3>1. PICK q \in net : x = g[q] /\ q.op = "plans" BY <1>5, <2>2 DEF Answering
      <3>2. CASE q = c BY <1>5, <2>2, <3>1, <3>2 DEF Answering, Replies
      <3>3. CASE q # c BY <1>5, <1>9, <2>2, <3>1, <3>3 DEF Answering, KnownReports
      <3>4. QED BY <3>2, <3>3
    <2>3. ASSUME NEW x \in T, x.op = "generate", x.st = "ok" PROVE x.ans \in d.rows
      <3>1. PICK q \in net : x = g[q] /\ q.op = "generate" BY <1>5, <2>3 DEF Answering
      <3>2. CASE q = c BY <1>5, <2>3, <3>1, <3>2 DEF Answering, Replies
      <3>3. CASE q # c
        <4>1. x = q BY <1>5, <3>1, <3>3 DEF Answering
        <4>2. x.ans \in db.rows BY <1>9, <2>3, <4>1 DEF KnownReports
        <4>3. QED BY <4>2 DEF Replies
      <3>4. QED BY <3>2, <3>3
    <2>4. \A j \in jobs : j = [id |-> j.id, plan |-> j.plan, st |-> j.st] /\ j.id \in 1..Cardinality(d.rows)
      BY <1>9, <1>n DEF KnownReports
    <2>5. d.told \subseteq 1..Cardinality(d.rows) BY <1>9, <1>n DEF KnownReports, Replies
    <2>6. QED BY <2>1, <2>2, <2>3, <2>4, <2>5 DEF KnownReports
  <1>11. ASSUME ~d.crossed PROVE ToldOnce(T, jobs, d)
    <2>1. ToldOnce(net, jobs, db) /\ d.told = db.told /\ ~d.again BY <1>9, <1>11 DEF Replies, ToldOnce
    <2>2. \A x \in T : x.op = "poll" => \E q \in net : x = g[q] /\ q.op = "poll" /\ x.arg = q.arg /\ (x.here <=> q.here)
      BY <1>5 DEF Answering
    <2>3. ASSUME NEW x \in T, NEW e \in T, x.op = "poll", e.op = "poll" PROVE x = e
      <3>1. PICK p \in net : x = g[p] /\ p.op = "poll" BY <2>2, <2>3
      <3>2. PICK q \in net : e = g[q] /\ q.op = "poll" BY <2>2, <2>3
      <3>3. p = q BY <2>1, <3>1, <3>2 DEF ToldOnce
      <3>4. QED BY <3>1, <3>2, <3>3
    <2>4. ASSUME NEW x \in T, x.op = "poll"
          PROVE  /\ x.arg.id \notin x.arg.rest /\ PollIds(x) \cap d.told = {}
                 /\ ~x.here => PollIds(x) \cap JobIds(jobs) = {}
      <3>1. PICK q \in net : q.op = "poll" /\ x.arg = q.arg /\ (x.here <=> q.here) BY <2>2, <2>4
      <3>2. PollIds(x) = PollIds(q) BY <3>1 DEF PollIds
      <3>3. QED BY <2>1, <3>1, <3>2 DEF ToldOnce
    <2>5. ASSUME NEW x \in T, x.op = "generate", x.st = "ok"
          PROVE  \/ x \in net
                 \/ x = g[c] /\ x.ans \in d.rows /\ x.ans.id \notin 1..Cardinality(db.rows)
      <3>1. PICK q \in net : x = g[q] /\ x.op = q.op BY <1>5 DEF Answering
      <3>2. CASE q # c BY <1>5, <3>1, <3>2 DEF Answering
      <3>3. CASE q = c
        <4>1. x.st = st /\ x.ans = a /\ c.op = "generate" BY <1>5, <2>5, <3>1, <3>3 DEF Answering
        <4>2. QED BY <2>5, <3>1, <3>3, <4>1 DEF Replies
      <3>4. QED BY <3>2, <3>3
    <2>6. \A i \in d.told \cup JobIds(jobs) : i \in 1..Cardinality(db.rows) BY <1>9, <2>1 DEF KnownReports, JobIds
    <2>7. \A x \in T : x.op = "poll" => PollIds(x) \subseteq 1..Cardinality(db.rows)
      <3>1. SUFFICES ASSUME NEW x \in T, x.op = "poll" PROVE PollIds(x) \subseteq 1..Cardinality(db.rows) OBVIOUS
      <3>2. PICK q \in net : q.op = "poll" /\ x.arg = q.arg BY <2>2, <3>1
      <3>3. PollIds(x) = PollIds(q) BY <3>2 DEF PollIds
      <3>4. QED BY <1>9, <3>2, <3>3 DEF KnownReports
    <2>8. \A h \in net : h.op = "generate" /\ h.st = "ok" => h.ans.id \in 1..Cardinality(db.rows)
      BY <1>1, <1>9 DEF KnownReports, IsReportDb
    <2>9. ASSUME NEW x \in T, x.op = "generate", x.st = "ok"
          PROVE  /\ x.ans.id \notin d.told /\ x.ans.id \notin JobIds(jobs)
                 /\ \A e \in T : e.op = "poll" => x.ans.id \notin PollIds(e)
                 /\ \A h \in T : h.op = "generate" /\ h.st = "ok" /\ h.ans.id = x.ans.id => h = x
      <3>1. CASE x \in net
        <4>1. x.ans.id \notin d.told /\ x.ans.id \notin JobIds(jobs) BY <2>1, <2>9, <3>1 DEF ToldOnce
        <4>2. ASSUME NEW e \in T, e.op = "poll" PROVE x.ans.id \notin PollIds(e)
          <5>1. PICK q \in net : q.op = "poll" /\ e.arg = q.arg BY <2>2, <4>2
          <5>2. PollIds(e) = PollIds(q) BY <5>1 DEF PollIds
          <5>3. QED BY <2>1, <2>9, <3>1, <5>1, <5>2 DEF ToldOnce
        <4>3. \A h \in T : h.op = "generate" /\ h.st = "ok" /\ h.ans.id = x.ans.id => h = x
          BY <2>1, <2>5, <2>8, <2>9, <3>1 DEF ToldOnce
        <4>4. QED BY <4>1, <4>2, <4>3
      <3>2. CASE x \notin net
        <4>1. x = g[c] /\ x.ans.id \notin 1..Cardinality(db.rows) BY <2>5, <2>9, <3>2
        <4>2. \A h \in T : h.op = "generate" /\ h.st = "ok" /\ h.ans.id = x.ans.id => h = x
          BY <2>5, <2>8, <4>1
        <4>3. QED BY <2>6, <2>7, <4>1, <4>2
      <3>3. QED BY <3>1, <3>2
    <2>10. QED BY <2>1, <2>3, <2>4, <2>9 DEF ToldOnce
  <1>12. ReportsBase'
    <2>1. IsReportDb(d) /\ lost' \in Nat /\ Numbered(T) /\ (~mixed' => Ordered(T))
          /\ KnownReports(T, jobs, d) /\ (~d.crossed => ToldOnce(T, jobs, d))
      BY <1>4, <1>6, <1>10, <1>11 DEF Replies
    <2>2. QED BY ONLY <1>2, <1>3, <1>8, <2>1 DEF ReportsBase
  <1>13. CASE page = "away"
    <2>1. \A x \in T : ~x.here BY <1>5, <1>13 DEF Answering, ReportsInv
    <2>2. QED BY <1>2, <1>3, <1>12, <1>13, <2>1 DEF ReportsInv, ReportsBase
  <1>14. CASE page = "reports"
    <2>1. IsReportView(view) /\ ReportsBusy(net, view) BY <1>14 DEF ReportsInv, ReportsMounted
    <2>2. \A q \in net : g[q] \in T /\ g[q].op = q.op /\ (g[q].here <=> q.here) BY <1>5 DEF Answering
    <2>3. ReportsBusy(T, view) BY <2>1, <2>2 DEF ReportsBusy
    <2>4. ASSUME ~mixed', lost' = 0 PROVE HistoryTrue(T, view, d.rows)
      <3>1. HistoryTrue(net, view, db.rows) /\ st = "ok" /\ Ordered(net)
        BY <1>2, <1>14, <2>4 DEF ReportsInv, ReportsMounted, Replies
      <3>2. \A r \in d.rows \ db.rows : c.op = "generate" /\ a = r BY <2>4 DEF Replies
      <3>3. ASSUME NEW x \in T, ~x.here PROVE view.sel = None /\ \A y \in T : y.here => x.id < y.id
        <4>1. PICK q \in net : x.id = q.id /\ ~q.here BY <1>5, <3>3 DEF Answering
        <4>2. ASSUME NEW y \in T, y.here PROVE x.id < y.id
          <5>1. PICK p \in net : y.id = p.id /\ p.here BY <1>5, <4>2 DEF Answering
          <5>2. QED BY <3>1, <4>1, <5>1 DEF HistoryTrue
        <4>3. QED BY <3>1, <4>1, <4>2 DEF HistoryTrue
      <3>4. \A x \in Histories(T) : \E q \in Histories(net) : x = g[q] /\ x.id = q.id /\ x.arg = q.arg
        BY <1>5 DEF Answering, Histories
      <3>5. \A q \in Histories(net) : g[q] \in Histories(T) /\ g[q].id = q.id BY <1>5 DEF Answering, Histories
      <3>6. ASSUME NEW x \in Histories(T), x.st # "sent" PROVE x.st = "ok" /\ Covers(x.ans, x.arg, T, view, d.rows)
        <4>1. PICK q \in Histories(net) : x = g[q] /\ x.arg = q.arg BY <3>4, <3>6
        <4>2. q \in net /\ q.here /\ q.op \in {"first", "history"} BY <4>1 DEF Histories
        <4>3. CASE q = c
          <5>1. x.st = "ok" /\ x.ans = a /\ d.rows = db.rows /\ a = {r \in db.rows : r.plan = c.arg}
            BY <1>5, <3>1, <4>1, <4>2, <4>3 DEF Answering, Replies
          <5>2. QED BY <4>1, <4>3, <5>1 DEF Covers
        <4>4. CASE q # c
          <5>1. x = q BY <1>5, <4>1, <4>2, <4>4 DEF Answering
          <5>2. x.st = "ok" /\ Covers(q.ans, q.arg, net, view, db.rows) BY <3>1, <3>6, <4>1, <5>1 DEF HistoryTrue
          <5>3. ASSUME ~c.here PROVE FALSE
            <6>1. c.id < q.id BY <3>1, <4>2, <5>3 DEF HistoryTrue
            <6>2. QED BY <1>2, <3>1, <3>6, <4>2, <5>1, <6>1 DEF Ordered
          <5>4. \A r \in d.rows \ db.rows : c.here /\ c.op = "generate" /\ st = "ok" /\ a = r BY <3>1, <3>2, <5>3
          <5>5. db.rows \subseteq d.rows BY DEF Replies
          <5>6. Covers(q.ans, q.arg, T, view, d.rows) BY <1>2, <1>5, <5>2, <5>4, <5>5, CoversServed
          <5>7. QED BY <5>1, <5>2, <5>6
        <4>5. QED BY <4>3, <4>4
      <3>7. ASSUME NEW x \in Histories(T), \A y \in Histories(T) : y.id <= x.id PROVE x.arg = view.sel
        <4>1. PICK q \in Histories(net) : x.id = q.id /\ x.arg = q.arg BY <3>4, <3>7
        <4>2. \A p \in Histories(net) : p.id <= q.id BY <3>5, <3>7, <4>1
        <4>3. QED BY <3>1, <4>1, <4>2 DEF HistoryTrue
      <3>8. ASSUME view.sel # None, Histories(T) = {} PROVE Covers(view.history, view.sel, T, view, d.rows)
        <4>1. Histories(net) = {} BY <3>5, <3>8
        <4>2. c.here BY <3>1, <3>8 DEF HistoryTrue
        <4>3. \A r \in d.rows \ db.rows : c.here /\ c.op = "generate" /\ st = "ok" /\ a = r BY <3>1, <3>2, <4>2
        <4>4. db.rows \subseteq d.rows BY DEF Replies
        <4>5. Covers(view.history, view.sel, net, view, db.rows) BY <3>1, <3>8, <4>1 DEF HistoryTrue
        <4>6. QED BY <1>2, <1>5, <4>3, <4>4, <4>5, CoversServed
      <3>9. QED BY <3>3, <3>6, <3>7, <3>8 DEF HistoryTrue
    <2>6. ReportsMounted(net, view, db)' BY <1>2, <1>3, <2>1, <2>3, <2>4 DEF ReportsMounted
    <2>7. QED BY <1>2, <1>12, <1>14, <2>6 DEF ReportsInv, ReportsBase
  <1>15. QED BY <1>13, <1>14 DEF ReportsInv


\* The server answers, and loses an answer or not.
LEMMA ReportsReadKept ==
  ASSUME ReportsInv, NEW c \in net, NEW a, Reports!Serve(c, db, a), c.op \notin {"generate", "first", "history"},
         c.op = "plans" => a \subseteq {1, 2, 3}
  PROVE  ReportsInv'
  <1>1. PICK st : st = "ok" OBVIOUS
  <1>2. Reports!AnswerIs(c, db, st, a) /\ lost' = lost BY <1>1 DEF Reports!Serve
  <1>3. IsReportDb(db) /\ lost \in Nat /\ Cardinality(db.rows) \in Nat BY FS_CardinalityType DEF ReportsInv, IsReportDb
  <1>4. Replies(c, db, st, a) BY <1>1, <1>2, <1>3 DEF Replies
  <1>5. QED BY <1>2, <1>4, ReportsAnswerKept
LEMMA ReportsFailKept == ASSUME ReportsInv, NEW c \in net, Reports!Refuse(c) PROVE ReportsInv'
  <1>1. PICK st : st = "err" OBVIOUS
  <1>2. Reports!AnswerIs(c, db, st, None) /\ lost' = lost + 1 BY <1>1 DEF Reports!Refuse, Reports!LoseAnswer, Reports!Failing
  <1>3. IsReportDb(db) /\ lost \in Nat /\ Cardinality(db.rows) \in Nat BY FS_CardinalityType DEF ReportsInv, IsReportDb
  <1>4. Replies(c, db, st, None) BY <1>1, <1>2, <1>3 DEF Replies
  <1>5. QED BY <1>2, <1>4, ReportsAnswerKept
LEMMA ServeHistoryKept == ASSUME ReportsInv, Reports!ServeHistory PROVE ReportsInv'
  <1>1. PICK c \in net : c.op \in {"first", "history"} /\ Reports!Serve(c, db, Reports!Reports(c.arg)) BY DEF Reports!ServeHistory
  <1>2. PICK st : st = "ok" OBVIOUS
  <1>3. PICK a : a = Reports!Reports(c.arg) OBVIOUS
  <1>4. Reports!AnswerIs(c, db, st, a) /\ lost' = lost BY <1>1, <1>2, <1>3 DEF Reports!Serve
  <1>5. IsReportDb(db) /\ lost \in Nat /\ Cardinality(db.rows) \in Nat BY FS_CardinalityType DEF ReportsInv, IsReportDb
  <1>6. a = {r \in db.rows : r.plan = c.arg} BY <1>3 DEF Reports!Reports
  <1>7. Replies(c, db, st, a) BY <1>1, <1>2, <1>4, <1>5, <1>6 DEF Replies
  <1>8. QED BY <1>4, <1>7, ReportsAnswerKept

\* A report is stored: its number is new.
LEMMA ServeGenerateKept == ASSUME ReportsInv, Reports!ServeGenerate PROVE ReportsInv'
  <1>c. PICK c \in net :
          /\ c.op = "generate"
          /\ LET r == Reports!Report(Cardinality(db.rows) + 1, c.arg)
                 d == [db EXCEPT !.rows = @ \cup {r}]
             IN  Reports!Serve(c, d, r) \/ Reports!LoseAnswer(c, d)
    BY ReportsCount DEF Reports!ServeGenerate
  <1>1. PICK r, d :
          /\ c.op = "generate" /\ r = Reports!Report(Cardinality(db.rows) + 1, c.arg)
          /\ d = [db EXCEPT !.rows = db.rows \cup {r}] /\ (Reports!Serve(c, d, r) \/ Reports!LoseAnswer(c, d))
    BY <1>c
  <1>2. IsReportDb(db) /\ lost \in Nat /\ IsFiniteSet(db.rows) /\ Cardinality(db.rows) \in Nat
    BY FS_CardinalityType DEF ReportsInv, IsReportDb
  <1>3. PICK more : more = db.rows \cup {r} OBVIOUS
  <1>4. d = [page |-> db.page, plans |-> db.plans, rows |-> more, told |-> db.told, again |-> db.again, crossed |-> db.crossed]
    BY <1>1, <1>2, <1>3 DEF IsReportDb
  <1>5. r = [id |-> Cardinality(db.rows) + 1, plan |-> c.arg] BY <1>1 DEF Reports!Report
  <1>6. \A x \in db.rows : IsReport(x) /\ x.id \in 1..Cardinality(db.rows) BY <1>2 DEF IsReportDb
  <1>7. r \notin db.rows BY <1>2, <1>5, <1>6
  <1>8. IsFiniteSet(more) /\ Cardinality(more) = Cardinality(db.rows) + 1 BY <1>2, <1>3, <1>7, FS_AddElement
  <1>9. IsReportDb(d)
    <2>1. \A x \in more : IsReport(x) /\ x.id \in 1..Cardinality(more) BY <1>2, <1>3, <1>5, <1>6, <1>8 DEF IsReport
    <2>2. QED BY <1>2, <1>4, <1>8, <2>1 DEF IsReportDb
  <1>10. \E st, a : Reports!AnswerIs(c, d, st, a) /\ Replies(c, d, st, a)
    <2>1. /\ d.told = db.told /\ (d.again <=> db.again) /\ (d.crossed <=> db.crossed) /\ d.rows = more
          /\ db.rows \subseteq d.rows /\ Cardinality(db.rows) <= Cardinality(d.rows) /\ \A x \in d.rows \ db.rows : x = r
      BY <1>2, <1>3, <1>4, <1>8
    <2>2. CASE Reports!Serve(c, d, r)
      <3>1. PICK st : st = "ok" OBVIOUS
      <3>2. Reports!AnswerIs(c, d, st, r) /\ lost' = lost BY <2>2, <3>1 DEF Reports!Serve
      <3>3. r \in d.rows /\ r.id \notin 1..Cardinality(db.rows) BY <1>2, <1>3, <1>5, <2>1
      <3>4. Replies(c, d, st, r) BY <1>1, <1>2, <1>9, <2>1, <3>1, <3>2, <3>3 DEF Replies
      <3>5. QED BY <3>2, <3>4
    <2>3. CASE Reports!LoseAnswer(c, d)
      <3>1. PICK st : st = "err" OBVIOUS
      <3>2. Reports!AnswerIs(c, d, st, None) /\ lost' = lost + 1 BY <2>3, <3>1 DEF Reports!LoseAnswer, Reports!Failing
      <3>3. lost' # 0 /\ lost' \in Nat BY <1>2, <3>2
      <3>4. Replies(c, d, st, None) BY <1>1, <1>9, <2>1, <3>1, <3>3 DEF Replies
      <3>5. QED BY <3>2, <3>4
    <2>4. QED BY <1>1, <2>2, <2>3
  <1>11. QED BY <1>10, ReportsAnswerKept

LEMMA ReportsServerKept == ASSUME ReportsInv, Reports!Server PROVE ReportsInv'
  <1>1. CASE Reports!ServePlans
    <2>1. db.plans \subseteq {1, 2, 3} BY DEF ReportsInv, IsReportDb
    <2>2. QED BY <1>1, <2>1, ReportsReadKept DEF Reports!ServePlans
  <1>2. CASE Reports!ServeHistory BY <1>2, ServeHistoryKept
  <1>3. CASE Reports!ServeGenerate BY <1>3, ServeGenerateKept
  <1>4. CASE Reports!ServePoll BY <1>4, ReportsReadKept DEF Reports!ServePoll
  <1>5. CASE Reports!ServeDownload BY <1>5, ReportsReadKept DEF Reports!ServeDownload
  <1>6. CASE Reports!Fail BY <1>6, ReportsFailKept DEF Reports!Fail
  <1>7. CASE Reports!Gone
    <2>1. PICK c \in net : page = "away" /\ Reports!Resume(c, view) BY <1>7 DEF Reports!Gone
    <2>2. ~c.here BY <2>1 DEF ReportsInv
    <2>3. QED BY <2>1, <2>2, ReportsOrphanResumes
  <1>8. QED BY <1>1, <1>2, <1>3, <1>4, <1>5, <1>6, <1>7 DEF Reports!Server

-----------------------------------------------------------------------------
(* Reports: the timer. *)

\* A set of report numbers has a newest one.
LEMMA NewestIs == ASSUME NEW N \in Nat, NEW ids, ids \subseteq 1..N, ids # {} PROVE Reports!Newest(ids) \in ids
  <1>1. PICK S : S = {N - i : i \in ids} OBVIOUS
  <1>n. \A i \in 1..N : N - i \in Nat OBVIOUS
  <1>m. \A x \in S : x \in Nat BY <1>1, <1>n
  <1>2. S \in SUBSET Nat /\ S # {} BY <1>1, <1>m
  <1>3. PICK R : R = OpToRel(<, Nat) OBVIOUS
  <1>4. PICK x \in S : \A y \in S : <<y, x>> \notin R BY <1>2, <1>3, NatLessThanWellFounded, WFMin, Zenon
  <1>5. \A y \in S : ~(y < x) BY <1>2, <1>3, <1>4 DEF OpToRel
  <1>6. PICK i \in ids : x = N - i BY <1>1
  <1>7. \A j \in ids : ~(N - j < N - i) BY <1>1, <1>5, <1>6
  <1>8. \A j \in ids : j <= i BY <1>7
  <1>9. QED BY <1>8 DEF Reports!Newest

\* What a round of polls asks for: all that it was given.
Round(arg, ids) == arg = [id |-> Reports!Newest(ids), rest |-> ids \ {Reports!Newest(ids)}]
LEMMA RoundIs == ASSUME NEW N \in Nat, NEW ids, ids \subseteq 1..N, ids # {}, NEW x, Round(x.arg, ids)
  PROVE /\ x.arg = [id |-> x.arg.id, rest |-> x.arg.rest]
        /\ x.arg.id \notin x.arg.rest /\ PollIds(x) = ids
  <1>1. Reports!Newest(ids) \in ids BY NewestIs
  <1>2. x.arg.id = Reports!Newest(ids) /\ x.arg.rest = ids \ {Reports!Newest(ids)} BY DEF Round
  <1>3. QED BY <1>1, <1>2 DEF Round, PollIds

\* A poll is sent while no other is under way.
LEMMA ToldOncePolls ==
  ASSUME NEW f, NEW R, NEW T, NEW F, Passage(f, R, T, F), NEW jobs, NEW d, ToldOnce(R, jobs, d), \A q \in R : q.op # "poll",
         \A x, y \in F : x = y,
         \A x \in F : /\ x.op = "poll" /\ x.arg.id \notin x.arg.rest /\ PollIds(x) \cap d.told = {}
                      /\ ~x.here => PollIds(x) \cap JobIds(jobs) = {}
                      /\ \A g \in R : g.op = "generate" /\ g.st = "ok" => g.ans.id \notin PollIds(x)
  PROVE  ToldOnce(T, jobs, d)
  <1>1. \A c \in T : c.op = "poll" => c \in F BY Origin
  <1>2. ASSUME NEW c \in T, c.op = "generate", c.st = "ok"
        PROVE  \E q \in R : c = f[q] /\ q.op = "generate" /\ q.st = "ok" /\ c.ans = q.ans
    BY <1>2, Origin
  <1>3. ASSUME NEW g \in T, g.op = "generate", g.st = "ok"
        PROVE  /\ g.ans.id \notin d.told /\ g.ans.id \notin JobIds(jobs)
               /\ \A c \in T : c.op = "poll" => g.ans.id \notin PollIds(c)
               /\ \A h \in T : h.op = "generate" /\ h.st = "ok" /\ h.ans.id = g.ans.id => h = g
    <2>1. PICK q \in R : g = f[q] /\ q.op = "generate" /\ q.st = "ok" /\ g.ans = q.ans BY <1>2, <1>3
    <2>2. q.ans.id \notin d.told /\ q.ans.id \notin JobIds(jobs) BY <2>1 DEF ToldOnce
    <2>3. ASSUME NEW c \in T, c.op = "poll" PROVE g.ans.id \notin PollIds(c) BY <1>1, <2>1, <2>3
    <2>4. ASSUME NEW h \in T, h.op = "generate", h.st = "ok", h.ans.id = g.ans.id PROVE h = g
      <3>1. PICK p \in R : h = f[p] /\ p.op = "generate" /\ p.st = "ok" /\ h.ans = p.ans BY <1>2, <2>4
      <3>2. p = q BY <2>1, <2>4, <3>1 DEF ToldOnce
      <3>3. QED BY <2>1, <3>1, <3>2
    <2>5. QED BY <2>1, <2>2, <2>3, <2>4
  <1>4. \A c, e \in T : c.op = "poll" /\ e.op = "poll" => c = e BY <1>1
  <1>5. \A j \in jobs : j.st = "processing" => j.id \notin d.told BY DEF ToldOnce
  <1>6. ~d.again BY DEF ToldOnce
  <1>7. \A c \in T : c.op = "poll" =>
          /\ c.arg.id \notin c.arg.rest /\ PollIds(c) \cap d.told = {}
          /\ ~c.here => PollIds(c) \cap JobIds(jobs) = {}
    BY <1>1
  <1>8. QED BY <1>3, <1>4, <1>5, <1>6, <1>7 DEF ToldOnce

\* The timer polls the jobs it lists as processing.
LEMMA TickKept == ASSUME ReportsInv, Reports!Tick PROVE ReportsInv'
  <1>1. /\ page = "reports" /\ IsReportDb(db) /\ lost \in Nat /\ Numbered(net) /\ (~mixed => Ordered(net))
        /\ KnownReports(net, view.jobs, db) /\ (~db.crossed => ToldOnce(net, view.jobs, db)) /\ ReportsMounted(net, view, db)
    BY DEF ReportsInv, Reports!Tick, Reports!Here, ListedJobs
  <1>2. PICK z : z = (db.crossed \/ Reports!Polls # {}) OBVIOUS
  <1>3. PICK d : d = [db EXCEPT !.crossed = z] OBVIOUS
  <1>4. PICK T : T = net' OBVIOUS
  <1>5. PICK arg : arg = [id |-> Reports!Newest(Reports!Processing), rest |-> Reports!Processing \ {Reports!Newest(Reports!Processing)}] OBVIOUS
  <1>6. /\ T = Reports!Send(net, << <<"poll", arg>> >>) /\ db' = d /\ Reports!Processing # {}
        /\ page' = page /\ view' = view /\ lost' = lost /\ mixed' = mixed
    BY <1>2, <1>3, <1>4, <1>5 DEF Reports!Tick, Reports!Poll
  <1>7. d = [page |-> db.page, plans |-> db.plans, rows |-> db.rows, told |-> db.told, again |-> db.again, crossed |-> z]
    BY <1>1, <1>3 DEF IsReportDb
  <1>8. PICK f, F : /\ Passage(f, net, T, F) /\ F # {} /\ \A x \in F : x.here /\ x.op = "poll" /\ x.arg = arg
                    /\ \A x, y \in F : x = y
    BY <1>1, <1>6, ReportsOne
  <1>9. Cardinality(db.rows) \in Nat BY <1>1, FS_CardinalityType DEF IsReportDb
  <1>10. Reports!Processing \subseteq 1..Cardinality(db.rows) BY <1>1 DEF Reports!Processing, KnownReports
  <1>11. \A x \in F : /\ x.arg = [id |-> x.arg.id, rest |-> x.arg.rest]
                      /\ x.arg.id \notin x.arg.rest /\ PollIds(x) = Reports!Processing
    BY <1>5, <1>6, <1>8, <1>9, <1>10, RoundIs DEF Round
  <1>12. IsReportDb(d) BY <1>1, <1>2, <1>7 DEF IsReportDb
  <1>13. KnownReports(T, view.jobs, d)
    <2>1. KnownReports(net, view.jobs, d) BY <1>1, <1>7 DEF KnownReports
    <2>2. \A x \in F : Polite(x, d) BY <1>7, <1>10, <1>11 DEF Polite
    <2>3. QED BY <1>8, <2>1, <2>2, KnownReportsKept
  <1>14. ASSUME ~d.crossed PROVE ToldOnce(T, view.jobs, d)
    <2>1. ToldOnce(net, view.jobs, db) /\ Reports!Polls = {} BY <1>1, <1>2, <1>7, <1>14
    <2>2. ToldOnce(net, view.jobs, d) BY <1>7, <2>1 DEF ToldOnce
    <2>3. \A q \in net : q.op # "poll" BY <2>1 DEF Reports!Polls
    <2>4. ASSUME NEW x \in F
          PROVE  /\ x.op = "poll" /\ x.arg.id \notin x.arg.rest /\ PollIds(x) \cap d.told = {}
                 /\ ~x.here => PollIds(x) \cap JobIds(view.jobs) = {}
                 /\ \A g \in net : g.op = "generate" /\ g.st = "ok" => g.ans.id \notin PollIds(x)
      <3>1. Reports!Processing \cap d.told = {} BY <2>2 DEF Reports!Processing, ToldOnce
      <3>2. Reports!Processing \subseteq JobIds(view.jobs) BY DEF Reports!Processing, JobIds
      <3>3. \A g \in net : g.op = "generate" /\ g.st = "ok" => g.ans.id \notin JobIds(view.jobs) BY <2>2 DEF ToldOnce
      <3>4. QED BY <1>8, <1>11, <3>1, <3>2, <3>3
    <2>5. QED BY <1>8, <2>2, <2>3, <2>4, ToldOncePolls
  <1>15. ~mixed => Ordered(T) BY <1>1, <1>8, PassOrdered
  <1>16. Numbered(T) BY <1>8 DEF Passage
  <1>17. IsReportView(view) /\ ReportsBusy(T, view)
    <2>1. \A q \in net : f[q] \in T /\ (f[q].here <=> q.here) /\ f[q].op = q.op BY <1>8, Onwards
    <2>2. QED BY <1>1, <2>1 DEF ReportsMounted, ReportsBusy
  <1>18. ASSUME ~mixed, lost = 0 PROVE HistoryTrue(T, view, d.rows)
    <2>1. HistoryTrue(net, view, db.rows) BY <1>1, <1>18 DEF ReportsMounted
    <2>2. \A x \in F : x.here /\ x.op \notin {"first", "history"} BY <1>8
    <2>3. HistoryTrue(T, view, db.rows) BY <1>1, <1>8, <2>1, <2>2, HistoryTrueKept
    <2>4. QED BY <1>7, <2>3
  <1>19. ReportsMounted(T, view, d) BY <1>17, <1>18 DEF ReportsMounted
  <1>20. QED
    <2>1. ReportsMounted(net, view, db)' BY <1>4, <1>6, <1>19 DEF ReportsMounted
    <2>2. ListedJobs' = view.jobs BY <1>1, <1>6 DEF ListedJobs
    <2>3. /\ IsReportDb(d) /\ lost \in Nat /\ Numbered(T) /\ (~mixed => Ordered(T))
          /\ KnownReports(T, view.jobs, d) /\ (~d.crossed => ToldOnce(T, view.jobs, d))
      BY <1>1, <1>12, <1>13, <1>14, <1>15, <1>16
    <2>4. QED BY ONLY <1>1, <1>4, <1>6, <2>1, <2>2, <2>3 DEF ReportsInv

\* The answer of a poll: the next job of its round is polled.
RoundOn(c, rest) ==
  IF rest = {} THEN Reports!Without(c)
  ELSE Reports!Without(c) \cup {[r EXCEPT !.here = c.here] : r \in Reports!Send(Reports!Without(c), Reports!Poll(rest)) \ Reports!Without(c)}
LEMMA PolledCalls ==
  ASSUME Numbered(net), NEW c \in net, NEW rest, NEW T, T = RoundOn(c, rest)
  PROVE  \E f, F : /\ Passage(f, net \ {c}, T, F)
                   /\ \A x \in F : (x.here <=> c.here) /\ x.op = "poll" /\ Round(x.arg, rest)
                   /\ \A x, y \in F : x = y
                   /\ rest = {} => F = {}
                   /\ T = Reports!Without(c) => F = {}
  <1>1. CASE rest = {}
    <2>1. PICK f : Passage(f, net \ {c}, Reports!Without(c), {}) BY ReportsResume
    <2>2. QED BY <1>1, <2>1 DEF RoundOn
  <1>2. CASE rest # {}
    <2>1. PICK arg : arg = [id |-> Reports!Newest(rest), rest |-> rest \ {Reports!Newest(rest)}] OBVIOUS
    <2>2. PICK asks : asks = << <<"poll", arg>> >> OBVIOUS
    <2>3. T = Reports!Without(c) \cup {[r EXCEPT !.here = c.here] : r \in Reports!Send(Reports!Without(c), asks) \ Reports!Without(c)}
      BY <1>2, <2>1, <2>2 DEF Reports!Poll, RoundOn
    <2>4. PICK n \in Nat : n = 1 OBVIOUS
    <2>5. DOMAIN asks = 1..n /\ asks[1] = <<"poll", arg>> /\ \A i \in DOMAIN asks : i = 1 BY <2>2, <2>4
    <2>6. PICK f, F : /\ Passage(f, net \ {c}, T, F) /\ Asking(F, asks, c.here)
                      /\ \A x \in F : x \notin Reports!Without(c)
      BY <2>3, <2>5, ReportsAsks
    <2>7. \A x \in F : (x.here <=> c.here) /\ x.op = "poll" /\ x.arg = arg BY <2>5, <2>6 DEF Asking
    <2>8. F \subseteq T BY <2>6 DEF Passage, Moved
    <2>9. \A x \in F : x = [Reports!Request(Cardinality(Reports!Without(c)) + 1, asks[1]) EXCEPT !.here = c.here]
      <3>1. \A r \in Reports!Send(Reports!Without(c), asks) \ Reports!Without(c) : r = Reports!Request(Cardinality(Reports!Without(c)) + 1, asks[1])
        BY <2>5, ReportsCount DEF Reports!Send
      <3>2. QED BY <2>3, <2>6, <2>8, <3>1
    <2>10. T = Reports!Without(c) => F = {} BY <2>6, <2>8
    <2>11. \A x \in F : (x.here <=> c.here) /\ x.op = "poll" /\ Round(x.arg, rest) BY <2>1, <2>7 DEF Round
    <2>12. \A x, y \in F : x = y BY ONLY <2>9, Zenon
    <2>13. QED BY <1>2, <2>6, <2>10, <2>11, <2>12
  <1>3. QED BY <1>1, <1>2

\* A job that is complete, and announced.
LEMMA CompletedIs ==
  ASSUME NEW v, NEW id, NEW w, IsReportView(v), w = Reports!Completed(v, id),
         \A j \in v.jobs : j = [id |-> j.id, plan |-> j.plan, st |-> j.st]
  PROVE  /\ IsReportView(w) /\ (w.loading <=> v.loading) /\ (w.generating <=> v.generating) /\ w.download = v.download
         /\ w.sel = v.sel /\ w.history = v.history /\ JobIds(w.jobs) = JobIds(v.jobs)
         /\ \A j \in w.jobs : /\ j = [id |-> j.id, plan |-> j.plan, st |-> j.st] /\ j.id \in JobIds(v.jobs)
                              /\ j.st = "processing" => j \in v.jobs /\ j.id # id
  <1>1. PICK g : g = [j \in v.jobs |-> IF j.id = id THEN [j EXCEPT !.st = "complete"] ELSE j] OBVIOUS
  <1>2. PICK jobs : jobs = {g[j] : j \in v.jobs} OBVIOUS
  <1>3. w = [v EXCEPT !.jobs = jobs] BY <1>1, <1>2 DEF Reports!Completed
  <1>4. w = [loading |-> v.loading, plans |-> v.plans, sel |-> v.sel, history |-> v.history, type |-> v.type,
             sections |-> v.sections, generating |-> v.generating, jobs |-> jobs, download |-> v.download]
    BY <1>3 DEF IsReportView
  <1>5. ASSUME NEW j \in v.jobs
        PROVE  /\ g[j] = [id |-> g[j].id, plan |-> g[j].plan, st |-> g[j].st] /\ g[j].id = j.id
               /\ g[j].st = "processing" => g[j] = j /\ j.id # id
    <2>1. CASE j.id # id BY <1>1, <2>1
    <2>2. CASE j.id = id
      <3>1. PICK s : s = "complete" OBVIOUS
      <3>2. g[j] = [j EXCEPT !.st = s] BY <1>1, <2>2, <3>1
      <3>3. g[j] = [id |-> j.id, plan |-> j.plan, st |-> s] BY <3>2
      <3>4. QED BY <3>1, <3>3
    <2>3. QED BY <2>1, <2>2
  <1>o. \A x \in jobs : \E j \in v.jobs : x = g[j] BY <1>2
  <1>6. JobIds(jobs) = JobIds(v.jobs)
    <2>1. ASSUME NEW x \in jobs PROVE \E j \in v.jobs : x.id = j.id
      <3>1. PICK j \in v.jobs : x = g[j] BY <1>o
      <3>2. QED BY <1>5, <3>1
    <2>2. ASSUME NEW j \in v.jobs PROVE \E x \in jobs : x.id = j.id
      <3>1. g[j] \in jobs /\ g[j].id = j.id BY <1>2, <1>5
      <3>2. QED BY <3>1
    <2>3. QED BY <2>1, <2>2 DEF JobIds
  <1>7. \A j \in jobs : /\ j = [id |-> j.id, plan |-> j.plan, st |-> j.st] /\ j.id \in JobIds(v.jobs)
                        /\ j.st = "processing" => j \in v.jobs /\ j.id # id
    <2>1. SUFFICES ASSUME NEW x \in jobs
                   PROVE  /\ x = [id |-> x.id, plan |-> x.plan, st |-> x.st] /\ x.id \in JobIds(v.jobs)
                          /\ x.st = "processing" => x \in v.jobs /\ x.id # id
      OBVIOUS
    <2>2. PICK j \in v.jobs : x = g[j] BY <1>o
    <2>3. QED BY <1>5, <2>2 DEF JobIds
  <1>8. IsReportView(w) BY <1>4 DEF IsReportView
  <1>9. QED BY <1>4, <1>6, <1>7, <1>8

LEMMA PolledKept == ASSUME ReportsInv, Reports!Polled PROVE ReportsInv'
  <1>1. PICK c \in net : c.op = "poll" /\ c.st # "sent" /\
          LET calls == IF c.arg.rest = {} THEN Reports!Without(c)
                       ELSE Reports!Without(c) \cup {[r EXCEPT !.here = c.here] :
                                                r \in Reports!Send(Reports!Without(c), Reports!Poll(c.arg.rest)) \ Reports!Without(c)}
          IN  IF c.st = "ok"
              THEN Reports!AnsweredWith(c, calls, IF c.here THEN Reports!Completed(view, c.arg.id) ELSE view, Reports!Told(db, c.arg.id))
              ELSE Reports!AnsweredWith(c, calls, view, db)
    BY DEF Reports!Polled, Reports!Waiting
  <1>2. PICK T : T = RoundOn(c, c.arg.rest) OBVIOUS
  <1>3. PICK v, d :
          /\ IF c.st = "ok" THEN v = (IF c.here THEN Reports!Completed(view, c.arg.id) ELSE view) /\ d = Reports!Told(db, c.arg.id)
             ELSE v = view /\ d = db
          /\ Reports!AnsweredWith(c, T, v, d)
    BY <1>1, <1>2 DEF RoundOn
  <1>4. PICK id, rest : id = c.arg.id /\ rest = c.arg.rest OBVIOUS
  <1>5. PICK w : w = IF c.here THEN v ELSE view OBVIOUS
  <1>6. /\ net' = T /\ view' = w /\ db' = d /\ mixed' = (mixed \/ c.id > 1 \/ (~c.here /\ T # Reports!Without(c)))
        /\ page' = page /\ lost' = lost
    BY <1>3, <1>5 DEF Reports!AnsweredWith
  <1>7. /\ IsReportDb(db) /\ lost \in Nat /\ Numbered(net) /\ (~mixed => Ordered(net))
        /\ KnownReports(net, ListedJobs, db) /\ (~db.crossed => ToldOnce(net, ListedJobs, db))
    BY DEF ReportsInv
  <1>8. PICK f, F : /\ Passage(f, net \ {c}, T, F)
                    /\ \A x \in F : (x.here <=> c.here) /\ x.op = "poll" /\ Round(x.arg, rest)
                    /\ \A x, y \in F : x = y
                    /\ rest = {} => F = {}
                    /\ T = Reports!Without(c) => F = {}
    <2>1. T = RoundOn(c, rest) /\ Numbered(net) BY <1>2, <1>4, <1>7
    <2>2. QED BY ONLY c \in net, <2>1, PolledCalls
  <1>9. PICK N : N = Cardinality(db.rows) OBVIOUS
  <1>10. N \in Nat BY <1>7, <1>9, FS_CardinalityType DEF IsReportDb
  <1>11. c.arg = [id |-> id, rest |-> rest] /\ id \in 1..N /\ rest \subseteq 1..N
    BY <1>1, <1>4, <1>7, <1>9 DEF KnownReports, PollIds
  <1>12. \A x \in F : /\ x.arg = [id |-> x.arg.id, rest |-> x.arg.rest]
                       /\ x.arg.id \notin x.arg.rest /\ PollIds(x) = rest
    BY <1>8, <1>10, <1>11, RoundIs
  <1>13. c.here => page = "reports" BY DEF ReportsInv
  <1>14. PICK jobs : jobs = IF page = "reports" THEN w.jobs ELSE {} OBVIOUS
  <1>15. ListedJobs' = jobs BY <1>6, <1>14 DEF ListedJobs
  <1>16. PICK t, z : /\ t = (IF c.st = "ok" THEN db.told \cup {id} ELSE db.told)
                     /\ z = (IF c.st = "ok" THEN db.again \/ id \in db.told ELSE db.again)
    OBVIOUS
  <1>17. d = [page |-> db.page, plans |-> db.plans, rows |-> db.rows, told |-> t, again |-> z, crossed |-> db.crossed]
    <2>1. db = [page |-> db.page, plans |-> db.plans, rows |-> db.rows, told |-> db.told, again |-> db.again,
                crossed |-> db.crossed]
      BY <1>7 DEF IsReportDb
    <2>2. CASE c.st = "ok"
      <3>1. d = [db EXCEPT !.told = t, !.again = z]
        <4>1. d = [db EXCEPT !.told = db.told \cup {id}, !.again = db.again \/ id \in db.told]
          BY <1>3, <1>4, <2>2 DEF Reports!Told
        <4>2. t = db.told \cup {id} /\ z = (db.again \/ id \in db.told) BY <1>16, <2>2
        <4>3. QED BY ONLY <4>1, <4>2
      <3>2. QED BY <2>1, <3>1
    <2>3. CASE c.st # "ok" BY <1>3, <1>16, <2>1, <2>3
    <2>4. QED BY <2>2, <2>3
  <1>18. IsReportDb(d) BY <1>7, <1>17 DEF IsReportDb
  <1>19. /\ JobIds(jobs) = JobIds(ListedJobs)
         /\ \A j \in jobs : /\ j = [id |-> j.id, plan |-> j.plan, st |-> j.st] /\ j.id \in JobIds(ListedJobs)
                            /\ j.st = "processing" => j \in ListedJobs /\ (c.here /\ c.st = "ok" => j.id # id)
    <2>1. \A j \in ListedJobs : j = [id |-> j.id, plan |-> j.plan, st |-> j.st] BY <1>7 DEF KnownReports
    <2>2. CASE c.here /\ c.st = "ok"
      <3>1. w = Reports!Completed(view, id) /\ IsReportView(view) /\ ListedJobs = view.jobs /\ jobs = w.jobs
        BY <1>3, <1>4, <1>5, <1>13, <1>14, <2>2 DEF ReportsInv, ReportsMounted, ListedJobs
      <3>2. QED BY <2>1, <3>1, CompletedIs
    <2>3. CASE ~(c.here /\ c.st = "ok")
      <3>1. w = view BY <1>3, <1>5, <2>3
      <3>2. jobs = ListedJobs BY <1>14, <3>1 DEF ListedJobs
      <3>3. QED BY <2>1, <2>3, <3>2 DEF JobIds
    <2>4. QED BY <2>2, <2>3
  <1>20. KnownReports(T, jobs, d)
    <2>1. KnownReports(net, jobs, d)
      <3>1. \A j \in JobIds(ListedJobs) : j \in 1..N BY <1>7, <1>9 DEF KnownReports, JobIds
      <3>2. t \subseteq 1..N BY <1>7, <1>9, <1>11, <1>16 DEF KnownReports
      <3>3. d.rows = db.rows /\ d.told = t BY <1>17
      <3>4. \A j \in jobs : j = [id |-> j.id, plan |-> j.plan, st |-> j.st] /\ j.id \in 1..N
        <4>1. ASSUME NEW j \in jobs PROVE j = [id |-> j.id, plan |-> j.plan, st |-> j.st] /\ j.id \in JobIds(ListedJobs)
          BY <1>19, Zenon
        <4>2. QED BY <3>1, <4>1
      <3>5. QED BY <1>7, <1>9, <3>2, <3>3, <3>4 DEF KnownReports
    <2>2. \A x \in F : Polite(x, d) BY <1>9, <1>11, <1>12, <1>17 DEF Polite
    <2>3. QED BY <1>8, <2>1, <2>2, KnownReportsKept
  <1>21. ASSUME ~d.crossed PROVE ToldOnce(T, jobs, d)
    <2>1. ToldOnce(net, ListedJobs, db) BY <1>7, <1>17, <1>21
    <2>2. \A q \in net \ {c} : q.op # "poll" BY <1>1, <2>1 DEF ToldOnce
    <2>3. /\ id \notin rest /\ PollIds(c) \cap db.told = {} /\ (~c.here => PollIds(c) \cap JobIds(ListedJobs) = {})
          /\ PollIds(c) = {id} \cup rest
      BY <1>1, <1>4, <2>1 DEF ToldOnce, PollIds
    <2>4. d.told = t /\ ~d.again /\ t \subseteq db.told \cup {id} BY <1>16, <1>17, <2>1, <2>3 DEF ToldOnce
    <2>5. \A j \in jobs : j.st = "processing" => j.id \notin t
      <3>1. SUFFICES ASSUME NEW j \in jobs, j.st = "processing" PROVE j.id \notin t OBVIOUS
      <3>2. j \in ListedJobs /\ j.id \in JobIds(ListedJobs) /\ (c.here /\ c.st = "ok" => j.id # id) BY <1>19, <3>1, Zenon
      <3>3. j.id \notin db.told BY <2>1, <3>1, <3>2 DEF ToldOnce
      <3>4. CASE c.st # "ok" BY <1>16, <3>3, <3>4
      <3>5. CASE c.here BY <1>16, <3>2, <3>3, <3>5
      <3>6. CASE ~c.here BY <2>3, <2>4, <3>2, <3>3, <3>6
      <3>7. QED BY <3>4, <3>5, <3>6
    <2>6. ASSUME NEW g \in net, g.op = "generate", g.st = "ok"
          PROVE  g.ans.id \notin t /\ g.ans.id \notin JobIds(jobs) /\ g.ans.id \notin PollIds(c)
      <3>1. g.ans.id \notin db.told /\ g.ans.id \notin JobIds(ListedJobs) /\ g.ans.id \notin PollIds(c)
        BY <1>1, <2>1, <2>6 DEF ToldOnce
      <3>2. QED BY <1>19, <2>3, <2>4, <3>1
    <2>7. ToldOnce(net \ {c}, jobs, d)
      <3>1. \A g, h \in net \ {c} : g.op = "generate" /\ g.st = "ok" /\ h.op = "generate" /\ h.st = "ok" /\ h.ans.id = g.ans.id
              => h = g
        BY <2>1 DEF ToldOnce
      <3>2. QED BY ONLY <2>2, <2>4, <2>5, <2>6, <3>1 DEF ToldOnce
    <2>8. ASSUME NEW x \in F
          PROVE  /\ x.op = "poll" /\ x.arg.id \notin x.arg.rest /\ PollIds(x) \cap d.told = {}
                 /\ ~x.here => PollIds(x) \cap JobIds(jobs) = {}
                 /\ \A g \in net \ {c} : g.op = "generate" /\ g.st = "ok" => g.ans.id \notin PollIds(x)
      <3>1. rest \cap t = {} BY <2>3, <2>4
      <3>2. ~c.here => rest \cap JobIds(jobs) = {} BY <1>19, <2>3
      <3>3. x.op = "poll" /\ (x.here <=> c.here) /\ x.arg.id \notin x.arg.rest /\ PollIds(x) = rest BY <1>8, <1>12
      <3>4. \A g \in net \ {c} : g.op = "generate" /\ g.st = "ok" => g.ans.id \notin rest BY <2>3, <2>6
      <3>5. QED BY <2>4, <3>1, <3>2, <3>3, <3>4
    <2>9. QED BY <1>8, <2>2, <2>7, <2>8, ToldOncePolls
  <1>22. ~mixed' => ~mixed BY <1>6
  <1>23. ~mixed' => Ordered(T) BY <1>7, <1>8, <1>22, PassOrdered
  <1>24. Numbered(T) BY <1>8 DEF Passage
  <1>25. ReportsBase'
    <2>1. IsReportDb(d) /\ lost \in Nat /\ Numbered(T) /\ (~mixed' => Ordered(T))
          /\ KnownReports(T, jobs, d) /\ (~d.crossed => ToldOnce(T, jobs, d))
      BY <1>7, <1>18, <1>20, <1>21, <1>23, <1>24
    <2>2. QED BY ONLY <1>6, <1>15, <2>1 DEF ReportsBase
  <1>26. CASE page = "away"
    <2>1. \A x \in T : ~x.here
      <3>1. \A q \in net : ~q.here BY <1>26 DEF ReportsInv
      <3>2. \A x \in F : ~x.here BY <1>8, <3>1
      <3>3. QED BY <1>8, <3>1, <3>2, Origin
    <2>2. QED BY <1>6, <1>25, <1>26, <2>1 DEF ReportsInv, ReportsBase
  <1>27. CASE page = "reports"
    <2>1. IsReportView(view) /\ ReportsBusy(net, view) BY <1>27 DEF ReportsInv, ReportsMounted
    <2>2. /\ IsReportView(w) /\ (w.loading <=> view.loading) /\ (w.generating <=> view.generating) /\ w.download = view.download
          /\ w.sel = view.sel /\ w.history = view.history /\ JobIds(view.jobs) \subseteq JobIds(w.jobs)
      <3>1. ListedJobs = view.jobs /\ \A j \in view.jobs : j = [id |-> j.id, plan |-> j.plan, st |-> j.st]
        BY <1>7, <1>27 DEF ListedJobs, KnownReports
      <3>2. CASE c.here /\ c.st = "ok"
        <4>1. w = Reports!Completed(view, id) BY <1>3, <1>4, <1>5, <3>2
        <4>2. QED BY <2>1, <3>1, <4>1, CompletedIs
      <3>3. CASE ~(c.here /\ c.st = "ok") BY <1>3, <1>5, <2>1, <3>3
      <3>4. QED BY <3>2, <3>3
    <2>3. ReportsBusy(T, w)
      <3>1. \A q \in net : q.op # "poll" => f[q] \in T /\ (f[q].here <=> q.here) /\ f[q].op = q.op BY <1>1, <1>8, Onwards
      <3>2. QED BY <2>1, <2>2, <3>1 DEF ReportsBusy
    <2>4. ASSUME ~mixed', lost = 0 PROVE HistoryTrue(T, w, d.rows)
      <3>1. HistoryTrue(net, view, db.rows) BY <1>22, <1>27, <2>4 DEF ReportsInv, ReportsMounted
      <3>2. \A x \in F : x.here /\ x.op \notin {"first", "history"}
        <4>1. ASSUME NEW x \in F PROVE x.here BY <1>6, <1>8, <2>4
        <4>2. QED BY <1>8, <4>1
      <3>3. \A q \in net \ (net \ {c}) : q = c OBVIOUS
      <3>4. \A q \in net \ (net \ {c}) : q \notin Histories(net) BY <1>1, <3>3 DEF Histories
      <3>5. \A q \in net \ (net \ {c}) : q.here /\ q.op = "generate" /\ q.st = "ok" => q.ans.id \in JobIds(w.jobs)
        BY <1>1, <3>3
      <3>6. HistoryTrue(T, w, db.rows) BY <1>7, <1>8, <2>2, <3>1, <3>2, <3>4, <3>5, HistoryTrueKept
      <3>7. d.rows = db.rows BY <1>17
      <3>8. QED BY <3>6, <3>7
    <2>5. ReportsMounted(net, view, db)' BY <1>6, <2>2, <2>3, <2>4 DEF ReportsMounted
    <2>6. QED BY <1>6, <1>25, <1>27, <2>5 DEF ReportsInv, ReportsBase
  <1>28. QED BY <1>26, <1>27 DEF ReportsInv

-----------------------------------------------------------------------------
(* Reports: the way out and in, and the beginning. *)

LEMMA ReportsLeaveKept == ASSUME ReportsInv, Reports!Leave PROVE ReportsInv'
  <1>1. PICK T : T = Orphans OBVIOUS
  <1>2. /\ page' = "away" /\ net' = T /\ db' = db /\ lost' = lost /\ mixed' = mixed
        /\ IsReportDb(db) /\ lost \in Nat /\ Numbered(net) /\ (~mixed => Ordered(net))
        /\ KnownReports(net, ListedJobs, db) /\ (~db.crossed => ToldOnce(net, ListedJobs, db))
    BY <1>1 DEF Reports!Leave, ReportsInv, Orphans
  <1>3. /\ Numbered(T)
        /\ \E g : /\ T = {g[q] : q \in net}
                  /\ \A q \in net : /\ g[q].id = q.id /\ g[q].op = q.op /\ g[q].arg = q.arg /\ ~g[q].here
                                    /\ g[q].st = q.st /\ g[q].ans = q.ans
    BY <1>1, <1>2, PassLeft
  <1>4. PICK g : /\ T = {g[q] : q \in net}
                 /\ \A q \in net : /\ g[q].id = q.id /\ g[q].op = q.op /\ g[q].arg = q.arg /\ ~g[q].here
                                   /\ g[q].st = q.st /\ g[q].ans = q.ans
    BY <1>3
  <1>5. ASSUME NEW x \in T
        PROVE  \E q \in net : /\ x = g[q] /\ x.id = q.id /\ x.op = q.op /\ x.arg = q.arg /\ ~x.here
                              /\ x.st = q.st /\ x.ans = q.ans
    <2>1. PICK q \in net : x = g[q] BY <1>4
    <2>2. QED BY <1>4, <2>1
  <1>6. ASSUME ~mixed PROVE Ordered(T)
    <2>1. SUFFICES ASSUME NEW x \in T, NEW y \in T, x.id < y.id, y.st # "sent" PROVE x.st # "sent" BY DEF Ordered
    <2>2. PICK p \in net : x.id = p.id /\ x.st = p.st BY <1>5
    <2>3. PICK q \in net : y.id = q.id /\ y.st = q.st BY <1>5
    <2>4. QED BY <1>2, <1>6, <2>1, <2>2, <2>3 DEF Ordered
  <1>7. KnownReports(T, {}, db)
    <2>1. ASSUME NEW x \in T, x.op = "poll"
          PROVE  x.arg = [id |-> x.arg.id, rest |-> x.arg.rest] /\ PollIds(x) \subseteq 1..Cardinality(db.rows)
      <3>1. PICK q \in net : q.op = "poll" /\ x.arg = q.arg BY <1>5, <2>1
      <3>2. PollIds(x) = PollIds(q) BY <3>1 DEF PollIds
      <3>3. QED BY <1>2, <3>1, <3>2 DEF KnownReports
    <2>2. \A x \in T : \E q \in net : x.op = q.op /\ x.st = q.st /\ x.ans = q.ans BY <1>5
    <2>3. \A x \in T : x.op = "plans" /\ x.st = "ok" => x.ans \subseteq {1, 2, 3} BY <1>2, <2>2 DEF KnownReports
    <2>4. \A x \in T : x.op = "generate" /\ x.st = "ok" => x.ans \in db.rows BY <1>2, <2>2 DEF KnownReports
    <2>5. db.told \subseteq 1..Cardinality(db.rows) BY <1>2 DEF KnownReports
    <2>6. QED BY <2>1, <2>3, <2>4, <2>5 DEF KnownReports
  <1>8. ASSUME ~db.crossed PROVE ToldOnce(T, {}, db)
    <2>1. ToldOnce(net, ListedJobs, db) BY <1>2, <1>8
    <2>2. ASSUME NEW x \in T, x.op = "poll" PROVE x.arg.id \notin x.arg.rest /\ PollIds(x) \cap db.told = {}
      <3>1. PICK q \in net : q.op = "poll" /\ x.arg = q.arg BY <1>5, <2>2
      <3>2. PollIds(x) = PollIds(q) BY <3>1 DEF PollIds
      <3>3. QED BY <2>1, <3>1, <3>2 DEF ToldOnce
    <2>3. ASSUME NEW x \in T, NEW e \in T, x.op = "poll", e.op = "poll" PROVE x = e
      <3>1. PICK p \in net : x = g[p] /\ p.op = "poll" BY <1>5, <2>3
      <3>2. PICK q \in net : e = g[q] /\ q.op = "poll" BY <1>5, <2>3
      <3>3. p = q BY <2>1, <3>1, <3>2 DEF ToldOnce
      <3>4. QED BY <3>1, <3>2, <3>3
    <2>4. ASSUME NEW x \in T, x.op = "generate", x.st = "ok"
          PROVE  /\ x.ans.id \notin db.told
                 /\ \A e \in T : e.op = "poll" => x.ans.id \notin PollIds(e)
                 /\ \A h \in T : h.op = "generate" /\ h.st = "ok" /\ h.ans.id = x.ans.id => h = x
      <3>1. PICK q \in net : x = g[q] /\ q.op = "generate" /\ q.st = "ok" /\ x.ans = q.ans BY <1>5, <2>4
      <3>2. ASSUME NEW e \in T, e.op = "poll" PROVE x.ans.id \notin PollIds(e)
        <4>1. PICK p \in net : p.op = "poll" /\ e.arg = p.arg BY <1>5, <3>2
        <4>2. PollIds(e) = PollIds(p) BY <4>1 DEF PollIds
        <4>3. QED BY <2>1, <3>1, <4>1, <4>2 DEF ToldOnce
      <3>3. ASSUME NEW h \in T, h.op = "generate", h.st = "ok", h.ans.id = x.ans.id PROVE h = x
        <4>1. PICK p \in net : h = g[p] /\ p.op = "generate" /\ p.st = "ok" /\ h.ans = p.ans BY <1>5, <3>3
        <4>2. p = q BY <2>1, <3>1, <3>3, <4>1 DEF ToldOnce
        <4>3. QED BY <3>1, <4>1, <4>2
      <3>4. q.ans.id \notin db.told BY <2>1, <3>1 DEF ToldOnce
      <3>5. QED BY <3>1, <3>2, <3>3, <3>4
    <2>5. QED BY <2>1, <2>2, <2>3, <2>4 DEF ToldOnce, JobIds
  <1>9. ListedJobs' = {} BY <1>2 DEF ListedJobs
  <1>10. \A x \in T : ~x.here BY <1>5
  <1>11. QED BY ONLY <1>2, <1>3, <1>6, <1>7, <1>8, <1>9, <1>10 DEF ReportsInv

\* The page as it is mounted.
LEMMA FreshReports == /\ IsReportView(Reports!Fresh) /\ Reports!Fresh.jobs = {} /\ Reports!Fresh.sel = None /\ Reports!Fresh.loading /\ ~Reports!Fresh.generating
                 /\ Reports!Fresh.download = None
  <1>1. PICK y, n : y = TRUE /\ n = FALSE OBVIOUS
  <1>2. Reports!Fresh = [loading |-> y, plans |-> {}, sel |-> None, history |-> {}, type |-> "full_plan",
                 sections |-> y, generating |-> n, jobs |-> {}, download |-> None]
    BY <1>1 DEF Reports!Fresh
  <1>3. QED BY <1>1, <1>2 DEF IsReportView
LEMMA ReportsOpenKept == ASSUME ReportsInv, Reports!Open PROVE ReportsInv'
  <1>1. PICK w : w = Reports!Fresh OBVIOUS
  <1>2. PICK T : T = net' OBVIOUS
  <1>3. /\ page = "away" /\ page' = "reports" /\ view' = w /\ T = Reports!Send(net, << <<"plans", None>> >>)
        /\ db' = db /\ lost' = lost /\ mixed' = mixed
    BY <1>1, <1>2 DEF Reports!Open, Reports!Mount
  <1>4. /\ IsReportView(w) /\ w.jobs = {} /\ w.sel = None /\ w.loading /\ ~w.generating /\ w.download = None
    BY <1>1, FreshReports
  <1>5. Numbered(net) /\ \A q \in net : ~q.here BY <1>3 DEF ReportsInv
  <1>6. PICK f, F : Passage(f, net, T, F) /\ F # {} /\ \A x \in F : x.here /\ x.op = "plans" BY <1>3, <1>5, ReportsOne
  <1>7. ListedJobs' = ListedJobs BY <1>3, <1>4 DEF ListedJobs
  <1>8. ReportsBase' BY <1>2, <1>3, <1>6, <1>7, ReportsBaseSame
  <1>9. F \subseteq T BY <1>6 DEF Passage, Moved
  <1>10. ReportsBusy(T, w) BY <1>4, <1>6, <1>9 DEF ReportsBusy
  <1>11. \A x \in T : x.here => x \in F BY <1>5, <1>6, Origin
  <1>12. Histories(T) = {} BY <1>6, <1>11 DEF Histories
  <1>13. \A c, d \in T : ~c.here /\ d.here => c.id < d.id
    <2>1. SUFFICES ASSUME NEW c \in T, NEW d \in T, ~c.here, d.here PROVE c.id < d.id OBVIOUS
    <2>2. PICK q \in net : c = f[q] BY <1>6, <2>1 DEF Passage, Moved
    <2>3. d \in F BY <1>11, <2>1
    <2>4. QED BY <1>6, <2>2, <2>3 DEF Passage, Moved
  <1>14. HistoryTrue(T, w, db.rows) BY <1>4, <1>12, <1>13 DEF HistoryTrue
  <1>15. ReportsMounted(net, view, db)' BY <1>2, <1>3, <1>4, <1>10, <1>14 DEF ReportsMounted
  <1>16. QED BY <1>3, <1>8, <1>15 DEF ReportsInv, ReportsBase

\* What a page that was opened long ago shows.
LEMMA OpenedIs == ASSUME NEW rows PROVE
  Reports!Opened(rows) = [loading |-> FALSE, plans |-> Reports!Plans, sel |-> 1, history |-> {r \in rows : r.plan = 1}, type |-> "full_plan",
                  sections |-> TRUE, generating |-> FALSE, jobs |-> {}, download |-> None]
  <1>1. PICK y, n, h : y = TRUE /\ n = FALSE /\ h = {r \in rows : r.plan = 1} OBVIOUS
  <1>2. Reports!Fresh = [loading |-> y, plans |-> {}, sel |-> None, history |-> {}, type |-> "full_plan",
                 sections |-> y, generating |-> n, jobs |-> {}, download |-> None]
    BY <1>1 DEF Reports!Fresh
  <1>3. Reports!Opened(rows) = [Reports!Fresh EXCEPT !.loading = n, !.plans = Reports!Plans, !.sel = 1, !.history = h] BY <1>1 DEF Reports!Opened
  <1>4. Reports!Opened(rows) = [loading |-> n, plans |-> Reports!Plans, sel |-> 1, history |-> h, type |-> "full_plan",
                        sections |-> y, generating |-> n, jobs |-> {}, download |-> None]
    BY <1>2, <1>3
  <1>5. QED BY ONLY <1>1, <1>4
LEMMA ReportsInit == ASSUME None \notin Nat, Reports!Init PROVE ReportsInv
  <1>1. PICK rows \in {{}, {Reports!Report(1, 1)}, {Reports!Report(1, 1), Reports!Report(2, 2)}}, plans \in {Reports!Plans, {2}, {}} :
         /\ db = [page |-> "reports", plans |-> plans \cup {Reports!Archived}, rows |-> rows, told |-> {},
                  again |-> FALSE, crossed |-> FALSE]
         /\ \/ view = Reports!Fresh /\ net = Reports!Send({}, << <<"plans", None>> >>)
            \/ plans = Reports!Plans /\ view = Reports!Opened(rows) /\ net = {}
            \/ /\ plans = Reports!Plans /\ Reports!Report(2, 2) \in rows /\ net = {}
               /\ view = [Reports!Opened(rows) EXCEPT !.jobs = {Reports!Job(Reports!Report(2, 2)), Reports!Job(Reports!Report(1, 1))}]
    BY DEF Reports!Init
  <1>2. page = "reports" /\ lost = 0 /\ ~mixed BY DEF Reports!Init
  <1>3. /\ IsFiniteSet(rows) /\ \A r \in rows : IsReport(r) /\ r.id \in 1..Cardinality(rows)
        /\ Reports!Report(2, 2) \in rows => Cardinality(rows) = 2
    <2>1. PICK p, q : p = Reports!Report(1, 1) /\ q = Reports!Report(2, 2) OBVIOUS
    <2>2. p = [id |-> 1, plan |-> 1] /\ q = [id |-> 2, plan |-> 2] BY <2>1 DEF Reports!Report
    <2>3. IsReport(p) /\ IsReport(q) /\ p.id = 1 /\ q.id = 2 /\ p # q BY <2>2 DEF IsReport
    <2>4. CASE rows = {} BY <2>4, FS_EmptySet
    <2>5. CASE rows = {p}
      <3>1. IsFiniteSet(rows) /\ Cardinality(rows) = 1 BY <2>5, FS_Singleton
      <3>2. QED BY <2>1, <2>3, <2>5, <3>1
    <2>6. CASE rows = {p, q}
      <3>1. IsFiniteSet({p}) /\ Cardinality({p}) = 1 BY FS_Singleton
      <3>2. IsFiniteSet({p} \cup {q}) /\ Cardinality({p} \cup {q}) = 2 BY <2>3, <3>1, FS_AddElement
      <3>3. rows = {p} \cup {q} BY <2>6
      <3>4. QED BY <2>3, <2>6, <3>2, <3>3
    <2>7. QED BY <2>1, <2>4, <2>5, <2>6
  <1>4. /\ db.rows = rows /\ db.told = {} /\ ~db.again /\ ~db.crossed /\ IsReportDb(db)
    <2>1. PICK n : n = FALSE OBVIOUS
    <2>2. db = [page |-> "reports", plans |-> plans \cup {Reports!Archived}, rows |-> rows, told |-> {}, again |-> n, crossed |-> n]
      BY <1>1, <2>1
    <2>3. plans \cup {Reports!Archived} \subseteq {1, 2, 3} BY DEF Reports!Plans, Reports!Archived
    <2>4. QED BY <1>3, <2>1, <2>2, <2>3 DEF IsReportDb
  <1>5. Numbered(net) /\ \A c \in net : c.st = "sent" /\ c.here /\ c.op = "plans"
    <2>1. Numbered({}) BY FS_EmptySet DEF Numbered
    <2>2. CASE net = {} BY <2>1, <2>2
    <2>3. CASE net = Reports!Send({}, << <<"plans", None>> >>)
      <3>1. PICK asks : asks = << <<"plans", None>> >> OBVIOUS
      <3>2. PICK n \in Nat : n = 1 OBVIOUS
      <3>3. DOMAIN asks = 1..n /\ \A i \in 1..n : asks[i][1] = "plans" BY <3>1, <3>2
      <3>4. PICK S : S = {} OBVIOUS
      <3>5. Numbered(S) /\ net = Reports!Send(S, asks) BY <2>1, <2>3, <3>1, <3>4
      <3>6. /\ Numbered(net)
            /\ \A x \in net \ S : x.st = "sent" /\ x.here /\ \E i \in 1..n : x.op = asks[i][1]
        BY <3>3, <3>5, SendNumbered, ReportsSend
      <3>7. QED BY <3>3, <3>4, <3>6
    <2>4. QED BY <1>1, <2>2, <2>3
  <1>6. Ordered(net) BY <1>5 DEF Ordered
  <1>7. CASE view = Reports!Fresh /\ net = Reports!Send({}, << <<"plans", None>> >>)
    <2>1. PICK w : w = Reports!Fresh OBVIOUS
    <2>2. IsReportView(w) /\ w.jobs = {} /\ w.sel = None /\ w.loading /\ ~w.generating /\ w.download = None /\ view = w
      BY <1>7, <2>1, FreshReports
    <2>3. \E c \in net : c.here /\ c.op = "plans"
      <3>1. PICK c : c = Reports!Request(Cardinality({}) + 1, <<"plans", None>>) OBVIOUS
      <3>2. c \in net BY <1>7, <3>1, ReportsCount DEF Reports!Send
      <3>3. QED BY <1>5, <3>2
    <2>4. ReportsBusy(net, w) BY <2>2, <2>3 DEF ReportsBusy
    <2>5. Histories(net) = {} BY <1>5 DEF Histories
    <2>6. HistoryTrue(net, w, db.rows) BY <1>5, <2>2, <2>5 DEF HistoryTrue
    <2>7. ListedJobs = {} BY <1>2, <2>2 DEF ListedJobs
    <2>8. KnownReports(net, {}, db) /\ ToldOnce(net, {}, db) BY <1>4, <1>5 DEF KnownReports, ToldOnce
    <2>9. QED BY <1>2, <1>4, <1>5, <1>6, <2>2, <2>4, <2>6, <2>7, <2>8 DEF ReportsInv, ReportsMounted
  <1>8. CASE net = {} /\ plans = Reports!Plans
    <2>1. PICK n, y, h : n = FALSE /\ y = TRUE /\ h = {r \in rows : r.plan = 1} OBVIOUS
    <2>2. PICK jobs :
            /\ view = [loading |-> n, plans |-> Reports!Plans, sel |-> 1, history |-> h, type |-> "full_plan",
                       sections |-> y, generating |-> n, jobs |-> jobs, download |-> None]
            /\ jobs = {} \/ (Reports!Report(2, 2) \in rows /\ jobs = {Reports!Job(Reports!Report(2, 2)), Reports!Job(Reports!Report(1, 1))})
      <3>1. Reports!Opened(rows) = [loading |-> n, plans |-> Reports!Plans, sel |-> 1, history |-> h, type |-> "full_plan",
                            sections |-> y, generating |-> n, jobs |-> {}, download |-> None]
        BY <2>1, OpenedIs
      <3>2. CASE view = Reports!Opened(rows) BY <3>1, <3>2
      <3>3. CASE Reports!Report(2, 2) \in rows /\ view = [Reports!Opened(rows) EXCEPT !.jobs = {Reports!Job(Reports!Report(2, 2)), Reports!Job(Reports!Report(1, 1))}]
        <4>1. PICK jobs : jobs = {Reports!Job(Reports!Report(2, 2)), Reports!Job(Reports!Report(1, 1))} OBVIOUS
        <4>2. view = [loading |-> n, plans |-> Reports!Plans, sel |-> 1, history |-> h, type |-> "full_plan",
                      sections |-> y, generating |-> n, jobs |-> jobs, download |-> None]
          BY <3>1, <3>3, <4>1
        <4>3. QED BY <3>3, <4>1, <4>2
      <3>4. CASE view = Reports!Fresh /\ net = Reports!Send({}, << <<"plans", None>> >>)
        <4>1. Reports!Request(Cardinality({}) + 1, <<"plans", None>>) \in net BY <3>4, ReportsCount DEF Reports!Send
        <4>2. QED BY <1>8, <4>1
      <3>5. QED BY <1>1, <3>2, <3>3, <3>4
    <2>3. ListedJobs = jobs BY <1>2, <2>2 DEF ListedJobs
    <2>4. KnownReports(net, jobs, db)
      <3>1. \A i, p : Reports!Job(Reports!Report(i, p)) = [id |-> i, plan |-> p, st |-> "processing"] BY DEF Reports!Job, Reports!Report
      <3>2. jobs # {} => Cardinality(rows) = 2 BY <1>3, <2>2
      <3>3. \A j \in jobs : j = [id |-> j.id, plan |-> j.plan, st |-> j.st] /\ j.id \in 1..Cardinality(rows)
        BY <2>2, <3>1, <3>2
      <3>4. QED BY <1>4, <1>8, <3>3 DEF KnownReports
    <2>5. ToldOnce(net, jobs, db) BY <1>4, <1>8 DEF ToldOnce
    <2>6. IsReportView(view) /\ view.sel = 1 /\ view.history = h /\ ~view.loading /\ ~view.generating /\ view.download = None
      BY <2>1, <2>2 DEF IsReportView, Reports!Plans
    <2>7. ReportsBusy(net, view) BY <2>6 DEF ReportsBusy
    <2>8. Covers(h, 1, net, view, rows) BY <2>1 DEF Covers
    <2>9. HistoryTrue(net, view, db.rows) BY <1>4, <1>8, <2>6, <2>8 DEF HistoryTrue, Histories
    <2>10. QED BY <1>2, <1>4, <1>5, <1>6, <2>3, <2>4, <2>5, <2>6, <2>7, <2>9 DEF ReportsInv, ReportsMounted
  <1>9. QED BY <1>1, <1>7, <1>8

LEMMA ReportsStep == ASSUME None \notin Nat, ReportsInv, Reports!Next PROVE ReportsInv'
  <1>1. CASE Reports!User
    BY <1>1, ChoosePlanKept, FormKept, GenerateKept, DownloadKept, ReportsLeaveKept, ReportsOpenKept DEF Reports!User
  <1>2. CASE Reports!Answers
    BY <1>2, PlansLoadedKept, HistoryLoadedKept, GeneratedKept, TickKept, PolledKept, DownloadedKept DEF Reports!Answers
  <1>3. CASE Reports!Server BY <1>3, ReportsServerKept
  <1>4. QED BY <1>1, <1>2, <1>3 DEF Reports!Next
LEMMA ReportsStutter == ASSUME ReportsInv, UNCHANGED Reports!vars PROVE ReportsInv'
  <1>1. /\ page' = page /\ view' = view /\ net' = net /\ db' = db /\ lost' = lost /\ mixed' = mixed BY DEF Reports!vars
  <1>2. ListedJobs' = ListedJobs BY <1>1 DEF ListedJobs
  <1>3. ReportsMounted(net, view, db)' <=> ReportsMounted(net, view, db) BY <1>1 DEF ReportsMounted
  <1>4. QED BY <1>1, <1>2, <1>3 DEF ReportsInv
LEMMA ReportsTell == ASSUME ReportsInv PROVE db.page = "reports" /\ Reports!Truth /\ Reports!Settled
  <1>1. db.page = "reports" BY DEF ReportsInv, IsReportDb
  <1>2. Reports!Settled
    <2>1. SUFFICES ASSUME page = "reports", net = {} PROVE ~view.loading /\ ~view.generating /\ view.download = None
      BY DEF Reports!Settled, Reports!Here, Reports!Quiet
    <2>2. ReportsBusy(net, view) BY <2>1 DEF ReportsInv, ReportsMounted
    <2>3. QED BY <2>1, <2>2 DEF ReportsBusy
  <1>3. Reports!Truth
    <2>1. ASSUME Reports!Here, Reports!Quiet, Reports!Calm, view.sel # None
          PROVE  /\ view.history \subseteq Reports!Reports(view.sel)
                 /\ \A r \in Reports!Reports(view.sel) \ view.history : \E j \in view.jobs : j.id = r.id
      <3>1. net = {} /\ HistoryTrue(net, view, db.rows) BY <2>1 DEF ReportsInv, ReportsMounted, Reports!Here, Reports!Quiet, Reports!Calm
      <3>2. Covers(view.history, view.sel, net, view, db.rows) BY <2>1, <3>1 DEF HistoryTrue, Histories
      <3>3. QED BY <3>1, <3>2 DEF Covers, Reports!Reports, JobIds
    <2>2. db.again => db.crossed BY DEF ReportsInv, ToldOnce
    <2>3. QED BY <2>1, <2>2 DEF Reports!Truth
  <1>4. QED BY <1>1, <1>2, <1>3
=============================================================================
