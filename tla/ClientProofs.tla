---------------------------- MODULE ClientProofs ----------------------------
(***************************************************************************)
(* Proofs about Client: what TokensProofs, EditorProofs and PagesProofs    *)
(* prove of their pages holds of every behaviour of the client, for any    *)
(* number of gestures, requests in flight and lost answers.  A behaviour   *)
(* stays on the page it starts on, so its state satisfies ClientInv: it is *)
(* tagged with another page, or has the invariant of one of these five.    *)
(***************************************************************************)
EXTENDS Client, TLAPS

-----------------------------------------------------------------------------
(* The other pages: their steps leave `db.page` alone. *)

Tagged(p) == "page" \in DOMAIN db /\ db.page = p

\* A step of the page "kpis" stays on it.
LEMMA KpisStay == Tagged("kpis") /\ Kpis!Next => Tagged("kpis")'
  <1> USE DEF Tagged, Kpis!Local, Kpis!Gesture, Kpis!Ask, Kpis!Asks, Kpis!Resume, Kpis!Answered,
          Kpis!AnsweredWith, Kpis!Without, Kpis!Serve, Kpis!AnswerIs, Kpis!Leave, Kpis!Mount,
          Kpis!LoseAnswer, Kpis!Failing, Kpis!Refuse
  <1>1. Tagged("kpis") /\ Kpis!User => Tagged("kpis")'
    BY DEF Kpis!User, Kpis!Type, Kpis!BlurValue, Kpis!Unfocused, Kpis!Commit, Kpis!Made,
           Kpis!BlurText, Kpis!Period, Kpis!AddKpi, Kpis!Named, Kpis!RemoveKpi, Kpis!AcceptKpis,
           Kpis!Showing, Kpis!Accepting, Kpis!Panel, Kpis!StartAi, Kpis!CloseAi, Kpis!Closed,
           Kpis!SelectAttempt, Kpis!Generate, Kpis!WithDraft, Kpis!ServeDraft, Kpis!Open
  <1>2. Tagged("kpis") /\ Kpis!Answers => Tagged("kpis")'
    BY DEF Kpis!Answers, Kpis!Loaded, Kpis!Showing, Kpis!Committed, Kpis!Applied, Kpis!Closed,
           Kpis!Answer
  <1>3. Tagged("kpis") /\ Kpis!Server => Tagged("kpis")'
    BY DEF Kpis!Server, Kpis!ServeList, Kpis!ServePut, Kpis!Fail, Kpis!Gone
  <1>4. QED BY <1>1, <1>2, <1>3 DEF Kpis!Next

\* A step of the page "plans" stays on it.
LEMMA PlansStay == Tagged("plans") /\ Plans!Next => Tagged("plans")'
  <1> USE DEF Tagged, Plans!Resume, Plans!Answered, Plans!AnsweredWith, Plans!Without, Plans!Local,
          Plans!Gesture, Plans!Ask, Plans!Asks, Plans!ResumeAsk, Plans!ResumeAsks, Plans!Effect,
          Plans!Serve, Plans!AnswerIs, Plans!Reject, Plans!LoseAnswer, Plans!Failing, Plans!Refuse
  <1>1. Tagged("plans") /\ Plans!Table => Tagged("plans")'
    BY DEF Plans!Table, Plans!Loaded, Plans!Filter, Plans!Select, Plans!RowMenu, Plans!DeletePlan,
           Plans!RowDone, Plans!Bulk, Plans!BulkDone, Plans!CreatePlan, Plans!Enqueue
  <1>2. Tagged("plans") /\ Plans!PlanPage => Tagged("plans")'
    BY DEF Plans!PlanPage, Plans!PlanLoaded, Plans!Jump, Plans!PickStatus, Plans!StatusSeen,
           Plans!Enqueue
  <1>3. Tagged("plans") /\ Plans!OpenPlan => Tagged("plans")'
    BY DEF Plans!OpenPlan, Plans!Go
  <1>4. Tagged("plans") /\ Plans!Back => Tagged("plans")'
    BY DEF Plans!Back, Plans!Go
  <1>5. Tagged("plans") /\ Plans!Server => Tagged("plans")'
    BY DEF Plans!Server, Plans!ServeReads, Plans!Crossing, Plans!ServeRow, Plans!Answers,
           Plans!Insert, Plans!Set, Plans!ServeBulk, Plans!ServeCreate, Plans!Fail, Plans!Replay,
           Plans!Gone
  <1>6. QED BY <1>1, <1>2, <1>3, <1>4, <1>5 DEF Plans!Next

\* A step of the page "chapters" stays on it.
LEMMA ChaptersStay == Tagged("chapters") /\ Chapters!Next => Tagged("chapters")'
  <1> USE DEF Tagged, Chapters!Local, Chapters!Gesture, Chapters!Leave, Chapters!Mount, Chapters!Ask,
          Chapters!Asks, Chapters!Resume, Chapters!Answered, Chapters!AnsweredWith, Chapters!Without,
          Chapters!Serve, Chapters!AnswerIs, Chapters!ResumeAsk, Chapters!ResumeAsks,
          Chapters!LoseAnswer, Chapters!Failing, Chapters!Refuse
  <1>1. Tagged("chapters") /\ Chapters!User => Tagged("chapters")'
    BY DEF Chapters!User, Chapters!TypeDraft, Chapters!Open
  <1>2. Tagged("chapters") /\ Chapters!Panel => Tagged("chapters")'
    BY DEF Chapters!Panel, Chapters!StartAi, Chapters!CloseAi, Chapters!Closed,
           Chapters!SelectAttempt, Chapters!Generate, Chapters!WithDraft, Chapters!ServeDraft
  <1>3. Tagged("chapters") /\ Chapters!Sections => Tagged("chapters")'
    BY DEF Chapters!Sections, Chapters!AddValue, Chapters!AddRow, Chapters!RemoveValue,
           Chapters!RemoveRow, Chapters!AddStakeholder, Chapters!EditStakeholder, Chapters!EditRow,
           Chapters!RemoveStakeholder, Chapters!AddSwot, Chapters!EditSwot, Chapters!RemoveSwot,
           Chapters!AddPestel, Chapters!EditPestel, Chapters!RemovePestel, Chapters!AddRole,
           Chapters!EditRole, Chapters!RemoveRole, Chapters!AddME, Chapters!EditME, Chapters!RemoveME,
           Chapters!Loaded, Chapters!SaveFocus
  <1>4. Tagged("chapters") /\ Chapters!AcceptValues => Tagged("chapters")'
    BY DEF Chapters!AcceptValues, Chapters!Accept, Chapters!Accepting, Chapters!Finish,
           Chapters!NotApplied, Chapters!Applied, Chapters!Closed, Chapters!FanNext
  <1>5. Tagged("chapters") /\ Chapters!AcceptStakeholders => Tagged("chapters")'
    BY DEF Chapters!AcceptStakeholders, Chapters!Accept, Chapters!Accepting, Chapters!Finish,
           Chapters!NotApplied, Chapters!Applied, Chapters!Closed, Chapters!FanNext
  <1>6. Tagged("chapters") /\ Chapters!AcceptSwot => Tagged("chapters")'
    BY DEF Chapters!AcceptSwot, Chapters!Accept, Chapters!Accepting, Chapters!Finish,
           Chapters!NotApplied, Chapters!Applied, Chapters!Closed, Chapters!FanNext
  <1>7. Tagged("chapters") /\ Chapters!AcceptPestel => Tagged("chapters")'
    BY DEF Chapters!AcceptPestel, Chapters!Accept, Chapters!Accepting, Chapters!Finish,
           Chapters!NotApplied, Chapters!Applied, Chapters!Closed, Chapters!FanNext
  <1>8. Tagged("chapters") /\ Chapters!AcceptRoles => Tagged("chapters")'
    BY DEF Chapters!AcceptRoles, Chapters!Accept, Chapters!Accepting, Chapters!Finish,
           Chapters!NotApplied, Chapters!Applied, Chapters!Closed, Chapters!FanNext
  <1>9. Tagged("chapters") /\ Chapters!AcceptME => Tagged("chapters")'
    BY DEF Chapters!AcceptME, Chapters!Accept, Chapters!Accepting, Chapters!Finish,
           Chapters!NotApplied, Chapters!Applied, Chapters!Closed, Chapters!FanNext
  <1>10. Tagged("chapters") /\ Chapters!Server => Tagged("chapters")'
    BY DEF Chapters!Server, Chapters!ServeList, Chapters!ServeFocus, Chapters!ServeCreate,
           Chapters!ServeUpdate, Chapters!ServeDelete, Chapters!Fail, Chapters!Gone
  <1>11. QED BY <1>1, <1>2, <1>3, <1>4, <1>5, <1>6, <1>7, <1>8, <1>9, <1>10 DEF Chapters!Next, Chapters!Acceptance

\* A step of the page "admin" stays on it.
LEMMA AdminStay == Tagged("admin") /\ Admin!Next => Tagged("admin")'
  <1> USE DEF Tagged, Admin!Leave, Admin!Gesture, Admin!Mount, Admin!Asks, Admin!Resume, Admin!Answered,
          Admin!AnsweredWith, Admin!Without, Admin!Ask, Admin!ResumeAsks, Admin!Local, Admin!Serve,
          Admin!AnswerIs, Admin!Reject, Admin!LoseAnswer, Admin!Failing, Admin!Refuse
  <1>1. Tagged("admin") /\ Admin!User => Tagged("admin")'
    BY DEF Admin!User, Admin!Reopen, Admin!Close, Admin!Orphaned, Admin!OnlyActive
  <1>2. Tagged("admin") /\ Admin!TableSteps => Tagged("admin")'
    BY DEF Admin!TableSteps, Admin!ListLoaded, Admin!MemberMenu, Admin!Do, Admin!Start, Admin!TeamRow,
           Admin!MemberInvites, Admin!InviteRow, Admin!TeamInvites, Admin!OrgRow, Admin!RowsDone,
           Admin!Done
  <1>3. Tagged("admin") /\ Admin!CreateOrg => Tagged("admin")'
    BY DEF Admin!CreateOrg, Admin!Open, Admin!OpenDialog, Admin!Submit, Admin!Submitted,
           Admin!Closing, Admin!Orphaned, Admin!Unbusy
  <1>4. Tagged("admin") /\ Admin!InviteOrgAdmin => Tagged("admin")'
    BY DEF Admin!InviteOrgAdmin, Admin!Open, Admin!OpenDialog, Admin!Submit, Admin!Submitted,
           Admin!Closing, Admin!Orphaned, Admin!Unbusy
  <1>5. Tagged("admin") /\ Admin!InviteTeam => Tagged("admin")'
    BY DEF Admin!InviteTeam, Admin!Open, Admin!OpenDialog, Admin!Submit, Admin!Submitted,
           Admin!Closing, Admin!Orphaned, Admin!Unbusy
  <1>6. Tagged("admin") /\ Admin!InviteUser => Tagged("admin")'
    BY DEF Admin!InviteUser, Admin!Open, Admin!OpenDialog, Admin!Submit, Admin!Submitted,
           Admin!Closing, Admin!Orphaned, Admin!Unbusy, Admin!ChooseRole, Admin!PlansRead,
           Admin!TogglePlan
  <1>7. Tagged("admin") /\ Admin!DeleteOrg => Tagged("admin")'
    BY DEF Admin!DeleteOrg, Admin!OpenDialog, Admin!RemoveOrg, Admin!Closing, Admin!Orphaned,
           Admin!Unbusy
  <1>8. Tagged("admin") /\ Admin!OrgDetail => Tagged("admin")'
    BY DEF Admin!OrgDetail, Admin!OpenDialog
  <1>9. Tagged("admin") /\ Admin!DetailToggle => Tagged("admin")'
    BY DEF Admin!DetailToggle, Admin!Unbusy
  <1>10. Tagged("admin") /\ Admin!DetailDelete => Tagged("admin")'
    BY DEF Admin!DetailDelete, Admin!RemoveOrg, Admin!Closing, Admin!Orphaned
  <1>11. Tagged("admin") /\ Admin!Others => Tagged("admin")'
    BY DEF Admin!Others, Admin!OrgAudit, Admin!AuditTab, Admin!Choose, Admin!Turn,
           Admin!PlatformAudit, Admin!AuditLoaded, Admin!ProfileRead, Admin!EditProfile,
           Admin!SaveProfile
  <1>12. Tagged("admin") /\ Admin!Server => Tagged("admin")'
    BY DEF Admin!Server, Admin!ServeReads, Admin!UpdateRow, Admin!Change, Admin!Rewrite,
           Admin!UpdateInvitation, Admin!Create, Admin!Insert, Admin!Delete, Admin!UpdateProfile,
           Admin!Fail, Admin!Gone
  <1>13. QED BY <1>1, <1>2, <1>3, <1>4, <1>5, <1>6, <1>7, <1>8, <1>9, <1>10, <1>11, <1>12 DEF Admin!Next, Admin!Dialogs

-----------------------------------------------------------------------------
(* The invariant. *)

OtherPages == {"chapters", "admin", "plans", "kpis"}
ClientInv == \/ \E p \in OtherPages : Tagged(p)
             \/ Tokens!TokensInv \/ RoutesInv \/ BoardInv \/ ReportsInv \/ Editor!EditorInv

\* What NoneAssumption says, as the pages say it.
LEMMA NoneIsApart == Tokens!NoneApart /\ NoneApart /\ None \notin Nat
  BY NoneAssumption DEF Tokens!NoneApart, Tokens!Pairs, NoneApart

\* Every behaviour starts on one of the pages, as that page starts.
LEMMA ClientStart == Init => ClientInv
  <1>1. Chapters!Init => Tagged("chapters")
    <2> SUFFICES ASSUME Chapters!Init PROVE Tagged("chapters") OBVIOUS
    <2> DEFINE stored(k) == IF k = "role" THEN {[id |-> 1, val |-> 0], [id |-> 2, val |-> 1]}
                            ELSE {[id |-> 1, val |-> CHOOSE v \in Chapters!Vals(k) : TRUE]}
    <2>1. PICK k \in Chapters!Kinds, can \in BOOLEAN :
            db = [page |-> "chapters", kind |-> k, can |-> can, next |-> 3, vm |-> "v1",
                  rows |-> stored(k)]
      BY Zenon DEF Chapters!Init
    <2> HIDE DEF stored
    <2>2. QED BY <2>1 DEF Tagged
  <1>2. Board!Init => BoardInv BY NoneIsApart, BoardInit
  <1>3. Admin!Init => Tagged("admin") BY DEF Admin!Init, Tagged
  <1>4. Plans!Init => Tagged("plans") BY DEF Plans!Init, Tagged
  <1>5. Editor!Init => Editor!EditorInv BY SpaAssumption, Editor!EditorStart
  <1>6. Kpis!Init => Tagged("kpis") BY DEF Kpis!Init, Tagged
  <1>7. Reports!Init => ReportsInv BY NoneIsApart, ReportsInit
  <1>8. Tokens!Init => Tokens!TokensInv BY SpaAssumption, NoneIsApart, Tokens!TokensStart
  <1>9. Routes!Init => RoutesInv BY SpaAssumption, NoneIsApart, RoutesStart
  <1>10. QED BY <1>1, <1>2, <1>3, <1>4, <1>5, <1>6, <1>7, <1>8, <1>9 DEF Init, ClientInv, OtherPages

\* Which page a state is on.
LEMMA WhichPage ==
  /\ Tokens!TokensInv => db.page = "tokens"
  /\ RoutesInv => db.page = "routes"
  /\ Editor!EditorInv => db.page = "editor"
  /\ BoardInv => db.page = "board"
  /\ ReportsInv => db.page = "reports"
  <1>1. ASSUME Tokens!TokensInv PROVE db.page = "tokens" BY <1>1, SpaAssumption, Tokens!TokensTell
  <1>2. ASSUME RoutesInv PROVE db.page = "routes" BY <1>2, SpaAssumption, RoutesTell
  <1>3. ASSUME Editor!EditorInv PROVE db.page = "editor" BY <1>3, SpaAssumption, Editor!EditorTells
  <1>4. ASSUME BoardInv PROVE db.page = "board" BY <1>4, BoardTells
  <1>5. ASSUME ReportsInv PROVE db.page = "reports" BY <1>5, ReportsTell
  <1>6. QED BY <1>1, <1>2, <1>3, <1>4, <1>5

\* A step is one of the page the state is on, and keeps its invariant.
LEMMA ClientStep == ClientInv /\ [Next]_vars => ClientInv'
  <1> SUFFICES ASSUME ClientInv, [Next]_vars PROVE ClientInv' OBVIOUS
  <1>1. CASE Chapters!Next
    <2>1. db.page = "chapters" BY <1>1 DEF Chapters!Next
    <2>2. Tagged("chapters") BY <2>1, WhichPage DEF ClientInv, Tagged
    <2>3. Tagged("chapters")' BY <1>1, <2>2, ChaptersStay
    <2>4. QED BY <2>3 DEF ClientInv, OtherPages
  <1>2. CASE Board!Next
    <2>1. db.page = "board" BY <1>2 DEF Board!Next
    <2>2. BoardInv BY <2>1, WhichPage DEF ClientInv, OtherPages, Tagged
    <2>3. BoardInv' BY <1>2, <2>2, NoneIsApart, BoardStep
    <2>4. QED BY <2>3 DEF ClientInv
  <1>3. CASE Admin!Next
    <2>1. db.page = "admin" BY <1>3 DEF Admin!Next
    <2>2. Tagged("admin") BY <2>1, WhichPage DEF ClientInv, Tagged
    <2>3. Tagged("admin")' BY <1>3, <2>2, AdminStay
    <2>4. QED BY <2>3 DEF ClientInv, OtherPages
  <1>4. CASE Plans!Next
    <2>1. db.page = "plans" BY <1>4 DEF Plans!Next
    <2>2. Tagged("plans") BY <2>1, WhichPage DEF ClientInv, Tagged
    <2>3. Tagged("plans")' BY <1>4, <2>2, PlansStay
    <2>4. QED BY <2>3 DEF ClientInv, OtherPages
  <1>5. CASE Editor!Next
    <2>1. db.page = "editor" BY <1>5 DEF Editor!Next
    <2>2. Editor!EditorInv BY <2>1, WhichPage DEF ClientInv, OtherPages, Tagged
    <2>3. Editor!EditorInv' BY <1>5, <2>2, SpaAssumption, Editor!EditorStep
    <2>4. QED BY <2>3 DEF ClientInv
  <1>6. CASE Kpis!Next
    <2>1. db.page = "kpis" BY <1>6 DEF Kpis!Next
    <2>2. Tagged("kpis") BY <2>1, WhichPage DEF ClientInv, Tagged
    <2>3. Tagged("kpis")' BY <1>6, <2>2, KpisStay
    <2>4. QED BY <2>3 DEF ClientInv, OtherPages
  <1>7. CASE Reports!Next
    <2>1. db.page = "reports" BY <1>7 DEF Reports!Next
    <2>2. ReportsInv BY <2>1, WhichPage DEF ClientInv, OtherPages, Tagged
    <2>3. ReportsInv' BY <1>7, <2>2, NoneIsApart, ReportsStep
    <2>4. QED BY <2>3 DEF ClientInv
  <1>8. CASE Tokens!Next
    <2>1. db.page = "tokens" BY <1>8 DEF Tokens!Next
    <2>2. Tokens!TokensInv BY <2>1, WhichPage DEF ClientInv, OtherPages, Tagged
    <2>3. Tokens!TokensInv' BY <1>8, <2>2, SpaAssumption, Tokens!TokensStep
    <2>4. QED BY <2>3 DEF ClientInv
  <1>9. CASE Routes!Next
    <2>1. db.page = "routes" BY <1>9 DEF Routes!Next
    <2>2. RoutesInv BY <2>1, WhichPage DEF ClientInv, OtherPages, Tagged
    <2>3. RoutesInv' BY <1>9, <2>2, SpaAssumption, RoutesStep
    <2>4. QED BY <2>3 DEF ClientInv
  <1>10. CASE UNCHANGED vars
    <2>1. CASE \E p \in OtherPages : Tagged(p) BY <1>10, <2>1 DEF ClientInv, Tagged, vars
    <2>2. CASE Tokens!TokensInv
      <3>1. UNCHANGED Tokens!vars BY <1>10 DEF vars, Tokens!vars
      <3>2. Tokens!TokensInv' BY <3>1, <2>2, SpaAssumption, Tokens!TokensStutter
      <3>3. QED BY <3>2 DEF ClientInv
    <2>3. CASE RoutesInv
      <3>1. UNCHANGED Routes!vars BY <1>10 DEF vars, Routes!vars
      <3>2. RoutesInv' BY <3>1, <2>3, SpaAssumption, RoutesStutter
      <3>3. QED BY <3>2 DEF ClientInv
    <2>4. CASE Editor!EditorInv
      <3>1. UNCHANGED Editor!vars BY <1>10 DEF vars, Editor!vars
      <3>2. Editor!EditorInv' BY <3>1, <2>4, SpaAssumption, Editor!EditorStutter
      <3>3. QED BY <3>2 DEF ClientInv
    <2>5. CASE BoardInv
      <3>1. UNCHANGED Board!vars BY <1>10 DEF vars, Board!vars
      <3>2. BoardInv' BY <3>1, <2>5, BoardStutter
      <3>3. QED BY <3>2 DEF ClientInv
    <2>6. CASE ReportsInv
      <3>1. UNCHANGED Reports!vars BY <1>10 DEF vars, Reports!vars
      <3>2. ReportsInv' BY <3>1, <2>6, ReportsStutter
      <3>3. QED BY <3>2 DEF ClientInv
    <2>7. QED BY <2>1, <2>2, <2>3, <2>4, <2>5, <2>6 DEF ClientInv
  <1>11. QED BY <1>1, <1>2, <1>3, <1>4, <1>5, <1>6, <1>7, <1>8, <1>9, <1>10 DEF Next

\* Every state a behaviour reaches satisfies the invariant.
LEMMA ClientInvariant == Spec => []ClientInv
  BY ClientStart, ClientStep, PTL DEF Spec

\* What the invariant says of the five pages.
LEMMA TokensPage == ASSUME ClientInv, On("tokens")
  PROVE Tokens!SameIdentity /\ Tokens!SignedOutMeansOut /\ Tokens!ExpiryUnseen
  <1>1. Tokens!TokensInv BY WhichPage DEF ClientInv, OtherPages, Tagged, On
  <1>2. QED BY <1>1, SpaAssumption, Tokens!TokensTell
LEMMA RoutesPage == ASSUME ClientInv, On("routes")
  PROVE Routes!Allowed /\ Routes!OfferedOpen /\ Routes!OneOrg
  <1>1. RoutesInv BY WhichPage DEF ClientInv, OtherPages, Tagged, On
  <1>2. QED BY <1>1, SpaAssumption, RoutesTell
LEMMA EditorPage == ASSUME ClientInv, On("editor")
  PROVE Editor!KeptUnlessSlipped /\ Editor!DraftsNeedApproval
  <1>1. Editor!EditorInv BY WhichPage DEF ClientInv, OtherPages, Tagged, On
  <1>2. QED BY <1>1, SpaAssumption, Editor!EditorTells
LEMMA BoardPage == ASSUME ClientInv, On("board")
  PROVE Board!Truth /\ Board!CreatedWhereAsked
  <1>1. BoardInv BY WhichPage DEF ClientInv, OtherPages, Tagged, On
  <1>2. QED BY <1>1, BoardTells
LEMMA ReportsPage == ASSUME ClientInv, On("reports")
  PROVE Reports!Truth
  <1>1. ReportsInv BY WhichPage DEF ClientInv, OtherPages, Tagged, On
  <1>2. QED BY <1>1, ReportsTell

-----------------------------------------------------------------------------
(* The theorems. *)

\* The user on the screen is the one whose tokens the calls carry, unless somebody signed
\* in over stored tokens, or a refresh met a sign-in, a sign-out or another refresh.
THEOREM ScreenAndTokensAgree == Spec => []SameIdentity
  <1>1. ClientInv => SameIdentity BY TokensPage DEF SameIdentity
  <1>2. QED BY <1>1, ClientInvariant, PTL

\* A log-out leaves no token in the tab and no session on the server, unless a refresh or
\* a reload came between or a request was lost.
THEOREM LogOutLeavesNothing == Spec => []SignedOutMeansOut
  <1>1. ClientInv => SignedOutMeansOut BY TokensPage DEF SignedOutMeansOut
  <1>2. QED BY <1>1, ClientInvariant, PTL

\* An expired access token fails no call and ends no session that lives, however calls,
\* refreshes and replays interleave, unless a request was lost or two refreshes met.
THEOREM RenewalIsTransparent == Spec => []ExpiryUnseen
  <1>1. ClientInv => ExpiryUnseen BY TokensPage DEF ExpiryUnseen
  <1>2. QED BY <1>1, ClientInvariant, PTL

\* Wherever links, late answers, typed addresses and expired sessions send a user, he ends
\* on pages whose calls the router takes from his role, after two redirects at most.
THEOREM UsersEndWhereAllowed == Spec => []PagesAllowed
  <1>1. ClientInv => PagesAllowed BY RoutesPage DEF PagesAllowed
  <1>2. QED BY <1>1, ClientInvariant, PTL

\* None of the four tables of roles offers what the guard or the router refuses.
THEOREM NothingOfferedBounces == Spec => []OfferedPagesOpen
  <1>1. ClientInv => OfferedPagesOpen BY RoutesPage DEF OfferedPagesOpen
  <1>2. QED BY <1>1, ClientInvariant, PTL

\* The page, the banner and the palette of an advisor are of the organisation his next
\* request will carry, unless a dialog he had closed changed it.
THEOREM AdvisorsSeeOneOrg == Spec => []AdvisesOneOrg
  <1>1. ClientInv => AdvisesOneOrg BY RoutesPage DEF AdvisesOneOrg
  <1>2. QED BY <1>1, ClientInvariant, PTL

\* What the editor shows at rest is what the server has, or it says that the save failed,
\* unless requests were served out of order or one of the known slips has happened.
THEOREM WorkIsKept == Spec => []KeptUnlessSlipped
  <1>1. ClientInv => KeptUnlessSlipped BY EditorPage DEF KeptUnlessSlipped
  <1>2. QED BY <1>1, ClientInvariant, PTL

\* The server has no text of the assistant that nobody approved.
THEOREM DraftsAreApproved == Spec => []DraftsNeedApproval
  <1>1. ClientInv => DraftsNeedApproval BY EditorPage DEF DraftsNeedApproval
  <1>2. QED BY <1>1, ClientInvariant, PTL

\* Once every answer is in, in the order of the requests and without a failure, the board
\* lists the pillars, objectives and activities the server has, though its handlers load
\* them again while others patch them.
THEOREM BoardShowsTheRows == Spec => []BoardTrue
  <1>1. ClientInv => BoardTrue BY BoardPage DEF BoardTrue
  <1>2. QED BY <1>1, ClientInvariant, PTL

\* A new activity goes under the objective whose button opened the dialog, though the board
\* reloads under it and remounts it, unless the user picked another or it is gone.
THEOREM ActivitiesGoWhereAsked == Spec => []CreatedWhereAsked
  <1>1. ClientInv => CreatedWhereAsked BY BoardPage DEF CreatedWhereAsked
  <1>2. QED BY <1>1, ClientInvariant, PTL

\* Once every answer is in, in the order of the requests and without a failure, the history
\* of the reports page, with the jobs above it, is that of the selected plan; and as long as
\* no tick of the polling meets the requests of the one before, no report is announced twice.
THEOREM ReportsAreShownAndToldOnce == Spec => []ReportsTrue
  <1>1. ClientInv => ReportsTrue BY ReportsPage DEF ReportsTrue
  <1>2. QED BY <1>1, ClientInvariant, PTL
=============================================================================
