----------------------------- MODULE PlanBoard -----------------------------
(***************************************************************************)
(* The strategic pillars of a plan (LocalPlanBoard.tsx with the activity   *)
(* dialog CreateActivityModal.tsx), inside PlanDetailPage, which owns the  *)
(* activities.  Every handler ends with load(): the board shows a skeleton *)
(* in place of its sections, so whatever they held (an open dialog, a      *)
(* panel, an editor) is unmounted and starts again.  Titles are "x" or "y".*)
(***************************************************************************)
EXTENDS AiPanel

NoModal == [for |-> None]
Modal(obj) == [for |-> obj, pillar |-> None, obj |-> obj, pillars |-> {}, objs |-> {},
               listing |-> TRUE, picked |-> FALSE, busy |-> FALSE]

Fresh == [plan |-> FALSE, acts |-> {}, pillars |-> {}, objs |-> {}, loading |-> TRUE,
          busy |-> FALSE, open |-> {}, from |-> None, modal |-> NoModal,
          target |-> None, deleting |-> FALSE, ai |-> NoAi]

Live == {a \in db.acts : ~a.gone}
Ids(rows) == {r.id : r \in rows}
Under(rows, up) == {r \in rows : r.up = up}
FirstId(rows) == CHOOSE i \in Ids(rows) : \A j \in Ids(rows) : i <= j

Pillars0    == {[id |-> 1, t |-> "x"], [id |-> 2, t |-> "x"]}
Objectives0 == {[id |-> 3, up |-> 1, t |-> "x"], [id |-> 4, up |-> 2, t |-> "x"]}
Activities0 == {[id |-> 5, up |-> 3, gone |-> FALSE], [id |-> 6, up |-> 4, gone |-> TRUE]}
InUse == [Fresh EXCEPT !.plan = TRUE, !.loading = FALSE, !.pillars = Pillars0,
                       !.objs = Objectives0, !.acts = Live, !.open = {1, 2}]

\* The page is being opened, on the pillar an editor came back to, or in use.
Init ==
    /\ page = "board" /\ acts = MaxActs /\ lost = 0 /\ mixed = FALSE
    /\ \E edit \in BOOLEAN, del \in BOOLEAN :
         /\ del => edit
         /\ db = [page |-> "board", edit |-> edit, del |-> del, next |-> 7,
                  pillars |-> Pillars0, objs |-> Objectives0, acts |-> Activities0]
    /\ \/ /\ \E from \in {None, 1} : view = [Fresh EXCEPT !.from = from]
          /\ net = Send({}, << <<"plan", None>> >>)
       \/ view = InUse /\ net = {}
       \/ \E of \in {0, 2, 3} : view = [InUse EXCEPT !.ai = Drafted(of, 2)] /\ net = {}

Here == page = "board"
Usable == Here /\ view.plan /\ ~view.loading

----------------------------------------------------------------------------
(* load() of the board and of the page around it. *)

\* setLoading(true): the sections and the dialog are unmounted; the dialog comes
\* back blank as long as addActivityFor is set.
Reloading(v) ==
    [v EXCEPT !.loading = TRUE,
              !.modal = IF @.for = None THEN @ ELSE Modal(@.for),
              !.ai = IF @.of \in {None, 0} THEN @ ELSE NoAi]

\* What becomes of the requests of the components that are unmounted.
WithoutModal(calls) ==
    {CASE c.op = "modalLists" -> [c EXCEPT !.here = FALSE]
       [] c.op = "create"     -> [c EXCEPT !.arg.mine = FALSE]
       [] OTHER               -> c : c \in calls}
WithoutSections(calls) ==
    {IF c.op = "draft" /\ c.arg.of # 0 THEN [c EXCEPT !.here = FALSE] ELSE c : c \in WithoutModal(calls)}

\* The handler ends with load(), and with onChanged() when `both`; that of a board
\* left behind sends the same requests and unmounts nothing.
EndLoading(c, both, v) ==
    LET asks == << <<"lists", None>> >> \o IF both THEN << <<"plan", None>> >> ELSE <<>>
    IN  IF c.here THEN Answered(c, Send(WithoutSections(Without(c)), asks), Reloading(v))
        ELSE ResumeAsks(c, asks, view)

\* PlanDetailPage.load: the board is mounted with the plan and loads its own lists.
PlanLoaded ==
    /\ Here
    /\ \E c \in Waiting("plan") :
         IF c.st # "ok" \/ ~c.here THEN Resume(c, view)
         ELSE IF view.plan THEN Resume(c, [view EXCEPT !.acts = c.ans])
         ELSE ResumeAsk(c, "lists", None, [view EXCEPT !.plan = TRUE, !.acts = c.ans])

\* load(): a section is opened only on the way back from an editor; then the
\* dialog, if one is wanted, is mounted and loads its own lists.
ListsLoaded ==
    /\ Here
    /\ \E c \in Waiting("lists") :
         LET v == IF c.st # "ok" THEN [view EXCEPT !.loading = FALSE]
                  ELSE [view EXCEPT !.loading = FALSE, !.pillars = c.ans.pillars, !.objs = c.ans.objs,
                                    !.open = IF @ = {} /\ view.from \in Ids(c.ans.pillars)
                                             THEN {view.from} ELSE @]
         IN  IF c.here /\ view.loading /\ view.modal.for # None
             THEN ResumeAsk(c, "modalLists", None, v) ELSE Resume(c, v)

----------------------------------------------------------------------------
(* The handlers of the board: setBusy, one request, load() or a toast.     *)
(* `busy` disables two buttons, not the Enter key nor the other handlers.  *)

Shows(o) == o.up \in view.open
Handle(op, arg) == db.edit /\ Ask(op, arg, [view EXCEPT !.busy = TRUE])
\* Mutant: the handler ends without load().
HandledKeeps(op) ==
    Here /\ \E c \in Waiting(op) : Resume(c, [view EXCEPT !.busy = FALSE])
Handled(op) ==
    Here /\ \E c \in Waiting(op) :
        IF c.st = "ok" THEN EndLoading(c, FALSE, [view EXCEPT !.busy = FALSE])
        ELSE Resume(c, [view EXCEPT !.busy = FALSE])

TogglePillar ==
    Usable /\ \E p \in Ids(view.pillars) :
        Local([view EXCEPT !.open = IF p \in @ THEN @ \ {p} ELSE @ \cup {p}])

AddPillar       == \/ Usable /\ Handle("addPillar", None)
                   \/ Handled("addPillar")
RenamePillar    == \/ Usable /\ \E p \in view.pillars : Handle("setPillar", [id |-> p.id, t |-> "y"])
                   \/ Handled("setPillar")
DeletePillar    == \/ Usable /\ \E p \in view.pillars : Handle("delPillar", [id |-> p.id])
                   \/ Handled("delPillar")
AddObjective    == \/ Usable /\ \E p \in Ids(view.pillars) \cap view.open : Handle("addObjective", [up |-> p])
                   \/ Handled("addObjective")
RenameObjective == \/ Usable /\ \E o \in view.objs : Shows(o) /\ Handle("setObjective", [id |-> o.id, t |-> "y"])
                   \/ Handled("setObjective")
DeleteObjective == \/ Usable /\ \E o \in view.objs : Shows(o) /\ Handle("delObjective", [id |-> o.id])
                   \/ Handled("delObjective")

\* The bin of an activity opens a dialog; its second button deletes, and the
\* dialog closes whatever the answer.
DeleteActivity ==
    \/ /\ Usable /\ db.del /\ view.target = None /\ view.modal.for = None
       /\ \E a \in view.acts : \E o \in view.objs :
            o.id = a.up /\ Shows(o) /\ Local([view EXCEPT !.target = a.id])
    \/ Usable /\ view.target # None /\ Local([view EXCEPT !.target = None])
    \/ /\ Usable /\ view.target # None /\ ~view.deleting
       /\ Ask("delActivity", [id |-> view.target], [view EXCEPT !.deleting = TRUE])
    \/ Here /\ \E c \in Waiting("delActivity") :
         LET v == [view EXCEPT !.deleting = FALSE, !.target = None]
         IN  IF c.st = "ok" THEN ResumeAsk(c, "plan", None, v) ELSE Resume(c, v)

----------------------------------------------------------------------------
(* CreateActivityModal. *)

InModal == Usable /\ view.modal.for # None

OpenModal ==
    /\ Usable /\ db.edit /\ view.modal.for = None /\ view.target = None
    /\ \E o \in view.objs : Shows(o) /\ Ask("modalLists", None, [view EXCEPT !.modal = Modal(o.id)])

\* Mutant: it is the first one whatever the dialog was opened from.
PreselectFirst(m) ==
    IF m.pillars = {} THEN m
    ELSE LET p == FirstId(m.pillars) IN
         [m EXCEPT !.pillar = p, !.obj = IF Under(m.objs, p) = {} THEN @ ELSE FirstId(Under(m.objs, p))]
\* The lists are in: the objective the dialog was opened from is preselected,
\* or else the first pillar and its first objective, if it has one.
Preselect(m) ==
    IF m.for \in Ids(m.objs)
    THEN [m EXCEPT !.pillar = (CHOOSE o \in m.objs : o.id = m.for).up, !.obj = m.for]
    ELSE IF m.pillars = {} THEN m
    ELSE LET p == FirstId(m.pillars) IN
         [m EXCEPT !.pillar = p, !.obj = IF Under(m.objs, p) = {} THEN @ ELSE FirstId(Under(m.objs, p))]
ModalListed ==
    Here /\ \E c \in Waiting("modalLists") :
        Resume(c, IF ~c.here THEN view
                  ELSE IF c.st # "ok" THEN [view EXCEPT !.modal.listing = FALSE]
                  ELSE [view EXCEPT !.modal = Preselect([@ EXCEPT !.listing = FALSE,
                                                !.pillars = c.ans.pillars, !.objs = c.ans.objs])])

\* handlePillarChange, and the list of its objectives.
Pick ==
    /\ InModal /\ ~view.modal.listing
    /\ \/ \E p \in Ids(view.modal.pillars) \ {view.modal.pillar} :
            LET mine == Under(view.modal.objs, p) IN
            Local([view EXCEPT !.modal.pillar = p, !.modal.picked = TRUE,
                               !.modal.obj = IF mine = {} THEN None ELSE FirstId(mine)])
       \/ \E o \in Under(view.modal.objs, view.modal.pillar) :
            o.id # view.modal.obj /\ Local([view EXCEPT !.modal.obj = o.id, !.modal.picked = TRUE])

CloseModal ==
    /\ InModal /\ Gesture
    /\ view' = [view EXCEPT !.modal = NoModal]
    /\ net' = WithoutModal(net)
    /\ UNCHANGED <<page, db, lost, mixed>>

\* handleSubmit, the title typed: the dialog is closed and everything reloaded.
Submit ==
    \/ /\ InModal /\ view.modal.obj # None /\ ~view.modal.busy
       /\ Ask("create", [up |-> view.modal.obj, for |-> view.modal.for,
                         picked |-> view.modal.picked, mine |-> TRUE],
              [view EXCEPT !.modal.busy = TRUE])
    \/ Here /\ \E c \in Waiting("create") :
         IF c.st = "ok" THEN EndLoading(c, TRUE, [view EXCEPT !.modal = NoModal])
         ELSE Resume(c, IF c.arg.mine /\ view.modal.for # None
                        THEN [view EXCEPT !.modal.busy = FALSE] ELSE view)

----------------------------------------------------------------------------
(* Drafts of pillars (of = 0), of a pillar's objectives, of an objective's *)
(* activities: a draft is the number of titles in it.                      *)

Opened(of) == \/ of = 0
              \/ of \in Ids(view.pillars) \cap view.open
              \/ \E o \in view.objs : o.id = of /\ Shows(o)

Panel ==
    \/ Usable /\ db.edit /\ \E of \in {0} \cup Ids(view.pillars) \cup Ids(view.objs) :
         Opened(of) /\ StartAi(of)
    \/ Usable /\ Opened(view.ai.of) /\ (CloseAi \/ SelectAttempt)
    \/ Usable /\ Opened(view.ai.of) /\ Shown /\ Ask("draft", [of |-> view.ai.of], [view EXCEPT !.ai.loading = TRUE])
    \/ Here /\ \E c \in Waiting("draft") :
         Resume(c, IF c.here THEN [view EXCEPT !.ai = WithDraft(@, c)] ELSE view)
    \/ ServeDraft({0, 2})

\* handleAiAccept...: a title that cannot be saved is skipped; load() at the end.
Accept ==
    \/ /\ Usable /\ Opened(view.ai.of) /\ Acceptable
       /\ IF Draft = 0
          THEN /\ Gesture /\ Room
               /\ net' = Send(WithoutSections(net), << <<"lists", None>>, <<"plan", None>> >>)
               /\ view' = Reloading(Applied(view))
               /\ UNCHANGED <<page, db, lost, mixed>>
          ELSE Ask("fan", [of |-> view.ai.of, left |-> Draft - 1], Accepting(view))
    \/ \E c \in Waiting("fan") :
         IF c.arg.left > 0 THEN ResumeAsk(c, "fan", [c.arg EXCEPT !.left = @ - 1], view)
         ELSE IF ~c.here THEN Resume(c, view)
         ELSE EndLoading(c, TRUE, IF c.arg.of = view.ai.of THEN Applied(view) ELSE view)

----------------------------------------------------------------------------
(* The server: strategic_pillars.go, plan_service.go. *)

Lists == [pillars |-> db.pillars, objs |-> db.objs]
Insert(t, row) == [db EXCEPT ![t] = @ \cup {row}, !.next = @ + 1]
Served(c, d) == Serve(c, d, None) \/ LoseAnswer(c, d)

ServeReads == \E c \in net : \/ c.op = "plan" /\ Serve(c, db, Live)
                             \/ c.op \in {"lists", "modalLists"} /\ Serve(c, db, Lists)

CreatePillarRow == \E c \in net :
    /\ c.op = "addPillar" \/ (c.op = "fan" /\ c.arg.of = 0)
    /\ Served(c, Insert("pillars", [id |-> db.next, t |-> "x"]))

\* An objective needs its pillar, an activity its objective.
CreateObjectiveRow == \E c \in net :
    LET up == IF c.op = "fan" THEN c.arg.of ELSE c.arg.up IN
    /\ c.op = "addObjective" \/ (c.op = "fan" /\ c.arg.of \in {1, 2})
    /\ IF up \in Ids(db.pillars)
       THEN Served(c, Insert("objs", [id |-> db.next, up |-> up, t |-> "x"]))
       ELSE Reject(c)
CreateActivityRow == \E c \in net :
    LET up == IF c.op = "fan" THEN c.arg.of ELSE c.arg.up IN
    /\ c.op = "create" \/ (c.op = "fan" /\ c.arg.of > 2)
    /\ IF up \in Ids(db.objs)
       THEN Served(c, Insert("acts", [id |-> db.next, up |-> up, gone |-> FALSE]))
       ELSE Reject(c)

RenameRow == \E c \in net, t \in {"pillars", "objs"} :
    /\ c.op = (IF t = "pillars" THEN "setPillar" ELSE "setObjective")
    /\ IF c.arg.id \in Ids(db[t])
       THEN Served(c, [db EXCEPT ![t] = {IF r.id = c.arg.id THEN [r EXCEPT !.t = c.arg.t] ELSE r : r \in @}])
       ELSE Reject(c)

DeletePillarRow == \E c \in net :
    /\ c.op = "delPillar"
    /\ IF c.arg.id \in Ids(db.pillars) /\ Under(db.objs, c.arg.id) = {}
       THEN Served(c, [db EXCEPT !.pillars = {p \in @ : p.id # c.arg.id}])
       ELSE Reject(c)

\* A deleted activity is not counted, but its row still refers to the objective.
DeleteObjectiveRow == \E c \in net :
    /\ c.op = "delObjective"
    /\ IF c.arg.id \in Ids(db.objs) /\ Under(db.acts, c.arg.id) = {}
       THEN Served(c, [db EXCEPT !.objs = {o \in @ : o.id # c.arg.id}])
       ELSE Reject(c)

DeleteActivityRow == \E c \in net :
    /\ c.op = "delActivity"
    /\ IF c.arg.id \in Ids(Live)
       THEN Served(c, [db EXCEPT !.acts = {IF a.id = c.arg.id THEN [a EXCEPT !.gone = TRUE] ELSE a : a \in @}])
       ELSE Reject(c)

Fail == \E c \in net : Refuse(c)
Gone == \E c \in net : ~c.here /\ c.op \notin {"fan", "modalLists", "draft"} /\ page = "away" /\ Resume(c, view)
Late == \E c \in net : ~c.here /\ c.op \in {"modalLists", "draft"} /\ page = "away" /\ Resume(c, view)

\* Another page and back.
Open == page = "away" /\ Mount("board", Fresh, << <<"plan", None>> >>)

----------------------------------------------------------------------------
User == TogglePillar \/ Leave \/ Open
Board == \/ AddPillar \/ RenamePillar \/ DeletePillar \/ AddObjective \/ RenameObjective
         \/ DeleteObjective \/ DeleteActivity \/ PlanLoaded \/ ListsLoaded
Dialog == OpenModal \/ ModalListed \/ Pick \/ CloseModal \/ Submit
Server == \/ ServeReads \/ CreatePillarRow \/ CreateObjectiveRow \/ CreateActivityRow \/ RenameRow
          \/ DeletePillarRow \/ DeleteObjectiveRow \/ DeleteActivityRow \/ Fail \/ Gone \/ Late
Next == db.page = "board" /\ (User \/ Board \/ Dialog \/ Panel \/ Accept \/ Server)
Spec == Init /\ [][Next]_vars

\* At rest the board shows the pillars, objectives and activities stored.
Truth ==
    Here /\ Quiet /\ Calm =>
        view.pillars = db.pillars /\ view.objs = db.objs /\ view.acts = Live
Settled ==
    Here /\ Quiet /\ view.plan => ~view.loading /\ ~view.busy /\ ~view.deleting /\ Resting
        /\ (view.modal.for # None => ~view.modal.busy /\ ~view.modal.listing)
\* An activity is created under the objective its dialog was opened from, unless
\* the user picked another or the objective is gone.
CreatedWhereAsked ==
    \A c \in net : c.op = "create" /\ c.arg.up # c.arg.for /\ ~c.arg.picked
                   => c.arg.for \notin Ids(db.objs)
=============================================================================
