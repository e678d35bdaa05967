----------------------------- MODULE PlanPages -----------------------------
(***************************************************************************)
(* The table of plans (PlansPage.tsx, with CreatePlanModal.tsx) and the    *)
(* page of one plan (PlanDetailPage.tsx; what it holds is PlanBoard's and  *)
(* PlanChapters' subject), with what they share: the offline queue and its *)
(* map of temporary ids (store/offline.ts, of which OfflineQueue has the   *)
(* details).  `view.on` is the page.  A plan created while the server      *)
(* cannot be reached has the temporary id Temp.                            *)
(***************************************************************************)
EXTENDS Spa

Temp == 100
Statuses == {"active", "review", "archived"}
Plan(i, st) == [id |-> i, st |-> st, pending |-> i = Temp]

List0 == [on |-> "plans", list |-> {}, loading |-> TRUE, filter |-> "all", selected |-> {},
          bulk |-> FALSE, confirm |-> FALSE, target |-> None, busy |-> None,
          creating |-> FALSE, saving |-> FALSE]
Detail0(i) == [on |-> "plan", id |-> i, plan |-> None, loading |-> TRUE, pending |-> FALSE, busy |-> FALSE]

----------------------------------------------------------------------------
(* The stores. *)

Create(op) == op.id = Temp
Queued(i) == \E n \in DOMAIN db.queue : db.queue[n].id = i
Enqueue(op) == [db EXCEPT !.queue = Append(@, op)]
NoResponse(c) == c.st = "err" /\ c.ans # "no"

\* PlanDetailPage.load, up to its first await: where the page of plan i stands.
Placeholder(i) == [Detail0(i) EXCEPT !.pending = TRUE, !.loading = FALSE]
Start(i) == IF i = Temp /\ db.map = None /\ Queued(Temp) THEN Placeholder(i) ELSE Detail0(i)
Asked(i) == IF Start(i).loading /\ (i # Temp \/ db.map = None) THEN << <<"get", [id |-> i]>> >> ELSE <<>>

Init ==
    /\ page = "plans" /\ acts = MaxActs /\ lost = 0 /\ mixed = FALSE
    /\ \E can \in BOOLEAN, q \in {<<>>, << [id |-> Temp, st |-> "draft"] >>} :
         db = [page |-> "plans", can |-> can, rows |-> {Plan(1, "active"), Plan(2, "archived"), Plan(3, "review")},
               next |-> 4, queue |-> q, map |-> None, replayed |-> FALSE, crossed |-> FALSE, torn |-> FALSE]
    /\ \/ view = List0 /\ net = Send({}, << <<"list", "mount">> >>)
       \/ view = [List0 EXCEPT !.list = db.rows, !.loading = FALSE] /\ net = {} /\ db.queue = <<>>
       \/ view = Detail0(1) /\ net = Send({}, << <<"get", [id |-> 1]>> >>)
       \/ view = [Detail0(1) EXCEPT !.plan = Plan(1, "active"), !.loading = FALSE] /\ net = {}
       \/ view = Placeholder(Temp) /\ net = {} /\ db.queue # <<>>

On(p) == page = "plans" /\ view.on = p

----------------------------------------------------------------------------
(* The table. *)

Loaded ==
    On("plans") /\ \E c \in Waiting("list") :
        LET v == [view EXCEPT !.loading = FALSE,
                              !.busy = IF c.arg = "row" THEN None ELSE @,
                              !.target = IF c.arg = "delete" THEN None ELSE @,
                              !.bulk = IF c.arg = "bulk" THEN FALSE ELSE @]
            w == IF c.arg = "delete" THEN [v EXCEPT !.busy = None] ELSE v
        IN  Resume(c, IF ~c.here THEN view ELSE IF c.st = "ok" THEN [w EXCEPT !.list = c.ans] ELSE w)

Undisturbed == On("plans") /\ view.target = None /\ ~view.confirm /\ ~view.creating
Filtered == {p \in view.list : view.filter = "all" \/ p.st = view.filter}
ChosenIds == {p.id : p \in Filtered}

Filter ==
    /\ Undisturbed
    /\ \E f \in {"all", "archived"} \ {view.filter} : Local([view EXCEPT !.filter = f])

\* toggleOne, toggleAll, onClear.
Select ==
    /\ Undisturbed /\ ~view.loading
    /\ \/ \E i \in ChosenIds : Local([view EXCEPT !.selected = SymDiff(@, {i})])
       \/ /\ Filtered # {}
          /\ Local([view EXCEPT !.selected = IF ChosenIds \subseteq @ THEN {} ELSE ChosenIds])
       \/ view.selected # {} /\ Local([view EXCEPT !.selected = {}])

\* The menu of a row, in place of which the row that is busy has a spinner.
RowMenu ==
    /\ Undisturbed /\ ~view.loading
    /\ \E i \in ChosenIds \ {view.busy} :
         \/ Ask("row", [id |-> i, st |-> "archived"], [view EXCEPT !.busy = i])
         \/ Ask("row", [id |-> i, st |-> "copy"], [view EXCEPT !.busy = i])
         \/ Local([view EXCEPT !.target = i])
\* The delete dialog: its button stays enabled.
DeletePlan ==
    /\ On("plans") /\ view.target # None
    /\ \/ Local([view EXCEPT !.target = None])
       \/ Ask("row", [id |-> view.target, st |-> "gone"], [view EXCEPT !.busy = view.target])
Ending(c) == IF c.arg.st = "gone" THEN "delete" ELSE "row"
RowDone == \E c \in Waiting("row") :
    IF c.st = "ok" THEN ResumeAsk(c, "list", Ending(c), view)
    ELSE Resume(c, IF ~(c.here /\ On("plans")) THEN view
                   ELSE [view EXCEPT !.busy = None, !.target = IF Ending(c) = "delete" THEN None ELSE @])

\* handleBulkArchive, handleBulkDelete: all or nothing for the page only.
Bulk ==
    \/ /\ Undisturbed /\ view.selected # {} /\ ~view.bulk
       /\ \/ Ask("bulk", [ids |-> view.selected, st |-> "archived"], [view EXCEPT !.bulk = TRUE])
          \/ Local([view EXCEPT !.confirm = TRUE])
    \/ /\ On("plans") /\ view.confirm
       /\ \/ Local([view EXCEPT !.confirm = FALSE])
          \/ ~view.bulk /\ Ask("bulk", [ids |-> view.selected, st |-> "gone"], [view EXCEPT !.bulk = TRUE])
\* Mutant: the selection is acted on and the table is not read again.
BulkDoneKeeps == \E c \in Waiting("bulk") :
    Resume(c, IF c.here THEN [view EXCEPT !.bulk = FALSE, !.selected = {}, !.confirm = FALSE] ELSE view)
BulkDone == \E c \in Waiting("bulk") :
    IF c.st = "ok"
    THEN ResumeAsk(c, "list", "bulk",
           IF c.here THEN [view EXCEPT !.selected = {}, !.confirm = IF c.arg.st = "gone" THEN FALSE ELSE @]
           ELSE view)
    ELSE Resume(c, IF c.here THEN [view EXCEPT !.bulk = FALSE] ELSE view)

\* Bound: one plan is created while the server cannot be reached.
OnePlan == ~Queued(Temp) /\ db.map = None /\ \A c \in net : c.op # "create"

\* CreatePlanModal: without a response the plan is queued, and shown as pending.
CreatePlan ==
    \/ Undisturbed /\ db.can /\ Local([view EXCEPT !.creating = TRUE, !.saving = FALSE])
    \/ On("plans") /\ view.creating /\ Local([view EXCEPT !.creating = FALSE])
    \/ On("plans") /\ view.creating /\ ~view.saving /\ OnePlan
       /\ Ask("create", None, [view EXCEPT !.saving = TRUE])
    \/ \E c \in Waiting("create") :
         LET v == IF c.here THEN [view EXCEPT !.saving = FALSE] ELSE view
             shut == IF c.here THEN [v EXCEPT !.creating = FALSE] ELSE v
         IN  IF c.st = "ok" THEN ResumeAsk(c, "list", "new", shut)
             ELSE IF NoResponse(c)
             THEN AnsweredWith(c, Without(c),
                    IF c.here THEN [shut EXCEPT !.list = @ \cup {Plan(Temp, "draft")}] ELSE view,
                    Enqueue([id |-> Temp, st |-> "draft"]))
             ELSE Resume(c, v)

----------------------------------------------------------------------------
(* The page of a plan. *)

\* load(), after the await.
PlanLoaded ==
    On("plan") /\ \E c \in Waiting("get") :
        Resume(c, IF ~c.here THEN view
                  ELSE IF c.st = "ok" THEN [view EXCEPT !.loading = FALSE, !.plan = c.ans]
                  ELSE [view EXCEPT !.loading = FALSE])

\* The temporary id has become a real one: navigate(replace) gives the mounted
\* page another planId, whose effect is load().
Jump ==
    /\ On("plan") /\ view.id = Temp /\ db.map # None
    /\ Effect("get", [id |-> db.map], [view EXCEPT !.id = db.map])

\* PlanStatusPicker and handlePlanStatusChange: without a response the change
\* is queued and shown all the same.
\* Mutant: the change is queued and the page keeps the old status.
StatusUnseen(v, c) == v
StatusSeen(v, c) == IF v.plan = None THEN v ELSE [v EXCEPT !.plan.st = c.arg.st]
PickStatus ==
    \/ /\ On("plan") /\ db.can /\ view.plan # None /\ ~view.loading /\ ~view.pending /\ ~view.busy
       /\ \E st \in Statuses \ {view.plan.st} :
            Ask("status", [id |-> view.id, st |-> st], [view EXCEPT !.busy = TRUE])
    \/ \E c \in Waiting("status") :
         LET v == IF c.here THEN [view EXCEPT !.busy = FALSE] ELSE view IN
         IF c.st = "ok" THEN Resume(c, IF c.here THEN [v EXCEPT !.plan = c.ans] ELSE v)
         ELSE IF NoResponse(c)
         THEN AnsweredWith(c, Without(c), IF c.here THEN StatusSeen(v, c) ELSE v, Enqueue(c.arg))
         ELSE Resume(c, v)

----------------------------------------------------------------------------
\* Clicking on a row, and the way back to the table.
Go(v, asks) ==
    /\ Gesture /\ Room
    /\ view' = v
    /\ net' = Send({[c EXCEPT !.here = FALSE] : c \in net}, asks)
    /\ UNCHANGED <<page, db, lost, mixed>>
OpenPlan == Undisturbed /\ ~view.loading /\ \E i \in ChosenIds : Go(Start(i), Asked(i))
Back == On("plan") /\ ~view.loading /\ Go(List0, << <<"list", "mount">> >>)

----------------------------------------------------------------------------
(* The server (plan_service.go) and useSyncEngine. *)

Live == {p \in db.rows : p.st # "gone"}
LiveIds == {p.id : p \in Live}
Set(ids, st) == {IF p.id \in ids /\ p.st # "gone" THEN [p EXCEPT !.st = st] ELSE p : p \in db.rows}
Insert(d, st) == [d EXCEPT !.rows = @ \cup {Plan(d.next, st)}, !.next = @ + 1]
\* A request about a plan is served while an edit of that plan is still queued.
Crossing(d, ids) == [d EXCEPT !.crossed = @ \/ \E i \in ids : Queued(i)]

ServeReads == \E c \in net :
    \/ c.op = "list" /\ Serve(c, db, Live)
    \/ /\ c.op = "get"
       /\ IF c.arg.id \in LiveIds
          THEN Serve(c, Crossing(db, {c.arg.id}), CHOOSE p \in Live : p.id = c.arg.id) ELSE Reject(c)

Answers(c, d, a) == Serve(c, d, a) \/ LoseAnswer(c, d)
ServeRow == \E c \in net :
    /\ c.op \in {"row", "status"}
    /\ IF c.arg.id \notin LiveIds THEN Reject(c)
       ELSE LET i == c.arg.id
                d == Crossing(db, {i})
            IN  IF c.arg.st = "copy" THEN Answers(c, Insert(d, "draft"), None)
                ELSE Answers(c, [d EXCEPT !.rows = Set({i}, c.arg.st)], Plan(i, c.arg.st))

\* The requests of a bulk action: one that is turned down or lost fails the others'
\* Promise, and some of them may have been done.
ServeBulk == \E c \in net :
    /\ c.op = "bulk"
    /\ LET After(ids) == [Crossing(db, ids) EXCEPT !.rows = Set(ids, c.arg.st)] IN
       \/ c.arg.ids \subseteq LiveIds /\ Serve(c, After(c.arg.ids), None)
       \/ /\ ~(c.arg.ids \subseteq LiveIds)
          /\ AnswerIs(c, [After(c.arg.ids) EXCEPT !.torn = TRUE], "err", "no") /\ UNCHANGED lost
       \/ \E done \in SUBSET c.arg.ids : LoseAnswer(c, After(done))

ServeCreate == \E c \in net : c.op = "create" /\ Answers(c, Insert(db, "draft"), None)
Fail == \E c \in net : Refuse(c)

\* The sync engine of AppShell replays the oldest operation of the queue.
Replay ==
    /\ db.queue # <<>>
    /\ LET op == Head(db.queue)
           d  == [db EXCEPT !.queue = Tail(@), !.replayed = TRUE]
       IN  db' = IF Create(op) THEN [Insert(d, op.st) EXCEPT !.map = d.next]
                 ELSE [d EXCEPT !.rows = Set({op.id}, op.st)]
    /\ UNCHANGED <<page, view, net, acts, lost, mixed>>

\* Answers to the page that is no longer shown.
Gone == \E c \in net : c.op \in {"list", "get"} /\ ~c.here /\ Resume(c, view)

----------------------------------------------------------------------------
Table == Loaded \/ Filter \/ Select \/ RowMenu \/ DeletePlan \/ RowDone \/ Bulk \/ BulkDone \/ CreatePlan
PlanPage == PlanLoaded \/ Jump \/ PickStatus
Server == ServeReads \/ ServeRow \/ ServeBulk \/ ServeCreate \/ Fail \/ Replay \/ Gone
Next == db.page = "plans" /\ (Table \/ PlanPage \/ OpenPlan \/ Back \/ Server)
Spec == Init /\ [][Next]_vars

\* The table shows the plans there are.
Truth ==
    On("plans") /\ Quiet /\ Calm /\ ~db.torn /\ ~db.replayed => view.list = Live

\* A change of status outlives a server that cannot be reached: once the
\* queue is empty the plan has the status its page shows.
StatusLasts ==
    On("plan") /\ Quiet /\ ~mixed /\ ~db.crossed /\ db.queue = <<>> /\ view.plan # None
    /\ view.id \in LiveIds
        => view.plan \in Live

Settled ==
    Quiet /\ page = "plans" =>
        IF view.on = "plans" THEN ~view.loading /\ view.busy = None /\ ~view.bulk /\ ~view.saving
        ELSE ~view.busy /\ (view.loading => view.id = Temp)
=============================================================================
