--------------------------- MODULE ActivityEditor ---------------------------
(***************************************************************************)
(* The editor of one activity (ActivityEditorPage.tsx) with its debounced  *)
(* save (hooks/useAutoSave.ts), the draft panel (AiDraftPanel.tsx) and the *)
(* approval of a draft.  An activity of a pillar (`db.nested`) has, in     *)
(* place of the content fields, an editor of its own (LocalActivityEditor, *)
(* KpiPages' subject), of which only the write and its answer matter here. *)
(*                                                                         *)
(* A handler belongs to a render: `view.ready` is the ref `initialised`,   *)
(* `view.seen` what the last render read in it.  The fields are the        *)
(* content (as stored at first, two typed ones, the draft) and the status. *)
(***************************************************************************)
EXTENDS AiPanel

Fresh == [got |-> FALSE, loading |-> TRUE, ready |-> FALSE, seen |-> FALSE,
          c |-> None, s |-> "s0", ind |-> "idle", dirty |-> FALSE, saving |-> FALSE,
          timer |-> FALSE, fades |-> 0, pending |-> FALSE, pre |-> None, approving |-> FALSE,
          ai |-> NoAi, confirm |-> FALSE, deleting |-> FALSE]
Stored0 == [c |-> "c0", s |-> "s0"]

\* The page is being opened, or has been in use, by someone who can edit (contributors and
\* up), plan (planners and up: the AI panel, deletion) and may write here (the server's check).
Init ==
    /\ page = "editor" /\ acts = MaxActs /\ lost = 0 /\ mixed = FALSE
    /\ \E nested, can, plans, may \in BOOLEAN :
         /\ plans \/ may => can
         /\ db = [page |-> "editor", nested |-> nested, can |-> can, plans |-> plans, may |-> may, row |-> Stored0,
                  queue |-> <<>>, gone |-> FALSE, approved |-> FALSE, slip |-> FALSE]
         /\ LET used == [Fresh EXCEPT !.got = TRUE, !.loading = FALSE, !.ready = TRUE, !.seen = TRUE, !.c = "c0"]
            IN  \/ view = Fresh /\ net = Send({}, << <<"get", None>>, <<"objectives", None>> >>)
                \/ view = used /\ net = {}
                \/ ~nested /\ plans /\ view = [used EXCEPT !.ai = Drafted("x", [c |-> "d"])] /\ net = {}

Here == page = "editor"
InUse  == Here /\ view.got /\ ~view.loading
Usable == InUse /\ ~view.confirm     \* by the mouse: the dialog covers the page
\* Every setState renders the page again, and the render reads the ref.
Rendered(v) == [v EXCEPT !.seen = v.ready]
Disabled == ~db.can \/ ~view.seen \/ view.pending
\* What the server holds, or will once the queue is replayed.
Captured == IF db.queue = <<>> THEN db.row ELSE Last(db.queue)
Slip(d, when) == [d EXCEPT !.slip = @ \/ when]
\* A gesture that changes the page, and tells when it has been let slip.
Change(v, slips) ==
    Gesture /\ view' = Rendered(v) /\ db' = Slip(db, slips) /\ UNCHANGED <<page, net, lost, mixed>>

----------------------------------------------------------------------------
(* Loading. *)

\* What is queued for the activity is not shown: it slips.
Loaded ==
    Here /\ \E r \in Waiting("get") :
        IF r.st # "ok" \/ ~r.here THEN Resume(r, IF r.here THEN Rendered([view EXCEPT !.loading = FALSE]) ELSE view)
        ELSE AnsweredWith(r, Without(r),
               Rendered([view EXCEPT !.got = TRUE, !.loading = FALSE, !.c = r.ans.c, !.s = r.ans.s]),
               Slip(db, r.ans # Captured))
Objectives == Here /\ \E r \in Waiting("objectives") : Resume(r, IF r.here THEN Rendered(view) ELSE view)

\* 50 ms after the activity is there, without a render.
Initialised ==
    /\ Here /\ view.got /\ ~view.ready
    /\ view' = [view EXCEPT !.ready = TRUE]
    /\ UNCHANGED <<page, net, db, acts, lost, mixed>>

----------------------------------------------------------------------------
(* useAutoSave. *)

\* markDirty, of the render whose handler runs.
MarkDirty(v) ==
    IF Disabled THEN v ELSE [v EXCEPT !.dirty = TRUE, !.ind = "pending", !.timer = TRUE]

\* doSave up to its await, and the rest.
CanSave == ~view.saving /\ view.dirty
SaveStarted(v) == [v EXCEPT !.saving = TRUE, !.dirty = FALSE, !.ind = "saving"]
Payload == [c |-> view.c, s |-> view.s]
\* Mutant: a refused save counts as done.
SaveEndedAlways(v, ok) == [v EXCEPT !.saving = FALSE, !.ind = "saved", !.fades = @ + 1]
SaveEnded(v, ok) ==
    IF ok THEN [v EXCEPT !.saving = FALSE, !.ind = "saved", !.fades = @ + 1]
    ELSE [v EXCEPT !.saving = FALSE, !.ind = "error", !.dirty = TRUE]

\* The debounce fires; while a save is under way it does nothing and nothing
\* starts it again: the edit has slipped.  The approval gate does not stop it.
TimerFires ==
    /\ Here /\ view.timer
    /\ LET v == [view EXCEPT !.timer = FALSE] IN
       IF CanSave
       THEN /\ net' = Send(net, << <<"save", Payload>> >>)
            /\ view' = Rendered(SaveStarted(v))
            /\ db' = Slip(db, view.pending \/ \E r \in net : r.op = "patch")
       ELSE /\ view' = v /\ db' = Slip(db, view.dirty) /\ UNCHANGED net
    /\ UNCHANGED <<page, acts, lost, mixed>>

\* The words "saved" go after 3 s, and whatever has taken their place.
Fades ==
    /\ Here /\ view.fades > 0
    /\ view' = Rendered([view EXCEPT !.fades = @ - 1, !.ind = "idle"])
    /\ db' = Slip(db, view.ind = "error")
    /\ UNCHANGED <<page, net, acts, lost, mixed>>

\* doSave of the page: without a response the edit is queued, which counts as a
\* success, and slips when an approval sent after it has been served by then.
NoResponse(r) == r.st = "err" /\ r.ans # "no"
Saved == \E r \in Waiting("save") :
    LET d == IF NoResponse(r)
             THEN Slip([db EXCEPT !.queue = Append(@, r.arg)],
                       \E q \in net : q.op = "approve" /\ q.id > r.id /\ q.st = "ok")
             ELSE db
        v == IF r.here THEN Rendered(SaveEnded(view, r.st = "ok" \/ NoResponse(r))) ELSE view
    IN  AnsweredWith(r, Without(r), v, d)

----------------------------------------------------------------------------
(* The handlers of the page. *)

\* An edit nobody will save: markDirty is disabled though no draft is pending (the
\* page has not been rendered since it was initialised), or the draft is on its
\* way to the server.  The first edit comes later than 50 ms after the activity.
Unnoticed == IF view.pending THEN \E r \in net : r.op = "approve" ELSE Disabled
Edit ==
    /\ Usable /\ db.can /\ view.ready
    /\ \/ ~db.nested /\ \E c \in {"c1", "c2"} \ {view.c} : Change(MarkDirty([view EXCEPT !.c = c]), Unnoticed)
       \/ \E s \in {"s1", "s2"} \ {view.s} : Change(MarkDirty([view EXCEPT !.s = s]), Unnoticed)

\* Ctrl+S, which the dialog does not stop, and the indicator's "Save now" and "Retry".
\* While a draft is pending the two take away the timer and save nothing.
Unsaid == view.dirty /\ (view.saving \/ view.ind # "error")
SaveNow ==
    /\ db.can
    /\ \/ InUse /\ view.ready /\ ~view.pending
       \/ Usable /\ view.ind \in {"pending", "error"}
    /\ LET v == [view EXCEPT !.timer = FALSE] IN
       IF ~Disabled /\ CanSave
       THEN /\ Ask("save", Payload, Rendered(SaveStarted(v)))
       ELSE Change(v, Unsaid)

\* handleAiAccept: the timer of an edit goes on, and will save the draft; a draft
\* accepted while another is being approved passes for approved with it, unsaved.
\* Mutant: the draft does not wait to be approved.
AcceptUngated ==
    /\ Usable /\ Acceptable
    /\ Change(MarkDirty([view EXCEPT !.c = Draft.c, !.ai = NoAi]), FALSE)
AcceptDraft ==
    /\ Usable /\ Acceptable
    /\ Change([view EXCEPT !.pre = view.c, !.c = Draft.c, !.pending = TRUE, !.ai = NoAi],
              \E r \in net : r.op = "approve")

\* handleApproveDraft, by the button or by Ctrl+S.
Approve ==
    \/ /\ InUse /\ view.pending
       /\ Ask("approve", Payload, Rendered([view EXCEPT !.approving = TRUE]))
    \/ \E r \in Waiting("approve") :
         LET done == r.st = "ok"
         IN  AnsweredWith(r, Without(r),
               IF ~r.here THEN view
               ELSE IF done THEN Rendered([view EXCEPT !.approving = FALSE, !.pending = FALSE, !.pre = None])
               ELSE Rendered([view EXCEPT !.approving = FALSE]), db)

\* handleDiscardDraft puts the content back and saves nothing: the draft may have
\* reached the server, and a status chosen meanwhile stays, also while a save of the
\* one before it is under way.
Discard ==
    /\ Usable /\ view.pending /\ ~view.approving
    /\ LET v   == [view EXCEPT !.c = view.pre, !.pending = FALSE, !.pre = None]
           now == [c |-> v.c, s |-> v.s]
       IN  Change(v, now # Captured \/ \E r \in net : r.op = "approve" \/ (r.op = "save" /\ r.arg # now))

\* AiDraftPanel: the button of the page shows and hides it; what it holds goes with it.
Panel ==
    \/ Usable /\ ~db.nested /\ db.plans /\ view.ai.of = None
       /\ Change([view EXCEPT !.ai = [NoAi EXCEPT !.of = "x", !.open = TRUE]], FALSE)
    \/ /\ Usable /\ view.ai.open /\ Gesture
       /\ view' = Rendered([view EXCEPT !.ai = NoAi])
       /\ net' = {IF r.op = "draft" THEN [r EXCEPT !.here = FALSE] ELSE r : r \in net}
       /\ UNCHANGED <<page, db, lost, mixed>>
    \/ Usable /\ Shown /\ view.ai.cur # 0
       /\ Change([view EXCEPT !.ai.tries = <<>>, !.ai.cur = 0], FALSE)
    \/ Usable /\ SelectAttempt
    \/ Usable /\ Generate
    \/ Here /\ \E r \in Waiting("draft") :
         Resume(r, IF r.here THEN [view EXCEPT !.ai = WithDraft(@, r)] ELSE view)
    \/ ServeDraft({[c |-> "d"]})

\* A write of LocalActivityEditor; its answer is an activity, and its status that of the page.
Patch ==
    \/ /\ Usable /\ db.nested /\ db.can
       /\ Ask("patch", None, view)
    \/ \E r \in Waiting("patch") :
         LET v == IF r.here /\ r.st = "ok" THEN Rendered([view EXCEPT !.s = r.ans.s]) ELSE view
         IN  AnsweredWith(r, Without(r), v, Slip(db, r.here /\ v.s # view.s))

\* The dialog, and handleDelete: the page is left once the activity is gone.
Delete ==
    \/ Usable /\ db.plans /\ Change([view EXCEPT !.confirm = TRUE], FALSE)
    \/ Here /\ view.confirm /\ Change([view EXCEPT !.confirm = FALSE], FALSE)
    \/ /\ Here /\ view.confirm /\ ~view.deleting
       /\ Ask("delete", None, Rendered([view EXCEPT !.deleting = TRUE]))
    \/ \E r \in Waiting("delete") :
         IF r.st # "ok" THEN Resume(r, IF r.here THEN Rendered([view EXCEPT !.deleting = FALSE]) ELSE view)
         ELSE /\ page' = "away" /\ view' = None
              /\ net' = {[q EXCEPT !.here = FALSE] : q \in Without(r)}
              /\ mixed' = (mixed \/ r.id > 1)
              /\ UNCHANGED <<db, acts, lost>>

----------------------------------------------------------------------------
(* The server (UpdateActivity, DeleteActivity) and useSyncEngine. *)

Put(d, new) == [d EXCEPT !.row = new]
Refused == db.gone \/ ~db.may

ServeReads == \E r \in net :
    \/ r.op = "get" /\ IF db.gone THEN Reject(r) ELSE Serve(r, db, db.row)
    \/ r.op = "objectives" /\ Serve(r, db, None)

\* A save that overtakes what is queued for the activity will be undone by it.
ServeSave == \E r \in net :
    /\ r.op \in {"save", "approve"}
    /\ IF Refused THEN Reject(r)
       ELSE LET d == Put([Slip(db, db.queue # <<>>) EXCEPT !.approved = @ \/ r.op = "approve"], r.arg)
            IN  Serve(r, d, d.row) \/ LoseAnswer(r, d)
ServePatch == \E r \in net :
    r.op = "patch" /\ IF Refused THEN Reject(r) ELSE Serve(r, db, db.row)
ServeDelete == \E r \in net :
    r.op = "delete" /\ IF Refused THEN Reject(r) ELSE Serve(r, [db EXCEPT !.gone = TRUE], None)
Fail == \E r \in net : Refuse(r)

Replay ==
    /\ db.queue # <<>>
    /\ db' = [Put(db, Head(db.queue)) EXCEPT !.queue = Tail(@)]
    /\ UNCHANGED <<page, view, net, acts, lost, mixed>>

Gone == \E r \in net : r.op \in {"get", "objectives", "draft"} /\ page = "away" /\ Resume(r, view)
Open == page = "away" /\ ~db.gone /\ Mount("editor", Fresh, << <<"get", None>>, <<"objectives", None>> >>)

----------------------------------------------------------------------------
Background == Loaded \/ Objectives \/ Initialised \/ TimerFires \/ Fades \/ Saved
User == Edit \/ SaveNow \/ AcceptDraft \/ Approve \/ Discard \/ Panel \/ Patch \/ Delete \/ Leave \/ Open
Server == ServeReads \/ ServeSave \/ ServePatch \/ ServeDelete \/ Fail \/ Replay \/ Gone
Next == db.page = "editor" /\ (Background \/ User \/ Server)
Spec == Init /\ [][Next]_vars

AtRest == Here /\ Quiet /\ ~view.timer
\* What the page shows is stored or queued.
Kept == Payload = Captured

\* The debounced save keeps what is on the page once it is at rest, or says
\* that it could not, or an edit has slipped.
KeptUnlessSlipped ==
    AtRest /\ view.got /\ ~mixed /\ ~db.slip /\ ~view.pending /\ ~db.gone => Kept \/ view.ind = "error"

\* A draft is stored once it has been approved, unless a timer was armed.
DraftsNeedApproval == db.row.c = "d" => db.approved \/ db.slip

\* What is typed is saved: useAutoSave.ts:7, "After data changes (markDirty called), waits `debounceMs`
\* before saving."
EditsAreSaved ==
    AtRest /\ view.got /\ Calm /\ db.may /\ ~view.pending /\ view.ind # "error" => Kept

Settled ==
    Here /\ Quiet => ~view.loading /\ ~view.saving /\ ~view.approving /\ ~view.deleting /\ ~view.ai.loading
=============================================================================
