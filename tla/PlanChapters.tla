---------------------------- MODULE PlanChapters ----------------------------
(***************************************************************************)
(* The chapters of a local plan (LocalPlanChapters.tsx): six lists of rows,*)
(* each with its add form, inline editor and "Ask Lwazi" panel, above the  *)
(* plan services of the server that store them.  The lists share no state, *)
(* so a behaviour opens one of them, `db.kind`.  A row is its id and what  *)
(* its editor changes: a text, the filled-in PESTEL fields, or the role it *)
(* reports to (0: nobody).                                                 *)
(***************************************************************************)
EXTENDS AiPanel

Kinds == {"value", "stakeholder", "swot", "pestel", "role", "me"}
Ids   == 1..8

\* What a row of each list can hold.
Vals(k) == CASE k = "pestel" -> (SUBSET {"positive", "negative"}) \ {{}}
             [] k = "role"   -> 0..2
             [] OTHER        -> {"x", "y"}

\* The drafts the model may answer with, as the items the page can use.
Drafts(k) == CASE k = "pestel" -> {<<>>, << {"positive"} >>, << {"positive"}, {"negative"} >>}
               [] k = "role"   -> {<< [t |-> "a", p |-> None], [t |-> "b", p |-> "a"] >>,
                                   << [t |-> "b", p |-> "a"], [t |-> "a", p |-> None] >>}
               [] OTHER        -> {<<>>, <<"x", "z", "z">>}

Blank(k, vm) == [list |-> {}, editing |-> None, form |-> None, draft |-> None,
                 ai |-> NoAi, vm |-> vm, saving |-> FALSE]

\* The section is being opened, or has been in use and shows a draft.
Init ==
    /\ page = "chapters" /\ acts = MaxActs /\ lost = 0 /\ mixed = FALSE
    /\ \E k \in Kinds, can \in BOOLEAN :
         /\ db = [page |-> "chapters", kind |-> k, can |-> can, next |-> 3, vm |-> "v1",
                  rows |-> IF k = "role" THEN {[id |-> 1, val |-> 0], [id |-> 2, val |-> 1]}
                           ELSE {[id |-> 1, val |-> CHOOSE v \in Vals(k) : TRUE]}]
         /\ \/ view = Blank(k, "v1") /\ net = Send({}, << <<"list", None>> >>)
            \/ /\ can /\ net = {}
               /\ \E d \in Drafts(k) :
                    view = [Blank(k, "v1") EXCEPT !.list = db.rows, !.ai = Drafted(k, d)]

Here == page = "chapters"
Is(k) == Here /\ db.kind = k
Row(c) == c.arg.id

----------------------------------------------------------------------------
(* What each section lets the user do: <<control, row>>. *)

RowControls(ids) == {"edit", "remove"} \X ids
FormControls == IF view.editing = None THEN {} ELSE {"save", "cancel"} \X {view.editing}
Listed == {r.id : r \in view.list}

\* An inline editor stands in place of the buttons of its row.
InlineControls == RowControls(Listed \ {view.editing})
                  \cup {f \in FormControls : f[2] \in Listed}

ValueControls == {"remove"} \X Listed

\* The quadrants keep every row's buttons; the editor is a form below them.
StakeholderControls == RowControls(Listed) \cup FormControls

SwotControls   == InlineControls
PestelControls == InlineControls
MEControls     == InlineControls

\* byParent and renderNode: the roles drawn are those a chain of managers
\* on the page joins to a role without one.
Manager(r) == {m \in view.list : m.id = r.val}
Drawn ==
    {r.id : r \in FoldLeft(LAMBDA seen, r : seen \cup {s \in view.list : Manager(s) \cap seen # {}},
                           {r \in view.list : r.val = 0}, SetToSeq(view.list))}
RoleControls == RowControls(Drawn \ {view.editing}) \cup {f \in FormControls : f[2] \in Drawn}

Controls ==
    IF ~db.can THEN {}
    ELSE {<<"add", None>>} \cup
         CASE db.kind = "value"       -> ValueControls
           [] db.kind = "stakeholder" -> StakeholderControls
           [] db.kind = "swot"        -> SwotControls
           [] db.kind = "pestel"      -> PestelControls
           [] db.kind = "role"        -> RoleControls
           [] db.kind = "me"          -> MEControls

----------------------------------------------------------------------------
(* The handlers of a list.  Their halves before and after the await. *)

\* Typing in the add form.
TypeDraft == Here /\ db.can /\ view.draft = None
             /\ \E v \in Vals(db.kind) : Local([view EXCEPT !.draft = v])

\* add: nothing is disabled while the request is under way; on success the
\* row is appended and whatever the form holds by then is wiped.
AddRow(k) ==
    /\ Is(k)
    /\ \/ /\ <<"add", None>> \in Controls /\ view.draft # None
          /\ Ask("add", [val |-> view.draft], view)
       \/ \E c \in Waiting("add") :
            Resume(c, IF c.st = "ok"
                      THEN [view EXCEPT !.list = @ \cup {c.ans}, !.draft = None]
                      ELSE view)

\* startEditing and cancelEditing, then update: a success replaces the row and
\* closes the editor, whichever row is being edited by then.
EditRow(k) ==
    /\ Is(k)
    /\ \/ \E r \in view.list :
            /\ <<"edit", r.id>> \in Controls
            /\ Local([view EXCEPT !.editing = r.id, !.form = r.val])
       \/ /\ <<"cancel", view.editing>> \in Controls
          /\ Local([view EXCEPT !.editing = None, !.form = None])
       \/ /\ <<"save", view.editing>> \in Controls
          /\ \E v \in Vals(k) \ {view.form} :
               Ask("update", [id |-> view.editing, val |-> v], [view EXCEPT !.form = v])
       \/ \E c \in Waiting("update") :
            Resume(c, IF c.st = "ok"
                      THEN [view EXCEPT
                              !.list = {IF r.id = Row(c) THEN c.ans ELSE r : r \in @},
                              !.editing = None, !.form = None]
                      ELSE view)

\* Mutant: a success clears the editor and leaves the list alone.
RemoveRowKeeps(k) ==
    /\ Is(k)
    /\ \/ \E r \in view.list :
            <<"remove", r.id>> \in Controls /\ Ask("delete", [id |-> r.id], view)
       \/ \E c \in Waiting("delete") : Resume(c, [view EXCEPT !.editing = None])

\* remove: a success filters the row out.
RemoveRow(k) ==
    /\ Is(k)
    /\ \/ \E r \in view.list :
            <<"remove", r.id>> \in Controls /\ Ask("delete", [id |-> r.id], view)
       \/ \E c \in Waiting("delete") :
            Resume(c, IF c.st = "ok"
                      THEN [view EXCEPT !.list = {r \in @ : r.id # Row(c)}]
                      ELSE view)

AddValue       == AddRow("value")
RemoveValue    == RemoveRow("value")
AddStakeholder == AddRow("stakeholder")
EditStakeholder == EditRow("stakeholder")
RemoveStakeholder == RemoveRow("stakeholder")
AddSwot        == AddRow("swot")
EditSwot       == EditRow("swot")
RemoveSwot     == RemoveRow("swot")
AddPestel      == AddRow("pestel")
EditPestel     == EditRow("pestel")
RemovePestel   == RemoveRow("pestel")
AddRole        == AddRow("role")
EditRole       == EditRow("role")
RemoveRole     == RemoveRow("role")
AddME          == AddRow("me")
EditME         == EditRow("me")
RemoveME       == RemoveRow("me")

\* The effect of a mounted section: its list, whatever the page has added since.
Loaded ==
    Here /\ \E c \in Waiting("list") :
        Resume(c, IF c.st = "ok" THEN [view EXCEPT !.list = c.ans] ELSE view)

\* saveFocus: the button is disabled while it runs.
SaveFocus ==
    /\ Is("value")
    /\ \/ /\ db.can /\ ~view.saving
          /\ \E v \in {"v1", "v2"} \ {view.vm} :
               Ask("focus", [vm |-> v], [view EXCEPT !.vm = v, !.saving = TRUE])
       \/ \E c \in Waiting("focus") : Resume(c, [view EXCEPT !.saving = FALSE])

----------------------------------------------------------------------------
(* What accepting a draft does in each list. *)

\* handleAiAccept of each list: the rows it will create, from its draft and
\* the rows its closure saw.
Unlisted(names) ==
    FoldLeft(LAMBDA s, n : IF n \in ToSet(s) \cup {r.val : r \in view.list}
                           THEN s ELSE Append(s, n), <<>>, names)
Items(k, d) == IF k = "value" THEN Unlisted(d) ELSE d

\* The manager of a drafted role is one created earlier in the same draft.
ItemVal(k, item, made) ==
    IF k # "role" THEN item
    ELSE IF item.p \in {m.t : m \in made} THEN (CHOOSE m \in made : m.t = item.p).id ELSE 0

\* The end of each list's fan-out: only PESTEL tells when nothing was saved.
Finish(k, n, v) == IF k = "pestel" /\ n = 0 THEN NotApplied(v) ELSE Applied(v)

\* `typed` is what the add form held when the draft was accepted: addValue clears the form
\* when it adds a value of that name, the AI's too.
FanArg(k, items, made, n, typed) ==
    [item |-> Head(items), rest |-> Tail(items), made |-> made, n |-> n, typed |-> typed,
     val |-> ItemVal(k, Head(items), made)]

\* accept: the first request of the fan-out, or none.
Accept(k) ==
    /\ Is(k) /\ Acceptable
    /\ LET items == Items(k, Draft)
           v     == Accepting(view)
           typed == IF k = "value" THEN view.draft ELSE None
       IN  IF k = "value" /\ view.vm # "v2"     \* the draft's vision differs from the typed one
           THEN Ask("fanFocus", [vm |-> "v2", items |-> items, typed |-> typed],
                    [v EXCEPT !.vm = "v2", !.saving = TRUE])
           ELSE IF items = <<>> THEN Local(Finish(k, 0, v))
           ELSE Ask("fan", FanArg(k, items, {}, 0, typed), v)

\* One item was answered: the next is sent, mounted page or not.
FanNext(k) ==
    /\ db.kind = k
    /\ \E c \in Waiting("fan") :
         LET ok == c.st = "ok"
             n  == IF ok THEN c.arg.n + 1 ELSE c.arg.n
             v  == IF ok THEN [view EXCEPT !.list = @ \cup {c.ans},
                                    !.draft = IF c.arg.item = c.arg.typed THEN None ELSE @]
                   ELSE view
             made == IF ok /\ k = "role"
                     THEN {m \in c.arg.made : m.t # c.arg.item.t} \cup {[t |-> c.arg.item.t, id |-> c.ans.id]}
                     ELSE c.arg.made
         IN  IF c.arg.rest = <<>>
             THEN Resume(c, IF c.here THEN Finish(k, n, v) ELSE view)
             ELSE ResumeAsk(c, "fan", FanArg(k, c.arg.rest, made, n, c.arg.typed), IF c.here THEN v ELSE view)

AcceptStakeholders == Accept("stakeholder") \/ FanNext("stakeholder")
AcceptSwot         == Accept("swot") \/ FanNext("swot")
AcceptPestel       == Accept("pestel") \/ FanNext("pestel")
AcceptRoles        == Accept("role") \/ FanNext("role")
AcceptME           == Accept("me") \/ FanNext("me")
AcceptValues ==
    \/ Accept("value") \/ FanNext("value")
    \/ \E c \in Waiting("fanFocus") :
         LET v == IF c.here THEN [view EXCEPT !.saving = FALSE] ELSE view IN
         IF c.arg.items = <<>>
         THEN Resume(c, IF c.here THEN Finish("value", 0, v) ELSE view)
         ELSE ResumeAsk(c, "fan", FanArg("value", c.arg.items, {}, 0, c.arg.typed), v)

----------------------------------------------------------------------------
(* The server: internal/services/plan. *)

Stored(id) == {r \in db.rows : r.id = id}

ServeList == \E c \in net : c.op = "list" /\ Serve(c, db, db.rows)

ServeFocus == \E c \in net : c.op \in {"focus", "fanFocus"} /\
    LET d == [db EXCEPT !.vm = c.arg.vm] IN Serve(c, d, c.arg.vm) \/ LoseAnswer(c, d)

\* Create: a role's manager must be on the plan.
ServeCreate == \E c \in net :
    /\ c.op \in {"add", "fan"}
    /\ db.kind = "role" => c.arg.val = 0 \/ Stored(c.arg.val) # {}
    /\ LET r == [id |-> db.next, val |-> c.arg.val]
           d == [db EXCEPT !.rows = @ \cup {r}, !.next = @ + 1]
       IN  Serve(c, d, r) \/ LoseAnswer(c, d)

\* Update: fields that are not sent keep their value; "no manager" is not sent.
Merge(k, old, new) == CASE k = "pestel" -> old \cup new
                        [] k = "role"   -> IF new = 0 THEN old ELSE new
                        [] OTHER        -> new
ServeUpdate == \E c \in net :
    /\ c.op = "update"
    /\ db.kind = "role" => c.arg.val # Row(c) /\ (c.arg.val = 0 \/ Stored(c.arg.val) # {})
    /\ \E r \in Stored(Row(c)) :
         LET new == [r EXCEPT !.val = Merge(db.kind, @, c.arg.val)]
             d   == [db EXCEPT !.rows = (@ \ {r}) \cup {new}]
         IN  Serve(c, d, new) \/ LoseAnswer(c, d)

\* Delete: ON DELETE SET NULL re-parents the roles that reported to it.
ServeDelete == \E c \in net :
    /\ c.op = "delete" /\ Stored(Row(c)) # {}
    /\ LET left == db.rows \ Stored(Row(c))
           d == [db EXCEPT !.rows =
                   IF db.kind = "role"
                   THEN {IF r.val = Row(c) THEN [r EXCEPT !.val = 0] ELSE r : r \in left}
                   ELSE left]
       IN  Serve(c, d, None) \/ LoseAnswer(c, d)

Fail == \E c \in net : Refuse(c)
Fruitless == {c \in net : ~c.here /\ c.op \notin {"fan", "fanFocus"}}
Gone == \E c \in Fruitless : Resume(c, view)

\* Another tab and back, or another page and back: the section mounts again.
Open == page = "away" /\ Mount("chapters", Blank(db.kind, db.vm), << <<"list", None>> >>)

----------------------------------------------------------------------------
User == TypeDraft \/ Leave \/ Open
Panel ==
    \/ Here /\ db.can /\ StartAi(db.kind)
    \/ Here /\ (CloseAi \/ SelectAttempt \/ Generate)
    \/ ServeDraft(Drafts(db.kind))
Acceptance == AcceptValues \/ AcceptStakeholders \/ AcceptSwot \/ AcceptPestel \/ AcceptRoles \/ AcceptME
Sections == \/ AddValue \/ RemoveValue \/ AddStakeholder \/ EditStakeholder \/ RemoveStakeholder
            \/ AddSwot \/ EditSwot \/ RemoveSwot \/ AddPestel \/ EditPestel \/ RemovePestel
            \/ AddRole \/ EditRole \/ RemoveRole \/ AddME \/ EditME \/ RemoveME
            \/ Loaded \/ SaveFocus
Server == ServeList \/ ServeFocus \/ ServeCreate \/ ServeUpdate \/ ServeDelete \/ Fail \/ Gone

Next == db.page = "chapters" /\ (User \/ Panel \/ Sections \/ Acceptance \/ Server)
Spec == Init /\ [][Next]_vars

\* At rest the list of the section is the one stored (the chart is drawn from its
\* roots, and loses the roles under one that was deleted).
Truth == Here /\ Quiet /\ Calm /\ db.kind # "role" => view.list = db.rows

Settled == Here /\ Quiet => ~view.saving /\ Resting
=============================================================================
