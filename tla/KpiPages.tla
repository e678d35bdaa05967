------------------------------ MODULE KpiPages ------------------------------
(***************************************************************************)
(* The two places where the KPIs of an activity are edited: its editor     *)
(* (LocalActivityEditor.tsx) and the tracking page of the plan             *)
(* (TrackingModule.tsx).  Every change writes the whole list of KPIs; the  *)
(* editor builds it from its own copy, the tracking page from the last     *)
(* answer of the server.  A KPI has no id (`n` stands for its place in the *)
(* user's mind): a text, a reporting period, a target, an actual value.    *)
(***************************************************************************)
EXTENDS AiPanel

KPI(n, x, per, t, a) == [n |-> n, x |-> x, per |-> per, t |-> t, a |-> a]
Blank(n) == KPI(n, None, None, None, None)
DraftFor(k) == [t |-> k.t, a |-> k.a]
Drafts(list) == [i \in DOMAIN list |-> DraftFor(list[i])]

Fresh == [loading |-> TRUE, kpis |-> <<>>, drafts |-> <<>>, focus |-> None, ai |-> NoAi]
Showing(v, list) == [v EXCEPT !.kpis = list, !.drafts = Drafts(list)]

\* Lists that are scored in full, in part and not at all.
Lists0 == {<< KPI(1, "x", "monthly", 2, 4), KPI(2, "x", "annual", 2, 1) >>,
           << KPI(1, "x", "monthly", None, None), KPI(2, "x", None, 0, 1) >>}

Init ==
    /\ page = "kpis" /\ acts = MaxActs /\ lost = 0 /\ mixed = FALSE
    /\ \E tracking, can \in BOOLEAN, list \in Lists0 :
         /\ db = [page |-> "kpis", tracking |-> tracking, can |-> can, kpis |-> list,
                  next |-> 3, want |-> list, slip |-> FALSE]
         /\ \/ view = Fresh /\ net = Send({}, << <<"list", None>> >>)
            \/ view = Showing([Fresh EXCEPT !.loading = FALSE], list) /\ net = {}
            \/ /\ ~tracking /\ can /\ net = {}
               /\ \E d \in {0, 1} :
                    view = Showing([Fresh EXCEPT !.loading = FALSE, !.ai = Drafted("x", d)], list)

Here == page = "kpis"
Usable == Here /\ db.can /\ ~view.loading
Ready  == Usable /\ view.focus = None
Editor == ~db.tracking
Places == DOMAIN view.kpis

----------------------------------------------------------------------------
(* patch and saveActivityKpis. *)

Writes == {"put", "putAi"}
Writing == \E c \in net : c.op \in Writes

\* A change commits the list `new`; what the user means by it turns the list
\* he has made so far into `meant`.  On the tracking page a list made before the
\* last change was answered is without that change.
Commit(new, v, meant) ==
    /\ Gesture /\ Room
    /\ net' = Send(net, << <<"put", new>> >>)
    /\ view' = v
    /\ db' = [db EXCEPT !.want = meant, !.slip = @ \/ (db.tracking /\ Writing)]
    /\ UNCHANGED <<page, lost, mixed>>

\* The editor takes over the list it is making; the tracking page waits for the answer.
Made(new) == IF Editor THEN [view EXCEPT !.kpis = new] ELSE view

\* The answer is the activity: what the page shows is thrown away, and with it
\* what was typed, or committed and not yet answered.
Answer(v, c) ==
    LET w == Showing(v, c.ans) IN [w EXCEPT !.focus = IF @ # None /\ @[1] \in DOMAIN c.ans THEN @ ELSE None]
Committed(op) == \E c \in Waiting(op) :
    LET v == IF c.here /\ op = "putAi" THEN Applied(view) ELSE view IN
    IF c.st # "ok" \/ ~c.here THEN Resume(c, v)
    ELSE AnsweredWith(c, Without(c), Answer(v, c),
           [db EXCEPT !.slip = @ \/ (Editor /\ \E d \in net \ {c} : d.op \in Writes)])

----------------------------------------------------------------------------
(* The fields: typed into a draft, committed when they lose the focus. *)

TargetLocked(i) == db.tracking /\ view.kpis[i].t # None
Type ==
    /\ Ready
    /\ \E i \in Places :
         \/ /\ ~TargetLocked(i)
            /\ Local([view EXCEPT !.drafts[i].t = IF @ = 2 THEN None ELSE 2, !.focus = <<i, "value">>])
         \/ Local([view EXCEPT !.drafts[i].a = IF @ = 1 THEN 0 ELSE 1, !.focus = <<i, "value">>])
         \/ Editor /\ Local([view EXCEPT !.kpis[i].x = "y", !.focus = <<i, "text">>])

Unfocused(v) == [v EXCEPT !.focus = None]

\* blurKpiValue, blurKpiBudget, blurKpiResponsibility; blur of the tracking page:
\* a draft that differs from the KPI is committed.
BlurValue ==
    /\ Usable /\ view.focus # None /\ view.focus[2] = "value"
    /\ LET i == view.focus[1]
           k == view.kpis[i]
           d == view.drafts[i]
           new == [view.kpis EXCEPT ![i].t = d.t, ![i].a = d.a]
       IN  IF DraftFor(k) = d THEN Local(Unfocused(view))
           ELSE Commit(new, Unfocused(Made(new)),
                       [j \in DOMAIN db.want |->
                          IF db.want[j].n = k.n THEN [db.want[j] EXCEPT !.t = d.t, !.a = d.a] ELSE db.want[j]])

\* commitKpiText: the list as it stands, changed or not.
BlurText ==
    /\ Usable /\ view.focus # None /\ view.focus[2] = "text"
    /\ LET k == view.kpis[view.focus[1]]
       IN  Commit(view.kpis, Unfocused(view),
                  [j \in DOMAIN db.want |->
                     IF db.want[j].n = k.n THEN [db.want[j] EXCEPT !.x = k.x] ELSE db.want[j]])

\* changeKpiPeriod, savePeriod.
Period ==
    /\ Ready
    /\ \E i \in Places, p \in {None, "annual"} :
         LET k == view.kpis[i]
             new == [view.kpis EXCEPT ![i].per = p]
         IN  k.per # p /\ Commit(new, Made(new),
               [j \in DOMAIN db.want |->
                  IF db.want[j].n = k.n THEN [db.want[j] EXCEPT !.per = p] ELSE db.want[j]])

Named(d) == [d EXCEPT !.next = @ + 1]
AddKpi ==
    /\ Ready /\ Editor
    /\ LET k == Blank(db.next)
           new == Append(view.kpis, k)
       IN  /\ Gesture /\ Room
           /\ net' = Send(net, << <<"put", new>> >>)
           /\ view' = [view EXCEPT !.kpis = new, !.drafts = Append(@, DraftFor(k))]
           /\ db' = Named([db EXCEPT !.want = Append(@, k)])
           /\ UNCHANGED <<page, lost, mixed>>

Drop(s, i) == SubSeq(s, 1, i - 1) \o SubSeq(s, i + 1, Len(s))
\* Mutant: the KPI is taken off the page only.
RemoveKpiUnsaved ==
    /\ Ready /\ Editor
    /\ \E i \in Places : Local([view EXCEPT !.kpis = Drop(@, i), !.drafts = Drop(@, i)])
RemoveKpi ==
    /\ Ready /\ Editor
    /\ \E i \in Places :
         LET new == Drop(view.kpis, i)
         IN  Commit(new, [view EXCEPT !.kpis = new, !.drafts = Drop(@, i)],
                    SelectSeq(db.want, LAMBDA k : k.n # view.kpis[i].n))

\* acceptAiKpis: a draft of no KPI throws; blank rows give way to the others.  The
\* panel says "applied" whatever becomes of the write.
Kept(list) == SelectSeq(list, LAMBDA k : k.x # None)
AcceptKpis ==
    \/ Ready /\ Editor /\ Acceptable /\ Draft = 0 /\ Local(view)
    \/ /\ Ready /\ Editor /\ Acceptable /\ Draft = 1 /\ Gesture /\ Room
       /\ LET k == [Blank(db.next) EXCEPT !.x = "z"]
              new == Append(Kept(view.kpis), k)
          IN  /\ net' = Send(net, << <<"putAi", new>> >>)
              /\ view' = Showing(Accepting(view), new)
              /\ db' = Named([db EXCEPT !.want = Append(Kept(@), k)])
       /\ UNCHANGED <<page, lost, mixed>>
Panel ==
    \/ Ready /\ Editor /\ (StartAi("x") \/ CloseAi \/ SelectAttempt \/ Generate)
    \/ Here /\ \E c \in Waiting("draft") :
         Resume(c, IF c.here THEN [view EXCEPT !.ai = WithDraft(@, c)] ELSE view)
    \/ ServeDraft({0, 1})

Loaded == Here /\ \E c \in Waiting("list") :
    Resume(c, IF ~c.here THEN view
              ELSE IF c.st = "ok" THEN Showing([view EXCEPT !.loading = FALSE], c.ans)
              ELSE [view EXCEPT !.loading = FALSE])

----------------------------------------------------------------------------
(* The server, and the way out and back. *)

ServeList == \E c \in net : c.op = "list" /\ Serve(c, db, db.kpis)
ServePut == \E c \in net : c.op \in Writes /\
    LET d == [db EXCEPT !.kpis = c.arg] IN Serve(c, d, c.arg) \/ LoseAnswer(c, d)
Fail == \E c \in net : Refuse(c)
Gone == \E c \in net : page = "away" /\ c.op \in {"list", "draft"} /\ Resume(c, view)
Open == page = "away" /\ Mount("kpis", Fresh, << <<"list", None>> >>)

User == Type \/ BlurValue \/ BlurText \/ Period \/ AddKpi \/ RemoveKpi \/ AcceptKpis \/ Panel \/ Leave \/ Open
Answers == Loaded \/ Committed("put") \/ Committed("putAi")
Server == ServeList \/ ServePut \/ Fail \/ Gone
Next == db.page = "kpis" /\ (User \/ Answers \/ Server)
Spec == Init /\ [][Next]_vars

----------------------------------------------------------------------------
(* The gauges: the tracking page's and, of the report, the server's.  The  *)
(* unit is 1/3600 of the target, so that every division below is exact.    *)

Whole == 3600
Decreasing(k) == k.n = 2

\* computeAchievement, and kpiAchievement of the server.
Achievement(k) ==
    LET over  == IF Decreasing(k) THEN k.t ELSE k.a
        under == IF Decreasing(k) THEN k.a ELSE k.t
    IN  IF k.t = None \/ k.a = None THEN None
        ELSE IF under = 0 THEN None ELSE (over * Whole) \div under
Capped(p) == IF p > Whole THEN Whole ELSE p
Average(s) == IF s = <<>> THEN None ELSE FoldLeft(+, 0, s) \div Len(s)
Of(list, p) == SelectSeq(list, LAMBDA k : k.per = p)
Scored(list) == SelectSeq(list, LAMBDA k : Achievement(k) # None)
Periods == <<"monthly", "quarterly", "annual">>
Known(s) == SelectSeq(s, LAMBDA p : p # None)

\* periodCompletion, overallKpiCompletion: a KPI without a figure counts as 0.
PeriodCompletion(list, p) ==
    LET ks == Of(list, p) IN
    Average([i \in DOMAIN ks |-> IF Achievement(ks[i]) = None THEN 0 ELSE Capped(Achievement(ks[i]))])
OverallCompletion(list) ==
    Average(Known([i \in DOMAIN Periods |-> PeriodCompletion(list, Periods[i])]))

\* periodKPICompletion, overallKPICompletion: a KPI without a figure does not count.
\* Mutant: a KPI past its target makes up for the others.
ReportPeriodUncapped(list, p) ==
    LET ks == Scored(Of(list, p)) IN Average([i \in DOMAIN ks |-> Achievement(ks[i])])
ReportPeriod(list, p) ==
    LET ks == Scored(Of(list, p)) IN Average([i \in DOMAIN ks |-> Capped(Achievement(ks[i]))])
ReportOverall(list) ==
    Average(Known([i \in DOMAIN Periods |-> ReportPeriod(list, Periods[i])]))

----------------------------------------------------------------------------
AtRest == Here /\ Quiet /\ Calm /\ view.focus = None

\* Once every write is answered, in order, the page shows what is stored,
\* and that is every change the user made, unless he was quicker than an answer.
Truth == AtRest => view.kpis = db.kpis /\ (db.slip \/ db.kpis = db.want)

\* The report's figure is that of the tracking page wherever every KPI that
\* has a period has a target and an actual value.
GaugesAgree ==
    (\A i \in DOMAIN db.kpis : db.kpis[i].per # None => Achievement(db.kpis[i]) # None)
        => ReportOverall(db.kpis) = OverallCompletion(db.kpis)

Settled == Here /\ Quiet => ~view.loading /\ Resting
=============================================================================
