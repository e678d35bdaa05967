---------------------------- MODULE ReportPages ----------------------------
(***************************************************************************)
(* The reports of a plan (ReportsPage.tsx): a generator, the jobs started  *)
(* since the page was opened, which a timer polls, and the history of the  *)
(* selected plan.  The server (services/report) builds a report within the *)
(* request that asks for it, so that every job it answers is complete.     *)
(* The format of a report is left out; of the ten sections of a custom     *)
(* report it matters whether one is selected.                              *)
(***************************************************************************)
EXTENDS Spa

Plans == {1, 2}
Archived == 3
MaxReports == 3     \* bound: reports stored
MaxPolls == 3       \* bound: polls in flight; the timer does not wait for them

Report(i, p) == [id |-> i, plan |-> p]
Job(r) == [id |-> r.id, plan |-> r.plan, st |-> "processing"]

Fresh == [loading |-> TRUE, plans |-> {}, sel |-> None, history |-> {}, type |-> "full_plan",
          sections |-> TRUE, generating |-> FALSE, jobs |-> {}, download |-> None]
Opened(rows) == [Fresh EXCEPT !.loading = FALSE, !.plans = Plans, !.sel = 1,
                              !.history = {r \in rows : r.plan = 1}]

Init ==
    /\ page = "reports" /\ acts = MaxActs /\ lost = 0 /\ mixed = FALSE
    /\ \E rows \in {{}, {Report(1, 1)}, {Report(1, 1), Report(2, 2)}}, plans \in {Plans, {2}, {}} :
         /\ db = [page |-> "reports", plans |-> plans \cup {Archived}, rows |-> rows, told |-> {},
                  again |-> FALSE, crossed |-> FALSE]
         /\ \/ view = Fresh /\ net = Send({}, << <<"plans", None>> >>)
            \/ plans = Plans /\ view = Opened(rows) /\ net = {}
            \/ /\ plans = Plans /\ Report(2, 2) \in rows /\ net = {}
               /\ view = [Opened(rows) EXCEPT !.jobs = {Job(Report(2, 2)), Job(Report(1, 1))}]

Here == page = "reports"

----------------------------------------------------------------------------
(* The plans and the history of the first one: two awaits of one effect.   *)

Least(s) == CHOOSE p \in s : \A q \in s : p <= q
PlansLoaded == Here /\ \E c \in Waiting("plans") :
    IF c.st # "ok" THEN Resume(c, [view EXCEPT !.loading = FALSE])
    ELSE LET active == c.ans \ {Archived}
             v == [view EXCEPT !.plans = active]
         IN  IF active = {} THEN Resume(c, [v EXCEPT !.loading = FALSE])
             ELSE ResumeAsk(c, "first", Least(active), [v EXCEPT !.sel = Least(active)])
FirstHistory == Here /\ \E c \in Waiting("first") :
    Resume(c, [view EXCEPT !.loading = FALSE, !.history = IF c.st = "ok" THEN c.ans ELSE @])

\* handlePlanChange: the last answer to arrive is shown, whichever plan it is of.
ChoosePlan ==
    /\ Here /\ ~view.loading
    /\ \E p \in view.plans \ {view.sel} : Ask("history", p, [view EXCEPT !.sel = p])
\* Mutant: the answer is shown for the plan that has one already.
HistoryShownOnce(v, c) == [v EXCEPT !.history = IF @ = {} /\ c.st = "ok" THEN c.ans ELSE @]
HistoryShown(v, c) == [v EXCEPT !.history = IF c.st = "ok" THEN c.ans ELSE {}]
HistoryLoaded == Here /\ \E c \in Waiting("history") : Resume(c, HistoryShown(view, c))

----------------------------------------------------------------------------
(* The generator. *)

ChooseType == Here /\ Local([view EXCEPT !.type = IF @ = "custom" THEN "full_plan" ELSE "custom"])
ToggleSection == Here /\ view.type = "custom" /\ Local([view EXCEPT !.sections = ~@])
HasSelectedContent == view.sections

Generate ==
    /\ Here /\ ~view.generating /\ view.sel # None
    /\ view.type = "custom" => HasSelectedContent
    /\ Ask("generate", view.sel, [view EXCEPT !.generating = TRUE])
Generated == Here /\ \E c \in Waiting("generate") :
    LET v == [view EXCEPT !.generating = FALSE]
    IN  Resume(c, IF c.st = "ok" THEN [v EXCEPT !.jobs = @ \cup {Job(c.ans)}] ELSE v)

----------------------------------------------------------------------------
(* The timer: it is set anew whenever the jobs change, and each tick polls *)
(* the jobs that were processing then, one after the other, whether the    *)
(* ticks before are through or not.  The page lists its newest job first,  *)
(* which is the one with the newest report, as it generates one at a time. *)

Processing == {j.id : j \in {k \in view.jobs : k.st = "processing"}}
Polls == {c \in net : c.op = "poll"}
Newest(ids) == CHOOSE i \in ids : \A j \in ids : j <= i
Poll(ids) == << <<"poll", [id |-> Newest(ids), rest |-> ids \ {Newest(ids)}]>> >>

Tick ==
    /\ Here /\ Processing # {} /\ Room /\ Cardinality(Polls) < MaxPolls
    /\ net' = Send(net, Poll(Processing))
    /\ db' = [db EXCEPT !.crossed = @ \/ Polls # {}]
    /\ UNCHANGED <<page, view, acts, lost, mixed>>

\* The job is complete: its toast, and the next one; a page left behind goes on.
Completed(v, id) ==
    [v EXCEPT !.jobs = {IF j.id = id THEN [j EXCEPT !.st = "complete"] ELSE j : j \in @}]
Told(d, id) == [d EXCEPT !.told = @ \cup {id}, !.again = @ \/ id \in d.told]
Polled == \E c \in Waiting("poll") :
    LET calls == IF c.arg.rest = {} THEN Without(c)
                 ELSE Without(c) \cup {[r EXCEPT !.here = c.here] :
                                          r \in Send(Without(c), Poll(c.arg.rest)) \ Without(c)}
    IN  IF c.st = "ok"
        THEN AnsweredWith(c, calls, IF c.here THEN Completed(view, c.arg.id) ELSE view, Told(db, c.arg.id))
        ELSE AnsweredWith(c, calls, view, db)

----------------------------------------------------------------------------
(* The downloads: handleDownload of a job, or of the history. *)

Complete == {j.id : j \in {k \in view.jobs : k.st = "complete"}}
Offered == Complete \cup {r.id : r \in view.history}
Download == Here /\ \E i \in Offered \ {view.download} : Ask("download", i, [view EXCEPT !.download = i])
Downloaded == Here /\ \E c \in Waiting("download") : Resume(c, [view EXCEPT !.download = None])

----------------------------------------------------------------------------
(* The server, and the way out and back. *)

Reports(p) == {r \in db.rows : r.plan = p}
ServePlans == \E c \in net : c.op = "plans" /\ Serve(c, db, db.plans)
ServeHistory == \E c \in net : c.op \in {"first", "history"} /\ Serve(c, db, Reports(c.arg))
ServeGenerate == \E c \in net :
    /\ c.op = "generate" /\ Cardinality(db.rows) < MaxReports
    /\ LET r == Report(Cardinality(db.rows) + 1, c.arg)
           d == [db EXCEPT !.rows = @ \cup {r}]
       IN  Serve(c, d, r) \/ LoseAnswer(c, d)
ServePoll == \E c \in net : c.op = "poll" /\ Serve(c, db, "complete")
ServeDownload == \E c \in net : c.op = "download" /\ Serve(c, db, None)
Fail == \E c \in net : Refuse(c)
Gone == page = "away" /\ \E c \in net : c.op # "poll" /\ Resume(c, view)
Open == Mount("reports", Fresh, << <<"plans", None>> >>)

User == ChoosePlan \/ ChooseType \/ ToggleSection \/ Generate \/ Download \/ Leave \/ Open
Answers == PlansLoaded \/ FirstHistory \/ HistoryLoaded \/ Generated \/ Tick \/ Polled \/ Downloaded
Server == ServePlans \/ ServeHistory \/ ServeGenerate \/ ServePoll \/ ServeDownload \/ Fail \/ Gone
Next == db.page = "reports" /\ (User \/ Answers \/ Server)
Spec == Init /\ [][Next]_vars

----------------------------------------------------------------------------
\* Once every request is answered, in order, the history is of the selected plan,
\* and what it misses of that plan is among the jobs; a job is announced once,
\* unless a tick of the timer met the answer of the one before.
Truth ==
    /\ Here /\ Quiet /\ Calm /\ view.sel # None =>
         /\ view.history \subseteq Reports(view.sel)
         /\ \A r \in Reports(view.sel) \ view.history : \E j \in view.jobs : j.id = r.id
    /\ db.again => db.crossed

Settled == Here /\ Quiet => ~view.loading /\ ~view.generating /\ view.download = None
=============================================================================
