------------------------------ MODULE AiPanel ------------------------------
(***************************************************************************)
(* useAiDraft and AiAssistPanel (AiChapterAssist.tsx): the "Ask Lwazi"     *)
(* panel of a section.  The user asks for drafts, looks through the        *)
(* attempts and accepts one; what acceptance does is the section's own.    *)
(* A page has one panel in use at a time, that of the section `of`.        *)
(***************************************************************************)
EXTENDS Spa

NoAi == [of |-> None, open |-> FALSE, loading |-> FALSE, applying |-> FALSE, tries |-> <<>>, cur |-> 0]

\* The panel of `of`, open on the attempt d.
Drafted(of, d) == [NoAi EXCEPT !.of = of, !.open = TRUE, !.tries = <<d>>, !.cur = 1]

\* AiAssistPanel hides its buttons while a draft is being written.
Shown == view.ai.open /\ ~view.ai.loading

Resting == ~view.ai.loading /\ ~view.ai.applying

StartAi(of) ==
    /\ ~view.ai.open
    /\ view.ai.of = of \/ Resting
    /\ Local([view EXCEPT !.ai = IF @.of = of THEN [@ EXCEPT !.open = TRUE]
                                 ELSE [NoAi EXCEPT !.of = of, !.open = TRUE]])

Closed(ai) == [ai EXCEPT !.open = FALSE, !.tries = <<>>, !.cur = 0]

CloseAi == view.ai.open /\ Local([view EXCEPT !.ai = Closed(@)])

\* A draft is appended to the attempts, the closed panel's too, and is shown.
WithDraft(ai, c) ==
    IF c.st = "ok"
    THEN [ai EXCEPT !.loading = FALSE, !.tries = Append(@, c.ans), !.cur = Len(ai.tries) + 1]
    ELSE [ai EXCEPT !.loading = FALSE]

Generate ==
    \/ Shown /\ Ask("draft", [of |-> view.ai.of], [view EXCEPT !.ai.loading = TRUE])
    \/ \E c \in Waiting("draft") :
         Resume(c, IF c.here THEN [view EXCEPT !.ai = WithDraft(@, c)] ELSE view)

SelectAttempt ==
    Shown /\ \E i \in DOMAIN view.ai.tries \ {view.ai.cur} : Local([view EXCEPT !.ai.cur = i])

\* accept: AiAssistPanel disables its button while a draft is being applied.
Acceptable == Shown /\ view.ai.cur # 0 /\ ~view.ai.applying
Draft == view.ai.tries[view.ai.cur]
Accepting(v) == [v EXCEPT !.ai.applying = TRUE]

\* accept, once the section has applied the draft, and once it has thrown.
Applied(v)    == [v EXCEPT !.ai = [Closed(@) EXCEPT !.applying = FALSE]]
NotApplied(v) == [v EXCEPT !.ai.applying = FALSE]

\* The local model answers with one of `drafts` (ai_service.go).
ServeDraft(drafts) == \E c \in net : c.op = "draft" /\ \E d \in drafts : Serve(c, db, d)
=============================================================================
