-------------------------------- MODULE Spa --------------------------------
(***************************************************************************)
(* What the pages of the web client (src/web/src) share.  A page is a      *)
(* React component tree: its state lives in `view` from the moment it is   *)
(* mounted to the moment the route leaves it.  Its handlers are async      *)
(* functions: each await sends one request and the rest of the handler     *)
(* runs when the answer comes back, whatever the page has become by then.  *)
(* A request is sent, served (or refused, or served with its answer lost)  *)
(* and answered in three steps, so that requests overtake one another.     *)
(* Reads that one Promise.all awaits together are one request.             *)
(*                                                                         *)
(* Bounds: a gesture starts no request beyond MaxCalls in flight, the user *)
(* makes MaxActs gestures, and MaxLost requests fail.                      *)
(***************************************************************************)
EXTENDS Naturals, Sequences, FiniteSets, SequencesExt

CONSTANTS MaxCalls,   \* requests in flight when the user starts another
          MaxLost,    \* requests that fail
          MaxActs,    \* gestures of the user
          None        \* null, undefined, an empty input

ASSUME SpaAssumption == MaxCalls \in Nat \ {0} /\ MaxLost \in Nat /\ MaxActs \in Nat

VARIABLES page,   \* the mounted page, or "away"
          view,   \* the React state of the mounted page
          net,    \* requests in flight, with their answers
          db,     \* what the page leaves behind: the server's rows, the stores
          acts,   \* gestures the user may still make
          lost,   \* history: how many requests have failed
          mixed   \* history: a request or an answer has overtaken an older one, or
                \* a handler has sent another after its page was left

vars == <<page, view, net, db, acts, lost, mixed>>

\* Every request was served and answered, in the order they were sent, and
\* the handlers of a page left behind have sent no more of them.
Calm == lost = 0 /\ ~mixed

(***************************************************************************)
(* A request: its place in the order of sending (id), the handler that     *)
(* awaits it (op), its arguments with the closure the handler resumes with *)
(* (arg), and whether the component that sent it is still mounted (here):  *)
(* the handler of an unmounted one goes on, but its setState calls reach   *)
(* nobody.                                                                 *)
(***************************************************************************)
Request(n, ask) ==
    [id |-> n, op |-> ask[1], arg |-> ask[2], st |-> "sent", ans |-> None, here |-> TRUE]

\* `calls` and then the requests <<op, arg>> of the sequence `asks`.
Send(calls, asks) ==
    calls \cup {Request(Cardinality(calls) + i, asks[i]) : i \in DOMAIN asks}

Without(c) == {[d EXCEPT !.id = IF @ > c.id THEN @ - 1 ELSE @] : d \in net \ {c}}

Gesture == acts > 0 /\ acts' = acts - 1
Room == Cardinality(net) < MaxCalls
Waiting(op) == {c \in net : c.op = op /\ c.st # "sent"}
Quiet == net = {}

----------------------------------------------------------------------------
\* The user's gesture changes the page only.
Local(v) == Gesture /\ view' = v /\ UNCHANGED <<page, net, db, lost, mixed>>

\* The user's gesture starts handlers that await the requests `asks`.
Asks(asks, v) ==
    /\ Gesture /\ Room
    /\ net' = Send(net, asks)
    /\ view' = v
    /\ UNCHANGED <<page, db, lost, mixed>>
Ask(op, arg, v) == Asks(<< <<op, arg>> >>, v)

\* An effect of the mounted page sends a request, without the user.
Effect(op, arg, v) ==
    /\ net' = Send(net, << <<op, arg>> >>)
    /\ view' = v
    /\ UNCHANGED <<page, db, acts, lost, mixed>>

\* A handler resumes with the answer c, leaves the page in the state v, the
\* stores in the state d and `calls` in flight.
AnsweredWith(c, calls, v, d) ==
    /\ c.st # "sent"
    /\ net' = calls
    /\ view' = IF c.here THEN v ELSE view
    /\ db' = d
    /\ mixed' = (mixed \/ c.id > 1 \/ (~c.here /\ calls # Without(c)))
    /\ UNCHANGED <<page, acts, lost>>
Answered(c, calls, v) == AnsweredWith(c, calls, v, db)

\* ... and ends, or sends the next requests first, from a page left behind too.
Resume(c, v) == Answered(c, Without(c), v)
ResumeAsks(c, asks, v) ==
    LET sent == {[r EXCEPT !.here = c.here] : r \in Send(Without(c), asks) \ Without(c)}
    IN  Answered(c, Without(c) \cup sent, v)
ResumeAsk(c, op, arg, v) == ResumeAsks(c, << <<op, arg>> >>, v)

----------------------------------------------------------------------------
Overtakes(c) == \E d \in net : d.id < c.id /\ d.st = "sent"

AnswerIs(c, d, st, a) ==
    /\ c.st = "sent"
    /\ db' = d
    /\ net' = (net \ {c}) \cup {[c EXCEPT !.st = st, !.ans = a]}
    /\ mixed' = (mixed \/ Overtakes(c))
    /\ UNCHANGED <<page, view, acts>>

\* The server does the request and answers `a`; `d` are its rows afterwards.
Serve(c, d, a) == AnswerIs(c, d, "ok", a) /\ UNCHANGED lost

Failing == lost < MaxLost /\ lost' = lost + 1

\* The server does the request and its answer is lost.
LoseAnswer(c, d) == AnswerIs(c, d, "err", None) /\ Failing

\* The request never arrives, or times out (client.ts: 15 s).
Refuse(c) == LoseAnswer(c, db)

\* The server turns the request down.
Reject(c) == AnswerIs(c, db, "err", "no") /\ UNCHANGED lost

----------------------------------------------------------------------------
\* The route leaves the page: its state is gone, its requests are not.
Leave ==
    /\ page # "away" /\ Gesture
    /\ page' = "away" /\ view' = None
    /\ net' = {[c EXCEPT !.here = FALSE] : c \in net}
    /\ UNCHANGED <<db, lost, mixed>>

\* The route mounts the page p in the state v; its effects send `asks`.
Mount(p, v, asks) ==
    /\ page = "away" /\ Gesture /\ Room
    /\ page' = p /\ view' = v
    /\ net' = Send(net, asks)
    /\ UNCHANGED <<db, lost, mixed>>
=============================================================================
