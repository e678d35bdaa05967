---------------------------- MODULE ClientTokens ----------------------------
(***************************************************************************)
(* The tokens of one browser tab (api/client.ts, store/auth.ts): the pair  *)
(* in sessionStorage, the interceptors that attach and silently renew it,  *)
(* the timer that renews it before it expires, and the pages that replace  *)
(* it (LoginPage, AcceptInvitePage, AppShell's log-out), above the server  *)
(* that issues it; Sessions has the server's half in detail.  A pair       *)
(* <<user, number>> stands for its access and its refresh token.           *)
(*                                                                         *)
(* A call of the API carries `acc`, the access token of its header, and    *)
(* `retry`, the flag of a call that has been replayed.  Handlers belong to *)
(* the document: a reload, or the redirect to the sign-in page, ends them. *)
(***************************************************************************)
EXTENDS Spa

Users == {"a", "b"}
MaxPairs == 5          \* bound: pairs issued

Owner(pair) == pair[1]
Number(pair) == pair[2]

\* The document as it is loaded: the timer is armed when there is a token.
Document(where, store) ==
    [where |-> where, refreshing |-> FALSE, failed |-> <<>>, timer |-> store # None, busy |-> FALSE]

\* A tab that is signed in, or not yet, or whose access token has expired.
Init ==
    /\ page = "tokens" /\ acts = MaxActs /\ lost = 0 /\ mixed = FALSE
    /\ \E store \in {None, <<"a", 1>>}, stale \in {{}, {1}} :
         /\ db = [page |-> "tokens", store |-> store, user |-> IF store = None THEN None ELSE "a",
                  live |-> {store} \ {None}, stale |-> stale, twice |-> {}, next |-> 2,
                  tangled |-> FALSE, over |-> FALSE, cut |-> FALSE, hurt |-> FALSE]
         /\ view = Document(IF store = None THEN "login" ELSE "app", store)
    /\ net = {}

----------------------------------------------------------------------------
(* History: `tangled` when two refreshes are under way at once, or one is  *)
(* while somebody signs in or out; `over` when somebody signs in over a    *)
(* stored pair; `cut` when a document with calls under way ends; `hurt`    *)
(* when an expired access token makes itself felt.                         *)

InFlight(ops) == {c \in net : c.op \in ops /\ c.here}
Refreshes == InFlight({"refresh", "proactive"})
Track(d) ==
    [d EXCEPT !.tangled = @ \/ Cardinality(Refreshes) > 1
                            \/ (Refreshes # {} /\ InFlight({"login", "me", "logout"}) # {})]

\* The handler of c goes on: `calls` in flight, v and d as it leaves them.
Go(c, calls, v, d) == AnsweredWith(c, calls, v, Track(d))
End(c, v, d) == Go(c, Without(c), v, d)
Then(c, asks, v, d) == Go(c, Send(Without(c), asks), v, d)

----------------------------------------------------------------------------
(* apiClient. *)

\* The request interceptor: the stored token replaces the header of the call.
Header(store, given) == IF store = None THEN given ELSE store
Call(op, about, given, store) ==
    <<op, [about |-> about, acc |-> Header(store, given), retry |-> FALSE]>>

Api == {"call", "login", "me", "logout"}
Answers(op) == {c \in Waiting(op) : c.here}
Denied(c) == c.st = "err" /\ c.ans = "no"
\* 401, for the first time.
Intercepted(c) == Denied(c) /\ ~c.arg.retry
Ended(op) == {c \in Answers(op) : ~Intercepted(c)}

\* A refresh is under way: the call waits for it in failedQueue.
QueueCall == \E op \in Api : \E c \in Answers(op) :
    /\ Intercepted(c) /\ view.refreshing
    /\ End(c, [view EXCEPT !.failed = Append(@, <<c.op, c.arg>>)], db)

\* The first call to be denied starts a refresh, with the pair stored by now.
StartRefresh == \E op \in Api : \E c \in Answers(op) :
    /\ Intercepted(c) /\ ~view.refreshing
    /\ Then(c, << <<"refresh", [pair |-> db.store, orig |-> <<c.op, [c.arg EXCEPT !.retry = TRUE]>>]>> >>,
            [view EXCEPT !.refreshing = TRUE], db)

\* setTokens, and the replay of the call and of those that waited.
Renewed(d, pair) == [d EXCEPT !.store = pair]
\* Mutant: the replay carries the token that was denied.
ReplayedStale(call, pair) == call
Replayed(call, pair) == <<call[1], [call[2] EXCEPT !.acc = pair]>>
\* Mutant: the calls that waited are left in the queue.
FlushedNot(v) == [v EXCEPT !.refreshing = FALSE, !.timer = TRUE]
Flushed(v) == [v EXCEPT !.refreshing = FALSE, !.failed = <<>>, !.timer = TRUE]
Refreshed == \E c \in Answers("refresh") :
    /\ c.st = "ok"
    /\ LET calls == <<c.arg.orig>> \o view.failed
           d == Renewed(db, c.ans)
       IN  Then(c, [i \in DOMAIN calls |-> Replayed(calls[i], Header(d.store, c.ans))],
                Flushed(view), d)

\* A refresh that fails clears the tokens, not the user, and loads the sign-in
\* page: the calls that waited are rejected, the others lose their handlers.
RefreshFailed == \E c \in Answers("refresh") :
    /\ c.st = "err"
    /\ LET left == {[q EXCEPT !.here = FALSE] : q \in Without(c)}
       IN  Go(c, left, Document("login", None),
              [db EXCEPT !.store = None, !.cut = @ \/ Without(c) # {}, !.hurt = @ \/ db.store \in db.live])

\* proactiveRefresh: the timer does not look at `refreshing`, nor the answer at
\* what is stored by now; a failure is swallowed and arms no timer.
TimerFires ==
    /\ page = "tokens" /\ view.timer /\ db.next < MaxPairs
    /\ view' = [view EXCEPT !.timer = FALSE]
    /\ net' = IF db.store = None THEN net ELSE Send(net, << <<"proactive", [pair |-> db.store]>> >>)
    /\ UNCHANGED <<page, db, acts, lost, mixed>>
RefreshedEarly == \E c \in Answers("proactive") :
    IF c.st = "ok" THEN End(c, [view EXCEPT !.timer = TRUE], [db EXCEPT !.store = c.ans])
    ELSE End(c, view, db)
TabShown == view.where = "app" /\ db.store # None /\ ~view.timer /\ Local([view EXCEPT !.timer = TRUE])

----------------------------------------------------------------------------
(* The pages. *)

\* A page of the application calls the API; a second denial reaches it.
PageCalls ==
    \/ view.where = "app" /\ Ask("call", Call("call", None, None, db.store)[2], view)
    \/ \E c \in Ended("call") : End(c, view, [db EXCEPT !.hurt = @ \/ (Denied(c) /\ db.store \in db.live)])

\* handleSubmit of LoginPage (and of AcceptInvitePage): the tokens of u, the user
\* they belong to, then setAuth.
Busy(v, b) == [v EXCEPT !.busy = b]
SignIn ==
    \/ /\ view.where = "login" /\ ~view.busy
       /\ \E u \in Users : Ask("login", Call("login", u, None, db.store)[2], Busy(view, TRUE))
    \/ \E c \in Ended("login") :
         IF c.st = "ok"
         THEN Then(c, <<Call("me", c.ans, c.ans, db.store)>>, view, [db EXCEPT !.over = @ \/ db.store # None])
         ELSE End(c, Busy(view, FALSE), db)
\* Mutant: the user an earlier session has left behind stays.
SetAuthKeeps(d, user, pair) == [d EXCEPT !.store = pair, !.user = IF @ = None THEN user ELSE @]
SetAuth(d, user, pair) == [d EXCEPT !.store = pair, !.user = user]
SignedIn == \E c \in Ended("me") :
    IF c.st = "ok"
    THEN End(c, [Busy(view, FALSE) EXCEPT !.where = "app", !.timer = TRUE], SetAuth(db, c.ans, c.arg.about))
    ELSE End(c, Busy(view, FALSE), db)

\* handleLogout: clearAuth whatever the answer, and the sign-in page, in the same document.
\* Mutant: clearAuth forgets the user and not the tokens.
ClearAuthKeeps(d) == [d EXCEPT !.user = None]
ClearAuth(d) == [d EXCEPT !.store = None, !.user = None]
LogOut ==
    \/ /\ view.where = "app" /\ ~view.busy
       /\ Ask("logout", Call("logout", db.store, None, db.store)[2], Busy(view, TRUE))
    \/ \E c \in Ended("logout") :
         End(c, [Busy(view, FALSE) EXCEPT !.where = "login", !.timer = FALSE], ClearAuth(db))

\* The user goes to the sign-in page by its address, or back: the document is loaded again.
Reload ==
    /\ Gesture
    /\ \E where \in {"login", "app"} :
         /\ where = "app" => db.user # None
         /\ view' = Document(where, db.store)
    /\ net' = {[c EXCEPT !.here = FALSE] : c \in net}
    /\ db' = [db EXCEPT !.cut = @ \/ net # {}]
    /\ UNCHANGED <<page, lost, mixed>>

----------------------------------------------------------------------------
(* The server and the clock. *)

Served(c, d, a) == Serve(c, d, a) \/ LoseAnswer(c, d)
Valid(acc) == acc # None /\ Number(acc) \notin db.stale

\* Every route but login, logout and refresh asks for a valid access token.
ServeCall == \E c \in net :
    /\ c.op \in {"call", "me"}
    /\ IF Valid(c.arg.acc) THEN Served(c, db, Owner(c.arg.acc)) ELSE Reject(c)
ServeLogout == \E c \in net :
    c.op = "logout" /\ Served(c, [db EXCEPT !.live = @ \ {c.arg.about}], None)

Issue(d, u) == [d EXCEPT !.live = @ \cup {<<u, d.next>>}, !.next = @ + 1]
\* The password is right, or wrong: 401.
ServeLogin == \E c \in net :
    /\ c.op = "login"
    /\ \/ db.next < MaxPairs /\ Served(c, Issue(db, c.arg.about), <<c.arg.about, db.next>>)
       \/ Reject(c)

\* RefreshToken revokes the token and issues a pair; two requests that both read
\* it before either revoked it both get one.
ServeRefresh == \E c \in net :
    /\ c.op \in {"refresh", "proactive"}
    /\ LET p == c.arg.pair
           rivals == {q \in net \ {c} : q.op \in {"refresh", "proactive"} /\ q.arg.pair = p /\ q.st = "sent"}
           d == [db EXCEPT !.live = @ \ {p}, !.twice = IF rivals = {} THEN @ \ {p} ELSE @ \cup {p}]
       IN  \/ /\ p \in db.live \/ p \in db.twice
              /\ db.next < MaxPairs
              /\ Served(c, Issue(d, Owner(p)), <<Owner(p), db.next>>)
           \/ p \notin db.live /\ Reject(c)
Fail == \E c \in net : Refuse(c)

\* Assumption: an access token outlives the replay of the call it was renewed for.
Expires ==
    /\ Gesture /\ db.store # None /\ Valid(db.store)
    /\ \A c \in net : c.op \in Api => ~c.arg.retry
    /\ db' = [db EXCEPT !.stale = @ \cup {Number(db.store)}]
    /\ UNCHANGED <<page, view, net, lost, mixed>>
\* The idle timeout, an administrator, another device.
SessionEnds ==
    /\ Gesture /\ db.live # {}
    /\ db' = [db EXCEPT !.live = {}]
    /\ UNCHANGED <<page, view, net, lost, mixed>>

Gone == \E c \in net : ~c.here /\ Resume(c, view)

----------------------------------------------------------------------------
Client == QueueCall \/ StartRefresh \/ Refreshed \/ RefreshFailed \/ TimerFires \/ RefreshedEarly \/ TabShown
Pages  == PageCalls \/ SignIn \/ SignedIn \/ LogOut \/ Reload
Server == ServeCall \/ ServeLogout \/ ServeLogin \/ ServeRefresh \/ Fail \/ Expires \/ SessionEnds \/ Gone
Next == db.page = "tokens" /\ (Client \/ Pages \/ Server)
Spec == Init /\ [][Next]_vars

\* The user the page shows is the one whose tokens its calls carry, unless somebody has
\* signed in over stored tokens (the interceptor then asks for the user with the old
\* ones), or a refresh has been overtaken by a sign-in, a sign-out or another refresh.
SameIdentity ==
    db.store # None /\ db.user # None /\ ~db.over /\ ~db.tangled => Owner(db.store) = db.user

\* After a log-out nothing is left: no token in the tab, no session on the server, unless
\* a refresh, a reload or a lost request came between.
SignedOutMeansOut ==
    Quiet /\ db.user = None /\ lost = 0 /\ ~db.over /\ ~db.tangled /\ ~db.cut => db.store = None /\ db.live = {}

\* "We ... replay the original request transparently": an access token that has expired
\* never makes a call fail, nor sends the user to the sign-in page while his session
\* lives, unless a request was lost or two refreshes met.
ExpiryUnseen == db.hurt => lost > 0 \/ db.tangled \/ db.cut

\* No call waits for a refresh that is over.
Settled == Quiet => ~view.refreshing /\ view.failed = <<>> /\ ~view.busy
=============================================================================
