---------------------------- MODULE TokensProofs ----------------------------
(***************************************************************************)
(* Proofs about the page "tokens" of Client: whose the tokens of a tab     *)
(* are, what a log-out leaves, and that an expired access token is not     *)
(* noticed, for any number of gestures, requests in flight and lost        *)
(* answers.                                                                *)
(*                                                                         *)
(* The invariant says what each request under way knows of the stored pair *)
(* (Calls): a refresh renews the pair that is stored, and has spent it     *)
(* when it is answered; a replay carries a token that is valid; a sign-in  *)
(* asks with its own pair.  Alone: one request at most signs somebody in   *)
(* or out, and the page is busy meanwhile.  Accounted: every session that  *)
(* lives on the server is that of the stored pair, or of one on its way.   *)
(* All of it under the histories `tangled`, `over`, `cut` and `lost`.      *)
(***************************************************************************)
EXTENDS ClientTokens, FiniteSetTheorems, TLAPS

-----------------------------------------------------------------------------
(* Requests, and the invariant. *)

IsRequest(c) == c = [id |-> c.id, op |-> c.op, arg |-> c.arg, st |-> c.st, ans |-> c.ans, here |-> c.here]

Renumbered(c, q) ==
  /\ IsRequest(c)
  /\ c.op = q.op /\ c.arg = q.arg /\ c.st = q.st /\ c.ans = q.ans /\ c.here = q.here
Requests == \A c \in net : IsRequest(c)

\* Taking a request away renumbers the others.
LEMMA WithoutKeeps == ASSUME Requests, NEW d, NEW c \in Without(d)
  PROVE \E q \in net \ {d} : Renumbered(c, q)
  BY DEF Requests, Without, IsRequest, Renumbered

\* Types.  A pair is a session and a number; `next` numbers the pairs the server issues.
Pairs == Users \X (1..MaxPairs)
Refreshing == {"refresh", "proactive"}
Identifying == {"login", "me", "logout"}
CallArgs == [about : Users \cup Pairs \cup {None}, acc : Pairs \cup {None}, retry : BOOLEAN]
TokenView == [where : {"login", "app"}, refreshing : BOOLEAN, failed : Seq(Api \X CallArgs), timer : BOOLEAN, busy : BOOLEAN]
TokenDb == [page : {"tokens"}, store : Pairs \cup {None}, user : Users \cup {None}, live : SUBSET Pairs,
            stale : SUBSET (1..MaxPairs), twice : SUBSET Pairs, next : 1..MaxPairs,
            tangled : BOOLEAN, over : BOOLEAN, cut : BOOLEAN, hurt : BOOLEAN]
NoneApart == None \notin Users /\ None \notin Pairs /\ None # "no"
Issued(p) == Number(p) < db.next

\* A call of the page, as it is sent and as it waits to be replayed.
IsCall(op, arg) ==
  /\ op \in Api /\ arg \in CallArgs
  /\ op = "login" => arg.about \in Users
  /\ op = "me" => arg.about \in Pairs /\ Issued(arg.about)
  /\ op = "logout" => arg.about \in Pairs \cup {None} /\ (arg.about # None => Issued(arg.about))
TypedCall(c) ==
  /\ IsRequest(c) /\ c.here \in BOOLEAN /\ c.st \in {"sent", "ok", "err"}
  /\ c.op \in Api \cup Refreshing
  /\ c.op \in Api => IsCall(c.op, c.arg)
  /\ c.op \in Refreshing => c.arg.pair \in Pairs \cup {None} /\ (c.arg.pair # None => Issued(c.arg.pair))
  /\ c.op = "refresh" => IsCall(c.arg.orig[1], c.arg.orig[2]) /\ c.arg.orig[1] # "logout"
  /\ c.op = "me" /\ c.st = "ok" => c.ans \in Users
  /\ c.op = "login" /\ c.st = "ok" => c.ans \in Pairs /\ Issued(c.ans)
  /\ c.op = "logout" => ~Denied(c)

\* The state, and every request of it.
Typed ==
  /\ NoneApart
  /\ view \in TokenView /\ db \in TokenDb /\ lost \in Nat /\ IsFiniteSet(net)
  /\ \A p \in db.live : Issued(p)
  /\ db.store # None => Issued(db.store)
  /\ \A n \in db.stale : n < db.next
  /\ \A i \in DOMAIN view.failed : IsCall(view.failed[i][1], view.failed[i][2])
  /\ \A c \in net : TypedCall(c)

\* A refresh renews the pair that is stored, and has spent it when it is answered; what
\* it brought is a younger pair of the same user.
OfStored(c) == c.op \in Refreshing /\ c.here /\ ~db.tangled => c.arg.pair = db.store
Spent(c) == c.op \in Refreshing /\ c.st # "sent" /\ lost = 0 => c.arg.pair \notin db.live
Renews(c) == c.op \in Refreshing /\ c.st = "ok" =>
  /\ c.arg.pair \in Pairs /\ c.ans \in Pairs /\ Owner(c.ans) = Owner(c.arg.pair) /\ Issued(c.ans)
  /\ Number(c.arg.pair) < Number(c.ans)
  /\ c.here /\ ~db.tangled => Number(c.ans) \notin db.stale

\* No request outlives its document, and the access token of a replay is valid.
Attended(c) == ~db.cut => c.here
Replay(c) == c.op = "call" /\ c.arg.retry /\ ~db.tangled /\ ~db.cut => Valid(c.arg.acc) /\ ~Denied(c)

\* A sign-in asks with the pair it was given, while nothing is stored; a sign-out gives
\* back the stored pair.
SigningIn(c) == c.here /\ ~db.over /\ ~db.tangled =>
  /\ c.op = "me" => /\ db.store = None /\ c.arg.acc = c.arg.about /\ Number(c.arg.about) \notin db.stale
                    /\ ~Denied(c) /\ (c.st = "ok" => c.ans = Owner(c.arg.about)) /\ (c.st = "err" => lost > 0)
  /\ c.op = "login" /\ c.st = "ok" /\ db.store = None => Number(c.ans) \notin db.stale
  /\ c.op = "refresh" => c.arg.orig[1] # "me"
SigningOut(c) == c.op = "logout" =>
  /\ c.here /\ ~db.tangled => c.arg.about = db.store
  /\ c.st # "sent" /\ lost = 0 => c.arg.about \notin db.live
TokenCall(c) ==
  /\ TypedCall(c) /\ OfStored(c) /\ Spent(c) /\ Renews(c) /\ Attended(c) /\ Replay(c) /\ SigningIn(c) /\ SigningOut(c)
Calls == \A c \in net : TokenCall(c)

\* One request at most signs somebody in or out, and the page is busy meanwhile.
Auth(c) == c.here /\ (c.op \in Identifying \/ (c.op = "refresh" /\ c.arg.orig[1] \in Identifying))
Alone == ~db.tangled =>
  /\ \A c, d \in net : Auth(c) /\ Auth(d) => c = d
  /\ \A c \in net : Auth(c) => view.busy
  /\ \A i \in DOMAIN view.failed : view.failed[i][1] = "call" /\ ~view.failed[i][2].retry

\* `isRefreshing` is up while a refresh is under way, the user on the screen is the one
\* whose pair is stored, and every session alive is that of the stored pair or of one on its way.
Awaited == view.refreshing => \E c \in net : c.op = "refresh" /\ c.here
Owned == ~db.over /\ ~db.tangled /\ db.store # None => db.user = Owner(db.store)
Holds(x, p) == \/ x.op \in {"login", "refresh", "proactive"} /\ x.st = "ok" /\ x.ans = p
               \/ x.op = "me" /\ x.arg.about = p
Accounted == lost = 0 /\ ~db.over /\ ~db.tangled /\ ~db.cut =>
  \A p \in db.live : p = db.store \/ \E x \in net : Holds(x, p)

\* No call failed and no session ended but for a lost request, or two that met.
Unhurt == db.hurt => lost > 0 \/ db.tangled \/ db.cut
TokensInv == Typed /\ Calls /\ Alone /\ Awaited /\ Owned /\ Accounted /\ Unhurt

-----------------------------------------------------------------------------
(* What is known of a request that a step leaves alone. *)

\* What is nobody's is told from users and pairs.
LEMMA NoneIs == ASSUME Typed PROVE None \notin Users /\ None \notin Pairs /\ None # "no" BY DEF Typed, NoneApart

\* The history keeps its type, and never forgets.
LEMMA TrackKeeps == ASSUME NEW d \in TokenDb, IsFiniteSet(net)
  PROVE /\ Track(d) \in TokenDb
        /\ Track(d).store = d.store /\ Track(d).user = d.user /\ Track(d).live = d.live /\ Track(d).stale = d.stale
        /\ Track(d).twice = d.twice /\ Track(d).next = d.next /\ Track(d).over = d.over /\ Track(d).cut = d.cut
        /\ Track(d).hurt = d.hurt
        /\ d.tangled => Track(d).tangled
        /\ ~Track(d).tangled =>
             \A r, q \in net : r.here /\ q.here /\ r.op \in Refreshing =>
               (q.op \in Refreshing => r = q) /\ q.op \notin Identifying
  <1> DEFINE meet == Cardinality(Refreshes) > 1 \/ (Refreshes # {} /\ InFlight(Identifying) # {})
  <1>1. PICK b \in BOOLEAN : b = (d.tangled \/ meet) OBVIOUS
  <1>2. Track(d) = [d EXCEPT !.tangled = b]
    BY <1>1 DEF Track, Identifying, TokenDb
  <1>3. ASSUME ~meet, NEW r \in net, NEW q \in net, r.here, q.here, r.op \in Refreshing
        PROVE (q.op \in Refreshing => r = q) /\ q.op \notin Identifying
    <2>1. r \in Refreshes BY <1>3 DEF Refreshes, InFlight, Refreshing
    <2>2. q.op \notin Identifying BY <1>3, <2>1 DEF InFlight
    <2>3. ASSUME q.op \in Refreshing, r # q PROVE FALSE
      <3>1. {r, q} \subseteq Refreshes BY <1>3, <2>1, <2>3 DEF Refreshes, InFlight, Refreshing
      <3>2. IsFiniteSet(Refreshes) BY FS_Subset DEF Refreshes, InFlight
      <3>3. Cardinality({r, q}) <= Cardinality(Refreshes) BY <3>1, <3>2, FS_Subset
      <3>4. Cardinality({r}) = 1 /\ IsFiniteSet({r}) BY FS_Singleton
      <3>5. Cardinality({r} \cup {q}) = 2
        <4>1. q \notin {r} BY <2>3
        <4>2. Cardinality({r} \cup {q}) = Cardinality({r}) + 1 BY <3>4, <4>1, FS_AddElement
        <4>3. QED BY <3>4, <4>2
      <3>6. {r} \cup {q} = {r, q} OBVIOUS
      <3>7. Cardinality(Refreshes) \in Nat BY <3>2, FS_CardinalityType
      <3>8. Cardinality(Refreshes) > 1 BY <3>3, <3>5, <3>6, <3>7
      <3>9. QED BY <1>3, <3>8
    <2>4. QED BY <2>2, <2>3
  <1> HIDE DEF meet
  <1>4. QED BY <1>1, <1>2, <1>3 DEF TokenDb

Like(x, q) ==
  /\ IsRequest(x) /\ x.op = q.op /\ x.arg = q.arg /\ x.st = q.st /\ x.ans = q.ans
  /\ x.here = q.here \/ (x.here = FALSE /\ db'.cut)
Grows ==
  /\ db'.next \in Nat /\ db.next <= db'.next
  /\ db.tangled => db'.tangled
  /\ db.over => db'.over
  /\ db.cut => db'.cut
  /\ lost' = lost \/ lost' = lost + 1
  /\ \A p \in db'.live : p \in db.live \/ Number(p) = db.next
  /\ db'.stale = db.stale

\* A call is one when more pairs have been issued, and so are a request and what is
\* known of it while the pairs only grow.
LEMMA CallStays == ASSUME Typed, db' \in TokenDb, db.next <= db'.next, NEW op, NEW arg, IsCall(op, arg)
  PROVE IsCall(op, arg)'
  <1>1. \A p \in Pairs : Number(p) \in Nat BY DEF Pairs, Number, MaxPairs
  <1>2. db.next \in Nat /\ db'.next \in Nat BY DEF Typed, TokenDb, MaxPairs
  <1>3. QED BY <1>1, <1>2 DEF IsCall, Issued

LEMMA TypedStays == ASSUME Typed, db' \in TokenDb, Grows, NEW q \in net, NEW x, Like(x, q)
  PROVE TypedCall(x)'
  <1>1. \A p \in Pairs : Number(p) \in Nat BY DEF Pairs, Number, MaxPairs
  <1>2. db.next \in Nat /\ db'.next \in Nat /\ db.next <= db'.next BY DEF Typed, TokenDb, MaxPairs, Grows
  <1>3. TypedCall(q) BY DEF Typed
  <1>4. x.op \in Api => IsCall(x.op, x.arg)' BY <1>2, <1>3, CallStays DEF Like, TypedCall
  <1>5. x.op = "refresh" => IsCall(x.arg.orig[1], x.arg.orig[2])' BY <1>2, <1>3, CallStays DEF Like, TypedCall
  <1>6. x.op \in Refreshing => x.arg.pair \in Pairs \cup {None} /\ (x.arg.pair # None => Issued(x.arg.pair)')
    BY <1>1, <1>2, <1>3 DEF Like, TypedCall, Issued
  <1>7. x.op = "login" /\ x.st = "ok" => x.ans \in Pairs /\ Issued(x.ans)'
    BY <1>1, <1>2, <1>3 DEF Like, TypedCall, Issued
  <1>8. x.here \in BOOLEAN BY <1>3 DEF Like, TypedCall
  <1>9. QED BY <1>3, <1>4, <1>5, <1>6, <1>7, <1>8 DEF Like, TypedCall, Denied

LEMMA SpentStays == ASSUME Typed, Calls, db' \in TokenDb, Grows, NEW q \in net, NEW x, Like(x, q)
  PROVE Spent(x)' /\ (x.op = "logout" /\ x.st # "sent" /\ lost' = 0 => x.arg.about \notin db'.live)
  <1>1. \A p \in Pairs : Number(p) \in Nat BY DEF Pairs, Number, MaxPairs
  <1>2. db.next \in Nat /\ lost \in Nat BY DEF Typed, TokenDb, MaxPairs
  <1>3. lost' = 0 => lost = 0 BY <1>2 DEF Grows
  <1>4. TokenCall(q) /\ TypedCall(q) BY DEF Calls, Typed
  <1>5. None \notin db'.live BY NoneIs DEF TokenDb, Pairs
  <1>6. Spent(x)'
    <2>1. SUFFICES ASSUME x.op \in Refreshing, x.st # "sent", lost' = 0, x.arg.pair \in db'.live PROVE FALSE
      BY DEF Spent
    <2>2. x.arg.pair \in Pairs /\ Issued(x.arg.pair) BY <1>4, <1>5, <2>1 DEF TypedCall, Like
    <2>3. x.arg.pair \notin db.live BY <1>3, <1>4, <2>1 DEF TokenCall, Spent, Like
    <2>4. QED BY <1>1, <1>2, <2>1, <2>2, <2>3 DEF Grows, Issued
  <1>7. ASSUME x.op = "logout", x.st # "sent", lost' = 0, x.arg.about \in db'.live PROVE FALSE
    <2>1. x.arg.about \in Pairs /\ Issued(x.arg.about) BY <1>4, <1>5, <1>7 DEF TypedCall, Like, IsCall, Api
    <2>2. x.arg.about \notin db.live BY <1>3, <1>4, <1>7 DEF TokenCall, SigningOut, Like
    <2>4. QED BY <1>1, <1>2, <1>7, <2>1, <2>2 DEF Grows, Issued
  <1>8. QED BY <1>6, <1>7

LEMMA RenewsStays == ASSUME Typed, Calls, db' \in TokenDb, Grows, NEW q \in net, NEW x, Like(x, q)
  PROVE Renews(x)'
  <1>1. \A p \in Pairs : Number(p) \in Nat BY DEF Pairs, Number, MaxPairs
  <1>2. db.next \in Nat /\ db'.next \in Nat /\ db.next <= db'.next BY DEF Typed, TokenDb, MaxPairs, Grows
  <1>3. Renews(q) /\ TypedCall(q) BY DEF Calls, TokenCall, Typed
  <1>4. QED BY <1>1, <1>2, <1>3 DEF Renews, Like, Grows, Issued, TypedCall

\* A request that the step leaves alone keeps what is known of it: when the stored pair stays ...
LEMMA CallKept == ASSUME Typed, Calls, db' \in TokenDb, Grows, db'.store = db.store, NEW q \in net, NEW x, Like(x, q)
  PROVE TokenCall(x)'
  <1>1. TokenCall(q) /\ TypedCall(q) BY DEF Calls, Typed
  <1>2. lost \in Nat BY DEF Typed
  <1>3. TypedCall(x)' /\ Spent(x)' /\ Renews(x)' BY TypedStays, SpentStays, RenewsStays
  <1>4. OfStored(x)' BY <1>1 DEF TokenCall, OfStored, Like, Grows, TypedCall
  <1>5. Attended(x)' BY <1>1 DEF TokenCall, Attended, Like, Grows
  <1>6. Replay(x)' BY <1>1 DEF TokenCall, Replay, Like, Grows, Valid, Denied
  <1>7. SigningIn(x)'
    <2>1. SUFFICES ASSUME x.here, ~db'.over, ~db'.tangled PROVE SigningIn(x)' BY DEF SigningIn
    <2>2. q.here /\ ~db.over /\ ~db.tangled /\ SigningIn(q) BY <1>1, <2>1 DEF Like, Grows, TokenCall
    <2>3. lost > 0 => lost' > 0 BY <1>2 DEF Grows
    <2>4. QED BY <2>2, <2>3 DEF SigningIn, Like, Grows, Denied
  <1>8. SigningOut(x)' BY <1>1, SpentStays DEF TokenCall, SigningOut, Like, Grows, TypedCall
  <1>9. QED BY <1>3, <1>4, <1>5, <1>6, <1>7, <1>8 DEF TokenCall

\* ... and when it changes, unless the request is one that the change concerns.
LEMMA CallSpared == ASSUME Typed, Calls, db' \in TokenDb, Grows, NEW q \in net, NEW x, Like(x, q),
         ~db'.tangled /\ x.here => x.op \notin Refreshing \cup Identifying
  PROVE TokenCall(x)'
  <1>1. TokenCall(q) /\ TypedCall(q) BY DEF Calls, Typed
  <1>3. TypedCall(x)' /\ Spent(x)' /\ Renews(x)' BY TypedStays, SpentStays, RenewsStays
  <1>4. OfStored(x)' BY <1>1 DEF TokenCall, OfStored, TypedCall, Like
  <1>5. Attended(x)' BY <1>1 DEF TokenCall, Attended, Like, Grows
  <1>6. Replay(x)' BY <1>1 DEF TokenCall, Replay, Like, Grows, Valid, Denied
  <1>7. SigningIn(x)' BY <1>3 DEF SigningIn, TypedCall, Refreshing, Identifying
  <1>8. SigningOut(x)' BY <1>3, SpentStays DEF SigningOut, TypedCall, Identifying
  <1>9. QED BY <1>3, <1>4, <1>5, <1>6, <1>7, <1>8 DEF TokenCall

-----------------------------------------------------------------------------
(* The document that is loaded. *)

\* A document just loaded satisfies the invariant.
LEMMA TokensStart == ASSUME Init, NoneApart PROVE TokensInv
  <1>1. PICK store \in {None, <<"a", 1>>}, stale \in {{}, {1}} :
         /\ db = [page |-> "tokens", store |-> store, user |-> IF store = None THEN None ELSE "a",
                  live |-> {store} \ {None}, stale |-> stale, twice |-> {}, next |-> 2,
                  tangled |-> FALSE, over |-> FALSE, cut |-> FALSE, hurt |-> FALSE]
         /\ view = Document(IF store = None THEN "login" ELSE "app", store)
    BY DEF Init
  <1>2. net = {} /\ lost = 0 BY DEF Init
  <1>3. store \in Pairs \cup {None} /\ (store # None => store = <<"a", 1>>) /\ stale \subseteq 1..MaxPairs
    BY DEF Pairs, Users, MaxPairs
  <1>4. db \in TokenDb
    <2>1. store # None => store \in Pairs BY <1>3
    <2>2. {store} \ {None} \in SUBSET Pairs BY <2>1
    <2>3. 2 \in 1..MaxPairs BY DEF MaxPairs
    <2>4. QED BY <1>1, <1>3, <2>2, <2>3 DEF TokenDb, Users
  <1>5. PICK t \in BOOLEAN : t = (store # None) OBVIOUS
  <1>6. view = [where |-> IF store = None THEN "login" ELSE "app", refreshing |-> FALSE, failed |-> <<>>, timer |-> t, busy |-> FALSE]
    BY <1>1, <1>5 DEF Document
  <1>7. view \in TokenView BY <1>6 DEF TokenView
  <1>8. Typed
    <2>1. IsFiniteSet(net) BY <1>2, FS_EmptySet
    <2>2. store # None => Number(store) = 1 BY <1>3 DEF Number
    <2>3. \A p \in db.live : Issued(p) BY <1>1, <2>2 DEF Issued
    <2>4. db.store # None => Issued(db.store) BY <1>1, <2>2 DEF Issued
    <2>5. \A n \in db.stale : n < db.next BY <1>1
    <2>6. view.failed = <<>> BY <1>6
    <2>7. QED BY <1>2, <1>4, <1>7, <2>1, <2>3, <2>4, <2>5, <2>6 DEF Typed
  <1>9. Calls /\ Alone /\ Awaited BY <1>2, <1>6 DEF Calls, Alone, Awaited
  <1>10. Owned BY <1>1, <1>3 DEF Owned, Owner
  <1>11. Accounted /\ Unhurt BY <1>1 DEF Accounted, Unhurt
  <1>12. QED BY <1>8, <1>9, <1>10, <1>11 DEF TokensInv

-----------------------------------------------------------------------------
(* The server answers. *)

\* What is known of a request is known of it when it is answered.
LEMMA AnswerGood == ASSUME Typed, Calls, db' \in TokenDb, Grows, db'.store = db.store, NEW c \in net, NEW A,
    IsRequest(A), A.op = c.op, A.arg = c.arg, A.here = c.here, A.st \in {"ok", "err"},
    A.op = "me" /\ A.st = "ok" => A.ans \in Users /\ A.ans = Owner(A.arg.acc),
    A.op = "login" /\ A.st = "ok" => A.ans \in Pairs /\ Number(A.ans) = db.next /\ Issued(A.ans)',
    A.op \in Refreshing /\ A.st = "ok" =>
       A.arg.pair \in Pairs /\ A.ans \in Pairs /\ Owner(A.ans) = Owner(A.arg.pair) /\ Number(A.ans) = db.next /\ Issued(A.ans)',
    A.op \in Refreshing /\ lost' = 0 => A.arg.pair \notin db'.live,
    A.op = "logout" => ~Denied(A) /\ (lost' = 0 => A.arg.about \notin db'.live),
    A.op \in {"call", "me"} /\ Denied(A) => ~Valid(A.arg.acc),
    A.st = "err" /\ ~Denied(A) => lost' > 0
  PROVE TokenCall(A)'
  <1>1. TokenCall(c) /\ TypedCall(c) BY DEF Calls, Typed
  <1>2. db.next \in Nat /\ db'.next \in Nat /\ db.next <= db'.next BY DEF Typed, TokenDb, MaxPairs, Grows
  <1>3. \A p \in Pairs : Number(p) \in Nat BY DEF Pairs, Number, MaxPairs
  <1>4. TypedCall(A)'
    <2>1. A.op \in Api => IsCall(A.op, A.arg)' BY <1>1, <1>2, CallStays DEF TypedCall
    <2>2. A.op = "refresh" => IsCall(A.arg.orig[1], A.arg.orig[2])' BY <1>1, <1>2, CallStays DEF TypedCall
    <2>3. A.op \in Refreshing => A.arg.pair \in Pairs \cup {None} /\ (A.arg.pair # None => Issued(A.arg.pair)')
      BY <1>1, <1>2, <1>3 DEF TypedCall, Issued
    <2>4. A.here \in BOOLEAN /\ A.op \in Api \cup Refreshing BY <1>1 DEF TypedCall
    <2>5. A.op = "refresh" => A.arg.orig[1] # "logout" BY <1>1 DEF TypedCall
    <2>6. QED BY <2>1, <2>2, <2>3, <2>4, <2>5 DEF TypedCall, Denied
  <1>5. OfStored(A)' BY <1>1 DEF TokenCall, OfStored, Grows, TypedCall
  <1>6. Spent(A)' BY DEF Spent
  <1>7. Renews(A)'
    <2>1. SUFFICES ASSUME A.op \in Refreshing, A.st = "ok" PROVE Renews(A)' BY DEF Renews
    <2>2. A.arg.pair # None => Issued(A.arg.pair) BY <1>1, <2>1 DEF TypedCall
    <2>3. A.arg.pair # None BY <2>1, NoneIs DEF Pairs
    <2>4. Number(A.ans) \notin db.stale BY <1>2, <2>1 DEF Typed
    <2>5. QED BY <1>3, <2>1, <2>2, <2>3, <2>4 DEF Renews, Issued, Grows
  <1>8. Attended(A)' BY <1>1 DEF TokenCall, Attended, Grows
  <1>9. Replay(A)' BY <1>1 DEF TokenCall, Replay, Grows, Valid, Denied
  <1>10. SigningIn(A)'
    <2>1. SUFFICES ASSUME A.here, ~db'.over, ~db'.tangled PROVE SigningIn(A)' BY DEF SigningIn
    <2>2. c.here /\ ~db.over /\ ~db.tangled /\ SigningIn(c) BY <1>1, <2>1 DEF Grows, TokenCall
    <2>3. A.op = "login" /\ A.st = "ok" => Number(A.ans) \notin db'.stale BY <1>2 DEF Typed, Grows
    <2>4. CASE A.op = "me"
      <3>1. db.store = None /\ A.arg.acc = A.arg.about /\ Number(A.arg.about) \notin db.stale BY <2>2, <2>4 DEF SigningIn
      <3>2. A.arg.about \in Pairs BY <1>1, <2>4 DEF TypedCall, IsCall, Api
      <3>3. Valid(A.arg.acc) BY <3>1, <3>2, NoneIs DEF Valid, Pairs
      <3>4. QED BY <2>4, <3>1, <3>3 DEF SigningIn, Grows, Denied
    <2>5. CASE A.op # "me" BY <2>2, <2>3, <2>5 DEF SigningIn
    <2>6. QED BY <2>4, <2>5
  <1>11. SigningOut(A)' BY <1>1 DEF TokenCall, SigningOut, Grows, TypedCall
  <1>12. QED BY <1>4, <1>5, <1>6, <1>7, <1>8, <1>9, <1>10, <1>11 DEF TokenCall

\* A request answered, whoever answers it, keeps the invariant when the answer says what it should.
LEMMA AnswerStep == ASSUME TokensInv, NEW c \in net, NEW d \in TokenDb, NEW st, NEW a, AnswerIs(c, d, st, a), Grows,
    d.store = db.store, d.user = db.user, d.tangled = db.tangled, d.over = db.over, d.cut = db.cut, d.hurt = db.hurt,
    \A p \in d.live : Number(p) < d.next,
    NEW A, A = [c EXCEPT !.st = st, !.ans = a], TokenCall(A)',
    lost' = 0 => \A p \in d.live : p \in db.live \/ Holds(A, p)
  PROVE TokensInv'
  <1>1. net' = (net \ {c}) \cup {A} /\ db' = d /\ view' = view /\ c.st = "sent" BY DEF AnswerIs
  <1>2. Typed /\ Calls /\ Alone /\ Awaited /\ Owned /\ Accounted /\ Unhurt BY DEF TokensInv
  <1>3. \A q \in net : IsRequest(q) BY <1>2 DEF Typed, TypedCall
  <1>4. A.op = c.op /\ A.arg = c.arg /\ A.here = c.here BY <1>3 DEF IsRequest
  <1>5. Calls'
    <2>1. SUFFICES ASSUME NEW x \in net' PROVE TokenCall(x)' BY DEF Calls
    <2>2. CASE x \in net
      <3>1. Like(x, x) BY <1>3, <2>2 DEF Like
      <3>2. QED BY <1>1, <1>2, <2>2, <3>1, CallKept
    <2>3. CASE x \notin net BY <1>1, <2>3
    <2>4. QED BY <2>2, <2>3
  <1>6. Typed'
    <2>1. IsFiniteSet(net')
      <3>1. IsFiniteSet(net \ {c}) BY <1>2, FS_Subset DEF Typed
      <3>2. QED BY <1>1, <3>1, FS_AddElement
    <2>2. (\A i \in DOMAIN view.failed : IsCall(view.failed[i][1], view.failed[i][2]))'
      <3>1. SUFFICES ASSUME NEW i \in DOMAIN view'.failed PROVE IsCall(view.failed[i][1], view.failed[i][2])' OBVIOUS
      <3>2. IsCall(view.failed[i][1], view.failed[i][2]) BY <1>1, <1>2, <3>1 DEF Typed
      <3>3. db.next <= db'.next /\ db' \in TokenDb BY <1>1 DEF Grows
      <3>4. PICK op, arg : op = view.failed[i][1] /\ arg = view.failed[i][2] OBVIOUS
      <3>5. IsCall(op, arg)' BY <1>2, <3>2, <3>3, <3>4, CallStays
      <3>6. QED BY <1>1, <3>4, <3>5
    <2>3. \A p \in db'.live : Issued(p)' BY <1>1 DEF Issued
    <2>4. db.next \in Nat /\ db'.next \in Nat /\ db.next <= db'.next BY <1>1, <1>2 DEF Typed, TokenDb, MaxPairs, Grows
    <2>5. db'.store # None => Issued(db.store)'
      <3>1. SUFFICES ASSUME db.store # None PROVE Number(db.store) < db'.next BY <1>1 DEF Issued
      <3>2. db.store \in Pairs /\ Issued(db.store) BY <1>2, <3>1 DEF Typed, TokenDb
      <3>3. Number(db.store) \in Nat BY <3>2 DEF Pairs, Number, MaxPairs
      <3>4. QED BY <2>4, <3>2, <3>3 DEF Issued
    <2>6. \A n \in db'.stale : n < db'.next
      <3>1. \A n \in db.stale : n \in Nat /\ n < db.next BY <1>2 DEF Typed, TokenDb, MaxPairs
      <3>2. QED BY <2>4, <3>1 DEF Grows
    <2>7. lost' \in Nat BY <1>2 DEF Typed, Grows
    <2>8. \A x \in net' : TypedCall(x)' BY <1>5 DEF Calls, TokenCall
    <2>9. QED BY <1>1, <1>2, <2>1, <2>2, <2>3, <2>5, <2>6, <2>7, <2>8 DEF Typed
  <1>7. Alone'
    <2>1. Auth(A) <=> Auth(c) BY <1>4 DEF Auth
    <2>2. ASSUME NEW q PROVE Auth(q)' <=> Auth(q) BY DEF Auth
    <2>3. QED BY <1>1, <1>2, <2>1, <2>2 DEF Alone
  <1>8. Awaited' BY <1>1, <1>2, <1>4 DEF Awaited
  <1>9. Owned' BY <1>1, <1>2 DEF Owned
  <1>10. Accounted'
    <2>1. SUFFICES ASSUME lost' = 0, ~db'.over, ~db'.tangled, ~db'.cut, NEW p \in d.live
          PROVE p = db.store \/ \E x \in net' : Holds(x, p)
      BY <1>1 DEF Accounted
    <2>2. lost = 0 BY <1>2, <2>1 DEF Typed, Grows
    <2>3. CASE Holds(A, p) BY <1>1, <2>3
    <2>4. CASE p \in db.live
      <3>1. p = db.store \/ \E x \in net : Holds(x, p) BY <1>1, <1>2, <2>1, <2>2, <2>4 DEF Accounted
      <3>2. Holds(c, p) => Holds(A, p) BY <1>1, <1>4 DEF Holds
      <3>3. QED BY <1>1, <3>1, <3>2
    <2>5. QED BY <2>1, <2>3, <2>4
  <1>11. Unhurt'
    <2>1. lost > 0 => lost' > 0 BY <1>2 DEF Typed, Grows
    <2>2. QED BY <1>1, <1>2, <2>1 DEF Unhurt
  <1>12. QED BY <1>5, <1>6, <1>7, <1>8, <1>9, <1>10, <1>11 DEF TokensInv

\* A call the server took, or refused.
LEMMA ServedIs == ASSUME NEW c, NEW d, NEW a, Served(c, d, a)
  PROVE \E st, b : /\ AnswerIs(c, d, st, b)
                   /\ \/ st = "ok" /\ b = a /\ lost' = lost
                      \/ st = "err" /\ b = None /\ lost' = lost + 1
  BY DEF Served, Serve, LoseAnswer, Failing

\* Each of the server's handlers keeps the invariant.
LEMMA ServeCallStep == ASSUME TokensInv, ServeCall \/ Fail PROVE TokensInv'
  <1>1. PICK c, st, b : /\ c \in net /\ AnswerIs(c, db, st, b)
          /\ \/ st = "ok" /\ b = Owner(c.arg.acc) /\ lost' = lost /\ c.op \in {"call", "me"} /\ Valid(c.arg.acc)
             \/ st = "err" /\ b = None /\ lost' = lost + 1
             \/ st = "err" /\ b = "no" /\ lost' = lost /\ c.op \in {"call", "me"} /\ ~Valid(c.arg.acc)
    <2>1. CASE ServeCall
      <3>1. PICK c \in net : c.op \in {"call", "me"} /\ IF Valid(c.arg.acc) THEN Served(c, db, Owner(c.arg.acc)) ELSE Reject(c)
        BY <2>1 DEF ServeCall
      <3>2. CASE Valid(c.arg.acc) BY <3>1, <3>2, ServedIs
      <3>3. CASE ~Valid(c.arg.acc)
        <4>1. AnswerIs(c, db, "err", "no") /\ lost' = lost BY <3>1, <3>3 DEF Reject
        <4>2. QED BY <3>1, <3>3, <4>1
      <3>4. QED BY <3>2, <3>3
    <2>2. CASE Fail
      <3>1. PICK c \in net : AnswerIs(c, db, "err", None) /\ lost' = lost + 1
        BY <2>2 DEF Fail, Refuse, LoseAnswer, Failing
      <3>2. QED BY <3>1
    <2>3. QED BY <2>1, <2>2
  <1>2. Typed /\ Calls /\ TypedCall(c) /\ TokenCall(c) BY <1>1 DEF TokensInv, Typed, Calls
  <1>3. db' = db BY <1>1 DEF AnswerIs
  <1>4. Grows BY <1>1, <1>2, <1>3 DEF Grows, Typed, TokenDb, MaxPairs
  <1>5. PICK A : A = [c EXCEPT !.st = st, !.ans = b] OBVIOUS
  <1>6. IsRequest(A) /\ A.op = c.op /\ A.arg = c.arg /\ A.here = c.here /\ A.st = st /\ A.ans = b
    BY <1>2, <1>5 DEF TypedCall, IsRequest
  <1>7. c.op = "me" /\ Valid(c.arg.acc) => Owner(c.arg.acc) \in Users
    <2>1. SUFFICES ASSUME c.op = "me", Valid(c.arg.acc) PROVE Owner(c.arg.acc) \in Users OBVIOUS
    <2>2. c.arg.acc \in Pairs BY <1>2, <2>1 DEF TypedCall, IsCall, Api, CallArgs, Valid
    <2>3. QED BY <2>2 DEF Pairs, Owner
  <1>8. lost = 0 \/ lost' > 0 BY <1>1, <1>2 DEF Typed
  <1>9. TokenCall(A)'
    <2>2. A.st = "err" /\ ~Denied(A) => lost' > 0 BY <1>1, <1>2, <1>6 DEF Denied, Typed
    <2>3. Denied(A) => b = "no" /\ c.op \in {"call", "me"} /\ ~Valid(c.arg.acc) BY <1>1, <1>2, <1>6, NoneIs DEF Denied
    <2>4. A.op \in Refreshing \cup {"logout"} => lost' # 0 BY <1>1, <1>2, <1>6 DEF Refreshing, Typed
    <2>5. A.op \in Refreshing \cup {"login"} => A.st # "ok" BY <1>1, <1>6 DEF Refreshing
    <2>6. A.op = "logout" => ~Denied(A) BY <1>6, <2>3
    <2>7. A.op = "me" /\ A.st = "ok" => A.ans \in Users /\ A.ans = Owner(A.arg.acc) BY <1>1, <1>6, <1>7
    <2>8. A.st \in {"ok", "err"} BY <1>1, <1>6
    <2>9. db' \in TokenDb /\ db'.store = db.store BY <1>2, <1>3 DEF Typed
    <2>10. QED BY <1>1, <1>2, <1>4, <1>6, <2>2, <2>3, <2>4, <2>5, <2>6, <2>7, <2>8, <2>9, AnswerGood
  <1>10. db \in TokenDb /\ \A p \in db.live : Number(p) < db.next BY <1>2 DEF Typed, Issued
  <1>11. QED BY <1>1, <1>4, <1>5, <1>9, <1>10, AnswerStep

\* POST /auth/logout ends the session of the pair it is given.
LEMMA ServeLogoutStep == ASSUME TokensInv, ServeLogout PROVE TokensInv'
  <1>1. PICK c, st, b : /\ c \in net /\ c.op = "logout"
          /\ AnswerIs(c, [db EXCEPT !.live = @ \ {c.arg.about}], st, b)
          /\ \/ st = "ok" /\ b = None /\ lost' = lost
             \/ st = "err" /\ b = None /\ lost' = lost + 1
    BY ServedIs DEF ServeLogout
  <1> DEFINE d == [db EXCEPT !.live = db.live \ {c.arg.about}]
  <1>2. Typed /\ Calls /\ TypedCall(c) /\ TokenCall(c) BY <1>1 DEF TokensInv, Typed, Calls
  <1>3. d \in TokenDb /\ d.live = db.live \ {c.arg.about} /\ d.store = db.store /\ d.user = db.user /\ d.tangled = db.tangled
        /\ d.over = db.over /\ d.cut = db.cut /\ d.hurt = db.hurt /\ d.next = db.next /\ d.stale = db.stale
    BY <1>2 DEF Typed, TokenDb
  <1>4. AnswerIs(c, d, st, b) BY <1>1
  <1> HIDE DEF d
  <1>5. db' = d BY <1>4 DEF AnswerIs
  <1>6. Grows BY <1>1, <1>2, <1>3, <1>5 DEF Grows, Typed, TokenDb, MaxPairs
  <1>7. PICK A : A = [c EXCEPT !.st = st, !.ans = b] OBVIOUS
  <1>8. IsRequest(A) /\ A.op = c.op /\ A.arg = c.arg /\ A.here = c.here /\ A.st = st /\ A.ans = b
    BY <1>2, <1>7 DEF TypedCall, IsRequest
  <1>9. TokenCall(A)'
    <2>1. ~Denied(A) BY <1>1, <1>2, <1>8, NoneIs DEF Denied
    <2>2. A.arg.about \notin db'.live BY <1>3, <1>5, <1>8
    <2>3. A.st = "err" => lost' > 0 BY <1>1, <1>2, <1>8 DEF Typed
    <2>4. A.op = "logout" /\ A.op \notin Refreshing /\ A.st \in {"ok", "err"} BY <1>1, <1>8 DEF Refreshing
    <2>5. db' \in TokenDb /\ db'.store = db.store BY <1>3, <1>5
    <2>6. QED BY <1>1, <1>2, <1>6, <1>8, <2>1, <2>2, <2>3, <2>4, <2>5, AnswerGood
  <1>10. \A p \in d.live : Number(p) < d.next /\ p \in db.live BY <1>2, <1>3 DEF Typed, Issued
  <1>11. QED BY <1>1, <1>3, <1>4, <1>6, <1>7, <1>9, <1>10, AnswerStep

\* The pair a handler issues is fresh.
LEMMA Issues == ASSUME NEW d \in TokenDb, d.next < MaxPairs, NEW u \in Users
  PROVE /\ Issue(d, u) \in TokenDb /\ Issue(d, u).live = d.live \cup {<<u, d.next>>} /\ Issue(d, u).next = d.next + 1
        /\ Issue(d, u).store = d.store /\ Issue(d, u).user = d.user /\ Issue(d, u).tangled = d.tangled
        /\ Issue(d, u).over = d.over /\ Issue(d, u).cut = d.cut /\ Issue(d, u).hurt = d.hurt /\ Issue(d, u).stale = d.stale
        /\ <<u, d.next>> \in Pairs /\ Owner(<<u, d.next>>) = u /\ Number(<<u, d.next>>) = d.next
        /\ d.next \in Nat
  <1>1. d.next \in 1..MaxPairs /\ d.next + 1 \in 1..MaxPairs BY DEF TokenDb, MaxPairs
  <1>2. <<u, d.next>> \in Pairs BY <1>1 DEF Pairs
  <1>3. d.live \cup {<<u, d.next>>} \in SUBSET Pairs BY <1>2 DEF TokenDb
  <1>4. Issue(d, u) = [d EXCEPT !.live = d.live \cup {<<u, d.next>>}, !.next = d.next + 1] BY DEF Issue, TokenDb
  <1>5. Owner(<<u, d.next>>) = u /\ Number(<<u, d.next>>) = d.next BY DEF Owner, Number
  <1>6. Issue(d, u) \in TokenDb BY <1>1, <1>3, <1>4 DEF TokenDb
  <1>7. QED BY <1>1, <1>2, <1>4, <1>5, <1>6 DEF TokenDb, MaxPairs

\* POST /auth/login issues a pair nobody has.
LEMMA ServeLoginStep == ASSUME TokensInv, ServeLogin PROVE TokensInv'
  <1>1. PICK c, d, st, b : /\ c \in net /\ c.op = "login" /\ AnswerIs(c, d, st, b)
          /\ \/ d = Issue(db, c.arg.about) /\ db.next < MaxPairs /\ st = "ok" /\ b = <<c.arg.about, db.next>> /\ lost' = lost
             \/ d = Issue(db, c.arg.about) /\ db.next < MaxPairs /\ st = "err" /\ b = None /\ lost' = lost + 1
             \/ d = db /\ st = "err" /\ b = "no" /\ lost' = lost
    <2>1. PICK c \in net : c.op = "login" /\ ((db.next < MaxPairs /\ Served(c, Issue(db, c.arg.about), <<c.arg.about, db.next>>)) \/ Reject(c))
      BY DEF ServeLogin
    <2>2. CASE Reject(c)
      <3>1. AnswerIs(c, db, "err", "no") /\ lost' = lost BY <2>2 DEF Reject
      <3>2. QED BY <2>1, <3>1
    <2>3. CASE ~Reject(c) BY <2>1, <2>3, ServedIs
    <2>4. QED BY <2>2, <2>3
  <1>2. Typed /\ Calls /\ TypedCall(c) /\ TokenCall(c) BY <1>1 DEF TokensInv, Typed, Calls
  <1>3. c.arg.about \in Users /\ db \in TokenDb BY <1>1, <1>2 DEF TypedCall, IsCall, Api, Typed
  <1>4. /\ d \in TokenDb /\ d.store = db.store /\ d.user = db.user /\ d.tangled = db.tangled
        /\ d.over = db.over /\ d.cut = db.cut /\ d.hurt = db.hurt /\ d.stale = db.stale
        /\ db.next <= d.next /\ d.next \in Nat /\ db.next \in Nat
        /\ \A p \in d.live : p \in db.live \/ (Number(p) = db.next /\ d.next = db.next + 1 /\ p = <<c.arg.about, db.next>> /\ (st = "ok" => p = b))
    <2>1. db.next \in Nat BY <1>3 DEF TokenDb, MaxPairs
    <2>2. CASE d = Issue(db, c.arg.about) /\ db.next < MaxPairs
      <3>0. Issue(db, c.arg.about).live = db.live \cup {<<c.arg.about, db.next>>} BY <1>3, <2>2, Issues
      <3>1. \A p \in d.live : p \in db.live \/ p = <<c.arg.about, db.next>> BY <2>2, <3>0
      <3>2. d.next = db.next + 1 /\ Number(<<c.arg.about, db.next>>) = db.next BY <1>3, <2>2, Issues
      <3>3. d \in TokenDb /\ d.store = db.store /\ d.user = db.user /\ d.tangled = db.tangled
            /\ d.over = db.over /\ d.cut = db.cut /\ d.hurt = db.hurt /\ d.stale = db.stale
        BY <1>3, <2>2, Issues
      <3>4. st = "ok" => b = <<c.arg.about, db.next>> BY <1>1, <2>2
      <3>5. QED BY <2>1, <3>1, <3>2, <3>3, <3>4
    <2>3. CASE d = db BY <1>3, <2>1, <2>3
    <2>4. QED BY <1>1, <2>2, <2>3
  <1>5. db' = d BY <1>1 DEF AnswerIs
  <1>6. Grows BY <1>1, <1>4, <1>5 DEF Grows
  <1>7. PICK A : A = [c EXCEPT !.st = st, !.ans = b] OBVIOUS
  <1>8. IsRequest(A) /\ A.op = c.op /\ A.arg = c.arg /\ A.here = c.here /\ A.st = st /\ A.ans = b
    BY <1>2, <1>7 DEF TypedCall, IsRequest
  <1>9. TokenCall(A)'
    <2>1. A.st = "ok" => A.ans \in Pairs /\ Number(A.ans) = db.next /\ Issued(b)'
      BY <1>1, <1>3, <1>5, <1>8, Issues DEF Issued
    <2>3. A.st = "err" /\ ~Denied(A) => lost' > 0 BY <1>1, <1>2, <1>8 DEF Typed, Denied
    <2>4. A.op = "login" /\ A.op \notin Refreshing /\ A.st \in {"ok", "err"} BY <1>1, <1>8 DEF Refreshing
    <2>5. db' \in TokenDb /\ db'.store = db.store BY <1>4, <1>5
    <2>6. QED BY <1>1, <1>2, <1>6, <1>8, <2>1, <2>3, <2>4, <2>5, AnswerGood
  <1>10. \A p \in d.live : Number(p) < d.next
    <2>1. \A p \in db.live : Number(p) \in Nat /\ Number(p) < db.next
      BY <1>2 DEF Typed, Issued, TokenDb, Pairs, Number, MaxPairs
    <2>2. QED BY <1>4, <2>1
  <1>11. lost' = 0 => \A p \in d.live : p \in db.live \/ Holds(A, p)
    <2>1. lost' = 0 => st = "ok" \/ d = db BY <1>1, <1>2 DEF Typed
    <2>2. QED BY <1>1, <1>4, <1>8, <2>1 DEF Holds
  <1>12. QED BY <1>1, <1>4, <1>6, <1>7, <1>9, <1>10, <1>11, AnswerStep

\* POST /auth/refresh spends the pair it is given and issues the next one.
LEMMA ServeRefreshStep == ASSUME TokensInv, ServeRefresh PROVE TokensInv'
  <1> DEFINE spent(c, t) == [db EXCEPT !.live = db.live \ {c.arg.pair}, !.twice = t]
  <1>1. PICK c, t, d, st, b : /\ c \in net /\ c.op \in Refreshing /\ AnswerIs(c, d, st, b)
          /\ \/ /\ d = Issue(spent(c, t), Owner(c.arg.pair)) /\ db.next < MaxPairs
                /\ c.arg.pair \in db.live \cup db.twice /\ t \subseteq db.twice \cup {c.arg.pair}
                /\ \/ st = "ok" /\ b = <<Owner(c.arg.pair), db.next>> /\ lost' = lost
                   \/ st = "err" /\ b = None /\ lost' = lost + 1
             \/ d = db /\ st = "err" /\ b = "no" /\ lost' = lost /\ c.arg.pair \notin db.live
    <2>1. PICK c, t :
            /\ c \in net /\ c.op \in {"refresh", "proactive"} /\ t \subseteq db.twice \cup {c.arg.pair}
            /\ \/ /\ c.arg.pair \in db.live \/ c.arg.pair \in db.twice
                  /\ db.next < MaxPairs
                  /\ Served(c, Issue(spent(c, t), Owner(c.arg.pair)), <<Owner(c.arg.pair), db.next>>)
               \/ c.arg.pair \notin db.live /\ Reject(c)
      BY DEF ServeRefresh
    <2>2. CASE c.arg.pair \notin db.live /\ Reject(c)
      <3>1. AnswerIs(c, db, "err", "no") /\ lost' = lost BY <2>2 DEF Reject
      <3>2. QED BY <2>1, <2>2, <3>1 DEF Refreshing
    <2>3. CASE ~(c.arg.pair \notin db.live /\ Reject(c)) BY <2>1, <2>3, ServedIs DEF Refreshing
    <2>4. QED BY <2>2, <2>3
  <1>2. Typed /\ Calls /\ TypedCall(c) /\ TokenCall(c) BY <1>1 DEF TokensInv, Typed, Calls
  <1>3. db \in TokenDb /\ db.next \in Nat BY <1>2 DEF Typed, TokenDb, MaxPairs
  <1> DEFINE new == <<Owner(c.arg.pair), db.next>>
  <1>4. ASSUME d # db
        PROVE /\ c.arg.pair \in Pairs /\ new \in Pairs /\ Owner(new) = Owner(c.arg.pair) /\ Number(new) = db.next
              /\ d \in TokenDb /\ d.store = db.store /\ d.user = db.user /\ d.tangled = db.tangled
              /\ d.over = db.over /\ d.cut = db.cut /\ d.hurt = db.hurt /\ d.stale = db.stale /\ d.next = db.next + 1
              /\ d.live = (db.live \ {c.arg.pair}) \cup {new}
    <2>1. c.arg.pair \in Pairs BY <1>1, <1>3, <1>4 DEF TokenDb
    <2>2. spent(c, t) \in TokenDb BY <1>1, <1>3, <1>4, <2>1 DEF TokenDb
    <2>3. Owner(c.arg.pair) \in Users BY <2>1 DEF Pairs, Owner
    <2>4. spent(c, t).live = db.live \ {c.arg.pair} /\ spent(c, t).next = db.next /\ spent(c, t).store = db.store
          /\ spent(c, t).user = db.user /\ spent(c, t).tangled = db.tangled /\ spent(c, t).over = db.over
          /\ spent(c, t).cut = db.cut /\ spent(c, t).hurt = db.hurt /\ spent(c, t).stale = db.stale
      BY <1>3 DEF TokenDb
    <2>5. d = Issue(spent(c, t), Owner(c.arg.pair)) /\ db.next < MaxPairs BY <1>1, <1>4
    <2> HIDE DEF spent
    <2>6. QED BY <2>1, <2>2, <2>3, <2>4, <2>5, Issues
  <1> HIDE DEF spent
  <1>5. /\ d \in TokenDb /\ d.store = db.store /\ d.user = db.user /\ d.tangled = db.tangled
        /\ d.over = db.over /\ d.cut = db.cut /\ d.hurt = db.hurt /\ d.stale = db.stale
        /\ db.next <= d.next /\ d.next \in Nat
        /\ \A p \in d.live : p \in db.live \/ (d # db /\ p = new)
    BY <1>3, <1>4
  <1>6. db' = d BY <1>1 DEF AnswerIs
  <1>7. Grows BY <1>1, <1>4, <1>5, <1>6 DEF Grows
  <1>8. PICK A : A = [c EXCEPT !.st = st, !.ans = b] OBVIOUS
  <1>9. IsRequest(A) /\ A.op = c.op /\ A.arg = c.arg /\ A.here = c.here /\ A.st = st /\ A.ans = b
    BY <1>2, <1>8 DEF TypedCall, IsRequest
  <1>10. d = db => st = "err" /\ b = "no" /\ c.arg.pair \notin db.live
    <2>1. db.next < MaxPairs /\ c.arg.pair \in db.live \cup db.twice /\ t \subseteq db.twice \cup {c.arg.pair}
            => Issue(spent(c, t), Owner(c.arg.pair)).next = db.next + 1
      <3>1. SUFFICES ASSUME db.next < MaxPairs, c.arg.pair \in db.live \cup db.twice, t \subseteq db.twice \cup {c.arg.pair}
            PROVE Issue(spent(c, t), Owner(c.arg.pair)).next = db.next + 1
        OBVIOUS
      <3>2. c.arg.pair \in Pairs BY <1>3, <3>1 DEF TokenDb
      <3>3. spent(c, t) \in TokenDb /\ spent(c, t).next = db.next BY <1>3, <3>1, <3>2 DEF TokenDb, spent
      <3>4. Owner(c.arg.pair) \in Users BY <3>2 DEF Pairs, Owner
      <3>5. QED BY <3>1, <3>3, <3>4, Issues
    <2>2. QED BY <1>1, <1>3, <2>1
  <1>11. c.arg.pair \notin d.live
    <2>1. CASE d = db BY <1>10, <2>1
    <2>2. CASE d # db
      <3>1. c.arg.pair # None BY <1>2, <1>4, <2>2, NoneIs
      <3>2. Number(c.arg.pair) < db.next /\ Number(c.arg.pair) \in Nat
        BY <1>1, <1>2, <1>4, <2>2, <3>1 DEF TypedCall, Issued, Pairs, Number, MaxPairs
      <3>3. QED BY <1>3, <1>4, <2>2, <3>2
    <2>3. QED BY <2>1, <2>2
  <1>12. d # db => (st = "ok" /\ b = new) \/ (st = "err" /\ b = None /\ lost' = lost + 1) BY <1>1
  <1>13. TokenCall(A)'
    <2>1. A.st = "ok" => A.arg.pair \in Pairs /\ A.ans \in Pairs /\ Owner(A.ans) = Owner(A.arg.pair) /\ Number(A.ans) = db.next
      BY <1>4, <1>9, <1>10, <1>12
    <2>2. A.st = "ok" => Issued(b)' BY <1>3, <1>4, <1>6, <1>9, <1>10, <1>12 DEF Issued
    <2>3. A.st = "err" /\ ~Denied(A) => lost' > 0 BY <1>1, <1>2, <1>9 DEF Typed, Denied
    <2>4. A.op \in Refreshing /\ A.op \notin Api /\ A.st \in {"ok", "err"} BY <1>1, <1>9 DEF Refreshing, Api
    <2>5. db' \in TokenDb /\ db'.store = db.store /\ A.arg.pair \notin db'.live BY <1>5, <1>6, <1>9, <1>11
    <2>6. QED BY <1>1, <1>2, <1>7, <1>9, <2>1, <2>2, <2>3, <2>4, <2>5, AnswerGood DEF Api
  <1>14. \A p \in d.live : Number(p) < d.next
    <2>1. \A p \in db.live : Number(p) \in Nat /\ Number(p) < db.next
      BY <1>2 DEF Typed, Issued, TokenDb, Pairs, Number, MaxPairs
    <2>2. QED BY <1>3, <1>4, <1>5, <2>1
  <1>15. lost' = 0 => \A p \in d.live : p \in db.live \/ Holds(A, p)
    <2>1. lost' = 0 /\ d # db => st = "ok" /\ b = new BY <1>1, <1>2, <1>12 DEF Typed
    <2>2. QED BY <1>1, <1>5, <1>9, <2>1 DEF Holds, Refreshing
  <1>16. QED BY <1>1, <1>5, <1>7, <1>8, <1>13, <1>14, <1>15, AnswerStep

-----------------------------------------------------------------------------
(* The client: an answer is handled. *)

\* Requests stay finitely many.
LEMMA MappedFinite == ASSUME NEW S, IsFiniteSet(S), NEW f, DOMAIN f = S PROVE IsFiniteSet({f[x] : x \in S})
  <1> DEFINE T == {f[x] : x \in S}
  <1>1. [x \in S |-> f[x]] \in Surjection(S, T) BY DEF Surjection
  <1>2. QED BY <1>1, FS_Surjection

LEMMA WithoutFinite == ASSUME IsFiniteSet(net), NEW c PROVE IsFiniteSet(Without(c))
  <1> DEFINE f == [d \in net \ {c} |-> [d EXCEPT !.id = IF d.id > c.id THEN d.id - 1 ELSE d.id]]
  <1>1. IsFiniteSet(net \ {c}) BY FS_Subset
  <1>2. DOMAIN f = net \ {c} OBVIOUS
  <1>3. {f[d] : d \in net \ {c}} = Without(c) BY DEF Without
  <1> HIDE DEF f
  <1>4. IsFiniteSet({f[d] : d \in net \ {c}}) BY <1>1, <1>2, MappedFinite
  <1>5. QED BY <1>3, <1>4

LEMMA SendFinite == ASSUME NEW calls, IsFiniteSet(calls), NEW S, NEW asks \in Seq(S) PROVE IsFiniteSet(Send(calls, asks))
  <1> DEFINE f == [i \in DOMAIN asks |-> Request(Cardinality(calls) + i, asks[i])]
  <1>1. DOMAIN asks = 1..Len(asks) /\ Len(asks) \in Nat OBVIOUS
  <1>2. IsFiniteSet(DOMAIN asks) BY <1>1, FS_Interval
  <1>3. IsFiniteSet({f[i] : i \in DOMAIN asks}) BY <1>2, MappedFinite
  <1>4. Send(calls, asks) = calls \cup {f[i] : i \in DOMAIN asks} BY DEF Send
  <1>5. QED BY <1>3, <1>4, FS_Union

\* Renumbering keeps requests apart.
LEMMA WithoutSame == ASSUME NEW c, NEW x \in Without(c), NEW y \in Without(c),
    \A p, q \in net \ {c} : Auth(p) /\ Auth(q) => p = q, \A q \in net : IsRequest(q), Auth(x), Auth(y)
  PROVE x = y
  <1> DEFINE f(d) == [d EXCEPT !.id = IF d.id > c.id THEN d.id - 1 ELSE d.id]
  <1>1. PICK p \in net \ {c} : x = f(p) BY DEF Without
  <1>2. PICK q \in net \ {c} : y = f(q) BY DEF Without
  <1>3. Auth(p) /\ Auth(q) BY <1>1, <1>2 DEF Auth, IsRequest
  <1> HIDE DEF f
  <1>4. QED BY <1>1, <1>2, <1>3

\* A handler that takes an answer, and sends what it likes, keeps the invariant under
\* conditions on what it sends and stores.
LEMMA HandlerStep == ASSUME TokensInv, NEW c \in net, c.here, c.st # "sent",
    Without(c) \subseteq net', IsFiniteSet(net'), lost' = lost,
    NEW d \in TokenDb, db' = Track(d),
    d.live = db.live, d.stale = db.stale, d.next = db.next, d.cut = db.cut, d.tangled = db.tangled, db.over => d.over,
    d.store = db.store \/ (c.op \in Refreshing \cup {"me", "logout"} /\ (d.store # None => Issued(d.store))),
    d.hurt => db.hurt \/ lost > 0 \/ Track(d).tangled \/ d.cut,
    view' \in TokenView, (\A i \in DOMAIN view.failed : IsCall(view.failed[i][1], view.failed[i][2]))',
    \A x \in net' \ Without(c) : TokenCall(x)',
    ~Track(d).tangled => /\ \A x \in net' \ Without(c) : Auth(x) => Auth(c) /\ view'.busy
                         /\ \A x, y \in net' \ Without(c) : Auth(x) /\ Auth(y) => x = y,
    view'.busy = view.busy \/ Auth(c),
    ~Track(d).tangled => \A i \in DOMAIN view'.failed : view'.failed[i][1] = "call" /\ ~view'.failed[i][2].retry,
    Awaited', Owned',
    lost = 0 /\ ~d.over /\ ~Track(d).tangled /\ ~d.cut =>
      \A p \in db.live : p = db.store \/ Holds(c, p) => p = d.store \/ \E x \in net' : Holds(x, p)
  PROVE TokensInv'
  <1>1. Typed /\ Calls /\ Alone /\ Awaited /\ Owned /\ Accounted /\ Unhurt BY DEF TokensInv
  <1>2. TypedCall(c) /\ TokenCall(c) /\ \A q \in net : IsRequest(q) BY <1>1 DEF Typed, Calls, TypedCall
  <1>3. /\ db' \in TokenDb /\ db'.store = d.store /\ db'.user = d.user /\ db'.live = db.live /\ db'.stale = db.stale
        /\ db'.next = db.next /\ db'.cut = db.cut /\ db'.over = d.over /\ db'.hurt = d.hurt
        /\ db.tangled => db'.tangled
    BY <1>1, TrackKeeps DEF Typed
  <1>4. ~db'.tangled => \A r, q \in net : r.here /\ q.here /\ r.op \in Refreshing =>
               (q.op \in Refreshing => r = q) /\ q.op \notin Identifying
    BY <1>1, TrackKeeps DEF Typed
  <1>5. Grows
    <2>1. db.next \in Nat BY <1>1 DEF Typed, TokenDb, MaxPairs
    <2>2. QED BY <1>3, <2>1 DEF Grows
  <1>6. ASSUME NEW x \in Without(c)
        PROVE \E q \in net \ {c} : Like(x, q) /\ x.here = q.here
    <2>1. Requests BY <1>2 DEF Requests
    <2>2. QED BY <2>1, WithoutKeeps DEF Renumbered, Like
  <1>7. ASSUME NEW q \in net, q # c, d.store # db.store, ~db'.tangled, q.here PROVE q.op \notin Refreshing \cup Identifying
    <2>1. CASE c.op \in Refreshing BY <1>4, <1>7, <2>1
    <2>2. CASE c.op \in {"me", "logout"}
      <3>1. Auth(c) BY <2>2 DEF Auth, Identifying
      <3>2. q.op \notin Identifying BY <1>1, <1>3, <1>7, <3>1 DEF Alone, Auth
      <3>3. q.op \notin Refreshing BY <1>4, <1>7, <2>2 DEF Identifying
      <3>4. QED BY <3>2, <3>3
    <2>3. QED BY <1>7, <2>1, <2>2
  <1>8. Calls'
    <2>1. SUFFICES ASSUME NEW x \in net', x \in Without(c) PROVE TokenCall(x)' BY DEF Calls
    <2>2. PICK q \in net \ {c} : Like(x, q) /\ x.here = q.here BY <1>6, <2>1
    <2>3. CASE d.store = db.store BY <1>1, <1>3, <1>5, <2>2, <2>3, CallKept
    <2>4. CASE d.store # db.store
      <3>1. ~db'.tangled /\ x.here => x.op \notin Refreshing \cup Identifying BY <1>7, <2>2, <2>4 DEF Like
      <3>2. QED BY <1>1, <1>3, <1>5, <2>2, <3>1, CallSpared
    <2>5. QED BY <2>3, <2>4
  <1>9. Typed'
    <2>1. \A x \in net' : TypedCall(x)' BY <1>8 DEF Calls, TokenCall
    <2>2. \A p \in db'.live : Issued(p)' BY <1>1, <1>3 DEF Typed, Issued
    <2>3. db'.store # None => Issued(d.store)' BY <1>1, <1>3 DEF Typed, Issued
    <2>4. QED BY <1>1, <1>3, <2>1, <2>2, <2>3 DEF Typed
  <1>10. Alone'
    <2>1. SUFFICES ASSUME ~db'.tangled PROVE
             /\ \A x, y \in net' : Auth(x) /\ Auth(y) => x = y
             /\ \A x \in net' : Auth(x) => view'.busy
             /\ \A i \in DOMAIN view'.failed : view'.failed[i][1] = "call" /\ ~view'.failed[i][2].retry
      BY DEF Alone, Auth
    <2>2. /\ \A p, q \in net : Auth(p) /\ Auth(q) => p = q
          /\ \A q \in net : Auth(q) => view.busy
      BY <1>1, <1>3, <2>1 DEF Alone
    <2>3. ASSUME NEW x \in Without(c), Auth(x) PROVE ~Auth(c)
      <3>1. PICK q \in net \ {c} : Like(x, q) /\ x.here = q.here BY <1>6
      <3>2. Auth(q) BY <2>3, <3>1 DEF Auth, Like
      <3>3. QED BY <2>2, <3>2
    <2>4. ASSUME NEW x \in Without(c), Auth(x) PROVE view'.busy
      <3>1. PICK q \in net \ {c} : Like(x, q) /\ x.here = q.here BY <1>6
      <3>2. Auth(q) BY <2>4, <3>1 DEF Auth, Like
      <3>3. QED BY <2>2, <2>3, <2>4, <3>2
    <2>5. ASSUME NEW x \in net', NEW y \in net', Auth(x), Auth(y) PROVE x = y
      <3>1. CASE x \in Without(c) /\ y \in Without(c) BY <1>2, <2>2, <2>5, <3>1, WithoutSame
      <3>2. CASE x \notin Without(c) /\ y \notin Without(c) BY <1>3, <2>1, <2>5, <3>2
      <3>3. CASE x \in Without(c) /\ y \notin Without(c) BY <1>3, <2>1, <2>3, <2>5, <3>3
      <3>4. CASE x \notin Without(c) /\ y \in Without(c) BY <1>3, <2>1, <2>3, <2>5, <3>4
      <3>5. QED BY <3>1, <3>2, <3>3, <3>4
    <2>6. QED BY <2>1, <2>4, <2>5
  <1>11. Accounted'
    <2>1. SUFFICES ASSUME lost = 0, ~d.over, ~db'.tangled, ~d.cut, NEW p \in db.live
          PROVE p = d.store \/ \E x \in net' : Holds(x, p)
      BY <1>3 DEF Accounted, Holds
    <2>2. p = db.store \/ \E q \in net : Holds(q, p) BY <1>1, <1>3, <2>1 DEF Accounted
    <2>3. ASSUME NEW q \in net \ {c}, Holds(q, p) PROVE \E x \in Without(c) : Holds(x, p)
      <3>1. PICK x \in Without(c) : x = [q EXCEPT !.id = IF q.id > c.id THEN q.id - 1 ELSE q.id] BY DEF Without
      <3>2. Holds(x, p) BY <1>2, <2>3, <3>1 DEF Holds, IsRequest
      <3>3. QED BY <3>2
    <2>4. QED BY <2>1, <2>2, <2>3
  <1>12. Unhurt' BY <1>1, <1>3 DEF Unhurt
  <1>13. QED BY <1>8, <1>9, <1>10, <1>11, <1>12 DEF TokensInv

\* What a handler takes away, sends and leaves on the page.
LEMMA EndIs == ASSUME NEW c, c.here, NEW v, NEW d, End(c, v, d)
  PROVE c.st # "sent" /\ net' = Without(c) /\ view' = v /\ db' = Track(d) /\ lost' = lost
  BY DEF End, Go, AnsweredWith

LEMMA ThenIs == ASSUME NEW c, c.here, NEW asks, NEW v, NEW d, Then(c, asks, v, d)
  PROVE c.st # "sent" /\ net' = Send(Without(c), asks) /\ view' = v /\ db' = Track(d) /\ lost' = lost
  BY DEF Then, Go, AnsweredWith

LEMMA AnswersIs == ASSUME NEW op, NEW c \in Answers(op) PROVE c \in net /\ c.here /\ c.op = op
  BY DEF Answers, Waiting

\* What a handler leaves as it was: the calls that wait.
LEMMA FailedStay == ASSUME Typed, db' = Track(db), view'.failed = view.failed
  PROVE (\A i \in DOMAIN view.failed : IsCall(view.failed[i][1], view.failed[i][2]))'
  <1>1. SUFFICES ASSUME NEW i \in DOMAIN view'.failed PROVE IsCall(view.failed[i][1], view.failed[i][2])' OBVIOUS
  <1>2. IsCall(view.failed[i][1], view.failed[i][2]) BY <1>1 DEF Typed
  <1>3. db' \in TokenDb /\ db'.next = db.next BY TrackKeeps DEF Typed
  <1>4. PICK op, arg : op = view.failed[i][1] /\ arg = view.failed[i][2] OBVIOUS
  <1>5. IsCall(op, arg)' BY <1>2, <1>3, <1>4 DEF IsCall, Issued
  <1>6. QED BY <1>4, <1>5

\* A call refused while a refresh is under way waits for it.
LEMMA QueueCallStep == ASSUME TokensInv, QueueCall PROVE TokensInv'
  <1>1. PICK op, c : /\ op \in Api /\ c \in Answers(op) /\ Intercepted(c) /\ view.refreshing
             /\ End(c, [view EXCEPT !.failed = Append(@, <<c.op, c.arg>>)], db)
    BY DEF QueueCall
  <1>2. c \in net /\ c.here /\ c.op = op BY <1>1, AnswersIs
  <1>3. Typed /\ Calls /\ Alone /\ Awaited /\ Owned /\ TypedCall(c) /\ TokenCall(c) /\ db \in TokenDb /\ view \in TokenView /\ IsFiniteSet(net)
    BY <1>2 DEF TokensInv, Typed, Calls
  <1> DEFINE v == [view EXCEPT !.failed = Append(view.failed, <<c.op, c.arg>>)]
  <1>4. c.st # "sent" /\ net' = Without(c) /\ view' = v /\ db' = Track(db) /\ lost' = lost
    BY <1>1, <1>2, EndIs
  <1>5. c.op \in Api /\ IsCall(c.op, c.arg) /\ c.arg \in CallArgs /\ <<c.op, c.arg>> \in Api \X CallArgs
    BY <1>1, <1>2, <1>3 DEF TypedCall, IsCall
  <1>6. view.failed \in Seq(Api \X CallArgs) BY <1>3 DEF TokenView
  <1>7. /\ v \in TokenView /\ v.busy = view.busy /\ v.refreshing = view.refreshing
        /\ v.failed = Append(view.failed, <<c.op, c.arg>>)
    <2>1. Append(view.failed, <<c.op, c.arg>>) \in Seq(Api \X CallArgs) BY <1>5, <1>6
    <2>2. QED BY <1>3, <2>1 DEF TokenView
  <1> HIDE DEF v
  <1>8. db'.next = db.next /\ db' \in TokenDb BY <1>3, <1>4, TrackKeeps
  <1>9. \A i \in DOMAIN v.failed : (i \in DOMAIN view.failed /\ v.failed[i] = view.failed[i]) \/ v.failed[i] = <<c.op, c.arg>>
    BY <1>5, <1>6, <1>7
  <1>10. (\A i \in DOMAIN view.failed : IsCall(view.failed[i][1], view.failed[i][2]))'
    <2>1. SUFFICES ASSUME NEW i \in DOMAIN view'.failed PROVE IsCall(view.failed[i][1], view.failed[i][2])' OBVIOUS
    <2>2. PICK p, arg : p = v.failed[i][1] /\ arg = v.failed[i][2] OBVIOUS
    <2>3. IsCall(p, arg) BY <1>3, <1>4, <1>5, <1>9, <2>1, <2>2 DEF Typed
    <2>4. IsCall(p, arg)' BY <1>8, <2>3 DEF IsCall, Issued
    <2>5. QED BY <1>4, <2>2, <2>4
  <1>11. PICK r \in net : r.op = "refresh" /\ r.here BY <1>1, <1>3 DEF Awaited
  <1>12. ~Track(db).tangled => c.op = "call" /\ ~db.tangled
    BY <1>2, <1>3, <1>5, <1>11, TrackKeeps DEF Api, Identifying, Refreshing
  <1>13. ~Track(db).tangled => \A i \in DOMAIN v.failed : v.failed[i][1] = "call" /\ ~v.failed[i][2].retry
    BY <1>1, <1>3, <1>9, <1>12 DEF Alone, Intercepted
  <1>14. Awaited'
    <2>1. r \in net \ {c} BY <1>2, <1>5, <1>11 DEF Api
    <2>2. PICK x \in Without(c) : x = [r EXCEPT !.id = IF r.id > c.id THEN r.id - 1 ELSE r.id] BY <2>1 DEF Without
    <2>3. IsRequest(r) BY <1>3 DEF Typed, TypedCall
    <2>4. x.op = "refresh" /\ x.here BY <1>11, <2>2, <2>3 DEF IsRequest
    <2>5. QED BY <1>4, <2>4 DEF Awaited
  <1>15. Owned' BY <1>3, <1>4, TrackKeeps DEF Owned
  <1>16. IsFiniteSet(net') BY <1>3, <1>4, WithoutFinite
  <1>18. ASSUME NEW p PROVE ~Holds(c, p) \/ Track(db).tangled BY <1>1, <1>5, <1>12 DEF Holds, Intercepted, Denied
  <1>19. QED BY <1>2, <1>3, <1>4, <1>7, <1>10, <1>13, <1>14, <1>15, <1>16, <1>18, HandlerStep

(* `more` is `calls` and one request that was just sent. *)
OneMore(more, calls, op, arg) == \E r :
  /\ r \in more /\ calls \subseteq more /\ IsFiniteSet(more)
  /\ IsRequest(r) /\ r.op = op /\ r.arg = arg /\ r.st = "sent" /\ r.ans = None /\ r.here = TRUE
  /\ \A x \in more \ calls : x = r

\* A handler sends one request more.
LEMMA SendOne == ASSUME NEW calls, IsFiniteSet(calls), NEW op, NEW arg
  PROVE OneMore(Send(calls, << <<op, arg>> >>), calls, op, arg)
  <1> DEFINE r == Request(Cardinality(calls) + 1, <<op, arg>>)
  <1>1. DOMAIN << <<op, arg>> >> = {1} /\ << <<op, arg>> >>[1] = <<op, arg>> OBVIOUS
  <1>2. Send(calls, << <<op, arg>> >>) = calls \cup {r} BY <1>1 DEF Send
  <1>3. IsRequest(r) /\ r.op = op /\ r.arg = arg /\ r.st = "sent" /\ r.ans = None /\ r.here = TRUE BY DEF Request, IsRequest
  <1>4. IsFiniteSet(calls \cup {r}) BY FS_AddElement
  <1> HIDE DEF r
  <1>5. QED BY <1>2, <1>3, <1>4 DEF OneMore

\* A call refused starts a refresh.
LEMMA StartRefreshStep == ASSUME TokensInv, StartRefresh PROVE TokensInv'
  <1>1. PICK op, c, a : /\ op \in Api /\ c \in Answers(op) /\ Intercepted(c) /\ ~view.refreshing
                        /\ a = [pair |-> db.store, orig |-> <<c.op, [c.arg EXCEPT !.retry = TRUE]>>]
                        /\ Then(c, << <<"refresh", a>> >>, [view EXCEPT !.refreshing = TRUE], db)
    BY DEF StartRefresh
  <1>2. c \in net /\ c.here /\ c.op = op BY <1>1, AnswersIs
  <1>3. Typed /\ Calls /\ Alone /\ Owned /\ TypedCall(c) /\ TokenCall(c) /\ db \in TokenDb /\ view \in TokenView /\ IsFiniteSet(net)
    BY <1>2 DEF TokensInv, Typed, Calls
  <1> DEFINE v == [view EXCEPT !.refreshing = TRUE]
  <1>4. c.st # "sent" /\ net' = Send(Without(c), << <<"refresh", a>> >>) /\ view' = v /\ db' = Track(db) /\ lost' = lost
    BY <1>1, <1>2, ThenIs
  <1>5. c.op \in Api /\ IsCall(c.op, c.arg) /\ c.arg \in CallArgs /\ Denied(c) /\ c.st = "err"
    BY <1>1, <1>2, <1>3 DEF TypedCall, IsCall, Intercepted, Denied
  <1>6. v \in TokenView /\ v.busy = view.busy /\ v.failed = view.failed BY <1>3 DEF TokenView
  <1>7. /\ a.pair = db.store /\ a.orig = <<c.op, [c.arg EXCEPT !.retry = TRUE]>>
        /\ a.orig[1] = c.op /\ IsCall(a.orig[1], a.orig[2]) /\ c.op # "logout"
    BY <1>1, <1>3, <1>5 DEF IsCall, CallArgs, TypedCall
  <1> HIDE DEF v
  <1>8. db' \in TokenDb /\ db'.store = db.store /\ db'.next = db.next /\ db'.over = db.over /\ (db.tangled => db'.tangled)
    BY <1>3, <1>4, TrackKeeps
  <1>9. PICK r : /\ r \in net' /\ Without(c) \subseteq net' /\ IsFiniteSet(net') /\ IsRequest(r) /\ r.op = "refresh" /\ r.arg = a
                 /\ r.st = "sent" /\ r.ans = None /\ r.here = TRUE /\ \A x \in net' \ Without(c) : x = r
    <2>1. IsFiniteSet(Without(c)) BY <1>3, WithoutFinite
    <2>2. OneMore(net', Without(c), "refresh", a) BY <1>4, <2>1, SendOne
    <2>3. QED BY <2>2 DEF OneMore
  <1>10. c.op = "me" => db.over \/ db.tangled BY <1>2, <1>3, <1>5 DEF TokenCall, SigningIn
  <1>11. TokenCall(r)'
    <2>1. TypedCall(r)'
      <3>1. db.store \in Pairs \cup {None} /\ (db.store # None => Issued(db.store)) BY <1>3 DEF Typed, TokenDb
      <3>2. IsCall(a.orig[1], a.orig[2])'
        <4>1. PICK o, w : o = a.orig[1] /\ w = a.orig[2] OBVIOUS
        <4>2. IsCall(o, w)' BY <1>7, <1>8, <4>1 DEF IsCall, Issued
        <4>3. QED BY <4>1, <4>2
      <3>3. QED BY <1>7, <1>8, <1>9, <3>1, <3>2 DEF TypedCall, Api, Refreshing, Issued
    <2>2. OfStored(r)' /\ Spent(r)' /\ Renews(r)' /\ Attended(r)' BY <1>7, <1>8, <1>9 DEF OfStored, Spent, Renews, Attended
    <2>3. Replay(r)' /\ SigningOut(r)' BY <1>9 DEF Replay, SigningOut
    <2>4. SigningIn(r)' BY <1>7, <1>8, <1>9, <1>10 DEF SigningIn
    <2>5. QED BY <2>1, <2>2, <2>3, <2>4 DEF TokenCall
  <1>12. Auth(r) => Auth(c) /\ (~db'.tangled => v.busy)
    <2>1. Auth(r) => Auth(c) BY <1>2, <1>7, <1>9 DEF Auth, Identifying
    <2>2. Auth(c) /\ ~db'.tangled => view.busy BY <1>2, <1>3, <1>8 DEF Alone
    <2>3. QED BY <1>6, <2>1, <2>2
  <1>13. Awaited' BY <1>9 DEF Awaited
  <1>14. Owned' BY <1>3, <1>4, TrackKeeps DEF Owned
  <1>15. IsFiniteSet(net') BY <1>9
  <1>16. ~Track(db).tangled => \A i \in DOMAIN v.failed : v.failed[i][1] = "call" /\ ~v.failed[i][2].retry
    BY <1>3, <1>4, <1>6, <1>8 DEF Alone
  <1>17. (\A i \in DOMAIN view.failed : IsCall(view.failed[i][1], view.failed[i][2]))' BY <1>3, <1>4, <1>6, FailedStay
  <1>18. ASSUME NEW p PROVE ~Holds(c, p) \/ db.over \/ Track(db).tangled BY <1>4, <1>5, <1>8, <1>10 DEF Holds, Api
  <1>19. QED BY <1>2, <1>3, <1>4, <1>6, <1>9, <1>11, <1>12, <1>13, <1>14, <1>15, <1>16, <1>17, <1>18, HandlerStep

\* A refresh that ends well stores its pair, and sends again every call that waited.
LEMMA RefreshedStep == ASSUME TokensInv, Refreshed PROVE TokensInv'
  <1> DEFINE calls(c) == <<c.arg.orig>> \o view.failed
             d(c) == Renewed(db, c.ans)
             asks(c) == [i \in DOMAIN calls(c) |-> Replayed(calls(c)[i], Header(d(c).store, c.ans))]
  <1>1. PICK c : c \in Answers("refresh") /\ c.st = "ok" /\ Then(c, asks(c), Flushed(view), d(c))
    BY DEF Refreshed
  <1>2. c \in net /\ c.here /\ c.op = "refresh" BY <1>1, AnswersIs
  <1>3. Typed /\ Calls /\ Alone /\ Owned /\ TypedCall(c) /\ TokenCall(c) /\ db \in TokenDb /\ view \in TokenView /\ IsFiniteSet(net) /\ lost \in Nat
    BY <1>2 DEF TokensInv, Typed, Calls
  <1>4. /\ c.arg.pair \in Pairs /\ c.ans \in Pairs /\ Owner(c.ans) = Owner(c.arg.pair) /\ Issued(c.ans)
        /\ ~db.tangled => c.arg.pair = db.store /\ Number(c.ans) \notin db.stale
        /\ lost = 0 => c.arg.pair \notin db.live
        /\ c.ans # None /\ c.arg.pair # None
    BY <1>1, <1>2, <1>3, NoneIs DEF TokenCall, Renews, OfStored, Spent, Refreshing, Pairs
  <1>5. d(c) = [db EXCEPT !.store = c.ans] BY DEF Renewed
  <1>6. d(c) \in TokenDb /\ d(c).store = c.ans /\ d(c).user = db.user /\ d(c).live = db.live /\ d(c).stale = db.stale /\ d(c).next = db.next
        /\ d(c).tangled = db.tangled /\ d(c).over = db.over /\ d(c).cut = db.cut /\ d(c).hurt = db.hurt
    BY <1>3, <1>4, <1>5 DEF TokenDb
  <1>7. Header(d(c).store, c.ans) = c.ans BY <1>6 DEF Header
  <1>8. c.st # "sent" /\ net' = Send(Without(c), asks(c)) /\ view' = Flushed(view) /\ db' = Track(d(c)) /\ lost' = lost
    BY <1>1, <1>2, ThenIs
  <1>9. /\ Flushed(view) \in TokenView /\ Flushed(view).busy = view.busy /\ Flushed(view).failed = <<>>
        /\ ~Flushed(view).refreshing
    <2>1. <<>> \in Seq(Api \X CallArgs) OBVIOUS
    <2>2. QED BY <1>3, <2>1 DEF Flushed, TokenView
  <1>10. /\ db' \in TokenDb /\ db'.store = c.ans /\ db'.user = db.user /\ db'.live = db.live /\ db'.stale = db.stale
         /\ db'.next = db.next /\ db'.cut = db.cut /\ db'.over = db.over /\ (db.tangled => db'.tangled)
    BY <1>3, <1>6, <1>8, TrackKeeps
  <1>11. /\ Len(calls(c)) \in Nat /\ DOMAIN calls(c) = 1..Len(calls(c)) /\ calls(c)[1] = c.arg.orig
         /\ \A i \in DOMAIN calls(c) : IsCall(calls(c)[i][1], calls(c)[i][2]) /\ (i # 1 => i - 1 \in DOMAIN view.failed /\ calls(c)[i] = view.failed[i - 1])
    <2>1. view.failed \in Seq(Api \X CallArgs) BY <1>3 DEF TokenView
    <2>2. IsCall(c.arg.orig[1], c.arg.orig[2]) BY <1>2, <1>3 DEF TypedCall
    <2> DEFINE S == (Api \X CallArgs) \cup {c.arg.orig}
    <2>5. view.failed \in Seq(S) /\ <<c.arg.orig>> \in Seq(S) BY <2>1
    <2> HIDE DEF S
    <2>3. Len(calls(c)) \in Nat /\ DOMAIN calls(c) = 1..Len(calls(c)) /\ calls(c)[1] = c.arg.orig
          /\ \A i \in DOMAIN calls(c) : i # 1 => i - 1 \in DOMAIN view.failed /\ calls(c)[i] = view.failed[i - 1]
      BY <2>5
    <2>4. QED BY <1>3, <2>2, <2>3 DEF Typed
  <1> DEFINE one(i) == Request(Cardinality(Without(c)) + i, asks(c)[i])
  <1>12. ASSUME NEW x \in net' \ Without(c)
         PROVE \E i \in DOMAIN calls(c) : /\ x = one(i) /\ IsRequest(x) /\ x.op = calls(c)[i][1] /\ x.arg = [calls(c)[i][2] EXCEPT !.acc = c.ans]
                                          /\ x.st = "sent" /\ x.ans = None /\ x.here = TRUE
    <2>1. PICK i \in DOMAIN asks(c) : x = one(i) BY <1>8, <1>12 DEF Send
    <2>2. asks(c)[i] = <<calls(c)[i][1], [calls(c)[i][2] EXCEPT !.acc = c.ans]>> BY <1>7, <2>1 DEF Replayed
    <2>3. i \in DOMAIN calls(c) BY <2>1
    <2> HIDE DEF calls, asks, one
    <2>4. PICK a : a = asks(c)[i] OBVIOUS
    <2>5. a[1] = calls(c)[i][1] /\ a[2] = [calls(c)[i][2] EXCEPT !.acc = c.ans] BY <2>2, <2>4
    <2>6. x = Request(Cardinality(Without(c)) + i, a) BY <2>1, <2>4 DEF one
    <2>7. IsRequest(x) /\ x.op = a[1] /\ x.arg = a[2] /\ x.st = "sent" /\ x.ans = None /\ x.here = TRUE
      BY <2>6 DEF Request, IsRequest
    <2>8. QED BY <2>1, <2>3, <2>5, <2>7
  <1> HIDE DEF one, asks, d
  <1>13. c.arg.orig[1] # "logout" BY <1>2, <1>3 DEF TypedCall
  <1>14. ~db.over /\ ~db.tangled => c.arg.orig[1] # "me" BY <1>2, <1>3 DEF TokenCall, SigningIn
  <1>15. \A i \in DOMAIN calls(c) : ~db.tangled /\ i # 1 => calls(c)[i][1] = "call" /\ ~calls(c)[i][2].retry
    BY <1>3, <1>11 DEF Alone
  <1> HIDE DEF calls
  <1>16. ASSUME NEW x \in net' \ Without(c) PROVE TokenCall(x)'
    <2>1. PICK i \in DOMAIN calls(c) : /\ IsRequest(x) /\ x.op = calls(c)[i][1] /\ x.arg = [calls(c)[i][2] EXCEPT !.acc = c.ans]
                                       /\ x.st = "sent" /\ x.ans = None /\ x.here = TRUE
      BY <1>12, <1>16
    <2>2. IsCall(x.op, x.arg)
      <3>1. IsCall(calls(c)[i][1], calls(c)[i][2]) BY <1>11, <2>1
      <3>2. x.arg \in CallArgs /\ x.arg.about = calls(c)[i][2].about BY <1>4, <2>1, <3>1 DEF IsCall, CallArgs
      <3>3. QED BY <2>1, <3>1, <3>2 DEF IsCall
    <2>3. x.op \in Api /\ x.op \notin Refreshing /\ x.op # "refresh" BY <2>2 DEF IsCall, Api, Refreshing
    <2>4. IsCall(x.op, x.arg)' BY <1>10, <2>2 DEF IsCall, Issued
    <2>5. TypedCall(x)' BY <2>1, <2>3, <2>4 DEF TypedCall, Denied
    <2>6. x.arg.acc = c.ans BY <1>11, <2>1 DEF IsCall, CallArgs
    <2>7. ~db.tangled => x.op # "logout" BY <1>11, <1>13, <1>15, <2>1
    <2>8. ~db.over /\ ~db.tangled => x.op # "me" BY <1>11, <1>14, <1>15, <2>1
    <2>9. OfStored(x)' /\ Spent(x)' /\ Renews(x)' /\ Attended(x)' BY <2>1, <2>3 DEF OfStored, Spent, Renews, Attended
    <2>10. Replay(x)' BY <1>4, <1>10, <2>1, <2>6 DEF Replay, Valid, Denied
    <2>11. SigningIn(x)' BY <1>10, <2>1, <2>3, <2>8 DEF SigningIn
    <2>12. SigningOut(x)' BY <1>10, <2>1, <2>7 DEF SigningOut
    <2>13. QED BY <2>5, <2>9, <2>10, <2>11, <2>12 DEF TokenCall
  <1>17. ASSUME NEW x \in net' \ Without(c), Auth(x), ~db'.tangled PROVE x = one(1) /\ Auth(c) /\ view.busy
    <2>1. PICK i \in DOMAIN calls(c) : x = one(i) /\ IsRequest(x) /\ x.op = calls(c)[i][1] /\ x.here
      BY <1>12, <1>17
    <2>2. x.op \in Identifying
      <3>1. x.op \in Api BY <1>11, <2>1 DEF IsCall
      <3>2. QED BY <1>17, <3>1 DEF Auth, Api
    <2>3. i = 1 BY <1>10, <1>15, <1>17, <2>1, <2>2 DEF Identifying
    <2>4. Auth(c) BY <1>2, <1>11, <2>1, <2>2, <2>3 DEF Auth
    <2>5. QED BY <1>2, <1>3, <1>10, <1>17, <2>1, <2>3, <2>4 DEF Alone
  <1>18. Awaited' BY <1>8, <1>9 DEF Awaited
  <1>19. Owned' BY <1>3, <1>4, <1>10 DEF Owned
  <1>20. IsFiniteSet(net') /\ Without(c) \subseteq net'
    <2>1. IsFiniteSet(Without(c)) BY <1>3, WithoutFinite
    <2>2. DOMAIN asks(c) = 1..Len(calls(c)) /\ Len(calls(c)) \in Nat BY <1>11 DEF asks
    <2>3. asks(c) \in Seq({asks(c)[i] : i \in DOMAIN asks(c)})
      <3>1. asks(c) \in [1..Len(calls(c)) -> {asks(c)[i] : i \in DOMAIN asks(c)}] BY <2>2 DEF asks
      <3>2. QED BY <2>2, <3>1
    <2>4. QED BY <1>8, <2>1, <2>3, SendFinite DEF Send
  <1>21. (\A i \in DOMAIN view.failed : IsCall(view.failed[i][1], view.failed[i][2]))' BY <1>8, <1>9
  <1>22. ASSUME lost = 0, ~db'.tangled, NEW p \in db.live, p = db.store \/ Holds(c, p) PROVE p = c.ans
    BY <1>2, <1>4, <1>10, <1>22 DEF Holds
  <1>23. Issued(d(c).store) BY <1>4, <1>6
  <1>24. c.op \in Refreshing BY <1>2 DEF Refreshing
  <1>25. QED BY <1>2, <1>3, <1>6, <1>8, <1>9, <1>16, <1>17, <1>18, <1>19, <1>20, <1>21, <1>22, <1>23, <1>24, HandlerStep

\* A document loaded anew.
LEMMA DocumentIs == ASSUME NEW where \in {"login", "app"}, NEW store
  PROVE Document(where, store) \in TokenView /\ ~Document(where, store).refreshing /\ Document(where, store).failed = <<>>
  <1>1. PICK t \in BOOLEAN : t = (store # None) OBVIOUS
  <1>2. Document(where, store) = [where |-> where, refreshing |-> FALSE, failed |-> <<>>, timer |-> t, busy |-> FALSE]
    BY <1>1 DEF Document
  <1>3. <<>> \in Seq(Api \X CallArgs) OBVIOUS
  <1>4. QED BY <1>2, <1>3 DEF TokenView

\* As many requests are left behind as there were.
LEMMA LeftFinite == ASSUME NEW S, IsFiniteSet(S) PROVE IsFiniteSet({[q EXCEPT !.here = FALSE] : q \in S})
  <1> DEFINE f == [q \in S |-> [q EXCEPT !.here = FALSE]]
  <1>1. DOMAIN f = S /\ {f[q] : q \in S} = {[q EXCEPT !.here = FALSE] : q \in S} OBVIOUS
  <1> HIDE DEF f
  <1>2. QED BY <1>1, MappedFinite

\* Membership is a Boolean.
LEMMA Decided == ASSUME NEW x, NEW S PROVE \E h \in BOOLEAN : h = (x \in S)
  <1>1. CASE x \in S
    <2>1. TRUE = (x \in S) BY <1>1
    <2>2. QED BY <2>1
  <1>2. CASE x \notin S
    <2>1. FALSE = (x \in S) BY <1>2
    <2>2. QED BY <2>1
  <1>3. QED BY <1>1, <1>2

\* A document that ends leaves its requests behind.
LEMMA RefreshFailedStep == ASSUME TokensInv, RefreshFailed PROVE TokensInv'
  <1> DEFINE left(c) == {[q EXCEPT !.here = FALSE] : q \in Without(c)}
  <1>a. PICK c : /\ c \in Answers("refresh") /\ c.st = "err"
                 /\ Go(c, left(c), Document("login", None),
                       [db EXCEPT !.store = None, !.cut = db.cut \/ Without(c) # {}, !.hurt = db.hurt \/ db.store \in db.live])
    BY DEF RefreshFailed
  <1>b. PICK w \in BOOLEAN : w = (Without(c) # {}) OBVIOUS
  <1>c. PICK h \in BOOLEAN : h = (db.store \in db.live) BY Decided
  <1> DEFINE d == [db EXCEPT !.store = None, !.cut = db.cut \/ w, !.hurt = db.hurt \/ h]
  <1>1. c \in Answers("refresh") /\ c.st = "err" /\ w = (Without(c) # {}) /\ h = (db.store \in db.live)
        /\ Go(c, left(c), Document("login", None), d)
    BY <1>a, <1>b, <1>c
  <1>2. c \in net /\ c.here /\ c.op = "refresh" BY <1>1, AnswersIs
  <1>3. /\ Typed /\ Calls /\ Alone /\ Owned /\ Accounted /\ Unhurt /\ TypedCall(c) /\ TokenCall(c)
        /\ db \in TokenDb /\ view \in TokenView /\ IsFiniteSet(net) /\ lost \in Nat /\ \A q \in net : IsRequest(q)
    BY <1>2 DEF TokensInv, Typed, Calls, TypedCall
  <1>4. c.st # "sent" /\ net' = left(c) /\ view' = Document("login", None) /\ db' = Track(d) /\ lost' = lost
    BY <1>1, <1>2 DEF Go, AnsweredWith
  <1>5. d \in TokenDb /\ d.store = None /\ d.live = db.live /\ d.stale = db.stale /\ d.next = db.next /\ d.over = db.over
        /\ d.tangled = db.tangled /\ d.cut = (db.cut \/ w) /\ d.hurt = (db.hurt \/ h)
    <2>1. (db.cut \/ w) \in BOOLEAN /\ (db.hurt \/ h) \in BOOLEAN OBVIOUS
    <2>2. QED BY <1>3, <2>1 DEF TokenDb
  <1> HIDE DEF d
  <1>6. /\ db' \in TokenDb /\ db'.store = None /\ db'.live = db.live /\ db'.stale = db.stale /\ db'.next = db.next
        /\ db'.cut = (db.cut \/ w) /\ db'.over = db.over /\ db'.hurt = (db.hurt \/ h) /\ (db.tangled => db'.tangled)
    BY <1>3, <1>4, <1>5, TrackKeeps
  <1>7. Grows
    <2>1. db.next \in Nat BY <1>3 DEF TokenDb, MaxPairs
    <2>2. db.cut => db'.cut BY <1>6
    <2>3. QED BY <1>4, <1>6, <2>1, <2>2 DEF Grows
  <1>8. ASSUME NEW x \in net' PROVE x.here = FALSE /\ \E q \in net : Like(x, q)
    <2>1. PICK y \in Without(c) : x = [y EXCEPT !.here = FALSE] BY <1>4, <1>8
    <2>2. Requests BY <1>3 DEF Requests
    <2>3. PICK q \in net \ {c} : Renumbered(y, q) BY <2>2, WithoutKeeps
    <2>4. db'.cut BY <1>1, <1>6, <2>1
    <2>5. QED BY <2>1, <2>3, <2>4 DEF Renumbered, Like, IsRequest
  <1>9. Calls' BY <1>3, <1>6, <1>7, <1>8, CallSpared DEF Calls
  <1>10. Typed'
    <2>1. \A x \in net' : TypedCall(x)' BY <1>9 DEF Calls, TokenCall
    <2>2. \A p \in db'.live : Issued(p)' BY <1>3, <1>6 DEF Typed, Issued
    <2>3. IsFiniteSet(net') BY <1>3, <1>4, WithoutFinite, LeftFinite
    <2>4. QED BY <1>3, <1>4, <1>6, <2>1, <2>2, <2>3, DocumentIs DEF Typed
  <1>11. Alone' /\ Awaited' /\ Owned'
    <2>1. ~view'.refreshing /\ view'.failed = <<>> BY <1>4, DocumentIs
    <2>2. DOMAIN view'.failed = {} BY <2>1
    <2>3. Alone' BY <1>8, <2>2 DEF Alone, Auth
    <2>4. Awaited' BY <2>1 DEF Awaited
    <2>5. Owned' BY <1>6 DEF Owned
    <2>6. QED BY <2>3, <2>4, <2>5
  <1>12. ~db'.tangled /\ lost = 0 => db.store \notin db.live
    BY <1>1, <1>2, <1>3, <1>6 DEF TokenCall, OfStored, Spent, Refreshing
  <1>13. Accounted'
    <2>1. SUFFICES ASSUME lost = 0, ~db'.over, ~db'.tangled, ~db'.cut, NEW p \in db.live PROVE FALSE
      BY <1>4, <1>6 DEF Accounted
    <2>2. net = {c}
      <3>1. SUFFICES ASSUME NEW q \in net \ {c} PROVE FALSE BY <1>2
      <3>2. Without(c) # {} BY DEF Without
      <3>3. QED BY <1>1, <1>6, <2>1, <3>2
    <2>3. p = db.store \/ Holds(c, p) BY <1>3, <1>6, <2>1, <2>2 DEF Accounted
    <2>4. ~Holds(c, p) BY <1>1, <1>2 DEF Holds
    <2>5. QED BY <1>12, <2>1, <2>3, <2>4
  <1>14. Unhurt' BY <1>1, <1>3, <1>4, <1>6, <1>12 DEF Unhurt
  <1>15. QED BY <1>9, <1>10, <1>11, <1>13, <1>14 DEF TokensInv

\* So does the refresh the timer started.
LEMMA RefreshedEarlyStep == ASSUME TokensInv, RefreshedEarly PROVE TokensInv'
  <1>1. PICK c, v, d : /\ c \in Answers("proactive") /\ End(c, v, d)
          /\ \/ c.st = "ok" /\ v = [view EXCEPT !.timer = TRUE] /\ d = [db EXCEPT !.store = c.ans]
             \/ c.st # "ok" /\ v = view /\ d = db
    BY DEF RefreshedEarly
  <1>2. c \in net /\ c.here /\ c.op = "proactive" /\ c.op \in Refreshing BY <1>1, AnswersIs DEF Refreshing
  <1>3. Typed /\ Calls /\ Alone /\ Awaited /\ Owned /\ TypedCall(c) /\ TokenCall(c) /\ db \in TokenDb /\ view \in TokenView /\ IsFiniteSet(net) /\ lost \in Nat
    BY <1>2 DEF TokensInv, Typed, Calls
  <1>4. c.st # "sent" /\ net' = Without(c) /\ view' = v /\ db' = Track(d) /\ lost' = lost BY <1>1, <1>2, EndIs
  <1>5. c.st = "ok" => /\ c.arg.pair \in Pairs /\ c.ans \in Pairs /\ Owner(c.ans) = Owner(c.arg.pair) /\ Issued(c.ans)
                       /\ ~db.tangled => c.arg.pair = db.store
                       /\ lost = 0 => c.arg.pair \notin db.live
                       /\ c.ans # None /\ c.arg.pair # None
    BY <1>1, <1>2, <1>3, NoneIs DEF TokenCall, Renews, OfStored, Spent, Refreshing, Pairs
  <1>6. /\ d \in TokenDb /\ d.user = db.user /\ d.live = db.live /\ d.stale = db.stale /\ d.next = db.next
        /\ d.tangled = db.tangled /\ d.over = db.over /\ d.cut = db.cut /\ d.hurt = db.hurt
        /\ (d.store = db.store \/ (c.st = "ok" /\ d.store = c.ans)) /\ (c.st = "ok" => d.store = c.ans)
    BY <1>1, <1>3, <1>5 DEF TokenDb
  <1>7. v \in TokenView /\ v.busy = view.busy /\ v.failed = view.failed /\ v.refreshing = view.refreshing
    BY <1>1, <1>3 DEF TokenView
  <1>8. /\ db' \in TokenDb /\ db'.store = d.store /\ db'.user = db.user /\ db'.live = db.live
        /\ db'.next = db.next /\ db'.cut = db.cut /\ db'.over = db.over /\ (db.tangled => db'.tangled)
    BY <1>3, <1>4, <1>6, TrackKeeps
  <1>9. (\A i \in DOMAIN view.failed : IsCall(view.failed[i][1], view.failed[i][2]))'
    <2>1. SUFFICES ASSUME NEW i \in DOMAIN view'.failed PROVE IsCall(view.failed[i][1], view.failed[i][2])' OBVIOUS
    <2>2. PICK o, a : o = view.failed[i][1] /\ a = view.failed[i][2] OBVIOUS
    <2>3. IsCall(o, a) BY <1>3, <1>4, <1>7, <2>1, <2>2 DEF Typed
    <2>4. IsCall(o, a)' BY <1>8, <2>3 DEF IsCall, Issued
    <2>5. QED BY <1>4, <1>7, <2>2, <2>4
  <1>10. ~Track(d).tangled => \A i \in DOMAIN v.failed : v.failed[i][1] = "call" /\ ~v.failed[i][2].retry
    BY <1>3, <1>4, <1>7, <1>8 DEF Alone
  <1>11. Awaited'
    <2>1. SUFFICES ASSUME view.refreshing PROVE \E x \in Without(c) : x.op = "refresh" /\ x.here BY <1>4, <1>7 DEF Awaited
    <2>2. PICK r \in net : r.op = "refresh" /\ r.here BY <1>3, <2>1 DEF Awaited
    <2>3. r \in net \ {c} /\ IsRequest(r) BY <1>2, <1>3, <2>2 DEF Typed, TypedCall
    <2>4. PICK x \in Without(c) : x = [r EXCEPT !.id = IF r.id > c.id THEN r.id - 1 ELSE r.id] BY <2>3 DEF Without
    <2>5. x.op = "refresh" /\ x.here BY <2>2, <2>3, <2>4 DEF IsRequest
    <2>6. QED BY <2>5
  <1>12. Owned' BY <1>3, <1>5, <1>6, <1>8 DEF Owned
  <1>13. IsFiniteSet(net') BY <1>3, <1>4, WithoutFinite
  <1>14. ASSUME lost = 0, ~Track(d).tangled, NEW p \in db.live, p = db.store \/ Holds(c, p) PROVE p = d.store
    BY <1>1, <1>2, <1>4, <1>5, <1>6, <1>8, <1>14 DEF Holds
  <1>15. d.store # db.store => Issued(d.store) BY <1>5, <1>6
  <1>16. QED BY <1>2, <1>3, <1>4, <1>6, <1>7, <1>9, <1>10, <1>11, <1>12, <1>13, <1>14, <1>15, HandlerStep

\* A call that ends, with nothing new sent and the stored pair as it was.
LEMMA EndStep == ASSUME TokensInv, NEW c \in net, c.here, c.op \in Api, NEW v \in TokenView, NEW d \in TokenDb, End(c, v, d),
    d.store = db.store, d.user = db.user, d.live = db.live, d.stale = db.stale, d.next = db.next, d.tangled = db.tangled, d.over = db.over,
    d.cut = db.cut, d.hurt => db.hurt \/ lost > 0 \/ Track(d).tangled \/ d.cut,
    v.busy = view.busy \/ Auth(c), v.failed = view.failed, v.refreshing = view.refreshing,
    lost = 0 /\ ~db.over /\ ~Track(d).tangled => c.op # "me" /\ (c.op = "login" => c.st = "err")
  PROVE TokensInv'
  <1>1. c.st # "sent" /\ net' = Without(c) /\ view' = v /\ db' = Track(d) /\ lost' = lost BY EndIs
  <1>2. Typed /\ Alone /\ Awaited /\ Owned /\ TypedCall(c) /\ IsFiniteSet(net)
    BY DEF TokensInv, Typed
  <1>3. /\ db' \in TokenDb /\ db'.store = d.store /\ db'.user = db.user
        /\ db'.next = db.next /\ db'.over = db.over /\ (db.tangled => db'.tangled)
    BY <1>1, <1>2, TrackKeeps
  <1>4. (\A i \in DOMAIN view.failed : IsCall(view.failed[i][1], view.failed[i][2]))'
    <2>1. SUFFICES ASSUME NEW i \in DOMAIN view'.failed PROVE IsCall(view.failed[i][1], view.failed[i][2])' OBVIOUS
    <2>2. PICK o, a : o = view.failed[i][1] /\ a = view.failed[i][2] OBVIOUS
    <2>3. IsCall(o, a) BY <1>1, <1>2, <2>1, <2>2 DEF Typed
    <2>4. IsCall(o, a)' BY <1>3, <2>3 DEF IsCall, Issued
    <2>5. QED BY <1>1, <2>2, <2>4
  <1>5. ~Track(d).tangled => \A i \in DOMAIN v.failed : v.failed[i][1] = "call" /\ ~v.failed[i][2].retry
    BY <1>1, <1>2, <1>3 DEF Alone
  <1>6. Awaited'
    <2>1. SUFFICES ASSUME view.refreshing PROVE \E x \in Without(c) : x.op = "refresh" /\ x.here BY <1>1 DEF Awaited
    <2>2. PICK r \in net : r.op = "refresh" /\ r.here BY <1>2, <2>1 DEF Awaited
    <2>3. r \in net \ {c} /\ IsRequest(r) BY <1>2, <2>2 DEF Typed, TypedCall, Api
    <2>4. PICK x \in Without(c) : x = [r EXCEPT !.id = IF r.id > c.id THEN r.id - 1 ELSE r.id] BY <2>3 DEF Without
    <2>5. x.op = "refresh" /\ x.here BY <2>2, <2>3, <2>4 DEF IsRequest
    <2>6. QED BY <2>5
  <1>7. Owned' BY <1>2, <1>3 DEF Owned
  <1>8. IsFiniteSet(net') BY <1>1, <1>2, WithoutFinite
  <1>9. ASSUME lost = 0, ~d.over, ~Track(d).tangled, NEW p PROVE ~Holds(c, p)
    BY <1>9 DEF Holds, Api
  <1>10. QED BY <1>1, <1>2, <1>4, <1>5, <1>6, <1>7, <1>8, <1>9, HandlerStep

\* The ends of a call of a page, of a sign-in refused, and of one whose user is not read.
LEMMA PageCallEnds == ASSUME TokensInv, NEW c \in Ended("call"),
    End(c, view, [db EXCEPT !.hurt = @ \/ (Denied(c) /\ db.store \in db.live)])
  PROVE TokensInv'
  <1>1. c \in net /\ c.here /\ c.op = "call" /\ ~Intercepted(c) /\ c.op \in Api BY AnswersIs DEF Ended, Api
  <1>2. Typed /\ Calls /\ TypedCall(c) /\ TokenCall(c) /\ db \in TokenDb /\ view \in TokenView /\ IsFiniteSet(net)
    BY <1>1 DEF TokensInv, Typed, Calls
  <1>3. PICK h \in BOOLEAN : h = (Denied(c) /\ db.store \in db.live) OBVIOUS
  <1> DEFINE d == [db EXCEPT !.hurt = db.hurt \/ h]
  <1>4. End(c, view, d) BY <1>3
  <1>5. d \in TokenDb /\ d.store = db.store /\ d.user = db.user /\ d.live = db.live /\ d.stale = db.stale /\ d.next = db.next
        /\ d.tangled = db.tangled /\ d.over = db.over /\ d.cut = db.cut /\ d.hurt = (db.hurt \/ h)
    <2>1. (db.hurt \/ h) \in BOOLEAN OBVIOUS
    <2>2. QED BY <1>2, <2>1 DEF TokenDb
  <1> HIDE DEF d
  <1>6. ~Track(d).tangled => ~db.tangled BY <1>2, <1>5, TrackKeeps
  <1>7. ~db.tangled /\ ~db.cut => ~Denied(c)
    <2>1. c.arg.retry \in BOOLEAN BY <1>1, <1>2 DEF TypedCall, IsCall, CallArgs
    <2>2. QED BY <1>1, <1>2, <2>1 DEF TokenCall, Replay, Intercepted
  <1>8. d.hurt => db.hurt \/ lost > 0 \/ Track(d).tangled \/ d.cut BY <1>3, <1>5, <1>6, <1>7
  <1>9. QED BY <1>1, <1>2, <1>4, <1>5, <1>8, EndStep

LEMMA SignInEnds == ASSUME TokensInv, NEW c \in Ended("login"), c.st # "ok", End(c, Busy(view, FALSE), db) PROVE TokensInv'
  <1>1. c \in net /\ c.here /\ c.op = "login" /\ c.op \in Api BY AnswersIs DEF Ended, Api
  <1>2. Typed /\ db \in TokenDb /\ view \in TokenView /\ Unhurt /\ TypedCall(c) BY <1>1 DEF TokensInv, Typed
  <1>3. Busy(view, FALSE) \in TokenView /\ Busy(view, FALSE).failed = view.failed /\ Busy(view, FALSE).refreshing = view.refreshing
    BY <1>2 DEF Busy, TokenView
  <1>4. Auth(c) BY <1>1 DEF Auth, Identifying
  <1>5. c.st = "err" BY <1>2, EndIs, <1>1 DEF TypedCall
  <1>6. QED BY <1>1, <1>2, <1>3, <1>4, <1>5, EndStep

LEMMA SignedInFails == ASSUME TokensInv, NEW c \in Ended("me"), c.st # "ok", End(c, Busy(view, FALSE), db) PROVE TokensInv'
  <1>1. c \in net /\ c.here /\ c.op = "me" /\ c.op \in Api BY AnswersIs DEF Ended, Api
  <1>2. Typed /\ Calls /\ db \in TokenDb /\ view \in TokenView /\ TypedCall(c) /\ TokenCall(c) /\ lost \in Nat /\ IsFiniteSet(net) BY <1>1 DEF TokensInv, Typed, Calls
  <1>3. Busy(view, FALSE) \in TokenView /\ Busy(view, FALSE).failed = view.failed /\ Busy(view, FALSE).refreshing = view.refreshing
    BY <1>2 DEF Busy, TokenView
  <1>4. Auth(c) BY <1>1 DEF Auth, Identifying
  <1>5. c.st = "err" BY <1>2, EndIs, <1>1 DEF TypedCall
  <1>6. ~Track(db).tangled => ~db.tangled BY <1>2, TrackKeeps
  <1>7. lost = 0 /\ ~db.over /\ ~Track(db).tangled => FALSE BY <1>1, <1>2, <1>5, <1>6 DEF TokenCall, SigningIn
  <1>8. QED BY <1>1, <1>2, <1>3, <1>4, <1>7, EndStep

\* The calls that wait are those they were when the queue is, and a refresh under way still is.
LEMMA QueueStays == ASSUME Typed, db' \in TokenDb, db.next <= db'.next, view'.failed = view.failed
  PROVE (\A i \in DOMAIN view.failed : IsCall(view.failed[i][1], view.failed[i][2]))'
  <1>1. SUFFICES ASSUME NEW i \in DOMAIN view'.failed PROVE IsCall(view.failed[i][1], view.failed[i][2])' OBVIOUS
  <1>2. PICK o, a : o = view.failed[i][1] /\ a = view.failed[i][2] OBVIOUS
  <1>3. IsCall(o, a) BY <1>1, <1>2 DEF Typed
  <1>4. IsCall(o, a)' BY <1>3, CallStays
  <1>5. QED BY <1>2, <1>4

LEMMA StillAwaited == ASSUME Typed, Awaited, NEW c \in net, c.op # "refresh", Without(c) \subseteq net', view'.refreshing = view.refreshing
  PROVE Awaited'
  <1>1. SUFFICES ASSUME view.refreshing PROVE \E x \in Without(c) : x.op = "refresh" /\ x.here BY DEF Awaited
  <1>2. PICK r \in net : r.op = "refresh" /\ r.here BY <1>1 DEF Awaited
  <1>3. r \in net \ {c} /\ IsRequest(r) BY <1>2 DEF Typed, TypedCall
  <1>4. PICK x \in Without(c) : x = [r EXCEPT !.id = IF r.id > c.id THEN r.id - 1 ELSE r.id] BY <1>3 DEF Without
  <1>5. x.op = "refresh" /\ x.here BY <1>2, <1>3, <1>4 DEF IsRequest
  <1>6. QED BY <1>5

\* A sign-in that has its pair asks whose it is.
LEMMA SignInGoesOn == ASSUME TokensInv, NEW c \in Ended("login"), c.st = "ok",
    Then(c, <<Call("me", c.ans, c.ans, db.store)>>, view, [db EXCEPT !.over = @ \/ db.store # None])
  PROVE TokensInv'
  <1>1. c \in net /\ c.here /\ c.op = "login" /\ c.op \in Api BY AnswersIs DEF Ended, Api
  <1>2. /\ Typed /\ Calls /\ Alone /\ Awaited /\ Owned /\ TypedCall(c) /\ TokenCall(c)
        /\ db \in TokenDb /\ view \in TokenView /\ IsFiniteSet(net)
    BY <1>1 DEF TokensInv, Typed, Calls
  <1>3. c.ans \in Pairs /\ Issued(c.ans) BY <1>1, <1>2 DEF TypedCall
  <1>4. PICK o \in BOOLEAN : o = (db.store # None) OBVIOUS
  <1>a. PICK a : a = [about |-> c.ans, acc |-> Header(db.store, c.ans), retry |-> FALSE] OBVIOUS
  <1> DEFINE d == [db EXCEPT !.over = db.over \/ o]
  <1>5. d \in TokenDb /\ d.store = db.store /\ d.user = db.user /\ d.live = db.live /\ d.stale = db.stale /\ d.next = db.next
        /\ d.tangled = db.tangled /\ d.over = (db.over \/ o) /\ d.cut = db.cut /\ d.hurt = db.hurt
    <2>1. (db.over \/ o) \in BOOLEAN OBVIOUS
    <2>2. QED BY <1>2, <2>1 DEF TokenDb
  <1>6. Then(c, << <<"me", a>> >>, view, d) BY <1>4, <1>a DEF Call
  <1>7. /\ a \in CallArgs /\ a.about = c.ans /\ a.retry = FALSE
        /\ (db.store = None => a.acc = c.ans)
    <2>1. Header(db.store, c.ans) \in Pairs \cup {None} BY <1>2, <1>3 DEF Header, TokenDb
    <2>2. QED BY <1>3, <1>a, <2>1 DEF CallArgs, Header
  <1> HIDE DEF d
  <1>8. c.st # "sent" /\ net' = Send(Without(c), << <<"me", a>> >>) /\ view' = view /\ db' = Track(d) /\ lost' = lost
    BY <1>1, <1>6, ThenIs
  <1>9. /\ db' \in TokenDb /\ db'.store = db.store /\ db'.next = db.next /\ db'.stale = db.stale
        /\ db'.over = (db.over \/ o) /\ (db.tangled => db'.tangled)
    BY <1>2, <1>5, <1>8, TrackKeeps
  <1>10. PICK r : /\ r \in net' /\ Without(c) \subseteq net' /\ IsFiniteSet(net') /\ IsRequest(r) /\ r.op = "me" /\ r.arg = a
                  /\ r.st = "sent" /\ r.ans = None /\ r.here = TRUE /\ \A x \in net' \ Without(c) : x = r
    <2>1. IsFiniteSet(Without(c)) BY <1>2, WithoutFinite
    <2>2. OneMore(net', Without(c), "me", a) BY <1>8, <2>1, SendOne
    <2>3. QED BY <2>2 DEF OneMore
  <1>11. TokenCall(r)'
    <2>1. IsCall("me", a)'
      <3>1. IsCall("me", a)
        <4>1. a.about \in Pairs /\ Issued(a.about) BY <1>3, <1>7
        <4>2. QED BY <1>7, <4>1 DEF IsCall, Api
      <3>2. db.next <= db'.next BY <1>2, <1>9 DEF TokenDb, MaxPairs
      <3>3. QED BY <1>2, <1>9, <3>1, <3>2, CallStays
    <2>2. TypedCall(r)'
      <3>1. r.op \in Api /\ r.op \notin Refreshing BY <1>10 DEF Api, Refreshing
      <3>2. IsCall(r.op, r.arg)' BY <1>10, <2>1
      <3>3. QED BY <1>10, <3>1, <3>2 DEF TypedCall
    <2>3. OfStored(r)' /\ Spent(r)' /\ Renews(r)' /\ Attended(r)' BY <1>10 DEF OfStored, Spent, Renews, Attended, Refreshing
    <2>4. Replay(r)' /\ SigningOut(r)' BY <1>10 DEF Replay, SigningOut
    <2>5. SigningIn(r)'
      <3>1. SUFFICES ASSUME ~db'.over, ~db'.tangled PROVE SigningIn(r)' BY DEF SigningIn
      <3>2. db.store = None /\ Number(c.ans) \notin db.stale BY <1>1, <1>2, <1>4, <1>9, <3>1 DEF TokenCall, SigningIn
      <3>3. QED BY <1>7, <1>9, <1>10, <3>2 DEF SigningIn, Denied
    <2>6. QED BY <2>2, <2>3, <2>4, <2>5 DEF TokenCall
  <1>12. Auth(c) BY <1>1 DEF Auth, Identifying
  <1>13. ~db'.tangled => view.busy BY <1>1, <1>2, <1>9, <1>12 DEF Alone
  <1>14. Awaited' BY <1>1, <1>2, <1>8, <1>10, StillAwaited
  <1>15. Owned' BY <1>2, <1>4, <1>9 DEF Owned
  <1>16. ~Track(d).tangled => \A i \in DOMAIN view'.failed : view'.failed[i][1] = "call" /\ ~view'.failed[i][2].retry
    BY <1>2, <1>8, <1>9 DEF Alone
  <1>17. (\A i \in DOMAIN view.failed : IsCall(view.failed[i][1], view.failed[i][2]))'
    <2>1. db.next <= db'.next BY <1>2, <1>9 DEF TokenDb, MaxPairs
    <2>2. QED BY <1>2, <1>8, <1>9, <2>1, QueueStays
  <1>18. ASSUME NEW p, Holds(c, p) PROVE Holds(r, p) BY <1>1, <1>7, <1>10, <1>18 DEF Holds
  <1>19. QED BY <1>1, <1>2, <1>5, <1>8, <1>10, <1>11, <1>12, <1>13, <1>14, <1>15, <1>16, <1>17, <1>18, HandlerStep

\* The sign-in and the sign-out replace what is stored.
LEMMA SignedInStores == ASSUME TokensInv, NEW c \in Ended("me"), c.st = "ok",
    End(c, [Busy(view, FALSE) EXCEPT !.where = "app", !.timer = TRUE], SetAuth(db, c.ans, c.arg.about))
  PROVE TokensInv'
  <1>1. c \in net /\ c.here /\ c.op = "me" /\ c.op \in Api BY AnswersIs DEF Ended, Api
  <1>2. /\ Typed /\ Calls /\ Alone /\ Awaited /\ Owned /\ TypedCall(c) /\ TokenCall(c)
        /\ db \in TokenDb /\ view \in TokenView /\ IsFiniteSet(net)
    BY <1>1 DEF TokensInv, Typed, Calls
  <1>3. c.ans \in Users /\ c.arg.about \in Pairs /\ Issued(c.arg.about) BY <1>1, <1>2 DEF TypedCall, IsCall
  <1> DEFINE v == [Busy(view, FALSE) EXCEPT !.where = "app", !.timer = TRUE]
             d == SetAuth(db, c.ans, c.arg.about)
  <1>4. d \in TokenDb /\ d.store = c.arg.about /\ d.user = c.ans /\ d.live = db.live /\ d.stale = db.stale /\ d.next = db.next
        /\ d.tangled = db.tangled /\ d.over = db.over /\ d.cut = db.cut /\ d.hurt = db.hurt
    BY <1>2, <1>3 DEF TokenDb, SetAuth
  <1>5. v \in TokenView /\ v.failed = view.failed /\ v.refreshing = view.refreshing
    BY <1>2 DEF Busy, TokenView
  <1> HIDE DEF d, v
  <1>6. c.st # "sent" /\ net' = Without(c) /\ view' = v /\ db' = Track(d) /\ lost' = lost BY <1>1, EndIs DEF d, v
  <1>7. /\ db' \in TokenDb /\ db'.store = c.arg.about /\ db'.user = c.ans /\ db'.next = db.next
        /\ db'.over = db.over /\ (db.tangled => db'.tangled)
    BY <1>2, <1>4, <1>6, TrackKeeps
  <1>8. Auth(c) BY <1>1 DEF Auth, Identifying
  <1>9. ~db.over /\ ~db.tangled => db.store = None /\ c.ans = Owner(c.arg.about) BY <1>1, <1>2 DEF TokenCall, SigningIn
  <1>10. Awaited' BY <1>1, <1>2, <1>5, <1>6, StillAwaited
  <1>11. Owned' BY <1>7, <1>9 DEF Owned
  <1>12. ~Track(d).tangled => \A i \in DOMAIN v.failed : v.failed[i][1] = "call" /\ ~v.failed[i][2].retry
    BY <1>2, <1>5, <1>6, <1>7 DEF Alone
  <1>13. (\A i \in DOMAIN view.failed : IsCall(view.failed[i][1], view.failed[i][2]))'
    <2>1. db.next <= db'.next BY <1>2, <1>7 DEF TokenDb, MaxPairs
    <2>2. QED BY <1>2, <1>5, <1>6, <1>7, <2>1, QueueStays
  <1>14. IsFiniteSet(net') BY <1>2, <1>6, WithoutFinite
  <1>15. ASSUME ~db.over, ~db'.tangled, NEW p \in db.live, p = db.store \/ Holds(c, p) PROVE p = d.store
    <2>1. p # None BY <1>2, NoneIs DEF TokenDb, Pairs
    <2>2. QED BY <1>1, <1>4, <1>7, <1>9, <1>15, <2>1 DEF Holds
  <1>16. Issued(d.store) BY <1>3, <1>4
  <1>17. QED BY <1>1, <1>2, <1>4, <1>5, <1>6, <1>8, <1>10, <1>11, <1>12, <1>13, <1>14, <1>15, <1>16, HandlerStep

\* A sign-out clears the store, whatever the server said.
LEMMA SignedOutClears == ASSUME TokensInv, NEW c \in Ended("logout"),
    End(c, [Busy(view, FALSE) EXCEPT !.where = "login", !.timer = FALSE], ClearAuth(db))
  PROVE TokensInv'
  <1>1. c \in net /\ c.here /\ c.op = "logout" /\ c.op \in Api BY AnswersIs DEF Ended, Api
  <1>2. /\ Typed /\ Calls /\ Alone /\ Awaited /\ Owned /\ TypedCall(c) /\ TokenCall(c)
        /\ db \in TokenDb /\ view \in TokenView /\ IsFiniteSet(net)
    BY <1>1 DEF TokensInv, Typed, Calls
  <1> DEFINE v == [Busy(view, FALSE) EXCEPT !.where = "login", !.timer = FALSE]
             d == ClearAuth(db)
  <1>3. d \in TokenDb /\ d.store = None /\ d.user = None /\ d.live = db.live /\ d.stale = db.stale /\ d.next = db.next
        /\ d.tangled = db.tangled /\ d.over = db.over /\ d.cut = db.cut /\ d.hurt = db.hurt
    BY <1>2 DEF TokenDb, ClearAuth
  <1>4. v \in TokenView /\ v.failed = view.failed /\ v.refreshing = view.refreshing
    BY <1>2 DEF Busy, TokenView
  <1> HIDE DEF d, v
  <1>5. c.st # "sent" /\ net' = Without(c) /\ view' = v /\ db' = Track(d) /\ lost' = lost BY <1>1, EndIs DEF d, v
  <1>6. db' \in TokenDb /\ db'.store = None /\ db'.next = db.next /\ (db.tangled => db'.tangled)
    BY <1>2, <1>3, <1>5, TrackKeeps
  <1>7. Auth(c) BY <1>1 DEF Auth, Identifying
  <1>8. Awaited' BY <1>1, <1>2, <1>4, <1>5, StillAwaited
  <1>9. Owned' BY <1>6 DEF Owned
  <1>10. ~Track(d).tangled => \A i \in DOMAIN v.failed : v.failed[i][1] = "call" /\ ~v.failed[i][2].retry
    BY <1>2, <1>4, <1>5, <1>6 DEF Alone
  <1>11. (\A i \in DOMAIN view.failed : IsCall(view.failed[i][1], view.failed[i][2]))'
    <2>1. db.next <= db'.next BY <1>2, <1>6 DEF TokenDb, MaxPairs
    <2>2. QED BY <1>2, <1>4, <1>5, <1>6, <2>1, QueueStays
  <1>12. IsFiniteSet(net') BY <1>2, <1>5, WithoutFinite
  <1>13. ASSUME lost = 0, ~db'.tangled, NEW p \in db.live PROVE ~(p = db.store \/ Holds(c, p))
    BY <1>1, <1>2, <1>5, <1>6, <1>13 DEF TokenCall, SigningOut, Holds
  <1>14. QED BY <1>1, <1>2, <1>3, <1>4, <1>5, <1>7, <1>8, <1>9, <1>10, <1>11, <1>12, <1>13, HandlerStep

-----------------------------------------------------------------------------
(* The user and the timers. *)

LEMMA CallAsWas == ASSUME db' = db, lost' = lost, NEW c, TokenCall(c) PROVE TokenCall(c)'
  BY DEF TokenCall, TypedCall, IsCall, Issued, OfStored, Spent, Renews, Attended, Replay, SigningIn, SigningOut, Denied, Valid

\* A request more, of which the stored pair knows nothing, keeps the invariant.
LEMMA AskStep == ASSUME TokensInv, NEW op, NEW arg, net' = Send(net, << <<op, arg>> >>), db' = db, lost' = lost,
    view' \in TokenView, view'.failed = view.failed, view'.refreshing = view.refreshing, view.busy => view'.busy,
    op # "refresh", op \in Identifying => ~view.busy /\ view'.busy,
    \A r : IsRequest(r) /\ r.op = op /\ r.arg = arg /\ r.st = "sent" /\ r.ans = None /\ r.here = TRUE => TokenCall(r)
  PROVE TokensInv'
  <1>1. Typed /\ Calls /\ Alone /\ Awaited /\ Owned /\ Accounted /\ Unhurt /\ db \in TokenDb /\ IsFiniteSet(net)
    BY DEF TokensInv, Typed
  <1>2. PICK r : /\ r \in net' /\ net \subseteq net' /\ IsFiniteSet(net') /\ IsRequest(r) /\ r.op = op /\ r.arg = arg
                 /\ r.st = "sent" /\ r.ans = None /\ r.here = TRUE /\ \A x \in net' \ net : x = r
    <2>1. OneMore(net', net, op, arg) BY <1>1, SendOne
    <2>2. QED BY <2>1 DEF OneMore
  <1>3. Calls'
    <2>1. SUFFICES ASSUME NEW x \in net' PROVE TokenCall(x)' BY DEF Calls
    <2>2. TokenCall(x) BY <1>1, <1>2, <2>1 DEF Calls
    <2>3. QED BY <2>2, CallAsWas
  <1>4. (\A i \in DOMAIN view.failed : IsCall(view.failed[i][1], view.failed[i][2]))'
    <2>1. db' \in TokenDb /\ db.next <= db'.next BY <1>1 DEF TokenDb, MaxPairs
    <2>2. QED BY <1>1, <2>1, QueueStays
  <1>5. Typed' BY <1>1, <1>2, <1>3, <1>4 DEF Typed, Calls, TokenCall, Issued
  <1>6. Auth(r) => ~view.busy /\ view'.busy BY <1>2 DEF Auth
  <1>7. Alone' BY <1>1, <1>2, <1>6 DEF Alone, Auth
  <1>8. Awaited' BY <1>1, <1>2 DEF Awaited
  <1>9. Owned' /\ Unhurt' BY <1>1 DEF Owned, Unhurt
  <1>10. Accounted' BY <1>1, <1>2 DEF Accounted, Holds
  <1>11. QED BY <1>3, <1>5, <1>7, <1>8, <1>9, <1>10 DEF TokensInv

\* What the gestures of the user send.
LEMMA AskIs == ASSUME NEW op, NEW arg, NEW v, Ask(op, arg, v)
  PROVE net' = Send(net, << <<op, arg>> >>) /\ view' = v /\ db' = db /\ lost' = lost
  BY DEF Ask, Asks

LEMMA PageCallsAsk == ASSUME TokensInv, Ask("call", Call("call", None, None, db.store)[2], view) PROVE TokensInv'
  <1>1. Typed /\ db \in TokenDb /\ view \in TokenView BY DEF TokensInv, Typed
  <1>2. PICK a : a = [about |-> None, acc |-> db.store, retry |-> FALSE] OBVIOUS
  <1>3. Call("call", None, None, db.store)[2] = a BY <1>2 DEF Call, Header
  <1>4. net' = Send(net, << <<"call", a>> >>) /\ view' = view /\ db' = db /\ lost' = lost BY <1>3, AskIs
  <1>5. a \in CallArgs /\ a.retry = FALSE BY <1>1, <1>2 DEF CallArgs, TokenDb
  <1>6. ASSUME NEW r, IsRequest(r), r.op = "call", r.arg = a, r.st = "sent", r.ans = None, r.here = TRUE PROVE TokenCall(r)
    <2>1. TypedCall(r) BY <1>5, <1>6 DEF TypedCall, IsCall, Api, Refreshing
    <2>2. OfStored(r) /\ Spent(r) /\ Renews(r) /\ Attended(r) BY <1>6 DEF OfStored, Spent, Renews, Attended, Refreshing
    <2>3. Replay(r) /\ SigningIn(r) /\ SigningOut(r) BY <1>5, <1>6 DEF Replay, SigningIn, SigningOut
    <2>4. QED BY <2>1, <2>2, <2>3 DEF TokenCall
  <1>7. QED BY <1>1, <1>4, <1>6, AskStep DEF Identifying

LEMMA SignInAsk == ASSUME TokensInv, NEW u \in Users, ~view.busy, Ask("login", Call("login", u, None, db.store)[2], Busy(view, TRUE))
  PROVE TokensInv'
  <1>1. Typed /\ db \in TokenDb /\ view \in TokenView BY DEF TokensInv, Typed
  <1>2. PICK a : a = [about |-> u, acc |-> db.store, retry |-> FALSE] OBVIOUS
  <1>3. Call("login", u, None, db.store)[2] = a BY <1>2 DEF Call, Header
  <1>4. net' = Send(net, << <<"login", a>> >>) /\ view' = Busy(view, TRUE) /\ db' = db /\ lost' = lost BY <1>3, AskIs
  <1>5. a \in CallArgs /\ a.about = u BY <1>1, <1>2 DEF CallArgs, TokenDb
  <1>6. ASSUME NEW r, IsRequest(r), r.op = "login", r.arg = a, r.st = "sent", r.ans = None, r.here = TRUE PROVE TokenCall(r)
    <2>1. TypedCall(r) BY <1>5, <1>6 DEF TypedCall, IsCall, Api, Refreshing
    <2>2. OfStored(r) /\ Spent(r) /\ Renews(r) /\ Attended(r) BY <1>6 DEF OfStored, Spent, Renews, Attended, Refreshing
    <2>3. Replay(r) /\ SigningIn(r) /\ SigningOut(r) BY <1>6 DEF Replay, SigningIn, SigningOut
    <2>4. QED BY <2>1, <2>2, <2>3 DEF TokenCall
  <1>7. /\ Busy(view, TRUE) \in TokenView /\ Busy(view, TRUE).busy /\ Busy(view, TRUE).failed = view.failed
        /\ Busy(view, TRUE).refreshing = view.refreshing
    BY <1>1 DEF Busy, TokenView
  <1>8. QED BY <1>4, <1>6, <1>7, AskStep

LEMMA LogOutAsk == ASSUME TokensInv, ~view.busy, Ask("logout", Call("logout", db.store, None, db.store)[2], Busy(view, TRUE))
  PROVE TokensInv'
  <1>1. Typed /\ db \in TokenDb /\ view \in TokenView BY DEF TokensInv, Typed
  <1>2. PICK a : a = [about |-> db.store, acc |-> db.store, retry |-> FALSE] OBVIOUS
  <1>3. Call("logout", db.store, None, db.store)[2] = a BY <1>2 DEF Call, Header
  <1>4. net' = Send(net, << <<"logout", a>> >>) /\ view' = Busy(view, TRUE) /\ db' = db /\ lost' = lost BY <1>3, AskIs
  <1>5. a \in CallArgs /\ a.about = db.store BY <1>1, <1>2 DEF CallArgs, TokenDb
  <1>6. ASSUME NEW r, IsRequest(r), r.op = "logout", r.arg = a, r.st = "sent", r.ans = None, r.here = TRUE PROVE TokenCall(r)
    <2>1. IsCall("logout", a)
      <3>1. db.store \in Pairs \cup {None} /\ (db.store # None => Issued(db.store)) BY <1>1 DEF Typed, TokenDb
      <3>2. QED BY <1>5, <3>1 DEF IsCall, Api
    <2>2. TypedCall(r) BY <1>6, <2>1 DEF TypedCall, Api, Refreshing, Denied
    <2>3. OfStored(r) /\ Spent(r) /\ Renews(r) /\ Attended(r) BY <1>6 DEF OfStored, Spent, Renews, Attended, Refreshing
    <2>4. Replay(r) /\ SigningIn(r) /\ SigningOut(r) BY <1>5, <1>6 DEF Replay, SigningIn, SigningOut
    <2>5. QED BY <2>2, <2>3, <2>4 DEF TokenCall
  <1>7. /\ Busy(view, TRUE) \in TokenView /\ Busy(view, TRUE).busy /\ Busy(view, TRUE).failed = view.failed
        /\ Busy(view, TRUE).refreshing = view.refreshing
    BY <1>1 DEF Busy, TokenView
  <1>8. QED BY <1>4, <1>6, <1>7, AskStep

\* A step that changes the timers and the page only.
LEMMA PageOnly == ASSUME TokensInv, net' = net, db' = db, lost' = lost,
    view' \in TokenView, view'.failed = view.failed, view'.refreshing = view.refreshing, view'.busy = view.busy
  PROVE TokensInv'
  <1>1. Typed /\ Calls /\ Alone /\ Awaited /\ Owned /\ Accounted /\ Unhurt /\ db \in TokenDb
    BY DEF TokensInv, Typed
  <1>2. Calls' BY <1>1, CallAsWas DEF Calls
  <1>3. (\A i \in DOMAIN view.failed : IsCall(view.failed[i][1], view.failed[i][2]))'
    <2>1. db' \in TokenDb /\ db.next <= db'.next BY <1>1 DEF TokenDb, MaxPairs
    <2>2. QED BY <1>1, <2>1, QueueStays
  <1>4. Typed' BY <1>1, <1>2, <1>3 DEF Typed, Calls, TokenCall, Issued
  <1>5. Alone' /\ Awaited' /\ Owned' /\ Accounted' /\ Unhurt'
    BY <1>1 DEF Alone, Auth, Awaited, Owned, Accounted, Holds, Unhurt
  <1>6. QED BY <1>2, <1>4, <1>5 DEF TokensInv

\* The timer before the expiry, and the tab shown again.
LEMMA TimerFiresStep == ASSUME TokensInv, TimerFires PROVE TokensInv'
  <1>1. Typed /\ db \in TokenDb /\ view \in TokenView BY DEF TokensInv, Typed
  <1>2. view' = [view EXCEPT !.timer = FALSE] /\ db' = db /\ lost' = lost BY DEF TimerFires
  <1>3. view' \in TokenView /\ view'.failed = view.failed /\ view'.refreshing = view.refreshing /\ view'.busy = view.busy
    BY <1>1, <1>2 DEF TokenView
  <1>4. CASE db.store = None
    <2>1. net' = net BY <1>4 DEF TimerFires
    <2>2. QED BY <1>2, <1>3, <2>1, PageOnly
  <1>5. CASE db.store # None
    <2>1. PICK a : a = [pair |-> db.store] OBVIOUS
    <2>2. net' = Send(net, << <<"proactive", a>> >>) BY <1>5, <2>1 DEF TimerFires
    <2>3. ASSUME NEW r, IsRequest(r), r.op = "proactive", r.arg = a, r.st = "sent", r.ans = None, r.here = TRUE PROVE TokenCall(r)
      <3>1. r.arg.pair = db.store /\ db.store \in Pairs \cup {None} /\ Issued(db.store)
        BY <1>1, <1>5, <2>1, <2>3 DEF Typed, TokenDb
      <3>2. TypedCall(r) BY <2>3, <3>1 DEF TypedCall, Api, Refreshing
      <3>3. OfStored(r) /\ Spent(r) /\ Renews(r) /\ Attended(r) BY <2>3, <3>1 DEF OfStored, Spent, Renews, Attended
      <3>4. Replay(r) /\ SigningIn(r) /\ SigningOut(r) BY <2>3 DEF Replay, SigningIn, SigningOut
      <3>5. QED BY <3>2, <3>3, <3>4 DEF TokenCall
    <2>4. QED BY <1>2, <1>3, <2>2, <2>3, AskStep DEF Identifying
  <1>6. QED BY <1>4, <1>5

LEMMA TabShownStep == ASSUME TokensInv, TabShown PROVE TokensInv'
  <1>1. view \in TokenView BY DEF TokensInv, Typed
  <1>2. view' = [view EXCEPT !.timer = TRUE] /\ net' = net /\ db' = db /\ lost' = lost BY DEF TabShown, Local
  <1>3. view' \in TokenView /\ view'.failed = view.failed /\ view'.refreshing = view.refreshing /\ view'.busy = view.busy
    BY <1>1, <1>2 DEF TokenView
  <1>4. QED BY <1>2, <1>3, PageOnly

\* A reload leaves every request behind.
LEMMA ReloadStep == ASSUME TokensInv, Reload PROVE TokensInv'
  <1>1. /\ Typed /\ Calls /\ Alone /\ Awaited /\ Owned /\ Accounted /\ Unhurt /\ db \in TokenDb /\ IsFiniteSet(net) /\ lost \in Nat
        /\ \A q \in net : IsRequest(q)
    BY DEF TokensInv, Typed, TypedCall
  <1>2. PICK w \in BOOLEAN : w = (net # {}) OBVIOUS
  <1>3. PICK where \in {"login", "app"} : view' = Document(where, db.store) BY DEF Reload
  <1>4. net' = {[q EXCEPT !.here = FALSE] : q \in net} /\ db' = [db EXCEPT !.cut = db.cut \/ w] /\ lost' = lost
    BY <1>2 DEF Reload
  <1>5. /\ db' \in TokenDb /\ db'.store = db.store /\ db'.user = db.user /\ db'.live = db.live /\ db'.stale = db.stale
        /\ db'.next = db.next /\ db'.tangled = db.tangled /\ db'.over = db.over /\ db'.cut = (db.cut \/ w) /\ db'.hurt = db.hurt
    <2>1. (db.cut \/ w) \in BOOLEAN OBVIOUS
    <2>2. QED BY <1>1, <1>4, <2>1 DEF TokenDb
  <1>6. Grows
    <2>1. db.next \in Nat BY <1>1 DEF TokenDb, MaxPairs
    <2>2. db.cut => db'.cut BY <1>5
    <2>3. QED BY <1>4, <1>5, <2>1, <2>2 DEF Grows
  <1>7. ASSUME NEW x \in net' PROVE x.here = FALSE /\ \E q \in net : Like(x, q)
    <2>1. PICK q \in net : x = [q EXCEPT !.here = FALSE] BY <1>4, <1>7
    <2>2. db'.cut BY <1>2, <1>5, <2>1
    <2>3. IsRequest(q) BY <1>1
    <2>4. IsRequest(x) /\ x.op = q.op /\ x.arg = q.arg /\ x.st = q.st /\ x.ans = q.ans /\ x.here = FALSE
      BY <2>1, <2>3 DEF IsRequest
    <2>5. QED BY <2>2, <2>4 DEF Like
  <1>8. Calls' BY <1>1, <1>5, <1>6, <1>7, CallSpared DEF Calls
  <1>9. view' \in TokenView /\ ~view'.refreshing /\ view'.failed = <<>> BY <1>3, DocumentIs
  <1>10. DOMAIN view'.failed = {} BY <1>9
  <1>11. Typed'
    <2>1. \A x \in net' : TypedCall(x)' BY <1>8 DEF Calls, TokenCall
    <2>2. \A p \in db'.live : Issued(p)' BY <1>1, <1>5 DEF Typed, Issued
    <2>3. db'.store # None => Issued(db.store)' BY <1>1, <1>5 DEF Typed, Issued
    <2>4. IsFiniteSet(net') BY <1>1, <1>4, LeftFinite
    <2>5. QED BY <1>1, <1>4, <1>5, <1>9, <1>10, <2>1, <2>2, <2>3, <2>4 DEF Typed
  <1>12. Alone' BY <1>7, <1>10 DEF Alone, Auth
  <1>13. Awaited' /\ Owned' /\ Unhurt' BY <1>1, <1>4, <1>5, <1>9 DEF Awaited, Owned, Unhurt
  <1>14. Accounted'
    <2>1. SUFFICES ASSUME lost = 0, ~db.over, ~db.tangled, ~db'.cut, NEW p \in db.live PROVE p = db.store
      BY <1>4, <1>5 DEF Accounted
    <2>2. net = {} /\ ~db.cut BY <1>2, <1>5, <2>1
    <2>3. QED BY <1>1, <2>1, <2>2 DEF Accounted
  <1>15. QED BY <1>8, <1>11, <1>12, <1>13, <1>14 DEF TokensInv

-----------------------------------------------------------------------------
(* Time and the server. *)

\* The clock: no refresh under way has just brought the pair that expires.
LEMMA ExpiresStep == ASSUME TokensInv, Expires PROVE TokensInv'
  <1>1. /\ Typed /\ Calls /\ Alone /\ Awaited /\ Owned /\ Accounted /\ Unhurt /\ db \in TokenDb /\ view \in TokenView
    BY DEF TokensInv, Typed
  <1>2. PICK n : n = Number(db.store) OBVIOUS
  <1>3. /\ net' = net /\ view' = view /\ lost' = lost /\ db' = [db EXCEPT !.stale = db.stale \cup {n}] /\ db.store # None
        /\ \A c \in net : c.op \in Api => ~c.arg.retry
    BY <1>2 DEF Expires
  <1>4. n \in 1..MaxPairs /\ n < db.next BY <1>1, <1>2, <1>3 DEF Typed, TokenDb, Pairs, Number, Issued
  <1>5. /\ db' \in TokenDb /\ db'.store = db.store /\ db'.user = db.user /\ db'.live = db.live /\ db'.stale = db.stale \cup {n}
        /\ db'.next = db.next /\ db'.tangled = db.tangled /\ db'.over = db.over /\ db'.cut = db.cut /\ db'.hurt = db.hurt
    BY <1>1, <1>3, <1>4 DEF TokenDb
  <1>6. ASSUME NEW c \in net PROVE TokenCall(c)'
    <2>1. TokenCall(c) /\ TypedCall(c) BY <1>1 DEF Calls, Typed
    <2>2. TypedCall(c)'
      <3>1. \A o, a : IsCall(o, a) => IsCall(o, a)' BY <1>5 DEF IsCall, Issued
      <3>2. QED BY <1>5, <2>1, <3>1 DEF TypedCall, Denied, Issued
    <2>3. OfStored(c)' /\ Spent(c)' /\ Attended(c)' /\ SigningOut(c)'
      BY <1>3, <1>5, <2>1 DEF TokenCall, OfStored, Spent, Attended, SigningOut
    <2>4. Replay(c)'
      <3>1. c.op = "call" => ~c.arg.retry BY <1>3 DEF Api
      <3>2. QED BY <3>1 DEF Replay
    <2>5. Renews(c)'
      <3>1. ASSUME c.op \in Refreshing, c.st = "ok", c.here, ~db.tangled PROVE Number(c.ans) # n
        <4>1. c.arg.pair = db.store /\ Number(c.arg.pair) < Number(c.ans) /\ c.arg.pair \in Pairs
          BY <2>1, <3>1 DEF TokenCall, OfStored, Renews
        <4>2. Number(c.arg.pair) = n /\ n \in Nat BY <1>2, <1>4, <4>1 DEF MaxPairs
        <4>3. QED BY <4>1, <4>2
      <3>2. QED BY <1>5, <2>1, <3>1 DEF TokenCall, Renews, Issued
    <2>6. SigningIn(c)' BY <1>3, <1>5, <2>1 DEF TokenCall, SigningIn, Denied
    <2>7. QED BY <2>2, <2>3, <2>4, <2>5, <2>6 DEF TokenCall
  <1>7. Calls' BY <1>3, <1>6 DEF Calls
  <1>8. (\A i \in DOMAIN view.failed : IsCall(view.failed[i][1], view.failed[i][2]))'
    <2>1. db.next <= db'.next BY <1>1, <1>5 DEF TokenDb, MaxPairs
    <2>2. QED BY <1>1, <1>3, <1>5, <2>1, QueueStays
  <1>9. Typed' BY <1>1, <1>3, <1>4, <1>5, <1>7, <1>8 DEF Typed, Calls, TokenCall, Issued
  <1>10. Alone' /\ Awaited' /\ Owned' /\ Accounted' /\ Unhurt'
    BY <1>1, <1>3, <1>5 DEF Alone, Auth, Awaited, Owned, Accounted, Holds, Unhurt
  <1>11. QED BY <1>7, <1>9, <1>10 DEF TokensInv

\* A session may end on the server.
LEMMA SessionEndsStep == ASSUME TokensInv, SessionEnds PROVE TokensInv'
  <1>1. /\ Typed /\ Calls /\ Alone /\ Awaited /\ Owned /\ Accounted /\ Unhurt /\ db \in TokenDb /\ view \in TokenView
    BY DEF TokensInv, Typed
  <1>2. net' = net /\ view' = view /\ lost' = lost /\ db' = [db EXCEPT !.live = {}] BY DEF SessionEnds
  <1>3. /\ db' \in TokenDb /\ db'.store = db.store /\ db'.user = db.user /\ db'.live = {} /\ db'.stale = db.stale
        /\ db'.next = db.next /\ db'.tangled = db.tangled /\ db'.over = db.over /\ db'.cut = db.cut /\ db'.hurt = db.hurt
    BY <1>1, <1>2 DEF TokenDb
  <1>4. ASSUME NEW c \in net PROVE TokenCall(c)'
    <2>1. TokenCall(c) /\ TypedCall(c) BY <1>1 DEF Calls, Typed
    <2>2. Grows
      <3>1. db.next \in Nat BY <1>1 DEF TokenDb, MaxPairs
      <3>2. QED BY <1>2, <1>3, <3>1 DEF Grows
    <2>3. Like(c, c) BY <2>1 DEF TypedCall, Like
    <2>4. QED BY <1>1, <1>3, <2>2, <2>3, CallKept
  <1>5. Calls' BY <1>2, <1>4 DEF Calls
  <1>6. (\A i \in DOMAIN view.failed : IsCall(view.failed[i][1], view.failed[i][2]))'
    <2>1. db.next <= db'.next BY <1>1, <1>3 DEF TokenDb, MaxPairs
    <2>2. QED BY <1>1, <1>2, <1>3, <2>1, QueueStays
  <1>7. Typed' BY <1>1, <1>2, <1>3, <1>5, <1>6 DEF Typed, Calls, TokenCall, Issued
  <1>8. Alone' /\ Awaited' /\ Owned' /\ Accounted' /\ Unhurt'
    BY <1>1, <1>2, <1>3 DEF Alone, Auth, Awaited, Owned, Accounted, Unhurt
  <1>9. QED BY <1>5, <1>7, <1>8 DEF TokensInv

\* The answer of a document that is gone is dropped.
LEMMA GoneStep == ASSUME TokensInv, Gone PROVE TokensInv'
  <1>1. PICK c \in net : ~c.here /\ Resume(c, view) BY DEF Gone
  <1>2. net' = Without(c) /\ view' = view /\ db' = db /\ lost' = lost BY <1>1 DEF Resume, Answered, AnsweredWith
  <1>3. /\ Typed /\ Calls /\ Alone /\ Awaited /\ Owned /\ Accounted /\ Unhurt /\ db \in TokenDb /\ IsFiniteSet(net)
        /\ \A q \in net : IsRequest(q)
    BY DEF TokensInv, Typed, TypedCall
  <1>4. ASSUME NEW x \in net' PROVE \E q \in net \ {c} : Like(x, q) /\ x.here = q.here
    <2>1. Requests BY <1>3 DEF Requests
    <2>2. QED BY <1>2, <2>1, WithoutKeeps DEF Renumbered, Like
  <1>5. Grows
    <2>1. db.next \in Nat BY <1>3 DEF TokenDb, MaxPairs
    <2>2. QED BY <1>2, <1>3, <2>1 DEF Grows, TokenDb
  <1>6. Calls' BY <1>2, <1>3, <1>4, <1>5, CallKept DEF Calls
  <1>7. (\A i \in DOMAIN view.failed : IsCall(view.failed[i][1], view.failed[i][2]))'
    <2>1. db' \in TokenDb /\ db.next <= db'.next BY <1>2, <1>3 DEF TokenDb, MaxPairs
    <2>2. QED BY <1>2, <1>3, <2>1, QueueStays
  <1>8. Typed'
    <2>1. IsFiniteSet(net') BY <1>2, <1>3, WithoutFinite
    <2>2. QED BY <1>2, <1>3, <1>6, <1>7, <2>1 DEF Typed, Calls, TokenCall, Issued
  <1>9. Alone'
    <2>1. SUFFICES ASSUME ~db.tangled PROVE /\ \A x, y \in net' : Auth(x) /\ Auth(y) => x = y
                                            /\ \A x \in net' : Auth(x) => view.busy
      BY <1>2, <1>3 DEF Alone, Auth
    <2>2. (\A p, q \in net : Auth(p) /\ Auth(q) => p = q) /\ \A q \in net : Auth(q) => view.busy BY <1>3, <2>1 DEF Alone
    <2>3. \A x, y \in net' : Auth(x) /\ Auth(y) => x = y BY <1>2, <1>3, <2>2, WithoutSame
    <2>4. \A x \in net' : Auth(x) => view.busy BY <1>4, <2>2 DEF Auth, Like
    <2>5. QED BY <2>3, <2>4
  <1>10. Awaited'
    <2>1. SUFFICES ASSUME view.refreshing PROVE \E x \in Without(c) : x.op = "refresh" /\ x.here BY <1>2 DEF Awaited
    <2>2. PICK r \in net : r.op = "refresh" /\ r.here BY <1>3, <2>1 DEF Awaited
    <2>3. r \in net \ {c} /\ IsRequest(r) BY <1>1, <1>3, <2>2
    <2>4. PICK x \in Without(c) : x = [r EXCEPT !.id = IF r.id > c.id THEN r.id - 1 ELSE r.id] BY <2>3 DEF Without
    <2>5. x.op = "refresh" /\ x.here BY <2>2, <2>3, <2>4 DEF IsRequest
    <2>6. QED BY <2>5
  <1>11. Owned' /\ Unhurt' BY <1>2, <1>3 DEF Owned, Unhurt
  <1>12. db.cut BY <1>1, <1>3 DEF Calls, TokenCall, Attended
  <1>13. Accounted' BY <1>2, <1>12 DEF Accounted
  <1>14. QED BY <1>6, <1>8, <1>9, <1>10, <1>11, <1>13 DEF TokensInv

-----------------------------------------------------------------------------
(* The invariant. *)

\* Every step keeps the invariant.
LEMMA TokensStep == ASSUME TokensInv, Next PROVE TokensInv'
  <1>1. CASE QueueCall BY <1>1, QueueCallStep
  <1>2. CASE StartRefresh BY <1>2, StartRefreshStep
  <1>3. CASE Refreshed BY <1>3, RefreshedStep
  <1>4. CASE RefreshFailed BY <1>4, RefreshFailedStep
  <1>5. CASE TimerFires BY <1>5, TimerFiresStep
  <1>6. CASE RefreshedEarly BY <1>6, RefreshedEarlyStep
  <1>7. CASE TabShown BY <1>7, TabShownStep
  <1>8. CASE PageCalls BY <1>8, PageCallsAsk, PageCallEnds DEF PageCalls
  <1>9. CASE SignIn BY <1>9, SignInAsk, SignInGoesOn, SignInEnds DEF SignIn
  <1>10. CASE SignedIn BY <1>10, SignedInStores, SignedInFails DEF SignedIn
  <1>11. CASE LogOut BY <1>11, LogOutAsk, SignedOutClears DEF LogOut
  <1>12. CASE Reload BY <1>12, ReloadStep
  <1>13. CASE ServeCall \/ Fail BY <1>13, ServeCallStep
  <1>14. CASE ServeLogout BY <1>14, ServeLogoutStep
  <1>15. CASE ServeLogin BY <1>15, ServeLoginStep
  <1>16. CASE ServeRefresh BY <1>16, ServeRefreshStep
  <1>17. CASE Expires BY <1>17, ExpiresStep
  <1>18. CASE SessionEnds BY <1>18, SessionEndsStep
  <1>19. CASE Gone BY <1>19, GoneStep
  <1>20. QED BY <1>1, <1>2, <1>3, <1>4, <1>5, <1>6, <1>7, <1>8, <1>9, <1>10, <1>11, <1>12, <1>13, <1>14, <1>15, <1>16, <1>17, <1>18, <1>19
         DEF Next, Client, Pages, Server

\* So does a step of nothing.
LEMMA TokensStutter == ASSUME TokensInv, UNCHANGED vars PROVE TokensInv'
  <1>1. view \in TokenView BY DEF TokensInv, Typed
  <1>2. QED BY <1>1, PageOnly DEF vars

\* What the invariant says of the page.
LEMMA TokensTell == ASSUME TokensInv PROVE db.page = "tokens" /\ SameIdentity /\ SignedOutMeansOut /\ ExpiryUnseen
  <1>1. Typed /\ Owned /\ Accounted /\ Unhurt /\ db \in TokenDb BY DEF TokensInv, Typed
  <1>2. SameIdentity BY <1>1 DEF Owned, SameIdentity
  <1>3. SignedOutMeansOut
    <2>1. SUFFICES ASSUME net = {}, db.user = None, lost = 0, ~db.over, ~db.tangled, ~db.cut PROVE db.store = None /\ db.live = {}
      BY DEF SignedOutMeansOut, Quiet
    <2>2. db.store = None
      <3>1. SUFFICES ASSUME db.store # None PROVE FALSE OBVIOUS
      <3>2. db.store \in Pairs /\ Owner(db.store) = None BY <1>1, <2>1, <3>1 DEF TokenDb, Owned
      <3>3. QED BY <1>1, <3>2, NoneIs DEF Pairs, Owner
    <2>3. \A p \in db.live : p = None BY <1>1, <2>1, <2>2 DEF Accounted
    <2>4. None \notin db.live BY <1>1, NoneIs DEF TokenDb, Pairs
    <2>5. QED BY <2>2, <2>3, <2>4
  <1>4. ExpiryUnseen BY <1>1 DEF Unhurt, ExpiryUnseen
  <1>5. db.page = "tokens" BY <1>1 DEF TokenDb
  <1>6. QED BY <1>2, <1>3, <1>4, <1>5

=============================================================================
