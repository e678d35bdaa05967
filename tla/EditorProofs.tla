---------------------------- MODULE EditorProofs ----------------------------
(***************************************************************************)
(* Proofs about the page "editor" of Client: what the page shows is what   *)
(* the server has, or will have when the requests in flight are answered,  *)
(* and a draft of the assistant is nowhere but in the approval, for any    *)
(* number of gestures, requests in flight and lost answers.                *)
(*                                                                         *)
(* The invariant, EditorInv, says of the requests that they are numbered   *)
(* in the order of sending and served in it (Numbered, Ordered), which of  *)
(* them a page may have (Own) and waits for (Busy), where a draft may be   *)
(* (Gated, Hidden), that what is yet to be saved has a timer or an error   *)
(* on the screen (Told), and what each save and approval under way carries *)
(* when the content has been saved or is pending (Known).  Known is what   *)
(* makes the first result inductive: a save and an approval may be under   *)
(* way together, and it is their order that decides which has the last     *)
(* word.                                                                   *)
(* All of it under the histories `mixed` and `slip`.                       *)
(***************************************************************************)
EXTENDS ActivityEditor, FiniteSetTheorems, TLAPS

-----------------------------------------------------------------------------
(* Requests: numbered in the order of sending. *)

IsRequest(c) == c = [id |-> c.id, op |-> c.op, arg |-> c.arg, st |-> c.st, ans |-> c.ans, here |-> c.here]
\* The requests are numbered from 1 on, without a gap.
Numbered(S) ==
  /\ IsFiniteSet(S)
  /\ \A c \in S : IsRequest(c) /\ c.id \in 1..Cardinality(S)
  /\ \A c, d \in S : c.id = d.id => c = d
Same(x, q) == x.op = q.op /\ x.arg = q.arg /\ x.st = q.st /\ x.ans = q.ans /\ x.here = q.here

\* Requests that are answered or left behind keep their places.
LEMMA MarkedNumbered ==
  ASSUME NEW S, Numbered(S), NEW f, DOMAIN f = S, \A q \in S : IsRequest(f[q]) /\ f[q].id = q.id
  PROVE  Numbered({f[q] : q \in S})
  <1> DEFINE T == {f[q] : q \in S}
             g == [q \in S |-> f[q]]
  <1>1. \A p, q \in S : f[p] = f[q] => p = q BY DEF Numbered
  <1>2. g \in Surjection(S, T) /\ g \in Injection(S, T) BY <1>1 DEF Surjection, Injection, IsInjective
  <1>3. IsFiniteSet(T) /\ Cardinality(T) = Cardinality(S) BY <1>2, FS_Surjection DEF Numbered
  <1>4. \A x \in T : \E q \in S : x = f[q] OBVIOUS
  <1> HIDE DEF T, g
  <1>5. \A x \in T : IsRequest(x) /\ x.id \in 1..Cardinality(S) BY <1>4 DEF Numbered
  <1>6. \A x, y \in T : x.id = y.id => x = y BY <1>4 DEF Numbered
  <1>7. Numbered(T) BY <1>3, <1>5, <1>6 DEF Numbered
  <1>8. QED BY <1>7 DEF T

\* The place in the order of a request that moves up.
Up(q, c) == IF q.id > c.id THEN q.id - 1 ELSE q.id
\* What is left when an answer is taken keeps the order of sending.
LEMMA WithoutNumbered == ASSUME Numbered(net), NEW c \in net
  PROVE /\ Numbered(Without(c))
        /\ \A x \in Without(c) : \E q \in net \ {c} : Same(x, q) /\ x.id = Up(q, c)
        /\ \A q \in net \ {c} : \E x \in Without(c) : Same(x, q) /\ x.id = Up(q, c)
        /\ \A p, q \in net \ {c} : Up(p, c) < Up(q, c) <=> p.id < q.id
  <1> DEFINE f == [q \in net \ {c} |-> [q EXCEPT !.id = Up(q, c)]]
             T == Without(c)
  <1>1. \A q \in net : q.id \in 1..Cardinality(net) /\ IsRequest(q) BY DEF Numbered
  <1>2. Cardinality(net) \in Nat /\ IsFiniteSet(net) BY FS_CardinalityType DEF Numbered
  <1>3. \A q \in net \ {c} : q.id # c.id BY DEF Numbered
  <1>4. \A p, q \in net \ {c} : Up(p, c) < Up(q, c) <=> p.id < q.id BY <1>1, <1>2, <1>3 DEF Up
  <1>5. \A q \in net \ {c} : Up(q, c) \in 1..(Cardinality(net) - 1) BY <1>1, <1>2, <1>3 DEF Up
  <1>6. \A p, q \in net \ {c} : Up(p, c) = Up(q, c) => p = q
    <2>1. \A p, q \in net \ {c} : Up(p, c) = Up(q, c) => p.id = q.id BY <1>1, <1>2, <1>3 DEF Up
    <2>2. QED BY <2>1 DEF Numbered
  <1>7. \A q \in net \ {c} : IsRequest(f[q]) /\ Same(f[q], q) /\ f[q].id = Up(q, c) BY <1>1 DEF IsRequest, Same
  <1>8. T = {f[q] : q \in net \ {c}} BY DEF Without, Up
  <1>9. IsFiniteSet(net \ {c}) /\ Cardinality(net \ {c}) = Cardinality(net) - 1 BY <1>2, FS_RemoveElement
  <1>10. DOMAIN f = net \ {c} /\ f = [q \in net \ {c} |-> f[q]] OBVIOUS
  <1> HIDE DEF f, T
  <1>11. \A p, q \in net \ {c} : f[p] = f[q] => p = q BY <1>6, <1>7
  <1>12. f \in Surjection(net \ {c}, T) /\ f \in Injection(net \ {c}, T) BY <1>8, <1>10, <1>11 DEF Surjection, Injection, IsInjective
  <1>13. IsFiniteSet(T) /\ Cardinality(T) = Cardinality(net) - 1 BY <1>9, <1>12, FS_Surjection
  <1>14. Numbered(T)
    <2>1. \A x \in T : \E q \in net \ {c} : x = f[q] BY <1>8
    <2>2. \A x \in T : IsRequest(x) /\ x.id \in 1..Cardinality(T) BY <1>5, <1>7, <1>13, <2>1
    <2>3. \A x, y \in T : x.id = y.id => x = y BY <1>6, <1>7, <2>1
    <2>4. QED BY <1>13, <2>2, <2>3 DEF Numbered
  <1>15. QED BY <1>4, <1>7, <1>8, <1>14 DEF T

\* What is sent comes after all that is in flight.
LEMMA SendNumbered == ASSUME NEW S, Numbered(S), NEW n \in Nat, NEW asks, DOMAIN asks = 1..n
  PROVE /\ Numbered(Send(S, asks)) /\ S \subseteq Send(S, asks)
        /\ \A x \in Send(S, asks) \ S :
             /\ IsRequest(x) /\ x.st = "sent" /\ x.here
             /\ \E i \in 1..n : x.op = asks[i][1] /\ x.arg = asks[i][2] /\ x.id = Cardinality(S) + i
        /\ \A q \in S : q.id <= Cardinality(S)
  <1> DEFINE f == [i \in 1..n |-> Request(Cardinality(S) + i, asks[i])]
             T == {f[i] : i \in 1..n}
  <1>1. Cardinality(S) \in Nat /\ IsFiniteSet(S) BY FS_CardinalityType DEF Numbered
  <1>2. \A i \in 1..n : /\ IsRequest(f[i]) /\ f[i].id = Cardinality(S) + i /\ f[i].st = "sent" /\ f[i].here = TRUE
                        /\ f[i].op = asks[i][1] /\ f[i].arg = asks[i][2]
    BY DEF Request, IsRequest
  <1>3. Send(S, asks) = S \cup T BY DEF Send
  <1>4. DOMAIN f = 1..n /\ f = [i \in 1..n |-> f[i]] OBVIOUS
  <1> HIDE DEF f
  <1>5. \A i, j \in 1..n : f[i] = f[j] => i = j
    <2>1. \A i, j \in 1..n : Cardinality(S) + i = Cardinality(S) + j => i = j BY <1>1
    <2>2. \A i \in 1..n : f[i].id = Cardinality(S) + i BY <1>2
    <2>3. QED BY <2>1, <2>2
  <1>6. f \in Surjection(1..n, T) /\ f \in Injection(1..n, T) BY <1>4, <1>5 DEF Surjection, Injection, IsInjective
  <1>7. IsFiniteSet(1..n) /\ Cardinality(1..n) = n BY FS_Interval
  <1>8. IsFiniteSet(T) /\ Cardinality(T) = n BY <1>6, <1>7, FS_Surjection
  <1>9. \A q \in S : IsRequest(q) /\ q.id \in 1..Cardinality(S) BY DEF Numbered
  <1>t. \A x \in T : \E i \in 1..n : x = f[i] OBVIOUS
  <1> HIDE DEF T
  <1>10. S \cap T = {} BY <1>1, <1>2, <1>9, <1>t
  <1>11. IsFiniteSet(S \cup T) /\ Cardinality(S \cup T) = Cardinality(S) + n
    <2>1. Cardinality({}) = 0 BY FS_EmptySet
    <2>2. QED BY <1>1, <1>8, <1>10, <2>1, FS_Union
  <1>12. Numbered(S \cup T)
    <2>1. \A c \in S \cup T : IsRequest(c) /\ c.id \in 1..(Cardinality(S) + n) BY <1>1, <1>2, <1>9, <1>t
    <2>2. \A c, d \in S \cup T : c.id = d.id => c = d
      <3>1. \A c \in S, d \in T : c.id # d.id BY <1>1, <1>2, <1>9, <1>t
      <3>2. \A c, d \in T : c.id = d.id => c = d BY <1>1, <1>2, <1>t
      <3>3. QED BY <3>1, <3>2 DEF Numbered
    <2>3. QED BY <1>11, <2>1, <2>2 DEF Numbered
  <1>13. \A q \in S : q.id <= Cardinality(S) BY <1>1, <1>9
  <1>14. \A x \in T : /\ IsRequest(x) /\ x.st = "sent" /\ x.here
                      /\ \E i \in 1..n : x.op = asks[i][1] /\ x.arg = asks[i][2] /\ x.id = Cardinality(S) + i
    BY <1>2, <1>t
  <1>16. (S \cup T) \ S = T BY <1>10
  <1>17. QED BY <1>3, <1>12, <1>13, <1>14, <1>16

\* One request more.
LEMMA SendOne == ASSUME NEW S, Numbered(S), NEW op, NEW arg
  PROVE /\ Numbered(Send(S, << <<op, arg>> >>)) /\ S \subseteq Send(S, << <<op, arg>> >>)
        /\ \A q \in S : q.id <= Cardinality(S)
  <1> DEFINE asks == << <<op, arg>> >>
  <1>1. DOMAIN asks = 1..1 /\ asks[1] = <<op, arg>> OBVIOUS
  <1>2. /\ Numbered(Send(S, asks)) /\ S \subseteq Send(S, asks) /\ \A q \in S : q.id <= Cardinality(S)
    <2> HIDE DEF asks
    <2>1. PICK n \in Nat : DOMAIN asks = 1..n BY <1>1
    <2>2. Numbered(Send(S, asks)) BY <2>1, SendNumbered
    <2>3. S \subseteq Send(S, asks) BY DEF Send
    <2>4. \A q \in S : q.id <= Cardinality(S)
      <3>1. Cardinality(S) \in Nat BY FS_CardinalityType DEF Numbered
      <3>2. QED BY <3>1 DEF Numbered
    <2>5. QED BY <2>2, <2>3, <2>4
  <1>3. QED BY <1>2

\* One request sent: it comes after all that is in flight.
LEMMA SendAdds == ASSUME NEW S, Numbered(S), NEW op, NEW arg, NEW more, more = Send(S, << <<op, arg>> >>)
  PROVE \E x : /\ more = S \cup {x} /\ IsRequest(x) /\ x.op = op /\ x.arg = arg
               /\ x.st = "sent" /\ x.here /\ x.id = Cardinality(S) + 1 /\ x \notin S
  <1>1. PICK x : x = Request(Cardinality(S) + 1, <<op, arg>>) OBVIOUS
  <1>2. more = S \cup {x}
    <2>1. PICK asks : asks = << <<op, arg>> >> OBVIOUS
    <2>2. DOMAIN asks = {1} /\ asks[1] = <<op, arg>> BY <2>1
    <2>3. QED BY <1>1, <2>1, <2>2 DEF Send
  <1>3. IsRequest(x) /\ x.op = op /\ x.arg = arg /\ x.st = "sent" /\ x.here /\ x.id = Cardinality(S) + 1
    BY <1>1 DEF Request, IsRequest
  <1>4. x \notin S
    <2>1. Cardinality(S) \in Nat BY FS_CardinalityType DEF Numbered
    <2>2. QED BY <1>3, <2>1 DEF Numbered
  <1>5. QED BY <1>2, <1>3, <1>4

-----------------------------------------------------------------------------
(* The invariant. *)

\* What a text, a row, the view and a request may be.
Texts == {None, "c0", "c1", "c2", "d"}
States == {"s0", "s1", "s2"}
Rows == [c : Texts, s : States]
Drafts == [c : {"d"}]
Panels == [of : {None, "x"}, open : BOOLEAN, loading : BOOLEAN, applying : BOOLEAN, tries : Seq(Drafts), cur : Nat]
EditorView ==
  [got : BOOLEAN, loading : BOOLEAN, ready : BOOLEAN, seen : BOOLEAN, c : Texts, s : States,
   ind : {"idle", "pending", "saving", "saved", "error"}, dirty : BOOLEAN, saving : BOOLEAN,
   timer : BOOLEAN, fades : Nat, pending : BOOLEAN, pre : Texts, approving : BOOLEAN, ai : Panels,
   confirm : BOOLEAN, deleting : BOOLEAN]
EditorDb ==
  [page : {"editor"}, nested : BOOLEAN, can : BOOLEAN, plans : BOOLEAN, may : BOOLEAN, row : Rows, queue : Seq(Rows),
   gone : BOOLEAN, approved : BOOLEAN, slip : BOOLEAN]
EditorCall(c) ==
  /\ IsRequest(c) /\ c.here \in BOOLEAN /\ c.st \in {"sent", "ok", "err"}
  /\ c.op \in {"get", "objectives", "save", "approve", "draft", "patch", "delete"}
  /\ c.op \in {"save", "approve"} => c.arg \in Rows
  /\ c.op \in {"get", "patch"} /\ c.st = "ok" => c.ans \in Rows
  /\ c.op = "draft" /\ c.st = "ok" => c.ans \in Drafts
Shape ==
  /\ page \in {"editor", "away"} /\ mixed \in BOOLEAN /\ lost \in Nat
  /\ db \in EditorDb
  /\ Numbered(net) /\ \A c \in net : EditorCall(c)
  /\ page = "editor" => view \in EditorView /\ view.ai.cur <= Len(view.ai.tries)
  /\ page = "away" => \A c \in net : ~c.here

\* A draft is nowhere but in the approval, until it is approved.
Gated(calls, d) ==
  /\ \A c \in calls : c.op = "approve" /\ c.st = "ok" => d.approved
  /\ ~d.slip /\ ~d.approved =>
       /\ d.row.c # "d" /\ \A i \in DOMAIN d.queue : d.queue[i].c # "d"
       /\ \A c \in calls : c.op = "save" => c.arg.c # "d"
       /\ \A c \in calls : c.op = "get" /\ c.st = "ok" => c.ans.c # "d"
Hidden(v, d) == ~d.slip /\ ~d.approved /\ v.got /\ v.c = "d" => v.pending

\* A page that is loading has asked for nothing else, and nothing newer is in flight;
\* a page that is there saves once at a time, and what it has yet to save it says.
Blank(v) == ~v.timer /\ ~v.confirm /\ ~v.dirty /\ ~v.pending /\ ~v.saving
Own(calls, v) ==
  /\ ~v.got => Blank(v) /\ \A c \in calls : c.here => c.op \in {"get", "objectives"}
  /\ \A c, d \in calls : c.here /\ c.op = "get" => ~v.got /\ (d.id > c.id => d.here /\ d.op = "objectives")
  /\ \A c, d \in calls : c.here /\ d.here /\ c.op = "save" /\ d.op = "save" => c = d
  /\ \A c \in calls : c.here /\ c.op = "save" => v.saving
Told(v, d) == v.dirty /\ ~d.slip => v.timer \/ (v.ind = "error" /\ ~v.saving)

\* What the page waits for is under way.
Awaits(calls, op) == \E c \in calls : c.here /\ c.op = op
Busy(calls, v) ==
  /\ v.loading => Awaits(calls, "get")
  /\ v.saving => Awaits(calls, "save")
  /\ v.approving => Awaits(calls, "approve")
  /\ v.deleting => Awaits(calls, "delete")
  /\ v.ai.loading => Awaits(calls, "draft")

\* Requests are served in the order of sending.
Ordered(calls) == \A c, d \in calls : c.id < d.id /\ d.st # "sent" => c.st # "sent"

\* What is on the page, and what the server will hold when it has answered.
Shows(v) == [c |-> v.c, s |-> v.s]
Holds(d) == IF d.queue = <<>> THEN d.row ELSE Last(d.queue)
Writes(calls, op) == {c \in calls : c.op = op}
Known(calls, v, d) ==
  /\ \A c \in calls : c.op # "draft" => c.here
  /\ \A s \in Writes(calls, "save"), a \in Writes(calls, "approve") : v.pending <=> s.id < a.id
  /\ \A s \in Writes(calls, "save") :
       s.st = "ok" /\ (\A a \in Writes(calls, "approve") : a.id < s.id \/ a.st = "sent") => d.queue = <<>> /\ d.row = s.arg
  /\ v.pending => \A a \in Writes(calls, "approve") :
       a.arg = Shows(v) /\ (a.st = "ok" => d.queue = <<>> /\ d.row = Shows(v))
  /\ ~v.pending /\ ~v.dirty =>
       /\ \A s \in Writes(calls, "save") : s.arg = Shows(v)
       /\ Writes(calls, "save") = {} =>
            Holds(d) = Shows(v) /\ \A a \in Writes(calls, "approve") : a.arg = Shows(v)

EditorInv ==
  /\ Shape
  /\ Gated(net, db)
  /\ ~mixed => Ordered(net)
  /\ page = "editor" => /\ Own(net, view) /\ Told(view, db) /\ Busy(net, view) /\ Hidden(view, db)
                        /\ view.got /\ ~mixed /\ ~db.slip => Known(net, view, db)

-----------------------------------------------------------------------------
(* What a change of the requests in flight leaves known. *)

\* One kind of step: some requests are gone, the others are what they were, in the same order.
Carried(calls, more, gone, f) ==
  /\ \A x \in more : f[x] \in calls \ gone /\ Same(x, f[x])
  /\ \A q \in calls \ gone : \E x \in more : f[x] = q
  /\ \A x, y \in more : (x.id < y.id <=> f[x].id < f[y].id) /\ (f[x] = f[y] => x = y)

\* An answer that is taken.
LEMMA WithoutCarried == ASSUME Numbered(net), NEW c \in net
  PROVE Numbered(Without(c)) /\ \E f : Carried(net, Without(c), {c}, f)
  <1>1. /\ Numbered(Without(c))
        /\ \A x \in Without(c) : \E q \in net \ {c} : Same(x, q) /\ x.id = Up(q, c)
        /\ \A q \in net \ {c} : \E x \in Without(c) : Same(x, q) /\ x.id = Up(q, c)
        /\ \A p, q \in net \ {c} : Up(p, c) < Up(q, c) <=> p.id < q.id
    BY WithoutNumbered
  <1> DEFINE f == [x \in Without(c) |-> CHOOSE q \in net \ {c} : Same(x, q) /\ x.id = Up(q, c)]
  <1>2. \A x \in Without(c) : f[x] \in net \ {c} /\ Same(x, f[x]) /\ x.id = Up(f[x], c) BY <1>1
  <1> HIDE DEF f
  <1>3. \A q \in net : q.id \in Nat
    <2>1. Cardinality(net) \in Nat BY FS_CardinalityType DEF Numbered
    <2>2. QED BY <2>1 DEF Numbered
  <1>4. \A p, q \in net \ {c} : Up(p, c) = Up(q, c) => p = q
    <2>1. \A p, q \in net \ {c} : Up(p, c) = Up(q, c) => ~(p.id < q.id) /\ ~(q.id < p.id)
      <3>1. \A p \in net \ {c} : Up(p, c) \in Int BY <1>3 DEF Up
      <3>2. QED BY <1>1, <3>1
    <2>2. QED BY <1>3, <2>1 DEF Numbered
  <1>5. \A q \in net \ {c} : \E x \in Without(c) : f[x] = q BY <1>1, <1>2, <1>4
  <1>6. \A x, y \in Without(c) : f[x] = f[y] => x = y
    <2>1. \A x, y \in Without(c) : f[x] = f[y] => x.id = y.id BY <1>2
    <2>2. QED BY <1>1, <2>1 DEF Numbered
  <1>7. \A x, y \in Without(c) : x.id < y.id <=> f[x].id < f[y].id BY <1>1, <1>2
  <1>8. Carried(net, Without(c), {c}, f) BY <1>2, <1>5, <1>6, <1>7 DEF Carried
  <1>9. QED BY <1>1, <1>8

\* What Carried keeps: Ordered is kept,
LEMMA OrderedCarried == ASSUME NEW calls, NEW more, NEW gone, NEW f, Carried(calls, more, gone, f), Ordered(calls)
  PROVE Ordered(more)
  BY DEF Ordered, Carried, Same

\* Gated is kept,
LEMMA GatedCarried == ASSUME NEW calls, NEW more, NEW gone, NEW f, Carried(calls, more, gone, f), NEW d, Gated(calls, d)
  PROVE Gated(more, d)
  BY DEF Gated, Carried, Same

\* and Own.
LEMMA OwnCarried == ASSUME NEW calls, NEW more, NEW gone, NEW f, Carried(calls, more, gone, f), NEW v, Own(calls, v)
  PROVE Own(more, v)
  BY DEF Own, Carried, Same

\* A write is not among those gone.
LEMMA KnownCarried == ASSUME NEW calls, NEW more, NEW gone, NEW f, Carried(calls, more, gone, f), NEW v, NEW d, Known(calls, v, d),
    \A q \in gone : q.op \notin {"save", "approve"}
  PROVE Known(more, v, d)
  <1> DEFINE W(op) == Writes(calls, op)
  <1>1. \A op \in {"save", "approve"} : \A x \in Writes(more, op) : f[x] \in Writes(calls, op) BY DEF Carried, Same, Writes
  <1>2. \A op \in {"save", "approve"} : \A q \in Writes(calls, op) : \E x \in Writes(more, op) : f[x] = q
    BY DEF Carried, Same, Writes
  <1>3. \A op \in {"save", "approve"} : Writes(more, op) = {} => Writes(calls, op) = {} BY <1>2
  <1>4. \A x \in more : x.op # "draft" => x.here BY DEF Carried, Same, Known
  <1>5. \A x \in more, y \in more : x.id < y.id <=> f[x].id < f[y].id BY DEF Carried
  <1>6. \A x \in more : f[x].arg = x.arg /\ f[x].st = x.st BY DEF Carried, Same
  <1>7. \A s \in Writes(more, "save"), a \in Writes(more, "approve") : v.pending <=> s.id < a.id
    BY <1>1, <1>5 DEF Known, Writes
  <1>8. \A s \in Writes(more, "save") :
          s.st = "ok" /\ (\A a \in Writes(more, "approve") : a.id < s.id \/ a.st = "sent") => d.queue = <<>> /\ d.row = s.arg
    <2> SUFFICES ASSUME NEW s \in Writes(more, "save"), s.st = "ok", \A a \in Writes(more, "approve") : a.id < s.id \/ a.st = "sent"
                 PROVE d.queue = <<>> /\ d.row = s.arg
      OBVIOUS
    <2>1. \A a \in Writes(calls, "approve") : a.id < f[s].id \/ a.st = "sent" BY <1>2, <1>5, <1>6 DEF Writes
    <2>2. f[s] \in Writes(calls, "save") /\ f[s].st = "ok" /\ f[s].arg = s.arg BY <1>1, <1>6 DEF Writes
    <2>3. QED BY <2>1, <2>2 DEF Known
  <1>9. v.pending => \A a \in Writes(more, "approve") :
          a.arg = Shows(v) /\ (a.st = "ok" => d.queue = <<>> /\ d.row = Shows(v))
    BY <1>1, <1>6 DEF Known, Writes
  <1>10. ~v.pending /\ ~v.dirty =>
       /\ \A s \in Writes(more, "save") : s.arg = Shows(v)
       /\ Writes(more, "save") = {} =>
            Holds(d) = Shows(v) /\ \A a \in Writes(more, "approve") : a.arg = Shows(v)
    BY <1>1, <1>3, <1>6 DEF Known, Writes
  <1>11. QED BY <1>4, <1>7, <1>8, <1>9, <1>10 DEF Known

\* A page that shows the same and waits for the same knows the same.
LEMMA KnownShown == ASSUME NEW calls, NEW v, NEW d, NEW w, NEW e, Known(calls, v, d),
    w.pending = v.pending, w.dirty = v.dirty, w.c = v.c, w.s = v.s, e.row = d.row, e.queue = d.queue
  PROVE Known(calls, w, e)
  BY DEF Known, Shows, Holds
\* A view that differs only in what Own does not read keeps it.
LEMMA OwnShown == ASSUME NEW calls, NEW v, NEW w, Own(calls, v),
    w.got = v.got, w.got \/ Blank(w), w.saving = v.saving
  PROVE Own(calls, w)
  BY DEF Own

-----------------------------------------------------------------------------
(* What the server's answer leaves known. *)

\* The request c is answered.
Marked(c, st, a) == [c EXCEPT !.st = st, !.ans = a]
Marking(c, st, a) == (net \ {c}) \cup {Marked(c, st, a)}

\* What an answer keeps, a formula at a time: the places,
LEMMA MarkingNumbered == ASSUME Numbered(net), NEW c \in net, NEW st, NEW a
  PROVE /\ Numbered(Marking(c, st, a))
        /\ IsRequest(Marked(c, st, a)) /\ Marked(c, st, a).id = c.id /\ Marked(c, st, a).op = c.op
        /\ Marked(c, st, a).arg = c.arg /\ Marked(c, st, a).here = c.here
        /\ Marked(c, st, a).st = st /\ Marked(c, st, a).ans = a
  <1> DEFINE f == [q \in net |-> IF q = c THEN Marked(c, st, a) ELSE q]
  <1>1. IsRequest(c) BY DEF Numbered
  <1>2. /\ IsRequest(Marked(c, st, a)) /\ Marked(c, st, a).id = c.id /\ Marked(c, st, a).op = c.op
        /\ Marked(c, st, a).arg = c.arg /\ Marked(c, st, a).here = c.here
        /\ Marked(c, st, a).st = st /\ Marked(c, st, a).ans = a
    <2>1. PICK x : x = [c EXCEPT !.st = st, !.ans = a] OBVIOUS
    <2>2. x.id = c.id /\ x.op = c.op /\ x.arg = c.arg /\ x.st = st /\ x.ans = a /\ x.here = c.here
      BY <1>1, <2>1 DEF IsRequest
    <2>3. x = [id |-> x.id, op |-> x.op, arg |-> x.arg, st |-> x.st, ans |-> x.ans, here |-> x.here]
      BY <1>1, <2>1 DEF IsRequest
    <2>4. x = Marked(c, st, a) BY <2>1 DEF Marked
    <2>5. QED BY <2>2, <2>3, <2>4 DEF IsRequest
  <1>3. DOMAIN f = net /\ \A q \in net : IsRequest(f[q]) /\ f[q].id = q.id
    BY <1>2 DEF Numbered
  <1>4. {f[q] : q \in net} = Marking(c, st, a) BY DEF Marking
  <1> HIDE DEF f
  <1>5. Numbered({f[q] : q \in net}) BY <1>3, MarkedNumbered
  <1>6. QED BY <1>2, <1>4, <1>5

\* Each request has one place.
LEMMA Places == ASSUME NEW S, Numbered(S)
  PROVE /\ \A q \in S : q.id \in Nat /\ q.id >= 1
        /\ \A p, q \in S : p # q => p.id < q.id \/ q.id < p.id
  <1>1. Cardinality(S) \in Nat BY FS_CardinalityType DEF Numbered
  <1>2. \A q \in S : q.id \in Nat /\ q.id >= 1 BY <1>1 DEF Numbered
  <1>3. QED BY <1>2 DEF Numbered

\* the order of serving, when it overtakes none,
LEMMA MarkingOrdered == ASSUME Numbered(net), NEW c \in net, NEW st, NEW a, Ordered(net), ~Overtakes(c), st # "sent"
  PROVE Ordered(Marking(c, st, a))
  <1> DEFINE x == Marked(c, st, a)
  <1>1. x.id = c.id /\ x.st = st BY MarkingNumbered
  <1>2. \A q \in net : q.id \in Nat BY Places
  <1>3. \A q \in net : q.id < c.id => q.st # "sent" BY DEF Overtakes
  <1> HIDE DEF x
  <1>4. \A p, q \in (net \ {c}) \cup {x} : p.id < q.id /\ q.st # "sent" => p.st # "sent"
    BY <1>1, <1>2, <1>3 DEF Ordered
  <1>5. QED BY <1>4 DEF Ordered, Marking, x

\* what the page has asked for,
LEMMA MarkingOwn == ASSUME Numbered(net), NEW c \in net, NEW st, NEW a, NEW v, Own(net, v)
  PROVE Own(Marking(c, st, a), v)
  <1> DEFINE x == Marked(c, st, a)
  <1>1. x.id = c.id /\ x.op = c.op /\ x.here = c.here BY MarkingNumbered
  <1>2. \A q \in net : q # c => q.id # c.id BY DEF Numbered
  <1> HIDE DEF x
  <1>3. Own((net \ {c}) \cup {x}, v)
    <2>1. ~v.got => Blank(v) /\ \A q \in (net \ {c}) \cup {x} : q.here => q.op \in {"get", "objectives"}
      BY <1>1 DEF Own
    <2>2. \A p, q \in (net \ {c}) \cup {x} : p.here /\ p.op = "get" => ~v.got /\ (q.id > p.id => q.here /\ q.op = "objectives")
      BY <1>1 DEF Own
    <2>3. \A p, q \in (net \ {c}) \cup {x} : p.here /\ q.here /\ p.op = "save" /\ q.op = "save" => p = q
      BY <1>1, <1>2 DEF Own
    <2>4. \A q \in (net \ {c}) \cup {x} : q.here /\ q.op = "save" => v.saving BY <1>1 DEF Own
    <2>5. QED BY <2>1, <2>2, <2>3, <2>4 DEF Own
  <1>4. QED BY <1>3 DEF Marking, x

\* and what it waits for.
LEMMA MarkingBusy == ASSUME Numbered(net), NEW c \in net, NEW st, NEW a, NEW v, Busy(net, v)
  PROVE Busy(Marking(c, st, a), v)
  <1> DEFINE x == Marked(c, st, a)
  <1>1. x.op = c.op /\ x.here = c.here BY MarkingNumbered
  <1>2. \A op : Awaits(net, op) => Awaits(Marking(c, st, a), op)
    <2> HIDE DEF x
    <2>1. \A op : Awaits(net, op) => Awaits((net \ {c}) \cup {x}, op) BY <1>1 DEF Awaits
    <2>2. QED BY <2>1 DEF Marking, x
  <1>3. QED BY <1>2 DEF Busy

\* A request that is refused, or that writes nothing.
LEMMA MarkingKnown == ASSUME Numbered(net), NEW c \in net, c.st = "sent", NEW st, NEW a, NEW v, NEW d, Known(net, v, d),
    st = "err" \/ c.op \notin {"save", "approve"}, st # "sent"
  PROVE Known(Marking(c, st, a), v, d)
  <1> DEFINE x == Marked(c, st, a)
             more == (net \ {c}) \cup {x}
  <1>1. x.id = c.id /\ x.op = c.op /\ x.arg = c.arg /\ x.here = c.here /\ x.st = st BY MarkingNumbered
  <1> HIDE DEF x
  <1>2. \A q \in more : q.op # "draft" => q.here BY <1>1 DEF Known
  <1>3. \A s \in Writes(more, "save"), b \in Writes(more, "approve") : v.pending <=> s.id < b.id
    BY <1>1 DEF Known, Writes
  <1>4. \A s \in Writes(more, "save") :
          s.st = "ok" /\ (\A b \in Writes(more, "approve") : b.id < s.id \/ b.st = "sent") => d.queue = <<>> /\ d.row = s.arg
    <2> SUFFICES ASSUME NEW s \in Writes(more, "save"), s.st = "ok", \A b \in Writes(more, "approve") : b.id < s.id \/ b.st = "sent"
                 PROVE d.queue = <<>> /\ d.row = s.arg
      OBVIOUS
    <2>1. s \in Writes(net, "save") BY <1>1 DEF Writes
    <2>2. \A b \in Writes(net, "approve") : b.id < s.id \/ b.st = "sent" BY <1>1 DEF Writes
    <2>3. QED BY <2>1, <2>2 DEF Known
  <1>5. v.pending => \A b \in Writes(more, "approve") :
          b.arg = Shows(v) /\ (b.st = "ok" => d.queue = <<>> /\ d.row = Shows(v))
    BY <1>1 DEF Known, Writes
  <1>6. ~v.pending /\ ~v.dirty =>
       /\ \A s \in Writes(more, "save") : s.arg = Shows(v)
       /\ Writes(more, "save") = {} =>
            Holds(d) = Shows(v) /\ \A b \in Writes(more, "approve") : b.arg = Shows(v)
    BY <1>1 DEF Known, Writes
  <1>7. Known(more, v, d) BY <1>2, <1>3, <1>4, <1>5, <1>6 DEF Known
  <1>8. QED BY <1>7 DEF Marking, x

\* A write that is served when nothing is queued.
LEMMA MarkingWrites == ASSUME Numbered(net), NEW c \in net, c.st = "sent", NEW st, NEW a, NEW v, NEW d, Known(net, v, d),
    Own(net, v), Ordered(net), c.op \in {"save", "approve"}, st # "sent", NEW e, e.queue = <<>>, e.row = c.arg
  PROVE Known(Marking(c, st, a), v, e)
  <1> DEFINE x == Marked(c, st, a)
             more == (net \ {c}) \cup {x}
  <1>1. x.id = c.id /\ x.op = c.op /\ x.arg = c.arg /\ x.here = c.here /\ x.st = st BY MarkingNumbered
  <1> HIDE DEF x
  <1>2. \A q \in more : q.op # "draft" => q.here BY <1>1 DEF Known
  <1>3. \A s \in Writes(more, "save"), b \in Writes(more, "approve") : v.pending <=> s.id < b.id
    BY <1>1 DEF Known, Writes
  <1>4. \A p, q \in Writes(net, "save") : p = q BY DEF Known, Own, Writes
  <1>p. \A p \in net : p.id \in Nat BY Places
  <1>q. \A p \in net : p # c => p.id < c.id \/ c.id < p.id BY Places
  <1>5. \A s \in Writes(more, "save") :
          s.st = "ok" /\ (\A b \in Writes(more, "approve") : b.id < s.id \/ b.st = "sent") => e.row = s.arg
    <2>1. CASE c.op = "save" BY <1>1, <1>4, <2>1 DEF Writes
    <2>2. CASE c.op = "approve"
      <3> SUFFICES ASSUME NEW s \in Writes(more, "save"), s.st = "ok", x.id < s.id PROVE FALSE BY <1>1, <2>2 DEF Writes
      <3>1. s \in net /\ s # c BY <1>1, <2>2 DEF Writes
      <3>2. QED BY <1>1, <3>1 DEF Ordered
    <2>3. QED BY <2>1, <2>2
  <1>6. v.pending => \A b \in Writes(more, "approve") :
          b.arg = Shows(v) /\ (b.st = "ok" => e.row = Shows(v))
    <2> SUFFICES ASSUME v.pending, NEW b \in Writes(more, "approve")
                 PROVE  b.arg = Shows(v) /\ (b.st = "ok" => e.row = Shows(v))
      OBVIOUS
    <2>1. b.arg = Shows(v) BY <1>1 DEF Known, Writes
    <2>2. CASE c.op = "approve" BY <1>1, <2>1, <2>2 DEF Known, Writes
    <2>3. CASE c.op = "save"
      <3>1. b \in net /\ c.id < b.id BY <1>1, <2>3 DEF Known, Writes
      <3>2. b.st = "sent" BY <3>1 DEF Ordered
      <3>3. QED BY <2>1, <3>2
    <2>4. QED BY <2>2, <2>3
  <1>7. ~v.pending /\ ~v.dirty =>
       /\ \A s \in Writes(more, "save") : s.arg = Shows(v)
       /\ Writes(more, "save") = {} =>
            Holds(e) = Shows(v) /\ \A b \in Writes(more, "approve") : b.arg = Shows(v)
    <2> SUFFICES ASSUME ~v.pending, ~v.dirty
                 PROVE  /\ \A s \in Writes(more, "save") : s.arg = Shows(v)
                        /\ Writes(more, "save") = {} =>
                             Holds(e) = Shows(v) /\ \A b \in Writes(more, "approve") : b.arg = Shows(v)
      OBVIOUS
    <2>1. \A s \in Writes(more, "save") : s.arg = Shows(v) BY <1>1 DEF Known, Writes
    <2>2. Writes(more, "save") = {} => Writes(net, "save") = {} BY <1>1 DEF Writes
    <2>3. Writes(net, "save") = {} => c \in Writes(net, "approve") BY DEF Writes
    <2>4. Writes(net, "save") = {} => c.arg = Shows(v) /\ \A b \in Writes(more, "approve") : b.arg = Shows(v)
      BY <1>1, <2>3 DEF Known, Writes
    <2>5. Holds(e) = c.arg BY DEF Holds
    <2>6. QED BY <2>1, <2>2, <2>4, <2>5
  <1>8. Known(more, v, e) BY <1>2, <1>3, <1>5, <1>6, <1>7 DEF Known
  <1>9. QED BY <1>8 DEF Marking, x

-----------------------------------------------------------------------------
(* The kinds of step. *)

\* What Slip writes.
LEMMA Slips == ASSUME NEW d \in EditorDb, NEW when \in BOOLEAN
  PROVE /\ Slip(d, when) \in EditorDb /\ Slip(d, when).slip = (d.slip \/ when)
        /\ Slip(d, when).row = d.row /\ Slip(d, when).queue = d.queue /\ Slip(d, when).approved = d.approved
        /\ Slip(d, when).gone = d.gone /\ Slip(d, when).page = d.page
  BY DEF Slip, EditorDb

\* What slips leaves the gate as it was.
LEMMA GatedSlips == ASSUME NEW calls, NEW d, NEW e, Gated(calls, d), d.slip => e.slip,
    e.approved = d.approved, e.row = d.row, e.queue = d.queue
  PROVE Gated(calls, e)
  BY DEF Gated

\* The page changes, and nothing is sent or answered.
LEMMA PageStep ==
  ASSUME EditorInv, page = "editor", page' = page, net' = net, lost' = lost, mixed' = mixed,
         NEW when \in BOOLEAN, db' = Slip(db, when),
         view' \in EditorView, view'.ai.cur <= Len(view'.ai.tries),
         view'.got = view.got, view'.got \/ Blank(view'), view'.saving = view.saving,
         Told(view', db'), Busy(net, view'), Hidden(view', db'),
         view.got /\ ~mixed /\ ~db'.slip => Known(net, view', db')
  PROVE  EditorInv'
  <1>1. Shape /\ Gated(net, db) /\ (~mixed => Ordered(net)) /\ Own(net, view) BY DEF EditorInv
  <1>2. /\ db' \in EditorDb /\ (db.slip => db'.slip) /\ db'.row = db.row /\ db'.queue = db.queue
        /\ db'.approved = db.approved
    <2>1. db \in EditorDb BY <1>1 DEF Shape
    <2>2. /\ Slip(db, when) \in EditorDb /\ Slip(db, when).slip = (db.slip \/ when)
          /\ Slip(db, when).row = db.row /\ Slip(db, when).queue = db.queue /\ Slip(db, when).approved = db.approved
      BY <2>1, Slips
    <2>3. QED BY <2>2
  <1>3. Shape' BY <1>1, <1>2 DEF Shape
  <1>4. Gated(net', db') BY <1>1, <1>2, GatedSlips
  <1>5. Own(net', view') BY <1>1, OwnShown
  <1>6. QED BY <1>1, <1>3, <1>4, <1>5 DEF EditorInv

\* One more request is known of: a save of what is shown, when no draft is pending, ...
LEMMA KnownSaved == ASSUME NEW calls, NEW v, NEW d, NEW w, NEW e, NEW x, Known(calls, v, d), Own(calls, v), Numbered(calls),
    ~v.saving, ~w.pending, x.op = "save", x.arg = Shows(w), x.st = "sent", x.here, x.id = Cardinality(calls) + 1
  PROVE Known(calls \cup {x}, w, e)
  <1> DEFINE more == calls \cup {x}
  <1>1. Writes(calls, "save") = {} BY DEF Known, Own, Writes
  <1>2. Writes(more, "save") = {x} /\ Writes(more, "approve") = Writes(calls, "approve") BY <1>1 DEF Writes
  <1>3. \A q \in calls : q.id < x.id
    <2>1. Cardinality(calls) \in Nat BY FS_CardinalityType DEF Numbered
    <2>2. QED BY <2>1 DEF Numbered
  <1>4. \A a \in Writes(more, "approve") : ~(x.id < a.id)
    <2>1. Cardinality(calls) \in Nat BY FS_CardinalityType DEF Numbered
    <2>2. QED BY <1>2, <2>1 DEF Numbered, Writes
  <1>5. QED BY <1>2, <1>4 DEF Known

\* ... an approval of what is shown, when a draft is pending, ...
LEMMA KnownApproved == ASSUME NEW calls, NEW v, NEW d, NEW w, NEW e, NEW x, Known(calls, v, d), Numbered(calls),
    v.pending, w.pending, Shows(w) = Shows(v), e.row = d.row, e.queue = d.queue,
    x.op = "approve", x.arg = Shows(v), x.st = "sent", x.here, x.id = Cardinality(calls) + 1
  PROVE Known(calls \cup {x}, w, e)
  <1> DEFINE more == calls \cup {x}
  <1>2. Writes(more, "approve") = Writes(calls, "approve") \cup {x} /\ Writes(more, "save") = Writes(calls, "save") BY DEF Writes
  <1>3. \A q \in calls : q.id < x.id
    <2>1. Cardinality(calls) \in Nat BY FS_CardinalityType DEF Numbered
    <2>2. QED BY <2>1 DEF Numbered
  <1>4. \A s \in Writes(more, "save"), a \in Writes(more, "approve") : w.pending <=> s.id < a.id
    BY <1>2, <1>3 DEF Known, Writes
  <1>5. \A s \in Writes(more, "save") :
          s.st = "ok" /\ (\A a \in Writes(more, "approve") : a.id < s.id \/ a.st = "sent") => e.queue = <<>> /\ e.row = s.arg
    BY <1>2 DEF Known
  <1>6. \A a \in Writes(more, "approve") :
          a.arg = Shows(w) /\ (a.st = "ok" => e.queue = <<>> /\ e.row = Shows(w))
    BY <1>2 DEF Known
  <1>7. \A q \in more : q.op # "draft" => q.here BY DEF Known
  <1>8. QED BY <1>4, <1>5, <1>6, <1>7 DEF Known

\* ... or what writes nothing of the page's.
LEMMA KnownAsked == ASSUME NEW calls, NEW v, NEW d, NEW x, Known(calls, v, d), x.op \notin {"save", "approve"}, x.here
  PROVE Known(calls \cup {x}, v, d)
  <1>1. \A op \in {"save", "approve"} : Writes(calls \cup {x}, op) = Writes(calls, op) BY DEF Writes
  <1>2. QED BY <1>1 DEF Known

\* A handler of the page sends a request.
Asked == {"save", "approve", "draft", "patch", "delete"}
\* A gesture sends a request.
LEMMA AskStep ==
  ASSUME EditorInv, page = "editor", page' = page, lost' = lost, mixed' = mixed,
         NEW op \in Asked, NEW arg, net' = Send(net, << <<op, arg>> >>), op \in {"save", "approve"} => arg \in Rows,
         NEW when \in BOOLEAN, db' = Slip(db, when), view.got,
         view' \in EditorView, view'.ai.cur <= Len(view'.ai.tries), view'.got,
         op = "save" => ~view.saving /\ view'.saving, op # "save" => view'.saving = view.saving,
         view'.loading => view.loading,
         view'.approving => view.approving \/ op = "approve",
         view'.deleting => view.deleting \/ op = "delete",
         view'.ai.loading => view.ai.loading \/ op = "draft",
         Told(view', db'), Hidden(view', db'),
         op = "save" /\ ~db'.slip /\ ~db'.approved => arg.c # "d",
         ~db'.slip => /\ op = "save" => ~view'.pending /\ arg = Shows(view')
                      /\ op = "approve" => view.pending /\ view'.pending /\ arg = Shows(view) /\ Shows(view') = Shows(view)
                      /\ op \notin {"save", "approve"} => /\ view'.c = view.c /\ view'.s = view.s
                                                          /\ view'.pending = view.pending /\ view'.dirty = view.dirty
  PROVE  EditorInv'
  <1>1. Shape /\ Gated(net, db) /\ (~mixed => Ordered(net)) /\ Own(net, view) /\ Busy(net, view) BY DEF EditorInv
  <1>2. /\ db' \in EditorDb /\ (db.slip => db'.slip) /\ db'.row = db.row /\ db'.queue = db.queue
        /\ db'.approved = db.approved
    <2>1. db \in EditorDb BY <1>1 DEF Shape
    <2>2. /\ Slip(db, when) \in EditorDb /\ Slip(db, when).slip = (db.slip \/ when)
          /\ Slip(db, when).row = db.row /\ Slip(db, when).queue = db.queue /\ Slip(db, when).approved = db.approved
      BY <2>1, Slips
    <2>3. QED BY <2>2
  <1>3. Numbered(net) BY <1>1 DEF Shape
  <1>4. Numbered(net') BY <1>3, SendOne
  <1>5. PICK x : /\ net' = net \cup {x} /\ IsRequest(x) /\ x.op = op /\ x.arg = arg
                 /\ x.st = "sent" /\ x.here /\ x.id = Cardinality(net) + 1 /\ x \notin net
    BY <1>3, SendAdds
  <1>6. \A q \in net : q.id < x.id
    <2>1. Cardinality(net) \in Nat BY <1>3, FS_CardinalityType DEF Numbered
    <2>2. QED BY <1>3, <1>5, <2>1 DEF Numbered
  <1>7. Shape'
    <2>1. EditorCall(x) BY <1>5 DEF EditorCall, Asked
    <2>2. \A c \in net' : EditorCall(c) BY <1>1, <1>5, <2>1 DEF Shape
    <2>3. QED BY <1>1, <1>2, <1>4, <2>2 DEF Shape
  <1>8. Gated(net', db')
    <2>1. Gated(net, db') BY <1>1, <1>2, GatedSlips
    <2>2. QED BY <1>5, <2>1 DEF Gated, Asked
  <1>9. ~mixed => Ordered(net')
    <2>1. \A q \in net : ~(x.id < q.id) BY <1>3, <1>6, Places, FS_CardinalityType, <1>5 DEF Numbered
    <2>2. QED BY <1>1, <1>5, <2>1 DEF Ordered
  <1>10. Own(net', view')
    <2>1. \A c \in net : ~(c.here /\ c.op = "get") BY <1>1 DEF Own
    <2>2. op = "save" => \A c \in net : ~(c.here /\ c.op = "save") BY <1>1 DEF Own
    <2>3. QED BY <1>1, <1>5, <2>1, <2>2 DEF Own, Asked
  <1>11. Busy(net', view')
    <2>1. \A o : Awaits(net, o) => Awaits(net', o) BY <1>5 DEF Awaits
    <2>2. Awaits(net', op) BY <1>5 DEF Awaits
    <2>3. view'.saving => view.saving \/ op = "save" OBVIOUS
    <2>4. QED BY <1>1, <2>1, <2>2, <2>3 DEF Busy
  <1>12. ~mixed /\ ~db'.slip => Known(net', view', db')
    <2> SUFFICES ASSUME ~mixed, ~db'.slip PROVE Known(net', view', db') OBVIOUS
    <2>1. Known(net, view, db) BY <1>2 DEF EditorInv
    <2>2. CASE op = "save"
      <3> HIDE DEF Asked
      <3>1. ~view.saving /\ ~view'.pending /\ x.arg = Shows(view') BY <1>5, <2>2
      <3>2. QED BY <1>1, <1>3, <1>5, <2>1, <2>2, <3>1, KnownSaved
    <2>3. CASE op = "approve"
      <3>1. view.pending /\ view'.pending /\ x.arg = Shows(view) /\ Shows(view') = Shows(view) BY <1>5, <2>3
      <3>2. QED BY <1>2, <1>3, <1>5, <2>1, <2>3, <3>1, KnownApproved
    <2>4. CASE op \notin {"save", "approve"}
      <3>1. Known(net, view', db') BY <1>2, <2>1, <2>4, KnownShown
      <3>2. QED BY <1>5, <2>4, <3>1, KnownAsked
    <2>5. QED BY <2>2, <2>3, <2>4
  <1>13. QED BY <1>1, <1>7, <1>8, <1>9, <1>10, <1>11, <1>12 DEF EditorInv

\* A handler takes its answer.
LEMMA WithoutShape == ASSUME Shape, NEW r \in net
  PROVE /\ Numbered(Without(r)) /\ \A c \in Without(r) : EditorCall(c)
        /\ page = "away" => \A c \in Without(r) : ~c.here
        /\ \A op : Awaits(net, op) /\ (r.op # op \/ ~r.here) => Awaits(Without(r), op)
        /\ \A op : Awaits(Without(r), op) => \E q \in net : q # r /\ q.here /\ q.op = op
  <1>1. Numbered(net) BY DEF Shape
  <1>2. /\ Numbered(Without(r))
        /\ \A x \in Without(r) : \E q \in net \ {r} : Same(x, q)
        /\ \A q \in net \ {r} : \E x \in Without(r) : Same(x, q)
    BY <1>1, WithoutNumbered
  <1>3. \A x \in Without(r) : EditorCall(x)
    <2> SUFFICES ASSUME NEW x \in Without(r) PROVE EditorCall(x) OBVIOUS
    <2>1. PICK q \in net : Same(x, q) BY <1>2
    <2>2. IsRequest(x) BY <1>2 DEF Numbered
    <2>3. EditorCall(q) BY DEF Shape
    <2>4. QED BY <2>1, <2>2, <2>3 DEF EditorCall, Same
  <1>4. page = "away" => \A c \in Without(r) : ~c.here
    <2>1. \A x \in Without(r) : \E q \in net : x.here = q.here BY <1>2 DEF Same
    <2>2. QED BY <2>1 DEF Shape
  <1>5. \A op : Awaits(net, op) /\ (r.op # op \/ ~r.here) => Awaits(Without(r), op)
    <2> SUFFICES ASSUME NEW op, NEW q \in net, q.here, q.op = op, r.op # op \/ ~r.here PROVE Awaits(Without(r), op)
      BY DEF Awaits
    <2>1. q # r OBVIOUS
    <2>2. PICK x \in Without(r) : Same(x, q) BY <1>2, <2>1
    <2>3. QED BY <2>2 DEF Awaits, Same
  <1>6. \A op : Awaits(Without(r), op) => \E q \in net : q # r /\ q.here /\ q.op = op
    <2> SUFFICES ASSUME NEW op, NEW x \in Without(r), x.here, x.op = op PROVE \E q \in net : q # r /\ q.here /\ q.op = op
      BY DEF Awaits
    <2>1. PICK q \in net \ {r} : Same(x, q) BY <1>2
    <2>2. q.here /\ q.op = op BY <2>1 DEF Same
    <2>3. QED BY <2>1, <2>2
  <1>7. QED BY <1>2, <1>3, <1>4, <1>5, <1>6

\* What has overtaken nothing was the oldest.
LEMMA Oldest == ASSUME Shape, NEW r \in net, ~(r.id > 1)
  PROVE \A q \in net : q # r => r.id < q.id
  <1>1. Numbered(net) BY DEF Shape
  <1>2. r.id = 1 BY <1>1, Places
  <1>3. \A q \in net : q.id \in Nat /\ q.id >= 1 BY <1>1, Places
  <1>4. \A q \in net : q # r => q.id # r.id BY <1>1 DEF Numbered
  <1>5. QED BY <1>2, <1>3, <1>4

\* A request is answered to a page that may go on.
LEMMA AnswerShape ==
  ASSUME EditorInv, NEW r \in net, page' = page, lost' = lost, net' = Without(r), mixed' = (mixed \/ r.id > 1),
         db' \in EditorDb, page = "editor" => view' \in EditorView /\ view'.ai.cur <= Len(view'.ai.tries),
         Gated(net, db')
  PROVE  Shape' /\ Gated(net', db') /\ (~mixed' => Ordered(net'))
  <1>1. Shape /\ (~mixed => Ordered(net)) BY DEF EditorInv
  <1>2. Shape'
    <2>1. mixed' \in BOOLEAN /\ page \in {"editor", "away"} /\ lost \in Nat BY <1>1 DEF Shape
    <2>2. /\ Numbered(Without(r)) /\ \A c \in Without(r) : EditorCall(c)
          /\ page = "away" => \A c \in Without(r) : ~c.here
      BY <1>1, WithoutShape
    <2>3. QED BY <2>1, <2>2 DEF Shape
  <1>3. Numbered(net) BY <1>1 DEF Shape
  <1>4. PICK f : Carried(net, Without(r), {r}, f) BY <1>3, WithoutCarried
  <1>5. Gated(net', db') BY <1>4, GatedCarried
  <1>6. ~mixed' => Ordered(net') BY <1>1, <1>4, OrderedCarried
  <1>7. QED BY <1>2, <1>5, <1>6

\* The handler of a page that is left, or of a panel that is closed, goes on.
LEMMA OffStep ==
  ASSUME EditorInv, NEW r \in net, ~r.here, page' = page, lost' = lost, net' = Without(r), mixed' = (mixed \/ r.id > 1),
         view' = view, db' \in EditorDb, db.slip => db'.slip, db'.approved = db.approved,
         r.op = "draft" => db' = db, Gated(net, db')
  PROVE  EditorInv'
  <1>2. Shape /\ Numbered(net) BY DEF EditorInv, Shape
  <1>3. Shape' /\ Gated(net', db') /\ (~mixed' => Ordered(net')) BY <1>2, AnswerShape DEF Shape
  <1>4. PICK f : Carried(net, Without(r), {r}, f) BY <1>2, WithoutCarried
  <1>5. page = "editor" => Own(net', view') BY <1>4, OwnCarried DEF EditorInv
  <1>6. page = "editor" => Told(view', db') /\ Hidden(view', db') BY DEF EditorInv, Told, Hidden
  <1>7. page = "editor" => Busy(net', view')
    <2>1. \A op : Awaits(net, op) => Awaits(net', op) BY <1>2, WithoutShape
    <2>2. QED BY <2>1 DEF EditorInv, Busy
  <1>8. page = "editor" /\ view.got /\ ~mixed' /\ ~db'.slip => Known(net', view', db')
    <2> SUFFICES ASSUME page = "editor", view.got, ~mixed', ~db'.slip PROVE Known(net', view', db') OBVIOUS
    <2>1. Known(net, view, db) BY DEF EditorInv
    <2>2. r.op = "draft" BY <2>1 DEF Known
    <2>3. Known(Without(r), view, db)
      <3>1. \A q \in {r} : q.op \notin {"save", "approve"} BY <2>2
      <3>2. QED BY <1>4, <2>1, <3>1, KnownCarried
    <2>4. QED BY <2>2, <2>3
  <1>9. QED BY <1>3, <1>5, <1>6, <1>7, <1>8 DEF EditorInv

\* The handler of the page goes on.
LEMMA HereStep ==
  ASSUME EditorInv, NEW r \in net, r.here, page' = page, lost' = lost, net' = Without(r), mixed' = (mixed \/ r.id > 1),
         view' \in EditorView, view'.ai.cur <= Len(view'.ai.tries),
         db' \in EditorDb, Gated(net, db'), Told(view', db'), Hidden(view', db'),
         view.got => view'.got, view'.got => view.got \/ r.op = "get", view'.got \/ Blank(view'),
         view'.saving => view.saving /\ r.op # "save", view.saving => view'.saving \/ r.op = "save",
         view'.loading => view.loading /\ r.op # "get",
         view'.approving => view.approving /\ r.op # "approve",
         view'.deleting => view.deleting /\ r.op # "delete",
         view'.ai.loading => view.ai.loading /\ r.op # "draft",
         view'.got /\ ~mixed' /\ ~db'.slip => Known(net', view', db')
  PROVE  EditorInv'
  <1>1. Shape /\ Numbered(net) /\ page = "editor" BY DEF EditorInv, Shape
  <1>2. Own(net, view) /\ Busy(net, view) BY <1>1 DEF EditorInv
  <1>3. Shape' /\ Gated(net', db') /\ (~mixed' => Ordered(net')) BY AnswerShape
  <1>4. PICK f : Carried(net, Without(r), {r}, f) BY <1>1, WithoutCarried
  <1>5. Own(net', view) BY <1>2, <1>4, OwnCarried
  <1>6. Own(net', view')
    <2>1. ~view'.got => Blank(view') /\ \A c \in net' : c.here => c.op \in {"get", "objectives"} BY <1>5 DEF Own
    <2>2. \A c, d \in net' : c.here /\ c.op = "get" => ~view'.got /\ (d.id > c.id => d.here /\ d.op = "objectives")
      <3>1. \A c \in net' : c.here /\ c.op = "get" => r.op # "get" /\ ~view.got
        <4> SUFFICES ASSUME NEW c \in net', c.here, c.op = "get" PROVE r.op # "get" /\ ~view.got OBVIOUS
        <4>1. ~view.got BY <1>5 DEF Own
        <4>2. PICK q \in net : q # r /\ q.here /\ q.op = "get" BY <1>1, WithoutShape DEF Awaits
        <4>3. r.op = "get" => ~(r.id > q.id) /\ ~(q.id > r.id) BY <1>2, <4>2 DEF Own
        <4>4. r.id < q.id \/ q.id < r.id BY <1>1, <4>2, Places
        <4>5. QED BY <1>1, <4>1, <4>2, <4>3, <4>4, Places
      <3>2. QED BY <1>5, <3>1 DEF Own
    <2>3. \A c, d \in net' : c.here /\ d.here /\ c.op = "save" /\ d.op = "save" => c = d BY <1>5 DEF Own
    <2>4. \A c \in net' : c.here /\ c.op = "save" => view'.saving
      <3> SUFFICES ASSUME NEW c \in net', c.here, c.op = "save" PROVE view'.saving OBVIOUS
      <3>1. view.saving BY <1>5 DEF Own
      <3>2. PICK q \in net : q # r /\ q.here /\ q.op = "save" BY <1>1, WithoutShape DEF Awaits
      <3>3. r.op # "save" BY <1>2, <3>2 DEF Own
      <3>4. QED BY <3>1, <3>3
    <2>5. QED BY <2>1, <2>2, <2>3, <2>4 DEF Own
  <1>7. Busy(net', view')
    <2>1. \A op : Awaits(net, op) /\ r.op # op => Awaits(net', op) BY <1>1, WithoutShape
    <2>2. QED BY <1>2, <2>1 DEF Busy
  <1>8. QED BY <1>1, <1>3, <1>6, <1>7 DEF EditorInv

\* The server answers.
LEMMA MarkingGated == ASSUME Numbered(net), NEW c \in net, NEW st, NEW a, NEW d, Gated(net, d),
    c.op = "approve" /\ st = "ok" => d.approved,
    c.op = "get" /\ st = "ok" /\ ~d.slip /\ ~d.approved => a.c # "d"
  PROVE Gated(Marking(c, st, a), d)
  <1> DEFINE x == Marked(c, st, a)
  <1>1. x.op = c.op /\ x.arg = c.arg /\ x.st = st /\ x.ans = a BY MarkingNumbered
  <1> HIDE DEF x
  <1>2. Gated((net \ {c}) \cup {x}, d) BY <1>1 DEF Gated
  <1>3. QED BY <1>2 DEF Marking, x

\* The server answers a request, and may write a row.
LEMMA ServeStep ==
  ASSUME EditorInv, NEW c \in net, c.st = "sent", NEW st \in {"ok", "err"}, NEW a, net' = Marking(c, st, a),
         page' = page, view' = view, lost' \in Nat, mixed' = (mixed \/ Overtakes(c)),
         st = "ok" => (c.op \in {"get", "patch"} => a \in Rows) /\ (c.op = "draft" => a \in Drafts),
         db' \in EditorDb, db.slip => db'.slip, db.approved => db'.approved, Gated(net', db'),
         \/ db'.row = db.row /\ db'.queue = db.queue /\ (st = "err" \/ c.op \notin {"save", "approve"})
         \/ c.op \in {"save", "approve"} /\ (~db'.slip => db'.queue = <<>> /\ db'.row = c.arg)
  PROVE  EditorInv'
  <1>1. Shape /\ Numbered(net) /\ (~mixed => Ordered(net)) BY DEF EditorInv, Shape
  <1>2. st # "sent" OBVIOUS
  <1>3. /\ Numbered(net') /\ IsRequest(Marked(c, st, a)) /\ Marked(c, st, a).op = c.op
        /\ Marked(c, st, a).arg = c.arg /\ Marked(c, st, a).here = c.here
        /\ Marked(c, st, a).st = st /\ Marked(c, st, a).ans = a
    BY <1>1, MarkingNumbered
  <1>4. Shape'
    <2>1. EditorCall(c) BY <1>1 DEF Shape
    <2>2. EditorCall(Marked(c, st, a)) BY <1>3, <2>1 DEF EditorCall
    <2>3. \A q \in net' : EditorCall(q) BY <1>1, <2>2 DEF Shape, Marking
    <2>4. page = "away" => \A q \in net' : ~q.here BY <1>1, <1>3 DEF Shape, Marking
    <2>5. mixed' \in BOOLEAN BY <1>1 DEF Shape
    <2>6. QED BY <1>1, <1>3, <2>3, <2>4, <2>5 DEF Shape
  <1>5. ~mixed' => Ordered(net') BY <1>1, <1>2, MarkingOrdered
  <1>6. page = "editor" => Own(net', view') /\ Busy(net', view') BY <1>1, MarkingOwn, MarkingBusy DEF EditorInv
  <1>7. page = "editor" => Told(view', db') /\ Hidden(view', db') BY DEF EditorInv, Told, Hidden
  <1>8. page = "editor" /\ view.got /\ ~mixed' /\ ~db'.slip => Known(net', view', db')
    <2> SUFFICES ASSUME page = "editor", view.got, ~mixed', ~db'.slip PROVE Known(net', view', db') OBVIOUS
    <2>1. Known(net, view, db) /\ Own(net, view) /\ Ordered(net) BY <1>1 DEF EditorInv
    <2>2. CASE db'.row = db.row /\ db'.queue = db.queue /\ (st = "err" \/ c.op \notin {"save", "approve"})
      <3>1. Known(net, view, db') BY <2>1, <2>2, KnownShown
      <3>2. QED BY <1>1, <1>2, <2>2, <3>1, MarkingKnown
    <2>3. CASE c.op \in {"save", "approve"} /\ (~db'.slip => db'.queue = <<>> /\ db'.row = c.arg)
      BY <1>1, <1>2, <2>1, <2>3, MarkingWrites
    <2>4. QED BY <2>2, <2>3
  <1>9. QED BY <1>4, <1>5, <1>6, <1>7, <1>8 DEF EditorInv

\* The page is left: its handlers go on without it.
LEMMA LeftStep ==
  ASSUME EditorInv, NEW calls, Numbered(calls),
         \A x \in calls : \E q \in net : x.op = q.op /\ x.arg = q.arg /\ x.st = q.st /\ x.ans = q.ans
  PROVE  (\A c \in calls : c.here \in BOOLEAN => EditorCall(c)) /\ Gated(calls, db)
  <1>1. Gated(net, db) /\ \A q \in net : EditorCall(q) BY DEF EditorInv, Shape
  <1>2. Gated(calls, db) BY <1>1 DEF Gated
  <1>3. \A c \in calls : c.here \in BOOLEAN => EditorCall(c)
    <2> SUFFICES ASSUME NEW c \in calls, c.here \in BOOLEAN PROVE EditorCall(c) OBVIOUS
    <2>1. PICK q \in net : c.op = q.op /\ c.arg = q.arg /\ c.st = q.st /\ c.ans = q.ans OBVIOUS
    <2>2. EditorCall(q) BY <1>1
    <2>3. IsRequest(c) BY DEF Numbered
    <2>4. QED BY <2>1, <2>2, <2>3 DEF EditorCall
  <1>4. QED BY <1>2, <1>3

-----------------------------------------------------------------------------
(* The steps of the page. *)

\* What Rendered leaves alone.
LEMMA Renders == ASSUME NEW v \in EditorView
  PROVE /\ Rendered(v) \in EditorView
        /\ Rendered(v).got = v.got /\ Rendered(v).loading = v.loading /\ Rendered(v).ready = v.ready
        /\ Rendered(v).c = v.c /\ Rendered(v).s = v.s /\ Rendered(v).ind = v.ind /\ Rendered(v).dirty = v.dirty
        /\ Rendered(v).saving = v.saving /\ Rendered(v).timer = v.timer /\ Rendered(v).fades = v.fades
        /\ Rendered(v).pending = v.pending /\ Rendered(v).pre = v.pre /\ Rendered(v).approving = v.approving
        /\ Rendered(v).ai = v.ai /\ Rendered(v).confirm = v.confirm /\ Rendered(v).deleting = v.deleting
  BY DEF Rendered, EditorView

\* The page that is mounted.
LEMMA Mounted == ASSUME EditorInv, page = "editor"
  PROVE /\ view \in EditorView /\ view.ai.cur <= Len(view.ai.tries) /\ db \in EditorDb /\ Numbered(net)
        /\ Own(net, view) /\ Told(view, db) /\ Busy(net, view) /\ Hidden(view, db) /\ Gated(net, db)
        /\ view.got /\ ~mixed /\ ~db.slip => Known(net, view, db)
        /\ view.timer \/ view.confirm => view.got
  BY DEF EditorInv, Shape, Own, Blank

\* A gesture that neither sends nor takes an answer.
LEMMA GestureStep ==
  ASSUME EditorInv, page = "editor", NEW w \in EditorView, NEW when \in BOOLEAN,
         page' = page, net' = net, lost' = lost, mixed' = mixed,
         view' = w \/ view' = Rendered(w), db' = Slip(db, when),
         w.ai.cur <= Len(w.ai.tries), w.got = view.got, w.got \/ Blank(w), w.saving = view.saving,
         w.dirty /\ ~db.slip /\ ~when => w.timer \/ (w.ind = "error" /\ ~w.saving),
         w.loading => view.loading, w.approving => view.approving, w.deleting => view.deleting,
         w.ai.loading => view.ai.loading,
         ~db.slip /\ ~when /\ ~db.approved /\ w.got /\ w.c = "d" => w.pending,
         view.got /\ ~mixed /\ ~db.slip /\ ~when => Known(net, w, db)
  PROVE  EditorInv'
  <1>1. PICK u : u = view' OBVIOUS
  <1>2. /\ u \in EditorView /\ u.got = w.got /\ u.loading = w.loading /\ u.c = w.c /\ u.s = w.s /\ u.ind = w.ind
        /\ u.dirty = w.dirty /\ u.saving = w.saving /\ u.timer = w.timer /\ u.pending = w.pending
        /\ u.approving = w.approving /\ u.ai = w.ai /\ u.confirm = w.confirm /\ u.deleting = w.deleting
    <2>1. CASE view' = w BY <1>1, <2>1
    <2>2. CASE view' = Rendered(w) BY <1>1, <2>2, Renders
    <2>3. QED BY <2>1, <2>2
  <1>3. PICK e : e = db' OBVIOUS
  <1>4. e.slip = (db.slip \/ when) /\ e.row = db.row /\ e.queue = db.queue /\ e.approved = db.approved
    BY <1>3, Slips, Mounted
  <1>5. Told(u, e) BY <1>2, <1>4 DEF Told
  <1>6. Busy(net, u) BY <1>2, Mounted DEF Busy
  <1>7. Hidden(u, e) BY <1>2, <1>4 DEF Hidden
  <1>8. view.got /\ ~mixed /\ ~e.slip => Known(net, u, e)
    <2> SUFFICES ASSUME view.got, ~mixed, ~e.slip PROVE Known(net, u, e) OBVIOUS
    <2>1. Known(net, w, db) BY <1>4
    <2>2. QED BY <1>2, <1>4, <2>1, KnownShown
  <1>9. u.got = view.got /\ (u.got \/ Blank(u)) /\ u.saving = view.saving /\ u.ai.cur <= Len(u.ai.tries)
    BY <1>2 DEF Blank
  <1>10. QED BY <1>1, <1>2, <1>3, <1>5, <1>6, <1>7, <1>8, <1>9, PageStep

\* The content the page was opened with takes its place.
LEMMA InitialisedKept == ASSUME EditorInv, Initialised PROVE EditorInv'
  <1>1. PICK w : w = [view EXCEPT !.ready = TRUE] OBVIOUS
  <1>2. page = "editor" /\ view' = w BY <1>1 DEF Initialised, Here
  <1>3. /\ w \in EditorView /\ w.got = view.got /\ w.loading = view.loading /\ w.c = view.c /\ w.s = view.s /\ w.ind = view.ind
        /\ w.dirty = view.dirty /\ w.saving = view.saving /\ w.timer = view.timer /\ w.pending = view.pending
        /\ w.approving = view.approving /\ w.ai = view.ai /\ w.confirm = view.confirm /\ w.deleting = view.deleting
    BY <1>1, <1>2, Mounted DEF EditorView
  <1>4. db' = Slip(db, FALSE) BY <1>2, Mounted DEF Initialised, Slip, EditorDb
  <1>5. view.got /\ ~mixed /\ ~db.slip => Known(net, w, db) BY <1>2, <1>3, Mounted, KnownShown
  <1>6. w.got \/ Blank(w) BY <1>2, <1>3, Mounted DEF Own, Blank
  <1>7. w.dirty /\ ~db.slip => w.timer \/ (w.ind = "error" /\ ~w.saving) BY <1>2, <1>3, Mounted DEF Told
  <1>8. ~db.slip /\ ~db.approved /\ w.got /\ w.c = "d" => w.pending BY <1>2, <1>3, Mounted DEF Hidden
  <1>9. w.ai.cur <= Len(w.ai.tries) BY <1>2, <1>3, Mounted
  <1>10. page' = page /\ net' = net /\ lost' = lost /\ mixed' = mixed BY DEF Initialised
  <1>11. QED BY <1>2, <1>3, <1>4, <1>5, <1>6, <1>7, <1>8, <1>9, <1>10, GestureStep

\* The "saved" of the indicator fades.
LEMMA FadesKept == ASSUME EditorInv, Fades PROVE EditorInv'
  <1>1. PICK w : w = [view EXCEPT !.fades = @ - 1, !.ind = "idle"] OBVIOUS
  <1>2. page = "editor" /\ view' = Rendered(w) /\ view.fades > 0 BY <1>1 DEF Fades, Here
  <1>3. /\ w \in EditorView /\ w.got = view.got /\ w.loading = view.loading /\ w.c = view.c /\ w.s = view.s
        /\ w.dirty = view.dirty /\ w.saving = view.saving /\ w.timer = view.timer /\ w.pending = view.pending
        /\ w.approving = view.approving /\ w.ai = view.ai /\ w.confirm = view.confirm /\ w.deleting = view.deleting
    <2>1. view \in EditorView BY <1>2, Mounted
    <2>2. view.fades \in Nat BY <2>1 DEF EditorView
    <2>3. PICK n \in Nat : n = view.fades - 1 BY <1>2, <2>2
    <2>4. w = [view EXCEPT !.fades = n, !.ind = "idle"] BY <1>1, <2>3
    <2>5. QED BY <2>1, <2>4 DEF EditorView
  <1>4. PICK when \in BOOLEAN : when = (view.ind = "error") OBVIOUS
  <1>5. db' = Slip(db, when) BY <1>4 DEF Fades
  <1>6. view.got /\ ~mixed /\ ~db.slip => Known(net, w, db) BY <1>2, <1>3, Mounted, KnownShown
  <1>7. w.got \/ Blank(w) BY <1>2, <1>3, Mounted DEF Own, Blank
  <1>8. w.dirty /\ ~db.slip /\ ~when => w.timer BY <1>2, <1>3, <1>4, Mounted DEF Told
  <1>9. ~db.slip /\ ~db.approved /\ w.got /\ w.c = "d" => w.pending BY <1>2, <1>3, Mounted DEF Hidden
  <1>10. w.ai.cur <= Len(w.ai.tries) BY <1>2, <1>3, Mounted
  <1>11. page' = page /\ net' = net /\ lost' = lost /\ mixed' = mixed BY DEF Fades
  <1>12. QED BY <1>2, <1>3, <1>5, <1>6, <1>7, <1>8, <1>9, <1>10, <1>11, GestureStep

\* A gesture that leaves the activity as it is.
LEMMA ChromeStep ==
  ASSUME EditorInv, page = "editor", NEW w \in EditorView, page' = page, net' = net, lost' = lost, mixed' = mixed,
         view' = w \/ view' = Rendered(w), db' = db \/ db' = Slip(db, FALSE), w.ai.cur <= Len(w.ai.tries),
         w.got = view.got, w.got, w.c = view.c, w.s = view.s, w.ind = view.ind, w.dirty = view.dirty,
         w.saving = view.saving, w.timer = view.timer, w.pending = view.pending,
         w.loading = view.loading, w.approving = view.approving, w.deleting = view.deleting,
         w.ai.loading => view.ai.loading
  PROVE  EditorInv'
  <1>1. db' = Slip(db, FALSE)
    <2>1. db \in EditorDb BY Mounted
    <2>2. QED BY <2>1 DEF Slip, EditorDb
  <1>2. view.got /\ ~mixed /\ ~db.slip => Known(net, w, db) BY Mounted, KnownShown
  <1>3. w.dirty /\ ~db.slip => w.timer \/ (w.ind = "error" /\ ~w.saving) BY Mounted DEF Told
  <1>4. ~db.slip /\ ~db.approved /\ w.got /\ w.c = "d" => w.pending BY Mounted DEF Hidden
  <1>5. QED BY <1>1, <1>2, <1>3, <1>4, GestureStep

\* The dialog of the deletion.
LEMMA AsksToDelete == ASSUME EditorInv, NEW sure \in BOOLEAN, page = "editor", view.got, Change([view EXCEPT !.confirm = sure], FALSE)
  PROVE EditorInv'
  <1>1. PICK w : w = [view EXCEPT !.confirm = sure] OBVIOUS
  <1>2. view \in EditorView /\ view.ai.cur <= Len(view.ai.tries) BY Mounted
  <1>3. /\ w \in EditorView /\ w.got = view.got /\ w.loading = view.loading /\ w.c = view.c /\ w.s = view.s
        /\ w.dirty = view.dirty /\ w.saving = view.saving /\ w.timer = view.timer /\ w.pending = view.pending
        /\ w.approving = view.approving /\ w.ai = view.ai /\ w.deleting = view.deleting /\ w.ind = view.ind
    BY <1>1, <1>2 DEF EditorView
  <1>4. view' = Rendered(w) /\ db' = Slip(db, FALSE) /\ page' = page /\ net' = net /\ lost' = lost /\ mixed' = mixed
    BY <1>1 DEF Change
  <1>5. QED BY <1>2, <1>3, <1>4, ChromeStep

\* The panel, in the state ai.
LEMMA PanelStep == ASSUME EditorInv, page = "editor", view.got, NEW ai \in Panels, ai.cur <= Len(ai.tries), ai.loading => view.ai.loading,
    NEW w, w = [view EXCEPT !.ai = ai], view' = w \/ view' = Rendered(w), db' = db \/ db' = Slip(db, FALSE),
    page' = page, net' = net, lost' = lost, mixed' = mixed
  PROVE EditorInv'
  <1>2. view \in EditorView BY Mounted
  <1>3. /\ w \in EditorView /\ w.got = view.got /\ w.loading = view.loading /\ w.c = view.c /\ w.s = view.s
        /\ w.dirty = view.dirty /\ w.saving = view.saving /\ w.timer = view.timer /\ w.pending = view.pending
        /\ w.approving = view.approving /\ w.ai = ai /\ w.deleting = view.deleting /\ w.ind = view.ind
    BY <1>2 DEF EditorView
  <1>5. QED BY <1>3, ChromeStep

\* A panel may hold no draft.
LEMMA NoTries == \E none : none \in Seq(Drafts) /\ none = <<>> /\ Len(none) = 0
  <1>1. <<>> \in Seq(Drafts) /\ Len(<<>>) = 0 OBVIOUS
  <1> HIDE DEF Drafts
  <1>2. QED BY <1>1, Zenon

\* The panel that is closed.
LEMMA NoPanel == NoAi \in Panels /\ NoAi.cur = 0 /\ ~NoAi.loading /\ NoAi.cur <= Len(NoAi.tries)
  <1>1. <<>> \in Seq(Drafts) /\ Len(<<>>) = 0 OBVIOUS
  <1>2. NoAi \in Panels BY <1>1 DEF Panels, NoAi
  <1>3. NoAi.tries = <<>> /\ NoAi.cur = 0 /\ ~NoAi.loading BY DEF NoAi
  <1>4. QED BY <1>1, <1>2, <1>3

\* A panel without a draft.
LEMMA EmptyPanel == ASSUME NEW of \in {None, "x"}, NEW open \in BOOLEAN, NEW ai, ai = [NoAi EXCEPT !.of = of, !.open = open]
  PROVE ai \in Panels /\ ~ai.loading /\ ai.cur <= Len(ai.tries)
  <1>1. ai \in Panels /\ ai.tries = NoAi.tries /\ ai.cur = NoAi.cur /\ ai.loading = NoAi.loading BY NoPanel DEF Panels
  <1>2. QED BY <1>1, NoPanel

\* The panel opens.
LEMMA PanelOpens == ASSUME EditorInv, Usable,
    Change([view EXCEPT !.ai = [NoAi EXCEPT !.of = "x", !.open = TRUE]], FALSE)
  PROVE EditorInv'
  <1>1. PICK ai : ai = [NoAi EXCEPT !.of = "x", !.open = TRUE] OBVIOUS
  <1>2. ai \in Panels /\ ~ai.loading /\ ai.cur <= Len(ai.tries) BY <1>1, EmptyPanel
  <1>3. PICK w : w = [view EXCEPT !.ai = ai] OBVIOUS
  <1>4. view' = Rendered(w) /\ db' = Slip(db, FALSE) /\ page' = page /\ net' = net /\ lost' = lost /\ mixed' = mixed
    BY <1>1, <1>3 DEF Change
  <1>5. page = "editor" /\ view.got BY DEF Usable, InUse, Here
  <1>6. QED BY <1>2, <1>3, <1>4, <1>5, PanelStep

\* Its attempts are thrown away, or another one is shown.
LEMMA PanelTurns == ASSUME EditorInv, Usable,
    \/ Change([view EXCEPT !.ai.tries = <<>>, !.ai.cur = 0], FALSE)
    \/ SelectAttempt
  PROVE EditorInv'
  <1>1. page = "editor" /\ view.got BY DEF Usable, InUse, Here
  <1>2. view \in EditorView /\ view.ai.cur <= Len(view.ai.tries) BY <1>1, Mounted
  <1>3. view.ai \in Panels BY <1>2 DEF EditorView
  <1>4. CASE Change([view EXCEPT !.ai.tries = <<>>, !.ai.cur = 0], FALSE)
    <2>1. PICK ai : ai = [view.ai EXCEPT !.tries = <<>>, !.cur = 0] OBVIOUS
    <2>a. PICK none : none \in Seq(Drafts) /\ none = <<>> /\ Len(none) = 0 BY NoTries
    <2>b. ai = [view.ai EXCEPT !.tries = none, !.cur = 0] BY <2>1, <2>a
    <2>c. none \in Seq(Drafts) BY <2>a
    <2>2. ai \in Panels /\ ai.cur = 0 /\ ai.tries = none /\ ai.loading = view.ai.loading BY <1>3, <2>b, <2>c DEF Panels
    <2>3. PICK w : w = [view EXCEPT !.ai = ai] OBVIOUS
    <2>4. w = [view EXCEPT !.ai.tries = <<>>, !.ai.cur = 0] BY <1>2, <2>1, <2>3 DEF EditorView
    <2>5. view' = Rendered(w) /\ db' = Slip(db, FALSE) /\ page' = page /\ net' = net /\ lost' = lost /\ mixed' = mixed
      BY <1>4, <2>4 DEF Change
    <2>6. ai.cur <= Len(ai.tries) BY <2>2, <2>a
    <2>7. QED BY <1>1, <2>2, <2>3, <2>5, <2>6, PanelStep
  <1>5. CASE SelectAttempt
    <2>1. PICK i \in DOMAIN view.ai.tries : Local([view EXCEPT !.ai.cur = i]) BY <1>5 DEF SelectAttempt
    <2>2. view.ai.tries \in Seq(Drafts) BY <1>3 DEF Panels
    <2>3. i \in Nat /\ i <= Len(view.ai.tries) BY <2>2
    <2>4. PICK ai : ai = [view.ai EXCEPT !.cur = i] OBVIOUS
    <2>5. ai \in Panels /\ ai.cur = i /\ ai.tries = view.ai.tries /\ ai.loading = view.ai.loading BY <1>3, <2>3, <2>4 DEF Panels
    <2>6. PICK w : w = [view EXCEPT !.ai = ai] OBVIOUS
    <2>7. w = [view EXCEPT !.ai.cur = i] BY <1>2, <2>4, <2>6 DEF EditorView
    <2>8. view' = w /\ db' = db /\ page' = page /\ net' = net /\ lost' = lost /\ mixed' = mixed
      BY <2>1, <2>7 DEF Local
    <2>9. QED BY <1>1, <2>3, <2>5, <2>6, <2>8, PanelStep
  <1>6. QED BY <1>4, <1>5

\* What the page knows when the user has changed what it shows: the edit will be saved,
\* or it is part of a draft nobody has asked to approve, ...
LEMMA KnownEdited == ASSUME NEW calls, NEW v, NEW d, NEW w, Known(calls, v, d),
    \/ w.pending /\ \A a \in calls : a.op # "approve"
    \/ ~v.pending /\ ~w.pending /\ w.dirty
  PROVE Known(calls, w, d)
  BY DEF Known, Writes
\* ... or it is what is stored already.
LEMMA KnownDiscarded == ASSUME NEW calls, NEW v, NEW d, NEW w, Known(calls, v, d), ~w.pending,
    \A a \in calls : a.op # "approve", \A s \in calls : s.op = "save" => s.arg = Shows(w), Holds(d) = Shows(w)
  PROVE Known(calls, w, d)
  BY DEF Known, Writes

\* The content changes, and a timer may be set to save it.
LEMMA EditStep ==
  ASSUME EditorInv, Usable, NEW u \in EditorView, Change(MarkDirty(u), Unnoticed),
         u.got = view.got, u.ai = view.ai, u.loading = view.loading, u.ind = view.ind, u.dirty = view.dirty,
         u.saving = view.saving, u.timer = view.timer, u.pending = view.pending, u.approving = view.approving,
         u.deleting = view.deleting, u.c = "d" => view.c = "d"
  PROVE  EditorInv'
  <1>1. page = "editor" /\ view.got BY DEF Usable, InUse, Here
  <1>2. PICK w : w = MarkDirty(u) OBVIOUS
  <1>3. PICK when \in BOOLEAN : when = Unnoticed
    <2>1. Unnoticed \in BOOLEAN
      <3>1. view \in EditorView /\ db \in EditorDb BY <1>1, Mounted
      <3>2. Disabled \in BOOLEAN BY DEF Disabled
      <3>3. QED BY <3>2 DEF Unnoticed
    <2>2. QED BY <2>1
  <1>4. view' = Rendered(w) /\ db' = Slip(db, when) /\ page' = page /\ net' = net /\ lost' = lost /\ mixed' = mixed
    BY <1>2, <1>3 DEF Change
  <1>5. CASE Disabled
    <2>1. w = u BY <1>2, <1>5 DEF MarkDirty
    <2>2. when \/ (view.pending /\ \A a \in net : a.op # "approve") BY <1>3, <1>5 DEF Unnoticed
    <2>3. w.dirty /\ ~db.slip /\ ~when => w.timer \/ (w.ind = "error" /\ ~w.saving) BY <1>1, <2>1, Mounted DEF Told
    <2>4. view.got /\ ~mixed /\ ~db.slip /\ ~when => Known(net, w, db) BY <1>1, <2>1, <2>2, Mounted, KnownEdited
    <2>5. w.ai.cur <= Len(w.ai.tries) BY <1>1, <2>1, Mounted
    <2>6. QED BY <1>1, <1>4, <2>1, <2>2, <2>3, <2>4, <2>5, GestureStep
  <1>6. CASE ~Disabled
    <2>1. w = [u EXCEPT !.dirty = TRUE, !.ind = "pending", !.timer = TRUE] BY <1>2, <1>6 DEF MarkDirty
    <2>2. /\ w \in EditorView /\ w.got = view.got /\ w.ai = view.ai /\ w.loading = view.loading /\ w.dirty
          /\ w.saving = view.saving /\ w.timer /\ w.pending = view.pending /\ w.approving = view.approving
          /\ w.deleting = view.deleting /\ w.c = u.c
      BY <2>1 DEF EditorView
    <2>3. ~view.pending BY <1>6 DEF Disabled
    <2>4. view.got /\ ~mixed /\ ~db.slip /\ ~when => Known(net, w, db) BY <1>1, <2>2, <2>3, Mounted, KnownEdited
    <2>5. w.ai.cur <= Len(w.ai.tries) BY <1>1, <2>2, Mounted
    <2>6. ~db.slip /\ ~when /\ ~db.approved /\ w.got /\ w.c = "d" => w.pending BY <1>1, <2>2, Mounted DEF Hidden
    <2>7. QED BY <1>1, <1>4, <2>2, <2>4, <2>5, <2>6, GestureStep
  <1>7. QED BY <1>5, <1>6

\* A field is typed into.
LEMMA EditKept == ASSUME EditorInv, Edit PROVE EditorInv'
  <1>1. Usable BY DEF Edit
  <1>2. view \in EditorView BY <1>1, Mounted DEF Usable, InUse, Here
  <1>3. CASE \E c \in {"c1", "c2"} \ {view.c} : Change(MarkDirty([view EXCEPT !.c = c]), Unnoticed)
    <2>1. PICK c \in {"c1", "c2"} : Change(MarkDirty([view EXCEPT !.c = c]), Unnoticed) BY <1>3
    <2>2. PICK u : u = [view EXCEPT !.c = c] OBVIOUS
    <2>3. u \in EditorView /\ u.c # "d" BY <1>2, <2>2 DEF EditorView, Texts
    <2>4. /\ u.got = view.got /\ u.ai = view.ai /\ u.loading = view.loading /\ u.ind = view.ind /\ u.dirty = view.dirty
          /\ u.saving = view.saving /\ u.timer = view.timer /\ u.pending = view.pending /\ u.approving = view.approving
          /\ u.deleting = view.deleting
      BY <1>2, <2>2 DEF EditorView
    <2>5. QED BY <1>1, <2>1, <2>2, <2>3, <2>4, EditStep
  <1>4. CASE \E s \in {"s1", "s2"} \ {view.s} : Change(MarkDirty([view EXCEPT !.s = s]), Unnoticed)
    <2>1. PICK s \in {"s1", "s2"} : Change(MarkDirty([view EXCEPT !.s = s]), Unnoticed) BY <1>4
    <2>2. PICK u : u = [view EXCEPT !.s = s] OBVIOUS
    <2>3. u \in EditorView /\ u.c = view.c BY <1>2, <2>2 DEF EditorView, States
    <2>4. /\ u.got = view.got /\ u.ai = view.ai /\ u.loading = view.loading /\ u.ind = view.ind /\ u.dirty = view.dirty
          /\ u.saving = view.saving /\ u.timer = view.timer /\ u.pending = view.pending /\ u.approving = view.approving
          /\ u.deleting = view.deleting
      BY <1>2, <2>2 DEF EditorView
    <2>5. QED BY <1>1, <2>1, <2>2, <2>3, <2>4, EditStep
  <1>5. QED BY <1>3, <1>4 DEF Edit

\* A draft takes the place of the content, to be approved.
LEMMA AcceptDraftKept == ASSUME EditorInv, AcceptDraft PROVE EditorInv'
  <1>1. Usable /\ Acceptable /\ page = "editor" /\ view.got BY DEF AcceptDraft, Usable, InUse, Here
  <1>2. view \in EditorView /\ view.ai.cur <= Len(view.ai.tries) BY <1>1, Mounted
  <1>3. Draft.c \in Texts
    <2>1. view.ai.tries \in Seq(Drafts) /\ view.ai.cur \in Nat BY <1>2 DEF EditorView, Panels
    <2>2. view.ai.cur \in 1..Len(view.ai.tries) BY <1>1, <1>2, <2>1 DEF Acceptable
    <2>3. Draft \in Drafts BY <2>1, <2>2 DEF Draft
    <2>4. QED BY <2>3 DEF Drafts, Texts
  <1>4. PICK w : w = [view EXCEPT !.pre = view.c, !.c = Draft.c, !.pending = TRUE, !.ai = NoAi] OBVIOUS
  <1>5. /\ w \in EditorView /\ w.got = view.got /\ w.ai = NoAi /\ w.loading = view.loading /\ w.ind = view.ind
        /\ w.dirty = view.dirty /\ w.saving = view.saving /\ w.timer = view.timer /\ w.pending
        /\ w.approving = view.approving /\ w.deleting = view.deleting
    <2>1. NoAi \in Panels BY NoPanel
    <2>2. QED BY <1>2, <1>3, <1>4, <2>1 DEF EditorView
  <1>6. PICK when \in BOOLEAN : when = \E r \in net : r.op = "approve" OBVIOUS
  <1>7. view' = Rendered(w) /\ db' = Slip(db, when) /\ page' = page /\ net' = net /\ lost' = lost /\ mixed' = mixed
    BY <1>4, <1>6 DEF AcceptDraft, Change
  <1>8. w.dirty /\ ~db.slip => w.timer \/ (w.ind = "error" /\ ~w.saving) BY <1>1, <1>5, Mounted DEF Told
  <1>9. view.got /\ ~mixed /\ ~db.slip /\ ~when => Known(net, w, db)
    <2>1. ~when => \A a \in net : a.op # "approve" BY <1>6
    <2>2. QED BY <1>1, <1>5, <2>1, Mounted, KnownEdited
  <1>10. w.ai.cur <= Len(w.ai.tries) /\ ~w.ai.loading BY <1>5, NoPanel
  <1>11. QED BY <1>1, <1>5, <1>7, <1>8, <1>9, <1>10, GestureStep

\* A draft is put back to what it replaced.
LEMMA DiscardKept == ASSUME EditorInv, Discard PROVE EditorInv'
  <1>1. page = "editor" /\ view.got BY DEF Discard, Usable, InUse, Here
  <1>2. view \in EditorView /\ view.ai.cur <= Len(view.ai.tries) /\ db \in EditorDb /\ Gated(net, db) BY <1>1, Mounted
  <1>3. PICK w : w = [view EXCEPT !.c = view.pre, !.pending = FALSE, !.pre = None] OBVIOUS
  <1>4. /\ w \in EditorView /\ w.got = view.got /\ w.ai = view.ai /\ w.loading = view.loading /\ w.ind = view.ind
        /\ w.dirty = view.dirty /\ w.saving = view.saving /\ w.timer = view.timer /\ ~w.pending
        /\ w.approving = view.approving /\ w.deleting = view.deleting
    BY <1>2, <1>3 DEF EditorView, Texts
  <1>5. PICK when \in BOOLEAN : when = (Shows(w) # Captured \/ \E r \in net : r.op = "approve" \/ (r.op = "save" /\ r.arg # Shows(w)))
    OBVIOUS
  <1>6. view' = Rendered(w) /\ db' = Slip(db, when) /\ page' = page /\ net' = net /\ lost' = lost /\ mixed' = mixed
    BY <1>3, <1>5 DEF Discard, Change, Shows
  <1>7. ~when => /\ Shows(w) = Holds(db) /\ \A a \in net : a.op # "approve"
                 /\ \A s \in net : s.op = "save" => s.arg = Shows(w)
    BY <1>5 DEF Captured, Holds
  <1>8. w.dirty /\ ~db.slip => w.timer \/ (w.ind = "error" /\ ~w.saving) BY <1>1, <1>4, Mounted DEF Told
  <1>9. view.got /\ ~mixed /\ ~db.slip /\ ~when => Known(net, w, db)
    BY <1>1, <1>4, <1>7, Mounted, KnownDiscarded
  <1>10. ~db.slip /\ ~when /\ ~db.approved => w.c # "d"
    <2> SUFFICES ASSUME ~db.slip, ~when, ~db.approved PROVE w.c # "d" OBVIOUS
    <2>1. w.c = Holds(db).c BY <1>7 DEF Shows
    <2>2. CASE db.queue = <<>> BY <1>2, <2>1, <2>2 DEF Gated, Holds
    <2>3. CASE db.queue # <<>>
      <3>1. db.queue \in Seq(Rows) BY <1>2 DEF EditorDb
      <3>2. Len(db.queue) \in DOMAIN db.queue BY <3>1, <2>3
      <3>3. Holds(db) = db.queue[Len(db.queue)] BY <2>3 DEF Holds, Last
      <3>4. QED BY <1>2, <2>1, <3>2, <3>3 DEF Gated
    <2>4. QED BY <2>2, <2>3
  <1>11. w.ai.cur <= Len(w.ai.tries) BY <1>2, <1>4
  <1>12. QED BY <1>1, <1>4, <1>6, <1>8, <1>9, <1>10, <1>11, GestureStep

\* The page starts to save what it shows.
LEMMA SaveStep ==
  ASSUME EditorInv, page = "editor", view.got, CanSave, NEW u, u = [view EXCEPT !.timer = FALSE],
         NEW when \in BOOLEAN, view.pending => when, net' = Send(net, << <<"save", Payload>> >>),
         view' = Rendered(SaveStarted(u)), db' = Slip(db, when), page' = page, lost' = lost, mixed' = mixed
  PROVE  EditorInv'
  <1>1. view \in EditorView /\ view.ai.cur <= Len(view.ai.tries) /\ ~view.saving BY Mounted DEF CanSave
  <1>2. PICK w : w = SaveStarted(u) OBVIOUS
  <1>3. w = [u EXCEPT !.saving = TRUE, !.dirty = FALSE, !.ind = "saving"] BY <1>2 DEF SaveStarted
  <1>4. u \in EditorView BY <1>1 DEF EditorView
  <1>5. /\ w \in EditorView /\ w.got = view.got /\ w.ai = view.ai /\ w.loading = view.loading /\ w.c = view.c /\ w.s = view.s
        /\ w.saving /\ ~w.dirty /\ w.pending = view.pending /\ w.approving = view.approving /\ w.deleting = view.deleting
    BY <1>1, <1>3, <1>4 DEF EditorView
  <1>6. PICK y : y = Rendered(w) OBVIOUS
  <1>7. /\ y \in EditorView /\ y.got = view.got /\ y.ai = view.ai /\ y.loading = view.loading /\ y.c = view.c /\ y.s = view.s
        /\ y.saving /\ ~y.dirty /\ y.pending = view.pending /\ y.approving = view.approving /\ y.deleting = view.deleting
    BY <1>5, <1>6, Renders
  <1>8. view' = y BY <1>2, <1>6
  <1>9. PICK arg : arg = Payload OBVIOUS
  <1>10. arg \in Rows /\ arg.c = view.c /\ arg = Shows(y) BY <1>1, <1>7, <1>9 DEF Payload, Rows, EditorView, Shows
  <1>11. net' = Send(net, << <<"save", arg>> >>) BY <1>9
  <1>12. PICK e : e = db' OBVIOUS
  <1>13. e.slip = (db.slip \/ when) /\ e.approved = db.approved BY <1>12, Mounted, Slips
  <1>14. Told(y, e) BY <1>7 DEF Told
  <1>15. Hidden(y, e) BY <1>7, <1>13, Mounted DEF Hidden
  <1>16. ~e.slip /\ ~e.approved => arg.c # "d" BY <1>10, <1>13, Mounted DEF Hidden
  <1>17. ~e.slip => ~y.pending BY <1>7, <1>13
  <1>18. PICK op \in Asked : op = "save" BY DEF Asked
  <1>19. y.ai.cur <= Len(y.ai.tries) BY <1>1, <1>7
  <1> HIDE DEF Asked
  <1>20. net' = Send(net, << <<op, arg>> >>) BY <1>11, <1>18
  <1>21. QED BY <1>1, <1>7, <1>8, <1>10, <1>12, <1>14, <1>15, <1>16, <1>17, <1>18, <1>19, <1>20, AskStep

\* A timer that goes off, or is put off, and saves nothing.
LEMMA NoSaveStep ==
  ASSUME EditorInv, page = "editor", view.got, NEW w, w = [view EXCEPT !.timer = FALSE], net' = net,
         NEW when \in BOOLEAN, Unsaid => when,
         view' = w \/ view' = Rendered(w), db' = Slip(db, when), page' = page, lost' = lost, mixed' = mixed
  PROVE  EditorInv'
  <1>1. view \in EditorView /\ view.ai.cur <= Len(view.ai.tries) BY Mounted
  <1>2. /\ w \in EditorView /\ w.got = view.got /\ w.ai = view.ai /\ w.loading = view.loading /\ w.c = view.c /\ w.s = view.s
        /\ w.dirty = view.dirty /\ w.saving = view.saving /\ w.pending = view.pending /\ w.approving = view.approving
        /\ w.deleting = view.deleting /\ w.ind = view.ind
    BY <1>1 DEF EditorView
  <1>3. w.dirty /\ ~db.slip /\ ~when => w.timer \/ (w.ind = "error" /\ ~w.saving) BY <1>2 DEF Unsaid
  <1>5. view.got /\ ~mixed /\ ~db.slip /\ ~when => Known(net, w, db) BY <1>2, Mounted, KnownShown
  <1>6. ~db.slip /\ ~db.approved /\ w.got /\ w.c = "d" => w.pending BY <1>2, Mounted DEF Hidden
  <1>7. QED BY <1>1, <1>2, <1>3, <1>5, <1>6, GestureStep

\* The timer fires, and the page saves or waits for the save under way.
LEMMA TimerFiresKept == ASSUME EditorInv, TimerFires PROVE EditorInv'
  <1>1. page = "editor" /\ view.got /\ page' = page /\ lost' = lost /\ mixed' = mixed
    BY Mounted DEF TimerFires, Here
  <1>2. PICK u : u = [view EXCEPT !.timer = FALSE] OBVIOUS
  <1>3. CASE CanSave
    <2>1. PICK when \in BOOLEAN : when = (view.pending \/ \E r \in net : r.op = "patch") OBVIOUS
    <2>2. net' = Send(net, << <<"save", Payload>> >>) /\ view' = Rendered(SaveStarted(u)) /\ db' = Slip(db, when)
      BY <1>2, <1>3, <2>1 DEF TimerFires
    <2>3. view.pending => when BY <2>1
    <2>4. QED BY <1>1, <1>2, <1>3, <2>2, <2>3, SaveStep
  <1>4. CASE ~CanSave
    <2>1. net' = net /\ view' = u /\ db' = Slip(db, view.dirty) BY <1>2, <1>4 DEF TimerFires
    <2>2. PICK when \in BOOLEAN : when = view.dirty BY <1>1, Mounted DEF EditorView
    <2>3. QED BY <1>1, <1>2, <2>1, <2>2, NoSaveStep DEF Unsaid
  <1>5. QED BY <1>3, <1>4

\* A Slip that is none changes nothing.
LEMMA NoSlip == ASSUME EditorInv, page = "editor" PROVE db = Slip(db, FALSE)
  <1>1. db \in EditorDb BY Mounted
  <1>2. QED BY <1>1 DEF Slip, EditorDb

\* The user saves at once.
LEMMA SaveNowKept == ASSUME EditorInv, SaveNow PROVE EditorInv'
  <1>1. page = "editor" /\ view.got BY DEF SaveNow, Usable, InUse, Here
  <1>2. PICK u : u = [view EXCEPT !.timer = FALSE] OBVIOUS
  <1>3. CASE ~Disabled /\ CanSave
    <2>1. Ask("save", Payload, Rendered(SaveStarted(u))) BY <1>2, <1>3 DEF SaveNow
    <2>2. /\ net' = Send(net, << <<"save", Payload>> >>) /\ view' = Rendered(SaveStarted(u)) /\ db' = db
          /\ page' = page /\ lost' = lost /\ mixed' = mixed
      BY <2>1 DEF Ask, Asks
    <2>3. db' = Slip(db, FALSE) BY <1>1, <2>2, NoSlip
    <2>4. PICK when \in BOOLEAN : when = FALSE OBVIOUS
    <2>5. ~view.pending BY <1>3 DEF Disabled
    <2>6. QED BY <1>1, <1>2, <1>3, <2>2, <2>3, <2>4, <2>5, SaveStep
  <1>4. CASE ~(~Disabled /\ CanSave)
    <2>1. PICK when \in BOOLEAN : when = Unsaid BY <1>1, Mounted DEF Unsaid, EditorView
    <2>2. Change(u, when) BY <1>2, <1>4, <2>1 DEF SaveNow
    <2>3. /\ net' = net /\ view' = Rendered(u) /\ db' = Slip(db, when)
          /\ page' = page /\ lost' = lost /\ mixed' = mixed
      BY <2>2 DEF Change
    <2>4. QED BY <1>1, <1>2, <2>1, <2>3, NoSaveStep
  <1>5. QED BY <1>3, <1>4

\* The other requests of the page.
LEMMA AsksKept ==
  ASSUME EditorInv, page = "editor", view.got, NEW op \in Asked \ {"save"}, NEW arg, NEW w \in EditorView,
         Ask(op, arg, w), w.ai.cur <= Len(w.ai.tries),
         w.got = view.got, w.c = view.c, w.s = view.s, w.ind = view.ind, w.dirty = view.dirty,
         w.saving = view.saving, w.timer = view.timer, w.pending = view.pending, w.loading = view.loading,
         w.approving => view.approving \/ op = "approve",
         w.deleting => view.deleting \/ op = "delete",
         w.ai.loading => view.ai.loading \/ op = "draft",
         op = "approve" => view.pending /\ arg = Payload
  PROVE  EditorInv'
  <1>1. net' = Send(net, << <<op, arg>> >>) /\ view' = w /\ db' = db /\ page' = page /\ lost' = lost /\ mixed' = mixed
    BY DEF Ask, Asks
  <1>2. PICK when \in BOOLEAN : ~when /\ db' = Slip(db, when)
    <2>1. db' = Slip(db, FALSE) BY <1>1, NoSlip
    <2>2. QED BY <2>1
  <1>3. view \in EditorView BY Mounted
  <1>4. op = "approve" => arg \in Rows /\ arg = Shows(view) BY <1>3 DEF Payload, Rows, EditorView, Shows
  <1>5. Shows(w) = Shows(view) BY DEF Shows
  <1>6. Told(w, db) BY Mounted DEF Told
  <1>7. Hidden(w, db) BY Mounted DEF Hidden
  <1>8. op \in Asked /\ op # "save" OBVIOUS
  <1> HIDE DEF Asked
  <1>9. QED BY <1>1, <1>2, <1>4, <1>5, <1>6, <1>7, <1>8, AskStep

\* An approval is asked for.
LEMMA ApproveAsks == ASSUME EditorInv, InUse, view.pending, Ask("approve", Payload, Rendered([view EXCEPT !.approving = TRUE]))
  PROVE EditorInv'
  <1>1. page = "editor" /\ view.got BY DEF Usable, InUse, Here
  <1>2. view \in EditorView /\ view.ai.cur <= Len(view.ai.tries) BY <1>1, Mounted
  <1>3. PICK u : u = [view EXCEPT !.approving = TRUE] OBVIOUS
  <1>4. /\ u \in EditorView /\ u.got = view.got /\ u.c = view.c /\ u.s = view.s /\ u.ind = view.ind /\ u.dirty = view.dirty
        /\ u.saving = view.saving /\ u.timer = view.timer /\ u.pending = view.pending /\ u.loading = view.loading
        /\ u.deleting = view.deleting /\ u.ai = view.ai
    BY <1>2, <1>3 DEF EditorView
  <1>5. PICK w : w = Rendered(u) OBVIOUS
  <1>6. /\ w \in EditorView /\ w.got = view.got /\ w.c = view.c /\ w.s = view.s /\ w.ind = view.ind /\ w.dirty = view.dirty
        /\ w.saving = view.saving /\ w.timer = view.timer /\ w.pending = view.pending /\ w.loading = view.loading
        /\ w.deleting = view.deleting /\ w.ai = view.ai
    BY <1>4, <1>5, Renders
  <1>7. Ask("approve", Payload, w) BY <1>3, <1>5
  <1>8. "approve" \in Asked \ {"save"} BY DEF Asked
  <1> HIDE DEF Asked
  <1>9. QED BY <1>1, <1>2, <1>6, <1>7, <1>8, AsksKept

\* A draft is asked for.
LEMMA DraftAsks == ASSUME EditorInv, Usable, Ask("draft", [of |-> view.ai.of], [view EXCEPT !.ai.loading = TRUE])
  PROVE EditorInv'
  <1>1. page = "editor" /\ view.got BY DEF Usable, InUse, Here
  <1>2. view \in EditorView /\ view.ai.cur <= Len(view.ai.tries) BY <1>1, Mounted
  <1>3. PICK ai : ai = [view.ai EXCEPT !.loading = TRUE] OBVIOUS
  <1>4. ai \in Panels /\ ai.cur = view.ai.cur /\ ai.tries = view.ai.tries BY <1>2, <1>3 DEF EditorView, Panels
  <1>5. PICK w : w = [view EXCEPT !.ai = ai] OBVIOUS
  <1>6. /\ w \in EditorView /\ w.got = view.got /\ w.c = view.c /\ w.s = view.s /\ w.ind = view.ind /\ w.dirty = view.dirty
        /\ w.saving = view.saving /\ w.timer = view.timer /\ w.pending = view.pending /\ w.loading = view.loading
        /\ w.approving = view.approving /\ w.deleting = view.deleting /\ w.ai = ai
    BY <1>2, <1>4, <1>5 DEF EditorView
  <1>7. w = [view EXCEPT !.ai.loading = TRUE] BY <1>2, <1>3, <1>5 DEF EditorView
  <1>8. PICK arg : Ask("draft", arg, w) BY <1>7
  <1>9. "draft" \in Asked \ {"save"} BY DEF Asked
  <1>10. w.ai.cur <= Len(w.ai.tries) BY <1>2, <1>4, <1>6
  <1> HIDE DEF Asked
  <1>11. QED BY <1>1, <1>6, <1>8, <1>9, <1>10, AsksKept

\* The status is changed.
LEMMA PatchAsks == ASSUME EditorInv, Usable, Ask("patch", None, view) PROVE EditorInv'
  <1>1. page = "editor" /\ view.got BY DEF Usable, InUse, Here
  <1>2. view \in EditorView /\ view.ai.cur <= Len(view.ai.tries) BY <1>1, Mounted
  <1>3. "patch" \in Asked \ {"save"} BY DEF Asked
  <1> HIDE DEF Asked
  <1>4. QED BY <1>1, <1>2, <1>3, AsksKept

\* The activity is deleted, once confirmed.
LEMMA DeleteAsks == ASSUME EditorInv, Here, view.confirm, Ask("delete", None, Rendered([view EXCEPT !.deleting = TRUE]))
  PROVE EditorInv'
  <1>1. page = "editor" /\ view.got BY Mounted DEF Here
  <1>2. view \in EditorView /\ view.ai.cur <= Len(view.ai.tries) BY <1>1, Mounted
  <1>3. PICK u : u = [view EXCEPT !.deleting = TRUE] OBVIOUS
  <1>4. /\ u \in EditorView /\ u.got = view.got /\ u.c = view.c /\ u.s = view.s /\ u.ind = view.ind /\ u.dirty = view.dirty
        /\ u.saving = view.saving /\ u.timer = view.timer /\ u.pending = view.pending /\ u.loading = view.loading
        /\ u.approving = view.approving /\ u.ai = view.ai
    BY <1>2, <1>3 DEF EditorView
  <1>5. PICK w : w = Rendered(u) OBVIOUS
  <1>6. /\ w \in EditorView /\ w.got = view.got /\ w.c = view.c /\ w.s = view.s /\ w.ind = view.ind /\ w.dirty = view.dirty
        /\ w.saving = view.saving /\ w.timer = view.timer /\ w.pending = view.pending /\ w.loading = view.loading
        /\ w.approving = view.approving /\ w.ai = view.ai
    BY <1>4, <1>5, Renders
  <1>7. Ask("delete", None, w) BY <1>3, <1>5
  <1>8. "delete" \in Asked \ {"save"} BY DEF Asked
  <1> HIDE DEF Asked
  <1>9. QED BY <1>1, <1>2, <1>6, <1>7, <1>8, AsksKept

-----------------------------------------------------------------------------
(* The answers. *)

\* An answer is taken: what holds of the requests that are left.
LEMMA Taken == ASSUME EditorInv, NEW r \in net, NEW v, NEW d, AnsweredWith(r, Without(r), v, d)
  PROVE /\ page' = page /\ lost' = lost /\ net' = Without(r) /\ mixed' = (mixed \/ r.id > 1) /\ db' = d /\ r.st # "sent"
        /\ view' = IF r.here THEN v ELSE view
        /\ r.here => page = "editor"
        /\ EditorCall(r) /\ Gated(net, db)
  <1>1. EditorCall(r) /\ (r.here => page = "editor") /\ Gated(net, db) BY DEF EditorInv, Shape
  <1>2. QED BY <1>1 DEF AnsweredWith

\* A handler that only goes on.
LEMMA GoesOn == ASSUME EditorInv, NEW r \in net, NEW v, AnsweredWith(r, Without(r), v, db), ~r.here
  PROVE EditorInv'
  <1>1. /\ page' = page /\ lost' = lost /\ net' = Without(r) /\ mixed' = (mixed \/ r.id > 1) /\ db' = db /\ view' = view
        /\ Gated(net, db)
    BY Taken
  <1>2. db \in EditorDb BY DEF EditorInv, Shape
  <1>3. QED BY <1>1, <1>2, OffStep

\* An answer that changes the activity neither on the page nor in what is stored.
LEMMA Noted ==
  ASSUME EditorInv, NEW r \in net, r.here, NEW w \in EditorView, AnsweredWith(r, Without(r), w, db),
         r.op \notin {"save", "approve"},
         w.ai.cur <= Len(w.ai.tries), w.got = view.got, w.c = view.c, w.s = view.s, w.ind = view.ind, w.dirty = view.dirty,
         w.saving = view.saving, w.timer = view.timer, w.pending = view.pending, w.confirm = view.confirm,
         w.loading => view.loading /\ r.op # "get",
         w.approving => view.approving,
         w.deleting => view.deleting /\ r.op # "delete",
         w.ai.loading => view.ai.loading /\ r.op # "draft"
  PROVE  EditorInv'
  <1>1. /\ page' = page /\ lost' = lost /\ net' = Without(r) /\ mixed' = (mixed \/ r.id > 1) /\ db' = db /\ view' = w
        /\ Gated(net, db) /\ page = "editor"
    BY Taken
  <1>2. db \in EditorDb /\ Told(view, db) /\ Hidden(view, db) /\ Own(net, view) /\ Numbered(net) BY <1>1, Mounted
  <1>3. Told(w, db) /\ Hidden(w, db) BY <1>2 DEF Told, Hidden
  <1>4. w.got \/ Blank(w) BY <1>2 DEF Own, Blank
  <1>5. w.got /\ ~mixed' /\ ~db.slip => Known(Without(r), w, db)
    <2> SUFFICES ASSUME w.got, ~mixed', ~db.slip PROVE Known(Without(r), w, db) OBVIOUS
    <2>1. Known(net, view, db) BY <1>1, Mounted
    <2>2. PICK f : Carried(net, Without(r), {r}, f) BY <1>2, WithoutCarried
    <2>3. \A q \in {r} : q.op \notin {"save", "approve"} OBVIOUS
    <2>4. Known(Without(r), view, db) BY <2>1, <2>2, <2>3, KnownCarried
    <2>5. QED BY <2>4, KnownShown
  <1>6. QED BY <1>1, <1>2, <1>3, <1>4, <1>5, HereStep

\* The page shows what it has loaded.
LEMMA LoadedKept == ASSUME EditorInv, Loaded PROVE EditorInv'
  <1>1. PICK r \in Waiting("get") :
          IF r.st # "ok" \/ ~r.here
          THEN Resume(r, IF r.here THEN Rendered([view EXCEPT !.loading = FALSE]) ELSE view)
          ELSE AnsweredWith(r, Without(r),
                 Rendered([view EXCEPT !.got = TRUE, !.loading = FALSE, !.c = r.ans.c, !.s = r.ans.s]),
                 Slip(db, r.ans # Captured))
    BY DEF Loaded
  <1>2. r \in net /\ r.op = "get" /\ r.st # "sent" /\ page = "editor" BY DEF Waiting, Loaded, Here
  <1>3. view \in EditorView /\ view.ai.cur <= Len(view.ai.tries) /\ db \in EditorDb BY <1>2, Mounted
  <1>4. CASE ~r.here
    <2>1. PICK v : AnsweredWith(r, Without(r), v, db) BY <1>1, <1>4 DEF Resume, Answered
    <2>2. QED BY <1>2, <1>4, <2>1, GoesOn
  <1>5. CASE r.here /\ r.st # "ok"
    <2>1. PICK u : u = [view EXCEPT !.loading = FALSE] OBVIOUS
    <2>2. /\ u \in EditorView /\ u.got = view.got /\ u.c = view.c /\ u.s = view.s /\ u.ind = view.ind /\ u.dirty = view.dirty
          /\ u.saving = view.saving /\ u.timer = view.timer /\ u.pending = view.pending /\ u.confirm = view.confirm
          /\ ~u.loading /\ u.approving = view.approving /\ u.deleting = view.deleting /\ u.ai = view.ai
      BY <1>3, <2>1 DEF EditorView
    <2>3. PICK w : w = Rendered(u) OBVIOUS
    <2>4. /\ w \in EditorView /\ w.got = view.got /\ w.c = view.c /\ w.s = view.s /\ w.ind = view.ind /\ w.dirty = view.dirty
          /\ w.saving = view.saving /\ w.timer = view.timer /\ w.pending = view.pending /\ w.confirm = view.confirm
          /\ ~w.loading /\ w.approving = view.approving /\ w.deleting = view.deleting /\ w.ai = view.ai
      BY <2>2, <2>3, Renders
    <2>5. AnsweredWith(r, Without(r), w, db) BY <1>1, <1>5, <2>1, <2>3 DEF Resume, Answered
    <2>6. Own(net, view) /\ Busy(net, view) BY <1>2, Mounted
    <2>7. ~view.ai.loading /\ ~view.deleting BY <1>2, <1>5, <2>6 DEF Own, Busy, Awaits
    <2>8. QED BY <1>2, <1>3, <1>5, <2>4, <2>5, <2>7, Noted
  <1>6. CASE r.here /\ r.st = "ok"
    <2>1. PICK u : u = [view EXCEPT !.got = TRUE, !.loading = FALSE, !.c = r.ans.c, !.s = r.ans.s] OBVIOUS
    <2>2. PICK w : w = Rendered(u) OBVIOUS
    <2>3. PICK when \in BOOLEAN : when = (r.ans # Captured) OBVIOUS
    <2>4. AnsweredWith(r, Without(r), w, Slip(db, when)) BY <1>1, <1>6, <2>1, <2>2, <2>3
    <2>5. /\ page' = page /\ lost' = lost /\ net' = Without(r) /\ mixed' = (mixed \/ r.id > 1) /\ db' = Slip(db, when)
          /\ view' = w /\ EditorCall(r)
      BY <1>2, <1>6, <2>4, Taken
    <2>6. r.ans \in Rows BY <1>2, <1>6, <2>5 DEF EditorCall
    <2>7. Own(net, view) /\ Busy(net, view) /\ Gated(net, db) /\ Numbered(net) BY <1>2, Mounted
    <2>8. ~view.got /\ Blank(view) /\ \A q \in net : q.here => q.op \in {"get", "objectives"} BY <1>2, <1>6, <2>7 DEF Own
    <2>9. ~view.approving /\ ~view.deleting /\ ~view.ai.loading BY <2>7, <2>8 DEF Busy, Awaits
    <2>10. /\ u \in EditorView /\ u.got /\ u.c = r.ans.c /\ u.s = r.ans.s /\ ~u.dirty
           /\ ~u.saving /\ ~u.timer /\ ~u.pending /\ ~u.confirm
           /\ ~u.loading /\ u.approving = view.approving /\ u.deleting = view.deleting /\ u.ai = view.ai
      BY <1>3, <2>1, <2>6, <2>8 DEF EditorView, Rows, Blank
    <2>11. /\ w \in EditorView /\ w.got /\ w.c = r.ans.c /\ w.s = r.ans.s /\ ~w.dirty
           /\ ~w.saving /\ ~w.timer /\ ~w.pending /\ ~w.confirm
           /\ ~w.loading /\ w.approving = view.approving /\ w.deleting = view.deleting /\ w.ai = view.ai
      BY <2>2, <2>10, Renders
    <2>12. PICK e : e = db' OBVIOUS
    <2>13. /\ e \in EditorDb /\ e.slip = (db.slip \/ when) /\ e.row = db.row /\ e.queue = db.queue /\ e.approved = db.approved
      BY <1>3, <2>5, <2>12, Slips
    <2>14. Gated(net, e) BY <2>7, <2>13, GatedSlips
    <2>15. Told(w, e) BY <2>11 DEF Told
    <2>16. Hidden(w, e) BY <1>2, <1>6, <2>11, <2>14 DEF Hidden, Gated
    <2>17. w.got /\ ~mixed' /\ ~e.slip => Known(Without(r), w, e)
      <3> SUFFICES ASSUME ~mixed', ~e.slip PROVE Known(Without(r), w, e) OBVIOUS
      <3>1. Shape BY DEF EditorInv
      <3>2. \A q \in net : q # r => r.id < q.id BY <1>2, <2>5, <3>1, Oldest
      <3>3. \A q \in net : q.id \in Nat BY <2>7, Places
      <3>4. \A q \in net : q # r => q.here /\ q.op = "objectives" BY <1>2, <1>6, <2>7, <3>2, <3>3 DEF Own
      <3>5. PICK f : Carried(net, Without(r), {r}, f) BY <1>2, <2>7, WithoutCarried
      <3>6. \A x \in Without(r) : x.here /\ x.op = "objectives" BY <3>4, <3>5 DEF Carried, Same
      <3>7. Writes(Without(r), "save") = {} /\ Writes(Without(r), "approve") = {} BY <3>6 DEF Writes
      <3>8. Holds(e) = r.ans BY <2>3, <2>13 DEF Holds, Captured
      <3>9. Shows(w) = r.ans BY <2>6, <2>11 DEF Shows, Rows
      <3>10. QED BY <3>6, <3>7, <3>8, <3>9 DEF Known
    <2>18. w.ai.cur <= Len(w.ai.tries) BY <1>3, <2>11
    <2>19. QED BY <1>2, <1>6, <2>5, <2>8, <2>9, <2>11, <2>12, <2>13, <2>14, <2>15, <2>16, <2>17, <2>18, HereStep DEF Blank
  <1>7. QED BY <1>4, <1>5, <1>6

\* The objectives arrive.
LEMMA ObjectivesKept == ASSUME EditorInv, Objectives PROVE EditorInv'
  <1>1. PICK r \in Waiting("objectives") : Resume(r, IF r.here THEN Rendered(view) ELSE view) BY DEF Objectives
  <1>2. r \in net /\ r.op = "objectives" /\ page = "editor" BY DEF Waiting, Objectives, Here
  <1>3. view \in EditorView /\ view.ai.cur <= Len(view.ai.tries) BY <1>2, Mounted
  <1>4. CASE ~r.here
    <2>1. PICK v : AnsweredWith(r, Without(r), v, db) BY <1>1, <1>4 DEF Resume, Answered
    <2>2. QED BY <1>2, <1>4, <2>1, GoesOn
  <1>5. CASE r.here
    <2>1. PICK w : w = Rendered(view) OBVIOUS
    <2>2. /\ w \in EditorView /\ w.got = view.got /\ w.c = view.c /\ w.s = view.s /\ w.ind = view.ind /\ w.dirty = view.dirty
          /\ w.saving = view.saving /\ w.timer = view.timer /\ w.pending = view.pending /\ w.confirm = view.confirm
          /\ w.loading = view.loading /\ w.approving = view.approving /\ w.deleting = view.deleting /\ w.ai = view.ai
      BY <1>3, <2>1, Renders
    <2>3. AnsweredWith(r, Without(r), w, db) BY <1>1, <1>5, <2>1 DEF Resume, Answered
    <2>4. QED BY <1>2, <1>3, <1>5, <2>2, <2>3, Noted
  <1>6. QED BY <1>4, <1>5

\* What is known once the oldest request is taken, and it was a save, ...
LEMMA KnownSavedOnce == ASSUME Shape, NEW r \in net, ~(r.id > 1), r.op = "save", Own(net, view), Known(net, view, db)
  PROVE /\ Writes(Without(r), "save") = {} /\ \A q \in Without(r) : q.op # "draft" => q.here
        /\ \A a \in Writes(Without(r), "approve") : \E q \in Writes(net, "approve") : Same(a, q) /\ r.id < q.id
        /\ \A q \in Writes(net, "approve") : view.pending
  <1>1. Numbered(net) BY DEF Shape
  <1>2. PICK f : Carried(net, Without(r), {r}, f) BY <1>1, WithoutCarried
  <1>3. \A x \in Without(r) : f[x] \in net /\ f[x] # r /\ Same(x, f[x]) BY <1>2 DEF Carried
  <1>4. \A q \in net : q # r => r.id < q.id BY Oldest
  <1>5. \A q \in net : q # r => q.op # "save" BY DEF Own, Known
  <1>6. \A x \in Without(r) : x.op # "save" BY <1>3, <1>5 DEF Same
  <1>7. \A q \in Without(r) : q.op # "draft" => q.here BY <1>3 DEF Same, Known
  <1>8. \A a \in Writes(Without(r), "approve") : \E q \in Writes(net, "approve") : Same(a, q) /\ r.id < q.id
    BY <1>3, <1>4 DEF Writes, Same
  <1>9. \A q \in Writes(net, "approve") : view.pending
    <2> SUFFICES ASSUME NEW q \in Writes(net, "approve") PROVE view.pending OBVIOUS
    <2>1. q # r /\ q \in net BY DEF Writes
    <2>2. r \in Writes(net, "save") /\ r.id < q.id BY <1>4, <2>1 DEF Writes
    <2>3. QED BY <2>2 DEF Known
  <1>10. QED BY <1>6, <1>7, <1>8, <1>9 DEF Writes

\* A save is answered, and another may start.
LEMMA SavedKept == ASSUME EditorInv, Saved PROVE EditorInv'
  <1>1. PICK r \in Waiting("save") :
          LET d == IF NoResponse(r)
                   THEN Slip([db EXCEPT !.queue = Append(@, r.arg)],
                             \E q \in net : q.op = "approve" /\ q.id > r.id /\ q.st = "ok")
                   ELSE db
              v == IF r.here THEN Rendered(SaveEnded(view, r.st = "ok" \/ NoResponse(r))) ELSE view
          IN  AnsweredWith(r, Without(r), v, d)
    BY DEF Saved
  <1>2. r \in net /\ r.op = "save" /\ r.st # "sent" BY DEF Waiting
  <1>3. PICK when \in BOOLEAN : when = \E q \in net : q.op = "approve" /\ q.id > r.id /\ q.st = "ok" OBVIOUS
  <1>4. PICK more : more = [db EXCEPT !.queue = Append(@, r.arg)] OBVIOUS
  <1>5. PICK d : d = IF NoResponse(r) THEN Slip(more, when) ELSE db OBVIOUS
  <1>6. PICK ok \in BOOLEAN : ok = (r.st = "ok" \/ NoResponse(r)) BY DEF NoResponse
  <1>7. PICK w : w = Rendered(SaveEnded(view, ok)) OBVIOUS
  <1>8. AnsweredWith(r, Without(r), IF r.here THEN w ELSE view, d) BY <1>1, <1>3, <1>4, <1>5, <1>6, <1>7
  <1>9. /\ page' = page /\ lost' = lost /\ net' = Without(r) /\ mixed' = (mixed \/ r.id > 1) /\ db' = d
        /\ view' = IF r.here THEN w ELSE view
        /\ r.here => page = "editor"
        /\ EditorCall(r) /\ Gated(net, db)
    BY <1>2, <1>8, Taken
  <1>10. db \in EditorDb /\ r.arg \in Rows BY <1>2, <1>9 DEF EditorInv, Shape, EditorCall
  <1>11. /\ d \in EditorDb /\ d.row = db.row /\ d.approved = db.approved /\ (db.slip => d.slip)
         /\ NoResponse(r) => d.queue = Append(db.queue, r.arg) /\ d.slip = (db.slip \/ when)
         /\ ~NoResponse(r) => d = db
    <2>1. CASE ~NoResponse(r) BY <1>5, <1>10, <2>1
    <2>2. CASE NoResponse(r)
      <3>1. db.queue \in Seq(Rows) BY <1>10 DEF EditorDb
      <3>a. Append(db.queue, r.arg) \in Seq(Rows) BY <1>10, <3>1
      <3>2. PICK longer : longer \in Seq(Rows) /\ longer = Append(db.queue, r.arg) BY <3>a
      <3>3. more = [db EXCEPT !.queue = longer] BY <1>4, <1>10, <3>2 DEF EditorDb
      <3>4. more \in EditorDb /\ more.queue = longer /\ more.row = db.row /\ more.approved = db.approved /\ more.slip = db.slip
        <4>1. longer \in Seq(Rows) BY <3>2
        <4>2. more = [db EXCEPT !.queue = longer] /\ db \in EditorDb BY <1>10, <3>3
        <4> HIDE DEF Rows
        <4>3. QED BY ONLY <4>1, <4>2 DEF EditorDb
      <3>5. d = Slip(more, when) BY <1>5, <2>2
      <3>6. d \in EditorDb /\ d.slip = (more.slip \/ when) /\ d.row = more.row /\ d.queue = more.queue
            /\ d.approved = more.approved
        BY <3>4, <3>5, Slips
      <3>7. QED BY <2>2, <3>2, <3>4, <3>6
    <2>3. QED BY <2>1, <2>2
  <1>12. Gated(net, d)
    <2>1. CASE ~NoResponse(r) BY <1>9, <1>11, <2>1
    <2>2. CASE NoResponse(r)
      <3>1. db.queue \in Seq(Rows) BY <1>10 DEF EditorDb
      <3>2. \A i \in DOMAIN d.queue : (i \in DOMAIN db.queue /\ d.queue[i] = db.queue[i]) \/ d.queue[i] = r.arg
        BY <1>10, <1>11, <2>2, <3>1
      <3>3. QED BY <1>2, <1>9, <1>11, <3>2 DEF Gated
    <2>3. QED BY <2>1, <2>2
  <1>13. CASE ~r.here
    BY <1>2, <1>9, <1>11, <1>12, <1>13, OffStep
  <1>14. CASE r.here
    <2>1. page = "editor" /\ view' = w BY <1>9, <1>14
    <2>2. view \in EditorView /\ view.ai.cur <= Len(view.ai.tries) /\ Own(net, view) /\ Told(view, db) /\ Hidden(view, db)
      BY <2>1, Mounted
    <2>3. view.saving BY <1>2, <1>14, <2>2 DEF Own
    <2>4. view.got BY <1>2, <1>14, <2>2 DEF Own
    <2>5. PICK u : u = SaveEnded(view, ok) OBVIOUS
    <2>6. /\ u \in EditorView /\ u.got = view.got /\ u.c = view.c /\ u.s = view.s /\ ~u.saving /\ u.timer = view.timer
          /\ u.pending = view.pending /\ u.confirm = view.confirm /\ u.loading = view.loading
          /\ u.approving = view.approving /\ u.deleting = view.deleting /\ u.ai = view.ai
          /\ ok => u.dirty = view.dirty
          /\ ~ok => u.dirty /\ u.ind = "error"
      <3>1. CASE ok
        <4>1. view.fades \in Nat BY <2>2 DEF EditorView
        <4>2. PICK n \in Nat : n = view.fades + 1 BY <4>1
        <4>3. u = [view EXCEPT !.saving = FALSE, !.ind = "saved", !.fades = n] BY <2>5, <3>1, <4>2 DEF SaveEnded
        <4>4. QED BY <2>2, <3>1, <4>3 DEF EditorView
      <3>2. CASE ~ok
        <4>1. u = [view EXCEPT !.saving = FALSE, !.ind = "error", !.dirty = TRUE] BY <2>5, <3>2 DEF SaveEnded
        <4>2. QED BY <2>2, <3>2, <4>1 DEF EditorView
      <3>3. QED BY <3>1, <3>2
    <2>7. /\ w \in EditorView /\ w.got = view.got /\ w.c = view.c /\ w.s = view.s /\ ~w.saving /\ w.timer = view.timer
          /\ w.pending = view.pending /\ w.confirm = view.confirm /\ w.loading = view.loading
          /\ w.approving = view.approving /\ w.deleting = view.deleting /\ w.ai = view.ai
          /\ ok => w.dirty = view.dirty
          /\ ~ok => w.dirty /\ w.ind = "error"
      BY <1>7, <2>5, <2>6, Renders
    <2>8. Told(w, d) BY <1>11, <2>2, <2>3, <2>7 DEF Told
    <2>9. Hidden(w, d) BY <1>11, <2>2, <2>7 DEF Hidden
    <2>10. w.got /\ ~mixed' /\ ~d.slip => Known(Without(r), w, d)
      <3> SUFFICES ASSUME ~mixed', ~d.slip PROVE Known(Without(r), w, d) OBVIOUS
      <3>1. Shape /\ Known(net, view, db) /\ ~(r.id > 1) BY <1>9, <1>11, <2>1, <2>4, Mounted DEF EditorInv
      <3>2. /\ Writes(Without(r), "save") = {} /\ \A q \in Without(r) : q.op # "draft" => q.here
            /\ \A a \in Writes(Without(r), "approve") : \E q \in Writes(net, "approve") : Same(a, q) /\ r.id < q.id
            /\ \A q \in Writes(net, "approve") : view.pending
        BY <1>2, <2>2, <3>1, KnownSavedOnce
      <3>3. w.pending => \A a \in Writes(Without(r), "approve") :
              a.arg = Shows(w) /\ (a.st = "ok" => d.queue = <<>> /\ d.row = Shows(w))
        <4> SUFFICES ASSUME w.pending, NEW a \in Writes(Without(r), "approve")
                     PROVE  a.arg = Shows(w) /\ (a.st = "ok" => d.queue = <<>> /\ d.row = Shows(w))
          OBVIOUS
        <4>1. PICK q \in Writes(net, "approve") : Same(a, q) /\ r.id < q.id BY <3>2
        <4>2. q.arg = Shows(view) /\ (q.st = "ok" => db.queue = <<>> /\ db.row = Shows(view)) BY <2>7, <3>1 DEF Known
        <4>3. Shows(w) = Shows(view) BY <2>7 DEF Shows
        <4>4. NoResponse(r) => q.st # "ok"
          <5>1. NoResponse(r) => ~when BY <1>11
          <5>2. q \in net /\ q.op = "approve" BY DEF Writes
          <5>3. r.id \in Nat /\ q.id \in Nat BY <1>2, <2>1, <5>2, Mounted, Places
          <5>4. q.id > r.id BY <4>1, <5>3
          <5>5. QED BY <1>3, <5>1, <5>2, <5>4
        <4>5. QED BY <1>11, <4>1, <4>2, <4>3, <4>4 DEF Same
      <3>4. ~w.pending /\ ~w.dirty =>
              Holds(d) = Shows(w) /\ \A a \in Writes(Without(r), "approve") : a.arg = Shows(w)
        <4> SUFFICES ASSUME ~w.pending, ~w.dirty
                     PROVE  Holds(d) = Shows(w) /\ \A a \in Writes(Without(r), "approve") : a.arg = Shows(w)
          OBVIOUS
        <4>1. Writes(net, "approve") = {} BY <2>7, <3>2
        <4>2. ok /\ ~view.dirty BY <2>7
        <4>3. Shows(w) = Shows(view) BY <2>7 DEF Shows
        <4>4. r \in Writes(net, "save") BY <1>2 DEF Writes
        <4>5. r.arg = Shows(view) BY <2>7, <3>1, <4>2, <4>4 DEF Known
        <4>6. CASE NoResponse(r)
          <5>1. db.queue \in Seq(Rows) BY <1>10 DEF EditorDb
          <5>2. PICK longer \in Seq(Rows) : longer = d.queue BY <1>11 DEF EditorDb
          <5>3. longer # <<>> /\ longer[Len(longer)] = r.arg BY <1>10, <1>11, <4>6, <5>1, <5>2
          <5>4. Holds(d) = r.arg BY <5>2, <5>3 DEF Holds, Last
          <5>5. QED BY <3>2, <4>1, <4>3, <4>5, <5>4
        <4>7. CASE ~NoResponse(r)
          <5>1. r.st = "ok" BY <1>6, <4>2, <4>7
          <5>2. d.queue = <<>> /\ d.row = r.arg BY <1>11, <3>1, <4>1, <4>4, <4>7, <5>1 DEF Known
          <5>3. Holds(d) = r.arg BY <5>2 DEF Holds
          <5>4. QED BY <3>2, <4>1, <4>3, <4>5, <5>3
        <4>8. QED BY <4>6, <4>7
      <3>5. QED BY <3>2, <3>3, <3>4 DEF Known
    <2>11. w.ai.cur <= Len(w.ai.tries) BY <2>2, <2>7
    <2>12. Busy(net, view) BY <2>1, Mounted
    <2>13. QED BY <1>2, <1>9, <1>11, <1>12, <1>14, <2>1, <2>2, <2>3, <2>4, <2>7, <2>8, <2>9, <2>10, <2>11, HereStep
  <1>15. QED BY <1>13, <1>14

\* ... and when it was an approval: no save was older.
LEMMA KnownApprovedOnce == ASSUME Shape, NEW r \in net, ~(r.id > 1), r.op = "approve", Known(net, view, db),
    NEW w, w.c = view.c, w.s = view.s, w.dirty = view.dirty, w.pending = (view.pending /\ r.st # "ok")
  PROVE Known(Without(r), w, db)
  <1> DEFINE more == Without(r)
  <1>1. Numbered(net) BY DEF Shape
  <1>2. PICK f : Carried(net, Without(r), {r}, f) BY <1>1, WithoutCarried
  <1>3. \A x \in more : f[x] \in net /\ f[x] # r /\ Same(x, f[x]) BY <1>2 DEF Carried
  <1>4. \A q \in net : q # r => \E x \in more : f[x] = q BY <1>2 DEF Carried
  <1>5. \A x, y \in more : x.id < y.id <=> f[x].id < f[y].id BY <1>2 DEF Carried
  <1>6. \A q \in net : q # r => r.id < q.id BY Oldest
  <1>7. \A q \in net : q.id \in Nat BY <1>1, Places
  <1> HIDE DEF more
  <1>8. r \in Writes(net, "approve") BY DEF Writes
  <1>9. \A s \in Writes(net, "save") : ~view.pending
    <2>1. \A s \in Writes(net, "save") : ~(s.id < r.id) BY <1>6, <1>7 DEF Writes
    <2>2. QED BY <1>8, <2>1 DEF Known
  <1>10. \A s \in Writes(more, "save") : f[s] \in Writes(net, "save") /\ f[s].arg = s.arg /\ f[s].st = s.st
    BY <1>3 DEF Writes, Same
  <1>11. \A a \in Writes(more, "approve") : f[a] \in Writes(net, "approve") /\ f[a].arg = a.arg /\ f[a].st = a.st
    BY <1>3 DEF Writes, Same
  <1>12. Shows(w) = Shows(view) BY DEF Shows
  <1>13. \A q \in more : q.op # "draft" => q.here BY <1>3 DEF Same, Known
  <1>14. \A s \in Writes(more, "save"), a \in Writes(more, "approve") : w.pending <=> s.id < a.id
    <2> SUFFICES ASSUME NEW s \in Writes(more, "save"), NEW a \in Writes(more, "approve") PROVE w.pending <=> s.id < a.id
      OBVIOUS
    <2>1. ~view.pending /\ ~w.pending BY <1>9, <1>10
    <2>2. ~(f[s].id < f[a].id) BY <1>10, <1>11, <2>1 DEF Known
    <2>3. ~(s.id < a.id) BY <1>5, <2>2 DEF Writes
    <2>4. QED BY <2>1, <2>3
  <1>15. \A s \in Writes(more, "save") :
           s.st = "ok" /\ (\A a \in Writes(more, "approve") : a.id < s.id \/ a.st = "sent") => db.queue = <<>> /\ db.row = s.arg
    <2> SUFFICES ASSUME NEW s \in Writes(more, "save"), s.st = "ok", \A a \in Writes(more, "approve") : a.id < s.id \/ a.st = "sent"
                 PROVE  db.queue = <<>> /\ db.row = s.arg
      OBVIOUS
    <2>1. f[s] \in Writes(net, "save") /\ f[s].st = "ok" /\ f[s].arg = s.arg BY <1>10
    <2>2. \A q \in Writes(net, "approve") : q.id < f[s].id \/ q.st = "sent"
      <3> SUFFICES ASSUME NEW q \in Writes(net, "approve") PROVE q.id < f[s].id \/ q.st = "sent" OBVIOUS
      <3>1. CASE q = r
        <4>1. f[s] \in net /\ f[s] # r BY <1>3 DEF Writes
        <4>2. QED BY <1>6, <3>1, <4>1
      <3>2. CASE q # r
        <4>1. PICK a \in more : f[a] = q BY <1>4, <3>2 DEF Writes
        <4>2. a \in Writes(more, "approve") /\ a.st = q.st BY <1>3, <4>1 DEF Writes, Same
        <4>3. QED BY <1>5, <4>1, <4>2 DEF Writes
      <3>3. QED BY <3>1, <3>2
    <2>3. QED BY <2>1, <2>2 DEF Known
  <1>16. w.pending => \A a \in Writes(more, "approve") :
           a.arg = Shows(w) /\ (a.st = "ok" => db.queue = <<>> /\ db.row = Shows(w))
    <2>1. w.pending => view.pending OBVIOUS
    <2>2. view.pending => \A a \in Writes(net, "approve") :
            a.arg = Shows(view) /\ (a.st = "ok" => db.queue = <<>> /\ db.row = Shows(view))
      BY DEF Known
    <2>3. QED BY <1>11, <1>12, <2>1, <2>2
  <1>17. ~w.pending /\ ~w.dirty =>
           /\ \A s \in Writes(more, "save") : s.arg = Shows(w)
           /\ Writes(more, "save") = {} =>
                Holds(db) = Shows(w) /\ \A a \in Writes(more, "approve") : a.arg = Shows(w)
    <2> SUFFICES ASSUME ~w.pending, ~w.dirty
                 PROVE  /\ \A s \in Writes(more, "save") : s.arg = Shows(w)
                        /\ Writes(more, "save") = {} =>
                             Holds(db) = Shows(w) /\ \A a \in Writes(more, "approve") : a.arg = Shows(w)
      OBVIOUS
    <2>1. CASE view.pending
      <3>1. Writes(more, "save") = {} BY <1>9, <1>10, <2>1
      <3>2. r.st = "ok" BY <2>1
      <3>3. db.queue = <<>> /\ db.row = Shows(view) BY <1>8, <2>1, <3>2 DEF Known
      <3>4. Holds(db) = Shows(w) BY <1>12, <3>3 DEF Holds
      <3>5. \A a \in Writes(more, "approve") : a.arg = Shows(w) BY <1>11, <1>12, <2>1 DEF Known
      <3>6. QED BY <3>1, <3>4, <3>5
    <2>2. CASE ~view.pending
      <3>1. \A s \in Writes(more, "save") : s.arg = Shows(w) BY <1>10, <1>12, <2>2 DEF Known
      <3>2. Writes(more, "save") = {} => Writes(net, "save") = {}
        <4>1. \A q \in Writes(net, "save") : q \in net /\ q # r /\ q.op = "save" BY DEF Writes
        <4>2. \A q \in Writes(net, "save") : \E x \in more : f[x] = q /\ x.op = "save" BY <1>3, <1>4, <4>1 DEF Same
        <4>3. QED BY <4>2 DEF Writes
      <3>3. QED BY <1>11, <1>12, <2>2, <3>1, <3>2 DEF Known
    <2>3. QED BY <2>1, <2>2
  <1>18. Known(more, w, db) BY <1>13, <1>14, <1>15, <1>16, <1>17 DEF Known
  <1>19. QED BY <1>18 DEF more

\* An approval is answered.
LEMMA ApprovedKept ==
  ASSUME EditorInv, NEW r \in Waiting("approve"),
         LET done == r.st = "ok"
         IN  AnsweredWith(r, Without(r),
               IF ~r.here THEN view
               ELSE IF done THEN Rendered([view EXCEPT !.approving = FALSE, !.pending = FALSE, !.pre = None])
               ELSE Rendered([view EXCEPT !.approving = FALSE]), db)
  PROVE  EditorInv'
  <1>2. r \in net /\ r.op = "approve" /\ r.st # "sent" BY DEF Waiting
  <1>3. CASE ~r.here
    <2>1. PICK v : AnsweredWith(r, Without(r), v, db) BY <1>3
    <2>2. QED BY <1>2, <1>3, <2>1, GoesOn
  <1>4. CASE r.here
    <2>1. PICK u : u = IF r.st = "ok" THEN [view EXCEPT !.approving = FALSE, !.pending = FALSE, !.pre = None]
                       ELSE [view EXCEPT !.approving = FALSE]
      OBVIOUS
    <2>2. PICK w : w = Rendered(u) OBVIOUS
    <2>3. AnsweredWith(r, Without(r), w, db) BY <1>4, <2>1, <2>2
    <2>4. /\ page' = page /\ lost' = lost /\ net' = Without(r) /\ mixed' = (mixed \/ r.id > 1) /\ db' = db
          /\ view' = w /\ page = "editor" /\ Gated(net, db)
      BY <1>2, <1>4, <2>3, Taken
    <2>5. /\ view \in EditorView /\ view.ai.cur <= Len(view.ai.tries) /\ Own(net, view) /\ Told(view, db)
          /\ Hidden(view, db) /\ db \in EditorDb
      BY <2>4, Mounted
    <2>6. /\ u \in EditorView /\ u.got = view.got /\ u.c = view.c /\ u.s = view.s /\ u.ind = view.ind /\ u.dirty = view.dirty
          /\ u.saving = view.saving /\ u.timer = view.timer /\ u.confirm = view.confirm /\ u.loading = view.loading
          /\ u.pending = (view.pending /\ r.st # "ok") /\ ~u.approving /\ u.deleting = view.deleting /\ u.ai = view.ai
      <3>1. CASE r.st = "ok"
        <4>1. u = [view EXCEPT !.approving = FALSE, !.pending = FALSE, !.pre = None] BY <2>1, <3>1
        <4>2. QED BY <2>5, <3>1, <4>1 DEF EditorView, Texts
      <3>2. CASE r.st # "ok"
        <4>1. u = [view EXCEPT !.approving = FALSE] BY <2>1, <3>2
        <4>2. QED BY <2>5, <3>2, <4>1 DEF EditorView
      <3>3. QED BY <3>1, <3>2
    <2>7. /\ w \in EditorView /\ w.got = view.got /\ w.c = view.c /\ w.s = view.s /\ w.ind = view.ind /\ w.dirty = view.dirty
          /\ w.saving = view.saving /\ w.timer = view.timer /\ w.confirm = view.confirm /\ w.loading = view.loading
          /\ w.pending = (view.pending /\ r.st # "ok") /\ ~w.approving /\ w.deleting = view.deleting /\ w.ai = view.ai
      BY <2>2, <2>6, Renders
    <2>8. view.got BY <1>2, <1>4, <2>5 DEF Own
    <2>9. Told(w, db) BY <2>5, <2>7 DEF Told
    <2>10. r.st = "ok" => db.approved BY <1>2, <2>4 DEF Gated
    <2>11. Hidden(w, db) BY <2>5, <2>7, <2>10 DEF Hidden
    <2>12. w.got /\ ~mixed' /\ ~db.slip => Known(Without(r), w, db)
      <3> SUFFICES ASSUME ~mixed', ~db.slip PROVE Known(Without(r), w, db) OBVIOUS
      <3>1. Shape /\ Known(net, view, db) /\ ~(r.id > 1) BY <2>4, <2>8, Mounted DEF EditorInv
      <3>2. QED BY <1>2, <2>7, <3>1, KnownApprovedOnce
    <2>13. w.ai.cur <= Len(w.ai.tries) BY <2>5, <2>7
    <2>14. QED BY <1>2, <1>4, <2>4, <2>5, <2>7, <2>8, <2>9, <2>11, <2>12, <2>13, HereStep
  <1>5. QED BY <1>3, <1>4

\* A draft has been written.
LEMMA DraftedKept ==
  ASSUME EditorInv, NEW r \in Waiting("draft"), Resume(r, IF r.here THEN [view EXCEPT !.ai = WithDraft(@, r)] ELSE view)
  PROVE  EditorInv'
  <1>2. r \in net /\ r.op = "draft" /\ r.st # "sent" BY DEF Waiting
  <1>3. CASE ~r.here
    <2>1. PICK v : AnsweredWith(r, Without(r), v, db) BY <1>3 DEF Resume, Answered
    <2>2. QED BY <1>2, <1>3, <2>1, GoesOn
  <1>4. CASE r.here
    <2>1. PICK ai : ai = WithDraft(view.ai, r) OBVIOUS
    <2>2. PICK w : w = [view EXCEPT !.ai = ai] OBVIOUS
    <2>3. page = "editor" /\ EditorCall(r) BY <1>2, <1>4 DEF EditorInv, Shape
    <2>4. view \in EditorView /\ view.ai.cur <= Len(view.ai.tries) BY <2>3, Mounted
    <2>5. AnsweredWith(r, Without(r), w, db) BY <1>4, <2>1, <2>2, <2>4 DEF Resume, Answered, EditorView
    <2>6. ai \in Panels /\ ~ai.loading /\ ai.cur <= Len(ai.tries)
      <3>1. view.ai \in Panels BY <2>4 DEF EditorView
      <3>2. view.ai.tries \in Seq(Drafts) BY <3>1 DEF Panels
      <3>3. CASE r.st = "ok"
        <4>1. r.ans \in Drafts BY <1>2, <2>3, <3>3 DEF EditorCall
        <4>a. Append(view.ai.tries, r.ans) \in Seq(Drafts) /\ Len(Append(view.ai.tries, r.ans)) = Len(view.ai.tries) + 1
          BY <3>2, <4>1
        <4>2. PICK tries : tries \in Seq(Drafts) /\ tries = Append(view.ai.tries, r.ans) BY <4>a
        <4>3. PICK n \in Nat : n = Len(view.ai.tries) + 1 BY <3>2
        <4>4. Len(tries) = n BY <4>a, <4>2, <4>3
        <4>5. ai = [view.ai EXCEPT !.loading = FALSE, !.tries = tries, !.cur = n]
          BY <2>1, <3>3, <4>2, <4>3 DEF WithDraft
        <4>6. tries \in Seq(Drafts) BY <4>2
        <4>7. ai \in Panels /\ ~ai.loading /\ ai.cur = n /\ ai.tries = tries BY ONLY <3>1, <4>3, <4>5, <4>6 DEF Panels
        <4>8. QED BY <4>4, <4>7
      <3>4. CASE r.st # "ok"
        <4>1. ai = [view.ai EXCEPT !.loading = FALSE] BY <2>1, <3>4 DEF WithDraft
        <4>2. ai \in Panels /\ ~ai.loading /\ ai.cur = view.ai.cur /\ ai.tries = view.ai.tries BY <3>1, <4>1 DEF Panels
        <4>3. QED BY <2>4, <4>2
      <3>5. QED BY <3>3, <3>4
    <2>7. /\ w \in EditorView /\ w.got = view.got /\ w.c = view.c /\ w.s = view.s /\ w.ind = view.ind /\ w.dirty = view.dirty
          /\ w.saving = view.saving /\ w.timer = view.timer /\ w.pending = view.pending /\ w.confirm = view.confirm
          /\ w.loading = view.loading /\ w.approving = view.approving /\ w.deleting = view.deleting /\ w.ai = ai
      BY <2>2, <2>4, <2>6 DEF EditorView
    <2>8. QED BY <1>2, <1>4, <2>5, <2>6, <2>7, Noted
  <1>5. QED BY <1>3, <1>4

\* A change of status is answered.
LEMMA PatchedKept ==
  ASSUME EditorInv, NEW r \in Waiting("patch"),
         LET v == IF r.here /\ r.st = "ok" THEN Rendered([view EXCEPT !.s = r.ans.s]) ELSE view
         IN  AnsweredWith(r, Without(r), v, Slip(db, r.here /\ v.s # view.s))
  PROVE  EditorInv'
  <1>2. r \in net /\ r.op = "patch" /\ r.st # "sent" BY DEF Waiting
  <1>3. db \in EditorDb /\ EditorCall(r) BY <1>2 DEF EditorInv, Shape
  <1>4. CASE ~r.here
    <2>1. PICK v : AnsweredWith(r, Without(r), v, Slip(db, FALSE)) BY <1>4
    <2>2. Slip(db, FALSE) = db BY <1>3 DEF Slip, EditorDb
    <2>3. QED BY <1>2, <1>4, <2>1, <2>2, GoesOn
  <1>5. CASE r.here
    <2>1. PICK u : u = IF r.st = "ok" THEN [view EXCEPT !.s = r.ans.s] ELSE view OBVIOUS
    <2>2. PICK w : w = IF r.st = "ok" THEN Rendered(u) ELSE u OBVIOUS
    <2>3. PICK when \in BOOLEAN : when = (w.s # view.s) OBVIOUS
    <2>4. AnsweredWith(r, Without(r), w, Slip(db, when)) BY <1>5, <2>1, <2>2, <2>3
    <2>5. /\ page' = page /\ lost' = lost /\ net' = Without(r) /\ mixed' = (mixed \/ r.id > 1) /\ db' = Slip(db, when)
          /\ view' = w /\ page = "editor" /\ Gated(net, db)
      BY <1>2, <1>5, <2>4, Taken
    <2>6. /\ view \in EditorView /\ view.ai.cur <= Len(view.ai.tries) /\ Own(net, view) /\ Told(view, db)
          /\ Hidden(view, db) /\ Numbered(net)
      BY <2>5, Mounted
    <2>7. /\ u \in EditorView /\ u.got = view.got /\ u.c = view.c /\ u.ind = view.ind /\ u.dirty = view.dirty
          /\ u.saving = view.saving /\ u.timer = view.timer /\ u.confirm = view.confirm /\ u.loading = view.loading
          /\ u.pending = view.pending /\ u.approving = view.approving /\ u.deleting = view.deleting /\ u.ai = view.ai
      <3>1. CASE r.st = "ok"
        <4>1. r.ans.s \in States BY <1>2, <1>3, <3>1 DEF EditorCall, Rows
        <4>2. u = [view EXCEPT !.s = r.ans.s] BY <2>1, <3>1
        <4>3. QED BY <2>6, <4>1, <4>2 DEF EditorView
      <3>2. CASE r.st # "ok" BY <2>1, <2>6, <3>2
      <3>3. QED BY <3>1, <3>2
    <2>8. /\ w \in EditorView /\ w.got = view.got /\ w.c = view.c /\ w.ind = view.ind /\ w.dirty = view.dirty
          /\ w.saving = view.saving /\ w.timer = view.timer /\ w.confirm = view.confirm /\ w.loading = view.loading
          /\ w.pending = view.pending /\ w.approving = view.approving /\ w.deleting = view.deleting /\ w.ai = view.ai
      <3>1. w = u \/ w = Rendered(u) BY <2>2
      <3>2. QED BY <2>7, <3>1, Renders
    <2>9. PICK e : e = db' OBVIOUS
    <2>10. /\ e \in EditorDb /\ e.slip = (db.slip \/ when) /\ e.row = db.row /\ e.queue = db.queue /\ e.approved = db.approved
      BY <1>3, <2>5, <2>9, Slips
    <2>11. Gated(net, e) BY <2>5, <2>10, GatedSlips
    <2>12. Told(w, e) /\ Hidden(w, e) BY <2>6, <2>8, <2>10 DEF Told, Hidden
    <2>13. view.got BY <1>2, <1>5, <2>6 DEF Own
    <2>14. w.got /\ ~mixed' /\ ~e.slip => Known(Without(r), w, e)
      <3> SUFFICES ASSUME ~mixed', ~e.slip PROVE Known(Without(r), w, e) OBVIOUS
      <3>1. Known(net, view, db) BY <2>5, <2>10, <2>13, Mounted
      <3>2. PICK f : Carried(net, Without(r), {r}, f) BY <1>2, <2>6, WithoutCarried
      <3>3. \A q \in {r} : q.op \notin {"save", "approve"} BY <1>2
      <3>4. Known(Without(r), view, db) BY <3>1, <3>2, <3>3, KnownCarried
      <3>5. w.s = view.s BY <2>3, <2>10
      <3>6. QED BY <2>8, <2>10, <3>4, <3>5, KnownShown
    <2>15. w.ai.cur <= Len(w.ai.tries) BY <2>6, <2>8
    <2>16. QED BY <1>2, <1>5, <2>5, <2>8, <2>9, <2>10, <2>11, <2>12, <2>13, <2>14, <2>15, HereStep
  <1>6. QED BY <1>4, <1>5

\* A deletion is refused.
LEMMA NotDeletedKept ==
  ASSUME EditorInv, NEW r \in Waiting("delete"), Resume(r, IF r.here THEN Rendered([view EXCEPT !.deleting = FALSE]) ELSE view)
  PROVE  EditorInv'
  <1>2. r \in net /\ r.op = "delete" /\ r.st # "sent" BY DEF Waiting
  <1>3. CASE ~r.here
    <2>1. PICK v : AnsweredWith(r, Without(r), v, db) BY <1>3 DEF Resume, Answered
    <2>2. QED BY <1>2, <1>3, <2>1, GoesOn
  <1>4. CASE r.here
    <2>1. page = "editor" BY <1>2, <1>4 DEF EditorInv, Shape
    <2>2. view \in EditorView /\ view.ai.cur <= Len(view.ai.tries) BY <2>1, Mounted
    <2>3. PICK u : u = [view EXCEPT !.deleting = FALSE] OBVIOUS
    <2>4. /\ u \in EditorView /\ u.got = view.got /\ u.c = view.c /\ u.s = view.s /\ u.ind = view.ind /\ u.dirty = view.dirty
          /\ u.saving = view.saving /\ u.timer = view.timer /\ u.pending = view.pending /\ u.confirm = view.confirm
          /\ u.loading = view.loading /\ u.approving = view.approving /\ ~u.deleting /\ u.ai = view.ai
      BY <2>2, <2>3 DEF EditorView
    <2>5. PICK w : w = Rendered(u) OBVIOUS
    <2>6. /\ w \in EditorView /\ w.got = view.got /\ w.c = view.c /\ w.s = view.s /\ w.ind = view.ind /\ w.dirty = view.dirty
          /\ w.saving = view.saving /\ w.timer = view.timer /\ w.pending = view.pending /\ w.confirm = view.confirm
          /\ w.loading = view.loading /\ w.approving = view.approving /\ ~w.deleting /\ w.ai = view.ai
      BY <2>4, <2>5, Renders
    <2>7. AnsweredWith(r, Without(r), w, db) BY <1>4, <2>3, <2>5 DEF Resume, Answered
    <2>8. QED BY <1>2, <1>4, <2>2, <2>6, <2>7, Noted
  <1>5. QED BY <1>3, <1>4

\* An answer for a page that is left.
LEMMA GoneKept == ASSUME EditorInv, NEW r \in net, page = "away", NEW v, Resume(r, v) PROVE EditorInv'
  <1>1. ~r.here BY DEF EditorInv, Shape
  <1>2. AnsweredWith(r, Without(r), v, db) BY DEF Resume, Answered
  <1>3. QED BY <1>1, <1>2, GoesOn

-----------------------------------------------------------------------------
(* The page is opened and left, and its panel closed. *)

\* The requests are no longer those of what has been closed.
LEMMA LeftBehind == ASSUME EditorInv, NEW f, DOMAIN f = net,
    \A q \in net : IsRequest(f[q]) /\ f[q].here \in BOOLEAN /\ f[q].id = q.id /\ f[q].op = q.op /\ f[q].arg = q.arg
                   /\ f[q].st = q.st /\ f[q].ans = q.ans
  PROVE /\ Numbered({f[q] : q \in net}) /\ \A c \in {f[q] : q \in net} : EditorCall(c)
        /\ Gated({f[q] : q \in net}, db)
        /\ ~mixed => Ordered({f[q] : q \in net})
  <1>1. Numbered(net) BY DEF EditorInv, Shape
  <1>2. PICK calls : calls = {f[q] : q \in net} OBVIOUS
  <1>3. \A c \in calls : \E q \in net : c = f[q] BY <1>2
  <1>4. Numbered(calls) BY <1>1, <1>2, MarkedNumbered
  <1>5. \A c \in calls : \E q \in net : c.op = q.op /\ c.arg = q.arg /\ c.st = q.st /\ c.ans = q.ans BY <1>3
  <1>6. \A c \in calls : c.here \in BOOLEAN BY <1>3
  <1>7. (\A c \in calls : EditorCall(c)) /\ Gated(calls, db) BY <1>4, <1>5, <1>6, LeftStep
  <1>8. ~mixed => Ordered(calls) BY <1>3 DEF EditorInv, Ordered
  <1>9. QED BY <1>2, <1>4, <1>7, <1>8

\* What is in flight when the page is left is nobody's.
LEMMA Aside == ASSUME EditorInv
  PROVE \A q \in net : LET x == [q EXCEPT !.here = FALSE] IN
          IsRequest(x) /\ x.here = FALSE /\ x.id = q.id /\ x.op = q.op /\ x.arg = q.arg /\ x.st = q.st /\ x.ans = q.ans
  <1> SUFFICES ASSUME NEW q \in net, NEW x, x = [q EXCEPT !.here = FALSE]
               PROVE  IsRequest(x) /\ x.here = FALSE /\ x.id = q.id /\ x.op = q.op /\ x.arg = q.arg /\ x.st = q.st /\ x.ans = q.ans
    OBVIOUS
  <1>1. q = [id |-> q.id, op |-> q.op, arg |-> q.arg, st |-> q.st, ans |-> q.ans, here |-> q.here]
    BY DEF EditorInv, Shape, EditorCall, IsRequest
  <1>2. x.here = FALSE /\ x.id = q.id /\ x.op = q.op /\ x.arg = q.arg /\ x.st = q.st /\ x.ans = q.ans BY <1>1
  <1>3. x = [id |-> x.id, op |-> x.op, arg |-> x.arg, st |-> x.st, ans |-> x.ans, here |-> x.here] BY <1>1
  <1>4. QED BY <1>2, <1>3 DEF IsRequest

\* Nothing is asked of a page that is not there.
LEMMA AwayStep == ASSUME EditorInv, page' = "away", db' = db, lost' = lost, mixed' \in BOOLEAN, Numbered(net'),
    \A c \in net' : EditorCall(c) /\ ~c.here, Gated(net', db), ~mixed' => Ordered(net')
  PROVE EditorInv'
  <1>1. db \in EditorDb /\ lost \in Nat BY DEF EditorInv, Shape
  <1>2. Shape' BY <1>1 DEF Shape
  <1>3. QED BY <1>2 DEF EditorInv

\* The page is left.
LEMMA LeaveKept == ASSUME EditorInv, Leave PROVE EditorInv'
  <1>1. PICK f : f = [q \in net |-> [q EXCEPT !.here = FALSE]] OBVIOUS
  <1>2. \A q \in net : IsRequest(f[q]) /\ f[q].here = FALSE /\ f[q].id = q.id /\ f[q].op = q.op /\ f[q].arg = q.arg
                       /\ f[q].st = q.st /\ f[q].ans = q.ans
    BY <1>1, Aside
  <1>3. DOMAIN f = net BY <1>1
  <1>4. net' = {f[q] : q \in net} BY <1>1 DEF Leave
  <1>5. /\ Numbered(net') /\ (\A c \in net' : EditorCall(c)) /\ Gated(net', db) /\ (~mixed => Ordered(net'))
    BY <1>2, <1>3, <1>4, LeftBehind
  <1>6. \A c \in net' : ~c.here BY <1>2, <1>4
  <1>7. page' = "away" /\ db' = db /\ lost' = lost /\ mixed' = mixed /\ mixed \in BOOLEAN BY DEF Leave, EditorInv, Shape
  <1>8. QED BY <1>5, <1>6, <1>7, AwayStep

\* The activity is gone, and the page with it.
LEMMA DeletedKept ==
  ASSUME EditorInv, NEW r \in Waiting("delete"), page' = "away", net' = {[q EXCEPT !.here = FALSE] : q \in Without(r)},
         mixed' = (mixed \/ r.id > 1), db' = db, lost' = lost
  PROVE  EditorInv'
  <1>1. r \in net BY DEF Waiting
  <1>2. Shape /\ Numbered(net) /\ Gated(net, db) /\ (~mixed => Ordered(net)) BY DEF EditorInv, Shape
  <1>3. /\ Numbered(Without(r)) /\ \A c \in Without(r) : EditorCall(c) BY <1>1, <1>2, WithoutShape
  <1>4. PICK g : Carried(net, Without(r), {r}, g) BY <1>1, <1>2, WithoutCarried
  <1>5. Gated(Without(r), db) /\ (~mixed => Ordered(Without(r))) BY <1>2, <1>4, GatedCarried, OrderedCarried
  <1>6. PICK more : more = Without(r) OBVIOUS
  <1>7. PICK f : f = [q \in more |-> [q EXCEPT !.here = FALSE]] OBVIOUS
  <1>8. \A q \in more : /\ IsRequest(f[q]) /\ f[q].here = FALSE /\ f[q].id = q.id /\ f[q].op = q.op /\ f[q].arg = q.arg
                        /\ f[q].st = q.st /\ f[q].ans = q.ans
    <2> SUFFICES ASSUME NEW q \in more, NEW x, x = [q EXCEPT !.here = FALSE]
                 PROVE  IsRequest(x) /\ x.here = FALSE /\ x.id = q.id /\ x.op = q.op /\ x.arg = q.arg /\ x.st = q.st /\ x.ans = q.ans
      BY <1>7
    <2>1. q = [id |-> q.id, op |-> q.op, arg |-> q.arg, st |-> q.st, ans |-> q.ans, here |-> q.here]
      BY <1>3, <1>6 DEF EditorCall, IsRequest
    <2>2. x.here = FALSE /\ x.id = q.id /\ x.op = q.op /\ x.arg = q.arg /\ x.st = q.st /\ x.ans = q.ans BY <2>1
    <2>3. x = [id |-> x.id, op |-> x.op, arg |-> x.arg, st |-> x.st, ans |-> x.ans, here |-> x.here] BY <2>1
    <2>4. QED BY <2>2, <2>3 DEF IsRequest
  <1>9. net' = {f[q] : q \in more} /\ DOMAIN f = more BY <1>6, <1>7
  <1>10. \A c \in net' : \E q \in more : c = f[q] BY <1>9
  <1>11. Numbered(net') BY <1>3, <1>6, <1>8, <1>9, MarkedNumbered
  <1>12. \A c \in net' : EditorCall(c) /\ ~c.here
    <2> SUFFICES ASSUME NEW c \in net' PROVE EditorCall(c) /\ ~c.here OBVIOUS
    <2>1. PICK q \in more : c = f[q] BY <1>10
    <2>2. EditorCall(q) BY <1>3, <1>6
    <2>3. QED BY <1>8, <2>1, <2>2 DEF EditorCall
  <1>13. Gated(net', db)
    <2>1. \A c \in net' : \E q \in more : c.op = q.op /\ c.arg = q.arg /\ c.st = q.st /\ c.ans = q.ans BY <1>8, <1>10
    <2>2. QED BY <1>5, <1>6, <2>1 DEF Gated
  <1>14. ~mixed' => Ordered(net')
    <2>1. \A c \in net' : \E q \in more : c.id = q.id /\ c.st = q.st BY <1>8, <1>10
    <2>2. ~mixed' => Ordered(more) BY <1>5, <1>6
    <2>3. QED BY <2>1, <2>2 DEF Ordered
  <1>15. mixed' \in BOOLEAN BY <1>2 DEF Shape
  <1>16. QED BY <1>11, <1>12, <1>13, <1>14, <1>15, AwayStep

\* The panel is closed, and its drafts come for nobody.
LEMMA PanelCloses ==
  ASSUME EditorInv, Usable, Gesture, view' = Rendered([view EXCEPT !.ai = NoAi]),
         net' = {IF r.op = "draft" THEN [r EXCEPT !.here = FALSE] ELSE r : r \in net},
         UNCHANGED <<page, db, lost, mixed>>
  PROVE  EditorInv'
  <1>1. page = "editor" /\ view.got BY DEF Usable, InUse, Here
  <1>2. PICK f : f = [q \in net |-> IF q.op = "draft" THEN [q EXCEPT !.here = FALSE] ELSE q] OBVIOUS
  <1>3. \A q \in net : /\ IsRequest(f[q]) /\ f[q].here \in BOOLEAN /\ f[q].id = q.id /\ f[q].op = q.op /\ f[q].arg = q.arg
                       /\ f[q].st = q.st /\ f[q].ans = q.ans
                       /\ q.op # "draft" => f[q] = q
                       /\ q.op = "draft" => ~f[q].here
    <2> SUFFICES ASSUME NEW q \in net
          PROVE /\ IsRequest(f[q]) /\ f[q].here \in BOOLEAN /\ f[q].id = q.id /\ f[q].op = q.op /\ f[q].arg = q.arg
                /\ f[q].st = q.st /\ f[q].ans = q.ans
                /\ q.op # "draft" => f[q] = q
                /\ q.op = "draft" => ~f[q].here
      OBVIOUS
    <2>1. CASE q.op = "draft"
      <3>1. f[q] = [q EXCEPT !.here = FALSE] BY <1>2, <2>1
      <3>2. IsRequest(f[q]) /\ f[q].here = FALSE /\ f[q].id = q.id /\ f[q].op = q.op /\ f[q].arg = q.arg
            /\ f[q].st = q.st /\ f[q].ans = q.ans
        BY <3>1, Aside
      <3>3. QED BY <2>1, <3>2
    <2>2. CASE q.op # "draft"
      <3>1. f[q] = q BY <1>2, <2>2
      <3>2. EditorCall(q) BY DEF EditorInv, Shape
      <3>3. IsRequest(q) /\ q.here \in BOOLEAN BY <3>2 DEF EditorCall
      <3>4. QED BY <2>2, <3>1, <3>3
    <2>3. QED BY <2>1, <2>2
  <1>4. net' = {f[q] : q \in net} /\ DOMAIN f = net BY <1>2
  <1>5. Numbered(net') /\ (\A c \in net' : EditorCall(c)) /\ Gated(net', db) /\ (~mixed => Ordered(net'))
    <2>1. \A q \in net : IsRequest(f[q]) /\ f[q].here \in BOOLEAN /\ f[q].id = q.id /\ f[q].op = q.op /\ f[q].arg = q.arg
                          /\ f[q].st = q.st /\ f[q].ans = q.ans
      BY <1>3
    <2>2. DOMAIN f = net BY <1>4
    <2>3. PICK more : more = {f[q] : q \in net} OBVIOUS
    <2>4. Numbered(more) /\ (\A c \in more : EditorCall(c)) /\ Gated(more, db) /\ (~mixed => Ordered(more))
      BY <2>1, <2>2, <2>3, LeftBehind
    <2>5. QED BY <1>4, <2>3, <2>4
  <1>6. \A c \in net' : \E q \in net : c = f[q] BY <1>4
  <1>7. \A q \in net : f[q] \in net' BY <1>4
  <1>8. /\ view \in EditorView /\ view.ai.cur <= Len(view.ai.tries) /\ db \in EditorDb
        /\ Own(net, view) /\ Told(view, db) /\ Busy(net, view) /\ Hidden(view, db)
    BY <1>1, Mounted
  <1>9. PICK u : u = [view EXCEPT !.ai = NoAi] OBVIOUS
  <1>10. /\ u \in EditorView /\ u.got = view.got /\ u.c = view.c /\ u.s = view.s /\ u.ind = view.ind /\ u.dirty = view.dirty
         /\ u.saving = view.saving /\ u.timer = view.timer /\ u.pending = view.pending /\ u.confirm = view.confirm
         /\ u.loading = view.loading /\ u.approving = view.approving /\ u.deleting = view.deleting /\ u.ai = NoAi
    BY <1>8, <1>9, NoPanel DEF EditorView
  <1>11. PICK w : w = Rendered(u) OBVIOUS
  <1>12. /\ w \in EditorView /\ w.got = view.got /\ w.c = view.c /\ w.s = view.s /\ w.ind = view.ind /\ w.dirty = view.dirty
         /\ w.saving = view.saving /\ w.timer = view.timer /\ w.pending = view.pending /\ w.confirm = view.confirm
         /\ w.loading = view.loading /\ w.approving = view.approving /\ w.deleting = view.deleting /\ w.ai = NoAi
    BY <1>10, <1>11, Renders
  <1>13. view' = w BY <1>9, <1>11
  <1>14. Shape'
    <2>1. page \in {"editor", "away"} /\ mixed \in BOOLEAN /\ lost \in Nat BY DEF EditorInv, Shape
    <2>2. w.ai.cur <= Len(w.ai.tries) BY <1>12, NoPanel
    <2>3. QED BY <1>1, <1>5, <1>8, <1>12, <1>13, <2>1, <2>2 DEF Shape
  <1>15. Told(w, db) /\ Hidden(w, db) BY <1>8, <1>12 DEF Told, Hidden
  <1>16. Busy(net', w)
    <2>1. \A op : op # "draft" /\ Awaits(net, op) => Awaits(net', op) BY <1>3, <1>7 DEF Awaits
    <2>2. ~w.ai.loading BY <1>12, NoPanel
    <2>3. QED BY <1>8, <1>12, <2>1, <2>2 DEF Busy
  <1>17. Own(net', w)
    <2>1. \A c \in net' : c.here => c \in net BY <1>3, <1>6
    <2>2. \A c, d \in net' : c.here /\ c.op = "get" => ~w.got /\ (d.id > c.id => d.here /\ d.op = "objectives")
      BY <1>1, <1>8, <2>1 DEF Own
    <2>3. \A c, d \in net' : c.here /\ d.here /\ c.op = "save" /\ d.op = "save" => c = d BY <1>8, <2>1 DEF Own
    <2>4. \A c \in net' : c.here /\ c.op = "save" => w.saving BY <1>8, <1>12, <2>1 DEF Own
    <2>5. QED BY <1>1, <1>12, <2>2, <2>3, <2>4 DEF Own
  <1>18. ~mixed /\ ~db.slip => Known(net', w, db)
    <2> SUFFICES ASSUME ~mixed, ~db.slip PROVE Known(net', w, db) OBVIOUS
    <2>1. Known(net, view, db) BY <1>1, Mounted
    <2>2. \A op \in {"save", "approve"} : Writes(net', op) = Writes(net, op) BY <1>3, <1>6, <1>7 DEF Writes
    <2>3. \A c \in net' : c.op # "draft" => c.here BY <1>3, <1>6, <2>1 DEF Known
    <2>4. Known(net', view, db) BY <2>1, <2>2, <2>3 DEF Known
    <2>5. QED BY <1>12, <2>4, KnownShown
  <1>19. QED BY <1>1, <1>5, <1>12, <1>13, <1>14, <1>15, <1>16, <1>17, <1>18 DEF EditorInv

\* A page that has just been mounted, and its requests.
LEMMA FreshView ==
  /\ Fresh \in EditorView /\ Fresh.ai = NoAi /\ Fresh.loading /\ ~Fresh.got /\ ~Fresh.saving /\ ~Fresh.approving
  /\ ~Fresh.deleting /\ ~Fresh.dirty /\ ~Fresh.timer /\ ~Fresh.confirm /\ ~Fresh.pending /\ ~Fresh.ai.loading
  /\ Fresh.ai.cur <= Len(Fresh.ai.tries)
  <1>1. Fresh \in EditorView /\ Fresh.ai = NoAi
    <2>1. NoAi \in Panels BY NoPanel
    <2>2. QED BY <2>1 DEF Fresh, EditorView, Texts, States
  <1>2. /\ Fresh.loading /\ ~Fresh.got /\ ~Fresh.saving /\ ~Fresh.approving /\ ~Fresh.deleting /\ ~Fresh.dirty /\ ~Fresh.timer
        /\ ~Fresh.confirm /\ ~Fresh.pending
    BY DEF Fresh
  <1>3. QED BY <1>1, <1>2, NoPanel

\* What a page that has just been mounted sends.
LEMMA FreshCalls ==
  ASSUME NEW calls, Numbered(calls), \A c \in calls : EditorCall(c) /\ ~c.here,
         NEW more, more = Send(calls, << <<"get", None>>, <<"objectives", None>> >>)
  PROVE  /\ Numbered(more) /\ (\A c \in more : EditorCall(c)) /\ Own(more, Fresh) /\ Busy(more, Fresh)
         /\ Ordered(calls) => Ordered(more)
         /\ \A d : Gated(calls, d) => Gated(more, d)
  <1>1. PICK asks : asks = << <<"get", None>>, <<"objectives", None>> >> OBVIOUS
  <1>2. more = Send(calls, asks) BY <1>1
  <1>3. PICK n \in Nat : n = 2 /\ DOMAIN asks = 1..n BY <1>1
  <1>a. DOMAIN asks = 1..n BY <1>3
  <1>4. asks[1] = <<"get", None>> /\ asks[2] = <<"objectives", None>> BY <1>1
  <1>6. Numbered(more) /\ calls \subseteq more
    <2>1. Numbered(Send(calls, asks)) BY <1>a, SendNumbered
    <2>2. calls \subseteq Send(calls, asks) BY DEF Send
    <2>3. QED BY <1>2, <2>1, <2>2
  <1>7. \A x \in more \ calls :
          /\ IsRequest(x) /\ x.st = "sent" /\ x.here
          /\ \E i \in 1..n : x.op = asks[i][1] /\ x.arg = asks[i][2] /\ x.id = Cardinality(calls) + i
    BY <1>2, <1>a, SendNumbered
  <1>9. \A q \in calls : q.id <= Cardinality(calls) BY <1>a, SendNumbered
  <1>10. Cardinality(calls) \in Nat /\ \A q \in calls : q.id \in Nat BY FS_CardinalityType, Places DEF Numbered
  <1>11. \A x \in more \ calls : /\ IsRequest(x) /\ x.st = "sent" /\ x.here
                                 /\ \/ x.op = "get" /\ x.id = Cardinality(calls) + 1
                                    \/ x.op = "objectives" /\ x.id = Cardinality(calls) + 2
    BY <1>3, <1>4, <1>7
  <1>b. \A x \in more \ calls : x.here \in BOOLEAN
    <2>1. PICK f : f = [i \in DOMAIN asks |-> Request(Cardinality(calls) + i, asks[i])] OBVIOUS
    <2>2. \A i \in DOMAIN asks : f[i].here = TRUE BY <2>1 DEF Request
    <2>3. more = calls \cup {f[i] : i \in DOMAIN asks} BY <1>2, <2>1 DEF Send
    <2>4. QED BY <2>2, <2>3
  <1>12. Awaits(more, "get")
    <2>1. PICK x : x = Request(Cardinality(calls) + 1, asks[1]) OBVIOUS
    <2>2. x.op = "get" /\ x.here BY <1>4, <2>1 DEF Request
    <2>3. 1 \in DOMAIN asks BY <1>3
    <2>4. x \in Send(calls, asks) BY <2>1, <2>3 DEF Send
    <2>5. QED BY <1>2, <2>2, <2>4 DEF Awaits
  <1>15. \A c \in more : EditorCall(c)
    <2>1. \A x \in more \ calls : EditorCall(x) BY <1>11, <1>b DEF EditorCall
    <2>2. QED BY <2>1
  <1>16. \A d : Gated(calls, d) => Gated(more, d) BY <1>11 DEF Gated
  <1>17. Ordered(calls) => Ordered(more)
    <2> SUFFICES ASSUME Ordered(calls), NEW c \in more, NEW d \in more, c.id < d.id, d.st # "sent" PROVE c.st # "sent" BY DEF Ordered
    <2>1. d \in calls BY <1>11
    <2>2. c \in calls
      <3>1. d.id <= Cardinality(calls) /\ d.id \in Nat BY <1>9, <1>10, <2>1
      <3>2. SUFFICES ASSUME c \notin calls PROVE FALSE OBVIOUS
      <3>3. c.id = Cardinality(calls) + 1 \/ c.id = Cardinality(calls) + 2 BY <1>11, <3>2
      <3>4. QED BY <1>10, <3>1, <3>3
    <2>3. QED BY <2>1, <2>2 DEF Ordered
  <1>18. Own(more, Fresh)
    <2>1. Blank(Fresh) BY FreshView DEF Blank
    <2>2. \A c \in more : c.here => c \in more \ calls OBVIOUS
    <2>3. \A c \in more : c.here => c.op \in {"get", "objectives"} BY <1>11, <2>2
    <2>4. \A c, d \in more : c.here /\ c.op = "get" => (d.id > c.id => d.here /\ d.op = "objectives")
      <3> SUFFICES ASSUME NEW c \in more, NEW d \in more, c.here, c.op = "get", d.id > c.id PROVE d.here /\ d.op = "objectives"
        OBVIOUS
      <3>1. c.id = Cardinality(calls) + 1 BY <1>11, <2>2
      <3>2. d \notin calls
        <4>1. SUFFICES ASSUME d \in calls PROVE FALSE OBVIOUS
        <4>2. d.id <= Cardinality(calls) /\ d.id \in Nat BY <1>9, <1>10, <4>1
        <4>3. QED BY <1>10, <3>1, <4>2
      <3>3. d.id # Cardinality(calls) + 1 BY <1>10, <3>1
      <3>4. QED BY <1>11, <3>2, <3>3
    <2>5. QED BY <2>1, <2>3, <2>4, FreshView DEF Own
  <1>19. Busy(more, Fresh) BY <1>12, FreshView DEF Busy
  <1>20. QED BY <1>6, <1>15, <1>16, <1>17, <1>18, <1>19

\* The page is opened again.
LEMMA OpenKept == ASSUME EditorInv, Open PROVE EditorInv'
  <1>1. PICK more : more = net' OBVIOUS
  <1>2. /\ page = "away" /\ page' = "editor" /\ view' = Fresh /\ db' = db /\ lost' = lost /\ mixed' = mixed
        /\ more = Send(net, << <<"get", None>>, <<"objectives", None>> >>)
    BY <1>1 DEF Open, Mount
  <1>3. Numbered(net) /\ (\A c \in net : EditorCall(c) /\ ~c.here) /\ Gated(net, db) /\ (~mixed => Ordered(net)) /\ db \in EditorDb
        /\ lost \in Nat /\ mixed \in BOOLEAN
    BY <1>2 DEF EditorInv, Shape
  <1>4. /\ Numbered(more) /\ (\A c \in more : EditorCall(c)) /\ Own(more, Fresh) /\ Busy(more, Fresh)
        /\ ~mixed => Ordered(more)
        /\ Gated(more, db)
    BY <1>2, <1>3, FreshCalls
  <1>5. Shape' BY <1>1, <1>2, <1>3, <1>4, FreshView DEF Shape
  <1>6. Told(Fresh, db) /\ Hidden(Fresh, db) BY FreshView DEF Told, Hidden
  <1>7. QED BY <1>1, <1>2, <1>3, <1>4, <1>5, <1>6, FreshView DEF EditorInv

-----------------------------------------------------------------------------
(* The server. *)

\* The request is answered, and no row changes.
LEMMA ServeSame ==
  ASSUME EditorInv, NEW c \in net, NEW st \in {"ok", "err"}, NEW a, NEW d \in EditorDb, AnswerIs(c, d, st, a), lost' \in Nat,
         d.slip = db.slip, d.approved = db.approved, d.row = db.row, d.queue = db.queue,
         st = "ok" => /\ c.op \in {"get", "objectives", "draft", "patch", "delete"}
                      /\ c.op \in {"get", "patch"} => a = db.row
                      /\ c.op = "draft" => a \in Drafts
  PROVE  EditorInv'
  <1>1. /\ c.st = "sent" /\ db' = d /\ net' = Marking(c, st, a) /\ mixed' = (mixed \/ Overtakes(c)) /\ page' = page /\ view' = view
    BY DEF AnswerIs, Marking, Marked
  <1>2. Numbered(net) /\ Gated(net, db) /\ db \in EditorDb BY DEF EditorInv, Shape
  <1>3. db.row \in Rows BY <1>2 DEF EditorDb
  <1>4. Gated(net, d) BY <1>2, GatedSlips
  <1>5. Gated(Marking(c, st, a), d)
    <2>1. c.op = "get" /\ st = "ok" /\ ~d.slip /\ ~d.approved => a.c # "d" BY <1>2 DEF Gated
    <2>2. ~(c.op = "approve" /\ st = "ok") OBVIOUS
    <2>3. QED BY <1>2, <1>4, <2>1, <2>2, MarkingGated
  <1>6. st = "ok" => (c.op \in {"get", "patch"} => a \in Rows) /\ (c.op = "draft" => a \in Drafts) BY <1>3
  <1>7. d.row = db.row /\ d.queue = db.queue /\ (st = "err" \/ c.op \notin {"save", "approve"}) OBVIOUS
  <1>8. QED BY <1>1, <1>5, <1>6, <1>7, ServeStep

\* A request fails at the server, or is refused.
LEMMA RejectKept == ASSUME EditorInv, NEW c \in net, Reject(c) \/ Refuse(c) PROVE EditorInv'
  <1>1. db \in EditorDb /\ lost \in Nat BY DEF EditorInv, Shape
  <1>2. PICK a : AnswerIs(c, db, "err", a) BY DEF Reject, Refuse, LoseAnswer
  <1>3. lost' \in Nat BY <1>1 DEF Reject, Refuse, LoseAnswer, Failing
  <1>4. QED BY <1>1, <1>2, <1>3, ServeSame

\* The activity, or its objectives, is read.
LEMMA ServeReadsKept == ASSUME EditorInv, ServeReads PROVE EditorInv'
  <1>1. db \in EditorDb /\ lost \in Nat BY DEF EditorInv, Shape
  <1>2. PICK c \in net : \/ c.op = "get" /\ IF db.gone THEN Reject(c) ELSE Serve(c, db, db.row)
                         \/ c.op = "objectives" /\ Serve(c, db, None)
    BY DEF ServeReads
  <1>3. CASE Reject(c) BY <1>3, RejectKept
  <1>4. CASE c.op = "get" /\ Serve(c, db, db.row)
    <2>1. AnswerIs(c, db, "ok", db.row) /\ lost' \in Nat BY <1>1, <1>4 DEF Serve
    <2>2. QED BY <1>1, <1>4, <2>1, ServeSame
  <1>5. CASE c.op = "objectives" /\ Serve(c, db, None)
    <2>1. AnswerIs(c, db, "ok", None) /\ lost' \in Nat BY <1>1, <1>5 DEF Serve
    <2>2. QED BY <1>1, <1>5, <2>1, ServeSame
  <1>6. QED BY <1>2, <1>3, <1>4, <1>5

\* The status is changed.
LEMMA ServePatchKept == ASSUME EditorInv, ServePatch PROVE EditorInv'
  <1>1. db \in EditorDb /\ lost \in Nat BY DEF EditorInv, Shape
  <1>2. PICK c \in net : c.op = "patch" /\ (Reject(c) \/ Serve(c, db, db.row)) BY DEF ServePatch
  <1>3. CASE Reject(c) BY <1>3, RejectKept
  <1>4. CASE Serve(c, db, db.row)
    <2>1. AnswerIs(c, db, "ok", db.row) /\ lost' \in Nat BY <1>1, <1>4 DEF Serve
    <2>2. QED BY <1>1, <1>2, <2>1, ServeSame
  <1>5. QED BY <1>2, <1>3, <1>4

\* The activity is deleted.
LEMMA ServeDeleteKept == ASSUME EditorInv, ServeDelete PROVE EditorInv'
  <1>1. db \in EditorDb /\ lost \in Nat BY DEF EditorInv, Shape
  <1>2. PICK c \in net : c.op = "delete" /\ (Reject(c) \/ Serve(c, [db EXCEPT !.gone = TRUE], None)) BY DEF ServeDelete
  <1>3. CASE Reject(c) BY <1>3, RejectKept
  <1>4. CASE Serve(c, [db EXCEPT !.gone = TRUE], None)
    <2>1. PICK d : d = [db EXCEPT !.gone = TRUE] OBVIOUS
    <2>2. AnswerIs(c, d, "ok", None) /\ lost' \in Nat BY <1>1, <1>4, <2>1 DEF Serve
    <2>3. d \in EditorDb /\ d.slip = db.slip /\ d.approved = db.approved /\ d.row = db.row /\ d.queue = db.queue
      BY <1>1, <2>1 DEF EditorDb
    <2>4. QED BY <1>2, <2>2, <2>3, ServeSame
  <1>5. QED BY <1>2, <1>3, <1>4

\* A draft is generated.
LEMMA ServeDraftKept == ASSUME EditorInv, ServeDraft({[c |-> "d"]}) PROVE EditorInv'
  <1>1. db \in EditorDb /\ lost \in Nat BY DEF EditorInv, Shape
  <1>2. PICK c \in net : c.op = "draft" /\ Serve(c, db, [c |-> "d"]) BY DEF ServeDraft
  <1>3. PICK a \in Drafts : a = [c |-> "d"] BY DEF Drafts
  <1>4. AnswerIs(c, db, "ok", a) /\ lost' \in Nat BY <1>1, <1>2, <1>3 DEF Serve
  <1>5. QED BY <1>1, <1>2, <1>3, <1>4, ServeSame

\* A write of the page is stored, and undone if something is queued.
LEMMA ServeSaveKept == ASSUME EditorInv, ServeSave PROVE EditorInv'
  <1>1. db \in EditorDb /\ lost \in Nat /\ Numbered(net) /\ Gated(net, db) BY DEF EditorInv, Shape
  <1>2. PICK c \in net :
          /\ c.op \in {"save", "approve"}
          /\ IF Refused THEN Reject(c)
             ELSE LET d == Put([Slip(db, db.queue # <<>>) EXCEPT !.approved = @ \/ c.op = "approve"], c.arg)
                  IN  Serve(c, d, d.row) \/ LoseAnswer(c, d)
    BY DEF ServeSave
  <1>3. CASE Refused BY <1>2, <1>3, RejectKept
  <1>4. CASE ~Refused
    <2>1. PICK when \in BOOLEAN : when = (db.queue # <<>>) OBVIOUS
    <2>2. PICK m : m = Slip(db, when) OBVIOUS
    <2>3. m \in EditorDb /\ m.slip = (db.slip \/ when) /\ m.row = db.row /\ m.queue = db.queue /\ m.approved = db.approved
      BY <1>1, <2>2, Slips
    <2>4. PICK d : d = [[m EXCEPT !.approved = @ \/ c.op = "approve"] EXCEPT !.row = c.arg] OBVIOUS
    <2>5. c.arg \in Rows BY <1>2 DEF EditorInv, Shape, EditorCall
    <2>6. PICK yes \in BOOLEAN : yes = (m.approved \/ c.op = "approve") BY <2>3 DEF EditorDb
    <2>7. d = [[m EXCEPT !.approved = yes] EXCEPT !.row = c.arg] BY <2>4, <2>6
    <2>8. d \in EditorDb /\ d.slip = m.slip /\ d.queue = db.queue /\ d.approved = yes /\ d.row = c.arg
      BY <2>3, <2>5, <2>7 DEF EditorDb
    <2>9. Serve(c, d, d.row) \/ LoseAnswer(c, d) BY <1>2, <1>4, <2>1, <2>2, <2>4 DEF Put
    <2>10. PICK st \in {"ok", "err"}, a \in {d.row, None} : AnswerIs(c, d, st, a) BY <2>9 DEF Serve, LoseAnswer
    <2>11. lost' \in Nat BY <1>1, <2>9 DEF Serve, LoseAnswer, Failing
    <2>12. /\ c.st = "sent" /\ db' = d /\ net' = Marking(c, st, a) /\ mixed' = (mixed \/ Overtakes(c)) /\ page' = page /\ view' = view
      BY <2>10 DEF AnswerIs, Marking, Marked
    <2>13. Gated(net, d)
      <3>1. ~d.slip /\ ~d.approved => ~db.slip /\ ~db.approved /\ c.op = "save" BY <1>2, <2>3, <2>6, <2>8
      <3>2. \A q \in net : q.op = "approve" /\ q.st = "ok" => d.approved BY <1>1, <2>3, <2>6, <2>8 DEF Gated
      <3>3. QED BY <1>1, <2>8, <3>1, <3>2 DEF Gated
    <2>14. Gated(net', d)
      <3>1. c.op = "approve" => d.approved BY <2>6, <2>8
      <3>2. c.op # "get" BY <1>2
      <3>3. QED BY <1>1, <2>12, <2>13, <3>1, <3>2, MarkingGated
    <2>15. ~d.slip => d.queue = <<>> /\ d.row = c.arg BY <2>1, <2>3, <2>8
    <2>16. (db.slip => d.slip) /\ (db.approved => d.approved) BY <2>3, <2>6, <2>8
    <2>17. QED BY <1>2, <2>8, <2>11, <2>12, <2>14, <2>15, <2>16, ServeStep
  <1>5. QED BY <1>3, <1>4

\* The queue is replayed: what the server will hold is the same.
LEMMA ReplayKept == ASSUME EditorInv, Replay PROVE EditorInv'
  <1>1. db \in EditorDb /\ Shape /\ Gated(net, db) /\ (~mixed => Ordered(net)) BY DEF EditorInv, Shape
  <1>2. PICK q \in Seq(Rows) : q = db.queue BY <1>1 DEF EditorDb
  <1>3. q # <<>> /\ Head(q) \in Rows /\ Tail(q) \in Seq(Rows) BY <1>2 DEF Replay
  <1>4. PICK rest : rest = Tail(q) OBVIOUS
  <1>5. PICK first : first = Head(q) OBVIOUS
  <1>6. PICK d : d = [[db EXCEPT !.row = first] EXCEPT !.queue = rest] OBVIOUS
  <1>7. db' = d /\ page' = page /\ view' = view /\ net' = net /\ lost' = lost /\ mixed' = mixed
    BY <1>1, <1>2, <1>4, <1>5, <1>6 DEF Replay, Put, EditorDb
  <1>8. first \in Rows /\ rest \in Seq(Rows) BY <1>3, <1>4, <1>5
  <1>9. d \in EditorDb /\ d.row = first /\ d.queue = rest /\ d.slip = db.slip /\ d.approved = db.approved
    BY ONLY <1>1, <1>6, <1>8 DEF EditorDb
  <1>10. Shape' BY <1>1, <1>7, <1>9 DEF Shape
  <1>11. Gated(net, d)
    <2>1. first = q[1] /\ 1 \in DOMAIN q BY <1>3, <1>5
    <2>2. \A i \in DOMAIN rest : rest[i] = q[i + 1] /\ i + 1 \in DOMAIN q BY <1>3, <1>4
    <2>3. QED BY <1>1, <1>2, <1>9, <2>1, <2>2 DEF Gated
  <1>12. Holds(d) = Holds(db)
    <2>1. Holds(db) = q[Len(q)] BY <1>2, <1>3 DEF Holds, Last
    <2>2. CASE rest = <<>>
      <3>a. Len(rest) = Len(q) - 1 BY <1>3, <1>4
      <3>b. Len(rest) = 0 BY <2>2
      <3>1. Len(q) = 1 BY <1>2, <3>a, <3>b
      <3>2. QED BY <1>3, <1>5, <1>9, <2>1, <2>2, <3>1 DEF Holds
    <2>3. CASE rest # <<>>
      <3>1. Len(rest) = Len(q) - 1 /\ Len(rest) \in DOMAIN rest /\ rest[Len(rest)] = q[Len(q)] BY <1>3, <1>4, <2>3
      <3>2. QED BY <1>9, <2>1, <2>3, <3>1 DEF Holds, Last
    <2>4. QED BY <2>2, <2>3
  <1>13. page = "editor" /\ view.got /\ ~mixed /\ ~d.slip => Known(net, view, d)
    <2> SUFFICES ASSUME page = "editor", view.got, ~mixed, ~d.slip PROVE Known(net, view, d) OBVIOUS
    <2>1. Known(net, view, db) BY <1>9 DEF EditorInv
    <2>2. db.queue # <<>> BY <1>2, <1>3
    <2>3. QED BY <1>12, <2>1, <2>2 DEF Known
  <1>14. page = "editor" => Told(view, d) /\ Hidden(view, d) BY <1>9 DEF EditorInv, Told, Hidden
  <1>15. QED BY <1>1, <1>7, <1>9, <1>10, <1>11, <1>13, <1>14 DEF EditorInv

-----------------------------------------------------------------------------
(* The invariant holds. *)

\* A page that has been mounted waits for its answers: it is not empty-handed.
LEMMA EmptyNet == {} # Send({}, << <<"get", None>>, <<"objectives", None>> >>)
  <1>1. PICK asks : asks = << <<"get", None>>, <<"objectives", None>> >> OBVIOUS
  <1>2. 1 \in DOMAIN asks BY <1>1
  <1>3. Request(Cardinality({}) + 1, asks[1]) \in Send({}, asks) BY <1>2 DEF Send
  <1>4. QED BY <1>1, <1>3

\* The page starts just mounted, in use, or in use with a draft in its panel.
LEMMA EditorStart == ASSUME SpaAssumption, Init PROVE EditorInv
  <1>1. PICK nested, can, plans, may \in BOOLEAN :
          /\ db = [page |-> "editor", nested |-> nested, can |-> can, plans |-> plans, may |-> may, row |-> Stored0,
                   queue |-> <<>>, gone |-> FALSE, approved |-> FALSE, slip |-> FALSE]
          /\ LET used == [Fresh EXCEPT !.got = TRUE, !.loading = FALSE, !.ready = TRUE, !.seen = TRUE, !.c = "c0"]
             IN  \/ view = Fresh /\ net = Send({}, << <<"get", None>>, <<"objectives", None>> >>)
                 \/ view = used /\ net = {}
                 \/ ~nested /\ plans /\ view = [used EXCEPT !.ai = Drafted("x", [c |-> "d"])] /\ net = {}
    BY DEF Init
  <1>2. page = "editor" /\ lost = 0 /\ mixed = FALSE BY DEF Init
  <1>3. Stored0 \in Rows /\ Stored0.c = "c0" /\ Stored0 = [c |-> "c0", s |-> "s0"] BY DEF Stored0, Rows, Texts, States
  <1>4. db \in EditorDb
    <2>1. <<>> \in Seq(Rows) OBVIOUS
    <2>2. PICK none : none = <<>> /\ none \in Seq(Rows) BY <2>1
    <2>3. db = [page |-> "editor", nested |-> nested, can |-> can, plans |-> plans, may |-> may, row |-> Stored0,
                queue |-> none, gone |-> FALSE, approved |-> FALSE, slip |-> FALSE]
      BY <1>1, <2>2
    <2>4. none \in Seq(Rows) BY <2>2
    <2>5. Stored0 \in Rows BY <1>3
    <2>6. QED BY ONLY <2>3, <2>4, <2>5 DEF EditorDb
  <1>5. db.queue = <<>> /\ db.row = Stored0 /\ ~db.slip /\ ~db.approved BY <1>1
  <1>6. Numbered({}) BY FS_EmptySet DEF Numbered
  <1>7. \A e : e.row = Stored0 /\ e.queue = <<>> => Gated({}, e)
    <2>1. DOMAIN <<>> = {} OBVIOUS
    <2>2. QED BY <1>3, <2>1 DEF Gated
  <1>8. Gated({}, db) BY <1>5, <1>7
  <1>9. CASE view = Fresh /\ net = Send({}, << <<"get", None>>, <<"objectives", None>> >>)
    <2>1. PICK more : more = net OBVIOUS
    <2>2. /\ Numbered(more) /\ (\A c \in more : EditorCall(c)) /\ Own(more, Fresh) /\ Busy(more, Fresh)
          /\ Ordered({}) => Ordered(more)
          /\ Gated(more, db)
      BY <1>6, <1>8, <1>9, <2>1, FreshCalls
    <2>3. Ordered({}) BY DEF Ordered
    <2>4. Shape BY <1>2, <1>4, <1>9, <2>1, <2>2, FreshView DEF Shape
    <2>5. Told(Fresh, db) /\ Hidden(Fresh, db) BY FreshView DEF Told, Hidden
    <2>6. QED BY <1>2, <1>9, <2>1, <2>2, <2>3, <2>4, <2>5, FreshView DEF EditorInv
  <1>10. CASE net = {}
    <2>1. PICK used : used = [Fresh EXCEPT !.got = TRUE, !.loading = FALSE, !.ready = TRUE, !.seen = TRUE, !.c = "c0"] OBVIOUS
    <2>2. /\ used \in EditorView /\ used.got /\ ~used.loading /\ used.c = "c0" /\ used.s = Fresh.s /\ used.ai = Fresh.ai
          /\ ~used.saving /\ ~used.approving /\ ~used.deleting /\ ~used.dirty /\ ~used.timer /\ ~used.confirm /\ ~used.pending
      BY <2>1, FreshView DEF EditorView, Texts
    <2>3. Fresh.s = "s0" BY DEF Fresh
    <2>4. PICK ai \in Panels : /\ view = [used EXCEPT !.ai = ai] /\ ai.cur <= Len(ai.tries) /\ ~ai.loading
      <3>1. CASE view = used
        <4>1. view = [used EXCEPT !.ai = NoAi] BY <2>2, <3>1, FreshView DEF EditorView
        <4>2. QED BY <4>1, NoPanel
      <3>2. CASE view = [used EXCEPT !.ai = Drafted("x", [c |-> "d"])]
        <4>1. PICK d \in Drafts : d = [c |-> "d"] BY DEF Drafts
        <4>2. <<d>> \in Seq(Drafts) /\ Len(<<d>>) = 1 BY <4>1
        <4>3. PICK tries : tries \in Seq(Drafts) /\ tries = <<d>> /\ Len(tries) = 1 BY <4>2
        <4>4. PICK ai : ai = Drafted("x", [c |-> "d"]) OBVIOUS
        <4>5. PICK open : open = [NoAi EXCEPT !.of = "x", !.open = TRUE] OBVIOUS
        <4>6. open \in Panels /\ ~open.loading BY <4>5, EmptyPanel
        <4>7. ai = [open EXCEPT !.tries = tries, !.cur = 1] BY <4>1, <4>3, <4>4, <4>5, NoPanel DEF Drafted, Panels
        <4>8. tries \in Seq(Drafts) BY <4>3
        <4>9. ai \in Panels /\ ~ai.loading /\ ai.tries = tries /\ ai.cur = 1 BY ONLY <4>6, <4>7, <4>8 DEF Panels
        <4>10. ai.cur <= Len(ai.tries) BY <4>3, <4>9
        <4>11. QED BY <3>2, <4>4, <4>9, <4>10
      <3>3. QED BY <1>1, <1>10, <2>1, <3>1, <3>2, EmptyNet
    <2>5. /\ view \in EditorView /\ view.got /\ ~view.loading /\ view.c = "c0" /\ view.s = "s0" /\ view.ai = ai
          /\ ~view.saving /\ ~view.approving /\ ~view.deleting /\ ~view.dirty /\ ~view.timer /\ ~view.confirm /\ ~view.pending
      BY <2>2, <2>3, <2>4 DEF EditorView
    <2>6. Shape
      <3>1. view.ai.cur <= Len(view.ai.tries) BY <2>4, <2>5
      <3>2. QED BY <1>2, <1>4, <1>6, <1>10, <2>5, <3>1 DEF Shape
    <2>7. Own({}, view) /\ Told(view, db) /\ Hidden(view, db) /\ Ordered({}) BY <2>5 DEF Own, Told, Hidden, Ordered
    <2>8. Busy({}, view) BY <2>4, <2>5 DEF Busy
    <2>9. Known({}, view, db)
      <3>1. Holds(db) = Shows(view) BY <1>3, <1>5, <2>5 DEF Holds, Shows
      <3>2. QED BY <2>5, <3>1 DEF Known, Writes
    <2>10. QED BY <1>2, <1>8, <1>10, <2>6, <2>7, <2>8, <2>9 DEF EditorInv
  <1>11. QED BY <1>1, <1>9, <1>10

\* The panel's gestures and answers.
LEMMA PanelKept == ASSUME EditorInv, Panel PROVE EditorInv'
  <1>1. CASE Usable /\ Change([view EXCEPT !.ai = [NoAi EXCEPT !.of = "x", !.open = TRUE]], FALSE) BY <1>1, PanelOpens
  <1>2. CASE /\ Usable /\ view.ai.open /\ Gesture
             /\ view' = Rendered([view EXCEPT !.ai = NoAi])
             /\ net' = {IF r.op = "draft" THEN [r EXCEPT !.here = FALSE] ELSE r : r \in net}
             /\ UNCHANGED <<page, db, lost, mixed>>
    BY <1>2, PanelCloses
  <1>3. CASE Usable /\ Change([view EXCEPT !.ai.tries = <<>>, !.ai.cur = 0], FALSE) BY <1>3, PanelTurns
  <1>4. CASE Usable /\ SelectAttempt BY <1>4, PanelTurns
  <1>5. CASE Usable /\ Generate
    <2>1. CASE Ask("draft", [of |-> view.ai.of], [view EXCEPT !.ai.loading = TRUE]) BY <1>5, <2>1, DraftAsks
    <2>2. CASE \E c \in Waiting("draft") : Resume(c, IF c.here THEN [view EXCEPT !.ai = WithDraft(@, c)] ELSE view)
      BY <2>2, DraftedKept
    <2>3. QED BY <1>5, <2>1, <2>2 DEF Generate
  <1>6. CASE \E r \in Waiting("draft") : Resume(r, IF r.here THEN [view EXCEPT !.ai = WithDraft(@, r)] ELSE view)
    BY <1>6, DraftedKept
  <1>7. CASE ServeDraft({[c |-> "d"]}) BY <1>7, ServeDraftKept
  <1>8. QED BY <1>1, <1>2, <1>3, <1>4, <1>5, <1>6, <1>7 DEF Panel

\* The approval, asked and answered.
LEMMA ApproveKept == ASSUME EditorInv, Approve PROVE EditorInv'
  <1>1. CASE InUse /\ view.pending /\ Ask("approve", Payload, Rendered([view EXCEPT !.approving = TRUE])) BY <1>1, ApproveAsks
  <1>2. CASE \E r \in Waiting("approve") :
               LET done == r.st = "ok"
               IN  AnsweredWith(r, Without(r),
                     IF ~r.here THEN view
                     ELSE IF done THEN Rendered([view EXCEPT !.approving = FALSE, !.pending = FALSE, !.pre = None])
                     ELSE Rendered([view EXCEPT !.approving = FALSE]), db)
    BY <1>2, ApprovedKept
  <1>3. QED BY <1>1, <1>2 DEF Approve

\* The status, asked and answered.
LEMMA PatchKept == ASSUME EditorInv, Patch PROVE EditorInv'
  <1>1. CASE Usable /\ Ask("patch", None, view) BY <1>1, PatchAsks
  <1>2. CASE \E r \in Waiting("patch") :
               LET v == IF r.here /\ r.st = "ok" THEN Rendered([view EXCEPT !.s = r.ans.s]) ELSE view
               IN  AnsweredWith(r, Without(r), v, Slip(db, r.here /\ v.s # view.s))
    BY <1>2, PatchedKept
  <1>3. QED BY <1>1, <1>2 DEF Patch

\* The deletion, asked and answered.
LEMMA DeleteKept == ASSUME EditorInv, Delete PROVE EditorInv'
  <1>1. CASE Usable /\ Change([view EXCEPT !.confirm = TRUE], FALSE)
    <2>1. page = "editor" /\ view.got BY <1>1 DEF Usable, InUse, Here
    <2>2. QED BY <1>1, <2>1, AsksToDelete
  <1>2. CASE Here /\ view.confirm /\ Change([view EXCEPT !.confirm = FALSE], FALSE)
    <2>1. page = "editor" /\ view.got BY <1>2, Mounted DEF Here
    <2>2. QED BY <1>2, <2>1, AsksToDelete
  <1>3. CASE Here /\ view.confirm /\ Ask("delete", None, Rendered([view EXCEPT !.deleting = TRUE])) BY <1>3, DeleteAsks
  <1>4. CASE \E r \in Waiting("delete") :
               IF r.st # "ok" THEN Resume(r, IF r.here THEN Rendered([view EXCEPT !.deleting = FALSE]) ELSE view)
               ELSE /\ page' = "away" /\ view' = None
                    /\ net' = {[q EXCEPT !.here = FALSE] : q \in Without(r)}
                    /\ mixed' = (mixed \/ r.id > 1)
                    /\ UNCHANGED <<db, acts, lost>>
    BY <1>4, NotDeletedKept, DeletedKept
  <1>5. QED BY <1>1, <1>2, <1>3, <1>4 DEF Delete

LEMMA GoneAnswers == ASSUME EditorInv, Gone PROVE EditorInv'
  BY GoneKept DEF Gone
LEMMA FailKept == ASSUME EditorInv, Fail PROVE EditorInv'
  BY RejectKept DEF Fail

\* Every step keeps the invariant.
LEMMA EditorStep == ASSUME EditorInv, Next PROVE EditorInv'
  <1>1. CASE Background
    BY <1>1, LoadedKept, ObjectivesKept, InitialisedKept, TimerFiresKept, FadesKept, SavedKept DEF Background
  <1>2. CASE User
    BY <1>2, EditKept, SaveNowKept, AcceptDraftKept, ApproveKept, DiscardKept, PanelKept, PatchKept, DeleteKept,
       LeaveKept, OpenKept DEF User
  <1>3. CASE Server
    BY <1>3, ServeReadsKept, ServeSaveKept, ServePatchKept, ServeDeleteKept, FailKept, ReplayKept, GoneAnswers DEF Server
  <1>4. QED BY <1>1, <1>2, <1>3 DEF Next

\* So does a step of anything else.
LEMMA EditorStutter == ASSUME EditorInv, UNCHANGED vars PROVE EditorInv'
  <1>1. page' = page /\ view' = view /\ net' = net /\ db' = db /\ lost' = lost /\ mixed' = mixed BY DEF vars
  <1>2. Shape' BY <1>1 DEF EditorInv, Shape
  <1>3. QED BY <1>1, <1>2 DEF EditorInv

\* What the invariant says of the page at rest.
LEMMA EditorTells == ASSUME EditorInv
  PROVE db.page = "editor" /\ KeptUnlessSlipped /\ DraftsNeedApproval /\ Settled
  <1>1. KeptUnlessSlipped
    <2> SUFFICES ASSUME AtRest, view.got, ~mixed, ~db.slip, ~view.pending PROVE Kept \/ view.ind = "error"
      BY DEF KeptUnlessSlipped
    <2>1. page = "editor" /\ net = {} /\ ~view.timer BY DEF AtRest, Here, Quiet
    <2>2. Known({}, view, db) /\ Told(view, db) BY <2>1, Mounted
    <2>3. CASE view.dirty BY <2>1, <2>2, <2>3 DEF Told
    <2>4. CASE ~view.dirty
      <3>1. Holds(db) = Shows(view) BY <2>2, <2>4 DEF Known, Writes
      <3>2. QED BY <3>1 DEF Kept, Payload, Captured, Holds, Shows
    <2>5. QED BY <2>3, <2>4
  <1>2. DraftsNeedApproval BY DEF EditorInv, Gated, DraftsNeedApproval
  <1>3. Settled
    <2> SUFFICES ASSUME page = "editor", net = {}
                 PROVE ~view.loading /\ ~view.saving /\ ~view.approving /\ ~view.deleting /\ ~view.ai.loading
      BY DEF Settled, Here, Quiet
    <2>1. Busy({}, view) BY Mounted
    <2>2. QED BY <2>1 DEF Busy, Awaits
  <1>4. db.page = "editor" BY DEF EditorInv, Shape, EditorDb
  <1>5. QED BY <1>1, <1>2, <1>3, <1>4
=============================================================================
