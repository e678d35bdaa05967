--------------------------- MODULE LinkGraphProofs ---------------------------
(***************************************************************************)
(* Proofs about LinkGraph, for any plans, activities and requests: with    *)
(* one link creation per plan at a time and plans of at most maxDepth      *)
(* activities, the links implement LinkDag, and so never form a cycle.     *)
(*                                                                         *)
(* The invariant is that of the search: what has been visited is closed    *)
(* under the links but for the frontier, does not contain the source, and  *)
(* has grown by one activity at least in each level.                       *)
(***************************************************************************)
EXTENDS LinkGraph, FiniteSetTheorems, TLAPS

InPlan(p) == {a \in Activities : PlanOf[a] = p}

(* What the cycle check needs of its environment. *)
Assumed ==
  /\ OneCreator
  /\ IsFiniteSet(Activities)
  /\ \A p \in Plans : Cardinality(InPlan(p)) <= MaxDepth

-----------------------------------------------------------------------------
(* The invariant. *)

LinksInPlan == \A l \in links : PlanOf[l[1]] = PlanOf[l[2]]

EndsOK(x) ==
  /\ x.pc \in Creating => x.source \in Activities /\ x.target \in Activities
  /\ x.pc = "readTarget" => x.seen = {} /\ x.next = {} /\ x.depth = 0
  /\ x.pc \in {"dropActivities", "commitPlan"} => x.plan \in Plans

OneAtATime ==
  \A q, r \in Requests :
    /\ req[q].pc \in Creating /\ req[r].pc \in Creating
    /\ PlanOf[req[q].source] = PlanOf[req[r].source]
    => q = r

(* The search of request state x over the links L. *)
SearchOK(L, x) ==
  x.pc \in {"search", "insertLink"} =>
    /\ x.seen \cup x.todo \cup x.next \subseteq InPlan(PlanOf[x.source])
    /\ x.target \in x.seen \cup x.todo
    /\ x.source \notin x.seen
    /\ \A l \in L : l[1] \in x.seen => l[2] \in x.seen \cup x.todo \cup x.next
    /\ x.pc = "search" =>
         Cardinality(x.seen) >= x.depth + (IF x.next = {} THEN 0 ELSE 1)
    /\ x.pc = "insertLink" => x.todo \subseteq x.seen /\ x.next = {}

SearchInv ==
  /\ TypeOK
  /\ LinksInPlan
  /\ \A r \in Requests : EndsOK(req[r])
  /\ OneAtATime
  /\ \A r \in Requests : SearchOK(links, req[r])

-----------------------------------------------------------------------------
(* Lemmas. *)

(* Adding an edge whose target does not reach its source keeps a graph acyclic: *)
(* a set closed under the edges that has the target and not the source would    *)
(* hold a smaller cycle.                                                        *)
LEMMA AddKeepsAcyclic ==
  ASSUME NEW E \in SUBSET Link, NEW s \in Activities, NEW t \in Activities,
         Dag!AcyclicIn(E), ~Dag!Reaches(E, t, s)
  PROVE  Dag!AcyclicIn(E \cup {<<s, t>>})
<1> DEFINE F == E \cup {<<s, t>>}
<1>1. PICK C \in SUBSET Activities : t \in C /\ Dag!Closed(E, C) /\ s \notin C
  BY DEF Dag!Reaches
<1>2. SUFFICES ASSUME NEW S \in (SUBSET Activities) \ {{}},
                      \A n \in S : \E m \in S : <<n, m>> \in F
               PROVE  FALSE
  BY DEF Dag!AcyclicIn
<1>3. \A n \in S \cap C : \E m \in S \cap C : <<n, m>> \in E
  <2>1. ASSUME NEW n \in S \cap C PROVE \E m \in S \cap C : <<n, m>> \in E
    <3>1. PICK m \in S : <<n, m>> \in F
      BY <1>2
    <3>2. n # s
      BY <1>1
    <3>3. <<n, m>> \in E
      BY <3>1, <3>2
    <3>4. m \in C
      BY <1>1, <3>3 DEF Dag!Closed
    <3> QED BY <3>3, <3>4
  <2> QED BY <2>1
<1>4. S \cap C = {}
  BY <1>3 DEF Dag!AcyclicIn
<1>5. t \notin S
  BY <1>1, <1>4
<1>6. \A n \in S : \E m \in S : <<n, m>> \in E
  <2>1. ASSUME NEW n \in S PROVE \E m \in S : <<n, m>> \in E
    <3>1. PICK m \in S : <<n, m>> \in F
      BY <1>2
    <3>2. m # t
      BY <1>5
    <3> QED BY <3>1, <3>2
  <2> QED BY <2>1
<1> QED BY <1>2, <1>6 DEF Dag!AcyclicIn

(* Fewer edges close no new cycle. *)
LEMMA DropKeepsAcyclic ==
  ASSUME NEW E, NEW F \in SUBSET E, Dag!AcyclicIn(E)
  PROVE  Dag!AcyclicIn(F)
  BY DEF Dag!AcyclicIn

(* LinkDag keeps its promise. *)
THEOREM DagIsAcyclic == Dag!Spec => []Dag!Acyclic
<1> DEFINE I == links \subseteq Link /\ Dag!Acyclic
<1>1. Dag!Init => I
  BY DEF Dag!Init, Dag!Acyclic, Dag!AcyclicIn
<1>2. I /\ [Dag!Next]_links => I'
  <2> SUFFICES ASSUME I, [Dag!Next]_links PROVE I'
    OBVIOUS
  <2>1. CASE Dag!Drop
    BY <2>1, DropKeepsAcyclic DEF Dag!Drop, Dag!Acyclic
  <2>2. ASSUME NEW s \in Activities, NEW t \in Activities, Dag!Add(s, t) PROVE I'
    <3>1. links' = links \cup {<<s, t>>} /\ links' \subseteq Link
      BY <2>2 DEF Dag!Add, Link
    <3>2. Dag!AcyclicIn(links \cup {<<s, t>>})
      BY <2>2, AddKeepsAcyclic DEF Dag!Add, Dag!Acyclic
    <3> QED BY <3>1, <3>2 DEF Dag!Acyclic
  <2>3. CASE UNCHANGED links
    BY <2>3 DEF Dag!Acyclic
  <2> QED BY <2>1, <2>2, <2>3 DEF Dag!Next
<1>3. I => Dag!Acyclic
  OBVIOUS
<1> QED BY <1>1, <1>2, <1>3, PTL DEF Dag!Spec

-----------------------------------------------------------------------------
(* How requests move. *)

LEMMA IdleTyped == Idle \in Local
  BY DEF Idle, Local, Labels, Creating

(* The search sees the same or fewer links. *)
LEMMA SearchShrinks ==
  ASSUME NEW L, NEW M \in SUBSET L, NEW x, SearchOK(L, x)
  PROVE  SearchOK(M, x)
  BY DEF SearchOK

(* Whatever deletes links and changes only request r, which is then not     *)
(* creating a link, and marks others stale, keeps the invariant.            *)
Leaves(r) ==
  \A q \in Requests :
    \/ /\ q = r /\ req'[q].pc \notin Creating
       /\ req'[q].pc \in {"dropActivities", "commitPlan"} => req'[q].plan \in Plans
    \/ /\ req'[q].plan = req[q].plan
       /\ req'[q].pc = req[q].pc /\ req'[q].source = req[q].source
       /\ req'[q].target = req[q].target /\ req'[q].seen = req[q].seen
       /\ req'[q].todo = req[q].todo /\ req'[q].next = req[q].next
       /\ req'[q].depth = req[q].depth

LEMMA LeavesKeeps ==
  ASSUME SearchInv, TypeOK', links' \subseteq links, NEW r, Leaves(r)
  PROVE  SearchInv'
<1>1. LinksInPlan'
  BY DEF SearchInv, LinksInPlan
<1>2. \A q \in Requests : EndsOK(req'[q])
  BY DEF SearchInv, Leaves, EndsOK, Creating
<1>3. OneAtATime'
  BY DEF SearchInv, OneAtATime, Leaves
<1>4. ASSUME NEW q \in Requests PROVE SearchOK(links', req'[q])
  <2>1. SearchOK(links', req[q])
    BY SearchShrinks DEF SearchInv
  <2>2. CASE q = r /\ req'[q].pc \notin Creating
    BY <2>2 DEF SearchOK, Creating
  <2>3. CASE ~(q = r /\ req'[q].pc \notin Creating)
    BY <2>1, <2>3 DEF Leaves, SearchOK
  <2> QED BY <2>2, <2>3
<1> QED BY <1>1, <1>2, <1>3, <1>4 DEF SearchInv

(* A creation that moves on to state x, its ends unchanged, and no link changes. *)
LEMMA CreationMoves ==
  ASSUME SearchInv, NEW r \in Requests, NEW x \in Local, req' = [req EXCEPT ![r] = x],
         UNCHANGED <<gone, row, links, late>>,
         req[r].pc \in Creating, x.pc \in Creating,
         x.source = req[r].source, x.target = req[r].target,
         x.pc # "readTarget", SearchOK(links, x)
  PROVE  SearchInv'
<1>t. req \in [Requests -> Local]
  BY DEF SearchInv, TypeOK
<1>r. /\ req'[r] = x
      /\ \A q \in Requests : q # r => req'[q] = req[q]
  BY <1>t
<1>1. TypeOK'
  BY DEF SearchInv, TypeOK
<1>2. LinksInPlan'
  BY DEF SearchInv, LinksInPlan
<1>3. \A q \in Requests : EndsOK(req'[q])
  BY <1>r DEF SearchInv, EndsOK, Creating
<1>4. OneAtATime'
  BY <1>r DEF SearchInv, OneAtATime
<1>5. \A q \in Requests : SearchOK(links', req'[q])
  BY <1>r DEF SearchInv
<1> QED BY <1>1, <1>2, <1>3, <1>4, <1>5 DEF SearchInv

LEMMA FinishLeaves ==
  ASSUME NEW r \in Requests, req \in [Requests -> Local], Finish(r)
  PROVE  req' \in [Requests -> Local] /\ Leaves(r)
  BY IdleTyped DEF Finish, Leaves, Idle, Creating

LEMMA MarkStaleLeaves ==
  ASSUME NEW r \in Requests, NEW S, NEW p, req \in [Requests -> Local],
         req' = MarkStale(S, p, r)
  PROVE  req' \in [Requests -> Local] /\ Leaves(r)
<1>1. ASSUME NEW q \in Requests, q # r
      PROVE  /\ req'[q] \in Local
             /\ req'[q] = req[q] \/ req'[q] = [req[q] EXCEPT !.stale = TRUE]
  BY <1>1 DEF MarkStale, Local
<1>2. req'[r] = Idle
  BY DEF MarkStale
<1>3. req' \in [Requests -> Local]
  BY <1>1, <1>2, IdleTyped DEF MarkStale
<1>4. ASSUME NEW q \in Requests, q # r
      PROVE  /\ req'[q].pc = req[q].pc /\ req'[q].source = req[q].source
             /\ req'[q].target = req[q].target /\ req'[q].seen = req[q].seen
             /\ req'[q].todo = req[q].todo /\ req'[q].next = req[q].next
             /\ req'[q].depth = req[q].depth /\ req'[q].plan = req[q].plan
  <2>1. req[q] \in Local
    OBVIOUS
  <2> QED BY <1>1, <1>4, <2>1 DEF Local
<1> QED BY <1>2, <1>3, <1>4 DEF Leaves, Idle, Creating
-----------------------------------------------------------------------------
(* The steps of a link creation. *)

LEMMA StartCreation ==
  ASSUME Assumed, SearchInv, NEW r \in Requests, NEW s \in Activities,
         NEW t \in Activities, LinkReadSource(r, s, t)
  PROVE  SearchInv'
<1> DEFINE x == [Idle EXCEPT !.pc = "readTarget", !.source = s, !.target = t]
<1>t. req \in [Requests -> Local]
  BY DEF SearchInv, TypeOK
<1>x. /\ x \in Local /\ x.pc = "readTarget" /\ x.source = s /\ x.target = t
      /\ x.seen = {} /\ x.next = {} /\ x.depth = 0
  BY IdleTyped DEF Idle, Local, Labels, Creating
<1>r. req' = [req EXCEPT ![r] = x] /\ UNCHANGED <<gone, row, links, late>>
  BY DEF LinkReadSource
<1> HIDE DEF x
<1>q. req'[r] = x /\ \A q \in Requests : q # r => req'[q] = req[q]
  BY <1>t, <1>r
<1>o. \A q \in Requests : ~(req[q].pc \in Creating /\ PlanOf[req[q].source] = PlanOf[s])
  BY DEF LinkReadSource, Assumed
<1>1. TypeOK'
  BY <1>r, <1>x DEF SearchInv, TypeOK
<1>2. LinksInPlan'
  BY <1>r DEF SearchInv, LinksInPlan
<1>3. \A q \in Requests : EndsOK(req'[q])
  BY <1>q, <1>x DEF SearchInv, EndsOK
<1>4. OneAtATime'
  BY <1>q, <1>x, <1>o DEF SearchInv, OneAtATime
<1>5. \A q \in Requests : SearchOK(links', req'[q])
  <2>1. SearchOK(links, x)
    BY <1>x DEF SearchOK
  <2> QED BY <1>q, <1>r, <2>1 DEF SearchInv
<1> QED BY <1>1, <1>2, <1>3, <1>4, <1>5 DEF SearchInv

LEMMA StartSearch ==
  ASSUME Assumed, SearchInv, NEW r \in Requests, LinkReadTarget(r)
  PROVE  SearchInv'
<1>t. req \in [Requests -> Local] /\ req[r] \in Local
  BY DEF SearchInv, TypeOK
<1> DEFINE x == [req[r] EXCEPT !.pc = "search", !.todo = {req[r].target}]
<1>e. /\ req[r].pc = "readTarget"
      /\ req[r].source \in Activities /\ req[r].target \in Activities
      /\ req[r].seen = {} /\ req[r].next = {} /\ req[r].depth = 0
  BY DEF SearchInv, EndsOK, LinkReadTarget, At, Creating
<1>1. CASE Finish(r)
  <2>1. TypeOK' /\ Leaves(r)
    BY <1>1, <1>t, FinishLeaves DEF SearchInv, TypeOK, LinkReadTarget
  <2> QED BY <2>1, LeavesKeeps DEF LinkReadTarget
<1>2. CASE req' = [req EXCEPT ![r] = x] /\ PlanOf[req[r].source] = PlanOf[req[r].target]
  <2>1. /\ x \in Local /\ x.pc = "search" /\ x.todo = {req[r].target}
        /\ x.source = req[r].source /\ x.target = req[r].target
        /\ x.seen = {} /\ x.next = {} /\ x.depth = 0
    BY <1>t, <1>e DEF Local, Labels, Creating
  <2> HIDE DEF x
  <2>2. SearchOK(links, x)
    BY <1>2, <1>e, <2>1, FS_EmptySet DEF SearchOK, InPlan
  <2> QED BY <1>2, <1>e, <2>1, <2>2, CreationMoves DEF LinkReadTarget, Creating
<1> QED BY <1>1, <1>2 DEF LinkReadTarget

(* What is known of a request that searches. *)
LEMMA Search ==
  ASSUME Assumed, SearchInv, NEW r \in Requests, req[r].pc \in {"search", "insertLink"}
  PROVE  /\ req[r] \in Local /\ IsFiniteSet(req[r].seen)
         /\ req[r].source \in Activities /\ req[r].target \in Activities
         /\ SearchOK(links, req[r])
<1>1. req[r] \in Local /\ EndsOK(req[r]) /\ SearchOK(links, req[r])
  BY DEF SearchInv, TypeOK
<1>2. req[r].seen \in SUBSET Activities
  BY <1>1 DEF Local
<1>3. IsFiniteSet(req[r].seen)
  BY <1>2, FS_Subset DEF Assumed
<1> QED BY <1>1, <1>3 DEF EndsOK, Creating

LEMMA QueryKeeps ==
  ASSUME Assumed, SearchInv, NEW r \in Requests, QueryNode(r)
  PROVE  SearchInv'
<1>p. req[r].pc = "search"
  BY DEF QueryNode, At
<1>s. /\ req[r] \in Local /\ IsFiniteSet(req[r].seen)
      /\ req[r].source \in Activities /\ req[r].target \in Activities
      /\ SearchOK(links, req[r])
  BY <1>p, Search
<1>n. PICK n \in req[r].todo \ req[r].seen :
        req' = [req EXCEPT ![r] = [req[r] EXCEPT !.seen = @ \cup {n}, !.next = @ \cup Targets(n)]]
  BY DEF QueryNode
<1> DEFINE x == [req[r] EXCEPT !.seen = @ \cup {n}, !.next = @ \cup Targets(n)]
<1>x. /\ x \in Local /\ x.pc = "search" /\ x.todo = req[r].todo
      /\ x.source = req[r].source /\ x.target = req[r].target
      /\ x.seen = req[r].seen \cup {n} /\ x.next = req[r].next \cup Targets(n)
      /\ x.depth = req[r].depth /\ req' = [req EXCEPT ![r] = x]
  BY <1>s, <1>p, <1>n DEF Local, Labels, Creating, Targets
<1> HIDE DEF x
<1>1. x.seen \cup x.todo \cup x.next \subseteq InPlan(PlanOf[x.source])
  <2>1. n \in InPlan(PlanOf[x.source])
    BY <1>s, <1>p, <1>n, <1>x DEF SearchOK
  <2>2. Targets(n) \subseteq InPlan(PlanOf[x.source])
    <3>1. ASSUME NEW m \in Targets(n) PROVE PlanOf[m] = PlanOf[n]
      <4>1. <<n, m>> \in links
        BY <3>1 DEF Targets
      <4> QED BY <4>1 DEF SearchInv, LinksInPlan
    <3> QED BY <2>1, <3>1 DEF InPlan, Targets
  <2> QED BY <1>s, <1>p, <1>x, <2>1, <2>2 DEF SearchOK
<1>2. x.target \in x.seen \cup x.todo
  BY <1>s, <1>p, <1>x DEF SearchOK
<1>3. x.source \notin x.seen
  BY <1>s, <1>p, <1>n, <1>x DEF SearchOK, QueryNode
<1>4. ASSUME NEW l \in links, l[1] \in x.seen
      PROVE  l[2] \in x.seen \cup x.todo \cup x.next
  <2>1. CASE l[1] \in req[r].seen
    BY <1>s, <1>p, <1>x, <2>1 DEF SearchOK
  <2>2. CASE l[1] = n
    <3>1. l \in Activities \X Activities
      BY DEF SearchInv, TypeOK, Link
    <3>2. l[2] \in Targets(n)
      BY <2>2, <3>1 DEF Targets
    <3> QED BY <1>x, <3>2
  <2> QED BY <1>4, <1>x, <2>1, <2>2
<1>5. Cardinality(x.seen) >= x.depth + (IF x.next = {} THEN 0 ELSE 1)
  <2>1. Cardinality(x.seen) = Cardinality(req[r].seen) + 1 /\ Cardinality(req[r].seen) \in Nat
    BY <1>s, <1>n, <1>x, FS_AddElement, FS_CardinalityType
  <2>2. Cardinality(req[r].seen) >= req[r].depth /\ req[r].depth \in Nat
    <3>1. Cardinality(req[r].seen) >= req[r].depth + (IF req[r].next = {} THEN 0 ELSE 1)
      BY <1>s, <1>p DEF SearchOK
    <3> QED BY <1>s, <2>1, <3>1 DEF Local
  <2> QED BY <2>1, <2>2, <1>x
<1>6. SearchOK(links, x)
  BY <1>1, <1>2, <1>3, <1>4, <1>5, <1>x DEF SearchOK
<1> QED BY <1>p, <1>s, <1>x, <1>6, CreationMoves DEF QueryNode, Creating

(* The depth bound never cuts a search short: that many levels would have   *)
(* visited every activity of the plan, the source included.                 *)
LEMMA DepthSuffices ==
  ASSUME Assumed, SearchInv, NEW r \in Requests, req[r].pc = "search", req[r].next # {}
  PROVE  req[r].depth + 1 < MaxDepth
<1> DEFINE p == PlanOf[req[r].source]
           seen == req[r].seen
<1>s. /\ req[r] \in Local /\ IsFiniteSet(seen)
      /\ req[r].source \in Activities /\ SearchOK(links, req[r])
  BY Search
<1>1. p \in Plans
  BY <1>s, GraphAssumption
<1>2. seen \subseteq InPlan(p) \ {req[r].source} /\ req[r].source \in InPlan(p)
  BY <1>s DEF SearchOK, InPlan
<1>3. IsFiniteSet(InPlan(p)) /\ Cardinality(InPlan(p)) <= MaxDepth
  <2>1. InPlan(p) \in SUBSET Activities
    BY DEF InPlan
  <2> QED BY <1>1, <2>1, FS_Subset DEF Assumed
<1>4. /\ IsFiniteSet(InPlan(p) \ {req[r].source})
      /\ Cardinality(InPlan(p) \ {req[r].source}) = Cardinality(InPlan(p)) - 1
  BY <1>2, <1>3, FS_RemoveElement
<1>5. Cardinality(seen) <= Cardinality(InPlan(p) \ {req[r].source})
  BY <1>2, <1>4, FS_Subset
<1>6. Cardinality(seen) >= req[r].depth + 1
  BY <1>s DEF SearchOK
<1>7. /\ Cardinality(seen) \in Nat /\ Cardinality(InPlan(p)) \in Nat
      /\ req[r].depth \in Nat /\ MaxDepth \in Nat
  BY <1>s, <1>3, FS_CardinalityType, GraphAssumption DEF Local
<1> QED BY <1>3, <1>4, <1>5, <1>6, <1>7

LEMMA LevelKeeps ==
  ASSUME Assumed, SearchInv, NEW r \in Requests, NextLevel(r)
  PROVE  SearchInv'
<1>p. req[r].pc = "search" /\ req[r].todo \subseteq req[r].seen
  BY DEF NextLevel, At
<1>s. req[r] \in Local /\ SearchOK(links, req[r])
  BY <1>p, Search
<1>1. CASE req[r].next # {} /\ req[r].depth + 1 < MaxDepth
  <2> DEFINE x == [req[r] EXCEPT !.todo = req[r].next, !.next = {}, !.depth = @ + 1]
  <2>x. /\ x \in Local /\ x.pc = "search" /\ x.todo = req[r].next /\ x.next = {}
        /\ x.source = req[r].source /\ x.target = req[r].target
        /\ x.seen = req[r].seen /\ x.depth = req[r].depth + 1
    <3>1. req[r].depth + 1 \in Nat /\ req[r].next \in SUBSET Activities
      BY <1>s DEF Local
    <3> QED BY <1>p, <1>s, <3>1 DEF Local
  <2>r. req' = [req EXCEPT ![r] = x]
    BY <1>1 DEF NextLevel
  <2> HIDE DEF x
  <2>1. Cardinality(x.seen) >= x.depth + (IF x.next = {} THEN 0 ELSE 1)
    <3>1. Cardinality(req[r].seen) >= req[r].depth + 1
      BY <1>1, <1>p, <1>s DEF SearchOK
    <3>2. req[r].depth \in Nat
      BY <1>s DEF Local
    <3> QED BY <2>x, <3>1, <3>2
  <2>2. SearchOK(links, x)
    BY <1>p, <1>s, <2>x, <2>1 DEF SearchOK
  <2> QED BY <1>p, <2>x, <2>r, <2>2, CreationMoves DEF NextLevel, Creating
<1>2. CASE req[r].next = {}
  <2> DEFINE x == [req[r] EXCEPT !.pc = "insertLink"]
  <2>x. /\ x \in Local /\ x.pc = "insertLink" /\ x.todo = req[r].todo /\ x.next = {}
        /\ x.source = req[r].source /\ x.target = req[r].target
        /\ x.seen = req[r].seen /\ req' = [req EXCEPT ![r] = x]
    BY <1>2, <1>s DEF NextLevel, Goto, Local, Labels, Creating
  <2> HIDE DEF x
  <2>2. SearchOK(links, x)
    <3>1. x.seen \cup x.todo \cup x.next \subseteq InPlan(PlanOf[x.source])
      BY <1>p, <1>s, <1>2, <2>x DEF SearchOK
    <3>2. /\ x.target \in x.seen \cup x.todo /\ x.source \notin x.seen
          /\ x.todo \subseteq x.seen
      BY <1>p, <1>s, <2>x DEF SearchOK
    <3>3. \A l \in links : l[1] \in x.seen => l[2] \in x.seen \cup x.todo \cup x.next
      BY <1>p, <1>s, <1>2, <2>x DEF SearchOK
    <3> QED BY <2>x, <3>1, <3>2, <3>3 DEF SearchOK
  <2> QED BY <1>p, <2>x, <2>2, CreationMoves DEF NextLevel, Creating
<1> QED BY <1>1, <1>2, <1>p, DepthSuffices

(* The new link closes no cycle, and the searches in other plans do not see it. *)
LEMMA InsertAdds ==
  ASSUME Assumed, SearchInv, NEW r \in Requests, InsertLink(r)
  PROVE  Dag!Add(req[r].source, req[r].target)
<1>p. req[r].pc = "insertLink"
  BY DEF InsertLink, At
<1>s. req[r] \in Local /\ SearchOK(links, req[r])
  BY <1>p, Search
<1>1. req[r].seen \in SUBSET Activities
  BY <1>s DEF Local
<1>2. /\ req[r].target \in req[r].seen /\ req[r].source \notin req[r].seen
      /\ Dag!Closed(links, req[r].seen)
  BY <1>p, <1>s DEF SearchOK, Dag!Closed
<1>3. ~Dag!Reaches(links, req[r].target, req[r].source)
  BY <1>1, <1>2 DEF Dag!Reaches
<1> QED BY <1>3 DEF Dag!Add, InsertLink

LEMMA InsertKeeps ==
  ASSUME Assumed, SearchInv, NEW r \in Requests, InsertLink(r)
  PROVE  SearchInv'
<1> DEFINE s == req[r].source
           t == req[r].target
<1>p. req[r].pc = "insertLink"
  BY DEF InsertLink, At
<1>s. /\ req[r] \in Local /\ s \in Activities /\ t \in Activities
      /\ SearchOK(links, req[r])
  BY <1>p, Search
<1>l. links' = links \cup {<<s, t>>} /\ UNCHANGED <<gone, row>>
  BY DEF InsertLink
<1>t. req \in [Requests -> Local] /\ Finish(r)
  BY DEF SearchInv, TypeOK, InsertLink
<1>q. /\ req' \in [Requests -> Local] /\ req'[r].pc = "idle"
      /\ \A q \in Requests : q # r => req'[q] = req[q]
  BY <1>t, IdleTyped DEF Finish, Idle, Creating
<1>1. TypeOK'
  <2>1. links' \subseteq Link /\ late' \subseteq Link \cup Activities
    BY <1>l, <1>s DEF InsertLink, SearchInv, TypeOK, Link
  <2> QED BY <1>l, <1>q, <2>1 DEF SearchInv, TypeOK
<1>2. LinksInPlan'
  <2>1. PlanOf[s] = PlanOf[t]
    BY <1>p, <1>s DEF SearchOK, InPlan
  <2> QED BY <1>l, <2>1 DEF SearchInv, LinksInPlan
<1>3. \A q \in Requests : EndsOK(req'[q])
  BY <1>q DEF SearchInv, EndsOK, Creating
<1>4. OneAtATime'
  BY <1>q DEF SearchInv, OneAtATime, Creating
<1>5. ASSUME NEW q \in Requests PROVE SearchOK(links', req'[q])
  <2>1. CASE q = r
    BY <1>q, <2>1 DEF SearchOK, Creating
  <2>2. CASE q # r /\ req[q].pc \in {"search", "insertLink"}
    <3>1. PlanOf[req[q].source] # PlanOf[s]
      BY <1>p, <2>2 DEF SearchInv, OneAtATime, Creating
    <3>2. SearchOK(links, req[q])
      BY DEF SearchInv
    <3>3. s \notin req[q].seen
      BY <2>2, <3>1, <3>2 DEF SearchOK, InPlan
    <3> QED BY <1>l, <1>q, <2>2, <3>2, <3>3 DEF SearchOK
  <2>3. CASE q # r /\ req[q].pc \notin {"search", "insertLink"}
    BY <1>q, <2>3 DEF SearchOK
  <2> QED BY <2>1, <2>2, <2>3
<1> QED BY <1>1, <1>2, <1>3, <1>4, <1>5 DEF SearchInv

-----------------------------------------------------------------------------
(* Every step keeps the invariant, and adds a link only by InsertLink. *)

LEMMA InitSearch == Init => SearchInv
  BY IdleTyped DEF Init, SearchInv, TypeOK, LinksInPlan, EndsOK, OneAtATime, SearchOK,
     Idle, Creating, Link

LEMMA OtherSteps ==
  ASSUME SearchInv, [Next]_vars
  PROVE  \/ SearchInv' /\ links' \subseteq links
         \/ \E r \in Requests :
              \/ \E s, t \in Activities : LinkReadSource(r, s, t)
              \/ LinkReadTarget(r) \/ QueryNode(r) \/ NextLevel(r) \/ InsertLink(r)
<1> DEFINE Goal == SearchInv' /\ links' \subseteq links
<1>t. TypeOK /\ req \in [Requests -> Local]
  BY DEF SearchInv, TypeOK
<1>e. \A r \in Requests :
        req[r].pc \in {"dropActivities", "commitPlan"} => req[r].plan \in Plans
  BY DEF SearchInv, EndsOK
<1>d. ASSUME NEW r \in Requests, NEW x \in Local, x.pc \notin Creating,
             x.pc \in {"dropActivities", "commitPlan"} => x.plan \in Plans,
             req' = [req EXCEPT ![r] = x], UNCHANGED <<gone, row, links, late>>
      PROVE  Goal
  <2>1. TypeOK'
    BY <1>d, <1>t DEF TypeOK
  <2>2. Leaves(r)
    BY <1>d, <1>t DEF Leaves
  <2> QED BY <1>d, <2>1, <2>2, LeavesKeeps
<1>f. ASSUME NEW r \in Requests, Finish(r), UNCHANGED <<gone, row, links, late>> PROVE Goal
  BY <1>f, <1>d, IdleTyped DEF Finish, Idle, Creating
<1>1. ASSUME NEW r \in Requests, NEW p \in Plans, ActivityCheckPlan(r, p) PROVE Goal
  <2> DEFINE x == [Idle EXCEPT !.pc = "insertActivity", !.plan = p]
  <2>1. x \in Local /\ x.pc \notin Creating /\ x.plan \in Plans
    BY IdleTyped DEF Local, Labels, Creating, Idle
  <2> QED BY <1>1, <1>d, <2>1 DEF ActivityCheckPlan
<1>2. ASSUME NEW r \in Requests, InsertActivity(r) PROVE Goal
  <2>1. Finish(r) /\ UNCHANGED <<gone, links>>
    BY <1>2 DEF InsertActivity
  <2>2. req' \in [Requests -> Local] /\ Leaves(r)
    BY <1>t, <2>1, FinishLeaves
  <2>3. /\ row' \in [Activities -> {"unused", "live", "deleted"}]
        /\ late' \subseteq Link \cup Activities
    BY <1>2, <1>t DEF InsertActivity, TypeOK
  <2>4. TypeOK'
    BY <1>t, <2>1, <2>2, <2>3 DEF TypeOK
  <2> QED BY <2>1, <2>2, <2>4, LeavesKeeps
<1>3. ASSUME NEW r \in Requests, CycleFound(r) PROVE Goal
  BY <1>3, <1>f DEF CycleFound
<1>4. ASSUME NEW r \in Requests, Fail(r) PROVE Goal
  BY <1>4, <1>f DEF Fail
<1>5. ASSUME NEW l \in links, DeleteActivityLink(l) PROVE Goal
  <2>1. links' \subseteq links /\ UNCHANGED <<gone, row, req, late>>
    BY <1>5 DEF DeleteActivityLink
  <2>2. TypeOK' /\ Leaves(None)
    BY <1>t, <2>1 DEF TypeOK, Leaves
  <2> QED BY <2>1, <2>2, LeavesKeeps
<1>6. ASSUME NEW r \in Requests, NEW a \in Activities, DeleteMark(r, a) PROVE Goal
  <2> DEFINE x == [Idle EXCEPT !.pc = "dropLinks", !.source = a, !.hold = {a}]
  <2>1. x \in Local /\ x.pc = "dropLinks"
    BY IdleTyped DEF Local, Labels, Creating, Idle
  <2> QED BY <1>6, <1>d, <2>1 DEF DeleteMark, Creating
<1>7. ASSUME NEW r \in Requests, DropLinks(r) PROVE Goal
  <2> DEFINE x == [req[r] EXCEPT !.pc = "commitActivity", !.drop = Touching(req[r].source)]
  <2>1. x \in Local /\ x.pc = "commitActivity"
    BY <1>t DEF Local, Labels, Creating, Touching, TypeOK
  <2> QED BY <1>7, <1>d, <2>1 DEF DropLinks, Creating
<1>8. ASSUME NEW r \in Requests, CommitActivity(r) PROVE Goal
  <2>1. /\ req' \in [Requests -> Local] /\ Leaves(r)
        /\ links' \subseteq links /\ UNCHANGED <<gone, late>>
    BY <1>8, <1>t, MarkStaleLeaves DEF CommitActivity
  <2>2. TypeOK'
    BY <1>8, <1>t, <2>1 DEF TypeOK, CommitActivity
  <2> QED BY <2>1, <2>2, LeavesKeeps
<1>9. ASSUME NEW r \in Requests, NEW p \in Plans, DeletePlanMark(r, p) PROVE Goal
  <2> DEFINE x == [Idle EXCEPT !.pc = "dropActivities", !.plan = p]
  <2>1. x \in Local /\ x.pc \notin Creating /\ x.plan \in Plans
    BY IdleTyped DEF Local, Labels, Creating, Idle
  <2> QED BY <1>9, <1>d, <2>1 DEF DeletePlanMark
<1>10. ASSUME NEW r \in Requests, DropActivities(r) PROVE Goal
  <2> DEFINE x == [req[r] EXCEPT !.pc = "commitPlan", !.hold = LiveIn(req[r].plan)]
  <2>1. x \in Local /\ x.pc \notin Creating /\ x.plan \in Plans
    BY <1>10, <1>t, <1>e DEF DropActivities, At, Local, Labels, Creating, LiveIn
  <2> QED BY <1>10, <1>d, <2>1 DEF DropActivities
<1>11. ASSUME NEW r \in Requests, CommitPlan(r) PROVE Goal
  <2>1. req' \in [Requests -> Local] /\ Leaves(r) /\ UNCHANGED <<links, late>>
    BY <1>11, <1>t, MarkStaleLeaves DEF CommitPlan
  <2>2. req[r] \in Local /\ req[r].pc = "commitPlan" /\ req[r].plan \in Plans
    BY <1>11, <1>t, <1>e DEF CommitPlan, At
  <2>3. row' \in [Activities -> {"unused", "live", "deleted"}]
    BY <1>11, <1>t DEF CommitPlan, TypeOK
  <2> QED BY <1>11, <1>t, <2>1, <2>2, <2>3, LeavesKeeps DEF CommitPlan, TypeOK
<1>12. CASE UNCHANGED vars
  <2>1. TypeOK' /\ Leaves(None) /\ links' \subseteq links
    BY <1>12, <1>t DEF vars, TypeOK, Leaves
  <2> QED BY <2>1, LeavesKeeps
<1> QED
  BY <1>1, <1>2, <1>3, <1>4, <1>5, <1>6, <1>7, <1>8, <1>9, <1>10, <1>11, <1>12
     DEF Next, Start, Step, Create

LEMMA NextKeeps ==
  ASSUME Assumed, SearchInv, [Next]_vars
  PROVE  SearchInv' /\ [Dag!Next]_links
<1>1. CASE SearchInv' /\ links' \subseteq links
  BY <1>1 DEF Dag!Next, Dag!Drop
<1>2. ASSUME NEW r \in Requests, NEW s \in Activities, NEW t \in Activities,
             LinkReadSource(r, s, t)
      PROVE  SearchInv' /\ UNCHANGED links
  BY <1>2, StartCreation DEF LinkReadSource
<1>3. ASSUME NEW r \in Requests, LinkReadTarget(r) \/ QueryNode(r) \/ NextLevel(r)
      PROVE  SearchInv' /\ UNCHANGED links
  BY <1>3, StartSearch, QueryKeeps, LevelKeeps DEF LinkReadTarget, QueryNode, NextLevel
<1>4. ASSUME NEW r \in Requests, InsertLink(r)
      PROVE  SearchInv' /\ Dag!Next
  <2>1. req[r].source \in Activities /\ req[r].target \in Activities
    BY <1>4, Search DEF InsertLink, At
  <2> QED BY <1>4, <2>1, InsertKeeps, InsertAdds DEF Dag!Next
<1> QED BY <1>1, <1>2, <1>3, <1>4, OtherSteps

-----------------------------------------------------------------------------

LEMMA InitDag == Init => Dag!Init
  BY DEF Init, Dag!Init

(* strategic-plan links, cycle_check.go: with one link creation per plan at  *)
(* a time and plans of at most maxDepth activities, the search and the       *)
(* insert of CreateActivityLink act as one atomic step of LinkDag.           *)
THEOREM ImplementsLinkDag == Assumed => (Spec => RefinesLinkDag)
<1> SUFFICES ASSUME Assumed PROVE Spec => RefinesLinkDag
  OBVIOUS
<1>1. SearchInv /\ [Next]_vars => SearchInv' /\ [Dag!Next]_links
  BY NextKeeps
<1> QED BY <1>1, InitSearch, InitDag, PTL DEF Spec, RefinesLinkDag, Dag!Spec

(* cycle_check.go: and so the links never form a cycle ("Circular links are  *)
(* prevented").                                                              *)
THEOREM LinksAcyclic == Assumed => (Spec => []Acyclic)
<1> QED BY ImplementsLinkDag, DagIsAcyclic, PTL DEF RefinesLinkDag, Acyclic

-----------------------------------------------------------------------------
(***************************************************************************)
(* Proofs about the deletions of LinkGraph, for any plans, activities and  *)
(* requests of every kind: its types, and that the links and activities a  *)
(* deletion misses come from requests that were in flight.                 *)
(*                                                                         *)
(* StragglersWereInFlight is not inductive: it says nothing of the request *)
(* about to insert a straggler.  Ready adds, of each request, that what it *)
(* has checked still holds or it is marked stale, and that an open         *)
(* deletion has found all there is but what is marked late.                *)
(***************************************************************************)

-----------------------------------------------------------------------------
(* The invariant, of the rows R, the deleted plans G, the links L and the  *)
(* late ones T.                                                            *)

Deleted(R, a) == R[a] = "deleted"

Ready(R, G, L, T, x) ==
  /\ x.pc \in Creating =>
       /\ x.source \in Activities /\ x.target \in Activities
       /\ Deleted(R, x.source) => x.stale
  /\ x.pc \in {"search", "insertLink"} =>
       /\ PlanOf[x.source] = PlanOf[x.target]
       /\ Deleted(R, x.target) => x.stale
  /\ x.pc = "insertActivity" => x.plan \in Plans /\ (x.plan \in G => x.stale)
  /\ x.pc \in {"dropLinks", "commitActivity"} => x.source \in Activities /\ x.hold = {x.source}
  /\ x.pc = "commitActivity" => \A l \in L : x.source \in {l[1], l[2]} => l \in x.drop \cup T
  /\ x.pc \in {"dropActivities", "commitPlan"} => x.plan \in Plans
  /\ x.pc = "commitPlan" =>
       /\ \A a \in x.hold : PlanOf[a] = x.plan
       /\ \A a \in Activities : PlanOf[a] = x.plan /\ R[a] = "live" => a \in x.hold \cup T

Swept(R, G, L, T) ==
  /\ \A l \in L : PlanOf[l[1]] = PlanOf[l[2]]
  /\ \A l \in L : PlanOf[l[1]] \notin G /\ (Deleted(R, l[1]) \/ Deleted(R, l[2])) => l \in T
  /\ \A a \in Activities : R[a] = "live" /\ PlanOf[a] \in G => a \in T

SweepInv ==
  /\ TypeOK
  /\ Swept(row, gone, links, late)
  /\ \A r \in Requests : Ready(row, gone, links, late, req[r])

-----------------------------------------------------------------------------
(* How the tables may change under the others. *)

LEMMA IdleReady ==
  ASSUME NEW R, NEW G, NEW L, NEW T
  PROVE  Idle \in Local /\ Ready(R, G, L, T, Idle)
  BY DEF Idle, Local, Labels, Creating, Ready

(* Links may go, and things may turn out to be late. *)
LEMMA ReadyStays ==
  ASSUME NEW R, NEW G, NEW L, NEW T, NEW x, Ready(R, G, L, T, x),
         NEW M \in SUBSET L, NEW U, T \subseteq U
  PROVE  Ready(R, G, M, U, x)
  BY DEF Ready

(* A request that moves while the tables stand. *)
LEMMA Moves ==
  ASSUME SweepInv, NEW r \in Requests, NEW x \in Local, Ready(row, gone, links, late, x),
         req' = [req EXCEPT ![r] = x], UNCHANGED <<gone, row, links, late>>
  PROVE  SweepInv'
<1>1. TypeOK'
  BY DEF SweepInv, TypeOK
<1>2. Swept(row', gone', links', late')
  BY DEF SweepInv
<1>3. ASSUME NEW q \in Requests PROVE Ready(row', gone', links', late', req'[q])
  <2>1. req'[q] = IF q = r THEN x ELSE req[q]
    BY DEF SweepInv, TypeOK
  <2>2. Ready(row, gone, links, late, req'[q])
    BY <2>1 DEF SweepInv
  <2> QED BY <2>2
<1> QED BY <1>1, <1>2, <1>3 DEF SweepInv

LEMMA Ends ==
  ASSUME SweepInv, NEW r \in Requests, Finish(r), UNCHANGED <<gone, row, links, late>>
  PROVE  SweepInv'
<1>1. Idle \in Local /\ Ready(row, gone, links, late, Idle)
  BY IdleReady
<1> QED BY <1>1, Moves DEF Finish

-----------------------------------------------------------------------------
(* Steps that write no table. *)

LEMMA Starts ==
  ASSUME SweepInv, NEW r \in Requests, Start(r)
  PROVE  SweepInv'
<1>t. row \in [Activities -> {"unused", "live", "deleted"}]
  BY DEF SweepInv, TypeOK
<1>1. ASSUME NEW p \in Plans, ActivityCheckPlan(r, p) PROVE SweepInv'
  <2> DEFINE x == [Idle EXCEPT !.pc = "insertActivity", !.plan = p]
  <2>1. x \in Local /\ Ready(row, gone, links, late, x)
    BY <1>1 DEF ActivityCheckPlan, Idle, Local, Labels, Creating, Ready
  <2> QED BY <1>1, <2>1, Moves DEF ActivityCheckPlan
<1>2. ASSUME NEW p \in Plans, DeletePlanMark(r, p) PROVE SweepInv'
  <2> DEFINE x == [Idle EXCEPT !.pc = "dropActivities", !.plan = p]
  <2>1. x \in Local /\ Ready(row, gone, links, late, x)
    BY DEF Idle, Local, Labels, Creating, Ready
  <2> QED BY <1>2, <2>1, Moves DEF DeletePlanMark
<1>3. ASSUME NEW s \in Activities, NEW t \in Activities, LinkReadSource(r, s, t) PROVE SweepInv'
  <2> DEFINE x == [Idle EXCEPT !.pc = "readTarget", !.source = s, !.target = t]
  <2>1. x \in Local /\ Ready(row, gone, links, late, x)
    BY <1>3 DEF LinkReadSource, Idle, Local, Labels, Creating, Ready, Deleted
  <2> QED BY <1>3, <2>1, Moves DEF LinkReadSource
<1>4. ASSUME NEW a \in Activities, DeleteMark(r, a) PROVE SweepInv'
  <2> DEFINE x == [Idle EXCEPT !.pc = "dropLinks", !.source = a, !.hold = {a}]
  <2>1. x \in Local /\ Ready(row, gone, links, late, x)
    BY DEF Idle, Local, Labels, Creating, Ready
  <2> QED BY <1>4, <2>1, Moves DEF DeleteMark
<1> QED BY <1>1, <1>2, <1>3, <1>4 DEF Start

LEMMA Searches ==
  ASSUME SweepInv, NEW r \in Requests,
         LinkReadTarget(r) \/ CycleFound(r) \/ QueryNode(r) \/ NextLevel(r)
  PROVE  SweepInv'
<1>t. req[r] \in Local /\ Ready(row, gone, links, late, req[r])
  BY DEF SweepInv, TypeOK
<1>1. CASE LinkReadTarget(r)
  <2>1. CASE row[req[r].target] = "live" /\ PlanOf[req[r].source] = PlanOf[req[r].target]
    <3> DEFINE x == [req[r] EXCEPT !.pc = "search", !.todo = {req[r].target}]
    <3>1. req' = [req EXCEPT ![r] = x] /\ UNCHANGED <<gone, row, links, late>>
      BY <1>1, <2>1 DEF LinkReadTarget, SweepInv, TypeOK
    <3>2. req[r].source \in Activities /\ req[r].target \in Activities
      BY <1>1, <1>t DEF LinkReadTarget, At, Ready, Creating
    <3>3. x \in Local
      BY <1>t, <3>2 DEF Local, Labels, Creating
    <3>4. Ready(row, gone, links, late, x)
      BY <1>1, <1>t, <2>1, <3>2 DEF LinkReadTarget, At, Ready, Creating, Deleted, Local
    <3> QED BY <3>1, <3>3, <3>4, Moves
  <2>2. CASE ~(row[req[r].target] = "live" /\ PlanOf[req[r].source] = PlanOf[req[r].target])
    BY <1>1, <2>2, Ends DEF LinkReadTarget
  <2> QED BY <2>1, <2>2
<1>2. CASE CycleFound(r)
  BY <1>2, Ends DEF CycleFound
<1>3. ASSUME NEW n \in req[r].todo,
             req' = [req EXCEPT ![r].seen = @ \cup {n}, ![r].next = @ \cup Targets(n)],
             At(r, "search"), UNCHANGED <<gone, row, links, late>>
      PROVE  SweepInv'
  <2> DEFINE x == [req[r] EXCEPT !.seen = @ \cup {n}, !.next = @ \cup Targets(n)]
  <2>1. req' = [req EXCEPT ![r] = x]
    BY <1>3 DEF SweepInv, TypeOK
  <2>2. x \in Local
    BY <1>t DEF Local, Targets
  <2>3. Ready(row, gone, links, late, x)
    BY <1>t DEF Ready, Local
  <2> QED BY <1>3, <2>1, <2>2, <2>3, Moves
<1>4. CASE NextLevel(r)
  <2>1. ASSUME req' = [req EXCEPT ![r].todo = req[r].next, ![r].next = {}, ![r].depth = @ + 1]
        PROVE  SweepInv'
    <3> DEFINE d == req[r].depth + 1
               x == [req[r] EXCEPT !.todo = req[r].next, !.next = {}, !.depth = d]
    <3>1. req' = [req EXCEPT ![r] = x]
      BY <2>1 DEF SweepInv, TypeOK
    <3>d. d \in Nat
      BY <1>t DEF Local
    <3> HIDE DEF d
    <3>2. x \in Local
      BY <1>t, <3>d DEF Local
    <3>3. /\ x.pc = req[r].pc /\ x.source = req[r].source /\ x.target = req[r].target
          /\ x.plan = req[r].plan /\ x.hold = req[r].hold /\ x.drop = req[r].drop
          /\ x.stale = req[r].stale
      BY <1>t DEF Local
    <3> HIDE DEF x
    <3>4. Ready(row, gone, links, late, x)
      BY <1>t, <3>3 DEF Ready
    <3> QED BY <1>4, <3>1, <3>2, <3>4, Moves DEF NextLevel
  <2>2. ASSUME Goto(r, "insertLink") PROVE SweepInv'
    <3> DEFINE x == [req[r] EXCEPT !.pc = "insertLink"]
    <3>1. req' = [req EXCEPT ![r] = x]
      BY <2>2 DEF Goto
    <3>2. x \in Local
      BY <1>t DEF Local, Labels, Creating
    <3>3. Ready(row, gone, links, late, x)
      BY <1>4, <1>t DEF NextLevel, At, Ready, Local, Creating
    <3> QED BY <1>4, <3>1, <3>2, <3>3, Moves DEF NextLevel
  <2> QED BY <1>4, <2>1, <2>2 DEF NextLevel
<1> QED BY <1>1, <1>2, <1>3, <1>4 DEF QueryNode

LEMMA Drops ==
  ASSUME SweepInv, NEW r \in Requests, DropLinks(r) \/ DropActivities(r)
  PROVE  SweepInv'
<1>t. req[r] \in Local /\ Ready(row, gone, links, late, req[r])
  BY DEF SweepInv, TypeOK
<1>1. CASE DropLinks(r)
  <2> DEFINE x == [req[r] EXCEPT !.pc = "commitActivity", !.drop = Touching(req[r].source)]
  <2>1. req' = [req EXCEPT ![r] = x] /\ UNCHANGED <<gone, row, links, late>>
    BY <1>1 DEF DropLinks, SweepInv, TypeOK
  <2>2. x \in Local
    BY <1>t DEF Local, Labels, Touching, SweepInv, TypeOK
  <2>3. Ready(row, gone, links, late, x)
    BY <1>1, <1>t DEF DropLinks, At, Ready, Local, Creating, Touching
  <2> QED BY <2>1, <2>2, <2>3, Moves
<1>2. CASE DropActivities(r)
  <2> DEFINE x == [req[r] EXCEPT !.pc = "commitPlan", !.hold = LiveIn(req[r].plan)]
  <2>1. req' = [req EXCEPT ![r] = x] /\ UNCHANGED <<gone, row, links, late>>
    BY <1>2 DEF DropActivities, SweepInv, TypeOK
  <2>2. x \in Local
    BY <1>t DEF Local, Labels, LiveIn
  <2>3. Ready(row, gone, links, late, x)
    BY <1>2, <1>t DEF DropActivities, At, Ready, Local, Creating, LiveIn
  <2> QED BY <2>1, <2>2, <2>3, Moves
<1> QED BY <1>1, <1>2

-----------------------------------------------------------------------------
(* Steps that write the tables. *)

LEMMA InsertsActivity ==
  ASSUME SweepInv, NEW r \in Requests, InsertActivity(r)
  PROVE  SweepInv'
<1>t. TypeOK /\ req[r] \in Local /\ Ready(row, gone, links, late, req[r])
  BY DEF SweepInv, TypeOK
<1>1. PICK a \in Activities :
        /\ row[a] = "unused" /\ PlanOf[a] = req[r].plan
        /\ row' = [row EXCEPT ![a] = "live"]
        /\ late' = IF req[r].stale \/ Closing({}, req[r].plan) THEN late \cup {a} ELSE late
  BY DEF InsertActivity
<1>2. req' = [req EXCEPT ![r] = Idle] /\ gone' = gone /\ links' = links /\ late \subseteq late'
  BY <1>1 DEF InsertActivity, Finish
<1>3. /\ row'[a] = "live" /\ \A b \in Activities \ {a} : row'[b] = row[b]
      /\ \A b \in Activities : Deleted(row', b) <=> Deleted(row, b)
  BY <1>1, <1>t DEF TypeOK, Deleted
<1>4. TypeOK'
  BY <1>1, <1>2, <1>t, IdleReady DEF TypeOK
<1>5. Swept(row', gone', links', late')
  <2>1. PlanOf[a] \in gone => a \in late'
    BY <1>1, <1>t DEF InsertActivity, At, Ready
  <2>2. \A l \in links : l[1] \in Activities /\ l[2] \in Activities
    BY <1>t DEF TypeOK, Link
  <2> QED BY <1>2, <1>3, <2>1, <2>2 DEF SweepInv, Swept
<1>6. ASSUME NEW q \in Requests PROVE Ready(row', gone', links', late', req'[q])
  <2>1. CASE q = r
    BY <2>1, <1>2, <1>t, IdleReady DEF TypeOK
  <2>2. CASE q # r
    <3>1. req'[q] = req[q] /\ Ready(row, gone, links, late, req[q])
      BY <2>2, <1>2, <1>t DEF TypeOK, SweepInv
    <3>2. req[q].pc = "commitPlan" /\ req[q].plan = PlanOf[a] => a \in late'
      BY <1>1 DEF Closing, At
    <3>3. req[q].pc = "commitPlan" =>
            \A b \in Activities : PlanOf[b] = req[q].plan /\ row'[b] = "live"
                                 => b \in req[q].hold \cup late'
      BY <3>1, <3>2, <1>2, <1>3 DEF Ready
    <3>4. req[q].source \in Activities => (Deleted(row', req[q].source) <=> Deleted(row, req[q].source))
      BY <1>3
    <3>5. req[q].target \in Activities => (Deleted(row', req[q].target) <=> Deleted(row, req[q].target))
      BY <1>3
    <3>6. req[q].pc \in Creating => req[q].source \in Activities /\ req[q].target \in Activities
      BY <3>1 DEF Ready
    <3>7. Ready(row', gone', links', late', req[q])
      BY <3>1, <3>3, <3>4, <3>5, <3>6, <1>2 DEF Ready, Creating
    <3> QED BY <3>1, <3>7
  <2> QED BY <2>1, <2>2
<1> QED BY <1>4, <1>5, <1>6 DEF SweepInv

LEMMA InsertsLink ==
  ASSUME SweepInv, NEW r \in Requests, InsertLink(r)
  PROVE  SweepInv'
<1> DEFINE l == <<req[r].source, req[r].target>>
<1>t. TypeOK /\ req[r] \in Local /\ Ready(row, gone, links, late, req[r])
  BY DEF SweepInv, TypeOK
<1>1. /\ req' = [req EXCEPT ![r] = Idle] /\ gone' = gone /\ row' = row
      /\ links' = links \cup {l}
      /\ late' = IF l \in links THEN late
                 ELSE IF req[r].stale \/ Closing({l[1], l[2]}, None) THEN late \cup {l}
                 ELSE late \ {l}
  BY DEF InsertLink, Finish
<1>2. /\ l \in Link /\ l[1] = req[r].source /\ l[2] = req[r].target
      /\ PlanOf[l[1]] = PlanOf[l[2]]
      /\ Deleted(row, l[1]) \/ Deleted(row, l[2]) => req[r].stale
  BY <1>t DEF InsertLink, At, Ready, Link, Creating
<1> HIDE DEF l
<1>3. /\ \A k \in links : k \in late => k \in late'
      /\ \A a \in Activities : a \in late => a \in late'
  BY <1>1, <1>2, GraphAssumption DEF Link
<1>4. TypeOK'
  <2>1. links' \subseteq Link /\ late' \subseteq Link \cup Activities
    BY <1>1, <1>2, <1>t DEF TypeOK
  <2> QED BY <2>1, <1>1, <1>t, IdleReady DEF TypeOK
<1>5. Swept(row', gone', links', late')
  <2>1. l \notin links /\ (Deleted(row, l[1]) \/ Deleted(row, l[2])) => l \in late'
    BY <1>1, <1>2
  <2> QED BY <1>1, <1>2, <1>3, <2>1 DEF SweepInv, Swept
<1>6. ASSUME NEW q \in Requests PROVE Ready(row', gone', links', late', req'[q])
  <2>1. CASE q = r
    BY <2>1, <1>1, <1>t, IdleReady DEF TypeOK
  <2>2. CASE q # r
    <3>1. req'[q] = req[q] /\ Ready(row, gone, links, late, req[q])
      BY <2>2, <1>1, <1>t DEF TypeOK, SweepInv
    <3>2. /\ req[q].pc = "commitActivity" /\ req[q].source \in {l[1], l[2]}
          /\ l \notin links
          => l \in late'
      <4>1. SUFFICES ASSUME req[q].pc = "commitActivity", req[q].source \in {l[1], l[2]},
                            l \notin links
                     PROVE  l \in late'
        OBVIOUS
      <4>2. req[q].hold \cap {l[1], l[2]} # {}
        BY <3>1, <4>1 DEF Ready
      <4>3. Closing({l[1], l[2]}, None)
        BY <4>1, <4>2 DEF Closing
      <4> QED BY <4>1, <4>3, <1>1
    <3>3. req[q].pc = "commitActivity" =>
            \A k \in links' : req[q].source \in {k[1], k[2]} => k \in req[q].drop \cup late'
      BY <3>1, <3>2, <1>1, <1>3 DEF Ready
    <3>4. Ready(row', gone', links', late', req[q])
      BY <3>1, <3>3, <1>1, <1>3 DEF Ready
    <3> QED BY <3>1, <3>4
  <2> QED BY <2>1, <2>2
<1> QED BY <1>4, <1>5, <1>6 DEF SweepInv

LEMMA DeletesLink ==
  ASSUME SweepInv, NEW l \in links, DeleteActivityLink(l)
  PROVE  SweepInv'
<1>1. links' \subseteq links /\ UNCHANGED <<gone, row, req, late>>
  BY DEF DeleteActivityLink
<1>2. TypeOK'
  BY <1>1 DEF SweepInv, TypeOK
<1>3. Swept(row', gone', links', late')
  BY <1>1 DEF SweepInv, Swept
<1>4. ASSUME NEW q \in Requests PROVE Ready(row', gone', links', late', req'[q])
  <2>1. Ready(row, gone, links', late, req[q])
    BY <1>1, ReadyStays DEF SweepInv
  <2> QED BY <2>1, <1>1
<1> QED BY <1>2, <1>3, <1>4 DEF SweepInv

-----------------------------------------------------------------------------
(* The commits: what they delete marks the requests that work on it. *)

LEMMA Marked ==
  ASSUME TypeOK, NEW r \in Requests, NEW S, NEW p, req' = MarkStale(S, p, r)
  PROVE  /\ req' \in [Requests -> Local]
         /\ req'[r] = Idle
         /\ \A q \in Requests \ {r} :
              /\ req'[q].pc = req[q].pc /\ req'[q].plan = req[q].plan
              /\ req'[q].source = req[q].source /\ req'[q].target = req[q].target
              /\ req'[q].drop = req[q].drop /\ req'[q].hold = req[q].hold
              /\ req[q].stale => req'[q].stale
              /\ req[q].pc \in Creating /\ {req[q].source, req[q].target} \cap S # {}
                   => req'[q].stale
              /\ req[q].pc = "insertActivity" /\ req[q].plan = p => req'[q].stale
<1>1. \A q \in Requests : req[q] \in Local /\ [req[q] EXCEPT !.stale = TRUE] \in Local
  BY DEF TypeOK, Local
<1>2. req' \in [Requests -> Local]
  BY <1>1, IdleReady DEF MarkStale
<1>3. req'[r] = Idle
  BY DEF MarkStale
<1>4. ASSUME NEW q \in Requests \ {r}
      PROVE  /\ req'[q].pc = req[q].pc /\ req'[q].plan = req[q].plan
             /\ req'[q].source = req[q].source /\ req'[q].target = req[q].target
             /\ req'[q].drop = req[q].drop /\ req'[q].hold = req[q].hold
             /\ req[q].stale => req'[q].stale
             /\ req[q].pc \in Creating /\ {req[q].source, req[q].target} \cap S # {}
                  => req'[q].stale
             /\ req[q].pc = "insertActivity" /\ req[q].plan = p => req'[q].stale
  <2> DEFINE hit == \/ req[q].pc \in Creating /\ {req[q].source, req[q].target} \cap S # {}
                    \/ At(q, "insertActivity") /\ req[q].plan = p
  <2>1. CASE hit
    <3>1. req'[q] = [req[q] EXCEPT !.stale = TRUE]
      BY <2>1 DEF MarkStale
    <3> QED BY <3>1, <1>1 DEF Local
  <2>2. CASE ~hit
    <3>1. req'[q] = req[q]
      BY <2>2 DEF MarkStale
    <3> QED BY <3>1, <2>2 DEF At
  <2> QED BY <2>1, <2>2
<1> QED BY <1>2, <1>3, <1>4

LEMMA CommitsActivity ==
  ASSUME SweepInv, NEW r \in Requests, CommitActivity(r)
  PROVE  SweepInv'
<1> DEFINE a == req[r].source
<1>t. TypeOK /\ Swept(row, gone, links, late) /\ Ready(row, gone, links, late, req[r])
  BY DEF SweepInv
<1>1. /\ row' = [row EXCEPT ![a] = "deleted"] /\ links' = links \ req[r].drop
      /\ req' = MarkStale({a}, None, r) /\ gone' = gone /\ late' = late
  BY DEF CommitActivity
<1>2. a \in Activities /\ \A l \in links' : a \in {l[1], l[2]} => l \in late
  BY <1>t, <1>1 DEF CommitActivity, At, Ready
<1> HIDE DEF a
<1>3. /\ \A b \in Activities : Deleted(row', b) <=> b = a \/ Deleted(row, b)
      /\ \A b \in Activities : row'[b] = "live" => row[b] = "live"
      /\ row' \in [Activities -> {"unused", "live", "deleted"}]
  BY <1>1, <1>2, <1>t DEF TypeOK, Deleted
<1>4. TypeOK'
  BY <1>1, <1>3, <1>t, Marked DEF TypeOK
<1>5. Swept(row', gone', links', late')
  <2>1. \A l \in links' : l \in links /\ l[1] \in Activities /\ l[2] \in Activities
    BY <1>1, <1>t DEF TypeOK, Link
  <2> QED BY <1>1, <1>2, <1>3, <1>t, <2>1 DEF Swept
<1>6. ASSUME NEW q \in Requests PROVE Ready(row', gone', links', late', req'[q])
  <2>1. CASE q = r
    BY <2>1, <1>1, <1>t, IdleReady, Marked
  <2>2. CASE q # r
    <3> DEFINE S == {a}
    <3>m. req' = MarkStale(S, None, r)
      BY <1>1
    <3> HIDE DEF S
    <3>1. /\ req'[q].pc = req[q].pc /\ req'[q].plan = req[q].plan
          /\ req'[q].source = req[q].source /\ req'[q].target = req[q].target
          /\ req'[q].drop = req[q].drop /\ req'[q].hold = req[q].hold
          /\ req[q].stale => req'[q].stale
          /\ req[q].pc \in Creating /\ {req[q].source, req[q].target} \cap S # {}
               => req'[q].stale
      BY <2>2, <3>m, <1>t, Marked
    <3>2. Ready(row, gone, links, late, req[q])
      BY DEF SweepInv
    <3>3. req[q].pc \in Creating =>
            /\ Deleted(row', req[q].source) => req'[q].stale \/ Deleted(row, req[q].source)
            /\ Deleted(row', req[q].target) => req'[q].stale \/ Deleted(row, req[q].target)
      BY <3>1, <3>2, <1>3 DEF Ready, S
    <3>4. links' \subseteq links
      BY <1>1
    <3> QED BY <3>1, <3>2, <3>3, <3>4, <1>1, <1>3 DEF Ready, Creating
  <2> QED BY <2>1, <2>2
<1> QED BY <1>4, <1>5, <1>6 DEF SweepInv

LEMMA CommitsPlan ==
  ASSUME SweepInv, NEW r \in Requests, CommitPlan(r)
  PROVE  SweepInv'
<1> DEFINE p == req[r].plan
           H == req[r].hold
<1>t. TypeOK /\ Swept(row, gone, links, late) /\ Ready(row, gone, links, late, req[r])
  BY DEF SweepInv
<1>1. /\ row' = [a \in Activities |-> IF a \in H THEN "deleted" ELSE row[a]]
      /\ req' = MarkStale(H, p, r) /\ gone' = gone \cup {p} /\ links' = links /\ late' = late
  BY DEF CommitPlan
<1>2. /\ p \in Plans /\ \A a \in H : PlanOf[a] = p
      /\ \A a \in Activities : PlanOf[a] = p /\ row[a] = "live" => a \in H \cup late
  BY <1>t DEF CommitPlan, At, Ready
<1> HIDE DEF p, H
<1>3. /\ \A b \in Activities : Deleted(row', b) <=> b \in H \/ Deleted(row, b)
      /\ \A b \in Activities : row'[b] = "live" => row[b] = "live" /\ b \notin H
      /\ row' \in [Activities -> {"unused", "live", "deleted"}]
  BY <1>1, <1>t DEF TypeOK, Deleted
<1>4. TypeOK'
  BY <1>1, <1>2, <1>3, <1>t, Marked DEF TypeOK
<1>5. Swept(row', gone', links', late')
  <2>1. \A l \in links' : l[1] \in Activities /\ l[2] \in Activities
    BY <1>1, <1>t DEF TypeOK, Link
  <2> QED BY <1>1, <1>2, <1>3, <1>t, <2>1 DEF Swept
<1>6. ASSUME NEW q \in Requests PROVE Ready(row', gone', links', late', req'[q])
  <2>1. CASE q = r
    BY <2>1, <1>1, <1>t, IdleReady, Marked
  <2>2. CASE q # r
    <3>1. /\ req'[q].pc = req[q].pc /\ req'[q].plan = req[q].plan
          /\ req'[q].source = req[q].source /\ req'[q].target = req[q].target
          /\ req'[q].drop = req[q].drop /\ req'[q].hold = req[q].hold
          /\ req[q].stale => req'[q].stale
          /\ req[q].pc \in Creating /\ {req[q].source, req[q].target} \cap H # {}
               => req'[q].stale
          /\ req[q].pc = "insertActivity" /\ req[q].plan = p => req'[q].stale
      BY <2>2, <1>1, <1>t, Marked
    <3>2. Ready(row, gone, links, late, req[q])
      BY DEF SweepInv
    <3>3. req[q].pc \in Creating =>
            /\ Deleted(row', req[q].source) => req'[q].stale \/ Deleted(row, req[q].source)
            /\ Deleted(row', req[q].target) => req'[q].stale \/ Deleted(row, req[q].target)
      BY <3>1, <3>2, <1>3 DEF Ready
    <3> QED BY <3>1, <3>2, <3>3, <1>1, <1>3 DEF Ready, Creating
  <2> QED BY <2>1, <2>2
<1> QED BY <1>4, <1>5, <1>6 DEF SweepInv

-----------------------------------------------------------------------------
LEMMA SweepInit == Init => SweepInv
<1> SUFFICES ASSUME Init PROVE SweepInv
  OBVIOUS
<1>1. TypeOK
  BY IdleReady DEF Init, TypeOK
<1>2. Swept(row, gone, links, late)
  BY DEF Init, Swept
<1>3. ASSUME NEW q \in Requests PROVE Ready(row, gone, links, late, req[q])
  BY IdleReady DEF Init
<1> QED BY <1>1, <1>2, <1>3 DEF SweepInv

LEMMA SweepNext == SweepInv /\ [Next]_vars => SweepInv'
<1> SUFFICES ASSUME SweepInv, [Next]_vars PROVE SweepInv'
  OBVIOUS
<1>1. ASSUME NEW r \in Requests, Start(r) PROVE SweepInv'
  BY <1>1, Starts
<1>2. ASSUME NEW r \in Requests, Step(r) PROVE SweepInv'
  <2>1. CASE InsertActivity(r)
    BY <2>1, InsertsActivity
  <2>2. CASE InsertLink(r)
    BY <2>2, InsertsLink
  <2>3. CASE LinkReadTarget(r) \/ CycleFound(r) \/ QueryNode(r) \/ NextLevel(r)
    BY <2>3, Searches
  <2>4. CASE DropLinks(r) \/ DropActivities(r)
    BY <2>4, Drops
  <2>5. CASE CommitActivity(r)
    BY <2>5, CommitsActivity
  <2>6. CASE CommitPlan(r)
    BY <2>6, CommitsPlan
  <2> QED BY <1>2, <2>1, <2>2, <2>3, <2>4, <2>5, <2>6 DEF Step, Create
<1>3. ASSUME NEW r \in Requests, Fail(r) PROVE SweepInv'
  BY <1>3, Ends DEF Fail
<1>4. ASSUME NEW l \in links, DeleteActivityLink(l) PROVE SweepInv'
  BY <1>4, DeletesLink
<1>5. CASE UNCHANGED vars
  <2>1. gone' = gone /\ row' = row /\ links' = links /\ req' = req /\ late' = late
    BY <1>5 DEF vars
  <2>2. TypeOK'
    BY <2>1 DEF SweepInv, TypeOK
  <2>3. Swept(row', gone', links', late')
    BY <2>1 DEF SweepInv
  <2>4. ASSUME NEW q \in Requests PROVE Ready(row', gone', links', late', req'[q])
    BY <2>1 DEF SweepInv
  <2> QED BY <2>2, <2>3, <2>4 DEF SweepInv
<1> QED BY <1>1, <1>2, <1>3, <1>4, <1>5 DEF Next

(* The state of the link and activity requests is well formed. *)
THEOREM GraphTypes == Spec => []TypeOK
<1>1. SweepInv => TypeOK
  BY DEF SweepInv
<1> QED BY <1>1, SweepInit, SweepNext, PTL DEF Spec

(* A link to a deleted activity of a plan that is still there, and an activity *)
(* left in a deleted plan, were inserted by requests that had made their       *)
(* checks before the deletion was committed: DeleteActivity and DeletePlan     *)
(* miss nothing else, whatever runs beside them.                               *)
THEOREM StragglersAreInFlight == Spec => []StragglersWereInFlight
<1>1. SweepInv => StragglersWereInFlight
  <2> SUFFICES ASSUME SweepInv PROVE StragglersWereInFlight
    OBVIOUS
  <2>1. Swept(row, gone, links, late)
    BY DEF SweepInv
  <2> QED BY <2>1 DEF Swept, Deleted, StragglersWereInFlight
<1> QED BY <1>1, SweepInit, SweepNext, PTL DEF Spec
=============================================================================
