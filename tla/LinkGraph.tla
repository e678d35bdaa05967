------------------------------ MODULE LinkGraph ------------------------------
(***************************************************************************)
(* The activity links of internal/services/plan: CreateActivityLink with   *)
(* its cycle check (cycle_check.go), DeleteActivityLink, CreateActivity,   *)
(* DeleteActivity and DeletePlan (plan_service.go), as concurrent requests *)
(* of one organisation.                                                    *)
(*                                                                         *)
(* As in Sessions, an action is one SQL statement with the checks that     *)
(* follow it.  The cycle check is a breadth-first search that runs one     *)
(* query per activity it visits, each on the links of that moment.         *)
(* DeleteActivity and DeletePlan are transactions: what they write is seen *)
(* at their commit, and the activity rows they update stay locked till     *)
(* then.  Two transactions that delete the same link need no lock in the   *)
(* model: it is gone when the first of them commits.                       *)
(*                                                                         *)
(* Ghost state, never read by a guard: stale, late.                        *)
(***************************************************************************)
EXTENDS Naturals, FiniteSets

CONSTANTS
  Plans,       \* rows of plans
  Activities,  \* rows of activities, in use or still to be inserted
  PlanOf,      \* activities.plan_id, set at the insert and never updated
  Requests,    \* goroutines serving a request
  MaxDepth,    \* maxDepth of hasCycle: 50 in the code
  OneCreator,  \* TRUE: at most one link creation runs in a plan at a time
  Ops,         \* the operations clients may start
  None

ASSUME GraphAssumption ==
  /\ PlanOf \in [Activities -> Plans]
  /\ MaxDepth \in Nat \ {0}
  /\ OneCreator \in BOOLEAN
  /\ None \notin Plans \cup Activities
  /\ \A a \in Activities : a \notin Activities \X Activities

VARIABLES
  gone,   \* plans with deleted_at set
  row,    \* activities: unused, live, or deleted (deleted_at set)
  links,  \* activity_links, as pairs <<source_id, target_id>> (UNIQUE)
  req,    \* the local state of each request
  late    \* ghost: links and activities inserted under a deletion

vars == <<gone, row, links, req, late>>

Link == Activities \X Activities

Creating == {"readTarget", "search", "insertLink"}
Labels == Creating \cup {"idle", "insertActivity", "dropLinks", "commitActivity",
                         "dropActivities", "commitPlan"}

(* seen, todo, next: visited, current and frontier of hasCycle.  drop: the  *)
(* links, hold: the activities that an open transaction has deleted.        *)
Local ==
  [pc : Labels, plan : Plans \cup {None},
   source : Activities \cup {None}, target : Activities \cup {None},
   seen : SUBSET Activities, todo : SUBSET Activities, next : SUBSET Activities,
   depth : Nat, drop : SUBSET Link, hold : SUBSET Activities, stale : BOOLEAN]

Idle == [pc |-> "idle", plan |-> None, source |-> None, target |-> None,
         seen |-> {}, todo |-> {}, next |-> {}, depth |-> 0,
         drop |-> {}, hold |-> {}, stale |-> FALSE]

(* Sanity of the state. *)
TypeOK ==
  /\ gone \subseteq Plans
  /\ row \in [Activities -> {"unused", "live", "deleted"}]
  /\ links \subseteq Link
  /\ req \in [Requests -> Local]
  /\ late \subseteq Link \cup Activities

(* Some activities have been created already, links not yet. *)
Init ==
  /\ gone = {}
  /\ row \in [Activities -> {"unused", "live"}]
  /\ links = {}
  /\ req = [r \in Requests |-> Idle]
  /\ late = {}

-----------------------------------------------------------------------------
(* Helpers. *)

At(r, label) == req[r].pc = label
Goto(r, label) == req' = [req EXCEPT ![r].pc = label]
Finish(r) == req' = [req EXCEPT ![r] = Idle]

Targets(n) == {m \in Activities : <<n, m>> \in links}
Touching(a) == {l \in links : a \in {l[1], l[2]}}
LiveIn(p) == {a \in Activities : PlanOf[a] = p /\ row[a] = "live"}

(* The row of activity a is not locked by an open transaction. *)
ActivityFree(a) == \A q \in Requests : a \notin req[q].hold
PlanFree(p) ==
  \A q \in Requests : ~(req[q].pc \in {"dropActivities", "commitPlan"} /\ req[q].plan = p)

(* Ghost: an open transaction has dropped what it found and may commit.     *)
Closing(S, p) ==
  \E q \in Requests :
    \/ req[q].pc \in {"commitActivity", "commitPlan"} /\ req[q].hold \cap S # {}
    \/ At(q, "commitPlan") /\ req[q].plan = p

(* Request r is done.  Ghost: the activities of S and the plan p (if any)   *)
(* were deleted under the requests that work on them.                       *)
MarkStale(S, p, r) ==
  [q \in Requests |->
     IF q = r THEN Idle
     ELSE IF \/ req[q].pc \in Creating /\ {req[q].source, req[q].target} \cap S # {}
             \/ At(q, "insertActivity") /\ req[q].plan = p
       THEN [req[q] EXCEPT !.stale = TRUE]
       ELSE req[q]]

-----------------------------------------------------------------------------
(* CreateActivity. *)

(* GetPlan: the plan exists and is not deleted. *)
ActivityCheckPlan(r, p) ==
  /\ "createActivity" \in Ops
  /\ At(r, "idle")
  /\ p \notin gone
  /\ req' = [req EXCEPT ![r] = [Idle EXCEPT !.pc = "insertActivity", !.plan = p]]
  /\ UNCHANGED <<gone, row, links, late>>

(* INSERT INTO activities: the foreign key only asks for the plan's row,    *)
(* which a soft delete keeps.                                               *)
InsertActivity(r) ==
  /\ At(r, "insertActivity")
  /\ \E a \in Activities :
       /\ row[a] = "unused"
       /\ PlanOf[a] = req[r].plan
       /\ row' = [row EXCEPT ![a] = "live"]
       /\ late' = IF req[r].stale \/ Closing({}, req[r].plan) THEN late \cup {a} ELSE late
  /\ Finish(r)
  /\ UNCHANGED <<gone, links>>

-----------------------------------------------------------------------------
(* CreateActivityLink. *)

(* The self-link check, then SELECT plan_id of the source. *)
LinkReadSource(r, s, t) ==
  /\ "createLink" \in Ops
  /\ At(r, "idle")
  /\ s # t
  /\ row[s] = "live"
  /\ OneCreator => \A q \in Requests :
       ~(req[q].pc \in Creating /\ PlanOf[req[q].source] = PlanOf[s])
  /\ req' = [req EXCEPT ![r] = [Idle EXCEPT !.pc = "readTarget", !.source = s,
                                            !.target = t]]
  /\ UNCHANGED <<gone, row, links, late>>

(* SELECT plan_id of the target, the same-plan check; hasCycle starts there. *)
LinkReadTarget(r) ==
  LET s == req[r].source
      t == req[r].target
  IN /\ At(r, "readTarget")
     /\ IF row[t] = "live" /\ PlanOf[s] = PlanOf[t]
          THEN req' = [req EXCEPT ![r].pc = "search", ![r].todo = {t}]
          ELSE Finish(r)
     /\ UNCHANGED <<gone, row, links, late>>

(* A node of the level is the source: the link would close a cycle.  (The   *)
(* code queries the nodes that come before it in the level first, and       *)
(* discards what it read.)                                                  *)
CycleFound(r) ==
  /\ At(r, "search")
  /\ req[r].source \in req[r].todo
  /\ Finish(r)
  /\ UNCHANGED <<gone, row, links, late>>

(* Mistaken QueryNode: a node already in the frontier of the level is taken *)
(* for visited.                                                             *)
QueryNodeForgets(r) ==
  /\ At(r, "search")
  /\ req[r].source \notin req[r].todo
  /\ \E n \in req[r].todo \ req[r].seen :
       req' = [req EXCEPT ![r].seen = @ \cup {n}, ![r].next = Targets(n)]
  /\ UNCHANGED <<gone, row, links, late>>

(* SELECT target_id of one node of the level not visited before. *)
QueryNode(r) ==
  /\ At(r, "search")
  /\ req[r].source \notin req[r].todo
  /\ \E n \in req[r].todo \ req[r].seen :
       req' = [req EXCEPT ![r].seen = @ \cup {n}, ![r].next = @ \cup Targets(n)]
  /\ UNCHANGED <<gone, row, links, late>>

(* Mistaken NextLevel: the depth is tested before it is counted up. *)
NextLevelEarly(r) ==
  /\ At(r, "search")
  /\ req[r].source \notin req[r].todo
  /\ req[r].todo \subseteq req[r].seen
  /\ IF req[r].next # {} /\ req[r].depth + 2 < MaxDepth
       THEN req' = [req EXCEPT ![r].todo = req[r].next, ![r].next = {},
                               ![r].depth = @ + 1]
       ELSE Goto(r, "insertLink")
  /\ UNCHANGED <<gone, row, links, late>>

(* The level is through: the next one, unless it is empty or too deep. *)
NextLevel(r) ==
  /\ At(r, "search")
  /\ req[r].source \notin req[r].todo
  /\ req[r].todo \subseteq req[r].seen
  /\ IF req[r].next # {} /\ req[r].depth + 1 < MaxDepth
       THEN req' = [req EXCEPT ![r].todo = req[r].next, ![r].next = {},
                               ![r].depth = @ + 1]
       ELSE Goto(r, "insertLink")
  /\ UNCHANGED <<gone, row, links, late>>

(* Mistaken InsertLink: plan_id is passed for source_id. *)
InsertLinkShifted(r) ==
  LET l == <<PlanOf[req[r].source], req[r].target>>
  IN /\ At(r, "insertLink")
     /\ links' = links \cup {l}
     /\ Finish(r)
     /\ UNCHANGED <<gone, row, late>>

(* INSERT INTO activity_links; a duplicate fails on UNIQUE.  Neither end is *)
(* looked at again: the foreign keys accept soft-deleted activities.        *)
InsertLink(r) ==
  LET l == <<req[r].source, req[r].target>>
  IN /\ At(r, "insertLink")
     /\ links' = links \cup {l}
     /\ late' = IF l \in links THEN late
                ELSE IF req[r].stale \/ Closing({l[1], l[2]}, None) THEN late \cup {l}
                ELSE late \ {l}
     /\ Finish(r)
     /\ UNCHANGED <<gone, row>>

(* DeleteActivityLink: one DELETE. *)
DeleteActivityLink(l) ==
  /\ "deleteLink" \in Ops
  /\ l \in links
  /\ links' = links \ {l}
  /\ UNCHANGED <<gone, row, req, late>>

-----------------------------------------------------------------------------
(* DeleteActivity, DeletePlan. *)

(* BEGIN; UPDATE activities SET deleted_at WHERE deleted_at IS NULL. *)
DeleteMark(r, a) ==
  /\ "deleteActivity" \in Ops
  /\ At(r, "idle")
  /\ row[a] = "live"
  /\ ActivityFree(a)
  /\ req' = [req EXCEPT ![r] = [Idle EXCEPT !.pc = "dropLinks", !.source = a,
                                            !.hold = {a}]]
  /\ UNCHANGED <<gone, row, links, late>>

(* DELETE FROM activity_links WHERE source_id or target_id: the links there *)
(* are now.                                                                 *)
DropLinks(r) ==
  /\ At(r, "dropLinks")
  /\ req' = [req EXCEPT ![r].pc = "commitActivity", ![r].drop = Touching(req[r].source)]
  /\ UNCHANGED <<gone, row, links, late>>

(* Mistaken CommitActivity: only the links from the activity are deleted. *)
CommitActivityHalf(r) ==
  LET a == req[r].source
  IN /\ At(r, "commitActivity")
     /\ row' = [row EXCEPT ![a] = "deleted"]
     /\ links' = links \ {l \in req[r].drop : l[1] = a}
     /\ req' = MarkStale({a}, None, r)
     /\ UNCHANGED <<gone, late>>

(* COMMIT. *)
CommitActivity(r) ==
  LET a == req[r].source
  IN /\ At(r, "commitActivity")
     /\ row' = [row EXCEPT ![a] = "deleted"]
     /\ links' = links \ req[r].drop
     /\ req' = MarkStale({a}, None, r)
     /\ UNCHANGED <<gone, late>>

(* BEGIN; UPDATE plans SET deleted_at WHERE deleted_at IS NULL. *)
DeletePlanMark(r, p) ==
  /\ "deletePlan" \in Ops
  /\ At(r, "idle")
  /\ p \notin gone
  /\ PlanFree(p)
  /\ req' = [req EXCEPT ![r] = [Idle EXCEPT !.pc = "dropActivities", !.plan = p]]
  /\ UNCHANGED <<gone, row, links, late>>

(* UPDATE activities SET deleted_at WHERE plan_id AND deleted_at IS NULL:   *)
(* waits for the rows an open DeleteActivity holds.                         *)
DropActivities(r) ==
  /\ At(r, "dropActivities")
  /\ \A a \in LiveIn(req[r].plan) : ActivityFree(a)
  /\ req' = [req EXCEPT ![r].pc = "commitPlan", ![r].hold = LiveIn(req[r].plan)]
  /\ UNCHANGED <<gone, row, links, late>>

(* COMMIT.  The links of the plan stay. *)
CommitPlan(r) ==
  /\ At(r, "commitPlan")
  /\ gone' = gone \cup {req[r].plan}
  /\ row' = [a \in Activities |-> IF a \in req[r].hold THEN "deleted" ELSE row[a]]
  /\ req' = MarkStale(req[r].hold, req[r].plan, r)
  /\ UNCHANGED <<links, late>>

-----------------------------------------------------------------------------
(* The next statement of r fails or its client goes away: nothing more of r *)
(* runs, an open transaction rolls back.                                    *)
Fail(r) ==
  /\ "fail" \in Ops
  /\ ~At(r, "idle")
  /\ Finish(r)
  /\ UNCHANGED <<gone, row, links, late>>

Create(r) ==
  \/ LinkReadTarget(r) \/ CycleFound(r) \/ QueryNode(r) \/ NextLevel(r)
  \/ InsertLink(r)

Step(r) ==
  \/ InsertActivity(r) \/ Create(r)
  \/ DropLinks(r) \/ CommitActivity(r) \/ DropActivities(r) \/ CommitPlan(r)

Start(r) ==
  \/ \E p \in Plans : ActivityCheckPlan(r, p) \/ DeletePlanMark(r, p)
  \/ \E s, t \in Activities : LinkReadSource(r, s, t)
  \/ \E a \in Activities : DeleteMark(r, a)

Next ==
  \/ \E r \in Requests : Start(r) \/ Step(r) \/ Fail(r)
  \/ \E l \in links : DeleteActivityLink(l)

Spec == Init /\ [][Next]_vars

-----------------------------------------------------------------------------
(* Properties. *)

(* DeleteActivity and DeletePlan sweep what they delete: a link to a deleted *)
(* activity (of a plan that is still there), and an activity left in a       *)
(* deleted plan, come from requests that had made their checks before the    *)
(* deletion was committed.                                                   *)
StragglersWereInFlight ==
  /\ \A l \in links :
       PlanOf[l[1]] \notin gone /\ "deleted" \in {row[l[1]], row[l[2]]} => l \in late
  /\ \A a \in Activities : row[a] = "live" /\ PlanOf[a] \in gone => a \in late

(* The check of hasCycle and the INSERT that follows it are far apart, yet   *)
(* they work like one atomic step that adds a link only if its target does   *)
(* not reach its source at that moment, whatever is deleted meanwhile: as    *)
(* long as one link creation runs in a plan at a time and no plan has more   *)
(* than maxDepth activities.                                                 *)
Dag == INSTANCE LinkDag WITH Node <- Activities, edges <- links
RefinesLinkDag == Dag!Spec

(* The activity links never form a cycle. *)
Acyclic == Dag!Acyclic
=============================================================================
