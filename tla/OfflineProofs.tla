---------------------------- MODULE OfflineProofs ----------------------------
(***************************************************************************)
(* Proofs about OfflineQueue, for any number of records, drafts, edits,    *)
(* passes and faults: types and captured writes first, then, on the forms  *)
(* a step can take, how many passes run, in what order they send, and how  *)
(* often a draft is made.                                                  *)
(***************************************************************************)
EXTENDS OfflineQueue, FiniteSetTheorems, WellFoundedInduction, TLAPS

(* There are finitely many writes, so what was queued can be counted. *)
LEMMA WritesFinite == IsFiniteSet(Writes)
  <1> DEFINE P == Targets \X (1..MaxEdits)
             f == [x \in P |-> [target |-> x[1], version |-> x[2]]]
             R == {f[x] : x \in P}
  <1>1. IsFiniteSet(Targets) /\ IsFiniteSet(1..MaxEdits)
    <2>1. IsFiniteSet(Docs) /\ IsFiniteSet(Drafts) /\ MaxEdits \in Int
      BY OfflineConstants
    <2>2. IsFiniteSet(Docs \cup Drafts)
      BY <2>1, FS_Union
    <2>3. IsFiniteSet(1..MaxEdits)
      BY <2>1, FS_Interval
    <2> QED
      BY <2>2, <2>3 DEF Targets
  <1>2. IsFiniteSet(P)
    BY <1>1, FS_Product
  <1>3. IsFiniteSet(R)
    <2>1. f \in Surjection(P, R)
      BY DEF Surjection
    <2> QED
      BY <1>2, <2>1, FS_Surjection
  <1>4. Writes \subseteq R
    <2> SUFFICES ASSUME NEW w \in Writes PROVE w \in R
      OBVIOUS
    <2>1. w.target \in Targets /\ w.version \in 1..MaxEdits
          /\ w = [target |-> w.target, version |-> w.version]
      BY OfflineConstants DEF Writes, Targets
    <2>2. <<w.target, w.version>> \in P /\ f[<<w.target, w.version>>] = w
      BY <2>1
    <2> QED
      BY <2>2
  <1> QED
    BY <1>3, <1>4, FS_Subset

LEMMA SendersFinite == IsFiniteSet(Senders)
  <1>1. IsFiniteSet(Docs) /\ IsFiniteSet(Drafts) /\ IsFiniteSet(Passes)
    BY OfflineConstants
  <1>2. IsFiniteSet(Docs \cup Drafts)
    BY <1>1, FS_Union
  <1>3. IsFiniteSet((Docs \cup Drafts) \cup Passes)
    BY <1>1, <1>2, FS_Union
  <1> QED
    BY <1>3 DEF Senders, Targets

(* A set of natural numbers that is not empty has a least element. *)
LEMMA LeastNatural ==
  ASSUME NEW T \in SUBSET Nat, T # {}
  PROVE  \E x \in T : \A y \in T : x <= y
  <1> DEFINE R == OpToRel(<, Nat)
  <1>1. PICK x \in T : \A y \in T : <<y, x>> \notin R
    BY NatLessThanWellFounded, WFMin, Zenon
  <1>2. \A y \in T : ~(y < x)
    BY <1>1 DEF OpToRel
  <1> QED
    BY <1>2

(* The queue has a first item as long as it has any. *)
LEMMA FirstIsFirst ==
  ASSUME stamp \in [Writes -> Nat], NEW q \in SUBSET Writes, q # {}
  PROVE  /\ First(q) \in q
         /\ \A u \in q : stamp[First(q)] <= stamp[u]
  <1> DEFINE T == {stamp[u] : u \in q}
  <1>1. T \in SUBSET Nat /\ T # {}
    OBVIOUS
  <1>2. PICK x \in T : \A y \in T : x <= y
    BY <1>1, LeastNatural, Zenon
  <1>3. \E w \in q : \A u \in q : stamp[w] <= stamp[u]
    BY <1>2
  <1> QED
    BY <1>3 DEF First

-----------------------------------------------------------------------------
(* The parts that several actions share. *)

(* What the requests under way look like. *)
CallShape ==
  /\ call \in [Senders -> Call]
  /\ \A s \in Senders : call[s].state # "none" => call[s].write \in Writes

(* What sync() changes besides the queue. *)
PassShape ==
  /\ CallShape
  /\ left \in [Passes -> SUBSET Writes] /\ skipped \in [Passes -> SUBSET Writes]
  /\ syncing \in BOOLEAN /\ reconnected \in BOOLEAN
  /\ doubtful \subseteq Drafts

(* Nobody's request is answered by this step. *)
NothingAnswered == \A s \in Senders : call'[s] = call[s] \/ call'[s].state # "ok"

(* A request starts, or ends. *)
LEMMA SetCall ==
  ASSUME CallShape, NEW s \in Senders, NEW c \in Call,
         c.state # "none" => c.write \in Writes,
         call' = [call EXCEPT ![s] = c]
  PROVE  CallShape' /\ (c.state # "ok" => NothingAnswered)
  BY DEF CallShape, NothingAnswered

LEMMA CallForms ==
  /\ NoCall \in Call /\ NoCall.state = "none"
  /\ \A w \in Writes : Sent(w) \in Call /\ Sent(w).state = "sent" /\ Sent(w).write = w
  BY DEF NoCall, Sent, Call

(* The two changes of call in sync(). *)
LEMMA EndOrSend ==
  ASSUME CallShape, NEW s \in Senders,
         \/ call' = [call EXCEPT ![s] = NoCall]
         \/ \E w \in Writes : call' = [call EXCEPT ![s] = Sent(w)]
  PROVE  CallShape' /\ NothingAnswered
  <1>1. CASE call' = [call EXCEPT ![s] = NoCall]
    <2> DEFINE c == NoCall
    <2>1. c \in Call /\ c.state = "none"
      BY CallForms
    <2> HIDE DEF c
    <2>2. call' = [call EXCEPT ![s] = c]
      BY <1>1 DEF c
    <2> QED
      BY <2>1, <2>2, SetCall
  <1>2. CASE \E w \in Writes : call' = [call EXCEPT ![s] = Sent(w)]
    <2>1. PICK w \in Writes : call' = [call EXCEPT ![s] = Sent(w)]
      BY <1>2
    <2> DEFINE c == Sent(w)
    <2>2. c \in Call /\ c.state = "sent" /\ c.write = w
      BY CallForms
    <2>3. call' = [call EXCEPT ![s] = c]
      BY <2>1
    <2> HIDE DEF c
    <2> QED
      BY <2>2, <2>3, SetCall
  <1> QED
    BY <1>1, <1>2

LEMMA ContinueShape ==
  ASSUME OfflineConstants, PassShape, stamp \in [Writes -> Nat], NEW p \in Passes,
         NEW queued \in SUBSET Writes, NEW doubts \in SUBSET Drafts,
         NEW skips \in SUBSET Writes, Continue(p, queued, doubts, skips)
  PROVE  PassShape' /\ NothingAnswered
  <1> DEFINE rest == left[p] \cap queued
             w == First(rest)
  <1>1. p \in Senders /\ rest \in SUBSET Writes
    BY DEF Senders, PassShape
  <1>2. CASE rest = {}
    <2>1. /\ call' = [call EXCEPT ![p] = NoCall]
          /\ left' = [left EXCEPT ![p] = {}]
          /\ skipped' = [skipped EXCEPT ![p] = {}]
          /\ syncing' = FALSE
          /\ doubtful' = doubts
          /\ reconnected' = (reconnected /\ \E q \in Passes \ {p} : Running(q))
      BY <1>2 DEF Continue
    <2>2. CallShape' /\ NothingAnswered
      BY <1>1, <2>1, EndOrSend DEF PassShape
    <2>3. reconnected' \in BOOLEAN
      BY <2>1 DEF PassShape
    <2> QED
      BY <2>1, <2>2, <2>3 DEF PassShape
  <1>3. CASE rest # {}
    <2>1. /\ call' = [call EXCEPT ![p] = Sent(w)]
          /\ left' = [left EXCEPT ![p] = rest \ {w}]
          /\ skipped' = [skipped EXCEPT ![p] = skips]
          /\ doubtful' = doubts \cup Twice(w)
          /\ UNCHANGED <<syncing, reconnected>>
      BY <1>3 DEF Continue
    <2>2. w \in Writes
      BY <1>1, <1>3, FirstIsFirst
    <2>3. CallShape' /\ NothingAnswered
      BY <1>1, <2>1, <2>2, EndOrSend DEF PassShape
    <2>4. doubtful' \subseteq Drafts
      BY <2>1 DEF Twice, AwaitedDrafts
    <2> HIDE DEF w, rest
    <2> QED
      BY <1>1, <2>1, <2>3, <2>4 DEF PassShape
  <1> QED
    BY <1>2, <1>3

LEMMA BeginShape ==
  ASSUME OfflineConstants, PassShape, stamp \in [Writes -> Nat], NEW p \in Passes,
         queue \in SUBSET Writes, queue # {}, Begin(p), reconnected' \in BOOLEAN
  PROVE  PassShape' /\ NothingAnswered
  <1> DEFINE w == First(queue)
  <1>1. p \in Senders /\ w \in Writes
    BY FirstIsFirst DEF Senders
  <1>2. /\ call' = [call EXCEPT ![p] = Sent(w)]
        /\ left' = [left EXCEPT ![p] = queue \ {w}]
        /\ skipped' = [skipped EXCEPT ![p] = {}]
        /\ doubtful' = doubtful \cup Twice(w)
        /\ syncing' = TRUE
    BY DEF Begin
  <1> HIDE DEF w
  <1>3. CallShape' /\ NothingAnswered
    BY <1>1, <1>2, EndOrSend DEF PassShape
  <1>4. doubtful' \subseteq Drafts
    BY <1>2 DEF PassShape, Twice, AwaitedDrafts
  <1> QED
    BY <1>2, <1>3, <1>4 DEF PassShape

LEMMA AutoSyncShape ==
  ASSUME OfflineConstants, PassShape, stamp \in [Writes -> Nat], queue \in SUBSET Writes,
         \/ AutoSync
         \/ UNCHANGED <<call, left, syncing, doubtful, skipped, reconnected>>
  PROVE  PassShape' /\ NothingAnswered
  <1>1. CASE UNCHANGED <<call, left, syncing, doubtful, skipped, reconnected>>
    BY <1>1 DEF PassShape, CallShape, NothingAnswered
  <1>2. CASE AutoSync /\ queue # {}
    <2>1. PICK p \in Passes : Begin(p) /\ reconnected' = SomePassRuns
      BY <1>2 DEF AutoSync
    <2>2. reconnected' \in BOOLEAN
      BY <2>1 DEF SomePassRuns
    <2> QED
      BY <1>2, <2>1, <2>2, BeginShape
  <1> QED
    BY <1>1, <1>2 DEF AutoSync

(* The rest of TypeOK. *)
RestShape ==
  /\ online \in BOOLEAN
  /\ shell \in {"signIn", "loading", "open"}
  /\ queue \subseteq Writes /\ dropped \subseteq Writes /\ reached \subseteq Writes
  /\ stamp \in [Writes -> Nat]
  /\ made \in [Targets -> 0..MaxEdits]
  /\ late \in [Writes -> Nat] /\ rows \in [Drafts -> Nat]
  /\ stored \in [Docs -> 0..MaxEdits]
  /\ faults \in 0..MaxFaults

LEMMA Parts ==
  /\ TypeOK => PassShape /\ RestShape
  /\ PassShape' /\ RestShape' => TypeOK'
  BY DEF TypeOK, PassShape, CallShape, RestShape

(* A stored answer is the answer to a write that has reached the server. *)
Answered == \A s \in Senders : call[s].state = "ok" => call[s].write \in reached

IInv == TypeOK /\ Answered /\ CapturedWritesSurvive

(* Every step but Handle keeps IInv for the same reason. *)
LEMMA Survive ==
  ASSUME IInv, TypeOK', NothingAnswered,
         reached \subseteq reached', dropped \subseteq dropped',
         queue \subseteq queue' \cup reached' \cup dropped',
         \A w \in Writes : stamp'[w] > 0 => stamp[w] > 0 \/ w \in queue'
  PROVE  IInv'
  <1>1. Answered'
    BY DEF IInv, Answered, NothingAnswered
  <1>2. CapturedWritesSurvive'
    BY DEF IInv, CapturedWritesSurvive
  <1> QED
    BY <1>1, <1>2 DEF IInv

(* A write the server stores. *)
LEMMA StoreShape ==
  ASSUME OfflineConstants, RestShape, NEW w \in Writes, Store(w)
  PROVE  /\ rows' \in [Drafts -> Nat] /\ stored' \in [Docs -> 0..MaxEdits]
         /\ reached' \subseteq Writes /\ reached \subseteq reached' /\ w \in reached'
  <1>1. w.version \in 0..MaxEdits
    BY OfflineConstants DEF Writes
  <1> QED
    BY <1>1 DEF RestShape, Store

LEMMA EnqueueShape ==
  ASSUME RestShape, NEW w \in Writes, Enqueue(w)
  PROVE  /\ queue' \subseteq Writes /\ queue' = queue \cup {w}
         /\ stamp' \in [Writes -> Nat]
         /\ \A u \in Writes : stamp'[u] > 0 => stamp[u] > 0 \/ u \in queue'
  <1> DEFINE S == {u \in Writes : stamp[u] > 0}
  <1>1. Cardinality(S) \in Nat
    BY WritesFinite, FS_Subset, FS_CardinalityType
  <1>2. stamp' = [stamp EXCEPT ![w] = 1 + Cardinality(S)] /\ queue' = queue \cup {w}
    BY DEF Enqueue
  <1> HIDE DEF S
  <1> QED
    BY <1>1, <1>2 DEF RestShape

LEMMA UnansweredShape ==
  ASSUME OfflineConstants, TypeOK, NEW s \in Senders, Unanswered(s)
  PROVE  /\ late' \in [Writes -> Nat] /\ faults' \in 0..MaxFaults
         /\ call[s].state # "none" /\ call[s].write \in Writes
         /\ Doubt(s) \subseteq Drafts
  <1>1. call[s].state # "none" /\ call[s].write \in Writes
    BY DEF Unanswered, TypeOK
  <1>2. faults' \in 0..MaxFaults
    BY OfflineConstants DEF Unanswered, TypeOK
  <1>3. late' \in [Writes -> Nat]
    BY <1>1 DEF Unanswered, TypeOK
  <1>4. Doubt(s) \subseteq Drafts
    BY DEF Doubt, TypeOK
  <1> QED
    BY <1>1, <1>2, <1>3, <1>4

LEMMA ReloadKeeps ==
  ASSUME OfflineConstants, IInv, NEW next \in {"loading", "signIn"}, Reload(next)
  PROVE  IInv'
  <1>1. PICK on \in SUBSET {s \in Senders : call[s].state = "sent"} :
          late' = [w \in Writes |-> late[w] + Cardinality({s \in on : call[s].write = w})]
    BY DEF Reload
  <1>2. \A w \in Writes : Cardinality({s \in on : call[s].write = w}) \in Nat
    BY SendersFinite, FS_Subset, FS_CardinalityType
  <1>3. late' \in [Writes -> Nat]
    BY <1>1, <1>2 DEF IInv, TypeOK
  <1>4. CallShape' /\ NothingAnswered
    BY CallForms DEF Reload, CallShape, NothingAnswered
  <1>5. PassShape'
    BY <1>4 DEF Reload, PassShape, IInv, TypeOK, AwaitedDrafts
  <1>6. RestShape'
    BY <1>3, OfflineConstants DEF Reload, RestShape, IInv, TypeOK, server
  <1>7. TypeOK'
    BY <1>5, <1>6, Parts
  <1>8. UNCHANGED <<queue, stamp, reached, dropped>>
    BY DEF Reload, server
  <1> QED
    BY <1>4, <1>7, <1>8, Survive

-----------------------------------------------------------------------------
(* Every step keeps IInv. *)

LEMMA PageKeeps ==
  ASSUME OfflineConstants, IInv, NEW t \in Targets,
         Save(t) \/ PageAnswered(t) \/ PageUnanswered(t)
  PROVE  IInv'
  <1>0. TypeOK /\ PassShape /\ RestShape /\ CallShape /\ t \in Senders
    BY Parts DEF IInv, PassShape, Senders
  <1>1. CASE Save(t)
    <2> DEFINE w == [target |-> t, version |-> made[t] + 1]
    <2>1. w \in Writes /\ made' = [made EXCEPT ![t] = @ + 1]
          /\ call' = [call EXCEPT ![t] = Sent(w)]
      BY <1>1 DEF Save
    <2>2. made[t] + 1 \in 0..MaxEdits
      <3>1. w.version \in 1..MaxEdits
        BY <2>1, OfflineConstants DEF Writes
      <3> QED
        BY <3>1, OfflineConstants
    <2>3. CallShape' /\ NothingAnswered
      BY <1>0, <2>1, EndOrSend
    <2>4. UNCHANGED <<online, syncing, shell, queue, stamp, left, late, faults, doubtful,
                      stored, rows, reached, dropped, skipped, reconnected>>
      BY <1>1 DEF Save, server, ghosts
    <2>5. TypeOK'
      BY <1>0, <2>1, <2>2, <2>3, <2>4, Parts DEF PassShape, RestShape
    <2> QED
      BY <2>3, <2>4, <2>5, Survive
  <1>2. CASE PageAnswered(t)
    <2>1. CallShape' /\ NothingAnswered
      BY <1>0, <1>2, EndOrSend DEF PageAnswered
    <2>2. UNCHANGED <<online, client, late, faults, doubtful, server, ghosts>>
      BY <1>2 DEF PageAnswered
    <2>3. TypeOK'
      BY <1>0, <2>1, <2>2, Parts DEF PassShape, RestShape, client, server, ghosts
    <2> QED
      BY <2>1, <2>2, <2>3, Survive DEF client, server, ghosts
  <1>3. CASE PageUnanswered(t)
    <2> DEFINE w == call[t].write
    <2>1. Unanswered(t) /\ Enqueue(w) /\ call' = [call EXCEPT ![t] = NoCall]
          /\ doubtful' = Doubt(t)
          /\ UNCHANGED <<online, syncing, shell, made, left, stored, rows, reached,
                         dropped, skipped, reconnected>>
      BY <1>3 DEF PageUnanswered, server, ghosts
    <2>2. /\ late' \in [Writes -> Nat] /\ faults' \in 0..MaxFaults
          /\ w \in Writes /\ doubtful' \subseteq Drafts
      BY <1>0, <2>1, UnansweredShape
    <2>3. /\ queue' \subseteq Writes /\ queue' = queue \cup {w}
          /\ stamp' \in [Writes -> Nat]
          /\ \A u \in Writes : stamp'[u] > 0 => stamp[u] > 0 \/ u \in queue'
      BY <1>0, <2>1, <2>2, EnqueueShape
    <2>4. CallShape' /\ NothingAnswered
      BY <1>0, <2>1, EndOrSend
    <2>5. TypeOK'
      BY <1>0, <2>1, <2>2, <2>3, <2>4, Parts DEF PassShape, RestShape
    <2> QED
      BY <2>1, <2>3, <2>4, <2>5, Survive
  <1> QED
    BY <1>1, <1>2, <1>3

LEMMA PassKeeps ==
  ASSUME OfflineConstants, IInv, NEW p \in Passes,
         Press(p) \/ PassAnswered(p) \/ PassRefused(p) \/ PassUnanswered(p)
  PROVE  IInv'
  <1>0. /\ TypeOK /\ PassShape /\ RestShape /\ CallShape /\ p \in Senders
        /\ stamp \in [Writes -> Nat] /\ queue \in SUBSET Writes
        /\ doubtful \in SUBSET Drafts /\ skipped[p] \in SUBSET Writes
    BY Parts DEF IInv, PassShape, RestShape, Senders
  <1>1. CASE Press(p)
    <2>1. queue # {} /\ Begin(p)
          /\ UNCHANGED <<online, shell, queue, stamp, made, late, faults,
                         stored, rows, reached, dropped, reconnected>>
      BY <1>1 DEF Press, server
    <2>2. PassShape' /\ NothingAnswered
      BY <1>0, <2>1, BeginShape DEF PassShape
    <2>3. TypeOK'
      BY <1>0, <2>1, <2>2, Parts DEF RestShape
    <2> QED
      BY <2>1, <2>2, <2>3, Survive
  <1>2. CASE PassAnswered(p)
    <2> DEFINE w == call[p].write
    <2>1. call[p].state = "ok" /\ queue' = queue \ {w}
          /\ Continue(p, queue', doubtful, skipped[p])
          /\ UNCHANGED <<online, shell, stamp, made, late, faults,
                         stored, rows, reached, dropped>>
      BY <1>2 DEF PassAnswered, server
    <2>2. queue' \in SUBSET Writes
      BY <1>0, <2>1
    <2>3. PassShape' /\ NothingAnswered
      BY <1>0, <2>1, <2>2, ContinueShape
    <2>4. TypeOK'
      BY <1>0, <2>1, <2>2, <2>3, Parts DEF RestShape
    <2>5. w \in reached
      BY <1>0, <2>1 DEF IInv, Answered
    <2>6. queue \subseteq queue' \cup reached'
      BY <2>1, <2>5
    <2>7. \A u \in Writes : stamp'[u] > 0 => stamp[u] > 0
      BY <2>1
    <2> QED
      BY <2>1, <2>3, <2>4, <2>6, <2>7, Survive
  <1>3. CASE PassRefused(p)
    <2>1. Refused(p) /\ Continue(p, queue, doubtful, skipped[p] \cup {call[p].write})
          /\ UNCHANGED <<online, shell, queue, stamp, made, late, faults,
                         stored, rows, reached, dropped>>
      BY <1>3 DEF PassRefused, server
    <2>2. skipped[p] \cup {call[p].write} \in SUBSET Writes
      BY <1>0, <2>1 DEF Refused, CallShape
    <2>3. PassShape' /\ NothingAnswered
      BY <1>0, <2>1, <2>2, ContinueShape
    <2>4. TypeOK'
      BY <1>0, <2>1, <2>3, Parts DEF RestShape
    <2> QED
      BY <2>1, <2>3, <2>4, Survive
  <1>4. CASE PassUnanswered(p)
    <2>1. Unanswered(p) /\ Continue(p, queue, Doubt(p), skipped[p] \cup {call[p].write})
          /\ UNCHANGED <<online, shell, queue, stamp, made, stored, rows, reached, dropped>>
      BY <1>4 DEF PassUnanswered, server
    <2>2. /\ late' \in [Writes -> Nat] /\ faults' \in 0..MaxFaults
          /\ call[p].write \in Writes /\ Doubt(p) \in SUBSET Drafts
      BY <1>0, <2>1, UnansweredShape
    <2>3. skipped[p] \cup {call[p].write} \in SUBSET Writes
      BY <1>0, <2>2
    <2>4. PassShape' /\ NothingAnswered
      BY <1>0, <2>1, <2>2, <2>3, ContinueShape
    <2>5. TypeOK'
      BY <1>0, <2>1, <2>2, <2>4, Parts DEF RestShape
    <2> QED
      BY <2>1, <2>4, <2>5, Survive
  <1> QED
    BY <1>1, <1>2, <1>3, <1>4

LEMMA WorldKeeps ==
  ASSUME OfflineConstants, IInv, GoOnline \/ GoOffline \/ Mount \/ SignIn \/ SignOut
  PROVE  IInv'
  <1>0. /\ TypeOK /\ PassShape /\ RestShape /\ CallShape
        /\ stamp \in [Writes -> Nat] /\ queue \in SUBSET Writes
    BY Parts DEF IInv, PassShape, RestShape
  <1>1. CASE GoOnline \/ Mount
    <2>1. /\ online' \in BOOLEAN /\ shell' \in {"signIn", "loading", "open"}
          /\ UNCHANGED <<queue, stamp, made, late, faults, stored, rows, reached, dropped>>
          /\ AutoSync \/ UNCHANGED <<call, left, syncing, doubtful, skipped, reconnected>>
      BY <1>0, <1>1 DEF GoOnline, Mount, server, RestShape
    <2>2. PassShape' /\ NothingAnswered
      BY <1>0, <2>1, AutoSyncShape
    <2>3. TypeOK'
      BY <1>0, <2>1, <2>2, Parts DEF RestShape
    <2> QED
      BY <2>1, <2>2, <2>3, Survive
  <1>2. CASE GoOffline
    <2>1. online' = FALSE
          /\ UNCHANGED <<call, syncing, shell, queue, stamp, made, left, late, faults, doubtful,
                         stored, rows, reached, dropped, skipped, reconnected>>
      BY <1>2 DEF GoOffline, client, server, ghosts
    <2>2. PassShape' /\ NothingAnswered
      BY <1>0, <2>1 DEF PassShape, CallShape, NothingAnswered
    <2>3. TypeOK'
      BY <1>0, <2>1, <2>2, Parts DEF RestShape
    <2> QED
      BY <2>1, <2>2, <2>3, Survive
  <1>3. CASE SignIn \/ SignOut
    <2>1. /\ queue' = {} /\ dropped' = dropped \cup queue
          /\ shell' \in {"signIn", "loading"}
          /\ faults' \in 0..MaxFaults
          /\ UNCHANGED <<online, call, syncing, stamp, made, left, late, doubtful,
                         stored, rows, reached, skipped, reconnected>>
      BY <1>0, <1>3, OfflineConstants DEF SignIn, SignOut, ClearQueue, server, RestShape
    <2>2. PassShape' /\ NothingAnswered
      BY <1>0, <2>1 DEF PassShape, CallShape, NothingAnswered
    <2>3. TypeOK'
      BY <1>0, <2>1, <2>2, Parts DEF RestShape
    <2>4. \A w \in Writes : stamp'[w] > 0 => stamp[w] > 0
      BY <2>1
    <2> QED
      BY <2>1, <2>2, <2>3, <2>4, Survive
  <1> QED
    BY <1>1, <1>2, <1>3

LEMMA ServerKeeps ==
  ASSUME OfflineConstants, IInv,
         (\E s \in Senders : Handle(s)) \/ (\E w \in Writes : ArriveLate(w))
  PROVE  IInv'
  <1>0. TypeOK /\ PassShape /\ RestShape /\ CallShape
    BY Parts DEF IInv, PassShape
  <1>1. CASE \E s \in Senders : Handle(s)
    <2>1. PICK s \in Senders : Handle(s)
      BY <1>1
    <2> DEFINE w == call[s].write
               c == [call[s] EXCEPT !.state = "ok"]
    <2>2. w \in Writes /\ Store(w) /\ call' = [call EXCEPT ![s] = c]
          /\ UNCHANGED <<online, syncing, shell, queue, stamp, made, left, late, faults,
                         doubtful, dropped, skipped, reconnected>>
      BY <1>0, <2>1 DEF Handle, CallShape, client, ghosts
    <2>3. c \in Call /\ c.state = "ok" /\ c.write = w
      <3>1. call[s] \in Call
        BY <1>0 DEF CallShape
      <3> QED
        BY <3>1 DEF Call
    <2>4. /\ rows' \in [Drafts -> Nat] /\ stored' \in [Docs -> 0..MaxEdits]
          /\ reached' \subseteq Writes /\ reached \subseteq reached' /\ w \in reached'
      BY <1>0, <2>2, StoreShape
    <2> HIDE DEF c
    <2>5. CallShape'
      BY <1>0, <2>2, <2>3, SetCall
    <2>6. TypeOK'
      BY <1>0, <2>2, <2>4, <2>5, Parts DEF PassShape, RestShape
    <2>7. Answered'
      <3> SUFFICES ASSUME NEW q \in Senders, call'[q].state = "ok"
                   PROVE  call'[q].write \in reached'
        BY DEF Answered
      <3>1. CASE q = s
        BY <1>0, <2>2, <2>3, <2>4, <3>1 DEF CallShape
      <3>2. CASE q # s
        BY <1>0, <2>2, <2>4, <3>2 DEF CallShape, IInv, Answered
      <3> QED
        BY <3>1, <3>2
    <2>8. CapturedWritesSurvive'
      BY <2>2, <2>4 DEF IInv, CapturedWritesSurvive
    <2> QED
      BY <2>6, <2>7, <2>8 DEF IInv
  <1>2. CASE \E w \in Writes : ArriveLate(w)
    <2>1. PICK w \in Writes : ArriveLate(w)
      BY <1>2
    <2>2. /\ Store(w) /\ late[w] > 0 /\ late' = [late EXCEPT ![w] = @ - 1]
          /\ UNCHANGED <<online, call, syncing, shell, queue, stamp, made, left, faults,
                         doubtful, dropped, skipped, reconnected>>
      BY <2>1 DEF ArriveLate, client, ghosts
    <2>3. /\ rows' \in [Drafts -> Nat] /\ stored' \in [Docs -> 0..MaxEdits]
          /\ reached' \subseteq Writes /\ reached \subseteq reached'
      BY <1>0, <2>2, StoreShape
    <2>4. late' \in [Writes -> Nat]
      BY <1>0, <2>2 DEF RestShape
    <2>5. PassShape' /\ NothingAnswered
      BY <1>0, <2>2 DEF PassShape, CallShape, NothingAnswered
    <2>6. TypeOK'
      BY <1>0, <2>2, <2>3, <2>4, <2>5, Parts DEF RestShape
    <2> QED
      BY <2>2, <2>3, <2>5, <2>6, Survive
  <1> QED
    BY <1>1, <1>2

-----------------------------------------------------------------------------
LEMMA Initially == OfflineConstants /\ Init => IInv
  <1> SUFFICES ASSUME OfflineConstants, Init PROVE IInv
    OBVIOUS
  <1>1. TypeOK
    <2>1. CallShape
      BY CallForms DEF Init, CallShape
    <2>2. PassShape
      BY <2>1 DEF Init, PassShape
    <2>3. RestShape
      BY OfflineConstants DEF Init, RestShape
    <2> QED
      BY <2>2, <2>3 DEF TypeOK, PassShape, CallShape, RestShape
  <1>2. Answered
    BY CallForms DEF Init, Answered
  <1>3. CapturedWritesSurvive
    BY DEF Init, CapturedWritesSurvive
  <1> QED
    BY <1>1, <1>2, <1>3 DEF IInv

LEMMA Stays == OfflineConstants /\ IInv /\ [Next]_vars => IInv'
  <1> SUFFICES ASSUME OfflineConstants, IInv, [Next]_vars PROVE IInv'
    OBVIOUS
  <1>1. CASE \E t \in Targets : Save(t) \/ PageAnswered(t) \/ PageUnanswered(t)
    BY <1>1, PageKeeps
  <1>2. CASE \E p \in Passes :
               Press(p) \/ PassAnswered(p) \/ PassRefused(p) \/ PassUnanswered(p)
    BY <1>2, PassKeeps
  <1>3. CASE (\E s \in Senders : Handle(s)) \/ (\E w \in Writes : ArriveLate(w))
    BY <1>3, ServerKeeps
  <1>4. CASE ReloadPage \/ \E s \in Senders : SessionEnds(s)
    <2>1. \E next \in {"loading", "signIn"} : Reload(next)
      BY <1>4 DEF ReloadPage, SessionEnds
    <2> QED
      BY <2>1, ReloadKeeps
  <1>5. CASE GoOnline \/ GoOffline \/ Mount \/ SignIn \/ SignOut
    BY <1>5, WorldKeeps
  <1>6. CASE UNCHANGED vars
    <2>1. UNCHANGED <<online, call, syncing, shell, queue, stamp, made, left, late, faults,
                      doubtful, stored, rows, reached, dropped, skipped, reconnected>>
      BY <1>6 DEF vars, client, server, ghosts
    <2> QED
      BY <2>1 DEF IInv, TypeOK, Answered, CapturedWritesSurvive
  <1>7. Targets \subseteq Senders /\ Passes \subseteq Senders
    BY DEF Senders
  <1> QED
    BY <1>1, <1>2, <1>3, <1>4, <1>5, <1>6, <1>7 DEF Next, PassStep

(* Every reachable state is well typed. *)
THEOREM TypeCorrect == Spec => []TypeOK
  <1>1. IInv => TypeOK
    BY DEF IInv
  <1> QED
    BY Initially, Stays, <1>1, OfflineConstants, PTL DEF Spec

(* Whatever fails, overlaps or is reloaded: a write in the care of the queue *)
(* stays there until the server has stored it, unless signing in or out      *)
(* empties the queue.                                                        *)
THEOREM CapturedCorrect == Spec => []CapturedWritesSurvive
  <1>1. IInv => CapturedWritesSurvive
    BY DEF IInv
  <1> QED
    BY Initially, Stays, <1>1, OfflineConstants, PTL DEF Spec

-----------------------------------------------------------------------------
(* What a pass does next. *)

Only(p) == \A s \in Senders : s # p => call'[s] = call[s]

(* p sends the first item of rest. *)
Sends(p, rest, skips) ==
  \E w \in rest :
    /\ \A u \in rest : stamp[w] <= stamp[u]
    /\ call'[p].state = "sent" /\ call'[p].write = w
    /\ left'[p] = rest \ {w} /\ skipped'[p] = skips
    /\ Twice(w) \subseteq doubtful'

LEMMA SendForm ==
  ASSUME TypeOK, NEW p \in Passes, NEW rest \in SUBSET Writes, rest # {}, NEW skips,
         call' = [call EXCEPT ![p] = Sent(First(rest))],
         left' = [left EXCEPT ![p] = rest \ {First(rest)}],
         skipped' = [skipped EXCEPT ![p] = skips],
         Twice(First(rest)) \subseteq doubtful'
  PROVE  /\ Only(p) /\ Sends(p, rest, skips)
         /\ \A q \in Passes \ {p} : left'[q] = left[q] /\ skipped'[q] = skipped[q]
  <1>1. PICK w \in rest : w = First(rest) /\ \A u \in rest : stamp[w] <= stamp[u]
    BY FirstIsFirst DEF TypeOK
  <1>2. Sent(w).state = "sent" /\ Sent(w).write = w
    BY <1>1, CallForms
  <1>3. Only(p) /\ call'[p] = Sent(w)
    BY <1>1 DEF Only, TypeOK, Senders
  <1>4. /\ left'[p] = rest \ {w} /\ skipped'[p] = skips
        /\ \A q \in Passes \ {p} : left'[q] = left[q] /\ skipped'[q] = skipped[q]
    BY <1>1 DEF TypeOK
  <1> QED
    BY <1>1, <1>2, <1>3, <1>4 DEF Sends

LEMMA EndForm ==
  ASSUME TypeOK, NEW s \in Senders, call' = [call EXCEPT ![s] = NoCall]
  PROVE  Only(s) /\ call'[s].state = "none"
  BY CallForms DEF Only, TypeOK

LEMMA BeginForm ==
  ASSUME TypeOK, NEW p \in Passes, queue # {}, Begin(p)
  PROVE  /\ ~Running(p) /\ syncing' /\ doubtful \subseteq doubtful'
         /\ Only(p) /\ Sends(p, queue, {})
         /\ \A q \in Passes \ {p} : left'[q] = left[q] /\ skipped'[q] = skipped[q]
  <1>1. queue \in SUBSET Writes
    BY DEF TypeOK
  <1> QED
    BY <1>1, SendForm DEF Begin

LEMMA ContinueForm ==
  ASSUME TypeOK, NEW p \in Passes, NEW queued, NEW doubts, NEW skips,
         Continue(p, queued, doubts, skips)
  PROVE  /\ Only(p) /\ doubts \subseteq doubtful'
         /\ \A q \in Passes \ {p} : left'[q] = left[q] /\ skipped'[q] = skipped[q]
         /\ \/ /\ call'[p].state = "none"
               /\ reconnected' = (reconnected /\ \E q \in Passes \ {p} : Running(q))
            \/ Sends(p, left[p] \cap queued, skips) /\ UNCHANGED <<syncing, reconnected>>
  <1> DEFINE rest == left[p] \cap queued
  <1>1. rest \in SUBSET Writes /\ p \in Senders
    BY DEF TypeOK, Senders
  <1>2. CASE rest = {}
    <2>1. call' = [call EXCEPT ![p] = NoCall] /\ left' = [left EXCEPT ![p] = {}]
          /\ skipped' = [skipped EXCEPT ![p] = {}] /\ doubtful' = doubts
          /\ reconnected' = (reconnected /\ \E q \in Passes \ {p} : Running(q))
      BY <1>2 DEF Continue
    <2>2. \A q \in Passes \ {p} : left'[q] = left[q] /\ skipped'[q] = skipped[q]
      BY <2>1 DEF TypeOK
    <2> QED
      BY <1>1, <2>1, <2>2, EndForm
  <1>3. CASE rest # {}
    <2>1. call' = [call EXCEPT ![p] = Sent(First(rest))]
          /\ left' = [left EXCEPT ![p] = rest \ {First(rest)}]
          /\ skipped' = [skipped EXCEPT ![p] = skips]
          /\ doubtful' = doubts \cup Twice(First(rest))
          /\ UNCHANGED <<syncing, reconnected>>
      BY <1>3 DEF Continue
    <2> HIDE DEF rest
    <2>2. Only(p) /\ Sends(p, rest, skips)
          /\ \A q \in Passes \ {p} : left'[q] = left[q] /\ skipped'[q] = skipped[q]
      BY <1>1, <1>3, <2>1, SendForm
    <2> QED
      BY <2>1, <2>2 DEF rest
  <1> QED
    BY <1>2, <1>3

(* A pass starts. *)
Starts(p) ==
  /\ queue # {} /\ Begin(p) /\ UNCHANGED <<queue, stamp, made, late, rows>>
  /\ \/ ~syncing /\ UNCHANGED reconnected
     \/ reconnected' = SomePassRuns

(* The request of a pass is over: the item is stored, or stays. *)
Goes(p) ==
  LET c == call[p].write
  IN /\ Running(p)
     /\ UNCHANGED <<stamp, made, rows>>
     /\ \/ /\ call[p].state = "ok" /\ queue' = queue \ {c} /\ UNCHANGED late
           /\ Continue(p, queue', doubtful, skipped[p])
        \/ /\ UNCHANGED queue
           /\ \E doubts : /\ doubtful \subseteq doubts
                          /\ Continue(p, queue, doubts, skipped[p] \cup {c})
                          /\ \/ call[p].state = "sent" /\ UNCHANGED late
                             \/ /\ Drafts \cap {c.target} \subseteq doubts
                                /\ \A w \in Writes : w.target # c.target => late'[w] = late[w]

(* The page is left: no request is awaited any more. *)
Leaves ==
  /\ \A s \in Senders : call'[s].state = "none"
  /\ UNCHANGED <<queue, stamp, made, rows>>
  /\ doubtful \cup AwaitedDrafts \subseteq doubtful'
  /\ \A w \in Writes : (\A s \in Senders : Running(s) => call[s].write # w) => late'[w] = late[w]

(* Nothing of the pages and passes changes, but the queue may be emptied. *)
Idles ==
  /\ UNCHANGED <<call, syncing, reconnected, stamp, made, left, late, rows, doubtful, skipped>>
  /\ queue' \subseteq queue

LEMMA UnansweredForm ==
  ASSUME TypeOK, NEW s \in Senders, Unanswered(s)
  PROVE  /\ Running(s) /\ doubtful \subseteq Doubt(s)
         /\ \/ call[s].state = "sent" /\ UNCHANGED late
            \/ /\ Drafts \cap {call[s].write.target} \subseteq Doubt(s)
               /\ \A w \in Writes : w.target # call[s].write.target => late'[w] = late[w]
  <1>1. Running(s) /\ doubtful \subseteq Doubt(s)
    BY DEF Unanswered, Running, Doubt
  <1>2. CASE ~online /\ call[s].state = "sent" /\ UNCHANGED <<late, faults>>
    BY <1>1, <1>2
  <1>3. CASE faults' = faults + 1 /\ (UNCHANGED late \/ late' = [late EXCEPT ![call[s].write] = @ + 1])
    <2>1. faults' # faults
      BY <1>3, OfflineConstants DEF TypeOK
    <2>2. Drafts \cap {call[s].write.target} \subseteq Doubt(s)
      BY <2>1 DEF Doubt
    <2>3. \A w \in Writes : w.target # call[s].write.target => late'[w] = late[w]
      BY <1>3 DEF TypeOK
    <2> QED
      BY <1>1, <2>2, <2>3
  <1> QED
    BY <1>2, <1>3 DEF Unanswered

LEMMA LeaveForm ==
  ASSUME TypeOK, NEW next, Reload(next)
  PROVE  Leaves
  <1>1. PICK on \in SUBSET {s \in Senders : call[s].state = "sent"} :
          late' = [w \in Writes |-> late[w] + Cardinality({s \in on : call[s].write = w})]
    BY DEF Reload
  <1>2. ASSUME NEW w \in Writes, \A s \in Senders : Running(s) => call[s].write # w
        PROVE  late'[w] = late[w]
    <2>1. {s \in on : call[s].write = w} = {}
      BY <1>2 DEF Running
    <2>2. Cardinality({s \in on : call[s].write = w}) = 0
      BY <2>1, FS_EmptySet
    <2>3. late[w] \in Nat
      BY DEF TypeOK
    <2> QED
      BY <1>1, <2>2, <2>3
  <1>3. \A s \in Senders : call'[s].state = "none"
    BY CallForms DEF Reload
  <1> QED
    BY <1>2, <1>3 DEF Reload, Leaves, server

(* The forms of a step. *)
LEMMA Forms ==
  ASSUME TypeOK, [Next]_vars
  PROVE  \/ \E t \in Targets : Save(t) \/ PageAnswered(t) \/ PageUnanswered(t)
         \/ \E p \in Passes : Starts(p) \/ Goes(p)
         \/ \E s \in Senders : Handle(s)
         \/ \E w \in Writes : ArriveLate(w)
         \/ Leaves \/ Idles
  <1>0. Passes \subseteq Senders /\ Targets \subseteq Senders
    BY DEF Senders
  <1>1. ASSUME NEW p \in Passes, Press(p) PROVE Starts(p)
    BY <1>1 DEF Press, Starts, server
  <1>2. ASSUME NEW p \in Passes, PassAnswered(p) PROVE Goes(p)
    BY <1>2 DEF PassAnswered, Goes, Running, server
  <1>3. ASSUME NEW p \in Passes, PassRefused(p) PROVE Goes(p)
    <2>1. call[p].state = "sent"
          /\ Continue(p, queue, doubtful, skipped[p] \cup {call[p].write})
          /\ UNCHANGED <<queue, stamp, made, rows, late>>
      BY <1>3 DEF PassRefused, Refused, server
    <2> QED
      BY <2>1 DEF Goes, Running
  <1>4. ASSUME NEW p \in Passes, PassUnanswered(p) PROVE Goes(p)
    <2>1. Continue(p, queue, Doubt(p), skipped[p] \cup {call[p].write})
          /\ UNCHANGED <<queue, stamp, made, rows>>
      BY <1>4 DEF PassUnanswered, server
    <2>2. /\ Running(p) /\ doubtful \subseteq Doubt(p)
          /\ \/ call[p].state = "sent" /\ UNCHANGED late
             \/ /\ Drafts \cap {call[p].write.target} \subseteq Doubt(p)
                /\ \A w \in Writes : w.target # call[p].write.target => late'[w] = late[w]
      BY <1>0, <1>4, UnansweredForm DEF PassUnanswered
    <2> QED
      BY <2>1, <2>2 DEF Goes
  <1>5. CASE ReloadPage \/ \E s \in Senders : SessionEnds(s)
    BY <1>5, LeaveForm DEF ReloadPage, SessionEnds
  <1>6. CASE GoOnline \/ Mount
    <2>1. /\ UNCHANGED <<queue, stamp, made, late, rows>>
          /\ \/ AutoSync
             \/ UNCHANGED <<call, left, syncing, doubtful, skipped, reconnected>>
      BY <1>6 DEF GoOnline, Mount, server
    <2>2. CASE UNCHANGED <<call, left, syncing, doubtful, skipped, reconnected>>
      BY <2>1, <2>2 DEF Idles
    <2>3. CASE AutoSync /\ queue # {}
      BY <2>1, <2>3 DEF AutoSync, Starts
    <2> QED
      BY <2>1, <2>2, <2>3 DEF AutoSync
  <1>7. CASE GoOffline \/ SignIn \/ SignOut \/ UNCHANGED vars
    BY <1>7 DEF GoOffline, SignIn, SignOut, ClearQueue, Idles, vars, client, server, ghosts
  <1> QED
    BY <1>0, <1>1, <1>2, <1>3, <1>4, <1>5, <1>6, <1>7 DEF Next, PassStep

-----------------------------------------------------------------------------
(* How many passes run: one, unless a reconnection has started another.    *)

Solo ==
  /\ SomePassRuns => syncing \/ reconnected
  /\ OnePassUnlessReconnected

LEMMA SoloStays ==
  ASSUME TypeOK, Solo, [Next]_vars
  PROVE  Solo'
  <1>0. Passes \subseteq Senders /\ Passes \cap Targets = {}
    BY OfflineConstants DEF Senders
  (* The passes that run are those that ran, perhaps without one. *)
  <1>a. ASSUME \A p \in Passes : Running(p)' => Running(p), UNCHANGED <<syncing, reconnected>>
        PROVE  Solo'
    BY <1>a DEF Solo, SomePassRuns, OnePassUnlessReconnected
  <1>1. ASSUME NEW t \in Targets, Save(t) \/ PageAnswered(t) \/ PageUnanswered(t)
        PROVE  Solo'
    <2>1. \A p \in Passes : call'[p] = call[p]
      BY <1>0, <1>1 DEF Save, PageAnswered, PageUnanswered, TypeOK
    <2>2. UNCHANGED <<syncing, reconnected>>
      BY <1>1 DEF Save, PageAnswered, PageUnanswered, client, ghosts
    <2> QED
      BY <1>a, <2>1, <2>2 DEF Running
  <1>2. ASSUME NEW p \in Passes, Starts(p) PROVE Solo'
    <2>1. /\ ~Running(p) /\ syncing'
          /\ \A q \in Passes \ {p} : Running(q)' <=> Running(q)
      BY <1>0, <1>2, BeginForm DEF Starts, Only, Running
    <2>2. CASE SomePassRuns
      <3>1. CASE ~syncing /\ UNCHANGED reconnected
        <4>1. reconnected = TRUE
          BY <2>2, <3>1 DEF Solo, TypeOK
        <4> QED
          BY <3>1, <4>1 DEF OnePassUnlessReconnected, Solo
      <3>2. CASE reconnected' = SomePassRuns
        <4>1. SomePassRuns = TRUE
          BY <2>2 DEF SomePassRuns
        <4>2. reconnected' = TRUE
          BY <3>2, <4>1, Zenon
        <4> QED
          BY <4>2 DEF OnePassUnlessReconnected, Solo
      <3> QED
        BY <1>2, <3>1, <3>2 DEF Starts
    <2>3. CASE ~SomePassRuns
      BY <2>1, <2>3 DEF Solo, SomePassRuns, OnePassUnlessReconnected
    <2> QED
      BY <2>2, <2>3
  <1>3. ASSUME NEW p \in Passes, Goes(p) PROVE Solo'
    <2>1. PICK queued, doubts, skips : Continue(p, queued, doubts, skips)
      BY <1>3 DEF Goes
    <2>2. Running(p) /\ \A q \in Passes \ {p} : Running(q)' <=> Running(q)
      BY <1>0, <1>3, <2>1, ContinueForm DEF Only, Running, Goes
    <2>3. CASE /\ ~Running(p)'
               /\ reconnected' = (reconnected /\ \E q \in Passes \ {p} : Running(q))
      BY <2>2, <2>3 DEF Solo, SomePassRuns, OnePassUnlessReconnected
    <2>4. CASE UNCHANGED <<syncing, reconnected>>
      BY <1>a, <2>2, <2>4
    <2> QED
      BY <2>1, <2>3, <2>4, ContinueForm DEF Running
  <1>4. ASSUME NEW s \in Senders, Handle(s) PROVE Solo'
    <2>1. \A q \in Passes : Running(q)' => Running(q)
      BY <1>0, <1>4 DEF Handle, TypeOK, Running
    <2> QED
      BY <1>4, <1>a, <2>1 DEF Handle, client, ghosts
  <1>5. ASSUME NEW w \in Writes, ArriveLate(w) PROVE Solo'
    BY <1>5, <1>a DEF ArriveLate, client, ghosts, Running
  <1>6. CASE Leaves
    BY <1>0, <1>6 DEF Leaves, Solo, SomePassRuns, OnePassUnlessReconnected, Running
  <1>7. CASE Idles
    BY <1>7, <1>a DEF Idles, Running
  <1> QED
    BY <1>1, <1>2, <1>3, <1>4, <1>5, <1>6, <1>7, Forms

-----------------------------------------------------------------------------
(* In what order writes are queued: a page waits for the user's last edit, *)
(* which is not queued yet, and stamps grow with the versions.             *)

Queued == {w \in Writes : stamp[w] > 0}

Awaits(t) ==
  Running(t) => /\ call[t].write.target = t /\ call[t].write.version = made[t]
                /\ stamp[call[t].write] = 0

Numbered ==
  /\ \A t \in Targets : Awaits(t)
  /\ queue \subseteq Queued
  /\ \A w \in Queued : w.version <= made[w.target] /\ stamp[w] <= Cardinality(Queued)
  /\ \A u, w \in Queued :
       u.target = w.target /\ u.version < w.version => stamp[u] < stamp[w]

(* What is queued and older than what pass p is sending or has still to    *)
(* send, it has failed to send, or comes to now.                           *)
Handed(p) == left[p] \cup {call[p].write}

Ordered(p) ==
  Running(p) =>
    /\ Handed(p) \subseteq Queued
    /\ \A u \in left[p] : stamp[call[p].write] <= stamp[u]
    /\ \A w \in queue, u \in Handed(p) :
         w.target = u.target /\ w.version < u.version => w \in skipped[p] \cup Handed(p)

OrderInv == Numbered /\ \A p \in Passes : Ordered(p)

LEMMA SameWrite ==
  ASSUME NEW u \in Writes, NEW w \in Writes, u.target = w.target, u.version = w.version
  PROVE  u = w
  BY DEF Writes

LEMMA NumberedKept ==
  ASSUME Numbered, UNCHANGED <<stamp, made>>, queue' \subseteq queue,
         \A t \in Targets : Running(t)' => Running(t) /\ call'[t].write = call[t].write
  PROVE  Numbered'
  <1>1. Queued' = Queued
    BY DEF Queued
  <1> QED
    BY <1>1 DEF Numbered, Awaits, Running

LEMMA OrderedKept ==
  ASSUME NEW p \in Passes, Ordered(p), UNCHANGED stamp, queue' \subseteq queue,
         Running(p)' => /\ Running(p) /\ call'[p].write = call[p].write
                        /\ left'[p] = left[p] /\ skipped'[p] = skipped[p]
  PROVE  Ordered(p)'
  <1>1. Queued' = Queued
    BY DEF Queued
  <1> QED
    BY <1>1 DEF Ordered, Handed, Running

(* The next item of a pass is the oldest: older ones have been tried. *)
LEMMA OrderedSends ==
  ASSUME TypeOK, NEW p \in Passes, NEW rest \in SUBSET Queued, NEW skips, Sends(p, rest, skips),
         UNCHANGED stamp,
         \A w \in queue', u \in rest :
           w.target = u.target /\ w.version < u.version => w \in skips \cup rest
  PROVE  Ordered(p)'
  <1>1. PICK w \in rest :
          /\ \A u \in rest : stamp[w] <= stamp[u]
          /\ call'[p].write = w /\ left'[p] = rest \ {w} /\ skipped'[p] = skips
    BY DEF Sends
  <1>2. Handed(p)' = rest /\ Queued' = Queued
    BY <1>1 DEF Handed, Queued
  <1> QED
    BY <1>1, <1>2 DEF Ordered

LEMMA NumberedEnqueue ==
  ASSUME TypeOK, Numbered, NEW t \in Targets, Running(t), Enqueue(call[t].write),
         UNCHANGED made, call' = [call EXCEPT ![t] = NoCall]
  PROVE  /\ Numbered'
         /\ \A u \in Queued : /\ u \in Queued' /\ stamp'[u] = stamp[u] /\ u # call[t].write
                              /\ u.target = t => u.version < call[t].write.version
  <1> DEFINE w == call[t].write
             n == Cardinality(Queued)
  <1>0. /\ w \in Writes /\ w.target = t /\ w.version = made[t] /\ stamp[w] = 0
        /\ made[t] \in Nat /\ t \in Senders /\ Queued \subseteq Writes
        /\ \A u \in Writes : u.version \in Nat
    BY OfflineConstants DEF Numbered, Awaits, TypeOK, Running, Senders, Queued, Writes
  <1>1. n \in Nat /\ Cardinality(Queued \cup {w}) = n + 1
    <2>1. IsFiniteSet(Queued) /\ w \notin Queued
      BY <1>0, WritesFinite, FS_Subset DEF Queued
    <2> QED
      BY <2>1, FS_CardinalityType, FS_AddElement
  <1>2. stamp' = [stamp EXCEPT ![w] = 1 + n] /\ queue' = queue \cup {w}
    BY DEF Enqueue, Queued
  <1> HIDE DEF n
  <1>3. /\ Queued' = Queued \cup {w} /\ stamp'[w] = n + 1
        /\ \A u \in Queued : stamp'[u] = stamp[u] /\ u # w
    BY <1>0, <1>1, <1>2 DEF TypeOK, Queued
  <1>4. \A u \in Queued : stamp[u] \in Nat /\ stamp[u] <= n /\ u.version <= made[u.target]
    BY <1>0 DEF Numbered, TypeOK, n
  <1>5. \A u \in Queued : u.target = t => u.version < w.version
    BY <1>0, <1>3, <1>4, SameWrite
  <1>6. \A q \in Targets : q # t => call'[q] = call[q]
    BY DEF TypeOK
  <1>7. call'[t].state = "none"
    BY <1>0, EndForm
  <1>8. ASSUME NEW q \in Targets PROVE Awaits(q)'
    <2>1. CASE q = t
      BY <1>7, <2>1 DEF Awaits, Running
    <2>2. CASE q # t
      <3> SUFFICES ASSUME Running(q)
                   PROVE  /\ call[q].write.target = q /\ call[q].write.version = made[q]
                          /\ stamp'[call[q].write] = 0
        BY <1>6, <2>2 DEF Awaits, Running
      <3>1. /\ call[q].write.target = q /\ call[q].write.version = made[q]
            /\ stamp[call[q].write] = 0
        BY DEF Numbered, Awaits
      <3> QED
        BY <1>0, <1>2, <2>2, <3>1 DEF TypeOK
    <2> QED
      BY <2>1, <2>2
  <1>9. \A u \in Queued' : u.version <= made'[u.target] /\ stamp'[u] <= n + 1
    BY <1>0, <1>1, <1>3, <1>4
  <1>10. ASSUME NEW u \in Queued', NEW v \in Queued', u.target = v.target, u.version < v.version
         PROVE  stamp'[u] < stamp'[v]
    <2>1. CASE u \in Queued /\ v \in Queued
      BY <1>3, <1>10, <2>1 DEF Numbered
    <2>2. CASE u \in Queued /\ v = w
      BY <1>1, <1>3, <1>4, <2>2
    <2>3. CASE u = w
      BY <1>0, <1>3, <1>5, <1>10, <2>3
    <2> QED
      BY <1>3, <2>1, <2>2, <2>3
  <1>11. queue' \subseteq Queued'
    BY <1>2, <1>3 DEF Numbered
  <1>12. Cardinality(Queued') = n + 1
    BY <1>1, <1>3
  <1>13. Numbered'
    BY <1>8, <1>9, <1>10, <1>11, <1>12 DEF Numbered
  <1> QED
    BY <1>3, <1>5, <1>13

LEMMA OrderStays ==
  ASSUME TypeOK, OrderInv, [Next]_vars
  PROVE  OrderInv'
  <1>0. /\ Passes \subseteq Senders /\ Targets \subseteq Senders /\ Passes \cap Targets = {}
        /\ Numbered /\ queue \subseteq Queued
    BY OfflineConstants DEF Senders, OrderInv, Numbered
  (* The requests that run are those that ran, for the same. *)
  <1>a. ASSUME UNCHANGED <<stamp, made, left, skipped>>, queue' \subseteq queue,
               \A s \in Senders : Running(s)' => Running(s) /\ call'[s].write = call[s].write
        PROVE  OrderInv'
    <2>1. Numbered'
      BY <1>0, <1>a, NumberedKept
    <2>2. \A p \in Passes : Ordered(p)'
      BY <1>0, <1>a, OrderedKept DEF OrderInv
    <2> QED
      BY <2>1, <2>2 DEF OrderInv
  (* One pass sends or ends, the others stay as they are. *)
  <1>b. ASSUME NEW p \in Passes, Only(p), Ordered(p)', UNCHANGED <<stamp, made>>,
               queue' \subseteq queue,
               \A q \in Passes \ {p} : left'[q] = left[q] /\ skipped'[q] = skipped[q]
        PROVE  OrderInv'
    <2>1. \A s \in Senders : s # p => call'[s] = call[s]
      BY <1>b DEF Only
    <2>2. Numbered'
      BY <1>0, <1>b, <2>1, NumberedKept DEF Running
    <2>3. ASSUME NEW q \in Passes, q # p PROVE Ordered(q)'
      BY <1>0, <1>b, <2>1, <2>3, OrderedKept DEF OrderInv, Running
    <2> QED
      BY <1>b, <2>2, <2>3 DEF OrderInv
  <1>1. ASSUME NEW t \in Targets, Save(t) PROVE OrderInv'
    <2> DEFINE w == [target |-> t, version |-> made[t] + 1]
    <2>1. /\ w \in Writes /\ made' = [made EXCEPT ![t] = @ + 1]
          /\ call' = [call EXCEPT ![t] = Sent(w)]
          /\ UNCHANGED <<queue, stamp, left, skipped>>
      BY <1>1 DEF Save, ghosts
    <2>2. /\ made[t] \in Nat /\ \A u \in Queued : u.version \in Nat /\ made[u.target] \in Nat
          /\ Queued \subseteq Writes
      BY OfflineConstants DEF TypeOK, Queued, Writes, Targets
    <2>3. w.target = t /\ w.version = made[t] + 1
      OBVIOUS
    <2> HIDE DEF w
    <2>4. call'[t] = Sent(w) /\ \A s \in Senders : s # t => call'[s] = call[s]
      BY <1>0, <2>1 DEF TypeOK
    <2>5. made'[t] = made[t] + 1 /\ \A q \in Targets : q # t => made'[q] = made[q]
      BY <2>1 DEF TypeOK
    <2>6. stamp[w] = 0
      <3>1. w \notin Queued
        BY <1>0, <2>2, <2>3 DEF Numbered
      <3> QED
        BY <2>1, <3>1 DEF Queued, TypeOK
    <2>7. Awaits(t)'
      BY <2>1, <2>3, <2>4, <2>5, <2>6, CallForms DEF Awaits
    <2>8. \A q \in Targets : q # t => Awaits(q)'
      BY <1>0, <2>1, <2>4, <2>5 DEF Numbered, Awaits, Running
    <2>9. Queued' = Queued /\ \A u \in Queued : u.target \in Targets
      BY <2>1 DEF Queued, Writes, Targets
    <2>10. \A u \in Queued : u.version <= made'[u.target]
      BY <1>0, <2>2, <2>5, <2>9 DEF Numbered
    <2>11. Numbered'
      BY <1>0, <2>1, <2>7, <2>8, <2>9, <2>10 DEF Numbered
    <2>12. \A p \in Passes : Ordered(p)'
      BY <1>0, <2>1, <2>4, OrderedKept DEF OrderInv, Running
    <2> QED
      BY <2>11, <2>12 DEF OrderInv
  <1>2. ASSUME NEW t \in Targets, PageAnswered(t) PROVE OrderInv'
    <2>1. Only(t) /\ call'[t].state = "none"
      BY <1>0, <1>2, EndForm DEF PageAnswered
    <2> QED
      BY <1>2, <1>a, <2>1 DEF PageAnswered, Only, Running, client, ghosts
  <1>3. ASSUME NEW t \in Targets, PageUnanswered(t) PROVE OrderInv'
    <2> DEFINE w == call[t].write
    <2>1. /\ Running(t) /\ Enqueue(w) /\ call' = [call EXCEPT ![t] = NoCall]
          /\ UNCHANGED <<made, left, skipped>>
      BY <1>3 DEF PageUnanswered, Unanswered, Running, ghosts
    <2>2. /\ Numbered'
          /\ \A u \in Queued : /\ u \in Queued' /\ stamp'[u] = stamp[u] /\ u # w
                               /\ u.target = t => u.version < w.version
      BY <1>0, <2>1, NumberedEnqueue
    <2>3. queue' = queue \cup {w} /\ \A p \in Passes : call'[p] = call[p]
      BY <1>0, <2>1 DEF Enqueue, TypeOK
    <2>4. w.target = t /\ w.version \in Nat /\ \A u \in Queued : u.version \in Nat
      BY <1>0, <2>1, OfflineConstants DEF Numbered, Awaits, TypeOK, Running, Queued, Writes
    <2>5. ASSUME NEW p \in Passes PROVE Ordered(p)'
      <3> SUFFICES ASSUME Running(p) PROVE Ordered(p)'
        BY <2>3 DEF Ordered, Running
      <3>1. Handed(p)' = Handed(p) /\ Handed(p) \subseteq Queued
        BY <2>1, <2>3 DEF Handed, OrderInv, Ordered
      <3>2. \A u \in left[p] : stamp'[call[p].write] <= stamp'[u]
        BY <2>2, <3>1 DEF OrderInv, Ordered, Handed
      <3>3. \A v \in queue', u \in Handed(p) :
              v.target = u.target /\ v.version < u.version => v \in skipped[p] \cup Handed(p)
        BY <2>2, <2>3, <2>4, <3>1 DEF OrderInv, Ordered
      <3>4. Handed(p) \subseteq Queued'
        BY <2>2, <3>1
      <3> QED
        BY <2>1, <2>3, <3>1, <3>2, <3>3, <3>4 DEF Ordered
    <2> QED
      BY <2>2, <2>5 DEF OrderInv
  <1>4. ASSUME NEW p \in Passes, Starts(p) PROVE OrderInv'
    <2>1. /\ Only(p) /\ Sends(p, queue, {}) /\ UNCHANGED <<queue, stamp, made>>
          /\ \A q \in Passes \ {p} : left'[q] = left[q] /\ skipped'[q] = skipped[q]
      BY <1>4, BeginForm DEF Starts
    <2>2. Ordered(p)'
      BY <1>0, <2>1, OrderedSends
    <2> QED
      BY <1>b, <2>1, <2>2
  <1>5. ASSUME NEW p \in Passes, Goes(p) PROVE OrderInv'
    <2> DEFINE c == call[p].write
    <2>1. PICK doubts, skips :
            /\ Continue(p, queue', doubts, skips)
            /\ \/ queue' = queue \ {c} /\ skips = skipped[p]
               \/ queue' = queue /\ skips = skipped[p] \cup {c}
      BY <1>5 DEF Goes
    <2>2. Running(p) /\ UNCHANGED <<stamp, made>> /\ queue' \subseteq queue
      BY <1>5, <2>1 DEF Goes
    <2>3. Only(p) /\ \A q \in Passes \ {p} : left'[q] = left[q] /\ skipped'[q] = skipped[q]
      BY <2>1, ContinueForm
    <2>4. CASE call'[p].state = "none"
      BY <1>b, <2>2, <2>3, <2>4 DEF Ordered, Running
    <2>5. CASE Sends(p, left[p] \cap queue', skips)
      <3>1. left[p] \cap queue' \subseteq Queued
        BY <1>0, <2>2
      <3>2. ASSUME NEW w \in queue', NEW u \in left[p] \cap queue',
                   w.target = u.target, w.version < u.version
            PROVE  w \in skips \cup (left[p] \cap queue')
        <4>1. w \in skipped[p] \cup left[p] \cup {c}
          BY <2>2, <3>2 DEF OrderInv, Ordered, Handed
        <4> QED
          BY <2>1, <4>1
      <3>3. Ordered(p)'
        BY <2>2, <2>5, <3>1, <3>2, OrderedSends
      <3> QED
        BY <1>b, <2>2, <2>3, <3>3
    <2> QED
      BY <2>1, <2>4, <2>5, ContinueForm
  <1>6. ASSUME NEW s \in Senders, Handle(s) PROVE OrderInv'
    <2>1. \A q \in Senders : Running(q)' => Running(q) /\ call'[q].write = call[q].write
      <3>1. call[s] \in Call
        BY DEF TypeOK
      <3>2. call[s].state = "sent" /\ call' = [call EXCEPT ![s].state = "ok"]
        BY <1>6 DEF Handle
      <3> QED
        BY <3>1, <3>2 DEF TypeOK, Running, Call
    <2> QED
      BY <1>6, <1>a, <2>1 DEF Handle, client, ghosts
  <1>7. ASSUME NEW w \in Writes, ArriveLate(w) PROVE OrderInv'
    BY <1>7, <1>a DEF ArriveLate, client, ghosts, Running
  <1>8. CASE Leaves
    <2>1. Numbered'
      BY <1>0, <1>8, NumberedKept DEF Leaves, Running
    <2> QED
      BY <1>0, <1>8, <2>1 DEF Leaves, OrderInv, Ordered, Running
  <1>9. CASE Idles
    BY <1>9, <1>a DEF Idles, Running
  <1> QED
    BY <1>1, <1>2, <1>3, <1>4, <1>5, <1>6, <1>7, <1>8, <1>9, Forms

-----------------------------------------------------------------------------
(* How often a draft may be made that is not in doubt: its one write is    *)
(* with the page, in the queue, or with one request, until it is stored.   *)

Sending(s, d) == Running(s) /\ call[s].write.target = d
Waiting(d) == \E w \in queue : w.target = d

Single(d) ==
  /\ \A s1, s2 \in Senders : Sending(s1, d) /\ Sending(s2, d) => s1 = s2
  /\ \A w \in Writes : w.target = d => late[w] = 0
  /\ rows[d] <= 1
  /\ rows[d] = 1 => /\ \A s \in Senders : Sending(s, d) => call[s].state = "ok"
                    /\ Waiting(d) => \E s \in Senders : Sending(s, d)
  /\ made[d] = 0 => rows[d] = 0 /\ ~Waiting(d) /\ \A s \in Senders : ~Sending(s, d)
  /\ Running(d) => ~Waiting(d)

CopyInv == \A d \in Drafts \ doubtful : Single(d)

(* A draft has one write; every page works for its own record. *)
LEMMA DraftWrite ==
  ASSUME NEW u \in Writes, NEW w \in Writes, u.target \in Drafts, u.target = w.target
  PROVE  u = w /\ u.version = 1
  BY OfflineConstants DEF Writes

(* The requests for the draft d, as they were or fewer. *)
LEMMA SingleKept ==
  ASSUME NEW d \in Drafts, Single(d), UNCHANGED made, rows'[d] = rows[d],
         \A w \in Writes : w.target = d => late'[w] = late[w],
         Waiting(d)' => Waiting(d),
         \A s \in Senders : Sending(s, d)' <=> Sending(s, d),
         \A s \in Senders : Sending(s, d) => call'[s].state = call[s].state,
         d \in Senders, Running(d)' => Running(d)
  PROVE  Single(d)'
  <1>1. \A s1, s2 \in Senders : Sending(s1, d)' /\ Sending(s2, d)' => s1 = s2
    BY DEF Single
  <1>2. \A w \in Writes : w.target = d => late'[w] = 0
    BY DEF Single
  <1>3. rows'[d] = 1 => /\ \A s \in Senders : Sending(s, d)' => call'[s].state = "ok"
                        /\ Waiting(d)' => \E s \in Senders : Sending(s, d)'
    BY DEF Single
  <1>4. made'[d] = 0 => rows'[d] = 0 /\ ~Waiting(d)' /\ \A s \in Senders : ~Sending(s, d)'
    BY DEF Single
  <1> QED
    BY <1>1, <1>2, <1>3, <1>4 DEF Single

(* A pass sends the write of a draft that nobody is sending. *)
LEMMA SingleSent ==
  ASSUME TypeOK, NEW d \in Drafts, Single(d), NEW p \in Passes, Only(p), Waiting(d),
         \A s \in Senders : ~Sending(s, d), UNCHANGED <<made, rows>>,
         \A w \in Writes : w.target = d => late'[w] = late[w]
  PROVE  Single(d)'
  <1>1. rows[d] = 0 /\ made[d] # 0
    <2>1. rows[d] \in Nat /\ rows[d] <= 1 /\ rows[d] # 1
      BY DEF Single, TypeOK
    <2> QED
      BY <2>1 DEF Single
  <1>2. \A s \in Senders : Sending(s, d)' => s = p
    BY DEF Only, Sending, Running
  <1>3. ~Running(d)'
    <2>1. d \in Senders /\ d # p
      BY OfflineConstants DEF Senders, Targets
    <2> QED
      BY <2>1 DEF Only, Single, Running
  <1> QED
    BY <1>1, <1>2, <1>3 DEF Single

LEMMA CopyStays ==
  ASSUME TypeOK, Numbered, CopyInv, [Next]_vars
  PROVE  CopyInv'
  <1>0. /\ Passes \subseteq Senders /\ Targets \subseteq Senders /\ Passes \cap Targets = {}
        /\ Drafts \subseteq Targets /\ Docs \cap Drafts = {}
        /\ \A t \in Targets : Running(t) => call[t].write.target = t
        /\ \A s \in Senders : Running(s) => call[s].write \in Writes
        /\ queue \subseteq Writes
    BY OfflineConstants DEF Senders, Targets, Numbered, Awaits, TypeOK, Running
  (* A page runs for its own draft only. *)
  <1>p. \A d \in Drafts : Running(d) => Sending(d, d)
    BY <1>0 DEF Sending
  <1>1. ASSUME NEW t \in Targets, Save(t) PROVE CopyInv'
    <2> DEFINE w == [target |-> t, version |-> made[t] + 1]
    <2>1. /\ w \in Writes /\ made' = [made EXCEPT ![t] = @ + 1] /\ ~Running(t)
          /\ call' = [call EXCEPT ![t] = Sent(w)]
          /\ UNCHANGED <<queue, stamp, left, skipped, late, rows, doubtful>>
      BY <1>1, CallForms DEF Save, ghosts, server, Running
    <2>2. w.target = t /\ w.version = made[t] + 1
      OBVIOUS
    <2> HIDE DEF w
    <2>3. call'[t] = Sent(w) /\ \A s \in Senders : s # t => call'[s] = call[s]
      BY <1>0, <2>1 DEF TypeOK
    <2>4. made'[t] = made[t] + 1 /\ made[t] \in Nat /\ \A q \in Targets : q # t => made'[q] = made[q]
      BY <2>1, OfflineConstants DEF TypeOK
    <2> SUFFICES ASSUME NEW d \in Drafts, d \notin doubtful PROVE Single(d)'
      BY <2>1 DEF CopyInv
    <2>5. Single(d)
      BY DEF CopyInv
    <2>6. CASE d = t
      <3>1. made[t] = 0
        BY <2>1, <2>2, <2>4, <2>6, DraftWrite
      <3>2. rows[d] = 0 /\ ~Waiting(d) /\ \A s \in Senders : ~Sending(s, d)
        BY <2>5, <2>6, <3>1 DEF Single
      <3>3. \A s \in Senders : Sending(s, d)' => s = t
        BY <2>3, <3>2 DEF Sending, Running
      <3>4. ~Waiting(d)'
        BY <2>1, <3>2 DEF Waiting
      <3> QED
        BY <2>1, <2>4, <2>5, <2>6, <3>1, <3>2, <3>3, <3>4 DEF Single
    <2>7. CASE d # t
      <3>1. \A s \in Senders : (Sending(s, d)' <=> Sending(s, d))
              /\ (Sending(s, d) => call'[s].state = call[s].state)
        BY <1>0, <2>1, <2>2, <2>3, <2>7, CallForms DEF Sending, Running
      <3> QED
        BY <1>0, <2>1, <2>3, <2>4, <2>5, <2>7, <3>1 DEF Single, Waiting, Running
    <2> QED
      BY <2>6, <2>7
  <1>2. ASSUME NEW t \in Targets, PageAnswered(t) PROVE CopyInv'
    <2>1. /\ Only(t) /\ call'[t].state = "none" /\ Running(t)
          /\ UNCHANGED <<queue, made, late, rows, doubtful>>
      BY <1>0, <1>2, EndForm DEF PageAnswered, Refused, Running, client, server
    <2> SUFFICES ASSUME NEW d \in Drafts, d \notin doubtful PROVE Single(d)'
      BY <2>1 DEF CopyInv
    <2>2. Single(d)
      BY DEF CopyInv
    <2>3. CASE d = t
      <3>1. ~Waiting(d) /\ made[d] # 0 /\ Sending(d, d)
        BY <1>0, <1>p, <2>1, <2>2, <2>3 DEF Single
      <3>2. \A s \in Senders : ~Sending(s, d)'
        BY <1>0, <2>1, <2>2, <2>3, <3>1 DEF Single, Only, Sending, Running
      <3> QED
        BY <2>1, <2>2, <2>3, <3>1, <3>2 DEF Single, Waiting, Running
    <2>4. CASE d # t
      <3>1. \A s \in Senders : (Sending(s, d)' <=> Sending(s, d))
              /\ (Sending(s, d) => call'[s].state = call[s].state)
        BY <1>0, <2>1, <2>4 DEF Only, Sending, Running
      <3> QED
        BY <1>0, <2>1, <2>2, <2>4, <3>1, SingleKept DEF Waiting, Only, Running
    <2> QED
      BY <2>3, <2>4
  <1>3. ASSUME NEW t \in Targets, PageUnanswered(t) PROVE CopyInv'
    <2>1. /\ Only(t) /\ call'[t].state = "none" /\ Running(t) /\ call[t].write.target = t
          /\ queue' = queue \cup {call[t].write} /\ UNCHANGED <<made, rows>>
          /\ doubtful \subseteq doubtful'
          /\ \/ call[t].state = "sent" /\ UNCHANGED late
             \/ /\ Drafts \cap {call[t].write.target} \subseteq doubtful'
                /\ \A w \in Writes : w.target # call[t].write.target => late'[w] = late[w]
      BY <1>0, <1>3, EndForm, UnansweredForm DEF PageUnanswered, Enqueue, server
    <2> SUFFICES ASSUME NEW d \in Drafts, d \notin doubtful' PROVE Single(d)'
      BY DEF CopyInv
    <2>2. Single(d)
      BY <2>1 DEF CopyInv
    <2>3. CASE d = t
      <3>1. Sending(d, d) /\ made[d] # 0 /\ call[d].state = "sent" /\ UNCHANGED late
        BY <1>0, <1>p, <2>1, <2>2, <2>3 DEF Single
      <3>2. rows[d] = 0
        <4>1. rows[d] \in Nat /\ rows[d] <= 1 /\ rows[d] # 1
          BY <1>0, <2>2, <3>1 DEF Single, TypeOK
        <4> QED
          BY <4>1
      <3>3. \A s \in Senders : ~Sending(s, d)'
        BY <1>0, <2>1, <2>2, <2>3, <3>1 DEF Single, Only, Sending, Running
      <3> QED
        BY <2>1, <2>2, <2>3, <3>1, <3>2, <3>3 DEF Single, Running
    <2>4. CASE d # t
      <3>1. \A s \in Senders : (Sending(s, d)' <=> Sending(s, d))
              /\ (Sending(s, d) => call'[s].state = call[s].state)
        BY <1>0, <2>1, <2>4 DEF Only, Sending, Running
      <3>2. Waiting(d)' => Waiting(d)
        BY <2>1, <2>4 DEF Waiting
      <3>3. \A w \in Writes : w.target = d => late'[w] = late[w]
        BY <2>1, <2>4
      <3> QED
        BY <1>0, <2>1, <2>2, <2>4, <3>1, <3>2, <3>3, SingleKept DEF Only, Running
    <2> QED
      BY <2>3, <2>4
  <1>4. ASSUME NEW p \in Passes, Starts(p) PROVE CopyInv'
    <2>1. /\ ~Running(p) /\ doubtful \subseteq doubtful' /\ Only(p) /\ Sends(p, queue, {})
          /\ UNCHANGED <<queue, made, late, rows>>
      BY <1>4, BeginForm DEF Starts
    <2>2. PICK w \in queue : call'[p].write = w /\ call'[p].state = "sent" /\ Twice(w) \subseteq doubtful'
      BY <2>1 DEF Sends
    <2> SUFFICES ASSUME NEW d \in Drafts, d \notin doubtful' PROVE Single(d)'
      BY DEF CopyInv
    <2>3. Single(d)
      BY <2>1 DEF CopyInv
    <2>4. CASE d = w.target
      <3>1. \A s \in Senders : ~Sending(s, d)
        BY <2>2, <2>4 DEF Twice, AwaitedDrafts, Sending
      <3>2. Waiting(d)
        BY <2>4 DEF Waiting
      <3> QED
        BY <2>1, <2>3, <3>1, <3>2, SingleSent
    <2>5. CASE d # w.target
      <3>1. \A s \in Senders : (Sending(s, d)' <=> Sending(s, d))
              /\ (Sending(s, d) => call'[s].state = call[s].state)
        BY <1>0, <2>1, <2>2, <2>5 DEF Only, Sending, Running
      <3> QED
        BY <1>0, <2>1, <2>3, <3>1, SingleKept DEF Only, Running, Waiting
    <2> QED
      BY <2>4, <2>5
  <1>5. ASSUME NEW p \in Passes, Goes(p) PROVE CopyInv'
    <2> DEFINE c == call[p].write
    <2>1. PICK doubts, skips :
            /\ Continue(p, queue', doubts, skips) /\ doubtful \subseteq doubts
            /\ \/ call[p].state = "ok" /\ queue' = queue \ {c} /\ UNCHANGED late
               \/ /\ queue' = queue
                  /\ \/ call[p].state = "sent" /\ UNCHANGED late
                     \/ /\ Drafts \cap {c.target} \subseteq doubts
                        /\ \A w \in Writes : w.target # c.target => late'[w] = late[w]
      BY <1>5 DEF Goes
    <2>2. Running(p) /\ UNCHANGED <<made, rows>> /\ queue' \subseteq queue /\ c \in Writes
      BY <1>0, <1>5, <2>1 DEF Goes
    <2>3. Only(p) /\ doubts \subseteq doubtful'
      BY <2>1, ContinueForm
    <2>4. ASSUME call'[p].state # "none"
          PROVE  \E w \in left[p] \cap queue' :
                   call'[p].write = w /\ call'[p].state = "sent" /\ Twice(w) \subseteq doubtful'
      BY <2>1, <2>4, ContinueForm DEF Sends
    <2> SUFFICES ASSUME NEW d \in Drafts, d \notin doubtful' PROVE Single(d)'
      BY DEF CopyInv
    <2>5. Single(d)
      BY <2>1, <2>3 DEF CopyInv
    <2>6. \A w \in Writes : w.target = d => late'[w] = late[w]
      BY <2>1, <2>3
    <2>7. CASE Sending(p, d)'
      <3>1. PICK w \in left[p] \cap queue' : call'[p].write = w /\ Twice(w) \subseteq doubtful'
        BY <2>4, <2>7 DEF Sending, Running
      <3>2. w.target = d
        BY <2>7, <3>1 DEF Sending
      <3>3. \A s \in Senders : ~Sending(s, d)
        BY <3>1, <3>2 DEF Twice, AwaitedDrafts, Sending
      <3>4. Waiting(d)
        BY <2>2, <3>1, <3>2 DEF Waiting
      <3> QED
        BY <2>2, <2>3, <2>5, <2>6, <3>3, <3>4, SingleSent
    <2>8. CASE ~Sending(p, d)' /\ Sending(p, d)
      <3>1. \A s \in Senders : ~Sending(s, d)'
        BY <1>0, <2>3, <2>5, <2>8 DEF Single, Only, Sending, Running
      <3>2. made[d] # 0 /\ rows[d] \in Nat /\ rows[d] <= 1
        BY <1>0, <2>5, <2>8 DEF Single, TypeOK
      <3>3. rows[d] = 1 => ~Waiting(d)'
        <4>1. rows[d] = 1 => call[p].state = "ok"
          BY <1>0, <2>5, <2>8 DEF Single
        <4>2. c.target = d
          BY <2>8 DEF Sending
        <4>3. Drafts \cap {c.target} \subseteq doubts => FALSE
          BY <2>3, <4>2
        <4>4. queue' = queue \ {c} => ~Waiting(d)'
          BY <1>0, <2>2, <4>2, DraftWrite DEF Waiting
        <4> QED
          BY <2>1, <4>1, <4>3, <4>4
      <3>4. ~Running(d)'
        BY <1>0, <1>p, <2>3, <3>1 DEF Sending, Running, Only
      <3> QED
        BY <2>2, <2>5, <2>6, <3>1, <3>2, <3>3, <3>4 DEF Single
    <2>9. CASE ~Sending(p, d)' /\ ~Sending(p, d)
      <3>1. \A s \in Senders : (Sending(s, d)' <=> Sending(s, d))
              /\ (Sending(s, d) => call'[s].state = call[s].state)
        BY <1>0, <2>3, <2>9 DEF Only, Sending, Running
      <3>2. Waiting(d)' => Waiting(d)
        BY <2>2 DEF Waiting
      <3> QED
        BY <1>0, <2>2, <2>3, <2>5, <2>6, <3>1, <3>2, SingleKept DEF Only, Running
    <2> QED
      BY <2>7, <2>8, <2>9
  <1>6. ASSUME NEW s \in Senders, Handle(s) PROVE CopyInv'
    <2>1. /\ call[s].state = "sent" /\ Running(s) /\ Store(call[s].write) /\ call[s] \in Call
          /\ call' = [call EXCEPT ![s].state = "ok"]
          /\ UNCHANGED <<queue, made, late, doubtful>>
      BY <1>6 DEF Handle, client, Running, TypeOK
    <2>2. /\ call'[s].state = "ok" /\ call'[s].write = call[s].write
          /\ \A q \in Senders : q # s => call'[q] = call[q]
      BY <2>1 DEF TypeOK, Call
    <2>3. \A q \in Senders, d \in Drafts : Sending(q, d)' <=> Sending(q, d)
      BY <2>1, <2>2 DEF Sending, Running
    <2>4. \A d \in Drafts : Waiting(d)' <=> Waiting(d)
      BY <2>1 DEF Waiting
    <2> SUFFICES ASSUME NEW d \in Drafts, d \notin doubtful PROVE Single(d)'
      BY <2>1 DEF CopyInv
    <2>5. Single(d)
      BY DEF CopyInv
    <2>6. CASE Sending(s, d)
      <3>1. rows[d] \in Nat /\ rows[d] <= 1 /\ rows[d] # 1 /\ made[d] # 0
        BY <2>1, <2>5, <2>6 DEF Single, TypeOK
      <3>2. rows'[d] = 1
        BY <2>1, <2>6, <3>1 DEF Store, Sending
      <3>3. Running(d)' => Running(d)
        BY <1>0, <2>1, <2>2 DEF Running
      <3> QED
        BY <2>1, <2>2, <2>3, <2>4, <2>5, <2>6, <3>1, <3>2, <3>3 DEF Single
    <2>7. CASE ~Sending(s, d)
      <3>1. rows'[d] = rows[d]
        BY <2>1, <2>7 DEF Store, Sending
      <3>2. \A q \in Senders : Sending(q, d) => call'[q].state = call[q].state
        BY <2>2, <2>7
      <3>3. Running(d)' => Running(d)
        BY <1>0, <2>1, <2>2 DEF Running
      <3> QED
        BY <1>0, <2>1, <2>3, <2>4, <2>5, <3>1, <3>2, <3>3, SingleKept
    <2> QED
      BY <2>6, <2>7
  <1>7. ASSUME NEW w \in Writes, ArriveLate(w) PROVE CopyInv'
    <2>1. /\ late[w] > 0 /\ late' = [late EXCEPT ![w] = @ - 1] /\ Store(w)
          /\ UNCHANGED <<call, queue, made, doubtful>>
      BY <1>7 DEF ArriveLate, client
    <2> SUFFICES ASSUME NEW d \in Drafts, d \notin doubtful PROVE Single(d)'
      BY <2>1 DEF CopyInv
    <2>2. Single(d)
      BY DEF CopyInv
    <2>3. w.target # d
      BY <2>1, <2>2 DEF Single
    <2>4. rows'[d] = rows[d] /\ \A u \in Writes : u.target = d => late'[u] = late[u]
      BY <2>1, <2>3 DEF Store, TypeOK
    <2> QED
      BY <1>0, <2>1, <2>2, <2>4, SingleKept DEF Sending, Running, Waiting
  <1>8. CASE Leaves
    <2> SUFFICES ASSUME NEW d \in Drafts, d \notin doubtful' PROVE Single(d)'
      BY DEF CopyInv
    <2>1. /\ Single(d) /\ UNCHANGED <<queue, made, rows>>
          /\ \A s \in Senders : ~Sending(s, d)
      BY <1>8 DEF Leaves, CopyInv, AwaitedDrafts, Sending
    <2>2. \A s \in Senders : ~Sending(s, d)' /\ ~Running(s)'
      BY <1>8 DEF Leaves, Sending, Running
    <2>3. \A w \in Writes : w.target = d => late'[w] = late[w]
      BY <1>8, <2>1 DEF Leaves, Sending
    <2>4. Waiting(d)' <=> Waiting(d)
      BY <2>1 DEF Waiting
    <2> QED
      BY <1>0, <2>1, <2>2, <2>3, <2>4 DEF Single
  <1>9. CASE Idles
    <2> SUFFICES ASSUME NEW d \in Drafts, d \notin doubtful PROVE Single(d)'
      BY <1>9 DEF CopyInv, Idles
    <2> QED
      BY <1>0, <1>9, SingleKept DEF CopyInv, Idles, Sending, Running, Waiting
  <1> QED
    BY <1>1, <1>2, <1>3, <1>4, <1>5, <1>6, <1>7, <1>8, <1>9, Forms

-----------------------------------------------------------------------------
LEMMA SyncInit == Init => Solo /\ OrderInv /\ CopyInv
  <1> SUFFICES ASSUME Init PROVE Solo /\ OrderInv /\ CopyInv
    OBVIOUS
  <1>1. \A s \in Senders : ~Running(s)
    BY CallForms DEF Init, Running
  <1>2. Passes \subseteq Senders /\ Targets \subseteq Senders /\ Drafts \subseteq Targets
    BY DEF Senders, Targets
  <1>3. Solo
    BY <1>1, <1>2 DEF Solo, SomePassRuns, OnePassUnlessReconnected
  <1>4. Queued = {} /\ queue = {}
    BY DEF Init, Queued
  <1>5. OrderInv
    BY <1>1, <1>2, <1>4 DEF OrderInv, Numbered, Awaits, Ordered
  <1>6. CopyInv
    BY <1>1, <1>2, <1>4 DEF CopyInv, Single, Sending, Waiting, Init
  <1> QED
    BY <1>3, <1>5, <1>6

SyncInv == IInv /\ Solo /\ OrderInv /\ CopyInv

LEMMA SyncAlways == Spec => []SyncInv
  <1>1. Init => SyncInv
    BY Initially, SyncInit, OfflineConstants DEF SyncInv
  <1>2. SyncInv /\ [Next]_vars => SyncInv'
    BY Stays, SoloStays, OrderStays, CopyStays, OfflineConstants
       DEF SyncInv, IInv, OrderInv
  <1> QED
    BY <1>1, <1>2, PTL DEF Spec

(* Two passes run at once only after a reconnection during a pass: the       *)
(* button that isSyncing disables never starts a second one.                 *)
THEOREM PassesAreSolitary == Spec => []OnePassUnlessReconnected
  <1>1. SyncInv => OnePassUnlessReconnected
    BY DEF SyncInv, Solo
  <1> QED
    BY <1>1, SyncAlways, PTL

(* A pass never sends an edit over an older one of the same record that it   *)
(* has not tried: the snapshot of sync() is in the order of the edits.       *)
THEOREM EditsGoInOrder == Spec => []PassesSendInOrder
  <1>1. SyncInv => PassesSendInOrder
    <2> SUFFICES ASSUME SyncInv, NEW p \in Passes, NEW w \in queue, Running(p),
                        w.target = call[p].write.target,
                        w.version < call[p].write.version
                 PROVE  w \in skipped[p]
      BY DEF PassesSendInOrder
    <2> DEFINE c == call[p].write
    <2>1. /\ Numbered /\ Ordered(p) /\ c \in Handed(p) /\ Handed(p) \subseteq Queued
          /\ w \in Queued /\ w.version \in Nat /\ stamp[w] \in Nat /\ stamp[c] \in Nat
      BY OfflineConstants
         DEF SyncInv, OrderInv, Ordered, Handed, Numbered, Queued, Writes, IInv, TypeOK
    <2>2. stamp[w] < stamp[c]
      BY <2>1 DEF Numbered
    <2>3. w \notin left[p]
      BY <2>1, <2>2 DEF Ordered
    <2>4. w # c
      BY <2>1, <2>2
    <2>5. w \in skipped[p] \cup left[p] \cup {c}
      BY <2>1 DEF Ordered, Handed
    <2> QED
      BY <2>3, <2>4, <2>5
  <1> QED
    BY <1>1, SyncAlways, PTL

(* The server makes two plans of one draft only if an answer was lost or two *)
(* requests for it were under way at once: dequeuing after the answer costs  *)
(* nothing else.                                                             *)
THEOREM CopiesHaveCause == Spec => []ExtraCopiesHaveCause
  <1>1. SyncInv => ExtraCopiesHaveCause
    <2> SUFFICES ASSUME SyncInv, NEW d \in Drafts, rows[d] > 1, d \notin doubtful
                 PROVE  FALSE
      BY DEF ExtraCopiesHaveCause
    <2>1. rows[d] \in Nat /\ rows[d] <= 1
      BY DEF SyncInv, CopyInv, Single, IInv, TypeOK
    <2> QED
      BY <2>1
  <1> QED
    BY <1>1, SyncAlways, PTL
=============================================================================
