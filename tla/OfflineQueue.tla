----------------------------- MODULE OfflineQueue -----------------------------
(***************************************************************************)
(* The browser client's offline queue (web/src/store/offline.ts), the pages *)
(* that put into it what the network did not answer (CreatePlanModal,       *)
(* PlanDetailPage, ActivityEditorPage), and useSyncEngine of                *)
(* web/src/hooks/index.ts, which replays it.                                *)
(*                                                                          *)
(* JavaScript runs one callback at a time, so an action is what happens     *)
(* between two awaits.  A write is a new plan (a draft, version 1) or an    *)
(* edit of a record, numbered in the order the user makes them; its id in   *)
(* the queue is the write itself and the order of the queue that of stamp.  *)
(* The temporary ids are left out: they only occur in the path of a         *)
(* create's own page, and no page queues a write under one.                 *)
(*                                                                          *)
(* Ghost state, read by no guard: reached, dropped, doubtful, skipped,      *)
(* reconnected.                                                             *)
(***************************************************************************)
EXTENDS Naturals, FiniteSets

CONSTANTS
  Docs,       \* records the user edits: an activity's content, a plan's status
  Drafts,     \* plans the user creates
  Passes,     \* executions of sync() that may be under way at once
  MaxEdits,   \* edits of one record
  MaxFaults,  \* lost answers, time-outs, reloads, sessions ended and sign-outs
  Ops,        \* what users, server and network may do
  None

Targets == Docs \cup Drafts
Senders == Targets \cup Passes

ASSUME OfflineConstants ==
  /\ IsFiniteSet(Docs) /\ IsFiniteSet(Drafts) /\ IsFiniteSet(Passes)
  /\ Docs \cap Drafts = {} /\ Targets \cap Passes = {}
  /\ MaxEdits \in Nat \ {0} /\ MaxFaults \in Nat

Writes == [target : Docs, version : 1..MaxEdits] \cup [target : Drafts, version : {1}]

ASSUME NoneIsNoWrite == None \notin Writes

VARIABLES
  online,       \* isOnline, and the connection itself
  syncing,      \* isSyncing: the sync button is disabled
  shell,        \* what is shown: the sign-in page, a page loading, AppShell
  queue,        \* the queue, kept in localStorage across reloads
  stamp,        \* the order of the queue; 0 for what was never queued
  made,         \* the user's last edit of each record
  call,         \* the request each page and each pass waits for
  left,         \* the snapshot of a pass, without what it has dealt with
  late,         \* requests given up by the client and still under way
  stored,       \* server: the edit each record shows
  rows,         \* server: plans made of each draft
  faults,
  reached,      \* ghost: writes the server has stored
  dropped,      \* ghost: queued writes removed by clearQueue
  doubtful,     \* ghost: drafts with a lost answer, or sent twice at once
  skipped,      \* ghost: what each running pass has failed to send
  reconnected   \* ghost: a reconnection has come while a pass was running

client == <<syncing, shell, queue, stamp, made, left>>
server == <<stored, rows, reached>>
ghosts == <<dropped, skipped, reconnected>>
vars == <<online, call, late, faults, doubtful, client, server, ghosts>>

Call == [state : {"none", "sent", "ok"}, write : Writes \cup {None}]
NoCall == [state |-> "none", write |-> None]

(* Sanity of the state. *)
TypeOK ==
  /\ online \in BOOLEAN /\ syncing \in BOOLEAN /\ reconnected \in BOOLEAN
  /\ shell \in {"signIn", "loading", "open"}
  /\ queue \subseteq Writes /\ dropped \subseteq Writes /\ reached \subseteq Writes
  /\ doubtful \subseteq Drafts
  /\ stamp \in [Writes -> Nat]
  /\ made \in [Targets -> 0..MaxEdits]
  /\ call \in [Senders -> Call]
  /\ \A s \in Senders : call[s].state # "none" => call[s].write \in Writes
  /\ left \in [Passes -> SUBSET Writes] /\ skipped \in [Passes -> SUBSET Writes]
  /\ late \in [Writes -> Nat] /\ rows \in [Drafts -> Nat]
  /\ stored \in [Docs -> 0..MaxEdits]
  /\ faults \in 0..MaxFaults

Init ==
  /\ online \in BOOLEAN /\ syncing = FALSE /\ shell = "open"
  /\ queue = {} /\ stamp = [w \in Writes |-> 0]
  /\ made = [t \in Targets |-> 0]
  /\ call = [s \in Senders |-> NoCall] /\ left = [p \in Passes |-> {}]
  /\ late = [w \in Writes |-> 0] /\ rows = [d \in Drafts |-> 0]
  /\ stored = [d \in Docs |-> 0]
  /\ faults = 0
  /\ reached = {} /\ dropped = {} /\ doubtful = {} /\ skipped = [p \in Passes |-> {}]
  /\ reconnected = FALSE

-----------------------------------------------------------------------------
(* Helpers. *)

Running(s) == call[s].state # "none"
SomePassRuns == \E p \in Passes : Running(p)

(* The item of q that was queued first. *)
First(q) == CHOOSE w \in q : \A u \in q : stamp[w] <= stamp[u]

(* Mistaken request: without its payload. *)
SentEmpty(w) == [state |-> "sent", write |-> None]

(* s sends w. *)
Sent(w) == [state |-> "sent", write |-> w]

(* Ghost: a draft is in doubt if it is sent while another request for it runs. *)
AwaitedDrafts == {d \in Drafts : \E s \in Senders : Running(s) /\ call[s].write.target = d}
Twice(w) == AwaitedDrafts \cap {w.target}

(* Each iteration of sync()'s loop reads the queue afresh and leaves out     *)
(* what is no longer there; after the last, setSyncing(false).  queued is    *)
(* the queue; doubts and skips are the ghosts so far.                        *)
Continue(p, queued, doubts, skips) ==
  LET rest == left[p] \cap queued
      w == First(rest)
  IN IF rest = {}
     THEN /\ call' = [call EXCEPT ![p] = NoCall]
          /\ left' = [left EXCEPT ![p] = {}]
          /\ syncing' = FALSE
          /\ doubtful' = doubts
          /\ skipped' = [skipped EXCEPT ![p] = {}]
          /\ reconnected' = (reconnected /\ \E q \in Passes \ {p} : Running(q))
     ELSE /\ call' = [call EXCEPT ![p] = Sent(w)]
          /\ left' = [left EXCEPT ![p] = rest \ {w}]
          /\ doubtful' = doubts \cup Twice(w)
          /\ skipped' = [skipped EXCEPT ![p] = skips]
          /\ UNCHANGED <<syncing, reconnected>>

(* The head of sync(): setSyncing(true) and the first item. *)
Begin(p) ==
  LET w == First(queue)
  IN /\ ~Running(p)
     /\ call' = [call EXCEPT ![p] = Sent(w)]
     /\ left' = [left EXCEPT ![p] = queue \ {w}]
     /\ skipped' = [skipped EXCEPT ![p] = {}]
     /\ doubtful' = doubtful \cup Twice(w)
     /\ syncing' = TRUE

(* Mistaken enqueue: in front of the queue. *)
EnqueueInFront(w) ==
  /\ queue' = queue \cup {w}
  /\ stamp' = [u \in Writes |-> IF u = w THEN 1
                                ELSE IF stamp[u] > 0 THEN stamp[u] + 1 ELSE 0]

(* enqueue: at the end of the queue. *)
Enqueue(w) ==
  /\ queue' = queue \cup {w}
  /\ stamp' = [stamp EXCEPT ![w] = 1 + Cardinality({u \in Writes : stamp[u] > 0})]

(* Server: the last PUT wins, each POST makes a row. *)
Store(w) ==
  /\ rows' = [d \in Drafts |-> IF d = w.target THEN rows[d] + 1 ELSE rows[d]]
  /\ reached' = reached \cup {w}
  /\ stored' = [d \in Docs |-> IF d = w.target THEN w.version ELSE stored[d]]

(* The server refuses the request of s: nothing of it changes, so the way    *)
(* the answer takes is left out.                                             *)
Refused(s) == "refuse" \in Ops /\ online /\ call[s].state = "sent"

-----------------------------------------------------------------------------
(* Pages. *)

(* The user creates a plan or edits a record: the page tries the network     *)
(* first.  useAutoSave and the forms have one save of a record at a time.    *)
Save(t) ==
  LET w == [target |-> t, version |-> made[t] + 1]
  IN /\ shell = "open"
     /\ call[t] = NoCall
     /\ w \in Writes
     /\ made' = [made EXCEPT ![t] = @ + 1]
     /\ call' = [call EXCEPT ![t] = Sent(w)]
     /\ UNCHANGED <<online, syncing, shell, queue, stamp, left, late, faults,
                    doubtful, server, ghosts>>

(* The server has answered: stored, or refused, which is never queued. *)
PageAnswered(t) ==
  /\ call[t].state = "ok" \/ Refused(t)
  /\ call' = [call EXCEPT ![t] = NoCall]
  /\ UNCHANGED <<online, client, late, faults, doubtful, server, ghosts>>

(* Request s ends without an answer: err.response is undefined.  Either it   *)
(* was made without a connection, or something was lost: the request, the    *)
(* answer, or just the client's patience (late).                             *)
Unanswered(s) ==
  \/ /\ ~online /\ call[s].state = "sent"
     /\ UNCHANGED <<late, faults>>
  \/ /\ "lose" \in Ops
     /\ call[s].state # "none"
     /\ faults < MaxFaults
     /\ faults' = faults + 1
     /\ \/ UNCHANGED late
        \/ call[s].state = "sent" /\ late' = [late EXCEPT ![call[s].write] = @ + 1]

Doubt(s) == IF faults' = faults THEN doubtful
            ELSE doubtful \cup (Drafts \cap {call[s].write.target})

(* The page's catch: enqueue. *)
PageUnanswered(t) ==
  /\ Unanswered(t)
  /\ Enqueue(call[t].write)
  /\ call' = [call EXCEPT ![t] = NoCall]
  /\ doubtful' = Doubt(t)
  /\ UNCHANGED <<online, syncing, shell, made, left, server, ghosts>>

-----------------------------------------------------------------------------
(* sync(). *)

(* Mistaken press: the button is not disabled while a pass runs. *)
PressAnyTime(p) ==
  /\ shell = "open" /\ online
  /\ queue # {}
  /\ Begin(p)
  /\ UNCHANGED <<online, shell, queue, stamp, made, late, faults, server,
                 dropped, reconnected>>

(* The button, shown while something waits and disabled while isSyncing. *)
Press(p) ==
  /\ shell = "open" /\ online /\ ~syncing
  /\ queue # {}
  /\ Begin(p)
  /\ UNCHANGED <<online, shell, queue, stamp, made, late, faults, server,
                 dropped, reconnected>>

(* The effect on isOnline, which also runs when AppShell is mounted; it does *)
(* not look at isSyncing.                                                    *)
AutoSync ==
  IF queue = {}
  THEN UNCHANGED <<call, left, syncing, doubtful, skipped, reconnected>>
  ELSE \E p \in Passes : Begin(p) /\ reconnected' = SomePassRuns

GoOnline ==
  /\ ~online
  /\ online' = TRUE
  /\ IF shell = "open" THEN AutoSync
     ELSE UNCHANGED <<call, left, syncing, doubtful, skipped, reconnected>>
  /\ UNCHANGED <<shell, queue, stamp, made, late, faults, server, dropped>>

GoOffline ==
  /\ online
  /\ online' = FALSE
  /\ UNCHANGED <<call, client, late, faults, doubtful, server, ghosts>>

(* Mistaken answer: the item is dequeued whatever the answer says. *)
PassAnsweredAny(p) ==
  LET w == call[p].write
  IN /\ call[p].state = "ok" \/ Refused(p)
     /\ queue' = queue \ {w}
     /\ Continue(p, queue', doubtful, skipped[p])
     /\ UNCHANGED <<online, shell, stamp, made, late, faults, server, dropped>>

(* Mistaken answer: the item is not dequeued. *)
PassAnsweredKeeps(p) ==
  /\ call[p].state = "ok"
  /\ Continue(p, queue, doubtful, skipped[p])
  /\ UNCHANGED <<online, shell, queue, stamp, made, late, faults, server, dropped>>

(* The item is stored: dequeue, and on to the next. *)
PassAnswered(p) ==
  LET w == call[p].write
  IN /\ call[p].state = "ok"
     /\ queue' = queue \ {w}
     /\ Continue(p, queue', doubtful, skipped[p])
     /\ UNCHANGED <<online, shell, stamp, made, late, faults, server, dropped>>

(* Mistaken catch: the loop ends with the first failure. *)
PassRefusedStops(p) ==
  /\ Refused(p)
  /\ call' = [call EXCEPT ![p] = NoCall]
  /\ left' = [left EXCEPT ![p] = {}]
  /\ skipped' = [skipped EXCEPT ![p] = {}]
  /\ UNCHANGED <<online, syncing, shell, queue, stamp, made, late, faults, doubtful,
                 server, dropped, reconnected>>

(* addConflict, and on to the next item; this one stays in the queue. *)
PassRefused(p) ==
  /\ Refused(p)
  /\ Continue(p, queue, doubtful, skipped[p] \cup {call[p].write})
  /\ UNCHANGED <<online, shell, queue, stamp, made, late, faults, server, dropped>>

(* The same without an answer. *)
PassUnanswered(p) ==
  /\ Unanswered(p)
  /\ Continue(p, queue, Doubt(p), skipped[p] \cup {call[p].write})
  /\ UNCHANGED <<online, shell, queue, stamp, made, server, dropped>>

-----------------------------------------------------------------------------
(* Signing in and out, reloading. *)

(* The page is loaded anew: its requests are given up, some of them under    *)
(* way, and of the store only what is persisted comes back.                  *)
Reload(next) ==
  /\ faults < MaxFaults /\ faults' = faults + 1
  /\ shell' = next
  /\ \E on \in SUBSET {s \in Senders : call[s].state = "sent"} :
       late' = [w \in Writes |-> late[w] + Cardinality({s \in on : call[s].write = w})]
  /\ doubtful' = doubtful \cup AwaitedDrafts
  /\ call' = [s \in Senders |-> NoCall]
  /\ left' = [p \in Passes |-> {}]
  /\ skipped' = [p \in Passes |-> {}]
  /\ syncing' = FALSE /\ reconnected' = FALSE
  /\ UNCHANGED <<online, queue, stamp, made, server, dropped>>

(* The user reloads the page. *)
ReloadPage ==
  /\ "reload" \in Ops
  /\ shell = "open"
  /\ Reload("loading")

(* A 401 that the refresh token cannot mend: the tokens are cleared and the  *)
(* browser is sent to the sign-in page.                                      *)
SessionEnds(s) ==
  /\ "expire" \in Ops
  /\ online /\ call[s].state = "sent"
  /\ Reload("signIn")

(* AppShell is mounted. *)
Mount ==
  /\ shell = "loading"
  /\ shell' = "open"
  /\ IF online THEN AutoSync
     ELSE UNCHANGED <<call, left, syncing, doubtful, skipped, reconnected>>
  /\ UNCHANGED <<online, queue, stamp, made, late, faults, server, dropped>>

ClearQueue ==
  /\ queue' = {}
  /\ dropped' = dropped \cup queue

(* setAuth, at sign-in; clearAuth, at sign-out, which reloads nothing. *)
SignIn ==
  /\ shell = "signIn" /\ online
  /\ shell' = "loading"
  /\ ClearQueue
  /\ UNCHANGED <<online, syncing, stamp, made, left, call, late, faults, doubtful,
                 server, skipped, reconnected>>

SignOut ==
  /\ "signOut" \in Ops
  /\ shell = "open"
  /\ faults < MaxFaults /\ faults' = faults + 1
  /\ shell' = "signIn"
  /\ ClearQueue
  /\ UNCHANGED <<online, syncing, stamp, made, left, call, late, doubtful,
                 server, skipped, reconnected>>

-----------------------------------------------------------------------------
(* The server. *)

Handle(s) ==
  /\ online /\ call[s].state = "sent"
  /\ Store(call[s].write)
  /\ call' = [call EXCEPT ![s].state = "ok"]
  /\ UNCHANGED <<online, client, late, faults, doubtful, ghosts>>

(* A request the client has given up arrives after all. *)
ArriveLate(w) ==
  /\ late[w] > 0
  /\ late' = [late EXCEPT ![w] = @ - 1]
  /\ Store(w)
  /\ UNCHANGED <<online, call, client, faults, doubtful, ghosts>>

-----------------------------------------------------------------------------
PassStep(p) ==
  Handle(p) \/ PassAnswered(p) \/ PassRefused(p) \/ PassUnanswered(p)

Next ==
  \/ \E t \in Targets : Save(t) \/ Handle(t) \/ PageAnswered(t) \/ PageUnanswered(t)
  \/ \E p \in Passes : Press(p) \/ PassStep(p)
  \/ \E s \in Senders : SessionEnds(s)
  \/ \E w \in Writes : ArriveLate(w)
  \/ GoOnline \/ GoOffline \/ ReloadPage \/ Mount \/ SignIn \/ SignOut

Spec == Init /\ [][Next]_vars

(* Every awaited request ends, with an answer or by axios' time-out. *)
FairSpec == Spec /\ \A p \in Passes : WF_vars(PassStep(p))

-----------------------------------------------------------------------------
(* Properties. *)

(* ActivityEditorPage.tsx:422, "the edit is safely captured, just not synced *)
(* yet": what a page has handed to the queue is still there or the server    *)
(* has stored it, through refusals, lost answers, overlapping passes and     *)
(* reloads, unless signing in or out has emptied the queue.                  *)
CapturedWritesSurvive ==
  \A w \in Writes : stamp[w] > 0 => w \in queue \cup reached \cup dropped

(* Dequeuing only after the answer means a POST can be sent twice.  The      *)
(* server makes two plans of one draft only if an answer got lost or two     *)
(* passes were sending it at once.                                           *)
ExtraCopiesHaveCause ==
  \A d \in Drafts : rows[d] > 1 => d \in doubtful

(* A pass sends an edit while an older one of the same record is queued only *)
(* if it has tried the older one before and failed.                          *)
PassesSendInOrder ==
  \A p \in Passes : \A w \in queue :
    Running(p) /\ w.target = call[p].write.target /\ w.version < call[p].write.version
      => w \in skipped[p]

(* Two passes run at once only after a reconnection during a pass: isSyncing *)
(* keeps the button from starting a second one.                              *)
OnePassUnlessReconnected ==
  (\E p, q \in Passes : p # q /\ Running(p) /\ Running(q)) => reconnected

(* The indicator does not spin, and the button is not disabled, for ever:    *)
(* isSyncing is reset however the requests of the pass end.                  *)
SyncingEnds == syncing ~> ~syncing

(* "safely captured, just not synced yet": a write leaves the queue when the *)
(* server has it, not before.                                                *)
QueuedUntilStored == [][queue \ queue' \subseteq reached]_vars
=============================================================================
