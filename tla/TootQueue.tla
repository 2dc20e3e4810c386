------------------------------ MODULE TootQueue ------------------------------
(***************************************************************************)
(* The broadcast of toots by the messenger (server/logic/messenger.go) and *)
(* the table it works from, toot_queue (server/dal/repo.go).               *)
(*                                                                         *)
(* EnqueueBroadcast, run by any goroutine that has just created a toot,    *)
(* stores one row per distinct inbox and wakes the loop.  tootQueueLoop, a *)
(* single goroutine, fetches rows above the largest id it is working on,   *)
(* starts one goroutine per row, and deletes a row once its goroutine has  *)
(* reported back.  The table survives a crash of the process; tqProgress,  *)
(* the goroutines and the wake-ups do not.                                 *)
(***************************************************************************)
EXTENDS Naturals, FiniteSets, Functions

CONSTANTS
  Toots,            \* the toots created, each broadcast at most once
  Inboxes,          \* distinct shared inboxes of the followers
  Users,            \* the sending accounts
  Owner,            \* the account a toot belongs to
  MaxParallel,      \* maxParallelSends
  MaxRowId,         \* bound: the largest row id
  MaxRuns,          \* bound: how often the process is started
  MaxFailedDeletes  \* bound: how many DELETEs of a queue row fail

ASSUME TootQueueAssumption ==
  /\ Owner \in [Toots -> Users]
  /\ MaxParallel \in Nat \ {0}
  /\ MaxRowId \in Nat
  /\ MaxRuns \in Nat \ {0}
  /\ MaxFailedDeletes \in Nat

VARIABLES
  accounts,    \* the accounts rows that exist; only they have a private key
  tootQueue,   \* toot_queue: a function from row ids to what is to be sent
  pc,          \* per toot: where its EnqueueBroadcast is
  left,        \* per toot: the inboxes EnqueueBroadcast has still to store
  signals,     \* goroutines blocked on sending to newTootsInQueue
  loop,        \* where tootQueueLoop is; "down" when no process runs
  tqProgress,  \* the ids the loop is working on
  sending,     \* per goroutine identity: how many are before or in their POST
  waiting,     \* per goroutine identity: how many are blocked on tootSent
  attempts,    \* history: how often each item's send was attempted
  failedDeletes, runs  \* counters of the bounds

dbVars == <<accounts, tootQueue>>
broadcastVars == <<pc, left, signals>>
loopVars == <<loop, tqProgress>>
goroutineVars == <<sending, waiting>>
historyVars == <<attempts, failedDeletes, runs>>
vars == <<dbVars, broadcastVars, loopVars, goroutineVars, historyVars>>

RowIds == 1..MaxRowId
Item == [toot : Toots, inbox : Inboxes]
Goroutine == [id : RowIds, item : Item]
NoGoroutine == [g \in Goroutine |-> 0]

TypeOK ==
  /\ accounts \subseteq Users
  /\ DOMAIN tootQueue \subseteq RowIds
  /\ tootQueue \in [DOMAIN tootQueue -> Item]
  /\ pc \in [Toots -> {"idle", "queueing", "done"}]
  /\ left \in [Toots -> SUBSET Inboxes]
  /\ signals \in Nat
  /\ loop \in {"select", "fetch", "down"}
  /\ tqProgress \subseteq RowIds
  /\ sending \in [Goroutine -> Nat]
  /\ waiting \in [Goroutine -> Nat]
  /\ attempts \in [Item -> Nat]
  /\ failedDeletes \in 0..MaxFailedDeletes
  /\ runs \in 1..MaxRuns

Up == loop # "down"

-----------------------------------------------------------------------------
(* The table.  SQLite gives a new row of an INTEGER PRIMARY KEY without      *)
(* AUTOINCREMENT the largest id in use plus one, so ids are used again.      *)

AboveAll(S) == {n \in RowIds : \A m \in S : n > m}

NewRowId(id) ==
  /\ id \in AboveAll(DOMAIN tootQueue)
  /\ \A n \in AboveAll(DOMAIN tootQueue) : id <= n

InsertRow(id, item) ==
  tootQueue' = [n \in DOMAIN tootQueue \cup {id} |->
                  IF n = id THEN item ELSE tootQueue[n]]

\* Mutant of DeleteRow: everything up to the id.
DeleteRowsUpTo(id) == tootQueue' = Restrict(tootQueue, DOMAIN tootQueue \cap AboveAll({id}))

DeleteRow(id) == tootQueue' = Restrict(tootQueue, DOMAIN tootQueue \ {id})

\* Mutant of Fetchable: the query without its id > maxId.
FetchableAgain == DOMAIN tootQueue

\* GetTootQueueItems(maxId, limit): the lowest ids above everything in progress.
Fetchable == DOMAIN tootQueue \cap AboveAll(tqProgress)

FirstRows(S, limit) == {n \in S : Cardinality({m \in S : m < n}) < limit}

\* Mutant of Fetched: the limit does not count what is in progress.
FetchedFullBatch == FirstRows(Fetchable, MaxParallel)

Fetched == FirstRows(Fetchable, MaxParallel - Cardinality(tqProgress))

-----------------------------------------------------------------------------
(* EnqueueBroadcast, one step per access to the database                     *)

\* Reads the approved followers' inboxes.  An error, and an empty set of
\* inboxes, end the call.
ReadInboxes(t) ==
  /\ Up
  /\ pc[t] = "idle"
  /\ \E S \in SUBSET Inboxes :
       /\ left' = [left EXCEPT ![t] = S]
       /\ pc' = [pc EXCEPT ![t] = IF S = {} THEN "done" ELSE "queueing"]
  /\ UNCHANGED <<dbVars, signals, loopVars, goroutineVars, historyVars>>

\* The map of inboxes is iterated in any order.
AddTootQueueItem(t, i) ==
  /\ Up
  /\ pc[t] = "queueing"
  /\ i \in left[t]
  /\ \E id \in RowIds : NewRowId(id) /\ InsertRow(id, [toot |-> t, inbox |-> i])
  /\ left' = [left EXCEPT ![t] = @ \ {i}]
  /\ UNCHANGED <<accounts, pc, signals, loopVars, goroutineVars, historyVars>>

\* A failed INSERT returns at once: the other inboxes get no row, nobody is woken.
AddTootQueueItemFails(t) ==
  /\ Up
  /\ pc[t] = "queueing"
  /\ left[t] # {}
  /\ pc' = [pc EXCEPT ![t] = "done"]
  /\ left' = [left EXCEPT ![t] = {}]
  /\ UNCHANGED <<dbVars, signals, loopVars, goroutineVars, historyVars>>

\* All rows stored: a goroutine is started that blocks on newTootsInQueue.
SignalNewToots(t) ==
  /\ Up
  /\ pc[t] = "queueing"
  /\ left[t] = {}
  /\ pc' = [pc EXCEPT ![t] = "done"]
  /\ signals' = signals + 1
  /\ UNCHANGED <<dbVars, left, loopVars, goroutineVars, historyVars>>

-----------------------------------------------------------------------------
(* tootQueueLoop                                                             *)

\* Mutant of TakeNewTootsSignal: a receive that does not wait for a sender.
TakeClosedSignal ==
  /\ loop = "select"
  /\ signals' = signals - 1
  /\ loop' = "fetch"
  /\ UNCHANGED <<dbVars, pc, left, tqProgress, goroutineVars, historyVars>>

TakeNewTootsSignal ==
  /\ loop = "select"
  /\ signals > 0
  /\ signals' = signals - 1
  /\ loop' = "fetch"
  /\ UNCHANGED <<dbVars, pc, left, tqProgress, goroutineVars, historyVars>>

IdleWake ==
  /\ loop = "select"
  /\ loop' = "fetch"
  /\ UNCHANGED <<dbVars, broadcastVars, tqProgress, goroutineVars, historyVars>>

\* Mutants of RemoveSentToot: the slot is kept when the DELETE fails; the DELETE
\* is left out; the slot is never given back.
RemoveSentTootOrKeepSlot(g) ==
  /\ loop = "select"
  /\ waiting[g] > 0
  /\ waiting' = [waiting EXCEPT ![g] = @ - 1]
  /\ \/ /\ DeleteRow(g.id)
        /\ tqProgress' = tqProgress \ {g.id}
        /\ UNCHANGED failedDeletes
     \/ /\ failedDeletes < MaxFailedDeletes
        /\ failedDeletes' = failedDeletes + 1
        /\ UNCHANGED <<tootQueue, tqProgress>>
  /\ loop' = "fetch"
  /\ UNCHANGED <<accounts, broadcastVars, sending, attempts, runs>>
ForgetSentToot(g) ==
  /\ loop = "select"
  /\ waiting[g] > 0
  /\ waiting' = [waiting EXCEPT ![g] = @ - 1]
  /\ tqProgress' = tqProgress \ {g.id}
  /\ loop' = "fetch"
  /\ UNCHANGED <<dbVars, broadcastVars, sending, historyVars>>
RemoveSentRowOnly(g) ==
  /\ loop = "select"
  /\ waiting[g] > 0
  /\ waiting' = [waiting EXCEPT ![g] = @ - 1]
  /\ DeleteRow(g.id)
  /\ loop' = "fetch"
  /\ UNCHANGED <<accounts, broadcastVars, tqProgress, sending, historyVars>>

\* removeSentToot: a failed DELETE is only logged; the id leaves tqProgress anyway.
RemoveSentToot(g) ==
  /\ loop = "select"
  /\ waiting[g] > 0
  /\ waiting' = [waiting EXCEPT ![g] = @ - 1]
  /\ \/ /\ DeleteRow(g.id)
        /\ UNCHANGED failedDeletes
     \/ /\ failedDeletes < MaxFailedDeletes
        /\ failedDeletes' = failedDeletes + 1
        /\ UNCHANGED tootQueue
  /\ tqProgress' = tqProgress \ {g.id}
  /\ loop' = "fetch"
  /\ UNCHANGED <<accounts, broadcastVars, sending, attempts, runs>>

\* sendToots: a goroutine for each row fetched, each with its copy of the row.
SendToots ==
  /\ loop = "fetch"
  /\ Cardinality(tqProgress) < MaxParallel
  /\ tqProgress' = tqProgress \cup Fetched
  /\ sending' = [g \in Goroutine |->
                   IF g.id \in Fetched /\ tootQueue[g.id] = g.item
                     THEN sending[g] + 1 ELSE sending[g]]
  /\ loop' = "select"
  /\ UNCHANGED <<dbVars, broadcastVars, waiting, historyVars>>

\* sendToots does nothing when all slots are taken or the SELECT fails.
SendTootsSkipped ==
  /\ loop = "fetch"
  /\ loop' = "select"
  /\ UNCHANGED <<dbVars, broadcastVars, tqProgress, goroutineVars, historyVars>>

-----------------------------------------------------------------------------
(* sendQueuedToot, run by the goroutine of a row                             *)

\* Whatever becomes of the key lookup and the POST, the goroutine reports the
\* toot as sent: sendToInbox ignores what Send returns.
SendQueuedToot(g) ==
  /\ sending[g] > 0
  /\ Owner[g.item.toot] \in accounts
  /\ sending' = [sending EXCEPT ![g] = @ - 1]
  /\ waiting' = [waiting EXCEPT ![g] = @ + 1]
  /\ attempts' = [attempts EXCEPT ![g.item] = @ + 1]
  /\ UNCHANGED <<dbVars, broadcastVars, loopVars, failedDeletes, runs>>

-----------------------------------------------------------------------------
(* The process and what happens around it                                    *)

ProcessDies ==
  /\ loop' = "down"
  /\ tqProgress' = {}
  /\ signals' = 0
  /\ sending' = NoGoroutine
  /\ waiting' = NoGoroutine
  /\ pc' = [t \in Toots |-> IF pc[t] = "queueing" THEN "done" ELSE pc[t]]
  /\ left' = [t \in Toots |-> {}]
  /\ UNCHANGED <<dbVars, historyVars>>

\* GetPrivKey dereferences the nil PEM block of an account that is gone, in a
\* goroutine that recovers nothing.
SendPanics(g) ==
  /\ sending[g] > 0
  /\ Owner[g.item.toot] \notin accounts
  /\ ProcessDies

Crash ==
  /\ Up
  /\ runs < MaxRuns
  /\ ProcessDies

Restart ==
  /\ loop = "down"
  /\ runs < MaxRuns
  /\ runs' = runs + 1
  /\ loop' = "select"
  /\ UNCHANGED <<dbVars, broadcastVars, tqProgress, goroutineVars,
                 attempts, failedDeletes>>

\* BruteDeleteAccount leaves the account's rows in toot_queue behind.
DeleteAccount(u) ==
  /\ Up
  /\ u \in accounts
  /\ accounts' = accounts \ {u}
  /\ UNCHANGED <<tootQueue, broadcastVars, loopVars, goroutineVars, historyVars>>

-----------------------------------------------------------------------------
Init ==
  /\ accounts = Users
  /\ tootQueue = [n \in {} |-> 0]
  /\ pc = [t \in Toots |-> "idle"]
  /\ left = [t \in Toots |-> {}]
  /\ signals = 0
  /\ loop = "select"
  /\ tqProgress = {}
  /\ sending = NoGoroutine
  /\ waiting = NoGoroutine
  /\ attempts = [i \in Item |-> 0]
  /\ failedDeletes = 0
  /\ runs = 1

Broadcast(t) ==
  \/ ReadInboxes(t)
  \/ \E i \in Inboxes : AddTootQueueItem(t, i)
  \/ AddTootQueueItemFails(t)
  \/ SignalNewToots(t)

Loop ==
  \/ TakeNewTootsSignal
  \/ IdleWake
  \/ \E g \in Goroutine : RemoveSentToot(g)
  \/ SendToots
  \/ SendTootsSkipped

Environment ==
  \/ Crash
  \/ Restart
  \/ \E u \in Users : DeleteAccount(u)

Next ==
  \/ \E t \in Toots : Broadcast(t)
  \/ Loop
  \/ \E g \in Goroutine : SendQueuedToot(g) \/ SendPanics(g)
  \/ Environment

Spec == Init /\ [][Next]_vars

-----------------------------------------------------------------------------
(* Fairness: the loop is never blocked for ever, since the 5 s timer of the  *)
(* select is always armed; select chooses among the ready cases at random,   *)
(* so a goroutine that keeps waiting on tootSent is heard; database errors   *)
(* are transient, so a SELECT tried again and again succeeds; the HTTP       *)
(* client has a timeout, so every POST ends; the process is started again.   *)

\* Goroutines told apart by their row: there is one per row (NoDoubleSend).
GoroutineOf(id) == {g \in Goroutine : g.id = id}

Fairness ==
  /\ WF_vars(Loop)
  /\ SF_vars(SendToots)
  /\ \A id \in RowIds :
       /\ SF_vars(\E g \in GoroutineOf(id) : RemoveSentToot(g))
       /\ WF_vars(\E g \in GoroutineOf(id) : SendQueuedToot(g))
  /\ WF_vars(Restart)

FairSpec == Spec /\ Fairness

-----------------------------------------------------------------------------
(* Properties                                                                *)

\* The goroutines that exist, and the items with a row.
Live == {g \in Goroutine : sending[g] + waiting[g] > 0}
Queued == {tootQueue[n] : n \in DOMAIN tootQueue}

\* No two goroutines ever work for the same row or send the same item at the
\* same time, however ids are used again, rows survive a failed DELETE and the
\* loop is woken while goroutines are at work.
NoDoubleSend ==
  /\ \A g \in Goroutine : sending[g] + waiting[g] <= 1
  /\ \A g, h \in Live : g.id = h.id \/ g.item = h.item => g = h

\* At most maxParallelSends goroutines are sending or waiting to report.
ParallelSendsBounded == Cardinality(Live) <= MaxParallel

\* tqProgress is exactly the ids of the goroutines that exist: no slot is held
\* for a goroutine that has gone, and no goroutine runs outside the count.
NoLeakedSlot == tqProgress = {g.id : g \in Live}

\* What a goroutine is sending is still in the table, under the id it will
\* delete when it is done: no id in progress is given to another row.
InProgressStillQueued ==
  \A g \in Live : g.id \in DOMAIN tootQueue /\ tootQueue[g.id] = g.item

\* An item is sent once, and once more at most for every restart of the
\* process and every DELETE that failed.
DuplicatesBounded == \A i \in Item : attempts[i] <= runs + failedDeletes

\* The inductive invariant behind the properties above.  An item is in one row
\* at most and never in a row while EnqueueBroadcast has still to store it; and
\* of the attempts that DuplicatesBounded allows, one is kept in reserve for
\* every row that no goroutine has yet finished with in this run.
RowsUnique ==
  /\ \A m, n \in DOMAIN tootQueue : tootQueue[m] = tootQueue[n] => m = n
  /\ \A n \in DOMAIN tootQueue :
       /\ pc[tootQueue[n].toot] # "idle"
       /\ tootQueue[n].inbox \notin left[tootQueue[n].toot]

AttemptsInStep ==
  /\ \A i \in Item : pc[i.toot] = "idle" \/ i.inbox \in left[i.toot] => attempts[i] = 0
  /\ \A g \in Goroutine : waiting[g] > 0 => attempts[g.item] > 0
  /\ Up => \A i \in Queued : (\A g \in Goroutine : g.item = i => waiting[g] = 0)
                             => attempts[i] < runs + failedDeletes
  /\ ~Up => Live = {}

SlotsBounded == Cardinality(tqProgress) <= MaxParallel

QueueInv ==
  /\ RowsUnique
  /\ \A g \in Goroutine : sending[g] + waiting[g] <= 1
  /\ NoLeakedSlot
  /\ InProgressStillQueued
  /\ SlotsBounded
  /\ AttemptsInStep
  /\ DuplicatesBounded

\* While no account is deleted, every row is at last sent and removed.
QueueDrains ==
  [](accounts = Users) => \A i \in Item : (i \in Queued) ~> (i \notin Queued)

\* The queue promises what TootDelivery says of it.
Delivery == INSTANCE TootDelivery WITH
              Items <- Item,
              owed <- Queued,
              tried <- {i \in Item : attempts[i] > 0}

DeliveryPromise == Delivery!Spec
=============================================================================
