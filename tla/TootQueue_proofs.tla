--------------------------- MODULE TootQueue_proofs ---------------------------
(* Theorems about TootQueue for every value of its constants.                *)
EXTENDS TootQueue, FiniteSetTheorems, WellFoundedInduction, TLAPS

USE TootQueueAssumption

-----------------------------------------------------------------------------
(* The table and the fetch *)

\* A row id is a positive number.
LEMMA RowIdsAreNumbers == RowIds \subseteq Nat /\ IsFiniteSet(RowIds)
  BY FS_Interval DEF RowIds

\* The query's LIMIT: the rows with fewer than limit rows below them are at most
\* limit many.
LEMMA FirstRowsBounded ==
  ASSUME NEW S \in SUBSET Nat, IsFiniteSet(S), NEW limit \in Nat
  PROVE  Cardinality(FirstRows(S, limit)) <= limit
<1> DEFINE below(n) == {m \in S : m < n}
           F == FirstRows(S, limit)
           rank == [n \in F |-> Cardinality(below(n)) + 1]
<1>1. \A n \in S : IsFiniteSet(below(n)) /\ Cardinality(below(n)) \in Nat
  BY FS_Subset, FS_CardinalityType
<1>2. rank \in [F -> 1..limit]
  <2> SUFFICES ASSUME NEW n \in F
               PROVE  Cardinality(below(n)) + 1 \in 1..limit
    OBVIOUS
  <2>1. n \in S /\ Cardinality(below(n)) < limit
    BY DEF FirstRows
  <2> HIDE DEF below, F
  <2> QED BY <1>1, <2>1
<1>3. ASSUME NEW m \in F, NEW n \in F, m < n
      PROVE  rank[m] < rank[n]
  <2>1. m \in S /\ n \in S
    BY DEF FirstRows
  <2>0. m \in Nat /\ n \in Nat /\ \A x \in S : x < m => x < n
    BY <2>1, <1>3
  <2>2. below(m) \in SUBSET below(n) /\ m \in below(n) \ below(m)
    <3> HIDE DEF F
    <3>1. below(m) \subseteq below(n)
      BY <2>0
    <3>2. m \in below(n)
      BY <2>1, <1>3
    <3>3. m \notin below(m)
      BY <2>0
    <3> QED BY <3>1, <3>2, <3>3
  <2>3. Cardinality(below(m)) <= Cardinality(below(n))
    <3> HIDE DEF below
    <3> QED BY <1>1, <2>1, <2>2, FS_Subset
  <2>4. Cardinality(below(m)) # Cardinality(below(n))
    <3> HIDE DEF below
    <3> QED BY <1>1, <2>1, <2>2, FS_Subset
  <2> QED BY <1>1, <2>1, <2>3, <2>4
<1>4. \A m, n \in F : rank[m] = rank[n] => m = n
  <2> SUFFICES ASSUME NEW m \in F, NEW n \in F, rank[m] = rank[n]
               PROVE  m = n
    OBVIOUS
  <2>1. m \in Nat /\ n \in Nat /\ rank[m] \in Nat /\ rank[n] \in Nat
    BY <1>2 DEF FirstRows
  <2> HIDE DEF rank, F
  <2>2. ~(m < n) /\ ~(n < m)
    BY <1>3, <2>1
  <2> QED BY <2>1, <2>2
<1>5. rank \in Injection(F, 1..limit)
  BY <1>2, <1>4 DEF Injection, IsInjective
<1>6. IsFiniteSet(1..limit) /\ Cardinality(1..limit) = limit
  BY FS_Interval
<1> HIDE DEF rank
<1> QED BY <1>5, <1>6, FS_Injection

\* The query finds a row if there is one and the limit allows one.
LEMMA FirstRowsFound ==
  ASSUME NEW S \in SUBSET Nat, S # {}, NEW limit \in Nat \ {0}
  PROVE  FirstRows(S, limit) # {}
<1>1. PICK n \in S : \A m \in S : ~(m < n)
  <2>1. PICK n \in S : \A m \in S : ~(<<m, n>> \in OpToRel(<, Nat))
    BY NatLessThanWellFounded, WFMin
  <2> QED BY <2>1 DEF OpToRel
<1>2. {m \in S : m < n} = {}
  BY <1>1
<1>3. Cardinality({m \in S : m < n}) = 0
  BY <1>2, FS_EmptySet
<1> QED BY <1>3 DEF FirstRows

-----------------------------------------------------------------------------
(* Types *)

\* Every variable keeps its type: TypeOK holds of messenger.go's queue for any
\* number of toots, inboxes and slots.
THEOREM TypeCorrect == Spec => []TypeOK
<1>1. Init => TypeOK
  BY DEF Init, TypeOK, NoGoroutine
<1>2. TypeOK /\ [Next]_vars => TypeOK'
  <2> SUFFICES ASSUME TypeOK, [Next]_vars
               PROVE  TypeOK'
    OBVIOUS
  <2> USE DEF TypeOK
  <2>1. ASSUME NEW t \in Toots, ReadInboxes(t)
        PROVE  TypeOK'
    BY <2>1 DEF ReadInboxes, dbVars, loopVars, goroutineVars, historyVars
  <2>2. ASSUME NEW t \in Toots, NEW i \in Inboxes, AddTootQueueItem(t, i)
        PROVE  TypeOK'
    <3>1. tootQueue' \in [DOMAIN tootQueue' -> Item] /\ DOMAIN tootQueue' \subseteq RowIds
      BY <2>2 DEF AddTootQueueItem, InsertRow, Item
    <3> QED BY <2>2, <3>1 DEF AddTootQueueItem, loopVars, goroutineVars, historyVars
  <2>3. ASSUME NEW t \in Toots, AddTootQueueItemFails(t)
        PROVE  TypeOK'
    BY <2>3 DEF AddTootQueueItemFails, dbVars, loopVars, goroutineVars, historyVars
  <2>4. ASSUME NEW t \in Toots, SignalNewToots(t)
        PROVE  TypeOK'
    BY <2>4 DEF SignalNewToots, dbVars, loopVars, goroutineVars, historyVars
  <2>5. CASE TakeNewTootsSignal
    BY <2>5 DEF TakeNewTootsSignal, dbVars, goroutineVars, historyVars
  <2>6. CASE IdleWake
    BY <2>6 DEF IdleWake, dbVars, broadcastVars, goroutineVars, historyVars
  <2>7. ASSUME NEW g \in Goroutine, RemoveSentToot(g)
        PROVE  TypeOK'
    <3>1. tootQueue' \in [DOMAIN tootQueue' -> Item] /\ DOMAIN tootQueue' \subseteq RowIds
      BY <2>7 DEF RemoveSentToot, DeleteRow, Restrict
    <3>2. waiting' \in [Goroutine -> Nat]
      BY <2>7 DEF RemoveSentToot
    <3> QED BY <2>7, <3>1, <3>2 DEF RemoveSentToot, broadcastVars
  <2>8. CASE SendToots
    <3>1. Fetched \subseteq RowIds
      BY DEF Fetched, FirstRows, Fetchable
    <3> QED BY <2>8, <3>1 DEF SendToots, dbVars, broadcastVars, historyVars
  <2>9. CASE SendTootsSkipped
    BY <2>9 DEF SendTootsSkipped, dbVars, broadcastVars, goroutineVars, historyVars
  <2>10. ASSUME NEW g \in Goroutine, SendQueuedToot(g)
         PROVE  TypeOK'
    <3>1. sending' \in [Goroutine -> Nat] /\ waiting' \in [Goroutine -> Nat]
      BY <2>10 DEF SendQueuedToot
    <3>2. g.item \in Item
      BY DEF Goroutine
    <3>3. attempts' \in [Item -> Nat]
      BY <2>10, <3>2 DEF SendQueuedToot
    <3> QED BY <2>10, <3>1, <3>3 DEF SendQueuedToot, dbVars, broadcastVars, loopVars
  <2>11. CASE ProcessDies
    BY <2>11 DEF ProcessDies, NoGoroutine, dbVars, historyVars
  <2>12. CASE Restart
    BY <2>12 DEF Restart, dbVars, broadcastVars, goroutineVars
  <2>13. ASSUME NEW u \in Users, DeleteAccount(u)
         PROVE  TypeOK'
    BY <2>13 DEF DeleteAccount, broadcastVars, loopVars, goroutineVars, historyVars
  <2>14. CASE UNCHANGED vars
    BY <2>14 DEF vars, dbVars, broadcastVars, loopVars, goroutineVars, historyVars
  <2> QED
    BY <2>1, <2>2, <2>3, <2>4, <2>5, <2>6, <2>7, <2>8, <2>9, <2>10, <2>11, <2>12,
       <2>13, <2>14 DEF Next, Broadcast, Loop, Environment, SendPanics, Crash
<1> QED BY <1>1, <1>2, PTL DEF Spec

-----------------------------------------------------------------------------
(* The inductive invariant *)

LEMMA InitQueueInv == Init => QueueInv
<1> SUFFICES ASSUME Init PROVE QueueInv
  OBVIOUS
<1> USE DEF Init, NoGoroutine
<1>1. Live = {} /\ Queued = {}
  BY DEF Live, Queued
<1>2. SlotsBounded
  BY FS_EmptySet DEF SlotsBounded
<1>3. RowsUnique
  BY DEF RowsUnique
<1>4. NoLeakedSlot /\ InProgressStillQueued
  BY <1>1 DEF NoLeakedSlot, InProgressStillQueued
<1>5. AttemptsInStep /\ DuplicatesBounded
  BY <1>1 DEF AttemptsInStep, DuplicatesBounded
<1> QED BY <1>2, <1>3, <1>4, <1>5 DEF QueueInv

\* What a running goroutine may rely on, from the invariant: its row is in the
\* table and no other goroutine shares its id or its item.
LEMMA OneGoroutinePerRow ==
  ASSUME TypeOK, QueueInv
  PROVE  NoDoubleSend
<1>1. ASSUME NEW g \in Live, NEW h \in Live, g.id = h.id \/ g.item = h.item
      PROVE  g = h
  <2>1. /\ g \in Goroutine /\ g.id \in DOMAIN tootQueue /\ tootQueue[g.id] = g.item
        /\ h \in Goroutine /\ h.id \in DOMAIN tootQueue /\ tootQueue[h.id] = h.item
    BY DEF QueueInv, InProgressStillQueued, Live
  <2>2. g.id = h.id /\ g.item = h.item
    BY <1>1, <2>1 DEF QueueInv, RowsUnique
  <2> QED BY <2>1, <2>2 DEF Goroutine
<1> QED BY <1>1 DEF NoDoubleSend, QueueInv

\* A batch just fetched shares nothing with what is in progress and fits into
\* the free slots.
LEMMA FetchedFits ==
  ASSUME TypeOK, QueueInv, Cardinality(tqProgress) < MaxParallel
  PROVE  /\ Fetched \subseteq DOMAIN tootQueue
         /\ Fetched \cap tqProgress = {}
         /\ Cardinality(tqProgress \cup Fetched) <= MaxParallel
<1>1. Fetchable \in SUBSET Nat /\ IsFiniteSet(Fetchable) /\ tqProgress \subseteq Nat
      /\ IsFiniteSet(tqProgress)
  BY RowIdsAreNumbers, FS_Subset DEF Fetchable, TypeOK
<1>2. Cardinality(tqProgress) \in Nat
  BY <1>1, FS_CardinalityType
<1> DEFINE limit == MaxParallel - Cardinality(tqProgress)
<1>3. limit \in Nat
  BY <1>2
<1>4. Fetched = FirstRows(Fetchable, limit) /\ Fetched \in SUBSET Fetchable
  BY DEF Fetched, FirstRows
<1>5. Cardinality(Fetched) <= limit
  <2> HIDE DEF limit
  <2> QED BY <1>1, <1>3, <1>4, FirstRowsBounded
<1>6. Fetched \cap tqProgress = {}
  <2>1. \A n \in Fetched : n \in Nat /\ \A m \in tqProgress : n > m
    BY <1>1, <1>4 DEF Fetchable, AboveAll
  <2> QED BY <1>1, <2>1
<1>7. IsFiniteSet(Fetched)
  BY <1>1, <1>4, FS_Subset
<1>8. Cardinality(Fetched) \in Nat
  BY <1>7, FS_CardinalityType
<1>9. Cardinality(tqProgress \cup Fetched)
        = Cardinality(tqProgress) + Cardinality(Fetched) - Cardinality({})
  <2>1. tqProgress \cap Fetched = {}
    BY <1>6
  <2> QED BY <1>1, <1>7, <2>1, FS_Union
<1>10. Cardinality(tqProgress \cup Fetched) <= MaxParallel
  <2>1. Cardinality({}) = 0
    BY FS_EmptySet
  <2> QED BY <1>2, <1>5, <1>8, <1>9, <2>1
<1> QED BY <1>4, <1>6, <1>10 DEF Fetchable

\* Steps that touch neither the table nor the goroutines.
LEMMA QueueInvFrame ==
  ASSUME QueueInv, UNCHANGED <<tootQueue, tqProgress, goroutineVars, historyVars>>,
         (loop = "down") <=> (loop = "down")',
         \A t \in Toots : /\ pc[t] # "idle" => pc'[t] # "idle"
                          /\ \A i \in Inboxes : i \in left'[t] =>
                               i \in left[t] \/ pc[t] = "idle"
                          /\ pc'[t] = "idle" => pc[t] = "idle",
         TypeOK
  PROVE  QueueInv'
<1> USE DEF goroutineVars, historyVars
<1>1. Live' = Live /\ Queued' = Queued
  BY DEF Live, Queued
<1>2. \A n \in DOMAIN tootQueue : tootQueue[n].toot \in Toots /\ tootQueue[n].inbox \in Inboxes
  BY DEF TypeOK, Item
<1>3. RowsUnique'
  BY <1>2 DEF QueueInv, RowsUnique
<1>4. NoLeakedSlot' /\ InProgressStillQueued' /\ SlotsBounded' /\ DuplicatesBounded'
  BY <1>1 DEF QueueInv, NoLeakedSlot, InProgressStillQueued, SlotsBounded, DuplicatesBounded
<1>5. \A i \in Item : pc'[i.toot] = "idle" \/ i.inbox \in left'[i.toot] => attempts[i] = 0
  <2> SUFFICES ASSUME NEW i \in Item, pc'[i.toot] = "idle" \/ i.inbox \in left'[i.toot]
               PROVE  attempts[i] = 0
    OBVIOUS
  <2>1. i.toot \in Toots /\ i.inbox \in Inboxes
    BY DEF Item
  <2>2. pc[i.toot] = "idle" \/ i.inbox \in left[i.toot]
    BY <2>1
  <2> QED BY <2>2 DEF QueueInv, AttemptsInStep
<1>6. AttemptsInStep'
  BY <1>1, <1>5 DEF QueueInv, AttemptsInStep, Up
<1> QED BY <1>3, <1>4, <1>6 DEF QueueInv

\* EnqueueBroadcast stores an item that is in no row and was never tried, under
\* an id that no row in the table has.
LEMMA AddKeepsQueueInv ==
  ASSUME TypeOK, QueueInv, NEW t \in Toots, NEW i \in Inboxes, AddTootQueueItem(t, i)
  PROVE  QueueInv'
<1> DEFINE item == [toot |-> t, inbox |-> i]
<1>1. PICK id \in RowIds : NewRowId(id) /\ InsertRow(id, item)
  BY DEF AddTootQueueItem
<1>2. /\ id \notin DOMAIN tootQueue
      /\ DOMAIN tootQueue' = DOMAIN tootQueue \cup {id}
      /\ tootQueue'[id] = item
      /\ \A n \in DOMAIN tootQueue : tootQueue'[n] = tootQueue[n]
  <2>1. id \notin DOMAIN tootQueue
    BY <1>1, RowIdsAreNumbers DEF NewRowId, AboveAll
  <2> QED BY <1>1, <2>1 DEF InsertRow
<1>3. /\ UNCHANGED <<pc, loop, tqProgress, sending, waiting, attempts, failedDeletes, runs>>
      /\ left' = [left EXCEPT ![t] = left[t] \ {i}] /\ pc[t] = "queueing" /\ i \in left[t] /\ Up
  BY DEF AddTootQueueItem, loopVars, goroutineVars, historyVars
<1>4. item \in Item /\ item.toot = t /\ item.inbox = i
  BY DEF Item
<1>5. item \notin Queued /\ attempts[item] = 0
  BY <1>3, <1>4 DEF Queued, QueueInv, RowsUnique, AttemptsInStep
<1>6. Live' = Live /\ Queued' = Queued \cup {item}
  BY <1>2, <1>3 DEF Live, Queued
<1>7. left' \in [Toots -> SUBSET Inboxes] /\ \A u \in Toots : left'[u] \subseteq left[u]
  BY <1>3 DEF TypeOK
<1>8. \A n \in DOMAIN tootQueue : tootQueue[n] \in Item /\ tootQueue[n].toot \in Toots
  BY DEF TypeOK, Item
<1>9. RowsUnique'
  <2>1. \A m, n \in DOMAIN tootQueue' : tootQueue'[m] = tootQueue'[n] => m = n
    <3> HIDE DEF item
    <3> QED BY <1>2, <1>5 DEF Queued, QueueInv, RowsUnique
  <2>2. ASSUME NEW n \in DOMAIN tootQueue'
        PROVE  /\ pc'[tootQueue'[n].toot] # "idle"
               /\ tootQueue'[n].inbox \notin left'[tootQueue'[n].toot]
    <3>1. CASE n = id
      <4> HIDE DEF item
      <4>1. i \notin left'[t]
        BY <1>3 DEF TypeOK
      <4> QED BY <1>2, <1>3, <1>4, <3>1, <4>1
    <3>2. CASE n \in DOMAIN tootQueue
      <4> HIDE DEF item
      <4> QED BY <1>2, <1>3, <1>7, <1>8, <3>2 DEF QueueInv, RowsUnique
    <3> QED BY <1>2, <3>1, <3>2
  <2> QED BY <2>1, <2>2 DEF RowsUnique
<1> HIDE DEF item
<1>10. NoLeakedSlot' /\ SlotsBounded' /\ DuplicatesBounded'
  BY <1>3, <1>6 DEF QueueInv, NoLeakedSlot, SlotsBounded, DuplicatesBounded
<1>11. InProgressStillQueued'
  BY <1>2, <1>6 DEF QueueInv, InProgressStillQueued
<1>12. AttemptsInStep'
  <2>1. ASSUME NEW j \in Item, pc'[j.toot] = "idle" \/ j.inbox \in left'[j.toot]
        PROVE  attempts'[j] = 0
    <3>1. j.toot \in Toots
      BY DEF Item
    <3> QED BY <1>3, <1>7, <2>1, <3>1 DEF QueueInv, AttemptsInStep
  <2>2. ASSUME NEW j \in Queued', \A g \in Goroutine : g.item = j => waiting'[g] = 0
        PROVE  attempts'[j] < runs' + failedDeletes'
    <3>1. CASE j = item
      <4>1. attempts'[j] = 0 /\ runs' = runs /\ failedDeletes' = failedDeletes
        BY <1>3, <1>5, <3>1
      <4> QED BY <4>1 DEF TypeOK
    <3>2. CASE j \in Queued
      BY <1>3, <2>2, <3>2 DEF QueueInv, AttemptsInStep
    <3> QED BY <1>6, <2>2, <3>1, <3>2
  <2>3. Up' /\ \A g \in Goroutine : waiting'[g] > 0 => attempts'[g.item] > 0
    BY <1>3 DEF QueueInv, AttemptsInStep, Up
  <2> QED BY <2>1, <2>2, <2>3 DEF AttemptsInStep
<1>13. \A g \in Goroutine : sending'[g] + waiting'[g] <= 1
  BY <1>3 DEF QueueInv
<1> QED BY <1>9, <1>10, <1>11, <1>12, <1>13 DEF QueueInv

\* removeSentToot takes away the goroutine that reported, its row and its slot,
\* or, when the DELETE fails, leaves the row to be sent again.
LEMMA RemoveKeepsQueueInv ==
  ASSUME TypeOK, QueueInv, NEW g \in Goroutine, RemoveSentToot(g)
  PROVE  QueueInv'
<1>1. /\ UNCHANGED <<pc, left, sending, attempts, runs>> /\ loop = "select" /\ loop' = "fetch"
      /\ waiting[g] > 0 /\ waiting' = [waiting EXCEPT ![g] = waiting[g] - 1]
      /\ tqProgress' = tqProgress \ {g.id}
  BY DEF RemoveSentToot, broadcastVars
<1>2. /\ sending[g] = 0 /\ waiting[g] = 1 /\ waiting'[g] = 0 /\ sending'[g] = 0
      /\ \A h \in Goroutine : h # g => waiting'[h] = waiting[h]
      /\ waiting' \in [Goroutine -> Nat] /\ sending \in [Goroutine -> Nat]
      /\ waiting \in [Goroutine -> Nat]
  <2>1. waiting \in [Goroutine -> Nat] /\ sending \in [Goroutine -> Nat]
    BY DEF TypeOK
  <2>2. sending[g] + waiting[g] <= 1
    BY DEF QueueInv
  <2>3. sending[g] = 0 /\ waiting[g] = 1
    BY <1>1, <2>1, <2>2
  <2> QED BY <1>1, <2>1, <2>3
<1>3. g \in Live /\ Live' = Live \ {g}
  BY <1>1, <1>2 DEF Live
<1>4. \A h \in Live : h # g => h.id # g.id /\ h.item # g.item
  BY <1>3, OneGoroutinePerRow DEF NoDoubleSend
<1>5. g.id \in DOMAIN tootQueue /\ tootQueue[g.id] = g.item /\ g.item \in Item
      /\ attempts[g.item] > 0
  BY <1>1, <1>3 DEF QueueInv, InProgressStillQueued, AttemptsInStep, Goroutine
<1>6. NoLeakedSlot'
  BY <1>1, <1>3, <1>4 DEF QueueInv, NoLeakedSlot
<1>7. SlotsBounded'
  <2>1. IsFiniteSet(tqProgress)
    BY RowIdsAreNumbers, FS_Subset DEF TypeOK
  <2>2. Cardinality(tqProgress') <= Cardinality(tqProgress)
    BY <1>1, <2>1, FS_Subset
  <2>3. Cardinality(tqProgress') \in Nat /\ Cardinality(tqProgress) \in Nat
    BY <1>1, <2>1, FS_Subset, FS_CardinalityType
  <2> QED BY <2>2, <2>3 DEF QueueInv, SlotsBounded
<1>8. \A h \in Goroutine : sending'[h] + waiting'[h] <= 1
  BY <1>1, <1>2 DEF QueueInv
<1>9. Up /\ Up'
  BY <1>1 DEF Up
<1>10. CASE DeleteRow(g.id) /\ UNCHANGED failedDeletes
  <2>1. /\ DOMAIN tootQueue' = DOMAIN tootQueue \ {g.id}
        /\ \A n \in DOMAIN tootQueue' : tootQueue'[n] = tootQueue[n]
    BY <1>10 DEF DeleteRow, Restrict
  <2>2. Queued' = Queued \ {g.item}
    BY <1>5, <2>1 DEF Queued, QueueInv, RowsUnique
  <2>3. RowsUnique'
    BY <1>1, <2>1 DEF QueueInv, RowsUnique
  <2>4. InProgressStillQueued'
    BY <1>3, <1>4, <2>1 DEF QueueInv, InProgressStillQueued
  <2>5. DuplicatesBounded'
    BY <1>1, <1>10 DEF QueueInv, DuplicatesBounded
  <2>6. AttemptsInStep'
    <3>1. ASSUME NEW j \in Queued', \A h \in Goroutine : h.item = j => waiting'[h] = 0
          PROVE  attempts'[j] < runs' + failedDeletes'
      <4>1. j \in Queued /\ \A h \in Goroutine : h.item = j => waiting[h] = 0
        BY <1>2, <2>2, <3>1
      <4> QED BY <1>1, <1>9, <1>10, <4>1 DEF QueueInv, AttemptsInStep
    <3>2. \A h \in Goroutine : waiting'[h] > 0 => attempts'[h.item] > 0
      BY <1>1, <1>2 DEF QueueInv, AttemptsInStep
    <3>3. \A j \in Item : pc'[j.toot] = "idle" \/ j.inbox \in left'[j.toot] => attempts'[j] = 0
      BY <1>1 DEF QueueInv, AttemptsInStep
    <3> QED BY <1>9, <3>1, <3>2, <3>3 DEF AttemptsInStep
  <2> QED BY <1>6, <1>7, <1>8, <2>3, <2>4, <2>5, <2>6 DEF QueueInv
<1>11. CASE failedDeletes' = failedDeletes + 1 /\ UNCHANGED tootQueue
  <2>1. Queued' = Queued /\ failedDeletes \in Nat /\ runs \in Nat /\ attempts \in [Item -> Nat]
    BY <1>11 DEF Queued, TypeOK
  <2>2. RowsUnique' /\ InProgressStillQueued'
    BY <1>1, <1>3, <1>11 DEF QueueInv, RowsUnique, InProgressStillQueued
  <2>3. \A j \in Item : attempts[j] < runs' + failedDeletes'
    BY <1>1, <1>11, <2>1 DEF QueueInv, DuplicatesBounded
  <2>4. DuplicatesBounded'
    BY <1>1, <1>11, <2>1, <2>3 DEF DuplicatesBounded
  <2>5. AttemptsInStep'
    <3>1. \A j \in Queued' : j \in Item
      BY <2>1 DEF Queued, TypeOK
    <3>2. \A h \in Goroutine : waiting'[h] > 0 => attempts'[h.item] > 0
      BY <1>1, <1>2 DEF QueueInv, AttemptsInStep
    <3>3. \A j \in Item : pc'[j.toot] = "idle" \/ j.inbox \in left'[j.toot] => attempts'[j] = 0
      BY <1>1 DEF QueueInv, AttemptsInStep
    <3> QED BY <1>1, <1>9, <2>3, <3>1, <3>2, <3>3 DEF AttemptsInStep
  <2> QED BY <1>6, <1>7, <1>8, <2>2, <2>4, <2>5 DEF QueueInv
<1> QED BY <1>10, <1>11 DEF RemoveSentToot

\* sendToots starts one goroutine for every row fetched, and none of those rows
\* had one.
LEMMA SendTootsKeepsQueueInv ==
  ASSUME TypeOK, QueueInv, SendToots
  PROVE  QueueInv'
<1>1. /\ UNCHANGED <<tootQueue, pc, left, waiting, attempts, runs, failedDeletes>>
      /\ loop = "fetch" /\ loop' = "select" /\ tqProgress' = tqProgress \cup Fetched
      /\ Cardinality(tqProgress) < MaxParallel
  BY DEF SendToots, dbVars, broadcastVars, historyVars
<1> DEFINE started == {g \in Goroutine : g.id \in Fetched /\ tootQueue[g.id] = g.item}
<1>2. sending \in [Goroutine -> Nat] /\ waiting \in [Goroutine -> Nat]
  BY DEF TypeOK
<1>3. \A g \in Goroutine : sending'[g] = IF g \in started THEN sending[g] + 1 ELSE sending[g]
  BY DEF SendToots
<1>4. \A g \in started : g \notin Live
  BY <1>1, FetchedFits DEF QueueInv, NoLeakedSlot
<1>5. \A g \in Goroutine : sending'[g] + waiting'[g] <= 1
  BY <1>1, <1>2, <1>3, <1>4 DEF Live, QueueInv
<1>6. Live' = Live \cup started
  BY <1>1, <1>2, <1>3 DEF Live
<1>7. {g.id : g \in started} = Fetched
  <2>1. \A n \in Fetched : [id |-> n, item |-> tootQueue[n]] \in started
    BY <1>1, FetchedFits DEF Goroutine, TypeOK
  <2>2. \A n \in Fetched : \E g \in started : g.id = n
    BY <2>1
  <2>3. \A g \in started : g.id \in Fetched
    OBVIOUS
  <2> HIDE DEF started
  <2> QED BY <2>2, <2>3
<1>8. InProgressStillQueued'
  BY <1>1, <1>6, FetchedFits DEF QueueInv, InProgressStillQueued
<1> HIDE DEF started
<1>9. NoLeakedSlot'
  BY <1>1, <1>6, <1>7 DEF QueueInv, NoLeakedSlot
<1>10. SlotsBounded' /\ RowsUnique' /\ DuplicatesBounded'
  BY <1>1, FetchedFits DEF QueueInv, SlotsBounded, RowsUnique, DuplicatesBounded
<1>11. AttemptsInStep'
  <2>1. Queued' = Queued /\ Up /\ Up'
    BY <1>1 DEF Queued, Up
  <2> QED BY <1>1, <2>1 DEF QueueInv, AttemptsInStep
<1> QED BY <1>5, <1>8, <1>9, <1>10, <1>11 DEF QueueInv

\* An attempt uses the one that was kept in reserve for its row.
LEMMA SendKeepsQueueInv ==
  ASSUME TypeOK, QueueInv, NEW g \in Goroutine, SendQueuedToot(g)
  PROVE  QueueInv'
<1>1. /\ UNCHANGED <<tootQueue, pc, left, loop, tqProgress, runs, failedDeletes>>
      /\ sending[g] > 0 /\ sending' = [sending EXCEPT ![g] = sending[g] - 1]
      /\ waiting' = [waiting EXCEPT ![g] = waiting[g] + 1]
      /\ attempts' = [attempts EXCEPT ![g.item] = attempts[g.item] + 1]
  BY DEF SendQueuedToot, dbVars, broadcastVars, loopVars
<1>2. /\ sending \in [Goroutine -> Nat] /\ waiting \in [Goroutine -> Nat]
      /\ attempts \in [Item -> Nat] /\ runs \in Nat /\ failedDeletes \in Nat
      /\ g.item \in Item
  BY DEF TypeOK, Goroutine
<1>3. g \in Live /\ waiting[g] = 0 /\ sending[g] = 1
  <2>1. sending[g] + waiting[g] <= 1 /\ sending[g] \in Nat /\ waiting[g] \in Nat
    BY <1>2 DEF QueueInv
  <2> QED BY <1>1, <2>1 DEF Live
<1>4. /\ \A h \in Goroutine : sending'[h] + waiting'[h] = sending[h] + waiting[h]
      /\ waiting'[g] = 1 /\ \A h \in Goroutine : h # g => waiting'[h] = waiting[h]
  BY <1>1, <1>2, <1>3
<1>5. Live' = Live /\ Queued' = Queued
  BY <1>1, <1>4 DEF Live, Queued
<1>6. Up
  BY <1>3 DEF QueueInv, AttemptsInStep
<1>7. g.id \in DOMAIN tootQueue /\ tootQueue[g.id] = g.item /\ g.item \in Queued
  BY <1>3 DEF QueueInv, InProgressStillQueued, Queued
<1>8. \A h \in Goroutine : h.item = g.item => waiting[h] = 0
  <2> SUFFICES ASSUME NEW h \in Goroutine, h.item = g.item, waiting[h] > 0
               PROVE  FALSE
    BY <1>2
  <2>1. h \in Live
    BY <1>2 DEF Live
  <2>2. h = g
    BY <1>3, <2>1, OneGoroutinePerRow DEF NoDoubleSend
  <2> QED BY <1>3, <2>2
<1>9. attempts[g.item] < runs + failedDeletes
  BY <1>6, <1>7, <1>8 DEF QueueInv, AttemptsInStep
<1>10. /\ attempts'[g.item] = attempts[g.item] + 1
       /\ \A j \in Item : j # g.item => attempts'[j] = attempts[j]
  BY <1>1, <1>2
<1>11. DuplicatesBounded'
  BY <1>1, <1>2, <1>9, <1>10 DEF QueueInv, DuplicatesBounded
<1>12. RowsUnique' /\ NoLeakedSlot' /\ InProgressStillQueued' /\ SlotsBounded'
  BY <1>1, <1>5 DEF QueueInv, RowsUnique, NoLeakedSlot, InProgressStillQueued, SlotsBounded
<1>13. AttemptsInStep'
  <2>1. ASSUME NEW j \in Item, pc'[j.toot] = "idle" \/ j.inbox \in left'[j.toot]
        PROVE  attempts'[j] = 0
    BY <1>1, <1>7, <1>10, <2>1 DEF QueueInv, AttemptsInStep, RowsUnique
  <2>2. ASSUME NEW h \in Goroutine, waiting'[h] > 0
        PROVE  attempts'[h.item] > 0
    <3>1. h.item \in Item
      BY DEF Goroutine
    <3>2. CASE h.item = g.item
      BY <1>2, <1>10, <3>2
    <3>3. CASE h.item # g.item
      BY <1>4, <1>10, <2>2, <3>1, <3>3 DEF QueueInv, AttemptsInStep
    <3> QED BY <3>2, <3>3
  <2>3. ASSUME NEW j \in Queued', \A h \in Goroutine : h.item = j => waiting'[h] = 0
        PROVE  attempts'[j] < runs' + failedDeletes'
    <3>1. j # g.item
      BY <1>4, <2>3
    <3>2. j \in Queued /\ \A h \in Goroutine : h.item = j => waiting[h] = 0
      BY <1>4, <1>5, <2>3, <3>1
    <3>3. j \in Item
      BY <3>2 DEF Queued, TypeOK
    <3> QED BY <1>1, <1>6, <1>10, <3>1, <3>2, <3>3 DEF QueueInv, AttemptsInStep
  <2>4. Up'
    BY <1>1, <1>6 DEF Up
  <2> QED BY <2>1, <2>2, <2>3, <2>4 DEF AttemptsInStep
<1>14. \A h \in Goroutine : sending'[h] + waiting'[h] <= 1
  BY <1>4 DEF QueueInv
<1> QED BY <1>11, <1>12, <1>13, <1>14 DEF QueueInv

\* A crash keeps the table and forgets every goroutine.
LEMMA DeathKeepsQueueInv ==
  ASSUME TypeOK, QueueInv, ProcessDies
  PROVE  QueueInv'
<1> USE DEF ProcessDies, dbVars, historyVars
<1>1. Live' = {} /\ Queued' = Queued /\ \A g \in Goroutine : sending'[g] + waiting'[g] <= 1
  BY DEF Live, Queued, NoGoroutine
<1>2. \A t \in Toots : left'[t] = {} /\ (pc'[t] = "idle" <=> pc[t] = "idle")
  OBVIOUS
<1>3. \A n \in DOMAIN tootQueue : tootQueue[n].toot \in Toots
  BY DEF TypeOK, Item
<1>4. RowsUnique'
  BY <1>2, <1>3 DEF QueueInv, RowsUnique
<1>5. NoLeakedSlot' /\ InProgressStillQueued' /\ DuplicatesBounded'
  BY <1>1 DEF QueueInv, NoLeakedSlot, InProgressStillQueued, DuplicatesBounded
<1>6. SlotsBounded'
  BY FS_EmptySet DEF SlotsBounded
<1>7. AttemptsInStep'
  <2>1. \A i \in Item : i.toot \in Toots
    BY DEF Item
  <2>2. \A g \in Goroutine : ~(waiting'[g] > 0)
    BY DEF NoGoroutine
  <2>3. \A i \in Item : pc'[i.toot] = "idle" \/ i.inbox \in left'[i.toot] => attempts'[i] = 0
    BY <1>2, <2>1 DEF QueueInv, AttemptsInStep
  <2>4. ~Up'
    BY DEF Up
  <2> HIDE DEF ProcessDies
  <2> QED BY <1>1, <2>2, <2>3, <2>4 DEF AttemptsInStep
<1> QED BY <1>1, <1>4, <1>5, <1>6, <1>7 DEF QueueInv

\* A restart gives every row one more attempt.
LEMMA RestartKeepsQueueInv ==
  ASSUME TypeOK, QueueInv, Restart
  PROVE  QueueInv'
<1>1. /\ UNCHANGED <<tootQueue, pc, left, tqProgress, sending, waiting, attempts, failedDeletes>>
      /\ runs' = runs + 1 /\ ~Up /\ Up'
  BY DEF Restart, dbVars, broadcastVars, goroutineVars, Up
<1>2. /\ attempts \in [Item -> Nat] /\ runs \in Nat /\ failedDeletes \in Nat
      /\ \A i \in Queued : i \in Item
  BY DEF TypeOK, Queued
<1>3. \A i \in Item : attempts'[i] < runs' + failedDeletes'
  BY <1>1, <1>2 DEF QueueInv, DuplicatesBounded
<1>4. Live' = Live /\ Queued' = Queued
  BY <1>1 DEF Live, Queued
<1>5. RowsUnique' /\ NoLeakedSlot' /\ InProgressStillQueued' /\ SlotsBounded'
  BY <1>1, <1>4 DEF QueueInv, RowsUnique, NoLeakedSlot, InProgressStillQueued, SlotsBounded
<1>6. DuplicatesBounded'
  BY <1>1, <1>2, <1>3 DEF DuplicatesBounded
<1>7. AttemptsInStep'
  BY <1>1, <1>2, <1>3, <1>4 DEF QueueInv, AttemptsInStep
<1>8. \A g \in Goroutine : sending'[g] + waiting'[g] <= 1
  BY <1>1 DEF QueueInv
<1> QED BY <1>5, <1>6, <1>7, <1>8 DEF QueueInv

LEMMA StepKeepsQueueInv == TypeOK /\ QueueInv /\ [Next]_vars => QueueInv'
<1> SUFFICES ASSUME TypeOK, QueueInv, [Next]_vars
             PROVE  QueueInv'
  OBVIOUS
<1> USE DEF dbVars, loopVars, goroutineVars, historyVars, broadcastVars
<1>1. ASSUME NEW t \in Toots, ReadInboxes(t)
      PROVE  QueueInv'
  BY <1>1, QueueInvFrame DEF ReadInboxes, TypeOK
<1>2. ASSUME NEW t \in Toots, NEW i \in Inboxes, AddTootQueueItem(t, i)
      PROVE  QueueInv'
  BY <1>2, AddKeepsQueueInv
<1>3. ASSUME NEW t \in Toots, AddTootQueueItemFails(t)
      PROVE  QueueInv'
  BY <1>3, QueueInvFrame DEF AddTootQueueItemFails, TypeOK
<1>4. ASSUME NEW t \in Toots, SignalNewToots(t)
      PROVE  QueueInv'
  BY <1>4, QueueInvFrame DEF SignalNewToots, TypeOK
<1>5. CASE TakeNewTootsSignal \/ IdleWake \/ SendTootsSkipped
  BY <1>5, QueueInvFrame DEF TakeNewTootsSignal, IdleWake, SendTootsSkipped
<1>6. ASSUME NEW g \in Goroutine, RemoveSentToot(g)
      PROVE  QueueInv'
  BY <1>6, RemoveKeepsQueueInv
<1>7. CASE SendToots
  BY <1>7, SendTootsKeepsQueueInv
<1>8. ASSUME NEW g \in Goroutine, SendQueuedToot(g)
      PROVE  QueueInv'
  BY <1>8, SendKeepsQueueInv
<1>9. CASE ProcessDies
  BY <1>9, DeathKeepsQueueInv
<1>10. CASE Restart
  BY <1>10, RestartKeepsQueueInv
<1>11. ASSUME NEW u \in Users, DeleteAccount(u)
       PROVE  QueueInv'
  BY <1>11, QueueInvFrame DEF DeleteAccount
<1>12. CASE UNCHANGED vars
  BY <1>12, QueueInvFrame DEF vars
<1> QED
  BY <1>1, <1>2, <1>3, <1>4, <1>5, <1>6, <1>7, <1>8, <1>9, <1>10, <1>11, <1>12
     DEF Next, Broadcast, Loop, Environment, SendPanics, Crash

\* The invariant holds of every behaviour of the queue.
THEOREM QueueInvariant == Spec => []QueueInv
<1>1. TypeOK /\ QueueInv /\ [Next]_vars => QueueInv'
  BY StepKeepsQueueInv
<1> QED BY InitQueueInv, <1>1, TypeCorrect, PTL DEF Spec

-----------------------------------------------------------------------------
(* What follows from it *)

\* At no time are two goroutines at work for one row or one item: the loop never
\* fetches a row again while its first goroutine is still sending.
THEOREM NeverSendsTwiceAtOnce == Spec => []NoDoubleSend
<1>1. TypeOK /\ QueueInv => NoDoubleSend
  BY OneGoroutinePerRow
<1> QED BY <1>1, TypeCorrect, QueueInvariant, PTL

\* Neither a lost slot nor one given back twice: tqProgress holds the rows of the
\* goroutines there are, and every one of them still has its row, which no other
\* row has replaced under its id.
THEOREM NoSlotLeaks == Spec => [](NoLeakedSlot /\ InProgressStillQueued)
<1>1. QueueInv => NoLeakedSlot /\ InProgressStillQueued
  BY DEF QueueInv
<1> QED BY QueueInvariant, <1>1, PTL

\* However the loop is woken, maxParallelSends is never exceeded.
THEOREM NeverTooManySends == Spec => []ParallelSendsBounded
<1>1. TypeOK /\ QueueInv => ParallelSendsBounded
  <2> SUFFICES ASSUME TypeOK, QueueInv
               PROVE  Cardinality(Live) <= MaxParallel
    BY DEF ParallelSendsBounded
  <2> DEFINE slot == [g \in Live |-> g.id]
  <2>1. slot \in [Live -> tqProgress]
    BY DEF QueueInv, NoLeakedSlot
  <2>2. slot \in Injection(Live, tqProgress)
    BY <2>1, OneGoroutinePerRow DEF NoDoubleSend, Injection, IsInjective
  <2>3. IsFiniteSet(tqProgress)
    BY RowIdsAreNumbers, FS_Subset DEF TypeOK
  <2> HIDE DEF slot
  <2>4. IsFiniteSet(Live) /\ Cardinality(Live) <= Cardinality(tqProgress)
    BY <2>2, <2>3, FS_Injection
  <2>5. Cardinality(Live) \in Nat /\ Cardinality(tqProgress) \in Nat
    BY <2>3, <2>4, FS_CardinalityType
  <2> QED BY <2>4, <2>5 DEF QueueInv, SlotsBounded
<1> QED BY <1>1, TypeCorrect, QueueInvariant, PTL

\* Every item is tried once, plus at most once per restart and failed DELETE.
THEOREM DuplicatesAreBounded == Spec => []DuplicatesBounded
<1>1. QueueInv => DuplicatesBounded
  BY DEF QueueInv
<1> QED BY <1>1, QueueInvariant, PTL

\* While a slot is free, the fetch finds a row if one lies above those in progress;
\* and rows that lie below them, since ids are used again, are not out of reach for
\* good: as long as the table holds a row, a goroutine is at work or a fetch finds one.
NothingStranded ==
  /\ Fetchable # {} /\ Cardinality(tqProgress) < MaxParallel => Fetched # {}
  /\ DOMAIN tootQueue # {} => Live # {} \/ Fetched # {}

\* The loop never comes to rest over rows it cannot see, however ids were used again,
\* DELETEs failed or the process was restarted: the safety half of QueueDrains.
THEOREM NeverStranded == Spec => []NothingStranded
<1>1. TypeOK /\ QueueInv => NothingStranded
  <2> SUFFICES ASSUME TypeOK, QueueInv PROVE NothingStranded
    OBVIOUS
  <2>1. IsFiniteSet(tqProgress) /\ Cardinality(tqProgress) \in Nat
    BY RowIdsAreNumbers, FS_Subset, FS_CardinalityType DEF TypeOK
  <2>2. Fetchable \in SUBSET Nat
    BY RowIdsAreNumbers DEF Fetchable, TypeOK
  <2>3. ASSUME Fetchable # {}, Cardinality(tqProgress) < MaxParallel
        PROVE  Fetched # {}
    <3>1. MaxParallel - Cardinality(tqProgress) \in Nat \ {0}
      BY <2>1, <2>3
    <3> QED BY <2>2, <2>3, <3>1, FirstRowsFound DEF Fetched
  <2>4. ASSUME DOMAIN tootQueue # {}, Live = {}
        PROVE  Fetched # {}
    <3>1. tqProgress = {}
      BY <2>4 DEF QueueInv, NoLeakedSlot
    <3>2. Cardinality(tqProgress) = 0
      BY <3>1, FS_EmptySet
    <3>3. Fetchable = DOMAIN tootQueue
      BY <3>1 DEF Fetchable, AboveAll, TypeOK
    <3> QED BY <2>3, <2>4, <3>2, <3>3
  <2> QED BY <2>3, <2>4 DEF NothingStranded
<1> QED BY <1>1, TypeCorrect, QueueInvariant, PTL

-----------------------------------------------------------------------------
(* The queue implements TootDelivery *)

LEMMA InitDelivers == Init => Delivery!Init
<1> SUFFICES ASSUME Init PROVE Delivery!Init
  OBVIOUS
<1>1. Queued = {}
  BY DEF Init, Queued
<1>2. {i \in Item : attempts[i] > 0} = {}
  BY DEF Init
<1> QED BY <1>1, <1>2 DEF Delivery!Init

LEMMA AtWorkIsLive ==
  ASSUME TypeOK, NEW g \in Goroutine, sending[g] > 0 \/ waiting[g] > 0
  PROVE  g \in Live /\ g.item \in Item
<1>1. sending[g] \in Nat /\ waiting[g] \in Nat
  BY DEF TypeOK
<1>2. g.item \in Item
  BY DEF Goroutine
<1> QED BY <1>1, <1>2 DEF Live

\* An INSERT accepts an item, an attempt tries one that is owed, a DELETE strikes
\* off one that was tried; everything else, crashes included, changes nothing.
LEMMA StepDelivers ==
  ASSUME TypeOK, QueueInv, [Next]_vars
  PROVE  [Delivery!Next]_<<Queued, {i \in Item : attempts[i] > 0}>>
<1> DEFINE tried == {i \in Item : attempts[i] > 0}
<1> USE DEF dbVars, loopVars, goroutineVars, historyVars, broadcastVars
<1>1. ASSUME UNCHANGED <<tootQueue, attempts>>
      PROVE  UNCHANGED <<Queued, tried>>
  BY <1>1 DEF Queued
<1>2. ASSUME NEW t \in Toots, NEW i \in Inboxes, AddTootQueueItem(t, i)
      PROVE  \E j \in Item : Delivery!Accept(j)
  <2> DEFINE item == [toot |-> t, inbox |-> i]
  <2>1. PICK id \in RowIds : NewRowId(id) /\ InsertRow(id, item)
    BY <1>2 DEF AddTootQueueItem
  <2>2. item \in Item /\ item.toot = t /\ item.inbox = i
    BY DEF Item
  <2>3. item \notin Queued /\ attempts[item] = 0
    BY <1>2, <2>2 DEF AddTootQueueItem, Queued, QueueInv, RowsUnique, AttemptsInStep
  <2>4. id \notin DOMAIN tootQueue
    BY <2>1, RowIdsAreNumbers DEF NewRowId, AboveAll
  <2> HIDE DEF item
  <2>5. Queued' = Queued \cup {item}
    BY <2>1, <2>4 DEF InsertRow, Queued
  <2>6. UNCHANGED attempts
    BY <1>2 DEF AddTootQueueItem
  <2> QED BY <2>2, <2>3, <2>5, <2>6 DEF Delivery!Accept
<1>3. ASSUME NEW g \in Goroutine, RemoveSentToot(g)
      PROVE  \/ \E j \in Item : Delivery!StrikeOff(j)
             \/ UNCHANGED <<Queued, tried>>
  <2>1. CASE DeleteRow(g.id)
    <3>1. g \in Live /\ attempts[g.item] > 0 /\ g.item \in Item
      BY <1>3, AtWorkIsLive DEF RemoveSentToot, QueueInv, AttemptsInStep
    <3>2. g.id \in DOMAIN tootQueue /\ tootQueue[g.id] = g.item
      BY <3>1 DEF QueueInv, InProgressStillQueued
    <3>3. g.item \in Queued /\ Queued' = Queued \ {g.item}
      BY <2>1, <3>2 DEF DeleteRow, Restrict, Queued, QueueInv, RowsUnique
    <3>4. UNCHANGED attempts
      BY <1>3 DEF RemoveSentToot
    <3> QED BY <3>1, <3>3, <3>4 DEF Delivery!StrikeOff
  <2>2. CASE UNCHANGED tootQueue
    BY <1>1, <1>3, <2>2 DEF RemoveSentToot
  <2> QED BY <1>3, <2>1, <2>2 DEF RemoveSentToot
<1>4. ASSUME NEW g \in Goroutine, SendQueuedToot(g)
      PROVE  \E j \in Item : Delivery!Try(j)
  <2>1. g \in Live /\ g.item \in Item
    BY <1>4, AtWorkIsLive DEF SendQueuedToot
  <2>2. g.item \in Queued
    BY <2>1 DEF QueueInv, InProgressStillQueued, Queued
  <2>3. UNCHANGED Queued
    BY <1>4 DEF SendQueuedToot, Queued
  <2>4. tried' = tried \cup {g.item}
    <3>1. attempts \in [Item -> Nat] /\ attempts' = [attempts EXCEPT ![g.item] = attempts[g.item] + 1]
      BY <1>4 DEF SendQueuedToot, TypeOK
    <3>2. attempts'[g.item] > 0 /\ \A i \in Item : i # g.item => attempts'[i] = attempts[i]
      BY <2>1, <3>1
    <3> QED BY <2>1, <3>2
  <2> QED BY <2>1, <2>2, <2>3, <2>4 DEF Delivery!Try
<1>5. CASE \E t \in Toots : ReadInboxes(t) \/ AddTootQueueItemFails(t) \/ SignalNewToots(t)
  BY <1>1, <1>5 DEF ReadInboxes, AddTootQueueItemFails, SignalNewToots
<1>6. CASE TakeNewTootsSignal \/ IdleWake \/ SendToots \/ SendTootsSkipped
  BY <1>1, <1>6 DEF TakeNewTootsSignal, IdleWake, SendToots, SendTootsSkipped
<1>7. CASE ProcessDies \/ Restart \/ \E u \in Users : DeleteAccount(u)
  BY <1>1, <1>7 DEF ProcessDies, Restart, DeleteAccount
<1>8. CASE UNCHANGED vars
  BY <1>1, <1>8 DEF vars
<1>9. ASSUME \/ \E j \in Item : Delivery!Accept(j) \/ Delivery!Try(j) \/ Delivery!StrikeOff(j)
             \/ UNCHANGED <<Queued, tried>>
      PROVE  [Delivery!Next]_<<Queued, tried>>
  <2> HIDE DEF tried
  <2> QED BY <1>9 DEF tried, Delivery!Next
<1> HIDE DEF tried, dbVars, loopVars, goroutineVars, historyVars, broadcastVars
<1>10. CASE \E t \in Toots : Broadcast(t)
  BY <1>2, <1>5, <1>9, <1>10 DEF Broadcast, tried
<1>11. CASE Loop
  BY <1>3, <1>6, <1>9, <1>11 DEF Loop, tried
<1>12. CASE \E g \in Goroutine : SendQueuedToot(g) \/ SendPanics(g)
  BY <1>4, <1>7, <1>9, <1>12 DEF SendPanics, tried
<1>13. CASE Environment
  BY <1>7, <1>13 DEF Environment, Crash
<1> QED BY <1>8, <1>10, <1>11, <1>12, <1>13 DEF Next

\* The queue with its goroutines, crashes and failed deletes keeps the promise of
\* TootDelivery: nothing accepted is struck off before it was tried, and nothing
\* struck off comes back.
THEOREM QueueImplementsDelivery == Spec => DeliveryPromise
<1>1. TypeOK /\ QueueInv /\ [Next]_vars
        => [Delivery!Next]_<<Queued, {i \in Item : attempts[i] > 0}>>
  BY StepDelivers
<1> QED BY InitDelivers, <1>1, TypeCorrect, QueueInvariant, PTL
           DEF Spec, DeliveryPromise, Delivery!Spec
=============================================================================
