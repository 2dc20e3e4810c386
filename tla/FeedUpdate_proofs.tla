--------------------------- MODULE FeedUpdate_proofs ---------------------------
(* Theorems about FeedUpdate for every value of its constants.                *)
EXTENDS FeedUpdate, FiniteSetTheorems, TLAPS

-----------------------------------------------------------------------------
(* Types *)

LEMMA StepType ==
  ASSUME TypeOK, [Next]_vars
  PROVE  TypeOK'
<1> USE FeedUpdateAssumption DEF TypeOK, Dates
<1> USE DEF accountVars, postVars, boundVars, workerVars, GoTo, Leave, TakeFeed, NoItems,
            Workers, Loop, Background
<1>1. ASSUME NEW p \in Posts, NEW t \in Dates, Publish(p, t)
      PROVE  TypeOK'
  BY <1>1 DEF Publish
<1>2. CASE Tick \/ BecomeDue \/ FetchFails \/ RecordFeedCheckError
  BY <1>2 DEF Tick, BecomeDue, FetchFails, RecordFeedCheckError
<1>3. CASE CheckDueFeed
  BY <1>3 DEF CheckDueFeed
<1>4. ASSUME NEW m \in Mentions, RequestFeed(m)
      PROVE  TypeOK'
  BY <1>4 DEF RequestFeed
<1>5. ASSUME NEW m \in Mentions, AddAccountIfNotExist(m) \/ UseExisting(m)
      PROVE  TypeOK'
  BY <1>5 DEF AddAccountIfNotExist, UseExisting
<1>6. ASSUME NEW m \in Mentions, StartBackground(m)
      PROVE  TypeOK'
  BY <1>6 DEF StartBackground
<1>7. ASSUME NEW w \in Workers, ReadMark(w)
      PROVE  TypeOK'
  BY <1>7 DEF ReadMark
<1>8. ASSUME NEW w \in Workers, NEW p \in Posts, StorePostIfNew(w, p)
      PROVE  TypeOK'
  BY <1>8 DEF StorePostIfNew
<1>9. ASSUME NEW w \in Workers, AddToot(w) \/ EnqueueBroadcast(w)
      PROVE  TypeOK'
  <2>1. toots' \in [Posts -> Nat] /\ broadcasts' \in [Posts -> Nat]
    BY <1>9 DEF AddToot, EnqueueBroadcast
  <2> QED BY <1>9, <2>1 DEF AddToot, EnqueueBroadcast
<1>10. ASSUME NEW w \in Workers, UpdateAccountFeedTimes(w)
       PROVE  TypeOK'
  BY <1>10 DEF UpdateAccountFeedTimes, AfterSuccess
<1>11. ASSUME NEW w \in Workers, StepFails(w)
       PROVE  TypeOK'
  BY <1>11 DEF StepFails, AfterError
<1>12. CASE LoopPanics
  BY <1>12 DEF LoopPanics
<1>13. CASE Crash
  BY <1>13 DEF Crash
<1>14. CASE UNCHANGED vars
  BY <1>14 DEF vars
<1> QED
  BY <1>1, <1>2, <1>3, <1>4, <1>5, <1>6, <1>7, <1>8, <1>9, <1>10, <1>11, <1>12,
     <1>13, <1>14 DEF Next, World, GetAccountForFeed, UpdateAccountPosts, Failure

\* Every variable of FeedUpdate keeps its type.
THEOREM TypeCorrect == Spec => []TypeOK
<1>1. Init => TypeOK
  BY FeedUpdateAssumption DEF TypeOK, Dates, Init, NoItems, Workers, Loop, Background
<1>2. TypeOK /\ [Next]_vars => TypeOK'
  BY StepType
<1> QED BY <1>1, <1>2, PTL DEF Spec

-----------------------------------------------------------------------------
(* One toot per post *)

MakerInv == CreatedOnce /\ OneMaker /\ AtMostOneToot

LEMMA InitMakerInv == Init => MakerInv
  BY FeedUpdateAssumption
     DEF Init, MakerInv, CreatedOnce, OneMaker, AtMostOneToot, Workers, Loop, Background

LEMMA StepMakerInv ==
  ASSUME TypeOK, MakerInv, [Next]_vars
  PROVE  MakerInv'
<1> USE FeedUpdateAssumption
    DEF TypeOK, MakerInv, CreatedOnce, OneMaker, AtMostOneToot, accountVars, postVars,
        boundVars, workerVars, GoTo, Leave, TakeFeed, Workers, Loop, Background
<1>1. ASSUME NEW p \in Posts, NEW t \in Dates, Publish(p, t)
      PROVE  MakerInv'
  BY <1>1 DEF Publish
<1>2. CASE Tick \/ BecomeDue \/ FetchFails \/ RecordFeedCheckError
  BY <1>2 DEF Tick, BecomeDue, FetchFails, RecordFeedCheckError
<1>3. CASE CheckDueFeed
  BY <1>3 DEF CheckDueFeed
<1>4. ASSUME NEW m \in Mentions, RequestFeed(m)
      PROVE  MakerInv'
  BY <1>4 DEF RequestFeed
<1>5. ASSUME NEW m \in Mentions, AddAccountIfNotExist(m) \/ UseExisting(m)
      PROVE  MakerInv'
  BY <1>5 DEF AddAccountIfNotExist, UseExisting
<1>6. ASSUME NEW m \in Mentions, StartBackground(m)
      PROVE  MakerInv'
  BY <1>6 DEF StartBackground
<1>7. ASSUME NEW w \in Workers, ReadMark(w)
      PROVE  MakerInv'
  BY <1>7 DEF ReadMark
<1>8. ASSUME NEW w \in Workers, NEW p \in Posts, StorePostIfNew(w, p)
      PROVE  MakerInv'
  BY <1>8 DEF StorePostIfNew
<1>9. ASSUME NEW w \in Workers, AddToot(w)
      PROVE  MakerInv'
  BY <1>9 DEF AddToot
<1>10. ASSUME NEW w \in Workers, EnqueueBroadcast(w)
       PROVE  MakerInv'
  BY <1>10 DEF EnqueueBroadcast
<1>11. ASSUME NEW w \in Workers, UpdateAccountFeedTimes(w)
       PROVE  MakerInv'
  BY <1>11 DEF UpdateAccountFeedTimes, AfterSuccess
<1>12. ASSUME NEW w \in Workers, StepFails(w)
       PROVE  MakerInv'
  BY <1>12 DEF StepFails, AfterError, Busy
<1>13. CASE LoopPanics
  BY <1>13 DEF LoopPanics, Busy
<1>14. CASE Crash
  BY <1>14 DEF Crash
<1>15. CASE UNCHANGED vars
  BY <1>15 DEF vars
<1> QED
  BY <1>1, <1>2, <1>3, <1>4, <1>5, <1>6, <1>7, <1>8, <1>9, <1>10, <1>11, <1>12, <1>13,
     <1>14, <1>15 DEF Next, World, GetAccountForFeed, UpdateAccountPosts, Failure

\* No interleaving of the loop, the mentions and the background job, no failed
\* call and no crash makes two toots of one post.
THEOREM OneTootPerPost == Spec => []AtMostOneToot
<1>1. TypeOK /\ MakerInv /\ [Next]_vars => MakerInv'
  BY StepMakerInv
<1>2. MakerInv => AtMostOneToot
  BY DEF MakerInv
<1> QED BY InitMakerInv, <1>1, <1>2, TypeCorrect, PTL DEF Spec

-----------------------------------------------------------------------------
(* No post skipped *)

\* What a publisher who dates posts in order lets the goroutines rely on.
OrderInv == InOrder => CopiesInStep /\ MarksInStep /\ NoPostSkipped

LEMMA InitOrderInv == Init => OrderInv
  BY FeedUpdateAssumption
     DEF Init, OrderInv, CopiesInStep, MarksInStep, NoPostSkipped, NoItems, HoldsCopy

\* A goroutine that reads the mark keeps, of the posts up to its new mark, all
\* that the old mark did not cover.
LEMMA ReadMarkCovers ==
  ASSUME TypeOK, InOrder, OrderInv, NEW w \in Workers, ReadMark(w),
         NEW p \in Posts, feed[p] > 0, feed[p] <= newMark'[w]
  PROVE  p \in stored \/ items'[w][p] > 0
<1> USE FeedUpdateAssumption DEF TypeOK, Dates
<1> DEFINE t == newMark'[w]
<1>1. NewLastUpdated(w, t) /\ t \in Dates
  BY DEF ReadMark
<1>2. CASE feed[p] <= mark
  BY <1>2 DEF OrderInv, NoPostSkipped
<1>3. CASE feed[p] > mark
  <2>1. PICK q \in Keepers(w) : t = items[w][q]
    BY <1>1, <1>3 DEF NewLastUpdated
  <2>2. items[w][p] = feed[p]
    BY <2>1 DEF OrderInv, CopiesInStep, HoldsCopy, ReadMark, Keepers
  <2>3. items[w][p] <= now + FutureLimit
    BY <2>1, <2>2 DEF Keepers, Keeper
  <2>4. p \in Keepers(w)
    BY <1>3, <2>2, <2>3 DEF Keepers, Keeper
  <2>5. items'[w][p] = items[w][p]
    BY <2>4 DEF ReadMark
  <2> QED BY <2>2, <2>5
<1> QED BY <1>2, <1>3

LEMMA ReadMarkDated ==
  ASSUME TypeOK, InOrder, OrderInv, NEW w \in Workers, ReadMark(w), newMark'[w] > 0
  PROVE  \E q \in Posts : newMark'[w] <= feed[q]
<1> USE FeedUpdateAssumption DEF TypeOK, Dates
<1>1. NewLastUpdated(w, newMark'[w])
  BY DEF ReadMark
<1>2. CASE newMark'[w] = mark
  BY <1>2 DEF OrderInv, MarksInStep
<1>3. ASSUME NEW q \in Keepers(w), newMark'[w] = items[w][q]
      PROVE  \E r \in Posts : newMark'[w] <= feed[r]
  BY <1>3 DEF OrderInv, CopiesInStep, Keepers
<1> QED BY <1>1, <1>2, <1>3 DEF NewLastUpdated

LEMMA StepOrderInv ==
  ASSUME TypeOK, MakerInv, OrderInv, [Next]_vars
  PROVE  OrderInv'
<1> SUFFICES ASSUME InOrder
             PROVE  (CopiesInStep /\ MarksInStep /\ NoPostSkipped)'
  BY DEF OrderInv
<1> DEFINE Goal == (CopiesInStep /\ MarksInStep /\ NoPostSkipped)'
<1> USE FeedUpdateAssumption
    DEF TypeOK, Dates, OrderInv, CopiesInStep, MarksInStep, NoPostSkipped, HoldsCopy,
        accountVars, postVars, boundVars, workerVars, GoTo, Leave, TakeFeed, NoItems
<1>1. ASSUME NEW p \in Posts, NEW t \in Dates, Publish(p, t)
      PROVE  Goal
  <2>1. \A q \in Posts : feed[q] <= feed'[q] /\ (feed'[q] = feed[q] \/ (q = p /\ feed'[q] = t))
    BY <1>1 DEF Publish
  <2>2. \A q \in Posts : feed[q] < t
    BY <1>1 DEF Publish
  <2>3. UNCHANGED <<mark, stored, pc, items, newMark>>
    BY <1>1 DEF Publish
  <2>4. \A q \in Posts : feed'[q] \in Nat /\ feed[q] \in Nat
    BY <1>1 DEF Publish
  <2>5. \A w \in Workers, q \in Posts : items[w][q] \in Nat /\ newMark[w] \in Nat
    OBVIOUS
  <2>6. CopiesInStep'
    <3>1. \A w \in Workers, q \in Posts : items'[w][q] <= feed'[q]
      BY <2>1, <2>3, <2>4, <2>5
    <3>2. ASSUME NEW w \in HoldsCopy', NEW q \in Posts, NEW r \in Posts,
                 feed'[q] > 0, feed'[q] <= items'[w][r]
          PROVE  items'[w][q] = feed'[q]
      <4>1. w \in HoldsCopy /\ items'[w] = items[w]
        BY <2>3
      <4>2. items[w][r] <= feed[r] /\ feed[r] < t
        BY <2>2, <4>1
      <4>3. feed'[q] = feed[q]
        BY <2>1, <2>4, <2>5, <3>2, <4>1, <4>2
      <4> QED BY <3>2, <4>1, <4>3
    <3> QED BY <3>1, <3>2
  <2>7. MarksInStep'
    <3>1. mark' > 0 => \E q \in Posts : mark' <= feed'[q]
      BY <2>1, <2>3, <2>4
    <3>2. ASSUME NEW w \in Workers, newMark'[w] > 0
          PROVE  \E q \in Posts : newMark'[w] <= feed'[q]
      <4>1. PICK q \in Posts : newMark[w] <= feed[q]
        BY <2>3, <3>2
      <4> QED BY <2>1, <2>3, <2>4, <2>5, <4>1
    <3>3. ASSUME NEW w \in Workers, NEW q \in Posts, pc'[w] \in {"store", "toot", "enqueue"},
                 feed'[q] > 0, feed'[q] <= newMark'[w]
          PROVE  q \in stored' \/ items'[w][q] > 0
      <4>1. PICK r \in Posts : newMark[w] <= feed[r]
        BY <2>3, <2>4, <2>5, <3>3
      <4>2. feed'[q] = feed[q]
        BY <2>1, <2>2, <2>3, <2>4, <2>5, <3>3, <4>1
      <4> QED BY <2>3, <3>3, <4>2
    <3> QED BY <3>1, <3>2, <3>3
  <2>8. NoPostSkipped'
    BY <2>1, <2>2, <2>3
  <2> QED BY <2>6, <2>7, <2>8
<1>2. CASE Tick \/ BecomeDue \/ FetchFails \/ RecordFeedCheckError
  BY <1>2 DEF Tick, BecomeDue, FetchFails, RecordFeedCheckError
<1>3. CASE CheckDueFeed
  BY <1>3 DEF CheckDueFeed, Loop
<1>4. ASSUME NEW m \in Mentions, RequestFeed(m)
      PROVE  Goal
  BY <1>4 DEF RequestFeed
<1>5. ASSUME NEW m \in Mentions, AddAccountIfNotExist(m) \/ UseExisting(m)
      PROVE  Goal
  BY <1>5 DEF AddAccountIfNotExist, UseExisting
<1>6. ASSUME NEW m \in Mentions, StartBackground(m)
      PROVE  Goal
  BY <1>6 DEF StartBackground, Workers
<1>7. ASSUME NEW w \in Workers, ReadMark(w)
      PROVE  Goal
  <2>1. CopiesInStep'
    BY <1>7 DEF ReadMark
  <2>2. ASSUME NEW v \in Workers, newMark'[v] > 0
        PROVE  \E q \in Posts : newMark'[v] <= feed'[q]
    <3>1. UNCHANGED feed /\ (v # w => newMark'[v] = newMark[v])
      BY <1>7 DEF ReadMark
    <3> QED BY <1>7, <2>2, <3>1, ReadMarkDated
  <2>3. ASSUME NEW v \in Workers, NEW p \in Posts, pc'[v] \in {"store", "toot", "enqueue"},
               feed'[p] > 0, feed'[p] <= newMark'[v]
        PROVE  p \in stored' \/ items'[v][p] > 0
    <3>1. UNCHANGED <<feed, stored>>
      BY <1>7 DEF ReadMark
    <3>2. v # w => newMark'[v] = newMark[v] /\ pc'[v] = pc[v] /\ items'[v] = items[v]
      BY <1>7 DEF ReadMark
    <3>3. CASE v = w
      BY <1>7, <2>3, <3>1, <3>3, ReadMarkCovers
    <3>4. CASE v # w
      BY <2>3, <3>1, <3>2, <3>4
    <3> QED BY <3>3, <3>4
  <2>4. UNCHANGED <<feed, mark, stored>>
    BY <1>7 DEF ReadMark
  <2> QED BY <2>1, <2>2, <2>3, <2>4
<1>8. ASSUME NEW w \in Workers, NEW p \in Posts, StorePostIfNew(w, p)
      PROVE  Goal
  BY <1>8 DEF StorePostIfNew
<1>9. ASSUME NEW w \in Workers, AddToot(w) \/ EnqueueBroadcast(w)
      PROVE  Goal
  BY <1>9 DEF AddToot, EnqueueBroadcast
<1>10. ASSUME NEW w \in Workers, UpdateAccountFeedTimes(w)
       PROVE  Goal
  BY <1>10 DEF UpdateAccountFeedTimes, AfterSuccess, Pending
<1>11. ASSUME NEW w \in Workers, StepFails(w)
       PROVE  Goal
  BY <1>11 DEF StepFails, AfterError
<1>12. CASE LoopPanics
  BY <1>12 DEF LoopPanics
<1>13. CASE Crash
  BY <1>13 DEF Crash
<1>14. CASE UNCHANGED vars
  BY <1>14 DEF vars
<1> QED
  BY <1>1, <1>2, <1>3, <1>4, <1>5, <1>6, <1>7, <1>8, <1>9, <1>10, <1>11, <1>12, <1>13,
     <1>14 DEF Next, World, GetAccountForFeed, UpdateAccountPosts, Failure

\* With a publisher that dates posts in order, feed_last_updated never passes a
\* post that is not in feed_posts, although several goroutines overwrite it.
THEOREM MarkNeverSkipsAPost == Spec => []NoPostSkipped
<1>1. TypeOK /\ MakerInv /\ OrderInv /\ [Next]_vars => OrderInv'
  BY StepOrderInv
<1>2. TypeOK /\ MakerInv /\ [Next]_vars => MakerInv'
  BY StepMakerInv
<1>3. OrderInv => NoPostSkipped
  BY DEF OrderInv, NoPostSkipped
<1> QED BY InitMakerInv, InitOrderInv, <1>1, <1>2, <1>3, TypeCorrect, PTL DEF Spec

-----------------------------------------------------------------------------
(* The posts are treated as PostLedger says *)

\* Copies of the feed hold published posts only.
CopiesPublished == \A w \in Workers, p \in Posts : items[w][p] <= feed[p]

LEMMA StepPublished ==
  ASSUME TypeOK, CopiesPublished, [Next]_vars
  PROVE  CopiesPublished'
<1> SUFFICES ASSUME NEW w \in Workers, NEW p \in Posts
             PROVE  items'[w][p] <= feed'[p]
  BY DEF CopiesPublished, Workers, Loop, Background
<1>0. /\ feed[p] \in Nat /\ items[w][p] \in Nat /\ items[w][p] <= feed[p]
      /\ \A v \in Workers : items[v][p] <= feed[p]
  BY FeedUpdateAssumption DEF TypeOK, Dates, CopiesPublished
<1>1. ASSUME NEW q \in Posts, NEW t \in Dates, Publish(q, t)
      PROVE  items'[w][p] <= feed'[p]
  <2>1. items' = items /\ feed'[p] = IF p = q THEN t ELSE feed[p]
    BY <1>1 DEF Publish, workerVars, TypeOK
  <2>2. t \in Nat /\ t > feed[q]
    BY <1>1, FeedUpdateAssumption DEF Publish, Dates
  <2> QED  BY <1>0, <2>1, <2>2
<1>2. ASSUME UNCHANGED feed,
             items'[w][p] \in {items[w][p], feed[p], 0} \cup {items[v][p] : v \in Workers}
      PROVE  items'[w][p] <= feed'[p]
  BY <1>0, <1>2
<1>3. CASE UNCHANGED <<feed, items>>
  BY <1>2, <1>3
<1>4. ASSUME NEW v \in Workers, UNCHANGED feed, items' = [items EXCEPT ![v] = feed]
      PROVE  items'[w][p] <= feed'[p]
  BY <1>2, <1>4 DEF TypeOK
<1>5. ASSUME NEW v \in Workers, NEW place, UNCHANGED feed, Leave(v, place)
      PROVE  items'[w][p] <= feed'[p]
  BY <1>2, <1>5 DEF Leave, NoItems, TypeOK
<1>6. ASSUME NEW m \in Mentions, GetAccountForFeed(m)
      PROVE  items'[w][p] <= feed'[p]
  <2>1. CASE RequestFeed(m)
    BY <1>4, <2>1 DEF RequestFeed, TakeFeed, Workers
  <2>2. CASE AddAccountIfNotExist(m) \/ UseExisting(m)
    BY <1>3, <2>2 DEF AddAccountIfNotExist, UseExisting
  <2>3. CASE StartBackground(m)
    <3>1. items'[w] \in {items[w], items[m], NoItems} /\ UNCHANGED feed
      BY <2>3 DEF StartBackground, TypeOK
    <3> QED  BY <1>2, <3>1 DEF NoItems, Workers
  <2> QED  BY <1>6, <2>1, <2>2, <2>3 DEF GetAccountForFeed
<1>7. ASSUME NEW v \in Workers, UpdateAccountPosts(v)
      PROVE  items'[w][p] <= feed'[p]
  <2>1. CASE ReadMark(v)
    <3>1. UNCHANGED feed /\ items'[w][p] \in {items[w][p], 0}
      BY <2>1 DEF ReadMark, TypeOK
    <3> QED  BY <1>2, <3>1
  <2>2. ASSUME NEW q \in Posts, StorePostIfNew(v, q)
        PROVE  items'[w][p] <= feed'[p]
    <3>1. UNCHANGED feed /\ items'[w][p] \in {items[w][p], 0}
      BY <2>2 DEF StorePostIfNew, TypeOK
    <3> QED  BY <1>2, <3>1
  <2>3. CASE AddToot(v) \/ EnqueueBroadcast(v)
    BY <1>3, <2>3 DEF AddToot, EnqueueBroadcast
  <2>4. CASE UpdateAccountFeedTimes(v)
    BY <1>5, <2>4 DEF UpdateAccountFeedTimes
  <2> QED  BY <1>7, <2>1, <2>2, <2>3, <2>4 DEF UpdateAccountPosts
<1>8. CASE Crash
  BY <1>2, <1>8 DEF Crash, NoItems
<1>9. CASE CheckDueFeed
  BY <1>4, <1>9 DEF CheckDueFeed, TakeFeed, Workers
<1>10. ASSUME NEW v \in Workers, StepFails(v)
       PROVE  items'[w][p] <= feed'[p]
  BY <1>5, <1>10 DEF StepFails
<1>11. CASE LoopPanics
  BY <1>5, <1>11 DEF LoopPanics, Workers
<1>12. CASE Tick \/ BecomeDue \/ FetchFails \/ RecordFeedCheckError \/ UNCHANGED vars
  BY <1>3, <1>12 DEF Tick, BecomeDue, FetchFails, RecordFeedCheckError, vars, workerVars
<1> QED
  BY <1>1, <1>6, <1>7, <1>8, <1>9, <1>10, <1>11, <1>12 DEF Next, World, Failure

LEMMA UpdateLedger ==
  ASSUME TypeOK, MakerInv, OrderInv, CopiesPublished, NEW w \in Workers, UpdateAccountPosts(w)
  PROVE  [Ledger!Next]_Ledger!ledgerVars
<1>1. CASE ReadMark(w)
  BY <1>1 DEF ReadMark, accountVars, postVars, Ledger!ledgerVars
<1>2. ASSUME NEW p \in Posts, StorePostIfNew(w, p)
      PROVE  [Ledger!Next]_Ledger!ledgerVars
  <2>1. UNCHANGED <<feed, toots, broadcasts, mark>>
    BY <1>2 DEF StorePostIfNew, accountVars
  <2>2. feed[p] > 0
    <3>1. items[w][p] > 0 /\ items[w][p] <= feed[p]
      BY <1>2 DEF StorePostIfNew, Oldest, Pending, CopiesPublished
    <3> QED  BY <3>1, FeedUpdateAssumption DEF TypeOK, Dates
  <2>3. stored' = stored \/ (p \notin stored /\ stored' = stored \cup {p})
    BY <1>2 DEF StorePostIfNew
  <2> QED  BY <2>1, <2>2, <2>3 DEF Ledger!Next, Ledger!Record, Ledger!ledgerVars
<1>3. CASE AddToot(w)
  <2>1. cur[w] \in Posts /\ cur[w] \in stored /\ toots[cur[w]] = 0
    BY <1>3 DEF AddToot, MakerInv, OneMaker, TypeOK
  <2>2. toots' = [toots EXCEPT ![cur[w]] = 1]
    BY <1>3, <2>1 DEF AddToot
  <2>3. UNCHANGED <<feed, stored, broadcasts, mark>>
    BY <1>3 DEF AddToot, accountVars
  <2> QED  BY <2>1, <2>2, <2>3 DEF Ledger!Next, Ledger!Toot
<1>4. CASE EnqueueBroadcast(w)
  <2>1. cur[w] \in Posts /\ toots[cur[w]] = 1 /\ broadcasts[cur[w]] = 0
    BY <1>4 DEF EnqueueBroadcast, MakerInv, OneMaker, TypeOK
  <2>2. broadcasts' = [broadcasts EXCEPT ![cur[w]] = 1]
    BY <1>4, <2>1 DEF EnqueueBroadcast
  <2>3. UNCHANGED <<feed, stored, toots, mark>>
    BY <1>4 DEF EnqueueBroadcast, accountVars
  <2> QED  BY <2>1, <2>2, <2>3 DEF Ledger!Next, Ledger!Announce
<1>5. CASE UpdateAccountFeedTimes(w)
  <2>1. /\ mark' = newMark[w] /\ newMark[w] \in 0..MaxTime
        /\ UNCHANGED <<feed, stored, toots, broadcasts>>
    BY <1>5 DEF UpdateAccountFeedTimes, postVars, TypeOK, Dates
  <2>2. InOrder => Ledger!Complete(newMark[w])
    <3> SUFFICES ASSUME InOrder, NEW p \in Posts, feed[p] > 0, feed[p] <= newMark[w]
                 PROVE  p \in stored
      BY DEF Ledger!Complete
    <3>1. p \in stored \/ items[w][p] > 0
      BY <1>5 DEF UpdateAccountFeedTimes, OrderInv, MarksInStep
    <3> QED  BY <1>5, <3>1 DEF UpdateAccountFeedTimes, Pending
  <2> QED  BY <2>1, <2>2 DEF Ledger!Next, Ledger!SetMark
<1> QED  BY <1>1, <1>2, <1>3, <1>4, <1>5 DEF UpdateAccountPosts

\* However the loop, the mentions and the background job interleave, fail and
\* restart, they keep the promise of PostLedger.
THEOREM UpdatesKeepLedger == Spec => LedgerPromise
<1>1. Init => Ledger!Init /\ CopiesPublished
  BY DEF Init, Ledger!Init, NoItems, CopiesPublished
<1>2. TypeOK /\ MakerInv /\ OrderInv /\ CopiesPublished /\ [Next]_vars
        => [Ledger!Next]_Ledger!ledgerVars
  <2> SUFFICES ASSUME TypeOK, MakerInv, OrderInv, CopiesPublished, [Next]_vars
               PROVE  [Ledger!Next]_Ledger!ledgerVars
    OBVIOUS
  <2>1. ASSUME NEW p \in Posts, NEW t \in Dates, Publish(p, t)
        PROVE  [Ledger!Next]_Ledger!ledgerVars
    <3>1. Ledger!Publish(p, t)
      BY <2>1 DEF Publish, accountVars, postVars, Ledger!Publish
    <3>2. t \in 1..MaxTime
      BY <2>1, FeedUpdateAssumption DEF Publish, Dates
    <3> QED  BY <3>1, <3>2 DEF Ledger!Next
  <2>2. ASSUME NEW w \in Workers, UpdateAccountPosts(w)
        PROVE  [Ledger!Next]_Ledger!ledgerVars
    BY <2>2, UpdateLedger
  <2>3. ASSUME NEW m \in Mentions, GetAccountForFeed(m)
        PROVE  [Ledger!Next]_Ledger!ledgerVars
    BY <2>3 DEF GetAccountForFeed, RequestFeed, AddAccountIfNotExist, StartBackground,
                UseExisting, accountVars, postVars, Ledger!ledgerVars
  <2>4. CASE \/ Tick \/ BecomeDue \/ CheckDueFeed \/ RecordFeedCheckError
             \/ Failure \/ UNCHANGED vars
    BY <2>4 DEF Tick, BecomeDue, CheckDueFeed, RecordFeedCheckError, Failure, StepFails,
                FetchFails, LoopPanics, Crash, vars, accountVars, postVars, Ledger!ledgerVars
  <2> QED  BY <2>1, <2>2, <2>3, <2>4 DEF Next, World
<1>3. TypeOK /\ CopiesPublished /\ [Next]_vars => CopiesPublished'
  BY StepPublished
<1>4. TypeOK /\ MakerInv /\ [Next]_vars => MakerInv'
  BY StepMakerInv
<1>5. TypeOK /\ MakerInv /\ OrderInv /\ [Next]_vars => OrderInv'
  BY StepOrderInv
<1> QED
  BY <1>1, <1>2, <1>3, <1>4, <1>5, InitMakerInv, InitOrderInv, TypeCorrect, PTL
     DEF Spec, LedgerPromise, Ledger!Spec

-----------------------------------------------------------------------------
(* An account that is not scheduled *)

LEMMA StepUnset ==
  ASSUME TypeOK, MakerInv, UnsetUnderWay, [Next]_vars
  PROVE  UnsetUnderWay'
<1> DEFINE Job == pc[Background] \in {"mark", "store", "toot"}
<1>0. /\ errors \in Nat /\ crashes \in Nat
      /\ Background # Loop /\ Background \notin Mentions /\ Background \in Workers
  BY FeedUpdateAssumption DEF TypeOK, Background, Loop, Workers
<1>1. CASE UNCHANGED <<scheduled, pc, errors, crashes>>
  BY <1>1 DEF UnsetUnderWay
<1>2. CASE scheduled' # "unset"
  BY <1>2 DEF UnsetUnderWay
<1>3. ASSUME errors' + crashes' > 0
      PROVE  UnsetUnderWay'
  BY <1>3 DEF UnsetUnderWay
<1>4. ASSUME NEW w \in Workers, UNCHANGED <<scheduled, errors, crashes>>,
             pc[w] # "created", pc' = [pc EXCEPT ![w] = pc'[w]],
             w = Background => pc'[w] \in {"mark", "store", "toot"}
      PROVE  UnsetUnderWay'
  <2>1. \A m \in Mentions : pc[m] = "created" => pc'[m] = "created"
    BY <1>4 DEF TypeOK, Workers
  <2>2. Job => Job'
    BY <1>4, <1>0 DEF TypeOK
  <2> QED  BY <1>4, <2>1, <2>2 DEF UnsetUnderWay
<1>5. ASSUME NEW m \in Mentions, AddAccountIfNotExist(m)
      PROVE  UnsetUnderWay'
  <2>1. CASE scheduled = "none"
    <3>1. pc'[m] = "created"
      BY <1>5, <2>1 DEF AddAccountIfNotExist, GoTo, TypeOK, Workers
    <3> QED  BY <3>1 DEF UnsetUnderWay
  <2>2. CASE scheduled # "none"
    <3>1. UNCHANGED <<scheduled, errors, crashes>> /\ pc[m] = "add"
          /\ pc' = [pc EXCEPT ![m] = "existing"]
      BY <1>5, <2>2 DEF AddAccountIfNotExist, GoTo, boundVars
    <3> QED  BY <1>0, <1>4, <3>1 DEF TypeOK, Workers
  <2> QED  BY <2>1, <2>2
<1>6. ASSUME NEW m \in Mentions, StartBackground(m)
      PROVE  UnsetUnderWay'
  <2>1. pc'[Background] = "mark"
    BY <1>0, <1>6 DEF StartBackground, TypeOK
  <2> QED  BY <2>1 DEF UnsetUnderWay
<1>7. ASSUME NEW m \in Mentions, RequestFeed(m) \/ UseExisting(m)
      PROVE  UnsetUnderWay'
  <2>1. UNCHANGED <<scheduled, errors, crashes>> /\ pc[m] # "created"
        /\ \E place \in {"add", "mark"} : pc' = [pc EXCEPT ![m] = place]
    BY <1>7 DEF RequestFeed, UseExisting, TakeFeed, GoTo, accountVars, boundVars
  <2> QED  BY <1>0, <1>4, <2>1 DEF TypeOK, Workers
<1>8. CASE CheckDueFeed
  <2>1. UNCHANGED <<scheduled, errors, crashes>> /\ pc[Loop] # "created"
        /\ pc' = [pc EXCEPT ![Loop] = "mark"]
    BY <1>8 DEF CheckDueFeed, TakeFeed, GoTo, accountVars, boundVars
  <2> QED  BY <1>0, <1>4, <2>1 DEF TypeOK, Workers
<1>9. ASSUME NEW w \in Workers, UpdateAccountPosts(w)
      PROVE  UnsetUnderWay'
  <2>1. CASE UpdateAccountFeedTimes(w)
    BY <1>2, <2>1 DEF UpdateAccountFeedTimes
  <2>2. CASE ReadMark(w) \/ (\E p \in Posts : StorePostIfNew(w, p)) \/ AddToot(w) \/ EnqueueBroadcast(w)
    <3>1. UNCHANGED <<scheduled, errors, crashes>> /\ pc[w] # "created"
      BY <2>2 DEF ReadMark, StorePostIfNew, AddToot, EnqueueBroadcast, accountVars, boundVars
    <3>2. \E place : /\ pc' = [pc EXCEPT ![w] = place]
                     /\ w = Background => place \in {"mark", "store", "toot"}
      BY <2>2 DEF ReadMark, StorePostIfNew, AddToot, EnqueueBroadcast, GoTo, TypeOK
    <3> QED  BY <1>4, <3>1, <3>2 DEF TypeOK
  <2> QED  BY <1>9, <2>1, <2>2 DEF UpdateAccountPosts
<1>10. CASE Failure
  BY <1>0, <1>3, <1>10 DEF Failure, StepFails, FetchFails, LoopPanics, Crash
<1>11. CASE RecordFeedCheckError
  <2>1. CASE scheduled' = "later"
    BY <1>2, <2>1
  <2>2. CASE errors' = errors + 1 /\ crashes' = crashes
    BY <1>0, <1>3, <2>2
  <2> QED  BY <1>11, <2>1, <2>2 DEF RecordFeedCheckError
<1>12. CASE \/ \E p \in Posts, t \in Dates : Publish(p, t)
            \/ Tick \/ UNCHANGED vars
  BY <1>1, <1>12 DEF Publish, Tick, vars, accountVars, workerVars, boundVars
<1>13. CASE BecomeDue
  BY <1>2, <1>13 DEF BecomeDue
<1> QED
  BY <1>5, <1>6, <1>7, <1>8, <1>9, <1>10, <1>11, <1>12, <1>13
     DEF Next, World, GetAccountForFeed

\* Only a failed call or a crash leaves an account's next_check_due in the year
\* 2100: until then the job that will set it is under way.  (AccountsScheduled
\* fails in just that case.)
THEOREM UnsetOnlyByFailure == Spec => []UnsetUnderWay
<1>1. Init => UnsetUnderWay
  BY DEF Init, UnsetUnderWay
<1>2. TypeOK /\ MakerInv /\ UnsetUnderWay /\ [Next]_vars => UnsetUnderWay'
  BY StepUnset
<1>3. TypeOK /\ MakerInv /\ [Next]_vars => MakerInv'
  BY StepMakerInv
<1> QED  BY <1>1, <1>2, <1>3, InitMakerInv, TypeCorrect, PTL DEF Spec

\* The inductive invariant of FeedUpdate: one creator, one maker per toot, copies and
\* marks that agree with the feed, and a job for every account without a schedule.
THEOREM FeedInvariant == Spec => []FeedInv
<1>1. TypeOK /\ MakerInv /\ OrderInv /\ [Next]_vars => OrderInv'
  BY StepOrderInv
<1>2. TypeOK /\ MakerInv /\ [Next]_vars => MakerInv'
  BY StepMakerInv
<1>3. MakerInv /\ OrderInv /\ UnsetUnderWay => FeedInv
  BY DEF MakerInv, OrderInv, FeedInv, NoPostSkipped
<1> QED
  BY InitMakerInv, InitOrderInv, <1>1, <1>2, <1>3, TypeCorrect, UnsetOnlyByFailure, PTL
     DEF Spec

-----------------------------------------------------------------------------
(* How many toots can be lost *)

LossInv == IsFiniteSet(TootsMissing) /\ LossBounded

LEMMA WorkersCounted == IsFiniteSet(Workers) /\ Cardinality(Workers) \in Nat
<1>1. IsFiniteSet({Loop, Background})
  <2>1. IsFiniteSet({Loop})
    BY FS_Singleton
  <2>2. IsFiniteSet({Loop} \cup {Background})
    BY <2>1, FS_AddElement
  <2>3. {Loop} \cup {Background} = {Loop, Background}
    OBVIOUS
  <2> QED  BY <2>2, <2>3
<1>2. Workers = Mentions \cup {Loop, Background}
  BY DEF Workers
<1> QED  BY <1>1, <1>2, FS_Union, FS_CardinalityType, FeedUpdateAssumption

\* A step that gives up no post.
LEMMA NothingLost ==
  ASSUME TypeOK, LossInv, TootsMissing' \subseteq TootsMissing,
         errors' \in Nat, errors' >= errors, crashes' = crashes
  PROVE  LossInv'
<1>1. IsFiniteSet(TootsMissing') /\ Cardinality(TootsMissing') <= Cardinality(TootsMissing)
  BY FS_Subset DEF LossInv
<1>2. Cardinality(TootsMissing) \in Nat /\ Cardinality(TootsMissing') \in Nat
  BY <1>1, FS_CardinalityType DEF LossInv
<1> DEFINE byCrashes == crashes * Cardinality(Workers)
<1>3. byCrashes \in Nat /\ errors \in Nat
  BY WorkersCounted, FeedUpdateAssumption DEF TypeOK
<1>4. Cardinality(TootsMissing) <= errors + byCrashes
  BY DEF LossInv, LossBounded
<1> HIDE DEF byCrashes
<1>5. Cardinality(TootsMissing') <= errors' + byCrashes
  BY <1>1, <1>2, <1>3, <1>4
<1>6. Workers' = Workers
  BY DEF Workers, Loop, Background
<1> QED  BY <1>1, <1>5, <1>6 DEF LossInv, LossBounded, byCrashes

\* A failed call or a panic gives up the post of one goroutine.
LEMMA OneLost ==
  ASSUME TypeOK, LossInv, NEW p, TootsMissing' \subseteq TootsMissing \cup {p},
         errors' = errors + 1, crashes' = crashes
  PROVE  LossInv'
<1>1. /\ IsFiniteSet(TootsMissing \cup {p})
      /\ Cardinality(TootsMissing \cup {p}) <= Cardinality(TootsMissing) + 1
      /\ Cardinality(TootsMissing) \in Nat
  <2>1. /\ IsFiniteSet(TootsMissing \cup {p})
        /\ \/ Cardinality(TootsMissing \cup {p}) = Cardinality(TootsMissing)
           \/ Cardinality(TootsMissing \cup {p}) = Cardinality(TootsMissing) + 1
    BY FS_AddElement DEF LossInv
  <2> QED  BY <2>1, FS_CardinalityType DEF LossInv
<1>2. /\ IsFiniteSet(TootsMissing')
      /\ Cardinality(TootsMissing') <= Cardinality(TootsMissing \cup {p})
  BY <1>1, FS_Subset
<1>3. Cardinality(TootsMissing') \in Nat /\ Cardinality(TootsMissing \cup {p}) \in Nat
  BY <1>1, <1>2, FS_CardinalityType
<1> DEFINE byCrashes == crashes * Cardinality(Workers)
<1>4. byCrashes \in Nat /\ errors \in Nat
  BY WorkersCounted, FeedUpdateAssumption DEF TypeOK
<1>5. Cardinality(TootsMissing) <= errors + byCrashes
  BY DEF LossInv, LossBounded
<1> HIDE DEF byCrashes
<1>6. Cardinality(TootsMissing') <= errors' + byCrashes
  BY <1>1, <1>2, <1>3, <1>4, <1>5
<1>7. Workers' = Workers
  BY DEF Workers, Loop, Background
<1> QED  BY <1>2, <1>6, <1>7 DEF LossInv, LossBounded, byCrashes

\* A crash gives up one post of each goroutine at most.
LEMMA CrashLoses ==
  ASSUME TypeOK, LossInv, Crash
  PROVE  LossInv'
<1> DEFINE held == {cur[w] : w \in Workers}
           n == Cardinality(Workers)
<1>1. IsFiniteSet(held) /\ Cardinality(held) <= n
  <2>1. cur \in Surjection(Workers, held)
    BY DEF Surjection, TypeOK
  <2> QED  BY <2>1, WorkersCounted, FS_Surjection
<1>2. TootsMissing' \subseteq TootsMissing \cup held
  BY DEF Crash, TootsMissing, postVars
<1> HIDE DEF held
<1>3. /\ Cardinality(held) \in Nat
      /\ Cardinality(TootsMissing) \in Nat
      /\ Cardinality(TootsMissing \cap held) \in Nat
      /\ Cardinality(TootsMissing \cup held) \in Nat
      /\ IsFiniteSet(TootsMissing \cup held)
      /\ Cardinality(TootsMissing \cup held) =
           Cardinality(TootsMissing) + Cardinality(held) - Cardinality(TootsMissing \cap held)
  <2>1. IsFiniteSet(TootsMissing) /\ IsFiniteSet(TootsMissing \cap held)
    BY FS_Subset DEF LossInv
  <2> QED  BY <1>1, <2>1, FS_Union, FS_CardinalityType
<1>4. /\ IsFiniteSet(TootsMissing')
      /\ Cardinality(TootsMissing') <= Cardinality(TootsMissing \cup held)
  BY <1>2, <1>3, FS_Subset
<1>5. Cardinality(TootsMissing') \in Nat
  BY <1>4, FS_CardinalityType
<1>6. crashes' = crashes + 1 /\ errors' = errors /\ crashes \in Nat /\ errors \in Nat /\ n \in Nat
  BY WorkersCounted, FeedUpdateAssumption DEF Crash, TypeOK
<1>7. Cardinality(TootsMissing) <= errors + crashes * n
  BY DEF LossInv, LossBounded
<1>8. Workers' = Workers
  BY DEF Workers, Loop, Background
<1> HIDE DEF n
<1>9. crashes' * n = crashes * n + n /\ crashes * n \in Nat
  BY <1>6
<1>10. Cardinality(TootsMissing') <= errors' + crashes' * n
  BY <1>1, <1>3, <1>4, <1>5, <1>6, <1>7, <1>9
<1> QED  BY <1>4, <1>8, <1>10 DEF LossInv, LossBounded, n

LEMMA StepLossInv ==
  ASSUME TypeOK, MakerInv, LossInv, [Next]_vars
  PROVE  LossInv'
<1>1. errors \in Nat
  BY FeedUpdateAssumption DEF TypeOK
<1>2. ASSUME UNCHANGED <<stored, toots, cur, errors, crashes>>
      PROVE  LossInv'
  <2>1. TootsMissing' = TootsMissing
    BY <1>2 DEF TootsMissing, Workers, Loop, Background
  <2> QED  BY <1>1, <1>2, <2>1, NothingLost
<1>3. ASSUME NEW w \in Workers, UNCHANGED <<stored, toots, crashes>>,
             cur' = [cur EXCEPT ![w] = NoPost],
             errors' = errors + 1
      PROVE  LossInv'
  <2>1. \A v \in Workers : v # w => cur'[v] = cur[v]
    BY <1>3 DEF TypeOK
  <2>2. TootsMissing' \subseteq TootsMissing \cup {cur[w]}
    BY <1>3, <2>1 DEF TootsMissing, Workers, Loop, Background
  <2> QED  BY <1>3, <2>2, OneLost
<1>4. CASE \/ \E p \in Posts, t \in Dates : Publish(p, t)
           \/ Tick \/ BecomeDue \/ CheckDueFeed
           \/ \E m \in Mentions : GetAccountForFeed(m)
           \/ \E w \in Workers : ReadMark(w)
           \/ UNCHANGED vars
  BY <1>2, <1>4
     DEF Publish, Tick, BecomeDue, CheckDueFeed, TakeFeed, GetAccountForFeed, RequestFeed,
         AddAccountIfNotExist, StartBackground, UseExisting, ReadMark, vars, postVars,
         workerVars, boundVars
<1>5. CASE RecordFeedCheckError \/ FetchFails
  <2>1. UNCHANGED <<stored, toots, cur, crashes>>
    BY <1>5 DEF RecordFeedCheckError, FetchFails, postVars
  <2>2. TootsMissing' = TootsMissing
    BY <2>1 DEF TootsMissing, Workers, Loop, Background
  <2>3. errors' \in Nat /\ errors' >= errors
    BY <1>1, <1>5 DEF RecordFeedCheckError, FetchFails
  <2> QED  BY <2>1, <2>2, <2>3, NothingLost
<1>6. ASSUME NEW w \in Workers, NEW p \in Posts, StorePostIfNew(w, p)
      PROVE  LossInv'
  <2>1. CASE p \in stored /\ UNCHANGED <<stored, cur, pc>>
    BY <1>2, <1>6, <2>1 DEF StorePostIfNew, boundVars
  <2>2. CASE stored' = stored \cup {p} /\ cur' = [cur EXCEPT ![w] = p]
    <3>1. cur[w] = NoPost
      BY <1>6 DEF StorePostIfNew, MakerInv, OneMaker
    <3>2. cur'[w] = p /\ \A v \in Workers : v # w => cur'[v] = cur[v]
      BY <2>2 DEF TypeOK
    <3>3. NoPost \notin stored
      BY FeedUpdateAssumption DEF TypeOK
    <3>4. UNCHANGED <<toots, errors, crashes>>
      BY <1>6 DEF StorePostIfNew, boundVars
    <3>5. TootsMissing' \subseteq TootsMissing
      BY <2>2, <3>1, <3>2, <3>3, <3>4 DEF TootsMissing, Workers, Loop, Background
    <3> QED  BY <1>1, <3>4, <3>5, NothingLost
  <2> QED  BY <1>6, <2>1, <2>2 DEF StorePostIfNew
<1>7. ASSUME NEW w \in Workers, AddToot(w)
      PROVE  LossInv'
  <2>1. cur[w] \in Posts /\ cur[w] \in stored
    BY <1>7 DEF AddToot, MakerInv, OneMaker, TypeOK
  <2>2. /\ toots'[cur[w]] = toots[cur[w]] + 1 /\ toots[cur[w]] \in Nat
        /\ \A p \in Posts : p # cur[w] => toots'[p] = toots[p]
    BY <1>7, <2>1 DEF AddToot, TypeOK
  <2>3. \A v \in Workers : v # w => cur'[v] = cur[v]
    BY <1>7 DEF AddToot, TypeOK
  <2>4. UNCHANGED <<stored, errors, crashes>> /\ stored \subseteq Posts
    BY <1>7 DEF AddToot, boundVars, TypeOK
  <2>5. TootsMissing' \subseteq TootsMissing
    BY <2>1, <2>2, <2>3, <2>4 DEF TootsMissing, Workers, Loop, Background
  <2> QED  BY <1>1, <2>4, <2>5, NothingLost
<1>8. ASSUME NEW w \in Workers, EnqueueBroadcast(w)
      PROVE  LossInv'
  <2>1. toots[cur[w]] = 1
    BY <1>8 DEF EnqueueBroadcast, MakerInv, OneMaker
  <2>2. \A v \in Workers : v # w => cur'[v] = cur[v]
    BY <1>8 DEF EnqueueBroadcast, TypeOK
  <2>3. UNCHANGED <<stored, toots, errors, crashes>>
    BY <1>8 DEF EnqueueBroadcast, boundVars
  <2>4. TootsMissing' \subseteq TootsMissing
    BY <2>1, <2>2, <2>3 DEF TootsMissing, Workers, Loop, Background
  <2> QED  BY <1>1, <2>3, <2>4, NothingLost
<1>9. ASSUME NEW w \in Workers, UpdateAccountFeedTimes(w)
      PROVE  LossInv'
  <2>1. cur[w] = NoPost
    BY <1>9 DEF UpdateAccountFeedTimes, MakerInv, OneMaker
  <2>2. cur' = cur
    BY <1>9, <2>1 DEF UpdateAccountFeedTimes, Leave, TypeOK
  <2> QED  BY <1>2, <1>9, <2>2 DEF UpdateAccountFeedTimes, postVars, boundVars
<1>10. ASSUME NEW w \in Workers, StepFails(w)
       PROVE  LossInv'
  BY <1>3, <1>10 DEF StepFails, Leave, postVars
<1>11. CASE LoopPanics
  <2>1. Loop \in Workers
    BY DEF Workers
  <2> QED  BY <1>3, <1>11, <2>1 DEF LoopPanics, Leave, postVars
<1> QED
  BY <1>4, <1>5, <1>6, <1>7, <1>8, <1>9, <1>10, <1>11, CrashLoses
     DEF Next, World, UpdateAccountPosts, Failure

\* For any number of posts and mentions, a failed call costs at most one toot and
\* a crash at most one for each goroutine.
THEOREM LossIsBounded == Spec => []LossBounded
<1>1. Init => LossInv
  <2> SUFFICES ASSUME Init PROVE LossInv
    OBVIOUS
  <2>1. TootsMissing = {} /\ errors = 0 /\ crashes = 0
    BY DEF Init, TootsMissing
  <2>2. 0 * Cardinality(Workers) = 0
    BY WorkersCounted
  <2> QED  BY <2>1, <2>2, FS_EmptySet DEF LossInv, LossBounded
<1>2. TypeOK /\ MakerInv /\ LossInv /\ [Next]_vars => LossInv'
  BY StepLossInv
<1>3. TypeOK /\ MakerInv /\ [Next]_vars => MakerInv'
  BY StepMakerInv
<1>4. LossInv => LossBounded
  BY DEF LossInv
<1> QED  BY InitMakerInv, <1>1, <1>2, <1>3, <1>4, TypeCorrect, PTL DEF Spec
================================================================================
