--------------------------- MODULE Retention_proofs ---------------------------
(* Theorems about Retention for every value of its constants.                 *)
EXTENDS Retention, FeedUpdate_proofs

-----------------------------------------------------------------------------
(* What the steps of Retention are to FeedUpdate                              *)

\* Every step but the purge's deletion and its failure is one of FeedUpdate, or
\* leaves FeedUpdate alone.
LEMMA StepOfFeedUpdate ==
  ASSUME TypeOK, [RetentionNext]_retentionVars, ~PurgePostsAndToots, ~PurgeFails
  PROVE  [Next]_vars
<1>1. ASSUME NEW p \in Posts, PublishToday(p)
      PROVE  Next
  BY <1>1 DEF PublishToday, Next, World
<1>2. CASE CheckDueToday \/ NextDay
  BY <1>2 DEF CheckDueToday, NextDay, Next, World
<1>3. CASE StartCheck \/ RecordFeedCheckError
  BY <1>3 DEF StartCheck, Next, Failure
<1>4. ASSUME NEW m \in Mentions, GetAccountForFeed(m)
      PROVE  Next
  BY <1>4 DEF Next
<1>5. ASSUME NEW w \in Workers, UpdateWithRows(w)
      PROVE  Next
  <2>1. UpdateAccountPosts(w)
    BY <1>5 DEF UpdateWithRows, UpdateAccountPosts, StorePost, AddTootRow, FinishUpdate
  <2> QED BY <2>1 DEF Next
<1>6. CASE EnterPurge \/ SkipPurge \/ FindCut \/ OtherPurge \/ UNCHANGED retentionVars
  BY <1>6 DEF EnterPurge, SkipPurge, FindCut, OtherPurge, retentionVars
<1>7. CASE LoopPanics \/ \E w \in Workers : StepFails(w)
  BY <1>7 DEF Next, Failure
<1> QED
  BY <1>1, <1>2, <1>3, <1>4, <1>5, <1>6, <1>7
     DEF RetentionNext, PurgeOldPosts, FailureWithRows

\* What a step may do to the toots: append one of today, remove the cut, nothing.
Untouched == UNCHANGED <<tootRows, purge, cut>>

LEMMA StepRows ==
  ASSUME RetentionTypeOK, [RetentionNext]_retentionVars
  PROVE  \/ Untouched /\ (now' = now \/ now' = now + 1)
         \/ \E w \in Workers : AddTootRow(w)
         \/ \E w \in Workers : FinishUpdate(w)
         \/ EnterPurge \/ SkipPurge \/ FindCut \/ PurgePostsAndToots \/ PurgeFails
<1> USE DEF Untouched, KeepRows, purgeVars, rowVars
<1>1. ASSUME NEW p \in Posts, PublishToday(p)
      PROVE  Untouched /\ now' = now
  BY <1>1 DEF PublishToday, Publish
<1>2. CASE CheckDueToday \/ NextDay
  BY <1>2 DEF CheckDueToday, NextDay, BecomeDue, Tick
<1>3. CASE StartCheck \/ (RecordFeedCheckError /\ KeepRows)
  BY <1>3 DEF StartCheck, CheckDueFeed, FetchFails, RecordFeedCheckError
<1>4. ASSUME NEW m \in Mentions, GetAccountForFeed(m) /\ KeepRows
      PROVE  Untouched /\ now' = now
  BY <1>4 DEF GetAccountForFeed, RequestFeed, AddAccountIfNotExist, StartBackground, UseExisting
<1>5. ASSUME NEW w \in Workers, UpdateWithRows(w)
      PROVE  AddTootRow(w) \/ FinishUpdate(w) \/ (Untouched /\ now' = now)
  BY <1>5 DEF UpdateWithRows, ReadMark, StorePost, StorePostIfNew, EnqueueBroadcast
<1>6. CASE OtherPurge \/ UNCHANGED retentionVars
  BY <1>6 DEF OtherPurge, retentionVars, vars
<1>7. CASE FailureWithRows
  BY <1>7 DEF FailureWithRows, StepFails, LoopPanics
<1>8. CASE PurgeOldPosts
  BY <1>8 DEF PurgeOldPosts
<1> HIDE DEF Untouched, KeepRows, purgeVars, rowVars
<1> QED
  BY <1>1, <1>2, <1>3, <1>4, <1>5, <1>6, <1>7, <1>8 DEF RetentionNext

-----------------------------------------------------------------------------
(* Types *)

LEMMA StepRowType ==
  ASSUME RetentionTypeOK, [RetentionNext]_retentionVars
  PROVE  tootRows' \in Seq(Nat) /\ purge' \in {"none", "started", "read", "delete"} /\ cut' \in Nat
<1> USE DEF RetentionTypeOK
<1>1. CASE Untouched
  BY <1>1 DEF Untouched
<1>2. ASSUME NEW w \in Workers, AddTootRow(w)
      PROVE  tootRows' \in Seq(Nat) /\ purge' = purge /\ cut' = cut
  <2>1. now \in Nat
    BY FeedUpdateAssumption DEF TypeOK
  <2> QED BY <1>2, <2>1 DEF AddTootRow, purgeVars
<1>3. ASSUME NEW w \in Workers, FinishUpdate(w)
      PROVE  tootRows' = tootRows /\ purge' \in {purge, "started"} /\ cut' = cut
  BY <1>3 DEF FinishUpdate, rowVars
<1>4. CASE EnterPurge \/ SkipPurge \/ FindCut \/ PurgeFails
  BY <1>4 DEF EnterPurge, SkipPurge, FindCut, PurgeFails, EndPurge, rowVars
<1>5. CASE PurgePostsAndToots
  <2>1. SubSeq(tootRows, cut + 1, Len(tootRows)) \in Seq(Nat)
    OBVIOUS
  <2> QED BY <1>5, <2>1 DEF PurgePostsAndToots, EndPurge
<1> QED
  BY <1>1, <1>2, <1>3, <1>4, <1>5, StepRows

\* The posts with a row, and their dates.
LEMMA StepPostType ==
  ASSUME RetentionTypeOK, [RetentionNext]_retentionVars
  PROVE  /\ postTime' \in [Posts -> Dates]
         /\ known' \in [Posts -> Dates]
         /\ stored' = {p \in Posts : postTime'[p] > 0}
<1> DEFINE Same == UNCHANGED <<postTime, known, stored>>
<1>0. Same => /\ postTime' \in [Posts -> Dates]
              /\ known' \in [Posts -> Dates]
              /\ stored' = {p \in Posts : postTime'[p] > 0}
  BY DEF RetentionTypeOK
<1>1. ASSUME NEW p \in Posts, PublishToday(p)
      PROVE  Same
  BY <1>1 DEF PublishToday, Publish, postVars, rowVars
<1>2. CASE CheckDueToday \/ NextDay
  <2>1. Same
    BY <1>2 DEF CheckDueToday, NextDay, BecomeDue, Tick, postVars, rowVars
  <2> QED BY <2>1, <1>0
<1>3. CASE StartCheck \/ (RecordFeedCheckError /\ KeepRows)
  <2>1. Same
    BY <1>3 DEF StartCheck, CheckDueFeed, FetchFails, RecordFeedCheckError, KeepRows, postVars, rowVars
  <2> QED BY <2>1, <1>0
<1>4. ASSUME NEW m \in Mentions, GetAccountForFeed(m) /\ KeepRows
      PROVE  Same
  BY <1>4 DEF GetAccountForFeed, RequestFeed, AddAccountIfNotExist, StartBackground, UseExisting,
              KeepRows, postVars, rowVars
<1>5. ASSUME NEW w \in Workers, UpdateWithRows(w), ~(\E p \in Posts : StorePost(w, p))
      PROVE  Same
  BY <1>5 DEF UpdateWithRows, ReadMark, AddTootRow, AddToot, EnqueueBroadcast, FinishUpdate,
              UpdateAccountFeedTimes, KeepRows, postVars, rowVars
<1>6. ASSUME NEW w \in Workers, NEW p \in Posts, StorePost(w, p)
      PROVE  /\ postTime' \in [Posts -> Dates]
             /\ known' \in [Posts -> Dates]
             /\ stored' = {q \in Posts : postTime'[q] > 0}
  <2>1. items[w][p] \in Dates /\ items[w][p] > 0
    BY <1>6 DEF StorePost, StorePostIfNew, Oldest, Pending, RetentionTypeOK, TypeOK
  <2>2. CASE p \notin stored
    BY <1>6, <2>1, <2>2 DEF StorePost, StorePostIfNew, RetentionTypeOK
  <2>3. CASE p \in stored
    BY <1>6, <2>3 DEF StorePost, StorePostIfNew, RetentionTypeOK
  <2> QED BY <2>2, <2>3
<1>7. CASE EnterPurge \/ SkipPurge \/ FindCut \/ OtherPurge \/ UNCHANGED retentionVars
  <2>1. Same
    BY <1>7 DEF EnterPurge, SkipPurge, FindCut, OtherPurge, retentionVars, vars, postVars, rowVars
  <2> QED BY <2>1, <1>0
<1>8. CASE PurgePostsAndToots \/ (PurgeFails /\ DeletePosts)
  <2>1. PICK gone \in SUBSET stored :
          /\ stored' = stored \ gone
          /\ postTime' = [p \in Posts |-> IF p \in gone THEN 0 ELSE postTime[p]]
    BY <1>8 DEF PurgePostsAndToots, DeletePosts
  <2>2. known' = known /\ 0 \in Dates
    BY <1>8, FeedUpdateAssumption DEF PurgePostsAndToots, PurgeFails, Dates
  <2> QED BY <2>1, <2>2 DEF RetentionTypeOK
<1>9. CASE FailureWithRows /\ ~(PurgeFails /\ DeletePosts)
  <2>1. Same
    BY <1>9 DEF FailureWithRows, StepFails, LoopPanics, PurgeFails, KeepRows, postVars, rowVars
  <2> QED BY <2>1, <1>0
<1>11. CASE FailureWithRows /\ PurgeFails /\ DeletePosts
  BY <1>8, <1>11
<1>10. CASE PurgeOldPosts
  BY <1>7, <1>8, <1>10 DEF PurgeOldPosts
<1> HIDE DEF Same
<1> QED
  BY <1>0, <1>1, <1>2, <1>3, <1>4, <1>5, <1>6, <1>7, <1>9, <1>10, <1>11 DEF RetentionNext

\* The flag and the pace.
LEMMA StepPaceType ==
  ASSUME RetentionTypeOK, [RetentionNext]_retentionVars
  PROVE  /\ purging' \in {"nobody", "this", "other"}
         /\ lagging' \subseteq Workers
         /\ checked' \in BOOLEAN
<1> USE DEF RetentionTypeOK, purgeVars, paceVars, KeepRows
<1>1. ASSUME NEW p \in Posts, PublishToday(p)
      PROVE  UNCHANGED <<purging, lagging, checked>>
  BY <1>1 DEF PublishToday
<1>2. CASE CheckDueToday \/ NextDay \/ StartCheck
  BY <1>2 DEF CheckDueToday, NextDay, StartCheck, Running
<1>3. ASSUME NEW w \in Workers, UpdateWithRows(w)
      PROVE  UNCHANGED <<purging, lagging>> /\ checked' \in BOOLEAN
  BY <1>3 DEF UpdateWithRows, StorePost, AddTootRow, FinishUpdate
<1>4. CASE PurgeOldPosts \/ OtherPurge \/ UNCHANGED retentionVars
  BY <1>4 DEF PurgeOldPosts, EnterPurge, SkipPurge, FindCut, PurgePostsAndToots, EndPurge,
              OtherPurge, retentionVars
<1>5. CASE FailureWithRows
  BY <1>5 DEF FailureWithRows, PurgeFails, EndPurge
<1>6. CASE KeepRows
  BY <1>6
<1> HIDE DEF KeepRows
<1> QED
  BY <1>1, <1>2, <1>3, <1>4, <1>5, <1>6 DEF RetentionNext

LEMMA RetentionInitTypes == RetentionInit => RetentionTypeOK
  BY FeedUpdateAssumption
     DEF RetentionInit, RetentionTypeOK, TypeOK, Dates, NoItems, Workers, Loop, Background

LEMMA StepRetentionType ==
  ASSUME RetentionTypeOK, [RetentionNext]_retentionVars
  PROVE  RetentionTypeOK'
<1>1. CASE PurgePostsAndToots
  <2>1. stored' \subseteq Posts
    BY <1>1 DEF PurgePostsAndToots, DeletePosts, RetentionTypeOK, TypeOK
  <2>2. TypeOK'
    BY <1>1, <2>1 DEF PurgePostsAndToots, RetentionTypeOK, TypeOK, accountVars, workerVars, boundVars
  <2> QED BY <2>2, StepRowType, StepPostType, StepPaceType DEF RetentionTypeOK
<1>2. CASE PurgeFails
  <2>1. stored' \subseteq Posts
    BY <1>2 DEF PurgeFails, DeletePosts, RetentionTypeOK, TypeOK
  <2>2. TypeOK'
    BY <1>2, <2>1, FeedUpdateAssumption
       DEF PurgeFails, RetentionTypeOK, TypeOK, accountVars, workerVars
  <2> QED BY <2>2, StepRowType, StepPostType, StepPaceType DEF RetentionTypeOK
<1>3. CASE ~PurgePostsAndToots /\ ~PurgeFails
  <2>1. TypeOK'
    BY <1>3, StepOfFeedUpdate, StepType DEF RetentionTypeOK
  <2> QED BY <2>1, StepRowType, StepPostType, StepPaceType DEF RetentionTypeOK
<1> QED BY <1>1, <1>2, <1>3

\* Every variable of Retention keeps its type, and the posts that count as stored
\* are those with a row.
THEOREM RetentionTypeCorrect == RetentionSpec => []RetentionTypeOK
<1>1. RetentionInit => RetentionTypeOK
  BY RetentionInitTypes
<1>2. RetentionTypeOK /\ [RetentionNext]_retentionVars => RetentionTypeOK'
  BY StepRetentionType
<1> QED BY <1>1, <1>2, PTL DEF RetentionSpec

-----------------------------------------------------------------------------
(* What the purge may remove                                                  *)

LEMMA StepCut ==
  ASSUME RetentionTypeOK, CutIsSafe, [RetentionNext]_retentionVars
  PROVE  CutIsSafe'
<1>0. /\ tootRows \in Seq(Nat)
      /\ cut \in Nat
      /\ now \in Nat
      /\ MinCount \in Nat
      /\ MinAge \in Nat
  BY FeedUpdateAssumption, RetentionAssumption DEF RetentionTypeOK, TypeOK
<1> USE DEF CutIsSafe, OldEnough
<1>1. CASE Untouched /\ (now' = now \/ now' = now + 1)
  BY <1>0, <1>1 DEF Untouched
<1>2. ASSUME NEW w \in Workers, AddTootRow(w)
      PROVE  CutIsSafe'
  <2>1. tootRows' = Append(tootRows, now) /\ UNCHANGED <<now, purge, cut>>
    BY <1>2 DEF AddTootRow, AddToot, purgeVars
  <2>2. /\ Len(tootRows') = Len(tootRows) + 1
        /\ tootRows'[Len(tootRows) + 1] = now
        /\ \A i \in 1..Len(tootRows) : tootRows'[i] = tootRows[i]
    BY <1>0, <2>1
  <2>3. \A i \in 1..Len(tootRows') : tootRows'[i] <= now
    BY <1>0, <2>2
  <2>4. \A i, j \in 1..Len(tootRows') : i <= j => tootRows'[i] <= tootRows'[j]
    <3> SUFFICES ASSUME NEW i \in 1..Len(tootRows'), NEW j \in 1..Len(tootRows'), i <= j
                 PROVE  tootRows'[i] <= tootRows'[j]
      OBVIOUS
    <3>1. CASE j = Len(tootRows) + 1
      BY <1>0, <2>2, <2>3, <3>1
    <3>2. CASE j # Len(tootRows) + 1
      BY <1>0, <2>2, <3>2
    <3> QED BY <3>1, <3>2
  <2> QED BY <1>0, <2>1, <2>2, <2>3, <2>4
<1>3. ASSUME NEW w \in Workers, FinishUpdate(w)
      PROVE  CutIsSafe'
  <2>1. /\ UNCHANGED <<now, tootRows, cut>>
        /\ purge' = "delete" => purge = "delete"
    BY <1>3 DEF FinishUpdate, UpdateAccountFeedTimes, rowVars
  <2> QED BY <1>0, <2>1
<1>4. CASE EnterPurge \/ SkipPurge \/ PurgeFails
  BY <1>0, <1>4 DEF EnterPurge, SkipPurge, PurgeFails, EndPurge, vars, rowVars
<1>5. CASE FindCut
  <2>1. UNCHANGED <<now, tootRows>>
    BY <1>5 DEF FindCut, vars, rowVars
  <2>2. CASE purge' = "none"
    BY <1>0, <2>1, <2>2
  <2>3. CASE purge' # "none"
    <3>1. PICK i \in 1..Len(tootRows) : Removable(i) /\ cut' = i
      BY <1>5, <2>3 DEF FindCut, EndPurge
    <3>2. i > 0 /\ i + MinCount <= Len(tootRows) /\ now - tootRows[i] >= MinAge
      BY <1>0, <3>1 DEF Removable
    <3>3. CutIsSafe!1' /\ CutIsSafe!2'
      BY <1>0, <2>1
    <3>4. /\ cut' > 0
          /\ cut' + MinCount <= Len(tootRows')
          /\ OldEnough(cut)'
      BY <2>1, <3>1, <3>2
    <3> QED BY <3>3, <3>4
  <2> QED BY <2>2, <2>3
<1>6. CASE PurgePostsAndToots
  <2>1. /\ tootRows' = SubSeq(tootRows, cut + 1, Len(tootRows))
        /\ now' = now
        /\ purge' = "none"
        /\ cut + 1 \in 1..Len(tootRows) + 1
    BY <1>0, <1>6 DEF PurgePostsAndToots, EndPurge
  <2>2. /\ Len(tootRows') = Len(tootRows) - cut
        /\ \A i \in 1..Len(tootRows') : tootRows'[i] = tootRows[i + cut]
    BY <1>0, <2>1
  <2>3. \A i \in 1..Len(tootRows') : i + cut \in 1..Len(tootRows)
    BY <1>0, <2>2
  <2>4. \A i, j \in 1..Len(tootRows') : i <= j => tootRows'[i] <= tootRows'[j]
    <3> SUFFICES ASSUME NEW i \in 1..Len(tootRows'), NEW j \in 1..Len(tootRows'), i <= j
                 PROVE  tootRows'[i] <= tootRows'[j]
      OBVIOUS
    <3>1. i + cut <= j + cut
      BY <1>0, <2>2
    <3>2. tootRows[i + cut] <= tootRows[j + cut]
      BY <2>3, <3>1
    <3> QED BY <2>2, <3>2
  <2>5. \A i \in 1..Len(tootRows') : tootRows'[i] <= now'
    BY <2>1, <2>2, <2>3
  <2> QED BY <2>1, <2>4, <2>5
<1> QED
  BY <1>1, <1>2, <1>3, <1>4, <1>5, <1>6, StepRows

\* The cut the purge holds stays beyond the MinCount newest toots and old enough.
THEOREM CutStaysSafe == RetentionSpec => []CutIsSafe
<1>1. RetentionInit => CutIsSafe
  BY DEF RetentionInit, CutIsSafe
<1>2. RetentionTypeOK /\ CutIsSafe /\ [RetentionNext]_retentionVars => CutIsSafe'
  BY StepCut
<1> QED BY <1>1, <1>2, RetentionTypeCorrect, PTL DEF RetentionSpec

LEMMA StepKeepsNewest ==
  ASSUME RetentionTypeOK, CutIsSafe, [RetentionNext]_retentionVars
  PROVE  Gone > 0 =>
           /\ Len(tootRows') >= MinCount
           /\ tootRows' = SubSeq(tootRows, Gone + 1, Len(tootRows))
           /\ \A i \in 1..Gone : now - tootRows[i] >= MinAge
<1>0. /\ tootRows \in Seq(Nat)
      /\ cut \in Nat
      /\ now \in Nat
      /\ MinCount \in Nat
      /\ MinAge \in Nat
  BY FeedUpdateAssumption, RetentionAssumption DEF RetentionTypeOK, TypeOK
<1>1. CASE tootRows' = tootRows
  BY <1>0, <1>1 DEF Gone
<1>2. ASSUME NEW w \in Workers, AddTootRow(w)
      PROVE  ~(Gone > 0)
  BY <1>0, <1>2 DEF AddTootRow, Gone
<1>3. CASE PurgePostsAndToots
  <2>1. /\ tootRows' = SubSeq(tootRows, cut + 1, Len(tootRows))
        /\ cut + MinCount <= Len(tootRows)
        /\ now - tootRows[cut] >= MinAge
        /\ cut \in 1..Len(tootRows)
    BY <1>0, <1>3 DEF PurgePostsAndToots, CutIsSafe, OldEnough
  <2>2. Len(tootRows') = Len(tootRows) - cut
    BY <1>0, <2>1
  <2>3. Gone = cut
    BY <1>0, <2>2 DEF Gone
  <2>4. ASSUME NEW i \in 1..cut
        PROVE  now - tootRows[i] >= MinAge
    <3>1. i \in 1..Len(tootRows) /\ i <= cut
      BY <1>0, <2>1
    <3>2. tootRows[i] <= tootRows[cut]
      BY <2>1, <3>1 DEF CutIsSafe
    <3>3. tootRows[i] \in Nat /\ tootRows[cut] \in Nat
      BY <1>0, <2>1, <3>1
    <3>4. now - tootRows[cut] >= MinAge
      BY <2>1
    <3> HIDE DEF CutIsSafe
    <3> QED BY <1>0, <3>2, <3>3, <3>4
  <2> QED BY <1>0, <2>1, <2>2, <2>3, <2>4
<1>4. CASE \/ Untouched
           \/ EnterPurge \/ SkipPurge \/ FindCut \/ PurgeFails
           \/ \E w \in Workers : FinishUpdate(w)
  <2>1. tootRows' = tootRows
    BY <1>4 DEF Untouched, EnterPurge, SkipPurge, FindCut, PurgeFails, FinishUpdate, rowVars
  <2> QED BY <1>1, <2>1
<1> QED
  BY <1>2, <1>3, <1>4, StepRows

\* Whatever is tooted while a purge is under way, the purge removes only toots
\* older than MinAge days, oldest first, and leaves the MinCount newest.
THEOREM PurgeKeepsNewest == RetentionSpec => KeepsNewest
<1>1. RetentionTypeOK /\ CutIsSafe /\ [RetentionNext]_retentionVars =>
        [Gone > 0 =>
           /\ Len(tootRows') >= MinCount
           /\ tootRows' = SubSeq(tootRows, Gone + 1, Len(tootRows))
           /\ \A i \in 1..Gone : now - tootRows[i] >= MinAge]_retentionVars
  BY StepKeepsNewest
<1> QED
  BY <1>1, RetentionTypeCorrect, CutStaysSafe, PTL DEF RetentionSpec, KeepsNewest

-----------------------------------------------------------------------------
(* What keeps a purged post from being stored again                           *)

\* Past GetFeedLastUpdated; before it a goroutine HoldsCopy of the feed.
PastMark == {w \in Workers : pc[w] \in {"store", "toot", "enqueue"}}

\* The day on which an update under way has begun, and the last day on which the
\* loop has finished a check, if it makes one a day.
Began(w) == IF w \in lagging THEN now - 1 ELSE now
LastRound == IF checked THEN now ELSE now - 1

\* The account exists from the start, so there is no background job, and a
\* mention that has not begun does not lag.
NoNewAccount ==
  /\ scheduled # "none"
  /\ pc[Background] = "done"
  /\ \A m \in Mentions : pc[m] # "created" /\ (pc[m] = "idle" => m \notin lagging)

DatesPast ==
  /\ \A p \in Posts : feed[p] <= now
  /\ \A w \in Workers, p \in Posts :
       items[w][p] <= now /\ (items[w][p] > 0 => w \in HoldsCopy \cup PastMark)

\* The mark, and what a goroutine is about to make of it, has passed all that was
\* in the feed before the check it comes from.
MarkKeepsUp ==
  /\ \A p \in Posts : feed[p] <= LastRound - 2 => feed[p] <= mark
  /\ \A w \in PastMark, p \in Posts : feed[p] < Began(w) => feed[p] <= newMark[w]

\* A copy of the feed is right about all that is older than itself, and the mark,
\* also one that another goroutine is about to write, has passed what is more than
\* two days older than the copy.
CopiesKeepUp ==
  /\ \A w \in HoldsCopy, p \in Posts : feed[p] < Began(w) => items[w][p] = feed[p]
  /\ \A w \in HoldsCopy, p \in Posts : items[w][p] <= Began(w) - 3 => items[w][p] <= mark
  /\ \A v \in PastMark, w \in HoldsCopy, p \in Posts :
       items[w][p] <= Began(w) - 3 => items[w][p] <= newMark[v]

\* So a goroutine that has read the mark has nothing old left to do.
KeepersRecent ==
  \A w \in PastMark, p \in Posts : items[w][p] > 0 => items[w][p] > Began(w) - 3

\* A post without a row was dated at least four days ago, if it ever had one.
GoneLongAgo ==
  \A p \in Posts :
    /\ p \in stored => known[p] = postTime[p]
    /\ p \notin stored => known[p] = 0 \/ known[p] + 4 <= now

PaceInv == NoNewAccount /\ DatesPast /\ MarkKeepsUp /\ CopiesKeepUp /\ KeepersRecent
RedateInv == PaceInv /\ GoneLongAgo

Numbers ==
  /\ now \in Nat
  /\ mark \in Nat
  /\ feed \in [Posts -> Nat]
  /\ pc = [w \in Workers |-> pc[w]]
  /\ items \in [Workers -> [Posts -> Nat]]
  /\ newMark \in [Workers -> Nat]
  /\ lagging \subseteq Workers
  /\ checked \in BOOLEAN
  /\ known \in [Posts -> Nat]
  /\ postTime \in [Posts -> Nat]

LEMMA TypesAreNumbers == RetentionTypeOK => Numbers
<1> SUFFICES ASSUME RetentionTypeOK PROVE Numbers
  OBVIOUS
<1>1. Dates \subseteq Nat /\ now \in Nat
  BY FeedUpdateAssumption DEF RetentionTypeOK, TypeOK, Dates
<1>2. pc = [w \in Workers |-> pc[w]]
  BY DEF RetentionTypeOK, TypeOK
<1>3. items \in [Workers -> [Posts -> Nat]]
  <2>1. [Posts -> Dates] \subseteq [Posts -> Nat]
    BY <1>1
  <2> QED BY <2>1 DEF RetentionTypeOK, TypeOK
<1> QED BY <1>1, <1>2, <1>3 DEF RetentionTypeOK, TypeOK, Numbers

LEMMA InitRedate == RetentionInit => RedateInv
  BY FeedUpdateAssumption
     DEF RetentionInit, RedateInv, PaceInv, NoNewAccount, DatesPast, MarkKeepsUp, CopiesKeepUp,
         KeepersRecent, GoneLongAgo, PastMark, HoldsCopy, Began, LastRound, NoItems,
         Workers, Loop, Background

\* What the pace is made of.
Pace == <<now, feed, scheduled, mark, workerVars, paceVars>>

LEMMA SamePace ==
  ASSUME PaceInv, UNCHANGED Pace
  PROVE  PaceInv'
  BY DEF Pace, PaceInv, NoNewAccount, DatesPast, MarkKeepsUp, CopiesKeepUp, KeepersRecent,
         PastMark, HoldsCopy, Began, LastRound, paceVars, workerVars

\* A goroutine stops, or moves on with what it has: the others do not notice.
LEMMA PaceAfterMove ==
  ASSUME Numbers, PaceInv, NEW w \in Workers,
         UNCHANGED <<now, feed, lagging>>,
         NEW place \in {"idle", "done", "failed", "store", "toot", "enqueue"},
         pc' = [pc EXCEPT ![w] = place],
         place \in {"store", "toot", "enqueue"} => w \in PastMark /\ UNCHANGED newMark,
         w = Background => place = "done",
         w # Loop => place # "idle",
         \A v \in Workers : v # w => items'[v] = items[v] /\ newMark'[v] = newMark[v],
         \A p \in Posts : items'[w][p] = 0 \/ (items'[w][p] = items[w][p] /\ place \in {"store", "toot", "enqueue"}),
         scheduled' # "none",
         \/ UNCHANGED <<mark, checked>>
         \/ w \in PastMark /\ mark' = newMark[w] /\ UNCHANGED checked
         \/ w \in PastMark /\ mark' = newMark[w] /\ checked' = TRUE /\ w = Loop
  PROVE  PaceInv'
<1>1. \A v \in Workers : v \in HoldsCopy' => v \in HoldsCopy /\ v # w /\ Began(v)' = Began(v)
  BY DEF HoldsCopy, Began, Numbers
<1>2. \A v \in Workers : v \in PastMark' => v \in PastMark /\ newMark'[v] = newMark[v] /\ Began(v)' = Began(v)
  BY DEF PastMark, Began, Numbers
<1>3. NoNewAccount'
  BY FeedUpdateAssumption DEF NoNewAccount, PaceInv, Numbers, Workers, Loop, Background
<1>4. DatesPast'
  <2> SUFFICES ASSUME NEW v \in Workers, NEW p \in Posts
               PROVE  items'[v][p] <= now /\ (items'[v][p] > 0 => v \in HoldsCopy' \cup PastMark')
    BY DEF DatesPast, PaceInv
  <2>1. CASE v = w
    BY <2>1 DEF DatesPast, PaceInv, Numbers, PastMark
  <2>2. CASE v # w
    BY <2>2 DEF DatesPast, PaceInv, Numbers, PastMark, HoldsCopy
  <2> QED BY <2>1, <2>2
<1>5. MarkKeepsUp'
  <2>1. ASSUME NEW p \in Posts, feed[p] <= LastRound' - 2
        PROVE  feed[p] <= mark'
    <3>1. CASE UNCHANGED <<mark, checked>>
      BY <2>1, <3>1 DEF PaceInv, MarkKeepsUp, LastRound
    <3>2. CASE w \in PastMark /\ mark' = newMark[w]
      <4>1. feed[p] <= now - 2
        BY <2>1 DEF LastRound, Numbers
      <4>2. feed[p] < Began(w)
        BY <4>1 DEF Began, Numbers
      <4> QED BY <3>2, <4>2 DEF PaceInv, MarkKeepsUp
    <3> QED BY <3>1, <3>2
  <2>2. ASSUME NEW v \in PastMark', NEW p \in Posts, feed[p] < Began(v)'
        PROVE  feed[p] <= newMark'[v]
    BY <1>2, <2>2 DEF PaceInv, MarkKeepsUp, PastMark
  <2> QED BY <2>1, <2>2 DEF MarkKeepsUp
<1>6. CopiesKeepUp'
  <2>1. ASSUME NEW v \in HoldsCopy', NEW p \in Posts
        PROVE  /\ feed[p] < Began(v)' => items'[v][p] = feed[p]
               /\ items'[v][p] <= Began(v)' - 3 => items'[v][p] <= mark'
    <3>1. v \in Workers /\ v \in HoldsCopy /\ v # w /\ Began(v)' = Began(v) /\ items'[v] = items[v]
      BY <1>1 DEF HoldsCopy
    <3> QED BY <3>1 DEF PaceInv, CopiesKeepUp
  <2>2. ASSUME NEW u \in PastMark', NEW v \in HoldsCopy', NEW p \in Posts, items'[v][p] <= Began(v)' - 3
        PROVE  items'[v][p] <= newMark'[u]
    <3>1. v \in Workers /\ v \in HoldsCopy /\ v # w /\ Began(v)' = Began(v) /\ items'[v] = items[v]
      BY <1>1 DEF HoldsCopy
    <3>2. u \in PastMark /\ newMark'[u] = newMark[u]
      BY <1>2 DEF PastMark
    <3> QED BY <2>2, <3>1, <3>2 DEF PaceInv, CopiesKeepUp
  <2> QED BY <2>1, <2>2 DEF CopiesKeepUp
<1>7. KeepersRecent'
  <2> SUFFICES ASSUME NEW v \in PastMark', NEW p \in Posts, items'[v][p] > 0
               PROVE  items'[v][p] > Began(v)' - 3
    BY DEF KeepersRecent
  <2>1. v \in Workers /\ v \in PastMark /\ Began(v)' = Began(v)
    BY <1>2 DEF PastMark
  <2>2. items'[v][p] = items[v][p]
    BY <2>1
  <2> QED BY <2>1, <2>2 DEF PaceInv, KeepersRecent
<1> QED BY <1>3, <1>4, <1>5, <1>6, <1>7 DEF PaceInv

\* A goroutine that takes a copy of the feed has all that the mark might miss.
LEMMA PaceAfterCopy ==
  ASSUME Numbers, PaceInv, NEW w \in Workers, w # Background, w \notin lagging',
         UNCHANGED <<now, feed, mark, scheduled, newMark, checked>>,
         \A v \in Workers : v # w => (v \in lagging' <=> v \in lagging),
         NEW place \in {"add", "mark"},
         pc' = [pc EXCEPT ![w] = place],
         items' = [items EXCEPT ![w] = feed]
  PROVE  PaceInv'
<1>0. /\ w \in HoldsCopy' /\ w \notin PastMark' /\ Began(w)' = now /\ items'[w] = feed
      /\ \A v \in Workers : v # w => /\ v \in HoldsCopy' <=> v \in HoldsCopy
                                     /\ v \in PastMark' <=> v \in PastMark
                                     /\ Began(v)' = Began(v)
                                     /\ items'[v] = items[v]
  BY DEF HoldsCopy, PastMark, Began, Numbers
<1>1. NoNewAccount'
  BY FeedUpdateAssumption DEF NoNewAccount, PaceInv, Numbers, Workers, Loop, Background
<1>2. DatesPast'
  <2> SUFFICES ASSUME NEW v \in Workers, NEW p \in Posts
               PROVE  items'[v][p] <= now /\ (items'[v][p] > 0 => v \in HoldsCopy' \cup PastMark')
    BY DEF DatesPast, PaceInv
  <2> QED BY <1>0 DEF DatesPast, PaceInv
<1>3. MarkKeepsUp'
  <2>1. ASSUME NEW p \in Posts, feed[p] <= LastRound' - 2
        PROVE  feed[p] <= mark
    BY <2>1 DEF PaceInv, MarkKeepsUp, LastRound
  <2>2. ASSUME NEW v \in PastMark', NEW p \in Posts, feed[p] < Began(v)'
        PROVE  feed[p] <= newMark[v]
    <3>1. v \in Workers
      BY DEF PastMark
    <3> QED BY <1>0, <2>2, <3>1 DEF PaceInv, MarkKeepsUp
  <2> QED BY <2>1, <2>2 DEF MarkKeepsUp
<1>4. \A p \in Posts : feed[p] <= now - 3 => feed[p] <= mark
  BY DEF PaceInv, MarkKeepsUp, LastRound, Numbers
<1>5. \A v \in PastMark, p \in Posts : feed[p] <= now - 3 => feed[p] <= newMark[v]
  <2> SUFFICES ASSUME NEW v \in PastMark, NEW p \in Posts, feed[p] <= now - 3
               PROVE  feed[p] <= newMark[v]
    OBVIOUS
  <2>1. feed[p] < Began(v)
    BY DEF Began, Numbers
  <2> QED BY <2>1 DEF PaceInv, MarkKeepsUp
<1>6. CopiesKeepUp'
  <2>1. ASSUME NEW v \in HoldsCopy', NEW p \in Posts
        PROVE  /\ feed[p] < Began(v)' => items'[v][p] = feed[p]
               /\ items'[v][p] <= Began(v)' - 3 => items'[v][p] <= mark
    <3>1. CASE v = w
      BY <1>0, <1>4, <3>1
    <3>2. CASE v # w
      <4>1. v \in Workers
        BY DEF HoldsCopy
      <4> QED BY <1>0, <3>2, <4>1 DEF PaceInv, CopiesKeepUp
    <3> QED BY <3>1, <3>2
  <2>2. ASSUME NEW u \in PastMark', NEW v \in HoldsCopy', NEW p \in Posts, items'[v][p] <= Began(v)' - 3
        PROVE  items'[v][p] <= newMark[u]
    <3>1. v \in Workers /\ u \in PastMark
      BY <1>0 DEF HoldsCopy, PastMark
    <3>2. CASE v = w
      BY <1>0, <1>5, <2>2, <3>1, <3>2
    <3>3. CASE v # w
      BY <1>0, <2>2, <3>1, <3>3 DEF PaceInv, CopiesKeepUp
    <3> QED BY <3>2, <3>3
  <2> QED BY <2>1, <2>2 DEF CopiesKeepUp
<1>7. KeepersRecent'
  <2> SUFFICES ASSUME NEW v \in PastMark', NEW p \in Posts, items'[v][p] > 0
               PROVE  items'[v][p] > Began(v)' - 3
    BY DEF KeepersRecent
  <2>1. v \in Workers /\ v # w
    BY <1>0 DEF PastMark
  <2> QED BY <1>0, <2>1 DEF PaceInv, KeepersRecent
<1> QED BY <1>1, <1>2, <1>3, <1>6, <1>7 DEF PaceInv

\* What is read of the mark is above all that a copy had to keep.
LEMMA PaceAfterReadMark ==
  ASSUME Numbers, Numbers', PaceInv, NEW w \in Workers, ReadMark(w), KeepRows
  PROVE  PaceInv'
<1>0. /\ w \in HoldsCopy /\ w \notin PastMark /\ w \in PastMark' /\ w \notin HoldsCopy'
      /\ Began(w)' = Began(w)
      /\ \A v \in Workers : v # w => /\ v \in HoldsCopy' <=> v \in HoldsCopy
                                     /\ v \in PastMark' <=> v \in PastMark
                                     /\ Began(v)' = Began(v)
                                     /\ items'[v] = items[v]
                                     /\ newMark'[v] = newMark[v]
      /\ UNCHANGED <<now, feed, mark, scheduled, checked, lagging>>
  BY DEF ReadMark, GoTo, KeepRows, paceVars, HoldsCopy, PastMark, Began, Numbers, accountVars
<1>1. NoNewAccount'
  BY FeedUpdateAssumption
     DEF ReadMark, GoTo, KeepRows, paceVars, NoNewAccount, PaceInv, Numbers, accountVars,
         Workers, Loop, Background
<1>2. /\ mark <= newMark'[w]
      /\ \A p \in Posts : Keeper(items[w][p]) => items[w][p] <= newMark'[w] /\ items'[w][p] = items[w][p]
      /\ \A p \in Posts : ~Keeper(items[w][p]) => items'[w][p] = 0
  BY DEF ReadMark, NewLastUpdated, Keepers, Numbers
<1>3. \A p \in Posts : Keeper(items[w][p]) <=> items[w][p] > mark
  BY FeedUpdateAssumption DEF Keeper, PaceInv, DatesPast, Numbers
<1>4. \A p \in Posts : items[w][p] <= newMark'[w]
  BY <1>2, <1>3 DEF Numbers
<1>5. DatesPast'
  <2> SUFFICES ASSUME NEW v \in Workers, NEW p \in Posts
               PROVE  items'[v][p] <= now /\ (items'[v][p] > 0 => v \in HoldsCopy' \cup PastMark')
    BY <1>0 DEF DatesPast, PaceInv
  <2>1. CASE v = w
    BY <1>0, <1>2, <2>1 DEF DatesPast, PaceInv, Numbers
  <2>2. CASE v # w
    BY <1>0, <2>2 DEF DatesPast, PaceInv
  <2> QED BY <2>1, <2>2
<1>6. MarkKeepsUp'
  <2>1. ASSUME NEW p \in Posts, feed[p] <= LastRound' - 2
        PROVE  feed[p] <= mark
    BY <1>0, <2>1 DEF PaceInv, MarkKeepsUp, LastRound
  <2>2. ASSUME NEW v \in PastMark', NEW p \in Posts, feed[p] < Began(v)'
        PROVE  feed[p] <= newMark'[v]
    <3>1. v \in Workers
      BY DEF PastMark
    <3>2. CASE v = w
      <4>1. items[w][p] = feed[p]
        BY <1>0, <2>2, <3>2 DEF PaceInv, CopiesKeepUp
      <4> QED BY <1>4, <3>2, <4>1
    <3>3. CASE v # w
      BY <1>0, <2>2, <3>1, <3>3 DEF PaceInv, MarkKeepsUp
    <3> QED BY <3>2, <3>3
  <2> QED BY <1>0, <2>1, <2>2 DEF MarkKeepsUp
<1>7. CopiesKeepUp'
  <2>1. ASSUME NEW v \in HoldsCopy', NEW p \in Posts
        PROVE  /\ feed[p] < Began(v)' => items'[v][p] = feed[p]
               /\ items'[v][p] <= Began(v)' - 3 => items'[v][p] <= mark
    <3>1. v \in Workers /\ v # w
      BY <1>0 DEF HoldsCopy
    <3> QED BY <1>0, <3>1 DEF PaceInv, CopiesKeepUp
  <2>2. ASSUME NEW u \in PastMark', NEW v \in HoldsCopy', NEW p \in Posts, items'[v][p] <= Began(v)' - 3
        PROVE  items'[v][p] <= newMark'[u]
    <3>1. /\ v \in Workers /\ u \in Workers /\ v # w /\ v \in HoldsCopy
          /\ items'[v][p] = items[v][p] /\ Began(v)' = Began(v)
      BY <1>0 DEF HoldsCopy, PastMark
    <3>2. CASE u = w
      <4>1. items[v][p] <= mark
        BY <2>2, <3>1 DEF PaceInv, CopiesKeepUp
      <4>2. items[v][p] \in Nat /\ mark \in Nat /\ newMark'[w] \in Nat
        BY <3>1 DEF Numbers
      <4> QED BY <1>2, <3>1, <3>2, <4>1, <4>2
    <3>3. CASE u # w
      BY <1>0, <2>2, <3>1, <3>3 DEF PaceInv, CopiesKeepUp
    <3> QED BY <3>2, <3>3
  <2> QED BY <1>0, <2>1, <2>2 DEF CopiesKeepUp
<1>8. KeepersRecent'
  <2> SUFFICES ASSUME NEW v \in PastMark', NEW p \in Posts, items'[v][p] > 0
               PROVE  items'[v][p] > Began(v)' - 3
    BY DEF KeepersRecent
  <2>0. v \in Workers
    BY DEF PastMark
  <2>1. CASE v = w
    <3>1. items'[w][p] = items[w][p] /\ items[w][p] > mark
      BY <1>2, <1>3, <2>1
    <3>2. items[w][p] \in Nat /\ mark \in Nat /\ Began(w) \in Int
      BY DEF Numbers, Began
    <3>3. items[w][p] <= Began(w) - 3 => items[w][p] <= mark
      BY <1>0 DEF PaceInv, CopiesKeepUp
    <3> QED BY <1>0, <2>1, <3>1, <3>2, <3>3
  <2>2. CASE v # w
    BY <1>0, <2>0, <2>2 DEF PaceInv, KeepersRecent
  <2> QED BY <2>1, <2>2
<1> QED BY <1>1, <1>5, <1>6, <1>7, <1>8 DEF PaceInv

LEMMA PaceAfterNextDay ==
  ASSUME Numbers, PaceInv, NextDay
  PROVE  PaceInv'
<1>0. /\ now' = now + 1
      /\ LastRound' = now /\ LastRound = now
      /\ UNCHANGED <<feed, mark, scheduled, pc, items, newMark>>
      /\ HoldsCopy' = HoldsCopy /\ PastMark' = PastMark
      /\ HoldsCopy \subseteq Workers /\ PastMark \subseteq Workers
  BY DEF NextDay, Tick, LastRound, HoldsCopy, PastMark, accountVars, workerVars, Numbers
<1>1. ASSUME NEW w \in HoldsCopy \cup PastMark
      PROVE  Began(w)' = Began(w)
  <2>1. w \in Running
    BY DEF Running, Busy, HoldsCopy, PastMark
  <2>2. w \notin lagging /\ w \in lagging'
    BY <2>1 DEF NextDay
  <2> QED BY <1>0, <2>2 DEF Began, Numbers
<1>2. NoNewAccount'
  BY <1>0 DEF NextDay, Running, Busy, NoNewAccount, PaceInv
<1>3. DatesPast'
  BY <1>0 DEF DatesPast, PaceInv, Numbers
<1>4. MarkKeepsUp'
  BY <1>0, <1>1 DEF MarkKeepsUp, PaceInv
<1>5. CopiesKeepUp'
  BY <1>0, <1>1 DEF CopiesKeepUp, PaceInv
<1>6. KeepersRecent'
  BY <1>0, <1>1 DEF KeepersRecent, PaceInv
<1> QED BY <1>2, <1>3, <1>4, <1>5, <1>6 DEF PaceInv

LEMMA PaceAfterPublish ==
  ASSUME Numbers, PaceInv, NEW p \in Posts, PublishToday(p)
  PROVE  PaceInv'
<1>0. /\ feed' = [feed EXCEPT ![p] = now]
      /\ UNCHANGED <<now, mark, scheduled, pc, items, newMark, checked, lagging>>
      /\ \A w \in Workers : Began(w)' = Began(w) /\ Began(w) <= now /\ Began(w) \in Int
      /\ LastRound' = LastRound /\ LastRound <= now /\ LastRound \in Int
      /\ HoldsCopy' = HoldsCopy /\ PastMark' = PastMark
      /\ HoldsCopy \subseteq Workers /\ PastMark \subseteq Workers
  BY DEF PublishToday, Publish, paceVars, accountVars, workerVars, Began, LastRound, HoldsCopy,
         PastMark, Numbers
<1>1. \A q \in Posts : feed'[q] = feed[q] \/ feed'[q] = now
  BY <1>0 DEF Numbers
<1>2. NoNewAccount' /\ DatesPast' /\ KeepersRecent'
  BY <1>0, <1>1 DEF NoNewAccount, DatesPast, KeepersRecent, PaceInv, Numbers
<1>3. MarkKeepsUp'
  BY <1>0, <1>1 DEF MarkKeepsUp, PaceInv, Numbers
<1>4. CopiesKeepUp'
  <2>1. ASSUME NEW w \in HoldsCopy, NEW q \in Posts, feed'[q] < Began(w)
        PROVE  items[w][q] = feed'[q]
    <3>1. feed'[q] = feed[q]
      BY <1>0, <1>1, <2>1 DEF Numbers
    <3> QED BY <2>1, <3>1 DEF CopiesKeepUp, PaceInv
  <2> QED BY <1>0, <2>1 DEF CopiesKeepUp, PaceInv
<1> QED BY <1>2, <1>3, <1>4 DEF PaceInv

LEMMA StepPace ==
  ASSUME RetentionTypeOK, Numbers, Numbers', PaceInv, [RetentionNext]_retentionVars
  PROVE  PaceInv'
<1>1. ASSUME NEW p \in Posts, PublishToday(p)
      PROVE  PaceInv'
  BY <1>1, PaceAfterPublish
<1>2. CASE NextDay
  BY <1>2, PaceAfterNextDay
<1>3. CASE CheckDueToday
  BY <1>3 DEF CheckDueToday, BecomeDue, paceVars, workerVars, PaceInv, NoNewAccount, DatesPast,
              MarkKeepsUp, CopiesKeepUp, KeepersRecent, PastMark, HoldsCopy, Began, LastRound
<1>4. CASE StartCheck /\ CheckDueFeed
  BY <1>4, FeedUpdateAssumption, PaceAfterCopy
     DEF StartCheck, CheckDueFeed, TakeFeed, GoTo, accountVars, Workers, Loop, Background
<1>5. CASE StartCheck /\ FetchFails
  <2>1. /\ pc' = [pc EXCEPT ![Loop] = "failed"]
        /\ lagging' = lagging \ {Loop}
        /\ pc[Loop] = "idle"
        /\ UNCHANGED <<now, feed, scheduled, mark, items, newMark, checked>>
    BY <1>5 DEF StartCheck, FetchFails, GoTo, accountVars
  <2>2. /\ HoldsCopy' = HoldsCopy /\ PastMark' = PastMark
        /\ \A w \in HoldsCopy \cup PastMark : w \in Workers /\ Began(w)' = Began(w)
        /\ LastRound' = LastRound
    BY <2>1 DEF HoldsCopy, PastMark, Began, LastRound, Numbers
  <2>3. NoNewAccount'
    BY <2>1, FeedUpdateAssumption DEF NoNewAccount, PaceInv, Numbers, Workers, Loop, Background
  <2> QED BY <2>1, <2>2, <2>3 DEF PaceInv, DatesPast, MarkKeepsUp, CopiesKeepUp, KeepersRecent
<1>6. CASE RecordFeedCheckError /\ KeepRows
  <2>1. /\ pc' = [pc EXCEPT ![Loop] = "idle"] /\ pc[Loop] = "failed"
        /\ scheduled' # "none"
        /\ UNCHANGED <<now, feed, mark, items, newMark, lagging, checked>>
    BY <1>6 DEF RecordFeedCheckError, GoTo, KeepRows, paceVars, PaceInv, NoNewAccount
  <2>2. HoldsCopy' = HoldsCopy /\ PastMark' = PastMark
    BY <2>1 DEF HoldsCopy, PastMark, Numbers
  <2>3. NoNewAccount'
    BY <2>1, FeedUpdateAssumption DEF NoNewAccount, PaceInv, Numbers, Workers, Loop, Background
  <2> QED BY <2>1, <2>2, <2>3
          DEF PaceInv, DatesPast, MarkKeepsUp, CopiesKeepUp, KeepersRecent, Began, LastRound
<1>7. ASSUME NEW m \in Mentions, RequestFeed(m), KeepRows
      PROVE  PaceInv'
  <2>1. m \in Workers /\ m # Background /\ m \notin lagging'
    BY <1>7, FeedUpdateAssumption
       DEF RequestFeed, KeepRows, paceVars, PaceInv, NoNewAccount, Workers, Background
  <2> QED BY <1>7, <2>1, PaceAfterCopy
          DEF RequestFeed, TakeFeed, GoTo, KeepRows, paceVars, accountVars
<1>8. ASSUME NEW m \in Mentions, AddAccountIfNotExist(m) \/ UseExisting(m), KeepRows
      PROVE  PaceInv'
  <2>1. /\ m \in HoldsCopy /\ m \in Workers
        /\ \E place \in {"existing", "mark"} : pc' = [pc EXCEPT ![m] = place]
        /\ UNCHANGED <<now, feed, scheduled, mark, items, newMark, lagging, checked>>
    BY <1>8 DEF AddAccountIfNotExist, UseExisting, GoTo, KeepRows, paceVars, accountVars,
                HoldsCopy, Workers, PaceInv, NoNewAccount
  <2>2. HoldsCopy' = HoldsCopy /\ PastMark' = PastMark
    BY <2>1 DEF HoldsCopy, PastMark, Numbers
  <2>3. NoNewAccount'
    BY <2>1, FeedUpdateAssumption DEF NoNewAccount, PaceInv, Numbers, Workers, Loop, Background
  <2> QED BY <2>1, <2>2, <2>3
          DEF PaceInv, DatesPast, MarkKeepsUp, CopiesKeepUp, KeepersRecent, Began, LastRound
<1>9. ASSUME NEW m \in Mentions, StartBackground(m)
      PROVE  FALSE
  BY <1>9 DEF StartBackground, PaceInv, NoNewAccount
<1>10. ASSUME NEW w \in Workers, ReadMark(w), KeepRows
       PROVE  PaceInv'
  BY <1>10, PaceAfterReadMark
<1>11. ASSUME NEW w \in Workers, w = Background,
              UpdateWithRows(w) \/ StepFails(w)
       PROVE  FALSE
  BY <1>11 DEF UpdateWithRows, ReadMark, StorePost, StorePostIfNew, AddTootRow, AddToot,
               EnqueueBroadcast, FinishUpdate, UpdateAccountFeedTimes, StepFails, Busy,
               PaceInv, NoNewAccount
<1>12. ASSUME NEW w \in Workers, w # Background, NEW p \in Posts, StorePost(w, p)
       PROVE  PaceInv'
  <2>0. /\ UNCHANGED <<now, feed, scheduled, mark, newMark, checked, lagging>>
        /\ items' = [items EXCEPT ![w][p] = 0]
        /\ w \in PastMark
    BY <1>12 DEF StorePost, StorePostIfNew, paceVars, accountVars, PastMark
  <2>1. PICK place \in {"store", "toot"} : pc' = [pc EXCEPT ![w] = place]
    <3>1. CASE p \in stored
      <4>1. pc' = [pc EXCEPT ![w] = "store"]
        BY <1>12, <3>1 DEF StorePost, StorePostIfNew, Numbers
      <4> QED BY <4>1
    <3>2. CASE p \notin stored
      BY <1>12, <3>2 DEF StorePost, StorePostIfNew, GoTo
    <3> QED BY <3>1, <3>2
  <2>2. /\ \A v \in Workers : v # w => items'[v] = items[v]
        /\ \A q \in Posts : items'[w][q] = 0 \/ items'[w][q] = items[w][q]
    BY <2>0 DEF Numbers
  <2>3. scheduled' # "none"
    BY <2>0 DEF PaceInv, NoNewAccount
  <2> QED BY <1>12, <2>0, <2>1, <2>2, <2>3, PaceAfterMove
<1>13. ASSUME NEW w \in Workers, w # Background,
              AddTootRow(w) \/ (EnqueueBroadcast(w) /\ KeepRows)
       PROVE  PaceInv'
  <2>0. /\ UNCHANGED <<now, feed, scheduled, mark, items, newMark, checked, lagging>>
        /\ w \in PastMark
        /\ scheduled' # "none"
    BY <1>13 DEF AddTootRow, AddToot, EnqueueBroadcast, KeepRows, paceVars, accountVars, PastMark,
                 PaceInv, NoNewAccount
  <2>1. PICK place \in {"store", "enqueue"} : pc' = [pc EXCEPT ![w] = place]
    BY <1>13 DEF AddTootRow, AddToot, EnqueueBroadcast, GoTo
  <2> QED BY <1>13, <2>0, <2>1, PaceAfterMove
<1>14. ASSUME NEW w \in Workers, w # Background, FinishUpdate(w)
       PROVE  PaceInv'
  <2>0. /\ UNCHANGED <<now, feed, lagging>>
        /\ w \in PastMark
        /\ scheduled' # "none"
        /\ mark' = newMark[w]
        /\ UNCHANGED checked \/ (checked' = TRUE /\ w = Loop)
    BY <1>14 DEF FinishUpdate, UpdateAccountFeedTimes, PastMark
  <2>1. /\ items' = [items EXCEPT ![w] = NoItems]
        /\ newMark' = [newMark EXCEPT ![w] = 0]
        /\ pc' = [pc EXCEPT ![w] = AfterSuccess(w)]
    BY <1>14 DEF FinishUpdate, UpdateAccountFeedTimes, Leave, GoTo
  <2>2. /\ \A v \in Workers : v # w => items'[v] = items[v] /\ newMark'[v] = newMark[v]
        /\ \A q \in Posts : items'[w][q] = 0
    BY <2>1 DEF Numbers, NoItems
  <2>3. AfterSuccess(w) \in {"idle", "done"} /\ (w # Loop => AfterSuccess(w) # "idle")
    BY DEF AfterSuccess
  <2> QED BY <1>14, <2>0, <2>1, <2>2, <2>3, PaceAfterMove
<1>15. ASSUME NEW w \in Workers, w # Background,
              \/ StepFails(w) /\ KeepRows
              \/ w = Loop /\ LoopPanics /\ KeepRows
       PROVE  PaceInv'
  <2>0. /\ UNCHANGED <<now, feed, lagging, mark, checked>>
        /\ scheduled' # "none"
    BY <1>15 DEF StepFails, LoopPanics, KeepRows, paceVars, accountVars, PaceInv, NoNewAccount
  <2>1. PICK place \in {"idle", "done", "failed"} :
          Leave(w, place) /\ (w # Loop => place # "idle")
    BY <1>15 DEF StepFails, LoopPanics, AfterError, Loop
  <2>2. /\ \A v \in Workers : v # w => items'[v] = items[v] /\ newMark'[v] = newMark[v]
        /\ \A q \in Posts : items'[w][q] = 0
        /\ pc' = [pc EXCEPT ![w] = place]
    BY <2>1 DEF Numbers, NoItems, Leave, GoTo
  <2> QED BY <1>15, <2>0, <2>1, <2>2, PaceAfterMove
<1>16. CASE \/ EnterPurge \/ SkipPurge \/ FindCut \/ OtherPurge \/ PurgePostsAndToots \/ PurgeFails
            \/ UNCHANGED retentionVars
  <2>1. UNCHANGED Pace
    BY <1>16 DEF EnterPurge, SkipPurge, FindCut, OtherPurge, PurgePostsAndToots, PurgeFails,
                 retentionVars, vars, Pace, accountVars
  <2> QED BY <2>1, SamePace
<1>17. Loop \in Workers /\ Loop # Background
  BY DEF Workers, Loop, Background
<1> QED
  BY <1>1, <1>2, <1>3, <1>4, <1>5, <1>6, <1>7, <1>8, <1>9, <1>10, <1>11, <1>12, <1>13, <1>14,
     <1>15, <1>16, <1>17
     DEF RetentionNext, StartCheck, GetAccountForFeed, UpdateWithRows, PurgeOldPosts, FailureWithRows

\* Rows go only with posts dated no later than a toot of MinAge days ago.
LEMMA StepGone ==
  ASSUME RetentionTypeOK, Numbers, Numbers', CutIsSafe, PaceInv, GoneLongAgo, MinAge >= 4,
         [RetentionNext]_retentionVars
  PROVE  /\ GoneLongAgo'
         /\ \A p \in Posts : p \notin stored /\ p \in stored' => postTime'[p] > known[p]
<1>1. CASE UNCHANGED <<stored, postTime, known>> /\ (now' = now \/ now' = now + 1)
  BY <1>1 DEF GoneLongAgo, Numbers
<1>2. ASSUME NEW w \in Workers, NEW p \in Posts, StorePost(w, p)
      PROVE  /\ GoneLongAgo'
             /\ \A q \in Posts : q \notin stored /\ q \in stored' => postTime'[q] > known[q]
  <2>1. CASE p \in stored
    BY <1>1, <1>2, <2>1 DEF StorePost, StorePostIfNew
  <2>2. CASE p \notin stored
    <3>1. /\ now' = now
          /\ stored' = stored \cup {p}
          /\ postTime' = [postTime EXCEPT ![p] = items[w][p]]
          /\ known' = [known EXCEPT ![p] = items[w][p]]
      BY <1>2, <2>2 DEF StorePost, StorePostIfNew
    <3>2. items[w][p] > 0 /\ w \in PastMark
      BY <1>2 DEF StorePost, StorePostIfNew, Oldest, Pending, PastMark
    <3>3. items[w][p] > Began(w) - 3 /\ Began(w) >= now - 1 /\ Began(w) \in Int
      BY <3>2 DEF PaceInv, KeepersRecent, Began, Numbers
    <3>4. known[p] = 0 \/ known[p] + 4 <= now
      BY <2>2 DEF GoneLongAgo
    <3>5. items[w][p] > known[p]
      BY <3>2, <3>3, <3>4 DEF Numbers
    <3>6. GoneLongAgo'
      BY <3>1 DEF GoneLongAgo, Numbers
    <3> QED BY <3>1, <3>5, <3>6 DEF Numbers
  <2> QED BY <2>1, <2>2
<1>3. CASE purge = "delete" /\ DeletePosts /\ UNCHANGED <<now, known>>
  <2>1. PICK gone \in SUBSET stored :
          /\ \A p \in gone : postTime[p] <= tootRows[cut]
          /\ stored' = stored \ gone
          /\ postTime' = [p \in Posts |-> IF p \in gone THEN 0 ELSE postTime[p]]
    BY <1>3 DEF DeletePosts, CutPosts
  <2>2. tootRows[cut] \in Nat /\ tootRows[cut] + 4 <= now
    <3>1. cut \in 1..Len(tootRows) /\ now - tootRows[cut] >= MinAge
      BY <1>3, RetentionAssumption DEF CutIsSafe, OldEnough, RetentionTypeOK
    <3>2. tootRows[cut] \in Nat
      BY <3>1 DEF RetentionTypeOK
    <3> QED BY <3>1, <3>2, RetentionAssumption DEF Numbers
  <2>3. \A p \in gone : known[p] + 4 <= now
    <3> SUFFICES ASSUME NEW p \in gone
                 PROVE  known[p] + 4 <= now
      OBVIOUS
    <3>1. p \in Posts /\ p \in stored
      BY DEF RetentionTypeOK, TypeOK
    <3>2. known[p] = postTime[p] /\ postTime[p] <= tootRows[cut] /\ postTime[p] \in Nat
      BY <2>1, <3>1 DEF GoneLongAgo, Numbers
    <3> QED BY <2>2, <3>2 DEF Numbers
  <2> QED BY <1>3, <2>1, <2>3 DEF GoneLongAgo
<1>4. ASSUME NEW p \in Posts, PublishToday(p)
      PROVE  UNCHANGED <<stored, postTime, known, now>>
  BY <1>4 DEF PublishToday, Publish, postVars, rowVars
<1>5. CASE CheckDueToday \/ NextDay
  <2>1. UNCHANGED <<stored, postTime, known>> /\ (now' = now \/ now' = now + 1)
    BY <1>5 DEF CheckDueToday, NextDay, BecomeDue, Tick, postVars, rowVars
  <2> QED BY <1>1, <2>1
<1>6. CASE StartCheck \/ (RecordFeedCheckError /\ KeepRows)
  <2>1. UNCHANGED <<stored, postTime, known, now>>
    BY <1>6 DEF StartCheck, CheckDueFeed, FetchFails, RecordFeedCheckError, KeepRows, postVars, rowVars
  <2> QED BY <1>1, <2>1
<1>7. ASSUME NEW m \in Mentions, GetAccountForFeed(m) /\ KeepRows
      PROVE  UNCHANGED <<stored, postTime, known, now>>
  BY <1>7 DEF GetAccountForFeed, RequestFeed, AddAccountIfNotExist, StartBackground, UseExisting,
              KeepRows, postVars, rowVars
<1>8. ASSUME NEW w \in Workers, UpdateWithRows(w), ~(\E p \in Posts : StorePost(w, p))
      PROVE  UNCHANGED <<stored, postTime, known, now>>
  BY <1>8 DEF UpdateWithRows, ReadMark, AddTootRow, AddToot, EnqueueBroadcast, FinishUpdate,
              UpdateAccountFeedTimes, KeepRows, postVars, rowVars
<1>9. CASE EnterPurge \/ SkipPurge \/ FindCut \/ OtherPurge \/ UNCHANGED retentionVars
  <2>1. UNCHANGED <<stored, postTime, known, now>>
    BY <1>9 DEF EnterPurge, SkipPurge, FindCut, OtherPurge, retentionVars, vars, postVars, rowVars
  <2> QED BY <1>1, <2>1
<1>10. CASE PurgePostsAndToots
  BY <1>3, <1>10 DEF PurgePostsAndToots
<1>11. CASE PurgeFails
  <2>1. UNCHANGED <<now, known>>
    BY <1>11 DEF PurgeFails
  <2>2. \/ UNCHANGED <<stored, postTime>>
        \/ purge = "delete" /\ DeletePosts
    BY <1>11 DEF PurgeFails
  <2> QED BY <1>1, <1>3, <2>1, <2>2
<1>12. CASE FailureWithRows /\ ~PurgeFails
  <2>1. UNCHANGED <<stored, postTime, known, now>>
    BY <1>12 DEF FailureWithRows, StepFails, LoopPanics, KeepRows, postVars, rowVars
  <2> QED BY <1>1, <2>1
<1> QED
  BY <1>1, <1>2, <1>4, <1>5, <1>6, <1>7, <1>8, <1>9, <1>10, <1>11, <1>12
     DEF RetentionNext, PurgeOldPosts, FailureWithRows

\* If toots are kept for four rounds of checks at least, a post whose row the purge
\* has taken is never stored again, hence never tooted again, with a date it had:
\* whatever mentions and checks are under way with old copies of the feed, whatever
\* fails, and whether or not the publisher dates posts in order.
THEOREM PurgedPostsStayGone ==
  ASSUME MinAge >= 4
  PROVE  RetentionSpec => AgainOnlyIfRedated
<1>1. RetentionTypeOK /\ Numbers /\ Numbers' /\ CutIsSafe /\ RedateInv
        /\ [RetentionNext]_retentionVars =>
          /\ RedateInv'
          /\ [\A p \in Posts :
                p \notin stored /\ p \in stored' => postTime'[p] > known[p]]_retentionVars
  BY StepPace, StepGone DEF RedateInv
<1> QED
  BY <1>1, InitRedate, TypesAreNumbers, RetentionTypeCorrect, CutStaysSafe, PTL
     DEF RetentionSpec, AgainOnlyIfRedated

\* The invariant itself: what the mark has passed, what copies and goroutines may
\* still bring, and how long posts without a row have been gone.
THEOREM OldPostsPassed ==
  ASSUME MinAge >= 4
  PROVE  RetentionSpec => []RedateInv
<1>1. RetentionTypeOK /\ Numbers /\ Numbers' /\ CutIsSafe /\ RedateInv
        /\ [RetentionNext]_retentionVars => RedateInv'
  BY StepPace, StepGone DEF RedateInv
<1> QED
  BY <1>1, InitRedate, TypesAreNumbers, RetentionTypeCorrect, CutStaysSafe, PTL DEF RetentionSpec

-----------------------------------------------------------------------------
(* No post skipped, although rows are removed                                 *)

\* FeedUpdate with the posts that have ever had a row for those that have one.
Seen == INSTANCE FeedUpdate WITH stored <- {p \in Posts : known[p] > 0}

\* MarksInStep for posts that have ever had a row.
MarksSeen ==
  /\ mark > 0 => \E q \in Posts : mark <= feed[q]
  /\ \A p \in Posts : feed[p] > 0 /\ feed[p] <= mark => known[p] > 0
  /\ \A w \in Workers : newMark[w] > 0 => \E q \in Posts : newMark[w] <= feed[q]
  /\ \A w \in PastMark, p \in Posts :
       feed[p] > 0 /\ feed[p] <= newMark[w] => known[p] > 0 \/ items[w][p] > 0

SeenInv ==
  /\ \A p \in stored : known[p] > 0
  /\ InOrder => CopiesInStep /\ MarksSeen

LEMMA InitSeen == RetentionInit => SeenInv
  BY FeedUpdateAssumption
     DEF RetentionInit, SeenInv, CopiesInStep, MarksSeen, PastMark, NoItems, HoldsCopy

\* A post with a row has been stored with a date.
LEMMA StepEverStored ==
  ASSUME RetentionTypeOK, Numbers, \A p \in stored : known[p] > 0, [RetentionNext]_retentionVars
  PROVE  /\ \A p \in stored' : known'[p] > 0
         /\ \A p \in Posts : known[p] > 0 => known'[p] > 0
<1> DEFINE Goal == /\ \A p \in stored' : known'[p] > 0
                   /\ \A p \in Posts : known[p] > 0 => known'[p] > 0
<1> SUFFICES Goal
  OBVIOUS
<1>0. stored \subseteq Posts
  BY DEF RetentionTypeOK, TypeOK
<1>1. CASE known' = known /\ stored' \subseteq stored
  BY <1>1
<1>2. ASSUME NEW w \in Workers, NEW p \in Posts, StorePost(w, p)
      PROVE  Goal
  BY <1>0, <1>2 DEF StorePost, StorePostIfNew, Oldest, Pending, Numbers
<1>3. ASSUME NEW p \in Posts, PublishToday(p)
      PROVE  UNCHANGED <<known, stored>>
  BY <1>3 DEF PublishToday, Publish, postVars, rowVars
<1>4. CASE CheckDueToday \/ NextDay
  <2>1. UNCHANGED <<known, stored>>
    BY <1>4 DEF CheckDueToday, NextDay, BecomeDue, Tick, postVars, rowVars
  <2> QED BY <1>1, <2>1
<1>5. CASE StartCheck \/ (RecordFeedCheckError /\ KeepRows)
  <2>1. UNCHANGED <<known, stored>>
    BY <1>5 DEF StartCheck, CheckDueFeed, FetchFails, RecordFeedCheckError, KeepRows, postVars, rowVars
  <2> QED BY <1>1, <2>1
<1>6. ASSUME NEW m \in Mentions, GetAccountForFeed(m) /\ KeepRows
      PROVE  UNCHANGED <<known, stored>>
  BY <1>6 DEF GetAccountForFeed, RequestFeed, AddAccountIfNotExist, StartBackground, UseExisting,
              KeepRows, postVars, rowVars
<1>7. ASSUME NEW w \in Workers, UpdateWithRows(w), ~(\E p \in Posts : StorePost(w, p))
      PROVE  UNCHANGED <<known, stored>>
  BY <1>7 DEF UpdateWithRows, ReadMark, AddTootRow, AddToot, EnqueueBroadcast, FinishUpdate,
              UpdateAccountFeedTimes, KeepRows, postVars, rowVars
<1>8. CASE EnterPurge \/ SkipPurge \/ FindCut \/ OtherPurge \/ UNCHANGED retentionVars
  <2>1. UNCHANGED <<known, stored>>
    BY <1>8 DEF EnterPurge, SkipPurge, FindCut, OtherPurge, retentionVars, vars, postVars, rowVars
  <2> QED BY <1>1, <2>1
<1>9. CASE PurgePostsAndToots \/ FailureWithRows
  <2>1. known' = known
    BY <1>9 DEF PurgePostsAndToots, FailureWithRows, StepFails, LoopPanics, PurgeFails, KeepRows, rowVars
  <2>2. stored' \subseteq stored
    BY <1>9 DEF PurgePostsAndToots, FailureWithRows, StepFails, LoopPanics, PurgeFails, DeletePosts,
                KeepRows, postVars
  <2> QED BY <1>1, <2>1, <2>2
<1> HIDE DEF Goal
<1> QED
  BY <1>1, <1>2, <1>3, <1>4, <1>5, <1>6, <1>7, <1>8, <1>9 DEF RetentionNext, PurgeOldPosts

LEMMA StepSeen ==
  ASSUME RetentionTypeOK, Numbers, Numbers', PaceInv, SeenInv, InOrder, [RetentionNext]_retentionVars
  PROVE  (CopiesInStep /\ MarksSeen)'
<1> DEFINE Goal == (CopiesInStep /\ MarksSeen)'
<1> USE FeedUpdateAssumption
    DEF Numbers, SeenInv, CopiesInStep, MarksSeen, HoldsCopy, PastMark,
        accountVars, GoTo, Leave, TakeFeed, NoItems, KeepRows, rowVars
<1>1. ASSUME NEW p \in Posts, PublishToday(p)
      PROVE  Goal
  <2>1. /\ \A q \in Posts : feed[q] < now
        /\ feed' = [feed EXCEPT ![p] = now]
        /\ UNCHANGED <<mark, known, pc, items, newMark>>
    BY <1>1 DEF PublishToday, Publish, workerVars
  <2>2. \A q \in Posts : feed[q] <= feed'[q] /\ (feed'[q] = feed[q] \/ feed'[q] = now)
    BY <2>1
  <2>3. CopiesInStep'
    <3>1. \A w \in Workers, q \in Posts : items'[w][q] <= feed'[q]
      BY <2>1, <2>2
    <3>2. ASSUME NEW w \in HoldsCopy', NEW q \in Posts, NEW r \in Posts,
                 feed'[q] > 0, feed'[q] <= items'[w][r]
          PROVE  items'[w][q] = feed'[q]
      <4>1. w \in HoldsCopy /\ items'[w] = items[w]
        BY <2>1
      <4>2. items[w][r] <= feed[r] /\ feed[r] < now
        BY <2>1, <4>1
      <4>3. feed'[q] = feed[q]
        BY <2>1, <2>2, <3>2, <4>1, <4>2
      <4> QED BY <3>2, <4>1, <4>3
    <3> QED BY <3>1, <3>2
  <2>4. MarksSeen'
    <3>1. mark' > 0 => \E q \in Posts : mark' <= feed'[q]
      BY <2>1, <2>2
    <3>2. \A q \in Posts : feed'[q] > 0 /\ feed'[q] <= mark' => known'[q] > 0
      BY <2>1, <2>2
    <3>3. ASSUME NEW w \in Workers, newMark'[w] > 0
          PROVE  \E q \in Posts : newMark'[w] <= feed'[q]
      <4>1. PICK q \in Posts : newMark[w] <= feed[q]
        BY <2>1, <3>3
      <4> QED BY <2>1, <2>2, <4>1
    <3>4. ASSUME NEW w \in PastMark', NEW q \in Posts, feed'[q] > 0, feed'[q] <= newMark'[w]
          PROVE  known'[q] > 0 \/ items'[w][q] > 0
      <4>1. PICK r \in Posts : newMark[w] <= feed[r]
        BY <2>1, <3>4
      <4>2. feed'[q] = feed[q]
        BY <2>1, <2>2, <3>4, <4>1
      <4> QED BY <2>1, <3>4, <4>2
    <3> QED BY <3>1, <3>2, <3>3, <3>4
  <2> QED BY <2>3, <2>4
<1>2. CASE CheckDueToday \/ NextDay \/ (StartCheck /\ FetchFails) \/ (RecordFeedCheckError /\ KeepRows)
  BY <1>2 DEF CheckDueToday, BecomeDue, NextDay, Tick, StartCheck, FetchFails, RecordFeedCheckError,
              workerVars
<1>3. CASE StartCheck /\ CheckDueFeed
  BY <1>3 DEF StartCheck, CheckDueFeed
<1>4. ASSUME NEW m \in Mentions, GetAccountForFeed(m), KeepRows
      PROVE  Goal
  <2>1. ~StartBackground(m)
    BY DEF StartBackground, PaceInv, NoNewAccount
  <2>2. CASE RequestFeed(m)
    BY <1>4, <2>2 DEF RequestFeed
  <2>3. CASE AddAccountIfNotExist(m) \/ UseExisting(m)
    <3>1. /\ UNCHANGED <<feed, mark, known, items, newMark>>
          /\ \E place \in {"created", "existing", "mark"} : pc' = [pc EXCEPT ![m] = place]
          /\ m \in HoldsCopy
      BY <1>4, <2>3 DEF AddAccountIfNotExist, UseExisting, Workers
    <3>2. HoldsCopy' = HoldsCopy /\ PastMark' = PastMark
      BY <3>1
    <3> QED BY <3>1, <3>2
  <2> QED BY <1>4, <2>1, <2>2, <2>3 DEF GetAccountForFeed
<1>5. ASSUME NEW w \in Workers, ReadMark(w), KeepRows
      PROVE  Goal
  <2>0. /\ UNCHANGED <<feed, mark, known>>
        /\ \A v \in Workers : v # w => /\ newMark'[v] = newMark[v]
                                       /\ items'[v] = items[v]
                                       /\ v \in PastMark' <=> v \in PastMark
                                       /\ v \in HoldsCopy' <=> v \in HoldsCopy
        /\ w \in HoldsCopy /\ w \notin HoldsCopy'
        /\ NewLastUpdated(w, newMark'[w])
        /\ \A p \in Posts : items'[w][p] = IF p \in Keepers(w) THEN items[w][p] ELSE 0
    BY <1>5 DEF ReadMark
  <2>1. CopiesInStep'
    <3>1. ASSUME NEW v \in Workers, NEW p \in Posts
          PROVE  items'[v][p] <= feed'[p]
      <4>1. items'[v][p] = items[v][p] \/ items'[v][p] = 0
        BY <2>0
      <4> QED BY <2>0, <4>1
    <3>2. ASSUME NEW v \in HoldsCopy'
          PROVE  v \in HoldsCopy /\ items'[v] = items[v]
      BY <2>0
    <3> QED BY <2>0, <3>1, <3>2
  <2>2. ASSUME NEW v \in Workers, newMark'[v] > 0
        PROVE  \E q \in Posts : newMark'[v] <= feed'[q]
    <3>1. CASE v # w
      BY <2>0, <2>2, <3>1
    <3>2. CASE v = w
      BY <2>0, <2>2, <3>2 DEF NewLastUpdated, Keepers
    <3> QED BY <3>1, <3>2
  <2>3. ASSUME NEW v \in PastMark', NEW p \in Posts, feed'[p] > 0, feed'[p] <= newMark'[v]
        PROVE  known'[p] > 0 \/ items'[v][p] > 0
    <3>1. CASE v # w
      BY <2>0, <2>3, <3>1
    <3>2. CASE v = w /\ feed[p] <= mark
      BY <2>0, <2>3, <3>2
    <3>3. CASE v = w /\ feed[p] > mark
      <4>1. PICK q \in Keepers(w) : newMark'[w] = items[w][q]
        BY <2>0, <2>3, <3>3 DEF NewLastUpdated
      <4>2. items[w][p] = feed[p]
        BY <2>0, <2>3, <3>3, <4>1 DEF Keepers
      <4>3. items[w][p] <= now + FutureLimit
        BY <2>0, <2>3, <3>3, <4>1, <4>2 DEF Keepers, Keeper
      <4>4. p \in Keepers(w)
        BY <3>3, <4>2, <4>3 DEF Keepers, Keeper
      <4> QED BY <2>0, <2>3, <3>3, <4>2, <4>4
    <3> QED BY <3>1, <3>2, <3>3
  <2> QED BY <2>0, <2>1, <2>2, <2>3
<1>6. ASSUME NEW w \in Workers, NEW p \in Posts, StorePost(w, p)
      PROVE  Goal
  <2>0. /\ UNCHANGED <<feed, mark, newMark>>
        /\ items' = [items EXCEPT ![w][p] = 0]
        /\ HoldsCopy' = HoldsCopy /\ PastMark' = PastMark
        /\ w \notin HoldsCopy
    BY <1>6 DEF StorePost, StorePostIfNew
  <2>1. known'[p] > 0 /\ \A q \in Posts : known[q] > 0 => known'[q] > 0
    BY <1>6 DEF StorePost, StorePostIfNew, Oldest, Pending
  <2>2. CopiesInStep'
    <3>1. ASSUME NEW v \in Workers, NEW q \in Posts
          PROVE  items'[v][q] <= feed'[q]
      <4>1. items'[v][q] = items[v][q] \/ items'[v][q] = 0
        BY <2>0
      <4> QED BY <2>0, <4>1
    <3>2. ASSUME NEW v \in HoldsCopy'
          PROVE  v \in HoldsCopy /\ items'[v] = items[v]
      BY <2>0
    <3> QED BY <2>0, <3>1, <3>2
  <2>3. MarksSeen'
    BY <2>0, <2>1
  <2> QED BY <2>2, <2>3
<1>7. ASSUME NEW w \in Workers, AddTootRow(w) \/ (EnqueueBroadcast(w) /\ KeepRows)
      PROVE  Goal
  <2>1. /\ UNCHANGED <<feed, mark, known, items, newMark>>
        /\ \E place \in {"store", "enqueue"} : pc' = [pc EXCEPT ![w] = place]
        /\ w \in PastMark
    BY <1>7 DEF AddTootRow, AddToot, EnqueueBroadcast
  <2>2. HoldsCopy' = HoldsCopy /\ PastMark' = PastMark
    BY <2>1
  <2> QED BY <2>1, <2>2
<1>8. ASSUME NEW w \in Workers, FinishUpdate(w)
      PROVE  Goal
  BY <1>8 DEF FinishUpdate, UpdateAccountFeedTimes, AfterSuccess, Pending
<1>9. ASSUME NEW w \in Workers, StepFails(w), KeepRows
      PROVE  Goal
  BY <1>9 DEF StepFails, AfterError
<1>10. CASE LoopPanics /\ KeepRows
  BY <1>10 DEF LoopPanics
<1>11. CASE \/ EnterPurge \/ SkipPurge \/ FindCut \/ OtherPurge \/ PurgePostsAndToots \/ PurgeFails
            \/ UNCHANGED retentionVars
  <2>1. UNCHANGED <<feed, mark, known, pc, items, newMark>>
    BY <1>11 DEF EnterPurge, SkipPurge, FindCut, OtherPurge, PurgePostsAndToots, PurgeFails,
                 retentionVars, vars, workerVars
  <2> QED BY <2>1
<1> QED
  BY <1>1, <1>2, <1>3, <1>4, <1>5, <1>6, <1>7, <1>8, <1>9, <1>10, <1>11
     DEF RetentionNext, StartCheck, UpdateWithRows, PurgeOldPosts, FailureWithRows

\* The mark passes no post that never had a row, although the purge removes rows and
\* updates under way write marks they have made of old copies: FeedUpdate's
\* NoPostSkipped, with the posts that have ever had a row for those that have one.
THEOREM NothingSkippedDespitePurge == RetentionSpec => []Seen!NoPostSkipped
<1> DEFINE Paced == PaceInv /\ SeenInv
<1>1. RetentionInit => Paced
  BY InitRedate, InitSeen DEF RedateInv
<1>2. RetentionTypeOK /\ Numbers /\ Numbers' /\ Paced /\ [RetentionNext]_retentionVars => Paced'
  BY StepPace, StepSeen, StepEverStored DEF SeenInv
<1>3. Paced => Seen!NoPostSkipped
  BY DEF SeenInv, MarksSeen, Seen!NoPostSkipped
<1> HIDE DEF Paced
<1> QED
  BY <1>1, <1>2, <1>3, TypesAreNumbers, RetentionTypeCorrect, PTL DEF RetentionSpec

-----------------------------------------------------------------------------
(* One toot per date, although rows are removed                               *)

\* A post has no more toots than there are days up to the latest date it was stored
\* with, since each row of it is made with a newer date and gives one toot at most,
\* and no more broadcasts than toots.
OncePerDate == \A p \in Posts : broadcasts[p] <= toots[p] /\ toots[p] <= known[p]

\* Who makes a toot of a post is alone with it, and the post is too recent to be
\* purged under his hands.
HandsInv ==
  /\ OncePerDate
  /\ \A w \in Workers : cur[w] # NoPost <=> pc[w] \in {"toot", "enqueue"}
  /\ \A v, w \in Workers : cur[v] = cur[w] /\ cur[w] # NoPost => v = w
  /\ \A w \in Workers : cur[w] # NoPost =>
       /\ cur[w] \in stored
       /\ postTime[cur[w]] > Began(w) - 3
       /\ pc[w] = "toot" => toots[cur[w]] < known[cur[w]]
       /\ pc[w] = "enqueue" => broadcasts[cur[w]] < toots[cur[w]]

Counts ==
  /\ toots \in [Posts -> Nat]
  /\ broadcasts \in [Posts -> Nat]
  /\ cur \in [Workers -> Posts \cup {NoPost}]
  /\ stored \subseteq Posts

LEMMA InitHands == RetentionInit => HandsInv
  BY FeedUpdateAssumption
     DEF RetentionInit, HandsInv, OncePerDate, Workers, Loop, Background

\* Goroutines come, go and move, and rows stay.
LEMMA HandsStay ==
  ASSUME Numbers, Counts, HandsInv,
         UNCHANGED <<toots, broadcasts, known, postTime, stored>>,
         \A w \in Workers :
           \/ cur'[w] = NoPost /\ pc'[w] \notin {"toot", "enqueue"}
           \/ cur'[w] = cur[w] /\ pc'[w] = pc[w] /\ (cur[w] # NoPost => Began(w)' = Began(w))
  PROVE  HandsInv'
<1>1. \A w \in Workers : cur'[w] # NoPost =>
        cur'[w] = cur[w] /\ pc'[w] = pc[w] /\ Began(w)' = Began(w)
  OBVIOUS
<1> QED BY <1>1 DEF HandsInv, OncePerDate

LEMMA HandsStore ==
  ASSUME Numbers, Numbers', Counts, HandsInv, GoneLongAgo', PaceInv,
         NEW w \in Workers, NEW p \in Posts, StorePost(w, p),
         p \notin stored => postTime'[p] > known[p]
  PROVE  HandsInv'
<1>0. /\ pc[w] = "store" /\ cur[w] = NoPost
      /\ UNCHANGED <<now, lagging, toots, broadcasts>>
      /\ \A v \in Workers : Began(v)' = Began(v)
  BY DEF StorePost, StorePostIfNew, paceVars, HandsInv, Began
<1>1. CASE p \in stored
  BY <1>0, <1>1, HandsStay DEF StorePost, StorePostIfNew
<1>2. CASE p \notin stored
  <2>1. /\ stored' = stored \cup {p}
        /\ postTime' = [postTime EXCEPT ![p] = items[w][p]]
        /\ known' = [known EXCEPT ![p] = items[w][p]]
        /\ cur' = [cur EXCEPT ![w] = p]
        /\ pc' = [pc EXCEPT ![w] = "toot"]
        /\ items[w][p] > 0
    BY <1>2 DEF StorePost, StorePostIfNew, GoTo, Oldest, Pending
  <2>2. \A v \in Workers : v # w => cur'[v] = cur[v] /\ pc'[v] = pc[v] /\ cur[v] # p
    <3>1. p # NoPost /\ \A v \in Workers : cur[v] # NoPost => cur[v] \in stored
      BY FeedUpdateAssumption DEF HandsInv
    <3>2. \A v \in Workers : v # w => cur'[v] = cur[v] /\ pc'[v] = pc[v]
      BY <2>1 DEF Counts, Numbers
    <3> QED BY <1>2, <3>1, <3>2
  <2>3. \A q \in Posts : q # p => postTime'[q] = postTime[q] /\ known'[q] = known[q]
    BY <2>1 DEF Numbers
  <2>4. known'[p] = items[w][p] /\ postTime'[p] = items[w][p] /\ known[p] < known'[p]
    BY <1>2, <2>1 DEF Numbers
  <2>5. cur'[w] = p /\ pc'[w] = "toot" /\ p # NoPost
    BY <2>1, FeedUpdateAssumption DEF Counts, Numbers
  <2>6. postTime'[p] > Began(w) - 3
    <3>1. w \in PastMark
      BY <1>0 DEF PastMark
    <3> QED BY <2>1, <2>4, <3>1 DEF PaceInv, KeepersRecent
  <2>7. OncePerDate'
    BY <1>0, <2>3, <2>4 DEF HandsInv, OncePerDate, Counts, Numbers
  <2>8. \A v \in Workers : cur'[v] # NoPost <=> pc'[v] \in {"toot", "enqueue"}
    BY <2>2, <2>5 DEF HandsInv
  <2>9. \A u, v \in Workers : cur'[u] = cur'[v] /\ cur'[v] # NoPost => u = v
    BY <2>2, <2>5 DEF HandsInv
  <2>10. ASSUME NEW v \in Workers, cur'[v] # NoPost
         PROVE  /\ cur'[v] \in stored'
                /\ postTime'[cur'[v]] > Began(v)' - 3
                /\ pc'[v] = "toot" => toots'[cur'[v]] < known'[cur'[v]]
                /\ pc'[v] = "enqueue" => broadcasts'[cur'[v]] < toots'[cur'[v]]
    <3>1. CASE v = w
      <4>1. toots[p] <= known[p]
        BY DEF HandsInv, OncePerDate
      <4> QED BY <1>0, <2>1, <2>4, <2>5, <2>6, <3>1, <4>1 DEF Counts, Numbers
    <3>2. CASE v # w
      <4>1. cur'[v] = cur[v] /\ pc'[v] = pc[v] /\ cur[v] # p /\ cur[v] # NoPost /\ cur[v] \in Posts
        BY <2>2, <2>10, <3>2 DEF Counts
      <4> QED BY <1>0, <2>1, <2>3, <4>1 DEF HandsInv
    <3> QED BY <3>1, <3>2
  <2> QED BY <2>7, <2>8, <2>9, <2>10 DEF HandsInv
<1> QED BY <1>1, <1>2

LEMMA HandsToot ==
  ASSUME Numbers, Counts, HandsInv, NEW w \in Workers, w # Background,
         AddTootRow(w) \/ (EnqueueBroadcast(w) /\ KeepRows)
  PROVE  HandsInv'
<1>0. /\ UNCHANGED <<known, postTime, stored, now, lagging>>
      /\ \A v \in Workers : Began(v)' = Began(v)
      /\ cur[w] \in Posts /\ cur[w] # NoPost /\ pc[w] \in {"toot", "enqueue"}
  BY FeedUpdateAssumption
     DEF AddTootRow, AddToot, EnqueueBroadcast, KeepRows, paceVars, rowVars, Began, HandsInv, Counts
<1>1. \A v \in Workers : v # w => cur[v] # cur[w]
  BY <1>0 DEF HandsInv
<1>2. CASE AddTootRow(w)
  <2>1. /\ toots' = [toots EXCEPT ![cur[w]] = @ + 1]
        /\ pc' = [pc EXCEPT ![w] = "enqueue"]
        /\ UNCHANGED <<cur, broadcasts>>
        /\ pc[w] = "toot"
    BY <1>2 DEF AddTootRow, AddToot, GoTo
  <2>2. toots[cur[w]] < known[cur[w]] /\ broadcasts[cur[w]] <= toots[cur[w]]
    BY <1>0, <2>1 DEF HandsInv, OncePerDate
  <2>3. \A p \in Posts : toots'[p] = IF p = cur[w] THEN toots[p] + 1 ELSE toots[p]
    BY <2>1 DEF Counts
  <2>4. OncePerDate'
    BY <1>0, <2>1, <2>2, <2>3 DEF HandsInv, OncePerDate, Counts, Numbers
  <2>5. \A v \in Workers : pc'[v] = IF v = w THEN "enqueue" ELSE pc[v]
    BY <2>1 DEF Numbers
  <2>6. ASSUME NEW v \in Workers, cur[v] # NoPost
        PROVE  /\ pc'[v] = "toot" => toots'[cur[v]] < known[cur[v]]
               /\ pc'[v] = "enqueue" => broadcasts[cur[v]] < toots'[cur[v]]
    <3>1. cur[v] \in Posts
      BY <2>6 DEF Counts
    <3>2. CASE v = w
      BY <1>0, <2>2, <2>3, <2>5, <3>2 DEF Counts
    <3>3. CASE v # w
      BY <1>1, <2>3, <2>5, <2>6, <3>1, <3>3 DEF HandsInv
    <3> QED BY <3>2, <3>3
  <2> QED BY <1>0, <2>1, <2>4, <2>5, <2>6 DEF HandsInv
<1>3. CASE EnqueueBroadcast(w)
  <2>1. /\ broadcasts' = [broadcasts EXCEPT ![cur[w]] = @ + 1]
        /\ pc' = [pc EXCEPT ![w] = "store"]
        /\ cur' = [cur EXCEPT ![w] = NoPost]
        /\ toots' = toots
        /\ pc[w] = "enqueue"
    BY <1>3 DEF EnqueueBroadcast, GoTo
  <2>2. broadcasts[cur[w]] < toots[cur[w]]
    BY <1>0, <2>1 DEF HandsInv
  <2>3. \A p \in Posts : broadcasts'[p] = IF p = cur[w] THEN broadcasts[p] + 1 ELSE broadcasts[p]
    BY <2>1 DEF Counts
  <2>4. OncePerDate'
    BY <1>0, <2>1, <2>2, <2>3 DEF HandsInv, OncePerDate, Counts, Numbers
  <2>5. \A v \in Workers : /\ pc'[v] = IF v = w THEN "store" ELSE pc[v]
                           /\ cur'[v] = IF v = w THEN NoPost ELSE cur[v]
    BY <2>1 DEF Numbers, Counts
  <2>6. ASSUME NEW v \in Workers, cur'[v] # NoPost
        PROVE  /\ v # w /\ cur'[v] = cur[v] /\ pc'[v] = pc[v] /\ cur[v] \in Posts
               /\ broadcasts'[cur[v]] = broadcasts[cur[v]]
    BY <1>1, <2>3, <2>5, <2>6 DEF Counts
  <2> QED BY <1>0, <2>1, <2>4, <2>5, <2>6 DEF HandsInv
<1> QED BY <1>2, <1>3

LEMMA HandsPurge ==
  ASSUME RetentionTypeOK, Numbers, Counts, CutIsSafe, HandsInv, GoneLongAgo, MinAge >= 4,
         GoneLongAgo', PaceInv,
         purge = "delete", DeletePosts, UNCHANGED <<now, known, toots, broadcasts, pc, cur, lagging>>
  PROVE  HandsInv'
<1>1. PICK gone \in SUBSET stored :
        /\ stored' = stored \ gone
        /\ postTime' = [p \in Posts |-> IF p \in gone THEN 0 ELSE postTime[p]]
  BY DEF DeletePosts
<1>2. \A p \in gone : p \in Posts /\ known[p] = postTime[p] /\ postTime[p] > 0
                      /\ (known[p] = 0 \/ known[p] + 4 <= now)
  BY <1>1 DEF GoneLongAgo, Counts, RetentionTypeOK
<1>3. \A w \in Workers : Began(w)' = Began(w) /\ Began(w) >= now - 1 /\ Began(w) \in Int
  BY DEF Began, Numbers
<1>4. ASSUME NEW w \in Workers, cur[w] # NoPost
      PROVE  cur[w] \notin gone
  <2>1. postTime[cur[w]] > Began(w) - 3 /\ cur[w] \in Posts
    BY <1>4 DEF HandsInv, Counts
  <2>2. postTime[cur[w]] + 4 > now
    BY <1>3, <2>1 DEF Numbers
  <2> QED BY <1>2, <2>1, <2>2 DEF Numbers
<1> QED BY <1>1, <1>3, <1>4 DEF HandsInv, OncePerDate, Counts

LEMMA StepHands ==
  ASSUME RetentionTypeOK, Numbers, Numbers', Counts, CutIsSafe, RedateInv, RedateInv', HandsInv,
         MinAge >= 4, [RetentionNext]_retentionVars
  PROVE  HandsInv'
<1> USE FeedUpdateAssumption
<1>0. PaceInv /\ GoneLongAgo /\ GoneLongAgo'
  BY DEF RedateInv
<1>1. ASSUME NEW p \in Posts, PublishToday(p)
      PROVE  HandsInv'
  <2>1. UNCHANGED <<toots, broadcasts, known, postTime, stored, now, lagging, pc, cur>>
    BY <1>1 DEF PublishToday, Publish, paceVars, rowVars, postVars, workerVars
  <2> QED BY <2>1, HandsStay DEF Began
<1>2. CASE CheckDueToday
  <2>1. UNCHANGED <<toots, broadcasts, known, postTime, stored, now, lagging, pc, cur>>
    BY <1>2 DEF CheckDueToday, BecomeDue, paceVars, rowVars, postVars, workerVars
  <2> QED BY <2>1, HandsStay DEF Began
<1>3. CASE NextDay
  <2>1. /\ UNCHANGED <<toots, broadcasts, known, postTime, stored, pc, cur>>
        /\ now' = now + 1
        /\ lagging \cap Running = {}
        /\ lagging' = Running
    BY <1>3 DEF NextDay, Tick, rowVars, postVars, workerVars
  <2>2. ASSUME NEW w \in Workers, cur[w] # NoPost
        PROVE  Began(w)' = Began(w)
    <3>1. w \in Running
      BY <2>2 DEF HandsInv, Running, Busy
    <3> QED BY <2>1, <3>1 DEF Began, Numbers
  <2> QED BY <2>1, <2>2, HandsStay
<1>4. CASE StartCheck
  <2>1. /\ UNCHANGED <<toots, broadcasts, known, postTime, stored, now, cur>>
        /\ pc[Loop] = "idle"
        /\ lagging' = lagging \ {Loop}
        /\ \E place \in {"mark", "failed"} : pc' = [pc EXCEPT ![Loop] = place]
    BY <1>4 DEF StartCheck, CheckDueFeed, FetchFails, TakeFeed, GoTo, rowVars, postVars
  <2>2. Loop \in Workers /\ cur[Loop] = NoPost
    BY <2>1 DEF HandsInv, Workers
  <2>3. ASSUME NEW w \in Workers, w # Loop
        PROVE  pc'[w] = pc[w] /\ Began(w)' = Began(w)
    BY <2>1, <2>3 DEF Began, Numbers
  <2>4. pc'[Loop] \notin {"toot", "enqueue"}
    BY <2>1, <2>2 DEF Numbers
  <2> QED BY <2>1, <2>2, <2>3, <2>4, HandsStay
<1>5. CASE RecordFeedCheckError /\ KeepRows
  <2>1. /\ UNCHANGED <<toots, broadcasts, known, postTime, stored, now, lagging, cur>>
        /\ pc' = [pc EXCEPT ![Loop] = "idle"]
        /\ pc[Loop] = "failed"
    BY <1>5 DEF RecordFeedCheckError, GoTo, KeepRows, paceVars, rowVars, postVars
  <2>2. Loop \in Workers /\ cur[Loop] = NoPost
    BY <2>1 DEF HandsInv, Workers
  <2> QED BY <2>1, <2>2, HandsStay DEF Began, Numbers
<1>6. ASSUME NEW m \in Mentions, GetAccountForFeed(m), KeepRows
      PROVE  HandsInv'
  <2>1. ~StartBackground(m)
    BY <1>0 DEF StartBackground, PaceInv, NoNewAccount
  <2>2. /\ UNCHANGED <<toots, broadcasts, known, postTime, stored, now, lagging, cur>>
        /\ pc[m] \in {"idle", "add", "existing"}
        /\ \E place \in {"add", "created", "existing", "mark"} : pc' = [pc EXCEPT ![m] = place]
    BY <1>6, <2>1 DEF GetAccountForFeed, RequestFeed, AddAccountIfNotExist, UseExisting, TakeFeed,
                      GoTo, KeepRows, paceVars, rowVars, postVars
  <2>3. m \in Workers /\ cur[m] = NoPost
    BY <2>2 DEF HandsInv, Workers
  <2>4. ASSUME NEW w \in Workers, w # m
        PROVE  pc'[w] = pc[w]
    BY <2>2, <2>4 DEF Numbers
  <2>5. pc'[m] \notin {"toot", "enqueue"}
    BY <2>2, <2>3 DEF Numbers
  <2> QED BY <2>2, <2>3, <2>4, <2>5, HandsStay DEF Began
<1>7. ASSUME NEW w \in Workers, (ReadMark(w) /\ KeepRows) \/ FinishUpdate(w)
      PROVE  HandsInv'
  <2>1. /\ UNCHANGED <<toots, broadcasts, known, postTime, stored, now, lagging>>
        /\ pc[w] \in {"mark", "store"}
        /\ \E place \in {"store", "idle", "done"} : pc' = [pc EXCEPT ![w] = place]
        /\ cur' = cur \/ cur' = [cur EXCEPT ![w] = NoPost]
    BY <1>7 DEF ReadMark, FinishUpdate, UpdateAccountFeedTimes, Leave, AfterSuccess, GoTo, KeepRows,
                paceVars, rowVars, postVars
  <2>2. cur[w] = NoPost
    BY <2>1 DEF HandsInv
  <2>3. cur'[w] = NoPost /\ pc'[w] \notin {"toot", "enqueue"}
    BY <2>1, <2>2 DEF Numbers, Counts
  <2>4. \A v \in Workers : v # w => cur'[v] = cur[v] /\ pc'[v] = pc[v]
    BY <2>1 DEF Numbers, Counts
  <2> QED BY <2>1, <2>3, <2>4, HandsStay DEF Began
<1>8. ASSUME NEW w \in Workers, NEW p \in Posts, StorePost(w, p)
      PROVE  HandsInv'
  <2>1. p \in stored' /\ (p \notin stored => postTime'[p] > known[p])
    BY <1>0, <1>8, StepGone DEF StorePost, StorePostIfNew
  <2> QED BY <1>0, <1>8, <2>1, HandsStore
<1>9. ASSUME NEW w \in Workers, AddTootRow(w) \/ (EnqueueBroadcast(w) /\ KeepRows)
      PROVE  HandsInv'
  <2>1. w # Background
    BY <1>0, <1>9 DEF AddTootRow, AddToot, EnqueueBroadcast, PaceInv, NoNewAccount
  <2> QED BY <1>9, <2>1, HandsToot
<1>10. ASSUME NEW w \in Workers, StepFails(w) \/ (w = Loop /\ LoopPanics), KeepRows
       PROVE  HandsInv'
  <2>1. /\ UNCHANGED <<toots, broadcasts, known, postTime, stored, now, lagging>>
        /\ \E place \in {"idle", "done", "failed"} : pc' = [pc EXCEPT ![w] = place]
        /\ cur' = [cur EXCEPT ![w] = NoPost]
    BY <1>10 DEF StepFails, LoopPanics, AfterError, Leave, GoTo, KeepRows, paceVars, rowVars, postVars
  <2>2. cur'[w] = NoPost /\ pc'[w] \notin {"toot", "enqueue"}
    BY <2>1 DEF Numbers, Counts
  <2>3. \A v \in Workers : v # w => cur'[v] = cur[v] /\ pc'[v] = pc[v]
    BY <2>1 DEF Numbers, Counts
  <2> QED BY <2>1, <2>2, <2>3, HandsStay DEF Began
<1>11. CASE EnterPurge \/ SkipPurge \/ FindCut \/ OtherPurge \/ UNCHANGED retentionVars
  <2>1. UNCHANGED <<toots, broadcasts, known, postTime, stored, now, lagging, pc, cur>>
    BY <1>11 DEF EnterPurge, SkipPurge, FindCut, OtherPurge, retentionVars, vars, paceVars, rowVars,
                 postVars, workerVars
  <2> QED BY <2>1, HandsStay DEF Began
<1>12. CASE PurgePostsAndToots \/ PurgeFails
  <2>1. UNCHANGED <<now, known, toots, broadcasts, pc, cur, lagging>>
    BY <1>12 DEF PurgePostsAndToots, PurgeFails, workerVars, paceVars
  <2>2. (purge = "delete" /\ DeletePosts) \/ UNCHANGED <<stored, postTime>>
    BY <1>12 DEF PurgePostsAndToots, PurgeFails
  <2>3. CASE purge = "delete" /\ DeletePosts
    BY <1>0, <2>1, <2>3, HandsPurge
  <2>4. CASE UNCHANGED <<stored, postTime>>
    BY <2>1, <2>4, HandsStay DEF Began
  <2> QED BY <2>2, <2>3, <2>4
<1>13. LoopPanics => Loop \in Workers
  BY DEF Workers
<1> QED
  BY <1>1, <1>2, <1>3, <1>4, <1>5, <1>6, <1>7, <1>8, <1>9, <1>10, <1>11, <1>12, <1>13
     DEF RetentionNext, UpdateWithRows, PurgeOldPosts, FailureWithRows

\* FeedUpdate's promise of one toot per post, with the rows that guard it being
\* removed: however often a post's row is purged and made again, it has no more toots
\* than there are days up to its latest date known[p] (each row takes a newer one and
\* gives one toot), and no toot is broadcast twice.
THEOREM OneTootPerDate ==
  ASSUME MinAge >= 4
  PROVE  RetentionSpec => []OncePerDate
<1>1. RetentionTypeOK /\ Numbers /\ Numbers' /\ Counts /\ CutIsSafe /\ RedateInv /\ RedateInv'
        /\ HandsInv /\ [RetentionNext]_retentionVars => HandsInv'
  BY StepHands
<1>2. RetentionTypeOK => Counts
  BY DEF RetentionTypeOK, TypeOK, Counts
<1>3. HandsInv => OncePerDate
  BY DEF HandsInv
<1> QED
  BY <1>1, <1>2, <1>3, InitHands, TypesAreNumbers, RetentionTypeCorrect, CutStaysSafe,
     OldPostsPassed, PTL DEF RetentionSpec

====
