------------------------------- MODULE Retention -------------------------------
(***************************************************************************)
(* How old posts and toots of a feed are removed while others are made     *)
(* (PurgeOldPosts in server/logic/feed_follower.go, GetTootExtracts and    *)
(* PurgePostsAndToots in server/dal/repo.go).                              *)
(*                                                                         *)
(* Composes FeedUpdate with the purge.  Every check of the feed that       *)
(* succeeds starts a goroutine.  It does nothing if a purge, of any        *)
(* account, is under way; else it reads the toots, finds the newest one    *)
(* that is beyond the number to keep and old enough, and removes with one  *)
(* cut the toots made, and the posts dated, no later than that.  The row   *)
(* of a post is what keeps the post from being tooted again, so the cut    *)
(* has to be out of reach of feed_last_updated and of every update that is *)
(* still under way.                                                        *)
(***************************************************************************)
EXTENDS FeedUpdate, Sequences

CONSTANTS
  MinCount,  \* posts_min_count_kept
  MinAge     \* posts_min_days_kept

ASSUME RetentionAssumption == MinCount \in Nat /\ MinAge \in Nat

VARIABLES
  tootRows,  \* the day of tooted_at of each row of toots, oldest first
  postTime,  \* feed_posts: post_time of each row, 0 without a row
  purging,   \* isPurgingOldPosts: whose purge is under way
  purge,     \* place of the purge goroutine of this account
  cut,       \* how many of the oldest toots are not later than fromBefore
  lagging,   \* the updates that were under way when this day began
  checked,   \* whether the loop has finished a check on this day
  known      \* history: the latest date with which each post was stored

purgeVars == <<purging, purge, cut>>
paceVars == <<lagging, checked>>
rowVars == <<tootRows, postTime, known>>
retentionVars == <<vars, purgeVars, paceVars, rowVars>>

RetentionTypeOK ==
  /\ TypeOK
  /\ tootRows \in Seq(Nat)
  /\ postTime \in [Posts -> Dates]
  /\ stored = {p \in Posts : postTime[p] > 0}
  /\ purging \in {"nobody", "this", "other"}
  /\ purge \in {"none", "started", "read", "delete"}
  /\ cut \in Nat
  /\ lagging \subseteq Workers
  /\ checked \in BOOLEAN
  /\ known \in [Posts -> Dates]

-----------------------------------------------------------------------------
(* The pace of the world                                                     *)

\* A post is dated on the day it appears or is changed.
PublishToday(p) ==
  /\ now \in Dates
  /\ Publish(p, now)
  /\ UNCHANGED <<purgeVars, paceVars, rowVars>>

Running == {w \in Workers : Busy(w)}

\* A day stands for the time in which the loop checks the feed once: it makes one
\* check, and an update that has begun on one day ends on the next at the latest.
CheckDueToday ==
  /\ ~checked
  /\ BecomeDue
  /\ UNCHANGED <<purgeVars, paceVars, rowVars>>

NextDay ==
  /\ checked
  /\ lagging \cap Running = {}
  /\ Tick
  /\ lagging' = Running
  /\ checked' = FALSE
  /\ UNCHANGED <<purgeVars, rowVars>>

-----------------------------------------------------------------------------
(* The steps of FeedUpdate and the rows they write                           *)

KeepRows == UNCHANGED <<purgeVars, paceVars, rowVars>>

StartCheck ==
  /\ CheckDueFeed \/ FetchFails
  /\ lagging' = lagging \ {Loop}
  /\ UNCHANGED <<purgeVars, checked, rowVars>>

\* Mutant of StorePost: a post that is stored again gets no time.
StorePostUndated(w, p) ==
  /\ StorePostIfNew(w, p)
  /\ postTime' = [postTime EXCEPT ![p] = IF known[p] = 0 THEN items[w][p] ELSE @]
  /\ known' = [known EXCEPT ![p] = IF p \in stored THEN @ ELSE items[w][p]]
  /\ UNCHANGED <<purgeVars, paceVars, tootRows>>

\* AddFeedPostIfNew writes the date the post was kept for; a duplicate keeps its own.
StorePost(w, p) ==
  /\ StorePostIfNew(w, p)
  /\ \/ /\ p \notin stored
        /\ postTime' = [postTime EXCEPT ![p] = items[w][p]]
        /\ known' = [known EXCEPT ![p] = items[w][p]]
     \/ /\ p \in stored
        /\ UNCHANGED <<postTime, known>>
  /\ UNCHANGED <<purgeVars, paceVars, tootRows>>

\* tooted_at is the clock's time: the new row is the latest.
AddTootRow(w) ==
  /\ AddToot(w)
  /\ tootRows' = Append(tootRows, now)
  /\ UNCHANGED <<purgeVars, paceVars, postTime, known>>

\* updateFeed starts PurgeOldPosts when updateAccountPosts has succeeded.  It ends
\* at once if one of the limits is not set, or if the one started before is still
\* at work.  (Of those that have been started and have not run yet only one is kept.)
FinishUpdate(w) ==
  /\ UpdateAccountFeedTimes(w)
  /\ \/ /\ w = Loop
        /\ checked' = TRUE
        /\ purge' = IF purge = "none" /\ MinCount > 0 /\ MinAge > 0 THEN "started" ELSE purge
     \/ /\ w # Loop
        /\ UNCHANGED <<checked, purge>>
  /\ UNCHANGED <<purging, cut, lagging, rowVars>>

-----------------------------------------------------------------------------
(* PurgeOldPosts                                                             *)

EndPurge ==
  /\ purge' = "none"
  /\ purging' = "nobody"
  /\ cut' = 0

\* The flag is free and taken, or the goroutine ends.
EnterPurge ==
  /\ purge = "started"
  /\ purging = "nobody"
  /\ purge' = "read"
  /\ purging' = "this"
  /\ UNCHANGED <<vars, cut, paceVars, rowVars>>

SkipPurge ==
  /\ purge = "started"
  /\ purging # "nobody"
  /\ purge' = "none"
  /\ UNCHANGED <<vars, purging, cut, paceVars, rowVars>>

\* The purge of another account takes the flag, and gives it back.  (That it
\* may take it when nobody here looks at it makes no difference.)
OtherPurge ==
  /\ \/ purge = "started" /\ purging = "nobody" /\ purging' = "other"
     \/ purging = "other" /\ purging' = "nobody"
  /\ UNCHANGED <<vars, purge, cut, paceVars, rowVars>>

OldEnough(i) == now - tootRows[i] >= MinAge

\* Mutant of Removable: one toot too few is kept.
RemovableOffByOne(i) ==
  i \in 1..Len(tootRows) - MinCount + 1 /\ i <= Len(tootRows) /\ OldEnough(i)

\* Toots beyond the number to keep that are old enough, counted from the oldest.
Removable(i) == i \in 1..Len(tootRows) - MinCount /\ OldEnough(i)

\* GetTootExtracts, and the newest removable toot is the cut.
FindCut ==
  /\ purge = "read"
  /\ \/ /\ \A i \in 1..Len(tootRows) : ~Removable(i)
        /\ EndPurge
     \/ \E i \in 1..Len(tootRows) :
          /\ Removable(i) /\ ~Removable(i + 1)
          /\ cut' = i
          /\ purge' = "delete"
          /\ UNCHANGED purging
  /\ UNCHANGED <<vars, paceVars, rowVars>>

\* Mutant of CutPosts: cuts at the present time, not at the toot's.
CutPostsUntilNow(gone) == gone = {p \in stored : postTime[p] <= now}

\* The posts not later than the cut; of those of the same day any.
CutPosts(gone) ==
  /\ gone \subseteq {p \in stored : postTime[p] <= tootRows[cut]}
  /\ {p \in stored : postTime[p] < tootRows[cut]} \subseteq gone

DeletePosts ==
  \E gone \in SUBSET stored :
    /\ CutPosts(gone)
    /\ stored' = stored \ gone
    /\ postTime' = [p \in Posts |-> IF p \in gone THEN 0 ELSE postTime[p]]

PurgePostsAndToots ==
  /\ purge = "delete"
  /\ DeletePosts
  /\ tootRows' = SubSeq(tootRows, cut + 1, Len(tootRows))
  /\ EndPurge
  /\ UNCHANGED <<now, feed, accountVars, toots, broadcasts, workerVars, boundVars, paceVars, known>>

\* A database call of the purge fails; the flag is given back all the same.  The
\* posts are deleted by a statement of their own, before the toots.
PurgeFails ==
  /\ purge \in {"read", "delete"}
  /\ errors < MaxErrors
  /\ errors' = errors + 1
  /\ EndPurge
  /\ \/ UNCHANGED <<stored, postTime>>
     \/ purge = "delete" /\ DeletePosts
  /\ UNCHANGED <<now, feed, accountVars, toots, broadcasts, workerVars, crashes, paceVars,
                 tootRows, known>>

-----------------------------------------------------------------------------
\* The account exists, and its feed, still without posts, has been checked.
RetentionInit ==
  /\ now = 1
  /\ feed = NoItems
  /\ scheduled = "later"
  /\ mark = 0
  /\ stored = {}
  /\ toots = [p \in Posts |-> 0]
  /\ broadcasts = [p \in Posts |-> 0]
  /\ pc = [w \in Workers |-> IF w = Background THEN "done" ELSE "idle"]
  /\ items = [w \in Workers |-> NoItems]
  /\ newMark = [w \in Workers |-> 0]
  /\ cur = [w \in Workers |-> NoPost]
  /\ errors = 0
  /\ crashes = 0
  /\ tootRows = <<>>
  /\ postTime = [p \in Posts |-> 0]
  /\ purging = "nobody"
  /\ purge = "none"
  /\ cut = 0
  /\ lagging = {}
  /\ checked = TRUE
  /\ known = [p \in Posts |-> 0]

PurgeOldPosts ==
  \/ EnterPurge
  \/ SkipPurge
  \/ FindCut
  \/ PurgePostsAndToots

UpdateWithRows(w) ==
  \/ ReadMark(w) /\ KeepRows
  \/ \E p \in Posts : StorePost(w, p)
  \/ AddTootRow(w)
  \/ EnqueueBroadcast(w) /\ KeepRows
  \/ FinishUpdate(w)

FailureWithRows ==
  \/ \E w \in Workers : StepFails(w) /\ KeepRows
  \/ LoopPanics /\ KeepRows
  \/ PurgeFails

RetentionNext ==
  \/ \E p \in Posts : PublishToday(p)
  \/ NextDay
  \/ CheckDueToday
  \/ StartCheck
  \/ RecordFeedCheckError /\ KeepRows
  \/ \E m \in Mentions : GetAccountForFeed(m) /\ KeepRows
  \/ \E w \in Workers : UpdateWithRows(w)
  \/ PurgeOldPosts
  \/ OtherPurge
  \/ FailureWithRows

RetentionSpec == RetentionInit /\ [][RetentionNext]_retentionVars

-----------------------------------------------------------------------------
(* Properties                                                                *)

\* A purge leaves the MinCount newest toots and every toot younger than MinAge
\* days, although toots are made between its reading and its deleting.
Gone == Len(tootRows) - Len(tootRows')

KeepsNewest ==
  [][Gone > 0 =>
       /\ Len(tootRows') >= MinCount
       /\ tootRows' = SubSeq(tootRows, Gone + 1, Len(tootRows))
       /\ \A i \in 1..Gone : now - tootRows[i] >= MinAge]_retentionVars

\* A post whose row was removed is stored, and so tooted, again only when its
\* publisher has given it a newer date: the purge never cuts what the mark or an
\* update under way can still reach, if updates, checks and dates keep their pace.
AgainOnlyIfRedated ==
  [][\A p \in Posts :
       p \notin stored /\ p \in stored' => postTime'[p] > known[p]]_retentionVars

\* The invariant behind KeepsNewest: toots are in the order of their days, and
\* what the purge has chosen stays beyond the number to keep and only grows older.
CutIsSafe ==
  /\ \A i, j \in 1..Len(tootRows) : i <= j => tootRows[i] <= tootRows[j]
  /\ \A i \in 1..Len(tootRows) : tootRows[i] <= now
  /\ purge = "delete" =>
       /\ cut > 0
       /\ cut + MinCount <= Len(tootRows)
       /\ OldEnough(cut)
===============================================================================
