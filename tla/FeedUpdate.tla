------------------------------ MODULE FeedUpdate ------------------------------
(***************************************************************************)
(* How the posts of one feed become toots                                  *)
(* (server/logic/feed_follower.go, server/dal/repo.go).                    *)
(*                                                                         *)
(* updateAccountPosts compares a copy of the feed with feed_last_updated,  *)
(* stores each newer post, oldest first, creates a toot for a post nobody  *)
(* stored before, and at the end moves feed_last_updated and               *)
(* next_check_due.  Three kinds of goroutine run it on the same account at *)
(* the same time: the feed check loop, every mention of an account that    *)
(* exists, and the background job of the mention that created it.  The     *)
(* repository methods are atomic; nothing else is.                         *)
(***************************************************************************)
EXTENDS Integers, FiniteSets

CONSTANTS
  Posts,        \* the items of the feed, told apart by GUID and link
  Mentions,     \* calls of GetAccountForFeed
  NoPost,       \* no post
  MaxTime,      \* bound: the latest date a post can carry, and the last day
  FutureLimit,  \* allowedFuturePostDays: how far ahead a post's date may be
  InOrder,      \* whether the publisher only ever gives a post the latest date
  MaxErrors,    \* bound: failed database calls, failed fetches and panics
  MaxCrashes    \* bound: crashes of the process

ASSUME FeedUpdateAssumption ==
  /\ NoPost \notin Posts
  /\ MaxTime \in Nat
  /\ FutureLimit \in Nat
  /\ InOrder \in BOOLEAN
  /\ MaxErrors \in Nat
  /\ MaxCrashes \in Nat
  /\ {"loop", "background"} \cap Mentions = {}
  /\ IsFiniteSet(Mentions)

VARIABLES
  now,         \* today
  feed,        \* the feed: the date of every post, 0 when it is not in the feed
  scheduled,   \* next_check_due; "none" before the account has a row, "unset"
               \* its default in the year 2100
  mark,        \* feed_last_updated; 0 is its default in 1900
  stored,      \* feed_posts: the posts with a row
  toots,       \* how many toots rows each post got
  broadcasts,  \* how many of them were handed to EnqueueBroadcast
  pc, items, newMark, cur,  \* per goroutine: place, posts to do with their dates,
               \* newLastUpdated, and the post a toot is being made of
  errors, crashes  \* counters of the bounds

accountVars == <<scheduled, mark>>
postVars == <<stored, toots, broadcasts>>
workerVars == <<pc, items, newMark, cur>>
boundVars == <<errors, crashes>>
vars == <<now, feed, accountVars, postVars, workerVars, boundVars>>

Loop == "loop"
Background == "background"
Workers == Mentions \cup {Loop, Background}
Dates == 0..MaxTime
NoItems == [p \in Posts |-> 0]

TypeOK ==
  /\ now \in 1..MaxTime + 1
  /\ feed \in [Posts -> Dates]
  /\ scheduled \in {"none", "unset", "later", "due"}
  /\ mark \in Dates
  /\ stored \subseteq Posts
  /\ toots \in [Posts -> Nat]
  /\ broadcasts \in [Posts -> Nat]
  /\ pc \in [Workers -> {"idle", "add", "created", "existing", "mark", "store",
                         "toot", "enqueue", "failed", "done"}]
  /\ items \in [Workers -> [Posts -> Dates]]
  /\ newMark \in [Workers -> Dates]
  /\ cur \in [Workers -> Posts \cup {NoPost}]
  /\ errors \in 0..MaxErrors
  /\ crashes \in 0..MaxCrashes

-----------------------------------------------------------------------------
(* The publisher and the clock                                               *)

\* A post appears, or an item of the feed is given a newer date (its <updated>).
Publish(p, t) ==
  /\ t > feed[p]
  /\ t > 0
  /\ InOrder => \A q \in Posts : t > feed[q]
  /\ feed' = [feed EXCEPT ![p] = t]
  /\ UNCHANGED <<now, accountVars, postVars, workerVars, boundVars>>

Tick ==
  /\ now <= MaxTime
  /\ now' = now + 1
  /\ UNCHANGED <<feed, accountVars, postVars, workerVars, boundVars>>

\* Time passes until next_check_due; the default in 2100 is not reached.
BecomeDue ==
  /\ scheduled = "later"
  /\ scheduled' = "due"
  /\ UNCHANGED <<now, feed, mark, postVars, workerVars, boundVars>>

-----------------------------------------------------------------------------
(* The start of the three kinds of work                                      *)

\* Where a goroutine goes when updateAccountPosts or what led to it returns:
\* the loop reschedules after an error, everybody else just stops.
AfterError(w) == IF w = Loop THEN "failed" ELSE "done"
AfterSuccess(w) == IF w = Loop THEN "idle" ELSE "done"

GoTo(w, place) == pc' = [pc EXCEPT ![w] = place]

\* Leaves updateAccountPosts: what the goroutine held is gone.
Leave(w, place) ==
  /\ GoTo(w, place)
  /\ items' = [items EXCEPT ![w] = NoItems]
  /\ newMark' = [newMark EXCEPT ![w] = 0]
  /\ cur' = [cur EXCEPT ![w] = NoPost]

TakeFeed(w, place) ==
  /\ GoTo(w, place)
  /\ items' = [items EXCEPT ![w] = feed]
  /\ UNCHANGED <<newMark, cur>>

\* feedCheckLoopInner: GetAccountToCheck, then fetchParseFeed in updateFeed.
CheckDueFeed ==
  /\ pc[Loop] = "idle"
  /\ scheduled = "due"
  /\ TakeFeed(Loop, "mark")
  /\ UNCHANGED <<now, feed, accountVars, postVars, boundVars>>

\* GetAccountForFeed: getSiteInfo fetches the feed ...
RequestFeed(m) ==
  /\ pc[m] = "idle"
  /\ TakeFeed(m, "add")
  /\ UNCHANGED <<now, feed, accountVars, postVars, boundVars>>

\* ... AddAccountIfNotExist tells whether this call created the row ...
AddAccountIfNotExist(m) ==
  /\ pc[m] = "add"
  /\ \/ /\ scheduled = "none"
        /\ scheduled' = "unset"
        /\ GoTo(m, "created")
     \/ /\ scheduled # "none"
        /\ UNCHANGED scheduled
        /\ GoTo(m, "existing")
  /\ UNCHANGED <<now, feed, mark, postVars, items, newMark, cur, boundVars>>

\* ... and GetAccount loads it.  The creator hands its copy of the feed to a
\* goroutine and returns; for an existing account the call goes on itself.
StartBackground(m) ==
  /\ pc[m] = "created"
  /\ pc' = [pc EXCEPT ![m] = "done", ![Background] = "mark"]
  /\ items' = [items EXCEPT ![Background] = items[m], ![m] = NoItems]
  /\ UNCHANGED <<now, feed, accountVars, postVars, newMark, cur, boundVars>>

UseExisting(m) ==
  /\ pc[m] = "existing"
  /\ GoTo(m, "mark")
  /\ UNCHANGED <<now, feed, accountVars, postVars, items, newMark, cur, boundVars>>

-----------------------------------------------------------------------------
(* updateAccountPosts                                                        *)

Pending(w) == {p \in Posts : items[w][p] > 0}

\* checkItemTime: newer than the mark, not too far ahead.
Keeper(date) == date > mark /\ date <= now + FutureLimit

Keepers(w) == {p \in Posts : Keeper(items[w][p])}

\* Mutant of NewLastUpdated: the latest date of the whole feed, kept or not.
NewLastUpdatedOfFeed(w, t) ==
  /\ t = mark \/ \E p \in Posts : t = items[w][p]
  /\ mark <= t /\ \A p \in Posts : items[w][p] <= t

\* The latest date among the mark and the posts kept.
NewLastUpdated(w, t) ==
  /\ t = mark \/ \E p \in Keepers(w) : t = items[w][p]
  /\ mark <= t /\ \A p \in Keepers(w) : items[w][p] <= t

\* GetFeedLastUpdated and getSortedPosts.
ReadMark(w) ==
  /\ pc[w] = "mark"
  /\ GoTo(w, "store")
  /\ \E t \in Dates : NewLastUpdated(w, t) /\ newMark' = [newMark EXCEPT ![w] = t]
  /\ items' = [items EXCEPT ![w] =
                 [p \in Posts |-> IF p \in Keepers(w) THEN items[w][p] ELSE 0]]
  /\ UNCHANGED <<now, feed, accountVars, postVars, cur, boundVars>>

Oldest(w, p) == p \in Pending(w) /\ \A q \in Pending(w) : items[w][p] <= items[w][q]

\* Mutants of StorePostIfNew: a duplicate counts as new; all posts are stored
\* before the first toot is made.
StorePostAsNew(w, p) ==
  /\ pc[w] = "store"
  /\ Oldest(w, p)
  /\ items' = [items EXCEPT ![w][p] = 0]
  /\ stored' = stored \cup {p}
  /\ cur' = [cur EXCEPT ![w] = p]
  /\ GoTo(w, "toot")
  /\ UNCHANGED <<now, feed, accountVars, toots, broadcasts, newMark, boundVars>>
StoreAllPosts(w, p) ==
  /\ pc[w] = "store"
  /\ Oldest(w, p)
  /\ items' = [items EXCEPT ![w] = NoItems]
  /\ stored' = stored \cup Pending(w)
  /\ IF p \in stored THEN UNCHANGED <<cur, pc>>
                     ELSE cur' = [cur EXCEPT ![w] = p] /\ GoTo(w, "toot")
  /\ UNCHANGED <<now, feed, accountVars, toots, broadcasts, newMark, boundVars>>

\* AddFeedPostIfNew.  The unique index on (account_id, post_guid_hash) decides
\* who makes the toot.
StorePostIfNew(w, p) ==
  /\ pc[w] = "store"
  /\ Oldest(w, p)
  /\ items' = [items EXCEPT ![w][p] = 0]
  /\ \/ /\ p \notin stored
        /\ stored' = stored \cup {p}
        /\ cur' = [cur EXCEPT ![w] = p]
        /\ GoTo(w, "toot")
     \/ /\ p \in stored
        /\ UNCHANGED <<stored, cur, pc>>
  /\ UNCHANGED <<now, feed, accountVars, toots, broadcasts, newMark, boundVars>>

\* createToot: AddToot.  The first posts of a new account are not broadcast.
AddToot(w) ==
  /\ pc[w] = "toot"
  /\ toots' = [toots EXCEPT ![cur[w]] = @ + 1]
  /\ \/ /\ w # Background
        /\ GoTo(w, "enqueue")
        /\ UNCHANGED cur
     \/ /\ w = Background
        /\ GoTo(w, "store")
        /\ cur' = [cur EXCEPT ![w] = NoPost]
  /\ UNCHANGED <<now, feed, accountVars, stored, broadcasts, items, newMark, boundVars>>

\* createToot: EnqueueBroadcast (TootQueue says what becomes of it).
EnqueueBroadcast(w) ==
  /\ pc[w] = "enqueue"
  /\ broadcasts' = [broadcasts EXCEPT ![cur[w]] = @ + 1]
  /\ GoTo(w, "store")
  /\ cur' = [cur EXCEPT ![w] = NoPost]
  /\ UNCHANGED <<now, feed, accountVars, stored, toots, items, newMark, boundVars>>

\* Mutant of UpdateAccountFeedTimes: its two times are swapped.
SwapFeedTimes(w) ==
  /\ pc[w] = "store"
  /\ Pending(w) = {}
  /\ mark' = now + FutureLimit + 1
  /\ scheduled' = "due"
  /\ Leave(w, AfterSuccess(w))
  /\ UNCHANGED <<now, feed, postVars, boundVars>>

\* UpdateAccountFeedTimes writes what this goroutine computed from the mark it
\* read, whatever others have written since.
UpdateAccountFeedTimes(w) ==
  /\ pc[w] = "store"
  /\ Pending(w) = {}
  /\ mark' = newMark[w]
  /\ scheduled' = "later"
  /\ Leave(w, AfterSuccess(w))
  /\ UNCHANGED <<now, feed, postVars, boundVars>>

-----------------------------------------------------------------------------
(* Failures                                                                  *)

Busy(w) == pc[w] \notin {"idle", "done"}

\* The database call of any step fails: the error is returned at once.
StepFails(w) ==
  /\ Busy(w)
  /\ pc[w] # "failed"
  /\ errors < MaxErrors
  /\ errors' = errors + 1
  /\ Leave(w, AfterError(w))
  /\ UNCHANGED <<now, feed, accountVars, postVars, crashes>>

\* fetchParseFeed fails.
FetchFails ==
  /\ pc[Loop] = "idle"
  /\ scheduled = "due"
  /\ errors < MaxErrors
  /\ errors' = errors + 1
  /\ GoTo(Loop, "failed")
  /\ UNCHANGED <<now, feed, accountVars, postVars, items, newMark, cur, crashes>>

\* The loop calls RecordFeedCheckError, which may fail itself.
RecordFeedCheckError ==
  /\ pc[Loop] = "failed"
  /\ GoTo(Loop, "idle")
  /\ \/ /\ scheduled' = "later"
        /\ UNCHANGED errors
     \/ /\ errors < MaxErrors
        /\ errors' = errors + 1
        /\ UNCHANGED scheduled
  /\ UNCHANGED <<now, feed, mark, postVars, items, newMark, cur, crashes>>

\* Mutant of LoopPanics: the panic ends the loop's goroutine.
LoopEnds ==
  /\ Busy(Loop)
  /\ pc[Loop] # "failed"
  /\ errors < MaxErrors
  /\ errors' = errors + 1
  /\ Leave(Loop, "done")
  /\ UNCHANGED <<now, feed, accountVars, postVars, crashes>>

\* feedCheckLoopInner recovers from a panic and leaves next_check_due alone.
LoopPanics ==
  /\ Busy(Loop)
  /\ pc[Loop] # "failed"
  /\ errors < MaxErrors
  /\ errors' = errors + 1
  /\ Leave(Loop, "idle")
  /\ UNCHANGED <<now, feed, accountVars, postVars, crashes>>

\* The process dies and starts again: only the loop comes back.
Crash ==
  /\ crashes < MaxCrashes
  /\ crashes' = crashes + 1
  /\ pc' = [w \in Workers |-> IF w = Loop \/ pc[w] = "idle" THEN "idle" ELSE "done"]
  /\ items' = [w \in Workers |-> NoItems]
  /\ newMark' = [w \in Workers |-> 0]
  /\ cur' = [w \in Workers |-> NoPost]
  /\ UNCHANGED <<now, feed, accountVars, postVars, errors>>

-----------------------------------------------------------------------------
Init ==
  /\ now = 1
  /\ feed = NoItems
  /\ scheduled = "none"
  /\ mark = 0
  /\ stored = {}
  /\ toots = [p \in Posts |-> 0]
  /\ broadcasts = [p \in Posts |-> 0]
  /\ pc = [w \in Workers |-> "idle"]
  /\ items = [w \in Workers |-> NoItems]
  /\ newMark = [w \in Workers |-> 0]
  /\ cur = [w \in Workers |-> NoPost]
  /\ errors = 0
  /\ crashes = 0

World ==
  \/ \E p \in Posts, t \in Dates : Publish(p, t)
  \/ Tick
  \/ BecomeDue

GetAccountForFeed(m) ==
  \/ RequestFeed(m)
  \/ AddAccountIfNotExist(m)
  \/ StartBackground(m)
  \/ UseExisting(m)

UpdateAccountPosts(w) ==
  \/ ReadMark(w)
  \/ \E p \in Posts : StorePostIfNew(w, p)
  \/ AddToot(w)
  \/ EnqueueBroadcast(w)
  \/ UpdateAccountFeedTimes(w)

Failure ==
  \/ \E w \in Workers : StepFails(w)
  \/ FetchFails
  \/ LoopPanics
  \/ Crash

Next ==
  \/ World
  \/ CheckDueFeed
  \/ RecordFeedCheckError
  \/ \E m \in Mentions : GetAccountForFeed(m)
  \/ \E w \in Workers : UpdateAccountPosts(w)
  \/ Failure

Spec == Init /\ [][Next]_vars

\* The goroutines run, time passes and the loop looks for due feeds again and
\* again.  Nothing makes a mention come or a post appear.
Fairness ==
  /\ WF_vars(Tick) /\ WF_vars(BecomeDue)
  /\ WF_vars(CheckDueFeed) /\ WF_vars(RecordFeedCheckError)
  /\ \A m \in Mentions : WF_vars(AddAccountIfNotExist(m) \/ StartBackground(m) \/ UseExisting(m))
  /\ \A w \in Workers : WF_vars(UpdateAccountPosts(w))

FairSpec == Spec /\ Fairness

-----------------------------------------------------------------------------
(* Properties                                                                *)

\* However the goroutines interleave, fail and restart, a post is tooted and
\* broadcast at most once, and broadcast only after its toot is stored.
AtMostOneToot == \A p \in Posts : toots[p] <= 1 /\ broadcasts[p] <= toots[p]

\* With a publisher that dates posts in order, feed_last_updated never passes a
\* post that has no row, although goroutines overwrite it with what they made of
\* old copies of the feed and although posts dated too far ahead are left out.
NoPostSkipped ==
  InOrder => \A p \in Posts : feed[p] > 0 /\ feed[p] <= mark => p \in stored

\* A post is stored without a toot only while its goroutine is about to make it,
\* and for good only through a failure: every failed call costs one toot at most,
\* every crash one per goroutine.
TootsMissing == {p \in stored : toots[p] = 0 /\ \A w \in Workers : cur[w] # p}

LossBounded == Cardinality(TootsMissing) <= errors + crashes * Cardinality(Workers)

\* What lies behind the first two.  A post whose toot is being made is in the hands of
\* one goroutine; and a copy of the feed agrees with the feed up to its latest date,
\* so that whoever moves the mark has stored, or found stored, all that it passes.
OneMaker ==
  /\ \A w \in Workers : cur[w] # NoPost <=> pc[w] \in {"toot", "enqueue"}
  /\ \A v, w \in Workers : cur[v] = cur[w] /\ cur[w] # NoPost => v = w
  /\ \A w \in Workers : /\ cur[w] # NoPost => cur[w] \in stored
                        /\ pc[w] = "toot" => toots[cur[w]] = 0
                        /\ pc[w] = "enqueue" => toots[cur[w]] = 1 /\ broadcasts[cur[w]] = 0
  /\ \A p \in Posts : p \notin stored => toots[p] = 0

\* Only one call ever creates the account, so only one background job is started.
CreatedOnce ==
  /\ scheduled = "none" => pc[Background] = "idle" /\ \A m \in Mentions : pc[m] # "created"
  /\ \A m \in Mentions : pc[m] = "created" => pc[Background] = "idle"
  /\ \A m, n \in Mentions : pc[m] = "created" /\ pc[n] = "created" => m = n

HoldsCopy == {w \in Workers : pc[w] \in {"add", "created", "existing", "mark"}}

CopiesInStep ==
  /\ \A w \in Workers, p \in Posts : items[w][p] <= feed[p]
  /\ \A w \in HoldsCopy, p, q \in Posts :
       feed[p] > 0 /\ feed[p] <= items[w][q] => items[w][p] = feed[p]

MarksInStep ==
  /\ mark > 0 => \E q \in Posts : mark <= feed[q]
  /\ \A w \in Workers : newMark[w] > 0 => \E q \in Posts : newMark[w] <= feed[q]
  /\ \A w \in Workers, p \in Posts :
       pc[w] \in {"store", "toot", "enqueue"} /\ feed[p] > 0 /\ feed[p] <= newMark[w]
         => p \in stored \/ items[w][p] > 0

\* An account whose next_check_due is still the default of the year 2100 has the job
\* that will set it under way, unless a call has failed or the process has crashed.
UnsetUnderWay ==
  scheduled = "unset" =>
    \/ \E m \in Mentions : pc[m] = "created"
    \/ pc[Background] \in {"mark", "store", "toot"}
    \/ errors + crashes > 0

\* The inductive invariant: at most one toot of a post and no post skipped, with what
\* these rest on, and somebody at work for every account without a schedule.
FeedInv ==
  /\ CreatedOnce
  /\ OneMaker
  /\ AtMostOneToot
  /\ InOrder => CopiesInStep /\ MarksInStep
  /\ NoPostSkipped
  /\ UnsetUnderWay

\* However the goroutines interleave, fail and restart, they treat the posts as
\* PostLedger says: nothing is recorded that was not published, one toot follows one
\* record and one broadcast one toot, and no mark that a goroutine writes, of
\* whatever copy it was made, passes an unrecorded post.
Ledger == INSTANCE PostLedger WITH recorded <- stored

LedgerPromise == Ledger!Spec

\* A post of a feed that has been checked is at last in feed_posts, whatever
\* goroutines failed or died on the way.
PostsRecorded ==
  \A p \in Posts :
    (feed[p] > 0 /\ scheduled \in {"later", "due"}) ~> (p \in stored)

\* Every post of a requested feed is at last tooted, unless a call fails or the
\* process dies on the way.
PostsTooted ==
  \A p \in Posts :
    (feed[p] > 0 /\ scheduled # "none") ~> (toots[p] > 0 \/ errors + crashes > 0)

\* An account that exists is at last scheduled for the feed check loop: "the
\* Parrot follows the RSS or Atom feeds ... and sends out a toot whenever a new
\* post is published on one of them" (www/main-about.tmpl).
AccountsScheduled == (scheduled # "none") ~> (scheduled \in {"later", "due"})
===============================================================================
