# RSS Parrot: a TLA+ model of the server

RSS Parrot (`src/src/server`, Go) is a fediverse bot.  Every RSS or Atom feed that
somebody asks for gets an account of its own; the server checks the feeds, turns
new posts into toots and delivers these to the followers' servers.  All lasting
state is in one SQLite database behind a process-wide read/write mutex
(`dal/repo.go`): every repository method is atomic and **nothing larger is**, since
no transaction spans two methods.  Goroutines of one process share the database and
a few maps in memory; a crash loses the latter.

This directory models the parts of the server that keep state and run concurrently,
checks them with TLC on small instances, and proves the most important results with
TLAPS for every value of the constants.  `PROJECT.json` lists the components, the
runs, the mutants each property is tried against, the source lines of every
definition, the hazards and the theorems.

File names below are relative to `src/src/server/`.

## Inventory

| part | state it keeps | operations | talks to | what is hard | modelled in |
|---|---|---|---|---|---|
| messenger, `logic/messenger.go` | `toot_queue`; `tqProgress`, goroutines, two channels | EnqueueBroadcast, tootQueueLoop, sendQueuedToot, SendMessageAsync | called by the feed follower and the inbox; key store, activity sender | crash with rows in flight, failed DELETE, ids used again, fetching only above the largest id in progress | TootQueue, TootDelivery |
| feed follower: posts, `logic/feed_follower.go` | `feed_posts`, `toots`, `feed_last_updated`, `next_check_due` | GetAccountForFeed, updateFeed, updateAccountPosts | repository, messenger, summarizer, extractor, retrier | three kinds of goroutine on one account, last writer wins, failure after each commit | FeedUpdate, PostLedger |
| feed follower: the loop, `logic/feed_follower.go` | `next_check_due` of all accounts | feedCheckLoop, GetAccountToCheck, RecordFeedCheckError | updateFeed, mentions, deletions | a check that leaves no record keeps its place at the head of the line | Scheduler |
| retention purge, `feed_follower.go`, `dal/repo.go` | `isPurgingOldPosts`; removes `feed_posts`, `toots`, `toot_summaries` | PurgeOldPosts, PurgePostsAndToots | goroutine after each update of the loop | reads, then deletes; one cut for two different times; two DELETEs without a transaction; removes what keeps a post from being tooted again | Retention |
| discovery, `feed_follower.go`, `logic/blocked_feeds.go`, `shared/formatter.go` | `accounts.handle`, `accounts.feed_url`, file of blocked feeds | getSiteInfo, validateSiteInfo, filterFeed, AddAccountIfNotExist | web sites, repository | a handle is made of a link that several feeds share | Discovery |
| account life, `feed_follower.go`, `dal/repo.go`, `server/api_handlers.go` | `accounts`, `followers` and the tables that refer to them | AddAccountIfNotExist, AddFollower, RemoveFollower, BruteDeleteAccount, purgeUnfollowedAccount, deleteAccount | loop, inbox, administrator, other instances | deletion in four steps with pauses, check then delete, ids used again, keys other instances keep | Accounts, ActorKeys |
| inbox, `logic/inbox.go`, `server/apub_handlers.go`; AcceptFollower of `logic/user_directory.go` | `handled_activities`, `followers.approve_status` | HandleFollow, HandleUndo, HandleCreateNote, AcceptFollower, purge of marks | other servers, feed follower, messenger | copies, reordering, mark before the work, Accept that ends after an Undo | Inbox, FollowerList |
| summary retrier, `logic/summary_retrier.go` | `toot_summaries`, content of `toots` | QueueForRetry, RetryNextDue | summarizer, repository | slow call between read and write, crash between two writes, toot purged meanwhile | SummaryRetry |
| extractor, `logic/article_extractor.go`, `article_cache.go`, `host_throttle.go` | map of pages, map of hosts | ExtractArticle, get, put, reserve | web sites | stale clocks, concurrent misses, eviction and pruning at the limit | ArticleExtractor, HostThrottle |
| repository, `dal/repo.go`, `dal/scripts` | the database | about sixty methods | everybody | SQLite's choice of ids, conflict clauses, defaults | as steps of the modules above |
| key store, activity sender, signature check, user retriever, summarizer | none | one call each | crypto, HTTP | they fail or answer late | as outcomes of the calls |
| language, truncation, ids, wording | none | pure functions | | boundary cases of strings | not modelled |
| web pages, API, server, metrics, profiler, texts, configuration, admin client | none of interest | read and render | | paging | not modelled |

How they interact: a mention (inbox, goroutine of HandleCreateNote) or a POST of the
admin API calls GetAccountForFeed; the loop calls updateFeed.  Both end in
updateAccountPosts, which per new post extracts the article (extractor), asks the
summarizer, stores the toot, queues a late summary (retrier) and broadcasts
(messenger).  Afterwards two purges are started as goroutines.  The inbox changes
followers, which the messenger reads when a toot is queued and the purge counts.
All of that goes through the database, one method at a time.

What makes each part correct:

* messenger: a queued item is tried and then removed, never by two goroutines at once,
  with bounded duplicates and bounded parallelism, and the queue drains;
* feed follower: one toot per post; the mark never passes a post that is not stored;
  a failure loses a bounded number of toots;
* the loop: every due feed gets its turn, and none gets two while another waits;
* retention: only toots that are both old and beyond the number to keep go, and a post
  whose row went is not tooted again;
* discovery: an account toots the posts of one feed, and a feed has one account;
* accounts: no orphaned or adopted rows but for writes behind a deletion's back; the
  purge does not take followers it should have seen;
* inbox: each activity once; nobody follows who did not ask to; who follows gets
  approved;
* retrier: bounded tries, one summary, closed rows stay closed, every row settles;
* extractor: slots of a host are spaced, waits bounded, the cache within its limit.

## Modules

| module | models | role |
|---|---|---|
| `TootQueue`, `TootQueue_proofs`, `MC_TootQueue` | the queue | implements `TootDelivery` |
| `TootDelivery` | the abstract promise | owed until tried, then struck off, never accepted again |
| `FeedUpdate`, `FeedUpdate_proofs`, `MC_FeedUpdate` | posts of one feed | implements `PostLedger` |
| `PostLedger` | the abstract promise | each published post recorded, tooted, announced, once and in this order; a mark that passes nothing |
| `Retention`, `Retention_proofs`, `MC_Retention` | the purge of old posts and toots | composes `FeedUpdate` with the purge |
| `Scheduler`, `Scheduler_proofs`, `MC_Scheduler` | which feed is checked next | all accounts, each check one step |
| `Discovery`, `MC_Discovery` | from an address to a feed and an account | |
| `Accounts`, `Accounts_proofs`, `MC_Accounts` | accounts and deletion | |
| `ActorKeys`, `MC_ActorKeys` | what other instances keep | composes `Accounts` with the Delete activities, and implements it |
| `Inbox`, `Inbox_proofs`, `MC_Inbox` | Follow, Undo, notes, Accept | one account and the birb; implements `FollowerList` |
| `FollowerList` | the abstract promise | activities take effect once and at one moment; only a Follow makes a follower, only who was told is approved |
| `SummaryRetry`, `SummaryRetry_proofs`, `MC_SummaryRetry` | late summaries | |
| `HostThrottle` | slots | |
| `ArticleExtractor`, `ArticleExtractor_proofs`, `MC_ArticleExtractor` | cache, sleep, download | composes `HostThrottle` with the cache and its callers, and implements `ThrottleSpec` |

In the text of a module a "mutant" is a form a definition would have after a plausible
mistake; no specification uses it.  Each property is violated under the mutant that
`PROJECT.json` pairs it with.

### TootQueue

`accounts` and `tootQueue` are tables; `tqProgress` is the map of that name;
`sending` and `waiting` count the goroutines of sendQueuedToot before and after
their POST (the latter block on the unbuffered `tootSent`); `signals` counts the
goroutines blocked on `newTootsInQueue`; `pc` and `left` are the place of each
EnqueueBroadcast.  One action per database access and per case of the loop's
`select`; the fetch that follows each case is the separate step `SendToots`, because
other goroutines get the lock in between.  A row's id is SQLite's: one above the
largest in use.  `SendPanics`: GetPrivKey dereferences a nil PEM block when the
account is gone, in a goroutine without recover, which ends the process.
`attempts` is history only.

*Not in the model*: the content of toots; followers (any set of inboxes may be read);
SendMessageAsync, which touches no shared state.

### FeedUpdate

One account, its row included from creation: `scheduled` is `next_check_due`
(`"unset"` is the default in 2100), `mark` is `feed_last_updated`, `stored` is
`feed_posts`, and `toots` and `broadcasts` count per post.  Each goroutine has a place,
its copy of the feed (`items`) and `newMark`.  Posts are processed oldest first and,
per post, AddFeedPostIfNew, AddToot and EnqueueBroadcast are steps.  The clock counts
days, as does the limit on future dates.  Failures: any database call returns an
error, a fetch fails, the loop's cycle panics and recovers, the process crashes.

*Abstractions*: a post has one date, the later of published and updated;
summaries and article text do not decide anything here; `InOrder` restricts the publisher
to give a post only dates later than all others, which is the precondition of
`NoPostSkipped` and an assumption about the world, not about the code.

*The promise.*  `PostLedger` has no goroutines: a published post is recorded, tooted and
announced in three steps of its own, and the mark may be set to any date up to which
every post is recorded.  `Ledger` maps `recorded` to `stored` and the other variables to
their namesakes.  In the promise the post has one toot at most because its row stays;
`Retention` says what becomes of that when rows are removed (`OneTootPerDate`).

### Retention

Every step of FeedUpdate is a step here, with the rows it writes: `tootRows` is the
table of toots by the day of `tooted_at`, `postTime` the `post_time` of each
`feed_posts` row.  A goroutine of the purge has the places "started", "read" and
"delete"; `purging` is the flag `isPurgingOldPosts`, which all accounts share, so that
another account's purge may hold it.  `cut` stands for `fromBefore`, which is read
before and used after other goroutines have stored posts and toots.  The DELETE of the
posts comes before that of the toots and they are no transaction: `PurgeFails` may
leave the first without the second.

*Pace.*  Whether a purged post comes back depends on how fast things go, so the model
has a unit of time: a "day" is the time in which the loop checks the feed once, and no
update lasts longer than into the next one.  (Checks are at most 14.4 h apart:
getNextCheckTime.)  A publisher dates a post on the day it appears or is changed.
Crashes are left out: a crash ends the updates and the purge as several
`StepFails` and `PurgeFails` do.  Of several purges started and not yet run one is kept,
here and in Accounts.

### Scheduler

`due` are the feeds whose `next_check_due` has passed and `ahead` their order, which is
all that GetAccountToCheck looks at; times themselves are not needed.  A check is one or
two steps and ends in a success, a recorded error, an error that could not be recorded,
or a panic; only the first two move the feed's time.  Mentions reschedule a feed and
deletions remove one while the loop is at it or at another.  `turns` is history.

### Discovery

The web is a constant: which addresses are feeds, which pages link to which feed, which
address a feed calls its site, and the handle of each address.  A request is three steps
(getSiteInfo with the filters, AddAccountIfNotExist, updateAccountPosts), any of which
may fail, and the loop updates accounts from the feed they were created for.
`MC_Discovery` is a site with a feed of posts, which its page links to, and a feed of
comments, which it does not, and a second page with a feed at a usual place.

### Accounts and ActorKeys

`acct` maps ids to feeds; `rows` and `follows` remember for which feed a row was
written, so that "this row belongs to the wrong account" can be said; `late` and
`since` are histories that name who wrote behind whose back.  Workers (mentions, loop)
keep an id and a handle they have read; BruteDeleteAccount is four steps in the order
toots, posts, followers, account; the purge counts by handle and deletes by id.
Summaries are deleted with the toots under one lock and are one table with them here.
The foreign keys of the schema are not enforced (SQLite's default), and ids of deleted
accounts are used again.

`ActorKeys` adds versions of key pairs, the copies other instances keep, and the
sending of Delete activities one inbox at a time.

### Inbox

Handlers have the places "mark" and "work"; between them lies MarkActivityHandled.
`issued` and `pending` are what remote servers have sent and may send again; `done` and
`again` are history.  Accept goroutines have three places (key, POST, approval).
Signature check, lookup of the account and the list of allowed hosts are in the guard
of `Deliver`: a request they refuse changes nothing.  Two assumptions about other
servers: a user issues a second Follow only after an Undo, and a sender gives up before
`activitiesKeptHr` (48 h) have passed, which is why `DeleteHandledActivities` takes the
activity from `pending`.  Deletion of the account is one step here.

*The promise.*  In `FollowerList` there are no marks, copies, handlers or goroutines, and
an activity takes effect in one step, once.  `List` maps `effects` to `done`, `following`
to the Follow a user's row was written for, `approved` to the users whose row is
approved and `told` to the users an Accept has been posted to.

### SummaryRetry

`row`, `attempts` and `due` are a row of `toot_summaries`; `held`, `heldTries` and
`began` are what RetryNextDue has read, and may be stale; `tries` and `summaries` are
history.  Times are relative, so that the state space is finite without a last day.
The summarizer answers with something or nothing.  Purges remove a row and its toot at
any time, or, when the second DELETE fails, the row alone: the toot then stays without a
summary, or gets the one that is under way.

### HostThrottle and ArticleExtractor

`Reserve(h, now)` is reserve with its prune; `now` is any time the caller may have
read before it got the mutex (`Recent`, at most `MaxStale` ago).  The extractor adds
the cache (keys and times; contents are data), the sleep and the download.  It books
slots only through `Reserve`, so that what is proved of `ThrottleSpec` holds of it.

## Runs

| run | instance | distinct states (about) | what it shows |
|---|---|---|---|
| `toot_queue` | 1 toot, 3 inboxes, 2 slots, 3 ids, 1 restart, 1 failed DELETE, deletion of the account, fairness | 43 000 | no concurrent double send, exact slot count, bounded duplicates, the queue implements TootDelivery, and every row is at last tried and removed |
| `feed_update` | 2 posts, 2 mentions, loop, background job, 2 days, 1 failure, 1 crash, fairness | 230 000 | each post recorded, tooted and announced once and in order, and a mark that passes nothing (it implements PostLedger); loss bounded by failures; an account without a schedule has somebody at work; posts are at last recorded, and tooted if nothing fails |
| `retention` | 2 posts, 1 mention, loop, purge, 5 days, 1 failure, keep 1 toot, 4 days | 3 670 000 | the purge keeps the newest; what it removed is not tooted again without a newer date |
| `scheduler` | 4 feeds, fairness | 13 000 | no two turns while another waits; only a feed without a record starves others |
| `accounts` | 2 feeds, 1 user, 1 mention, the loop, the purge, the administrator, 2 creations | 2 910 000 | rows are orphaned or adopted only by late writes; the purge takes late follows only |
| `inbox` | 1 user with Follow, Undo, Follow and a note; 2 handlers; 1 failed call or crash | 508 000 | once only; followers only by a Follow, approved only when told, and a late Accept revives nobody (it implements FollowerList); follows settle |
| `summary_retry` | 2 toots, 3 tries, growing waits, 1 failure | 147 000 | bounded tries and summaries, done means rewritten, rows close for good and settle |
| `article_extractor` | 2 workers, 3 pages of 2 hosts, cache of 2, map of 1, clock to 4 | 928 000 | cache limit, oldest first, slots spaced, waits bounded |
| `feed_update_unset` | violation of `AccountsScheduled` | | a new account whose first update fails is never checked |
| `discovery` | violation of `DedicatedAccount` | | the second feed of a site is tooted by the account of the first |
| `actor_keys` | violation of `NoKeyMismatch` | | an instance without followers here keeps the old key |
| `inbox_handled` | violation of `AlreadyHandledMeansHandled` | | a Follow that failed after its mark is lost |

Why the bounds are enough: the hazards need two actors and one failure each.  Three
inboxes and two slots give a row above, one below and one in what is in progress, with
ids that are used again (with two toots of two inboxes, one million states, the safety
properties were checked, too, and with two toots, one inbox and one slot the liveness); two mentions race for the creation and join the loop and the background job as
third and fourth worker; a purge that keeps one toot of two posts cuts with every
further toot; four feeds are a line with a head, a middle and a feed that comes back;
two creations are the least that use an id again; Follow, Undo, Follow is the shortest
sequence in which an old Undo or Accept meets a newer row; a cache of two and a map of
one are full at once.  More failures only repeat what one does: the bounds of the
properties (`runs + failedDeletes`, `errors + crashes * |Workers|`,
`MaxRetries + failures`) are linear in them.  All invariants, action properties and
refinements of the passing runs are proved for every value of the constants besides
(`AgainOnlyIfRedated` for `MinAge >= 4`); the instances are as large as the liveness
properties allow.

`AgainOnlyIfRedated` was also run with six days (12.5 million states) and with two
failures (8.4 million), beyond what is kept as a run.  Its hypothesis `MinAge >= 4` is
needed: with `MinAge = 3`, two mentions and no failure at all TLC finds a purge that has
chosen its cut, and a check from the round before that still holds its copy of the feed
and stores once more what the purge has just removed.  (With one mention no violation
exists in five days.)  In the code's terms: a round lasts at most 14.4 h (12 h for a feed
of old posts, times 1.2, getNextCheckTime), so posts must be kept for 57.6 h, i.e. a
`posts_min_days_kept` of three days at least, and that counts rounds that succeed.
Counters are bounded in guards and named in each module (comment `bound:`).

Deadlock is not checked in runs whose model may stop for good: the bounds on ids,
days, creations or crashes use up what may happen, and feeds may all be deleted.  It is checked in `summary_retry`.

### Fairness and why the code justifies it

* `TootQueue`: the loop's `select` always has an armed timer, so it never blocks
  (`WF(Loop)`); `select` picks among ready cases at random, so a goroutine that keeps
  waiting on `tootSent` is heard (`SF(RemoveSentToot)`, per row, as there is one
  goroutine per row); a SELECT that fails now and
  then succeeds at last (`SF(SendToots)`); the HTTP client has a timeout (`WF` of the
  send); the container is restarted.  Nothing forces a broadcast, a crash or a delete.
* `FeedUpdate`: goroutines that have begun go on, days pass, due times come, the loop
  looks again.  No mention and no post is forced.
* `Scheduler`: the loop wakes every few seconds, a fetch has a timeout and a panic is
  recovered (`WF(LoopStep)`).  How a check ends is left open, and nothing makes a feed
  due or a mention come.
* `SummaryRetry`: time passes, the loop goes on; the summarizer has a timeout.
* `Inbox`: only a started Accept goroutine goes on to its end.  Nothing is assumed about
  other servers.

Every liveness property that a failed call can break says so in its conclusion
(`errors + crashes > 0`, `lost > 0`), except where the code recovers by itself
(`PostsRecorded`, `PendingSettles`, `QueueDrains`).  `OnlyAStuckFeedStarves` names the one
way in which the loop can be kept from a feed for ever: it is at one and the same other
feed again and again.

## Proofs

| module | proved, for every value of the constants |
|---|---|
| `TootQueue_proofs` | TypeOK, QueueInv, NoDoubleSend, ParallelSendsBounded, NoLeakedSlot, DuplicatesBounded, NothingStranded, and that TootQueue implements TootDelivery |
| `FeedUpdate_proofs` | TypeOK, FeedInv (and its parts AtMostOneToot, NoPostSkipped, UnsetUnderWay), LossBounded, and that FeedUpdate implements PostLedger |
| `Retention_proofs` | RetentionTypeOK, CutIsSafe, KeepsNewest; `Seen!NoPostSkipped` (no post that never had a row is passed by the mark); if `MinAge >= 4`: AgainOnlyIfRedated, RedateInv, OncePerDate (no more toots of a post than days up to its latest date, and no more broadcasts than toots) |
| `Scheduler_proofs` | TypeOK, SchedulerInv, FairTurns |
| `Accounts_proofs` | TypeOK, AccountsInv, PurgeTakesLateFollowsOnly; that ActorKeys implements Accounts, and its CopiesWereTrue |
| `Inbox_proofs` | TypeOK, InboxInv (and its part AcceptUnderWay), CarriedOutOnce, and that Inbox implements FollowerList |
| `SummaryRetry_proofs` | TypeOK, SummaryInv, RetriesBounded, SummariesBounded, DoneMeansRewritten, ClosedStaysClosed |
| `ArticleExtractor_proofs` | of the throttle: the types, ThrottleInv, SlotsSpaced, PastCapOnlyWhenBusy; of the extractor: TypeOK, that it implements ThrottleSpec, CacheBounded, ForgetsOldestOnly, SleepersSpaced, WaitBounded |

Assumptions: the `ASSUME` of each module, which TLC evaluates in the runs (kinds of the
constants; that there are finitely many mentions; that model values that stand for
"none" are no members), and for three theorems about the purge the hypothesis
`MinAge >= 4`, which is a statement about the configuration and the pace (see above) and
holds of the run `retention`.

Arguments:

* **TootQueue.** `NoDoubleSend` is not inductive: that ids in progress are never given
  out again needs that a row in progress stays in the table (`InProgressStillQueued`),
  hence SQLite's "largest plus one" lies above all of them, and that an item has one
  row at most (`RowsUnique`), which needs that EnqueueBroadcast has not stored what is
  still in `left`.  `DuplicatesBounded` keeps one attempt in reserve for each row no
  goroutine has finished with in this run (`AttemptsInStep`).  The refinement maps
  `owed` to the items with a row and `tried` to those with an attempt; a DELETE that
  removes a row follows a POST of the same item, which `AttemptsInStep` supplies.
  `NothingStranded`: rows below those in progress wait until these are done; when nothing
  is in progress the fetch sees the whole table, whose smallest id it takes.
* **FeedUpdate.** One toot: the unique index hands a post to one goroutine
  (`OneMaker`).  The mark: a copy of the feed agrees with the feed up to its own latest
  date if posts are dated in order (`CopiesInStep`), so that whoever moves the mark has
  stored, or found stored, everything it passes (`MarksInStep`), even from an old copy.
  The loss: a step that is no failure adds nothing to `TootsMissing`, since the one post
  a goroutine has stored without a toot is its `cur`; a failed call adds the `cur` of one
  goroutine, a crash the image of `cur`, which is no larger than the set of workers.
  The refinement: an INSERT that finds no row is `Record`, and since the goroutine that got
  the row is the one maker of its toot, AddToot and EnqueueBroadcast find none before them;
  a mark is written by a goroutine whose `newMark` passes nothing, and SetMark allows that.
  A crash and a failed call are stutters.  `UnsetUnderWay` is the safety half of
  `AccountsScheduled`: whatever leaves an account without a schedule for good is a failed
  call or a crash, since the background job, or who is about to start it, is there.
* **Retention.** Every step but the deletions is a step of FeedUpdate or a stutter, so its
  types and lemmas carry over.  What the purge has chosen stays old enough and beyond the
  number to keep until it is deleted (`CutIsSafe`), because toots are only appended, with
  the present day.  That a purged post stays gone rests on rounds.  `Began(w)` is the day a
  goroutine took its copy of the feed, and `LastRound` the last completed check.  The mark
  has passed every date two rounds old (`MarkKeepsUp`), a copy is right about everything
  older than itself and what the mark may still miss of it is less than three days older
  than the copy (`CopiesKeepUp`), so what a goroutine holds after it has compared with the
  mark is recent (`KeepersRecent`).  A row goes only when its date is four days old
  (`GoneLongAgo`, with `CutIsSafe`), which is out of reach of all of these.  Nothing here
  needs posts to be dated in order.  `OncePerDate` counts toots against `known`, the latest
  date a post has had a row for, which grows with each new row: a goroutine with a post in hand has its row, which is too
  recent to be purged under it.  For `Seen!NoPostSkipped` the argument of FeedUpdate is
  repeated with "has ever had a row" for "has a row".
* **Scheduler.** The due feeds are in one line (`WaitingLine`), and a feed that had its
  turn while another waited is behind it and is not the one the loop is at
  (`TurnsInLine`).
* **Accounts.** What a deletion has passed stays empty but for `late` writes
  (`PassedStaysEmpty`); when the account's row goes, nothing of it is left, so a later
  account with the id starts clean (`RowsExplained`).  The purge's count found none, so
  what it meets is in `since` or `late` (`LateFollowsOnly`).
* **ActorKeys.** Each of its steps is a step of Accounts or leaves the accounts alone, so
  that Accounts' theorems hold of it.  No two feeds have the same key and no key is
  newer than the last creation (`KeysNumbered`), so a copy is never newer than its feed's
  key and never the key another feed has (`CopiesWereTrue`): the mismatch TLC finds is
  always a key older than the account.
* **Inbox.** Marks are kept while an activity may come again (`DoneIsRemembered`), and
  two handlers never work on one (`WorkIsFresh`).  With both, each effect is a first one,
  which is what FollowerList asks of Follow, Unfollow and Reply; an approval needs the
  goroutine to have posted its Accept, and goes to a row that exists, so that a late
  Accept brings nobody back.  `AcceptUnderWay` is the safety half of `FollowSettles`: who
  follows is approved, or a goroutine for him is at work, or something has failed.
* **SummaryRetry.** The row a loop holds is as it was read unless it was removed
  (`LoopInStep`), each try is booked in `attempts` or paid for by a failure
  (`TriesInStep`, `SummariesInStep`).
* **HostThrottle.** Each slot is covered by its host's entry, or its gap has passed
  already, so that pruning the entry does no harm (`Covered`).
* **ArticleExtractor.** It implements `ThrottleSpec`, so all of the above holds of it.  The
  slot of a sleeping worker is covered, too, which spaces the sleepers.  `WaitBounded`
  is not inductive, since time passes and workers wake: it is proved for every time that
  is not past, with the sleepers whose slot lies after that time (`WaitInv`).

Only model-checked: liveness (`QueueDrains`, `PostsRecorded`, `PostsTooted`,
`OnlyAStuckFeedStarves`, `FollowSettles`, `PendingSettles`), since fairness is out of the
prover's reach.  Of three the safety half is proved: `LossBounded` (a post is not tooted
only if something failed), `AcceptUnderWay`, and for QueueDrains `NothingStranded`: while
the table has a row, a goroutine exists or a fetch finds a row, so that the loop is never
left with rows that it cannot see.
`Discovery` has no theorem: its one property fails.

## Disagreements with the documentation

Each has a run whose counterexample TLC finds.

* `feed_update_unset`: "sends out a toot whenever a new post is published"
  (`www/main-about.tmpl`); a new account whose background job fails keeps its default
  due time in 2100.
* `discovery`: "Every feed has a dedicated account" (`www/main-about.tmpl:9`); the handle is
  made of the site a feed links to and the account is looked up by handle alone, so a
  request for a site's second feed updates, and toots from, the account of the first.
* `actor_keys`: sendDeleteToKnownInstances promises to prevent key mismatches, and
  asks for instances when those that matter are no followers any more.
* `inbox_handled`: "activity was handled before" (`dal/repo.go:907`) holds of activities
  that were only marked; a failed insert or a crash after the mark loses the Follow.

Met while modelling and not made a run of their own:

* "Every time a new post appears in the feed, I toot about it"
  (`texts/snippets/acct_bio.html`); storePostIfNew commits the row before the toot, and a
  failure or a crash in between leaves the post known and never tooted
  (`logic/feed_follower.go:626`; `LossBounded` says how many);
* getFeedUrl resolves a missing alternate link to the page itself, so that the probing of
  the usual places ("when autodiscovery fails", `logic/feed_follower.go:280`) happens only
  for pages that cannot be loaded;
* a feed whose check panics every time, or whose error cannot be recorded, keeps the loop
  from all other feeds (`dal/repo.go:762`);
* PurgePostsAndToots deletes posts, summaries and toots by statements of their own,
  without a transaction (`dal/repo.go:870`);
* a POST that fails loses the toot for that inbox: the result of Send is ignored and the
  row is deleted (`logic/messenger.go:262`);
* a row of the queue that lies below one in progress waits until nothing is in progress;
  an endless stream of new toots, which the runs do not have, would starve it
  (`logic/messenger.go:146`);
* a post that appears with a date not later than the mark is never recorded
  (`logic/feed_follower.go:565`);
* a row whose toot was rewritten may end up abandoned after its last try when the call
  that closes it is lost (`logic/summary_retrier.go:193`, `dal/entities.go:73`);
* two callers that miss the cache download a page twice
  (`logic/article_extractor.go:147`);
* SetFollowerApproveStatus goes by user: an old Accept may approve the row of a newer
  Follow, and an Undo that arrives late removes the row of a newer Follow;
* AddFollower of a repeated Follow takes the approval back until the next Accept;
* a purge whose account has been deleted meanwhile, and whose id has been used again, goes
  on to delete the next account and its followers: BruteDeleteAccount goes by id alone
  (`logic/feed_follower.go:1023`; PurgeTakesLateFollowsOnly leaves that case out);
* GetAccountToCheck has no ORDER BY: that the longest due feed comes first rests on the
  query being served by the index on `next_check_due` (`dal/repo.go:768`,
  `dal/scripts/create-01.sql:29`), and Scheduler's fairness with it.

## Plan

Done in this order, most important behaviour first: TootQueue with TootDelivery,
FeedUpdate, SummaryRetry, HostThrottle and ArticleExtractor, Accounts with ActorKeys,
Inbox, Retention, Scheduler, Discovery.

What is left:

1. **Text**: InsertSummaryHtml, TruncateWithEllipsis, trimQueryParams, the order of
   preference of language tags and the paging of the feed list, as operators checked
   against reference definitions over bounded inputs.
2. **Abstract specifications** for SummaryRetry ("tried a bounded number of times, then
   closed") and for Scheduler (a fair line), with refinements onto them.
3. **Composition**: TootQueue below FeedUpdate, so that "tooted" becomes "delivered or
   given up" for each follower.

## Not modelled

Cryptography, HTTP and JSON; the text of toots, replies and pages; HTML parsing, icons and
descriptions of sites; language detection; web pages and the read-only ActivityPub
handlers; metrics, profiler, configuration, start-up and the admin client: they keep no
state that other parts read.  Vacuum and the migrations run alone under the repository's
lock.
