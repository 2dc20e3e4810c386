------------------------------- MODULE Accounts -------------------------------
(***************************************************************************)
(* The life of a feed's account (server/dal/repo.go,                       *)
(* server/logic/feed_follower.go, server/server/api_handlers.go): it is    *)
(* created by a mention, checked by the loop, followed and unfollowed, and *)
(* deleted, with the rows that refer to it, when nobody follows it or when *)
(* the administrator says so.                                              *)
(*                                                                         *)
(* Repository methods are atomic.  BruteDeleteAccount is four of them with *)
(* pauses in between, and whoever works for an account holds its id and    *)
(* handle from a row read earlier.  SQLite gives a new row the highest id  *)
(* in the table plus one, so ids are used again; the foreign keys of the   *)
(* tables are declared but not enforced.                                   *)
(***************************************************************************)
EXTENDS Integers

CONSTANTS
  Feeds,        \* the feeds' handles
  Users,        \* remote users, each on an instance of its own
  Mentions,     \* requests for feeds
  Loop,         \* the feed check loop
  NoFeed,       \* no feed
  Written,      \* bound: which of "posts" and "toots" the workers write
  AdminDeletes, \* bound: whether the administrator deletes accounts
  MaxCreations  \* bound: accounts created

ASSUME AccountsAssumption ==
  /\ NoFeed \notin Feeds
  /\ Loop \notin Mentions
  /\ Written \subseteq {"posts", "toots"}
  /\ AdminDeletes \in BOOLEAN
  /\ MaxCreations \in Nat

Ids == 1..MaxCreations        \* account ids after the birb's
Workers == Mentions \cup {Loop}
Deleters == {"purge", "api"}  \* who may run BruteDeleteAccount
Tables == {"toots", "posts", "followers"}

VARIABLES
  acct,      \* accounts: the feed of each id, NoFeed where there is no row
  rows,      \* rows of the other tables: the ids and the feeds they were written for
  follows,   \* the follower rows among these, with their user
  created,   \* counter of the bound
  at,        \* workers: "idle", "lookup", "start", "post"
  id,        \* the account id a worker holds
  feed,      \* the handle a worker holds
  purge,     \* the purge: "none", "count", "key", "send", "delete"
  target,    \* the account the purge holds, as id and feed
  deleting,  \* the table a deleter turns to next: one of Tables, "accounts", "none"
  victim,    \* the id a deleter deletes
  late,      \* history: tables and ids written to after a deletion had passed them
  since      \* history: follows that arrived after the purge counted

accountVars == <<acct, created>>
tableVars == <<rows, follows, late, since>>
workerVars == <<at, id, feed>>
purgeVars == <<purge, target>>
deleteVars == <<deleting, victim>>
vars == <<accountVars, tableVars, workerVars, purgeVars, deleteVars>>

TypeOK ==
  /\ acct \in [Ids -> Feeds \cup {NoFeed}]
  /\ \A i, j \in Ids : acct[i] = acct[j] /\ acct[i] # NoFeed => i = j
  /\ rows \subseteq {"toots", "posts"} \X Ids \X Feeds
  /\ follows \subseteq Ids \X Users \X Feeds
  /\ created \in 0..MaxCreations
  /\ at \in [Workers -> {"idle", "lookup", "start", "post"}]
  /\ id \in [Workers -> Ids \cup {0}]
  /\ feed \in [Workers -> Feeds \cup {NoFeed}]
  /\ \A w \in Workers :
       /\ at[w] # "idle" => feed[w] \in Feeds
       /\ at[w] \in {"start", "post"} => id[w] \in Ids
  /\ purge \in {"none", "count", "key", "send", "delete"}
  /\ purge # "none" => target \in Ids \X Feeds
  /\ target \in (Ids \X Feeds) \cup {<<0, NoFeed>>}
  /\ deleting \in [Deleters -> Tables \cup {"accounts", "none"}]
  /\ victim \in [Deleters -> Ids \cup {0}]
  /\ \A d \in Deleters : deleting[d] # "none" => victim[d] \in Ids
  /\ late \subseteq Tables \X Ids
  /\ since \subseteq Users \X Feeds

-----------------------------------------------------------------------------
(* The accounts table                                                        *)

Exists(f) == \E i \in Ids : acct[i] = f
IdOf(f) == CHOOSE i \in Ids : acct[i] = f
Stored == {i \in Ids : acct[i] # NoFeed}

\* SQLite's choice for a new row: one more than the highest id there is.
NextId(i) ==
  /\ \A j \in Stored : j < i
  /\ i = 1 \/ i - 1 \in Stored

\* A row written to a table for an id that is no longer the feed's, or whose
\* deletion has passed that table already.
Passed(table) ==
  CASE table = "toots" -> {"posts", "followers", "accounts"}
    [] table = "posts" -> {"followers", "accounts"}
    [] table = "followers" -> {"accounts"}

TooLate(table, i, f) ==
  \/ acct[i] # f
  \/ \E d \in Deleters : victim[d] = i /\ deleting[d] \in Passed(table)

Note(table, i, f) == late' = IF TooLate(table, i, f) THEN late \cup {<<table, i>>} ELSE late

-----------------------------------------------------------------------------
(* Followers                                                                 *)

\* HandleFollow; AddFollower finds the account under the lock it inserts under.
AddFollower(u, f) ==
  /\ Exists(f)
  /\ follows' = {r \in follows : ~(r[1] = IdOf(f) /\ r[2] = u)} \cup {<<IdOf(f), u, f>>}
  /\ since' = IF purge \in {"none", "count"} THEN since ELSE since \cup {<<u, f>>}
  /\ Note("followers", IdOf(f), f)
  /\ UNCHANGED <<accountVars, rows, workerVars, purgeVars, deleteVars>>

\* HandleUndo.
RemoveFollower(u, f) ==
  /\ Exists(f)
  /\ follows' = {r \in follows : ~(r[1] = IdOf(f) /\ r[2] = u)}
  /\ UNCHANGED <<accountVars, rows, late, since, workerVars, purgeVars, deleteVars>>

-----------------------------------------------------------------------------
(* Requests and the feed check loop                                          *)

\* Mutant of AddAccountIfNotExist: handles are not unique.
AddAccountAlways(w, f) ==
  /\ w \in Mentions
  /\ at[w] = "idle"
  /\ created < MaxCreations
  /\ created' = created + 1
  /\ \E i \in Ids : NextId(i) /\ acct' = [acct EXCEPT ![i] = f]
  /\ at' = [at EXCEPT ![w] = "lookup"]
  /\ feed' = [feed EXCEPT ![w] = f]
  /\ UNCHANGED <<tableVars, id, purgeVars, deleteVars>>

\* GetAccountForFeed: AddAccountIfNotExist; the handle is unique.
AddAccountIfNotExist(w, f) ==
  /\ w \in Mentions
  /\ at[w] = "idle"
  /\ \/ Exists(f) /\ UNCHANGED accountVars
     \/ /\ ~Exists(f)
        /\ created < MaxCreations
        /\ created' = created + 1
        /\ \E i \in Ids : NextId(i) /\ acct' = [acct EXCEPT ![i] = f]
  /\ at' = [at EXCEPT ![w] = "lookup"]
  /\ feed' = [feed EXCEPT ![w] = f]
  /\ UNCHANGED <<tableVars, id, purgeVars, deleteVars>>

Rest(w) ==
  /\ at' = [at EXCEPT ![w] = "idle"]
  /\ id' = [id EXCEPT ![w] = 0]
  /\ feed' = [feed EXCEPT ![w] = NoFeed]

\* GetAccountForFeed: GetAccount.  An account deleted meanwhile is no error
\* there, and the goroutine panics: that is Crash.
GetAccount(w) ==
  /\ at[w] = "lookup"
  /\ Exists(feed[w])
  /\ id' = [id EXCEPT ![w] = IdOf(feed[w])]
  /\ at' = [at EXCEPT ![w] = "start"]
  /\ UNCHANGED <<accountVars, tableVars, feed, purgeVars, deleteVars>>

\* GetAccountToCheck; the loop has the feed fetched before it goes on.
GetAccountToCheck ==
  /\ at[Loop] = "idle"
  /\ \E i \in Stored :
       /\ id' = [id EXCEPT ![Loop] = i]
       /\ feed' = [feed EXCEPT ![Loop] = acct[i]]
  /\ at' = [at EXCEPT ![Loop] = "start"]
  /\ UNCHANGED <<accountVars, tableVars, purgeVars, deleteVars>>

\* updateAccountPosts: GetFeedLastUpdated, which asks by id.
GetFeedLastUpdated(w) ==
  /\ at[w] = "start"
  /\ acct[id[w]] # NoFeed
  /\ at' = [at EXCEPT ![w] = "post"]
  /\ UNCHANGED <<accountVars, tableVars, id, feed, purgeVars, deleteVars>>

\* storePostIfNew: AddFeedPostIfNew, then AddToot, for one post after the other.
AddRow(w, table) ==
  /\ at[w] = "post"
  /\ rows' = rows \cup {<<table, id[w], feed[w]>>}
  /\ Note(table, id[w], feed[w])
  /\ UNCHANGED <<accountVars, follows, since, workerVars, purgeVars, deleteVars>>

\* There are no more posts, or a call failed.
MentionDone(w) ==
  /\ w \in Mentions
  /\ at[w] # "idle"
  /\ Rest(w)
  /\ UNCHANGED <<accountVars, tableVars, purgeVars, deleteVars>>

\* The loop is through with the account and starts a goroutine to purge it, which
\* ends at once when another purge is running; a cycle that panics starts none.
\* (Of goroutines that have not counted yet only the first one started is kept.)
LoopDone ==
  /\ at[Loop] \in {"start", "post"}
  /\ Rest(Loop)
  /\ \/ purge = "none" /\ purge' = "count" /\ target' = <<id[Loop], feed[Loop]>>
     \/ UNCHANGED purgeVars
  /\ UNCHANGED <<accountVars, tableVars, deleteVars>>

-----------------------------------------------------------------------------
(* BruteDeleteAccount                                                        *)

\* Mutant of NextTable: the account's row goes before its followers.
NextTableAccountFirst(table) ==
  CASE table = "toots" -> "posts"
    [] table = "posts" -> "accounts"
    [] table = "accounts" -> "followers"
    [] table = "followers" -> "none"

NextTable(table) ==
  CASE table = "toots" -> "posts"
    [] table = "posts" -> "followers"
    [] table = "followers" -> "accounts"
    [] table = "accounts" -> "none"

StartDeleting(d, i) ==
  /\ deleting' = [deleting EXCEPT ![d] = "toots"]
  /\ victim' = [victim EXCEPT ![d] = i]

\* One of the four steps; the purge is over with the last one.
DeleteFrom(d) ==
  LET table == deleting[d]
      i == victim[d]
      next == NextTable(table)
  IN /\ table # "none"
     /\ rows' = {r \in rows : ~(r[1] = table /\ r[2] = i)}
     /\ follows' = IF table = "followers" THEN {r \in follows : r[1] # i} ELSE follows
     /\ acct' = IF table = "accounts" THEN [acct EXCEPT ![i] = NoFeed] ELSE acct
     /\ late' = late \ {<<table, i>>}
     /\ deleting' = [deleting EXCEPT ![d] = next]
     /\ victim' = [victim EXCEPT ![d] = IF next = "none" THEN 0 ELSE i]
     /\ IF d = "purge" /\ next = "none"
        THEN purge' = "none" /\ target' = <<0, NoFeed>>
        ELSE UNCHANGED purgeVars
     /\ UNCHANGED <<created, since, workerVars>>

\* A step fails: the deletion ends where it is.
DeleteFails(d) ==
  /\ deleting[d] # "none"
  /\ deleting' = [deleting EXCEPT ![d] = "none"]
  /\ victim' = [victim EXCEPT ![d] = 0]
  /\ IF d = "purge" THEN purge' = "none" /\ target' = <<0, NoFeed>> ELSE UNCHANGED <<purge, target>>
  /\ UNCHANGED <<accountVars, tableVars, workerVars>>

\* The administrator deletes an account; nobody is told.
ApiDelete ==
  /\ AdminDeletes
  /\ deleting["api"] = "none"
  /\ \E i \in Stored : StartDeleting("api", i)
  /\ UNCHANGED <<accountVars, tableVars, workerVars, purgeVars>>

-----------------------------------------------------------------------------
(* purgeUnfollowedAccount                                                    *)

\* The followers GetFollowerCount counts: it finds the account by its handle.
Followers(f) == {r \in follows : Exists(f) /\ r[1] = IdOf(f)}

\* Mutant of CountFollowers: the account is deleted whoever follows it.
CountNobody ==
  /\ purge = "count"
  /\ purge' = "key"
  /\ since' = {}
  /\ UNCHANGED <<accountVars, rows, follows, late, workerVars, target, deleteVars>>

\* The purge goes on when there are none; it ends when there are some, and when
\* the call fails.
CountFollowers ==
  /\ purge = "count"
  /\ since' = {}
  /\ \/ Followers(target[2]) = {} /\ purge' = "key" /\ UNCHANGED target
     \/ purge' = "none" /\ target' = <<0, NoFeed>>
  /\ UNCHANGED <<accountVars, rows, follows, late, workerVars, deleteVars>>

\* sendDeleteToKnownInstances: GetPrivKey.  When it fails nothing is sent and the
\* purge goes on; when the account is gone it panics.
GetPrivKey ==
  /\ purge = "key"
  /\ purge' = "send"
  /\ UNCHANGED <<accountVars, tableVars, workerVars, target, deleteVars>>

\* The Delete activities are sent, one after the other (see ActorKeys).
DeletesSent ==
  /\ purge = "send"
  /\ purge' = "delete"
  /\ StartDeleting("purge", target[1])
  /\ UNCHANGED <<accountVars, tableVars, workerVars, target>>

-----------------------------------------------------------------------------

AllWorkers(x) == [w \in Workers |-> x]
AllDeleters(x) == [d \in Deleters |-> x]

\* The process dies, of a panic of its own or otherwise, and is started again.
Crash ==
  /\ at' = AllWorkers("idle") /\ id' = AllWorkers(0) /\ feed' = AllWorkers(NoFeed)
  /\ purge' = "none" /\ target' = <<0, NoFeed>>
  /\ deleting' = AllDeleters("none") /\ victim' = AllDeleters(0)
  /\ UNCHANGED <<accountVars, tableVars>>

Init ==
  /\ acct = [i \in Ids |-> NoFeed]
  /\ created = 0
  /\ rows = {} /\ follows = {} /\ late = {} /\ since = {}
  /\ at = AllWorkers("idle") /\ id = AllWorkers(0) /\ feed = AllWorkers(NoFeed)
  /\ purge = "none" /\ target = <<0, NoFeed>>
  /\ deleting = AllDeleters("none") /\ victim = AllDeleters(0)

Next ==
  \/ \E u \in Users, f \in Feeds : AddFollower(u, f) \/ RemoveFollower(u, f)
  \/ \E w \in Workers, f \in Feeds : AddAccountIfNotExist(w, f)
  \/ \E w \in Workers : GetAccount(w) \/ GetFeedLastUpdated(w) \/ MentionDone(w)
  \/ \E w \in Workers, table \in Written : AddRow(w, table)
  \/ GetAccountToCheck \/ LoopDone
  \/ \E d \in Deleters : DeleteFrom(d) \/ DeleteFails(d)
  \/ ApiDelete
  \/ CountFollowers \/ GetPrivKey \/ DeletesSent
  \/ Crash

Spec == Init /\ [][Next]_vars

-----------------------------------------------------------------------------
(* Properties                                                                *)

\* Rows refer to the account they were written for.  A deletion that nothing
\* interferes with leaves no orphans, a crash or a failed step in its middle
\* included, and an account that gets a used id finds no rows there; the only
\* rows that refer to no account, or to another one, were written behind a
\* deletion's back.
RowsExplained ==
  /\ \A r \in rows : acct[r[2]] # r[3] => <<r[1], r[2]>> \in late
  /\ \A r \in follows : acct[r[1]] # r[3] => <<"followers", r[1]>> \in late

\* Once the purge has found that nobody follows the account it holds, the follows
\* that are there nevertheless came after it had counted, or an earlier deletion
\* had missed them.
LateFollowsOnly ==
  purge \in {"key", "send", "delete"} =>
    \A r \in follows :
      r[3] = target[2] => <<r[2], r[3]>> \in since \/ <<"followers", r[1]>> \in late

\* What a deletion has removed stays removed, but for what is written late.
PassedStaysEmpty ==
  \A d \in Deleters, table \in Tables :
    deleting[d] \in Passed(table) =>
      /\ \A r \in rows : r[1] = table /\ r[2] = victim[d] => <<table, victim[d]>> \in late
      /\ \A r \in follows :
           table = "followers" /\ r[1] = victim[d] => <<table, victim[d]>> \in late

\* BruteDeleteAccount runs for the purge only as its last stage, and for the id
\* the purge has held since it counted.
PurgeDeletesItsTarget ==
  deleting["purge"] # "none" => purge = "delete" /\ victim["purge"] = target[1]

\* The inductive invariant: rows and followers are orphaned only by writes behind
\* a deletion's back.
AccountsInv == RowsExplained /\ PassedStaysEmpty /\ LateFollowsOnly /\ PurgeDeletesItsTarget

\* The purge never takes a follower from an account somebody followed when it
\* began: what it deletes are late follows, as long as the id it holds is its feed's.
\* (Once the account is gone and its id used again, the purge deletes from the next
\* account, of which only rows of its own feed are spoken of here.)
PurgeTakesLateFollowsOnly ==
  [][deleting["purge"] = "followers" /\ deleting'["purge"] = NextTable("followers") =>
       \A r \in follows \ follows' :
         r[3] = target[2] \/ (r[1] = target[1] /\ acct[target[1]] = target[2]) =>
           <<r[2], r[3]>> \in since \/ <<"followers", r[1]>> \in late]_vars
===============================================================================
