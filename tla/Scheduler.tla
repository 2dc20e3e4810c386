------------------------------- MODULE Scheduler -------------------------------
(***************************************************************************)
(* Which feed is checked next (feedCheckLoop in                            *)
(* server/logic/feed_follower.go, GetAccountToCheck in server/dal/repo.go).*)
(*                                                                         *)
(* One loop serves all accounts.  It asks for one account whose            *)
(* next_check_due has passed; the index on next_check_due makes this the   *)
(* one that has been due longest.  The account stays due until something   *)
(* moves its time: an update that succeeds, be it the loop's or a          *)
(* mention's, or the loop's record of an error.  A panic moves nothing.    *)
(***************************************************************************)
EXTENDS Naturals

CONSTANTS
  Feeds,    \* the feeds of the accounts
  NoFeed    \* no feed

ASSUME SchedulerAssumption == NoFeed \notin Feeds

VARIABLES
  accounts,  \* the feeds that have an account
  due,       \* those whose next_check_due has passed
  ahead,     \* <<a, b>>: a has an earlier next_check_due than b, both are due
  loop,      \* place of the loop: "idle", "update", "failed"
  current,   \* the feed it is at
  turns      \* history: for <<a, b>>, how often the loop has rescheduled b
             \* since a has been due

loopVars == <<loop, current>>
vars == <<accounts, due, ahead, loopVars, turns>>

TypeOK ==
  /\ accounts \subseteq Feeds
  /\ due \subseteq accounts
  /\ ahead \subseteq due \X due
  /\ loop \in {"idle", "update", "failed"}
  /\ current \in Feeds \cup {NoFeed}
  /\ current = NoFeed <=> loop = "idle"
  /\ turns \in [Feeds \X Feeds -> Nat]

-----------------------------------------------------------------------------
(* Due times                                                                 *)

\* Mutant of BecomeDue: a feed that becomes due is put before all others.
BecomeDueFirst(f) ==
  /\ f \in accounts \ due
  /\ due' = due \cup {f}
  /\ ahead' = ahead \cup {<<f, g>> : g \in due}
  /\ UNCHANGED <<accounts, loopVars, turns>>

\* Time passes the feed's next_check_due, which is later than those it has passed
\* before.
BecomeDue(f) ==
  /\ f \in accounts \ due
  /\ due' = due \cup {f}
  /\ ahead' = ahead \cup {<<g, f>> : g \in due}
  /\ UNCHANGED <<accounts, loopVars, turns>>

\* Mutant of NoLongerDue: the feed keeps its place in the line.
NoLongerDueInLine(f) ==
  /\ due' = due \ {f}
  /\ UNCHANGED ahead

\* The feed's next_check_due is a time to come, or its account has gone.
NoLongerDue(f) ==
  /\ due' = due \ {f}
  /\ ahead' = {e \in ahead : e[1] # f /\ e[2] # f}

\* From now on nobody has been passed over for f.
FreshTurns(f) == turns' = [e \in Feeds \X Feeds |-> IF e[1] = f THEN 0 ELSE turns[e]]

-----------------------------------------------------------------------------
(* Accounts come and go, and mentions update them                            *)

\* GetAccountForFeed updates the account, be it new or not, and reschedules it.
\* (FeedUpdate says what becomes of an account whose first update fails.)
UpdateByMention(f) ==
  /\ accounts' = accounts \cup {f}
  /\ NoLongerDue(f)
  /\ FreshTurns(f)
  /\ UNCHANGED loopVars

DeleteAccount(f) ==
  /\ f \in accounts
  /\ accounts' = accounts \ {f}
  /\ NoLongerDue(f)
  /\ FreshTurns(f)
  /\ UNCHANGED loopVars

-----------------------------------------------------------------------------
(* feedCheckLoop                                                             *)

Oldest(f) == f \in due /\ \A g \in due : <<g, f>> \notin ahead

\* Mutant of GetAccountToCheck: the account that has become due last.
GetLatestToCheck(f) ==
  /\ loop = "idle"
  /\ f \in due /\ \A g \in due : <<f, g>> \notin ahead
  /\ loop' = "update"
  /\ current' = f
  /\ UNCHANGED <<accounts, due, ahead, turns>>

\* LIMIT 1 of the accounts with next_check_due < now, in the order of the index.
GetAccountToCheck(f) ==
  /\ loop = "idle"
  /\ Oldest(f)
  /\ loop' = "update"
  /\ current' = f
  /\ UNCHANGED <<accounts, due, ahead, turns>>

Rest ==
  /\ loop' = "idle"
  /\ current' = NoFeed

\* Moves next_check_due, if the account is still there.
Reschedule(f) ==
  /\ NoLongerDue(f)
  /\ turns' = [e \in Feeds \X Feeds |->
                 IF e[1] = f THEN 0
                 ELSE IF e[2] = f /\ e[1] \in due THEN turns[e] + 1
                 ELSE turns[e]]

\* updateFeed, to UpdateAccountFeedTimes.
UpdateSucceeds ==
  /\ loop = "update"
  /\ Reschedule(current)
  /\ Rest
  /\ UNCHANGED accounts

\* updateFeed returns an error.
UpdateFails ==
  /\ loop = "update"
  /\ loop' = "failed"
  /\ UNCHANGED <<accounts, due, ahead, current, turns>>

RecordFeedCheckError ==
  /\ loop = "failed"
  /\ Reschedule(current)
  /\ Rest
  /\ UNCHANGED accounts

\* RecordFeedCheckError fails, which is only logged.
RecordFails ==
  /\ loop = "failed"
  /\ Rest
  /\ UNCHANGED <<accounts, due, ahead, turns>>

\* The cycle panics and is recovered, or the process is started again.
LoopPanics ==
  /\ loop # "idle"
  /\ Rest
  /\ UNCHANGED <<accounts, due, ahead, turns>>

-----------------------------------------------------------------------------
Init ==
  /\ accounts \in SUBSET Feeds
  /\ due = {}
  /\ ahead = {}
  /\ loop = "idle"
  /\ current = NoFeed
  /\ turns = [e \in Feeds \X Feeds |-> 0]

LoopStep ==
  \/ \E f \in Feeds : GetAccountToCheck(f)
  \/ UpdateSucceeds
  \/ UpdateFails
  \/ RecordFeedCheckError
  \/ RecordFails
  \/ LoopPanics

Next ==
  \/ \E f \in Feeds : BecomeDue(f) \/ UpdateByMention(f) \/ DeleteAccount(f)
  \/ LoopStep

Spec == Init /\ [][Next]_vars

\* The loop goes on: it wakes every few seconds, fetching has a timeout, and a
\* panic is recovered.  How a check ends is left open; nothing makes a feed due.
FairSpec == Spec /\ WF_vars(LoopStep)

-----------------------------------------------------------------------------
(* Properties                                                                *)

\* While a feed waits, no other feed gets two turns, although the loop goes on
\* with an account that mentions have rescheduled, or that was deleted, meanwhile.
FairTurns == \A e \in Feeds \X Feeds : e[1] \in due => turns[e] <= 1

\* The inductive invariant.  The due feeds are in line; whoever waited when another
\* feed had its turn is ahead of it, and the loop is not at that feed again.
WaitingLine ==
  /\ \A f \in due : <<f, f>> \notin ahead
  /\ \A f, g \in due : f # g => (<<f, g>> \in ahead <=> <<g, f>> \notin ahead)
  /\ \A f, g, h \in due : <<f, g>> \in ahead /\ <<g, h>> \in ahead => <<f, h>> \in ahead

TurnsInLine ==
  /\ \A f, g \in Feeds : f \notin due => turns[<<f, g>>] = 0
  /\ \A f, g \in Feeds : turns[<<f, g>>] > 0 =>
       /\ current # g
       /\ g \in due => <<f, g>> \in ahead

SchedulerInv == WaitingLine /\ TurnsInLine /\ FairTurns

\* A due feed is at last checked, updated or deleted, unless the loop is at one
\* and the same feed for ever, whose checks all panic or leave no record.
OnlyAStuckFeedStarves ==
  \A f \in Feeds :
    \/ f \in due ~> f \notin due
    \/ \E g \in Feeds : <>[](current \in {g, NoFeed})
===============================================================================
