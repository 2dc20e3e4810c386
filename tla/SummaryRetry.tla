----------------------------- MODULE SummaryRetry -----------------------------
(***************************************************************************)
(* Late AI summaries (server/logic/summary_retrier.go).                    *)
(*                                                                         *)
(* createToot stores a toot and, when its summary came out empty, queues a *)
(* row of toot_summaries.  One loop takes the longest due row, asks the    *)
(* summarizer again, and rewrites the toot, reschedules the row or         *)
(* abandons it.  What the loop knows of the row and of the toot is as old  *)
(* as the summarizer is slow; purges delete toots and rows meanwhile.      *)
(*                                                                         *)
(* Times are relative: how long until a row is due, how long ago the loop  *)
(* read the clock.                                                         *)
(***************************************************************************)
EXTENDS Integers, FiniteSets

CONSTANTS
  Toots,        \* toots whose summary was empty when they were posted
  NoToot,       \* no toot
  MaxRetries,   \* maxSummaryRetries
  Backoff,      \* summaryRetryBackoff: the wait after so many attempts
  MaxWait,      \* the longest of these waits
  MaxLate,      \* bound: how long overdue a row is told apart
  MaxFailures   \* bound: failed database calls, panics and crashes, together

ASSUME SummaryAssumption ==
  /\ NoToot \notin Toots
  /\ MaxRetries \in Nat \ {0}
  /\ MaxWait \in Nat
  /\ Backoff \in [0..MaxRetries - 1 -> 0..MaxWait]
  /\ MaxLate \in Nat
  /\ MaxFailures \in Nat

VARIABLES
  toot,       \* toots: "none", "stored" or "gone"
  queueing,   \* toots of the createToot calls that have not called QueueForRetry yet
  summaries,  \* how many summary paragraphs late attempts put in the toot
  row,        \* toot_summaries.state: "none", "pending", "done", "abandoned"
  attempts,   \* toot_summaries.attempts
  due,        \* toot_summaries.next_retry_due, as the time left until it
  loop,       \* the retry loop: "ask", "summarize", "load", "update", "fail",
              \* "done" and "abandon" (the two uses of finish), "sleep"
  held,       \* the toot of the row the loop works on
  heldTries,  \* the attempts of that row when it was read
  began,      \* the time the loop read before it asked for the row
  tries,      \* how often the summarizer was asked again, per toot
  failures    \* counter of the bound

rowVars == <<row, attempts, due>>
loopVars == <<loop, held, heldTries, began>>
vars == <<toot, queueing, summaries, rowVars, loopVars, tries, failures>>

TypeOK ==
  /\ toot \in [Toots -> {"none", "stored", "gone"}]
  /\ queueing \subseteq Toots
  /\ summaries \in [Toots -> Nat]
  /\ row \in [Toots -> {"none", "pending", "done", "abandoned"}]
  /\ attempts \in [Toots -> 0..MaxRetries - 1]
  /\ due \in [Toots -> (0 - MaxLate)..MaxWait]
  /\ loop \in {"ask", "summarize", "load", "update", "fail", "done", "abandon", "sleep"}
  /\ held \in Toots \cup {NoToot}
  /\ heldTries \in 0..MaxRetries - 1
  /\ began \in (0 - MaxLate)..0
  /\ tries \in [Toots -> Nat]
  /\ failures \in 0..MaxFailures

-----------------------------------------------------------------------------
(* Time, createToot, and what removes toots                                  *)

Later(t) == IF t > 0 - MaxLate THEN t - 1 ELSE t

Tick ==
  /\ due' = [s \in Toots |-> Later(due[s])]
  /\ began' = Later(began)
  /\ UNCHANGED <<toot, queueing, summaries, row, attempts, loop, held, heldTries, tries, failures>>

\* createToot: AddToot, of a toot without a summary.
AddToot(s) ==
  /\ toot[s] = "none"
  /\ toot' = [toot EXCEPT ![s] = "stored"]
  /\ queueing' = queueing \cup {s}
  /\ UNCHANGED <<summaries, rowVars, loopVars, tries, failures>>

\* createToot: QueueForRetry.  Nothing is queued when the summarizer is disabled
\* or there is no text; that the insert fails is only logged.
QueueForRetry(s) ==
  /\ s \in queueing
  /\ queueing' = queueing \ {s}
  /\ \/ /\ row' = [row EXCEPT ![s] = "pending"]
        /\ attempts' = [attempts EXCEPT ![s] = 0]
        /\ due' = [due EXCEPT ![s] = Backoff[0]]
     \/ UNCHANGED rowVars
  /\ UNCHANGED <<toot, summaries, loopVars, tries, failures>>

\* PurgePostsAndToots and BruteDeleteAccount remove a toot's row, if it has one
\* already, and then the toot, under one lock.
RemoveToot(s) ==
  /\ toot[s] = "stored"
  /\ toot' = [toot EXCEPT ![s] = "gone"]
  /\ row' = [row EXCEPT ![s] = "none"]
  /\ UNCHANGED <<queueing, summaries, attempts, due, loopVars, tries, failures>>

-----------------------------------------------------------------------------
(* The retry loop                                                            *)

GoTo(place) == loop' = place

\* Leaves RetryNextDue.
Leave(place) ==
  /\ GoTo(place)
  /\ held' = NoToot
  /\ heldTries' = 0
  /\ began' = 0

\* Mutant of Due: rows in a terminal state are due, too.
DueInAnyState(s) == row[s] # "none" /\ due[s] <= 0

Due(s) == row[s] = "pending" /\ due[s] <= 0

\* GetPendingSummaryToRetry: the longest due row.
Ask(s) ==
  /\ loop = "ask"
  /\ Due(s)
  /\ \A r \in Toots : Due(r) => due[s] <= due[r]
  /\ GoTo("summarize")
  /\ held' = s
  /\ heldTries' = attempts[s]
  /\ began' = 0
  /\ UNCHANGED <<toot, queueing, summaries, rowVars, tries, failures>>

AskNothing ==
  /\ loop = "ask"
  /\ \A s \in Toots : ~Due(s)
  /\ GoTo("sleep")
  /\ UNCHANGED <<toot, queueing, summaries, rowVars, held, heldTries, began, tries, failures>>

Wake ==
  /\ loop = "sleep"
  /\ GoTo("ask")
  /\ UNCHANGED <<toot, queueing, summaries, rowVars, held, heldTries, began, tries, failures>>

\* The summarizer answers with a summary or, for any failure, with nothing.
Summarize ==
  /\ loop = "summarize"
  /\ tries' = [tries EXCEPT ![held] = @ + 1]
  /\ GoTo("load") \/ GoTo("fail")
  /\ UNCHANGED <<toot, queueing, summaries, rowVars, held, heldTries, began, failures>>

\* Mutant of GetToot: a toot that is gone is taken for one to update.
GetTootUnchecked ==
  /\ loop = "load"
  /\ GoTo("update")
  /\ UNCHANGED <<toot, queueing, summaries, rowVars, held, heldTries, began, tries, failures>>

GetToot ==
  /\ loop = "load"
  /\ \/ toot[held] = "stored" /\ GoTo("update")
     \/ toot[held] = "gone" /\ GoTo("abandon")
  /\ UNCHANGED <<toot, queueing, summaries, rowVars, held, heldTries, began, tries, failures>>

\* UpdateTootContent inserts the summary into the content GetToot read; a toot
\* removed since then is not there to be updated, which is no error.
UpdateTootContent ==
  /\ loop = "update"
  /\ summaries' = [summaries EXCEPT ![held] = IF toot[held] = "stored" THEN @ + 1 ELSE @]
  /\ GoTo("done")
  /\ UNCHANGED <<toot, queueing, rowVars, held, heldTries, began, tries, failures>>

\* Mutants of RescheduleOrAbandon: the attempt is not booked; the waits add up.
RescheduleUncounted ==
  /\ loop = "fail"
  /\ due' = [due EXCEPT ![held] = Backoff[heldTries] + began]
  /\ Leave("ask")
  /\ UNCHANGED <<toot, queueing, summaries, row, attempts, tries, failures>>

RescheduleCumulative ==
  /\ loop = "fail"
  /\ heldTries + 1 < MaxRetries
  /\ attempts' = [attempts EXCEPT ![held] = heldTries + 1]
  /\ due' = [due EXCEPT ![held] = Backoff[heldTries] + Backoff[heldTries + 1] + began]
  /\ Leave("ask")
  /\ UNCHANGED <<toot, queueing, summaries, row, tries, failures>>

\* rescheduleOrAbandon: the wait counts from the time the loop read at the start.
RescheduleOrAbandon ==
  /\ loop = "fail"
  /\ \/ /\ heldTries + 1 >= MaxRetries
        /\ GoTo("abandon")
        /\ UNCHANGED <<rowVars, held, heldTries, began>>
     \/ /\ heldTries + 1 < MaxRetries
        /\ Leave("ask")
        /\ \/ /\ row[held] # "none"
              /\ attempts' = [attempts EXCEPT ![held] = heldTries + 1]
              /\ due' = [due EXCEPT ![held] = Backoff[heldTries + 1] + began]
           \/ /\ row[held] = "none"
              /\ UNCHANGED <<attempts, due>>
        /\ UNCHANGED row
  /\ UNCHANGED <<toot, queueing, summaries, tries, failures>>

\* Mutant of Finish: a summary that was stored counts as one more failed attempt.
FinishAsFailed ==
  /\ loop \in {"done", "abandon"}
  /\ IF row[held] # "none"
       THEN row' = [row EXCEPT ![held] = IF loop = "done" THEN "pending" ELSE "abandoned"]
       ELSE UNCHANGED row
  /\ Leave("ask")
  /\ UNCHANGED <<toot, queueing, summaries, attempts, due, tries, failures>>

\* finish: FinishPendingSummary, if the row is still there.
Finish ==
  /\ loop \in {"done", "abandon"}
  /\ \/ /\ row[held] # "none"
        /\ row' = [row EXCEPT ![held] = IF loop = "done" THEN "done" ELSE "abandoned"]
     \/ /\ row[held] = "none"
        /\ UNCHANGED row
  /\ Leave("ask")
  /\ UNCHANGED <<toot, queueing, summaries, attempts, due, tries, failures>>

-----------------------------------------------------------------------------
(* Failures                                                                  *)

Fail == failures < MaxFailures /\ failures' = failures + 1

\* GetToot or UpdateTootContent fails: one more failed attempt.
TootCallFails ==
  /\ loop \in {"load", "update"}
  /\ Fail
  /\ GoTo("fail")
  /\ UNCHANGED <<toot, queueing, summaries, rowVars, held, heldTries, began, tries>>

\* Mutant of RowCallFailsOrPanic: the loop ends.
PanicEndsLoop ==
  /\ loop # "sleep"
  /\ Fail
  /\ Leave("ended")
  /\ UNCHANGED <<toot, queueing, summaries, rowVars, tries>>

\* Reading, rescheduling or finishing the row fails, or something panics: the
\* row stays as it is and the loop sleeps.
RowCallFailsOrPanic ==
  /\ loop # "sleep"
  /\ Fail
  /\ Leave("sleep")
  /\ UNCHANGED <<toot, queueing, summaries, rowVars, tries>>

\* The DELETE of the toots fails after that of their rows: they are statements of
\* their own, without a transaction.  A retry under way still rewrites the toot.
RemoveTootFails(s) ==
  /\ toot[s] = "stored"
  /\ row[s] # "none"
  /\ Fail
  /\ row' = [row EXCEPT ![s] = "none"]
  /\ UNCHANGED <<toot, queueing, summaries, attempts, due, loopVars, tries>>

\* The process dies and starts again.
Crash ==
  /\ Fail
  /\ queueing' = {}
  /\ Leave("ask")
  /\ UNCHANGED <<toot, summaries, rowVars, tries>>

-----------------------------------------------------------------------------
Init ==
  /\ toot = [s \in Toots |-> "none"]
  /\ queueing = {}
  /\ summaries = [s \in Toots |-> 0]
  /\ row = [s \in Toots |-> "none"]
  /\ attempts = [s \in Toots |-> 0]
  /\ due = [s \in Toots |-> 0]
  /\ loop = "ask"
  /\ held = NoToot
  /\ heldTries = 0
  /\ began = 0
  /\ tries = [s \in Toots |-> 0]
  /\ failures = 0

RetryNextDue ==
  \/ \E s \in Toots : Ask(s)
  \/ AskNothing
  \/ Summarize
  \/ GetToot
  \/ UpdateTootContent
  \/ RescheduleOrAbandon
  \/ Finish

Next ==
  \/ Tick
  \/ \E s \in Toots : AddToot(s) \/ QueueForRetry(s) \/ RemoveToot(s)
  \/ RetryNextDue
  \/ Wake
  \/ TootCallFails
  \/ RowCallFailsOrPanic
  \/ \E s \in Toots : RemoveTootFails(s)
  \/ Crash

Spec == Init /\ [][Next]_vars

\* Time passes and the loop, which never exits, goes on; the calls it makes have
\* timeouts.
FairSpec == Spec /\ WF_vars(Tick) /\ WF_vars(RetryNextDue) /\ WF_vars(Wake)

-----------------------------------------------------------------------------
(* Properties                                                                *)

\* The retries of an article are capped: only a failure that keeps an attempt
\* from being booked adds one.
RetriesBounded == \A s \in Toots : tries[s] <= MaxRetries + failures

\* A toot gets its summary once; only a failure between the update of the toot
\* and that of the row inserts a further copy.
SummariesBounded == \A s \in Toots : summaries[s] <= 1 + failures

\* "PsDone: a retry produced a summary and the toot content has been rewritten":
\* although the toot may go away while the summarizer works.
DoneMeansRewritten == \A s \in Toots : row[s] = "done" => summaries[s] > 0

\* A row that was closed is never worked on again.
ClosedStaysClosed ==
  [][\A s \in Toots :
       row[s] \in {"done", "abandoned"} =>
         /\ row'[s] \in {row[s], "none"}
         /\ tries'[s] = tries[s]
         /\ summaries'[s] = summaries[s]]_vars

\* The inductive invariant behind these.
Working(s) == held = s /\ loop # "summarize"

RowsInStep ==
  \A s \in Toots :
    /\ toot[s] = "none" => s \notin queueing /\ row[s] = "none" /\ tries[s] = 0
    /\ s \in queueing => row[s] = "none" /\ tries[s] = 0
    /\ toot[s] # "stored" /\ row[s] = "done" => summaries[s] > 0
    /\ tries[s] = 0 => summaries[s] = 0

LoopInStep ==
  /\ held = NoToot <=> loop \in {"ask", "sleep"}
  /\ held # NoToot =>
       /\ row[held] \in {"pending", "none"}
       /\ row[held] = "pending" => attempts[held] = heldTries
       /\ toot[held] # "none"
       /\ held \notin queueing
       /\ Working(held) => tries[held] > 0
       /\ loop \in {"update", "done"} /\ row[held] = "pending" => toot[held] = "stored"
       /\ loop = "done" /\ row[held] = "pending" => summaries[held] > 0

TriesInStep ==
  \A s \in Toots :
    /\ row[s] = "pending" =>
         tries[s] <= attempts[s] + failures + (IF Working(s) THEN 1 ELSE 0)
    /\ tries[s] <= MaxRetries + failures
    /\ held = s /\ loop = "summarize" => tries[s] <= heldTries + failures

SummariesInStep ==
  \A s \in Toots :
    /\ summaries[s] <= 1 + failures
    /\ row[s] = "pending" /\ ~(held = s /\ loop = "done") => summaries[s] <= failures
    /\ held = s /\ loop # "done" => summaries[s] <= failures

SummaryInv ==
  /\ RowsInStep
  /\ LoopInStep
  /\ TriesInStep
  /\ SummariesInStep
  /\ DoneMeansRewritten

\* Every queued article is at last summarized, abandoned or purged.
PendingSettles == \A s \in Toots : (row[s] = "pending") ~> (row[s] # "pending")
===============================================================================
