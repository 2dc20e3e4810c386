-------------------------- MODULE SummaryRetry_proofs --------------------------
(* Theorems about SummaryRetry for every value of its constants.              *)
EXTENDS SummaryRetry, TLAPS

\* The assumption without the function Backoff, and what it says of its values.
LEMMA Numbers ==
  /\ NoToot \notin Toots
  /\ MaxRetries \in Nat /\ MaxRetries > 0
  /\ MaxWait \in Nat
  /\ MaxLate \in Nat
  /\ MaxFailures \in Nat
  BY SummaryAssumption

LEMMA BackoffBounded == \A n \in 0..MaxRetries - 1 : Backoff[n] \in 0..MaxWait
  BY SummaryAssumption

\* Counting one more keeps a function of counters one.
LEMMA CountOne ==
  ASSUME NEW f \in [Toots -> Nat], NEW s
  PROVE  [f EXCEPT ![s] = f[s] + 1] \in [Toots -> Nat]
<1>1. CASE s \in Toots
  BY <1>1
<1>2. CASE s \notin Toots
  BY <1>2
<1> QED BY <1>1, <1>2

-----------------------------------------------------------------------------
(* Types *)

LEMMA StepTypeOK ==
  ASSUME TypeOK, [Next]_vars
  PROVE  TypeOK'
<1> USE Numbers DEF TypeOK
<1> USE DEF rowVars, loopVars, GoTo, Leave, Fail
<1>1. CASE Tick
  BY <1>1 DEF Tick, Later
<1>2. ASSUME NEW s \in Toots, AddToot(s)
      PROVE  TypeOK'
  BY <1>2 DEF AddToot
<1>3. ASSUME NEW s \in Toots, QueueForRetry(s)
      PROVE  TypeOK'
  BY <1>3, BackoffBounded DEF QueueForRetry
<1>4. ASSUME NEW s \in Toots, RemoveToot(s)
      PROVE  TypeOK'
  BY <1>4 DEF RemoveToot
<1>5. ASSUME NEW s \in Toots, Ask(s)
      PROVE  TypeOK'
  BY <1>5 DEF Ask
<1>6. CASE AskNothing
  BY <1>6 DEF AskNothing
<1>7. CASE Wake
  BY <1>7 DEF Wake
<1>8. CASE GetToot
  BY <1>8 DEF GetToot
<1>9. CASE Summarize
  <2>1. tries' \in [Toots -> Nat]
    BY <1>9, CountOne DEF Summarize
  <2>2. UNCHANGED <<toot, queueing, summaries, row, attempts, due, held, heldTries, began, failures>>
    BY <1>9 DEF Summarize
  <2>3. loop' \in {"load", "fail"}
    BY <1>9 DEF Summarize
  <2> QED BY <2>1, <2>2, <2>3
<1>10. CASE UpdateTootContent
  <2>1. summaries' \in [Toots -> Nat]
    <3>1. CASE toot[held] = "stored"
      BY <1>10, <3>1, CountOne DEF UpdateTootContent
    <3>2. CASE toot[held] # "stored"
      BY <1>10, <3>2 DEF UpdateTootContent
    <3> QED BY <3>1, <3>2
  <2>2. UNCHANGED <<toot, queueing, row, attempts, due, held, heldTries, began, tries, failures>>
    BY <1>10 DEF UpdateTootContent
  <2>3. loop' = "done"
    BY <1>10 DEF UpdateTootContent
  <2> QED BY <2>1, <2>2, <2>3
<1>11. CASE RescheduleOrAbandon
  <2>1. attempts' \in [Toots -> 0..MaxRetries - 1]
    BY <1>11 DEF RescheduleOrAbandon
  <2>2. due' \in [Toots -> (0 - MaxLate)..MaxWait]
    BY <1>11, BackoffBounded DEF RescheduleOrAbandon
  <2>3. UNCHANGED <<toot, queueing, summaries, row, tries, failures>>
    BY <1>11 DEF RescheduleOrAbandon
  <2>4. /\ loop' \in {"ask", "abandon"}
        /\ \/ held' = NoToot /\ heldTries' = 0 /\ began' = 0
           \/ UNCHANGED <<held, heldTries, began>>
    BY <1>11 DEF RescheduleOrAbandon
  <2> QED BY <2>1, <2>2, <2>3, <2>4
<1>12. CASE Finish
  <2>1. row' \in [Toots -> {"none", "pending", "done", "abandoned"}]
    BY <1>12 DEF Finish
  <2>2. UNCHANGED <<toot, queueing, summaries, attempts, due, tries, failures>>
    BY <1>12 DEF Finish
  <2>3. loop' = "ask" /\ held' = NoToot /\ heldTries' = 0 /\ began' = 0
    BY <1>12 DEF Finish
  <2> QED BY <2>1, <2>2, <2>3
<1>13. CASE TootCallFails
  BY <1>13 DEF TootCallFails
<1>14. CASE RowCallFailsOrPanic
  BY <1>14 DEF RowCallFailsOrPanic
<1>15. CASE Crash
  BY <1>15 DEF Crash
<1>16. ASSUME NEW s \in Toots, RemoveTootFails(s)
       PROVE  TypeOK'
  BY <1>16 DEF RemoveTootFails
<1>17. CASE UNCHANGED vars
  BY <1>17 DEF vars
<1> QED
  BY <1>1, <1>2, <1>3, <1>4, <1>5, <1>6, <1>7, <1>8, <1>9, <1>10, <1>11, <1>12, <1>13,
     <1>14, <1>15, <1>16, <1>17 DEF Next, RetryNextDue

\* Every variable of SummaryRetry keeps its type.
THEOREM TypeCorrect == Spec => []TypeOK
<1>1. Init => TypeOK
  BY Numbers DEF Init, TypeOK
<1> QED BY <1>1, StepTypeOK, PTL DEF Spec

-----------------------------------------------------------------------------
(* The inductive invariant *)

LEMMA InitSummaryInv == Init => SummaryInv
  BY Numbers
     DEF Init, SummaryInv, RowsInStep, LoopInStep, TriesInStep, SummariesInStep, Working,
         DoneMeansRewritten

LEMMA StepSummaryInv ==
  ASSUME TypeOK, SummaryInv, [Next]_vars
  PROVE  SummaryInv'
<1> USE Numbers
    DEF TypeOK, SummaryInv, RowsInStep, LoopInStep, TriesInStep, SummariesInStep, Working,
        DoneMeansRewritten, rowVars, loopVars, GoTo, Leave, Fail
<1>1. CASE Tick
  BY <1>1 DEF Tick
<1>2. ASSUME NEW s \in Toots, AddToot(s)
      PROVE  SummaryInv'
  BY <1>2 DEF AddToot
<1>3. ASSUME NEW s \in Toots, QueueForRetry(s)
      PROVE  SummaryInv'
  BY <1>3 DEF QueueForRetry
<1>4. ASSUME NEW s \in Toots, RemoveToot(s)
      PROVE  SummaryInv'
  BY <1>4 DEF RemoveToot
<1>5. ASSUME NEW s \in Toots, Ask(s)
      PROVE  SummaryInv'
  BY <1>5 DEF Ask, Due
<1>6. CASE AskNothing \/ Wake \/ GetToot
  BY <1>6 DEF AskNothing, Wake, GetToot
<1>7. CASE Summarize
  BY <1>7 DEF Summarize
<1>8. CASE UpdateTootContent
  <2>1. held \in Toots /\ loop' = "done"
    BY <1>8 DEF UpdateTootContent
  <2>2. UNCHANGED <<toot, queueing, row, attempts, held, heldTries, tries, failures>>
    BY <1>8 DEF UpdateTootContent
  <2>3. summaries'[held] = IF toot[held] = "stored" THEN summaries[held] + 1 ELSE summaries[held]
    BY <1>8, <2>1 DEF UpdateTootContent
  <2>4. \A s \in Toots : s # held => summaries'[s] = summaries[s]
    BY <1>8 DEF UpdateTootContent
  <2>5. summaries' \in [Toots -> Nat]
    <3> HIDE DEF TypeOK
    <3>1. TypeOK'
      BY StepTypeOK
    <3> QED BY <3>1 DEF TypeOK
  <2>6. RowsInStep' /\ DoneMeansRewritten'
    <3>1. ASSUME NEW s \in Toots
          PROVE  /\ summaries'[s] \in Nat /\ summaries'[s] >= summaries[s]
                 /\ tries[s] = 0 => summaries'[s] = 0
      <4>1. CASE s # held
        BY <2>4, <2>5, <4>1
      <4>2. CASE s = held
        <5>1. tries[held] # 0
          BY <1>8 DEF UpdateTootContent
        <5> QED BY <2>3, <2>5, <4>2, <5>1
      <4> QED BY <4>1, <4>2
    <3> QED BY <2>2, <3>1
  <2>7. LoopInStep'
    BY <1>8, <2>1, <2>2, <2>3 DEF UpdateTootContent
  <2>8. TriesInStep'
    BY <1>8, <2>1, <2>2 DEF UpdateTootContent
  <2>9. SummariesInStep'
    BY <1>8, <2>1, <2>2, <2>3, <2>4 DEF UpdateTootContent
  <2> QED BY <2>6, <2>7, <2>8, <2>9
<1>9. CASE RescheduleOrAbandon
  BY <1>9 DEF RescheduleOrAbandon
<1>10. CASE Finish
  BY <1>10 DEF Finish
<1>11. CASE TootCallFails
  BY <1>11 DEF TootCallFails
<1>12. CASE RowCallFailsOrPanic
  BY <1>12 DEF RowCallFailsOrPanic
<1>13. CASE Crash
  BY <1>13 DEF Crash
<1>14. ASSUME NEW s \in Toots, RemoveTootFails(s)
       PROVE  SummaryInv'
  BY <1>14 DEF RemoveTootFails
<1>15. CASE UNCHANGED vars
  BY <1>15 DEF vars
<1> QED
  BY <1>1, <1>2, <1>3, <1>4, <1>5, <1>6, <1>7, <1>8, <1>9, <1>10, <1>11, <1>12, <1>13,
     <1>14, <1>15 DEF Next, RetryNextDue

\* The rows, the toots and what the loop holds stay in step.
THEOREM SummaryInvariant == Spec => []SummaryInv
  BY TypeCorrect, InitSummaryInv, StepSummaryInv, PTL DEF Spec

\* However often the process fails, an article is retried maxSummaryRetries times
\* and once more per failure at most.
THEOREM RetriesAreBounded == Spec => []RetriesBounded
<1>1. SummaryInv => RetriesBounded
  BY DEF SummaryInv, TriesInStep, RetriesBounded
<1> QED BY <1>1, SummaryInvariant, PTL

\* A toot gets one late summary, and one more per failure at most.
THEOREM SummariesAreBounded == Spec => []SummariesBounded
<1>1. SummaryInv => SummariesBounded
  BY DEF SummaryInv, SummariesInStep, SummariesBounded
<1> QED BY <1>1, SummaryInvariant, PTL

\* A row marked PsDone belongs to a toot that was rewritten, although the toot may
\* be purged while the summarizer works.
THEOREM DoneRowsAreRewritten == Spec => []DoneMeansRewritten
<1>1. SummaryInv => DoneMeansRewritten
  BY DEF SummaryInv
<1> QED BY <1>1, SummaryInvariant, PTL

-----------------------------------------------------------------------------
(* Closed rows *)

\* What one step may do to a closed row.
RowStaysClosed ==
  \A s \in Toots :
    row[s] \in {"done", "abandoned"} =>
      /\ row'[s] \in {row[s], "none"}
      /\ tries'[s] = tries[s]
      /\ summaries'[s] = summaries[s]

\* A row in a terminal state is never retried, reopened or summarized again.
THEOREM ClosedRowsStayClosed == Spec => ClosedStaysClosed
<1>1. TypeOK /\ SummaryInv /\ [Next]_vars => [RowStaysClosed]_vars
  <2> SUFFICES ASSUME TypeOK, SummaryInv, Next
               PROVE  RowStaysClosed
    BY DEF RowStaysClosed
  <2> USE Numbers
      DEF TypeOK, SummaryInv, RowsInStep, LoopInStep, RowStaysClosed, rowVars, loopVars
  <2>1. CASE Tick \/ AskNothing \/ Wake \/ GetToot \/ TootCallFails \/ RowCallFailsOrPanic \/ Crash
    BY <2>1 DEF Tick, AskNothing, Wake, GetToot, TootCallFails, RowCallFailsOrPanic, Crash
  <2>2. ASSUME NEW s \in Toots, \/ AddToot(s) \/ QueueForRetry(s) \/ Ask(s)
                                \/ RemoveToot(s) \/ RemoveTootFails(s)
        PROVE  RowStaysClosed
    BY <2>2 DEF AddToot, QueueForRetry, RemoveToot, RemoveTootFails, Ask
  <2>3. CASE Summarize \/ UpdateTootContent
    BY <2>3 DEF Summarize, UpdateTootContent
  <2>4. CASE RescheduleOrAbandon \/ Finish
    BY <2>4 DEF RescheduleOrAbandon, Finish
  <2> QED BY <2>1, <2>2, <2>3, <2>4 DEF Next, RetryNextDue
<1>2. [][RowStaysClosed]_vars => ClosedStaysClosed
  BY PTL DEF RowStaysClosed, ClosedStaysClosed
<1> QED BY <1>1, <1>2, TypeCorrect, SummaryInvariant, PTL DEF Spec
===============================================================================
