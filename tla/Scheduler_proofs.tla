--------------------------- MODULE Scheduler_proofs ---------------------------
(***************************************************************************)
(* Proofs about Scheduler, for any number of feeds.                        *)
(***************************************************************************)
EXTENDS Scheduler, TLAPS

\* The alternatives of a step, flat.
LEMMA StepKinds ==
  ASSUME [Next]_vars
  PROVE  \/ UNCHANGED vars
         \/ \E f \in Feeds : BecomeDue(f)
         \/ \E f \in Feeds : UpdateByMention(f)
         \/ \E f \in Feeds : DeleteAccount(f)
         \/ \E f \in Feeds : GetAccountToCheck(f)
         \/ UpdateSucceeds
         \/ UpdateFails
         \/ RecordFeedCheckError
         \/ RecordFails
         \/ LoopPanics
  BY DEF Next, LoopStep

-----------------------------------------------------------------------------
(* Types                                                                      *)

LEMMA StepTurnsType ==
  ASSUME TypeOK, [Next]_vars
  PROVE  turns' \in [Feeds \X Feeds -> Nat]
<1>1. \A f : FreshTurns(f) => turns' \in [Feeds \X Feeds -> Nat]
  BY DEF TypeOK, FreshTurns
<1>2. \A f : Reschedule(f) => turns' \in [Feeds \X Feeds -> Nat]
  BY DEF TypeOK, Reschedule
<1> QED
  BY <1>1, <1>2, StepKinds
     DEF TypeOK, vars, loopVars, BecomeDue, UpdateByMention, DeleteAccount, GetAccountToCheck,
         UpdateSucceeds, UpdateFails, RecordFeedCheckError, RecordFails, LoopPanics

LEMMA StepType ==
  ASSUME TypeOK, [Next]_vars
  PROVE  TypeOK'
<1>1. /\ accounts' \subseteq Feeds
      /\ due' \subseteq accounts'
      /\ ahead' \subseteq due' \X due'
  BY StepKinds
     DEF TypeOK, vars, loopVars, BecomeDue, UpdateByMention, DeleteAccount, GetAccountToCheck,
         UpdateSucceeds, UpdateFails, RecordFeedCheckError, RecordFails, LoopPanics,
         NoLongerDue, Reschedule
<1>2. /\ loop' \in {"idle", "update", "failed"}
      /\ current' \in Feeds \cup {NoFeed}
      /\ current' = NoFeed <=> loop' = "idle"
  BY StepKinds, SchedulerAssumption
     DEF TypeOK, vars, loopVars, BecomeDue, UpdateByMention, DeleteAccount, GetAccountToCheck,
         UpdateSucceeds, UpdateFails, RecordFeedCheckError, RecordFails, LoopPanics, Rest
<1> QED
  BY <1>1, <1>2, StepTurnsType DEF TypeOK

\* Only feeds with an account are due, only due feeds are in line, and the loop
\* holds a feed exactly while it is at work.
THEOREM TypeCorrect == Spec => []TypeOK
<1>1. Init => TypeOK
  BY DEF Init, TypeOK
<1>2. TypeOK /\ [Next]_vars => TypeOK'
  BY StepType
<1> QED BY <1>1, <1>2, PTL DEF Spec

-----------------------------------------------------------------------------
(* The waiting line                                                           *)

LEMMA StepLine ==
  ASSUME TypeOK, WaitingLine, [Next]_vars
  PROVE  WaitingLine'
<1>1. ASSUME NEW f \in Feeds, BecomeDue(f)
      PROVE  WaitingLine'
  <2>1. /\ f \notin due
        /\ due' = due \cup {f}
        /\ ahead' = ahead \cup {<<g, f>> : g \in due}
        /\ ahead \subseteq due \X due
    BY <1>1 DEF BecomeDue, TypeOK
  <2>2. \A g, h : <<g, h>> \in ahead' <=> (<<g, h>> \in ahead \/ (g \in due /\ h = f))
    BY <2>1
  <2>3. \A g, h : <<g, h>> \in ahead => g \in due /\ h \in due
    BY <2>1
  <2>4. \A g \in due' : <<g, g>> \notin ahead'
    BY <2>1, <2>2, <2>3 DEF WaitingLine
  <2>5. \A g, h \in due' : g # h => (<<g, h>> \in ahead' <=> <<h, g>> \notin ahead')
    <3> SUFFICES ASSUME NEW g \in due', NEW h \in due', g # h
                 PROVE  <<g, h>> \in ahead' <=> <<h, g>> \notin ahead'
      OBVIOUS
    <3>1. CASE g = f
      BY <2>1, <2>2, <2>3, <3>1
    <3>2. CASE h = f
      BY <2>1, <2>2, <2>3, <3>2
    <3>3. CASE g # f /\ h # f
      <4>1. g \in due /\ h \in due
        BY <2>1, <3>3
      <4> QED BY <2>2, <3>3, <4>1 DEF WaitingLine
    <3> QED BY <3>1, <3>2, <3>3
  <2>6. \A g, h, k \in due' :
          <<g, h>> \in ahead' /\ <<h, k>> \in ahead' => <<g, k>> \in ahead'
    <3> SUFFICES ASSUME NEW g \in due', NEW h \in due', NEW k \in due',
                        <<g, h>> \in ahead', <<h, k>> \in ahead'
                 PROVE  <<g, k>> \in ahead'
      OBVIOUS
    <3>1. g \in due /\ h \in due
      BY <2>1, <2>2, <2>3
    <3>2. CASE k = f
      BY <2>2, <3>1, <3>2
    <3>3. CASE k # f
      <4>1. <<g, h>> \in ahead /\ <<h, k>> \in ahead /\ k \in due
        BY <2>1, <2>2, <3>1, <3>3
      <4> QED BY <2>2, <3>1, <4>1 DEF WaitingLine
    <3> QED BY <3>2, <3>3
  <2> QED BY <2>4, <2>5, <2>6 DEF WaitingLine
<1>2. ASSUME NEW f, NoLongerDue(f)
      PROVE  WaitingLine'
  <2>1. /\ due' = due \ {f}
        /\ \A g, h : g # f /\ h # f => (<<g, h>> \in ahead' <=> <<g, h>> \in ahead)
    BY <1>2 DEF NoLongerDue
  <2> QED BY <2>1 DEF WaitingLine
<1>3. CASE UNCHANGED <<due, ahead>>
  BY <1>3 DEF WaitingLine
<1> QED
  BY <1>1, <1>2, <1>3, StepKinds
     DEF vars, UpdateByMention, DeleteAccount, GetAccountToCheck, UpdateSucceeds, UpdateFails,
         RecordFeedCheckError, RecordFails, LoopPanics, Reschedule

LEMMA StepTurns ==
  ASSUME TypeOK, SchedulerInv, [Next]_vars
  PROVE  (TurnsInLine /\ FairTurns)'
<1>0. turns \in [Feeds \X Feeds -> Nat] /\ due \subseteq Feeds /\ NoFeed \notin Feeds
  BY SchedulerAssumption DEF TypeOK
<1> USE DEF TurnsInLine, FairTurns
<1>1. ASSUME NEW f \in Feeds, BecomeDue(f)
      PROVE  (TurnsInLine /\ FairTurns)'
  <2>1. /\ f \notin due
        /\ due' = due \cup {f}
        /\ ahead' = ahead \cup {<<g, f>> : g \in due}
        /\ UNCHANGED <<current, turns>>
    BY <1>1 DEF BecomeDue, loopVars
  <2>2. \A g \in Feeds : turns[<<f, g>>] = 0
    BY <1>0, <2>1 DEF SchedulerInv
  <2>3. \A g, h \in Feeds : turns[<<g, h>>] > 0 /\ h \in due' => <<g, h>> \in ahead'
    BY <1>0, <2>1, <2>2 DEF SchedulerInv
  <2>4. \A e \in Feeds \X Feeds : e = <<e[1], e[2]>> /\ e[1] \in Feeds /\ e[2] \in Feeds
    OBVIOUS
  <2>5. ASSUME NEW g \in Feeds, NEW h \in Feeds
        PROVE  turns[<<g, h>>] <= 1
    <3>1. CASE g \in due
      <4>1. <<g, h>> \in Feeds \X Feeds /\ <<g, h>>[1] \in due
        BY <3>1
      <4> QED BY <4>1 DEF SchedulerInv
    <3>2. CASE g \notin due
      BY <3>2 DEF SchedulerInv
    <3> QED BY <3>1, <3>2
  <2> QED BY <1>0, <2>1, <2>2, <2>3, <2>4, <2>5 DEF SchedulerInv
<1>2. ASSUME NEW f, NoLongerDue(f), FreshTurns(f), UNCHANGED current
      PROVE  (TurnsInLine /\ FairTurns)'
  <2>1. /\ due' = due \ {f}
        /\ \A g, h : g # f /\ h # f => (<<g, h>> \in ahead' <=> <<g, h>> \in ahead)
        /\ \A g, h \in Feeds : turns'[<<g, h>>] = IF g = f THEN 0 ELSE turns[<<g, h>>]
        /\ \A e \in Feeds \X Feeds : turns'[e] = IF e[1] = f THEN 0 ELSE turns[e]
    BY <1>2 DEF NoLongerDue, FreshTurns
  <2> QED BY <1>0, <1>2, <2>1 DEF SchedulerInv
<1>3. ASSUME Reschedule(current), Rest, current \in Feeds
      PROVE  (TurnsInLine /\ FairTurns)'
  <2>1. /\ due' = due \ {current}
        /\ \A g, h : g # current /\ h # current => (<<g, h>> \in ahead' <=> <<g, h>> \in ahead)
        /\ current' = NoFeed
    BY <1>3 DEF Reschedule, NoLongerDue, Rest
  <2>2. \A g, h \in Feeds :
          turns'[<<g, h>>] = IF g = current THEN 0
                             ELSE IF h = current /\ g \in due THEN turns[<<g, h>>] + 1
                             ELSE turns[<<g, h>>]
    BY <1>3 DEF Reschedule
  <2>3. \A g \in Feeds : turns[<<g, current>>] = 0
    BY <1>0, <1>3 DEF SchedulerInv
  <2>4. TurnsInLine'
    BY <1>0, <2>1, <2>2, <2>3 DEF SchedulerInv
  <2>5. \A g, h \in Feeds : g \in due' => turns'[<<g, h>>] <= 1
    <3> SUFFICES ASSUME NEW g \in Feeds, NEW h \in Feeds, g \in due'
                 PROVE  turns'[<<g, h>>] <= 1
      OBVIOUS
    <3>1. turns[<<g, h>>] <= 1
      BY <2>1 DEF SchedulerInv
    <3> QED BY <2>1, <2>2, <2>3, <3>1
  <2> QED BY <2>4, <2>5
<1>4. ASSUME NEW f \in Feeds, GetAccountToCheck(f)
      PROVE  (TurnsInLine /\ FairTurns)'
  <2>1. /\ f \in due
        /\ \A g \in due : <<g, f>> \notin ahead
        /\ current' = f
        /\ UNCHANGED <<due, ahead, turns>>
    BY <1>4 DEF GetAccountToCheck, Oldest
  <2>2. \A g \in Feeds : ~(turns[<<g, f>>] > 0)
    BY <1>0, <2>1 DEF SchedulerInv
  <2> QED BY <2>1, <2>2 DEF SchedulerInv
<1>5. ASSUME UNCHANGED <<due, ahead, turns>>, current' \in {current, NoFeed}
      PROVE  (TurnsInLine /\ FairTurns)'
  BY <1>0, <1>5 DEF SchedulerInv
<1>6. loop # "idle" => current \in Feeds
  BY DEF TypeOK
<1> QED
  BY <1>1, <1>2, <1>3, <1>4, <1>5, <1>6, StepKinds
     DEF vars, loopVars, UpdateByMention, DeleteAccount, UpdateSucceeds, UpdateFails,
         RecordFeedCheckError, RecordFails, LoopPanics, Rest

\* The due feeds are in one line, and a feed that had a turn queues up behind all
\* who waited.
THEOREM SchedulerInvariant == Spec => []SchedulerInv
<1>1. Init => SchedulerInv
  BY DEF Init, SchedulerInv, WaitingLine, TurnsInLine, FairTurns
<1>2. TypeOK /\ SchedulerInv /\ [Next]_vars => SchedulerInv'
  BY StepLine, StepTurns DEF SchedulerInv
<1> QED BY <1>1, <1>2, TypeCorrect, PTL DEF Spec

\* While a feed waits, the loop gives no other feed two turns.
THEOREM TurnsAreFair == Spec => []FairTurns
<1>1. SchedulerInv => FairTurns
  BY DEF SchedulerInv
<1> QED BY <1>1, SchedulerInvariant, PTL
===============================================================================
