----------------------------- MODULE Inbox_proofs -----------------------------
(***************************************************************************)
(* Proofs about Inbox, for all users, activities and request handlers: the *)
(* types, that an activity is carried out at most once, what a follower's  *)
(* row says, and that the inbox implements FollowerList.                   *)
(***************************************************************************)
EXTENDS Inbox, TLAPS

USE InboxAssumption

-----------------------------------------------------------------------------
(* Types                                                                     *)

LEMMA AnswerTypes ==
  ASSUME TypeOK, NEW r \in Requests, Answer(r)
  PROVE  /\ act' \in [Requests -> issued \cup {NoActivity}]
         /\ at' \in [Requests -> {"none", "mark", "work"}]
         /\ \A s \in Requests : at'[s] # "none" => act'[s] \in issued
         /\ \A s \in Requests : at'[s] # "none" => s # r /\ at'[s] = at[s] /\ act'[s] = act[s]
         /\ \A s \in Requests : act'[s] = NoActivity \/ act'[s] = act[s]
  BY DEF TypeOK, Answer

LEMMA AtWork ==
  ASSUME TypeOK, NEW r \in Requests, at[r] # "none"
  PROVE  /\ act[r] \in issued
         /\ act[r] \in Activities
         /\ act[r].user \in Users /\ act[r].n \in Nat
         /\ act[r].type = "Follow" => Follow(act[r].user, act[r].n) = act[r]
<1>1. act[r] \in issued /\ act[r] \in Activities
  BY DEF TypeOK
<1>2. act[r] \in [type : {"Follow", "Undo", "Create"}, user : Users, n : Nat]
  BY <1>1
<1> QED  BY <1>1, <1>2 DEF Follow

LEMMA CarryOutTypes ==
  ASSUME TypeOK, NEW a \in issued, CarryOut(a)
  PROVE  done' \subseteq issued /\ again' \subseteq done'
  BY DEF TypeOK, CarryOut

LEMMA AddFollowerTypes ==
  ASSUME TypeOK, NEW r \in Requests, AddFollower(r)
  PROVE  TypeOK'
<1>1. act[r] \in issued /\ act[r].user \in Users /\ act[r].n \in Nat
  BY AtWork DEF AddFollower
<1>2. row' \in [Users -> Rows \cup {NoRow}]
  BY <1>1 DEF AddFollower, TypeOK, Rows
<1>3. accepts' \subseteq [user : Users, n : Nat, at : {"key", "send", "approve"}]
  BY <1>1 DEF AddFollower, TypeOK
<1>4. UNCHANGED <<issued, pending, accepted, handled, exists, replies, lost>>
  BY DEF AddFollower, remoteVars
<1>5. Answer(r) /\ CarryOut(act[r])
  BY DEF AddFollower
<1> QED
  BY <1>1, <1>2, <1>3, <1>4, <1>5, AnswerTypes, CarryOutTypes DEF TypeOK

LEMMA RemoveFollowerTypes ==
  ASSUME TypeOK, NEW r \in Requests, RemoveFollower(r)
  PROVE  TypeOK'
<1>1. act[r] \in issued
  BY AtWork DEF RemoveFollower
<1>2. row' \in [Users -> Rows \cup {NoRow}]
  BY DEF RemoveFollower, TypeOK
<1>3. UNCHANGED <<issued, pending, accepted, handled, exists, accepts, replies, lost>>
  BY DEF RemoveFollower, remoteVars
<1>4. Answer(r) /\ CarryOut(act[r])
  BY DEF RemoveFollower
<1> QED
  BY <1>1, <1>2, <1>3, <1>4, AnswerTypes, CarryOutTypes DEF TypeOK

LEMMA HandleTypes ==
  ASSUME TypeOK, NEW r \in Requests, Handle(r)
  PROVE  TypeOK'
<1>1. CASE MarkActivityHandled(r)
  <2>1. act[r] \in issued
    BY <1>1, AtWork DEF MarkActivityHandled
  <2>2. handled' \subseteq issued
    BY <1>1, <2>1 DEF MarkActivityHandled, TypeOK
  <2>3. /\ act' \in [Requests -> issued \cup {NoActivity}]
        /\ at' \in [Requests -> {"none", "mark", "work"}]
        /\ \A s \in Requests : at'[s] # "none" => act'[s] \in issued
    <3>1. CASE act[r] \in handled
      BY <1>1, <3>1, AnswerTypes DEF MarkActivityHandled
    <3>2. CASE act[r] \notin handled
      BY <1>1, <2>1, <3>2 DEF MarkActivityHandled, TypeOK
    <3> QED  BY <3>1, <3>2
  <2>4. UNCHANGED <<issued, pending, accepted, exists, row, accepts, replies, lost, done, again>>
    BY <1>1 DEF MarkActivityHandled, remoteVars, historyVars
  <2> QED  BY <2>2, <2>3, <2>4 DEF TypeOK
<1>2. CASE MarkedInVain(r)
  <2>1. UNCHANGED <<issued, pending, accepted, handled, exists, row, accepts, replies, lost,
                    done, again>>
    BY <1>2 DEF MarkedInVain, remoteVars, historyVars
  <2> QED  BY <1>2, <2>1, AnswerTypes DEF MarkedInVain, TypeOK
<1>3. CASE HandleCreateNote(r)
  <2>1. act[r] \in issued
    BY <1>3, AtWork DEF HandleCreateNote
  <2>2. replies' \subseteq {a \in issued : a.type = "Create"}
    BY <1>3, <2>1 DEF HandleCreateNote, TypeOK
  <2>3. UNCHANGED <<issued, pending, accepted, handled, exists, row, accepts, lost, done, again>>
    BY <1>3 DEF HandleCreateNote, remoteVars, historyVars
  <2> QED  BY <1>3, <2>2, <2>3, AnswerTypes DEF HandleCreateNote, TypeOK
<1>4. CASE CallFails(r)
  <2>1. UNCHANGED <<issued, pending, accepted, handled, exists, row, accepts, replies, done, again>>
    BY <1>4 DEF CallFails, remoteVars, historyVars
  <2>2. lost' \in 0..MaxLost
    BY <1>4 DEF CallFails, TypeOK
  <2> QED  BY <1>4, <2>1, <2>2, AnswerTypes DEF CallFails, TypeOK
<1> QED
  BY <1>1, <1>2, <1>3, <1>4, AddFollowerTypes, RemoveFollowerTypes DEF Handle

LEMMA RestartTypes ==
  ASSUME TypeOK, Restart, lost' \in 0..MaxLost
  PROVE  TypeOK'
<1>1. /\ act' \in [Requests -> issued \cup {NoActivity}]
      /\ at' \in [Requests -> {"none", "mark", "work"}]
      /\ \A s \in Requests : at'[s] = "none"
      /\ accepts' = {} /\ replies' = {}
  BY DEF Restart
<1>2. UNCHANGED <<issued, pending, accepted, handled, exists, row, done, again>>
  BY DEF Restart, remoteVars, historyVars
<1> QED  BY <1>1, <1>2 DEF TypeOK

LEMMA ApproveEffect ==
  ASSUME TypeOK, NEW g \in accepts, SetFollowerApproveStatus(g)
  PROVE  /\ row' \in [Users -> Rows \cup {NoRow}]
         /\ \A u \in Users : row'[u] = row[u] \/ u = g.user
         /\ row'[g.user] # NoRow =>
              row[g.user] # NoRow /\ row'[g.user] = [row[g.user] EXCEPT !.approved = TRUE]
         /\ row'[g.user] # NoRow => row'[g.user].request = row[g.user].request
<1>1. g.user \in Users
  BY DEF TypeOK
<1>2. CASE row[g.user] = NoRow
  BY <1>2 DEF SetFollowerApproveStatus, TypeOK
<1>3. CASE row[g.user] # NoRow
  <2>1. row[g.user] \in [request : Nat, approved : BOOLEAN]
    BY <1>1, <1>3 DEF TypeOK, Rows
  <2>2. [row[g.user] EXCEPT !.approved = TRUE] \in [request : Nat, approved : BOOLEAN]
    BY <2>1
  <2>3. row' = [row EXCEPT ![g.user] = [row[g.user] EXCEPT !.approved = TRUE]]
    BY <1>3 DEF SetFollowerApproveStatus
  <2> QED  BY <1>1, <1>3, <2>1, <2>2, <2>3 DEF TypeOK, Rows
<1> QED  BY <1>2, <1>3

LEMMA AcceptFollowerTypes ==
  ASSUME TypeOK, NEW g \in accepts, AcceptFollower(g)
  PROVE  TypeOK'
<1>1. g \in [user : Users, n : Nat, at : {"key", "send", "approve"}]
  BY DEF TypeOK
<1>2. CASE GetPrivKey(g)
  BY <1>1, <1>2 DEF GetPrivKey, Moves, TypeOK, remoteVars, handlerVars, historyVars
<1>3. CASE SendAccept(g)
  BY <1>1, <1>3 DEF SendAccept, Moves, TypeOK, handlerVars, historyVars
<1>4. CASE SetFollowerApproveStatus(g)
  <2>1. row' \in [Users -> Rows \cup {NoRow}]
    BY <1>1, <1>4, ApproveEffect DEF TypeOK
  <2> QED
    BY <1>4, <2>1 DEF SetFollowerApproveStatus, Ends, TypeOK, remoteVars, handlerVars, historyVars
<1>5. CASE AcceptFails(g)
  <2>1. accepted' \subseteq Users /\ lost' \in 0..MaxLost
    BY <1>1, <1>5 DEF AcceptFails, TypeOK
  <2> QED  BY <1>5, <2>1 DEF AcceptFails, Ends, TypeOK, handlerVars, historyVars
<1>6. CASE Panic(g)
  BY <1>6, RestartTypes DEF Panic, TypeOK
<1> QED  BY <1>2, <1>3, <1>4, <1>5, <1>6 DEF AcceptFollower

LEMMA ActivityTypes ==
  ASSUME TypeOK, NEW a \in Activities, Issue(a) \/ DeleteHandledActivities(a)
  PROVE  TypeOK'
<1>1. CASE Issue(a)
  <2>1. issued' = issued \cup {a} /\ pending' = pending \cup {a}
    BY <1>1 DEF Issue
  <2>2. act \in [Requests -> issued' \cup {NoActivity}]
    BY <2>1 DEF TypeOK
  <2>3. UNCHANGED <<accepted, act, at, handled, exists, row, accepts, replies, lost, done, again>>
    BY <1>1 DEF Issue, handlerVars, historyVars
  <2> QED  BY <2>1, <2>2, <2>3 DEF TypeOK
<1>2. CASE DeleteHandledActivities(a)
  BY <1>2 DEF DeleteHandledActivities, TypeOK, handlerVars, historyVars
<1> QED  BY <1>1, <1>2

\* The variables of Inbox keep their types: a handler's activity has been sent by
\* somebody, and so has everything that is marked, done or replied to.
THEOREM TypeCorrect == Spec => []TypeOK
<1>1. Init => TypeOK
  BY DEF Init, TypeOK
<1>2. TypeOK /\ [Next]_vars => TypeOK'
  <2> SUFFICES ASSUME TypeOK, [Next]_vars PROVE TypeOK'
    OBVIOUS
  <2>1. ASSUME NEW a \in Activities, Issue(a) \/ DeleteHandledActivities(a)
        PROVE  TypeOK'
    BY <2>1, ActivityTypes
  <2>2. ASSUME NEW r \in Requests, NEW a \in Activities, Deliver(r, a)
        PROVE  TypeOK'
    BY <2>2 DEF Deliver, TypeOK, remoteVars, historyVars
  <2>3. ASSUME NEW r \in Requests, Handle(r) PROVE TypeOK'
    BY <2>3, HandleTypes
  <2>4. ASSUME NEW g \in accepts, AcceptFollower(g) PROVE TypeOK'
    BY <2>4, AcceptFollowerTypes
  <2>5. ASSUME NEW a \in replies, Reply(a) PROVE TypeOK'
    <3>1. a \in issued
      BY DEF TypeOK
    <3> QED  BY <2>5, <3>1, CarryOutTypes DEF Reply, TypeOK, remoteVars, handlerVars
  <2>6. CASE DeleteAccount
    BY <2>6 DEF DeleteAccount, TypeOK, remoteVars, handlerVars, historyVars
  <2>7. CASE Crash
    <3>1. lost' \in 0..MaxLost
      BY <2>7 DEF Crash, TypeOK
    <3> QED  BY <2>7, <3>1, RestartTypes DEF Crash
  <2>8. CASE UNCHANGED vars
    BY <2>8 DEF vars, remoteVars, handlerVars, historyVars, TypeOK
  <2> QED  BY <2>1, <2>2, <2>3, <2>4, <2>5, <2>6, <2>7, <2>8 DEF Next
<1> QED  BY <1>1, <1>2, PTL DEF Spec

-----------------------------------------------------------------------------
(* Once only                                                                 *)

Once == CarriedOutOnce /\ WorkIsFresh /\ DoneIsRemembered

LEMMA AnswerKeepsWork ==
  ASSUME TypeOK, Once, NEW r \in Requests, Answer(r),
         UNCHANGED <<pending, handled, replies>>, done' \subseteq done \cup {act[r]},
         act[r] \in done' => at[r] = "work"
  PROVE  WorkIsFresh' /\ DoneIsRemembered'
<1>1. NoActivity \notin done' \cup replies'
  BY AtWork DEF TypeOK
<1>2. \A s \in Requests : /\ at'[s] # "none" => s # r /\ at'[s] = at[s] /\ act'[s] = act[s]
                          /\ act'[s] = NoActivity \/ act'[s] = act[s]
  BY AnswerTypes
<1>3. act[r] \in done' => act[r] \in handled /\ act[r] \notin replies
  BY DEF Once, WorkIsFresh
<1>4. WorkIsFresh'
  <2>1. ASSUME NEW s \in Requests, at'[s] = "work"
        PROVE  /\ s # r /\ at[s] = "work" /\ act'[s] = act[s]
               /\ act[s] \in handled /\ act[s] \notin replies
               /\ act[s] \notin done'
    <3>1. s # r /\ at[s] = "work" /\ act'[s] = act[s]
      BY <1>2, <2>1
    <3>2. act[s] \in handled /\ act[s] \notin replies /\ act[s] \notin done
      BY <3>1 DEF Once, WorkIsFresh
    <3>3. act[r] \in done' => act[s] # act[r]
      BY <3>1 DEF Once, WorkIsFresh
    <3> QED  BY <3>1, <3>2, <3>3
  <2>2. ASSUME NEW s \in Requests, NEW q \in Requests, q # s, at'[s] = "work", at'[q] = "work"
        PROVE  act'[q] # act'[s]
    BY <2>1, <2>2 DEF Once, WorkIsFresh
  <2> QED  BY <2>1, <2>2 DEF WorkIsFresh
<1>5. \A a \in done \cup replies : Remembered(a)
  BY DEF Once, DoneIsRemembered
<1>6. \A a \in done' \cup replies' : Remembered(a)'
  BY <1>1, <1>2, <1>3, <1>5 DEF Remembered
<1>7. \A a \in replies' : a \notin done'
  BY <1>3 DEF Once, DoneIsRemembered
<1> QED  BY <1>4, <1>6, <1>7 DEF DoneIsRemembered, Remembered

LEMMA FreshCarryOut ==
  ASSUME TypeOK, Once, NEW a, a \notin done, CarryOut(a)
  PROVE  CarriedOutOnce' /\ done' = done \cup {a}
BY DEF CarryOut, Once, CarriedOutOnce

LEMMA HandleOnce ==
  ASSUME TypeOK, Once, NEW r \in Requests, Handle(r)
  PROVE  Once'
<1>1. CASE MarkActivityHandled(r)
  <2>1. UNCHANGED <<pending, replies, done, again>> /\ at[r] = "mark"
    BY <1>1 DEF MarkActivityHandled, remoteVars, historyVars
  <2>2. CASE act[r] \in handled
    <3>1. Answer(r) /\ handled' = handled /\ act[r] \notin done' \ done
      BY <1>1, <2>1, <2>2 DEF MarkActivityHandled
    <3>2. act[r] \in issued
      BY <2>1, AtWork
    <3>3. WorkIsFresh' /\ DoneIsRemembered'
      <4>1. CASE act[r] \notin done
        BY <2>1, <3>1, <4>1, AnswerKeepsWork
      <4>2. CASE act[r] \in done
        <5>1. \A s \in Requests : /\ at'[s] # "none" => s # r /\ at'[s] = at[s] /\ act'[s] = act[s]
                                  /\ act'[s] = NoActivity \/ act'[s] = act[s]
          BY <3>1, AnswerTypes
        <5>2. NoActivity \notin done \cup replies
          BY DEF TypeOK
        <5>3. WorkIsFresh'
          BY <2>1, <3>1, <5>1 DEF Once, WorkIsFresh
        <5>4. DoneIsRemembered'
          BY <2>1, <3>1, <5>1, <5>2 DEF Once, DoneIsRemembered, Remembered
        <5> QED  BY <5>3, <5>4
      <4> QED  BY <4>1, <4>2
    <3> QED  BY <2>1, <3>3 DEF Once, CarriedOutOnce
  <2>3. CASE act[r] \notin handled
    <3>1. /\ handled' = handled \cup {act[r]}
          /\ act' = act
          /\ \A s \in Requests : at'[s] = IF s = r THEN "work" ELSE at[s]
      BY <1>1, <2>3 DEF MarkActivityHandled, TypeOK
    <3>2. act[r] \notin done /\ act[r] \notin replies
      BY <2>3 DEF Once, DoneIsRemembered, Remembered
    <3>3. \A s \in Requests : s # r /\ at[s] = "work" => act[s] # act[r]
      BY <2>3 DEF Once, WorkIsFresh
    <3>4. WorkIsFresh'
      BY <2>1, <3>1, <3>2, <3>3 DEF Once, WorkIsFresh
    <3>5. DoneIsRemembered'
      BY <2>1, <3>1 DEF Once, DoneIsRemembered, Remembered
    <3> QED  BY <2>1, <3>4, <3>5 DEF Once, CarriedOutOnce
  <2> QED  BY <2>2, <2>3
<1>2. CASE AddFollower(r) \/ RemoveFollower(r)
  <2>1. /\ UNCHANGED <<pending, handled, replies>> /\ at[r] = "work"
        /\ CarryOut(act[r]) /\ Answer(r)
    BY <1>2 DEF AddFollower, RemoveFollower, remoteVars
  <2>2. act[r] \notin done
    BY <2>1 DEF Once, WorkIsFresh
  <2>3. CarriedOutOnce' /\ done' = done \cup {act[r]}
    BY <2>1, <2>2, FreshCarryOut
  <2> QED  BY <2>1, <2>3, AnswerKeepsWork DEF Once
<1>3. CASE MarkedInVain(r)
  <2>1. UNCHANGED <<pending, handled, replies, done, again>> /\ at[r] = "work" /\ Answer(r)
    BY <1>3 DEF MarkedInVain, remoteVars, historyVars
  <2> QED  BY <2>1, AnswerKeepsWork DEF Once, CarriedOutOnce
<1>4. CASE HandleCreateNote(r)
  <2>1. /\ UNCHANGED <<pending, handled, done, again>> /\ at[r] = "work" /\ Answer(r)
        /\ replies' \subseteq replies \cup {act[r]}
    BY <1>4 DEF HandleCreateNote, remoteVars, historyVars
  <2>2. act[r] \in handled /\ act[r] \notin done
    BY <2>1 DEF Once, WorkIsFresh
  <2>3. \A s \in Requests : /\ at'[s] # "none" => s # r /\ at'[s] = at[s] /\ act'[s] = act[s]
                            /\ act'[s] = NoActivity \/ act'[s] = act[s]
    BY <2>1, AnswerTypes
  <2>4. NoActivity \notin done \cup replies
    BY DEF TypeOK
  <2>5. WorkIsFresh'
    BY <2>1, <2>3 DEF Once, WorkIsFresh
  <2>6. DoneIsRemembered'
    BY <2>1, <2>2, <2>3, <2>4 DEF Once, DoneIsRemembered, Remembered
  <2> QED  BY <2>1, <2>5, <2>6 DEF Once, CarriedOutOnce
<1>5. CASE CallFails(r)
  <2>1. UNCHANGED <<pending, handled, replies, done, again>> /\ Answer(r)
    BY <1>5 DEF CallFails, remoteVars, historyVars
  <2>2. \A s \in Requests : /\ at'[s] # "none" => s # r /\ at'[s] = at[s] /\ act'[s] = act[s]
                            /\ act'[s] = NoActivity \/ act'[s] = act[s]
    BY <2>1, AnswerTypes
  <2>3. NoActivity \notin done \cup replies
    BY DEF TypeOK
  <2>4. WorkIsFresh'
    BY <2>1, <2>2 DEF Once, WorkIsFresh
  <2>5. DoneIsRemembered'
    BY <2>1, <2>2, <2>3 DEF Once, DoneIsRemembered, Remembered
  <2> QED  BY <2>1, <2>4, <2>5 DEF Once, CarriedOutOnce
<1> QED  BY <1>1, <1>2, <1>3, <1>4, <1>5 DEF Handle

LEMMA RestartOnce ==
  ASSUME TypeOK, Once, Restart
  PROVE  Once'
<1>1. /\ UNCHANGED <<pending, handled, done, again>> /\ replies' = {}
      /\ \A s \in Requests : at'[s] = "none" /\ act'[s] = NoActivity
  BY DEF Restart, remoteVars, historyVars
<1>2. NoActivity \notin done
  BY DEF TypeOK
<1> QED
  BY <1>1, <1>2 DEF Once, CarriedOutOnce, WorkIsFresh, DoneIsRemembered, Remembered

\* No activity is carried out twice, however often, in whatever order and how many
\* at a time it is delivered, through failed calls and crashes.
THEOREM EachActivityOnce == Spec => []Once
<1>1. Init => Once
  BY DEF Init, Once, CarriedOutOnce, WorkIsFresh, DoneIsRemembered
<1>2. TypeOK /\ Once /\ [Next]_vars => Once'
  <2> SUFFICES ASSUME TypeOK, Once, [Next]_vars PROVE Once'
    OBVIOUS
  <2>0. ASSUME UNCHANGED <<pending, act, at, handled, replies, done, again>>
        PROVE  Once'
    BY <2>0 DEF Once, CarriedOutOnce, WorkIsFresh, DoneIsRemembered, Remembered
  <2>1. ASSUME NEW a \in Activities, Issue(a) PROVE Once'
    <3>1. /\ UNCHANGED <<act, at, handled, replies, done, again>>
          /\ pending' = pending \cup {a} /\ a \notin done \cup replies
      BY <2>1 DEF Issue, handlerVars, historyVars, TypeOK
    <3> QED  BY <3>1 DEF Once, CarriedOutOnce, WorkIsFresh, DoneIsRemembered, Remembered
  <2>2. ASSUME NEW a \in Activities, DeleteHandledActivities(a) PROVE Once'
    <3>1. /\ UNCHANGED <<act, at, replies, done, again>>
          /\ pending' = pending \ {a} /\ handled' = handled \ {a}
          /\ \A r \in Requests : act[r] # a
      BY <2>2 DEF DeleteHandledActivities, handlerVars, historyVars
    <3> QED  BY <3>1 DEF Once, CarriedOutOnce, WorkIsFresh, DoneIsRemembered, Remembered
  <2>3. ASSUME NEW r \in Requests, NEW a \in Activities, Deliver(r, a) PROVE Once'
    <3>1. /\ UNCHANGED <<pending, handled, replies, done, again>> /\ a \in pending
          /\ \A s \in Requests : /\ act'[s] = IF s = r THEN a ELSE act[s]
                                 /\ at'[s] = IF s = r THEN "mark" ELSE at[s]
      BY <2>3 DEF Deliver, TypeOK, remoteVars, historyVars
    <3>2. WorkIsFresh'
      BY <3>1 DEF Once, WorkIsFresh
    <3>3. DoneIsRemembered'
      BY <3>1 DEF Once, DoneIsRemembered, Remembered
    <3> QED  BY <3>1, <3>2, <3>3 DEF Once, CarriedOutOnce
  <2>4. ASSUME NEW r \in Requests, Handle(r) PROVE Once'
    BY <2>4, HandleOnce
  <2>5. ASSUME NEW g \in accepts, AcceptFollower(g) PROVE Once'
    <3>1. CASE Panic(g)
      BY <3>1, RestartOnce DEF Panic
    <3>2. CASE ~Panic(g)
      BY <2>0, <2>5, <3>2
         DEF AcceptFollower, GetPrivKey, SendAccept, SetFollowerApproveStatus, AcceptFails,
             remoteVars, handlerVars, historyVars
    <3> QED  BY <3>1, <3>2
  <2>6. ASSUME NEW a \in replies, Reply(a) PROVE Once'
    <3>1. /\ UNCHANGED <<pending, act, at, handled>>
          /\ replies' = replies \ {a} /\ CarryOut(a)
      BY <2>6 DEF Reply, remoteVars, handlerVars
    <3>2. a \notin done /\ Remembered(a)
      BY DEF Once, DoneIsRemembered
    <3>3. CarriedOutOnce' /\ done' = done \cup {a}
      BY <3>1, <3>2, FreshCarryOut
    <3> QED
      BY <3>1, <3>2, <3>3 DEF Once, WorkIsFresh, DoneIsRemembered, Remembered
  <2>7. CASE DeleteAccount
    BY <2>0, <2>7 DEF DeleteAccount, remoteVars, handlerVars, historyVars
  <2>8. CASE Crash
    BY <2>8, RestartOnce DEF Crash
  <2>9. CASE UNCHANGED vars
    BY <2>0, <2>9 DEF vars, remoteVars, handlerVars, historyVars
  <2> QED  BY <2>1, <2>2, <2>3, <2>4, <2>5, <2>6, <2>7, <2>8, <2>9 DEF Next
<1> QED  BY <1>1, <1>2, TypeCorrect, PTL DEF Spec

\* The same, as the property the runs check.
THEOREM OnceOnly == Spec => []CarriedOutOnce
<1>1. Once => CarriedOutOnce
  BY DEF Once
<1> QED  BY <1>1, EachActivityOnce, PTL

-----------------------------------------------------------------------------
(* Followers                                                                 *)

LEMMA FollowFact ==
  ASSUME NEW u, NEW n
  PROVE  Follow(u, n).type = "Follow" /\ Follow(u, n).user = u
BY DEF Follow

LEMMA AddFollowerEffect ==
  ASSUME TypeOK, NEW r \in Requests, AddFollower(r)
  PROVE  /\ act[r].user \in Users
         /\ Follow(act[r].user, act[r].n) = act[r]
         /\ done' = done \cup {act[r]}
         /\ \A u \in Users : \/ u # act[r].user /\ row'[u] = row[u]
                             \/ /\ u = act[r].user
                               /\ row'[u] = [request |-> act[r].n, approved |-> FALSE]
         /\ \A g \in accepts' : g \in accepts \/ g = [user |-> act[r].user, n |-> act[r].n, at |-> "key"]
         /\ accepted' = accepted
BY AtWork DEF AddFollower, CarryOut, TypeOK, remoteVars

LEMMA AcceptedKept ==
  ASSUME ApprovedMeansAccepted, done \subseteq done', accepts' \subseteq accepts,
         accepted' = accepted, \A u \in Users : row'[u] = row[u] \/ row'[u] = NoRow
  PROVE  ApprovedMeansAccepted'
BY DEF ApprovedMeansAccepted

LEMMA HandleAccepted ==
  ASSUME TypeOK, ApprovedMeansAccepted, NEW r \in Requests, Handle(r)
  PROVE  ApprovedMeansAccepted'
<1>1. CASE AddFollower(r)
  <2> DEFINE v == act[r].user  n == act[r].n
  <2>1. /\ v \in Users
        /\ Follow(v, n) \in done'
        /\ done \subseteq done'
        /\ \A u \in Users : \/ u # v /\ row'[u] = row[u]
                            \/ u = v /\ row'[u] = [request |-> n, approved |-> FALSE]
        /\ \A g \in accepts' : g \in accepts \/ g = [user |-> v, n |-> n, at |-> "key"]
        /\ accepted' = accepted
    BY <1>1, AddFollowerEffect
  <2> HIDE DEF v, n
  <2>2. \A g \in accepts' : /\ Follow(g.user, g.n) \in done'
                            /\ g.at = "approve" => g.user \in accepted'
    BY <2>1 DEF ApprovedMeansAccepted
  <2>3. \A u \in accepted' : \E a \in done' : a.type = "Follow" /\ a.user = u
    BY <2>1 DEF ApprovedMeansAccepted
  <2>4. \A u \in Users : row'[u] # NoRow =>
          /\ Follow(u, row'[u].request) \in done'
          /\ row'[u].approved => u \in accepted'
    BY <2>1 DEF ApprovedMeansAccepted
  <2> QED  BY <2>2, <2>3, <2>4 DEF ApprovedMeansAccepted
<1>2. CASE RemoveFollower(r)
  <2>1. \A u \in Users : row'[u] = row[u] \/ row'[u] = NoRow
    BY <1>2 DEF RemoveFollower, TypeOK
  <2>2. done \subseteq done' /\ UNCHANGED <<accepts, accepted>>
    BY <1>2 DEF RemoveFollower, CarryOut, remoteVars
  <2> QED  BY <2>1, <2>2, AcceptedKept
<1>3. CASE MarkActivityHandled(r) \/ MarkedInVain(r) \/ HandleCreateNote(r) \/ CallFails(r)
  <2>1. UNCHANGED <<row, accepts, accepted, done>>
    BY <1>3 DEF MarkActivityHandled, MarkedInVain, HandleCreateNote, CallFails,
                remoteVars, historyVars
  <2> QED  BY <2>1, AcceptedKept
<1> QED  BY <1>1, <1>2, <1>3 DEF Handle

LEMMA AcceptAccepted ==
  ASSUME TypeOK, ApprovedMeansAccepted, NEW g \in accepts, AcceptFollower(g)
  PROVE  ApprovedMeansAccepted'
<1>0. /\ g \in [user : Users, n : Nat, at : {"key", "send", "approve"}]
      /\ Follow(g.user, g.n) \in done
      /\ \E a \in done : a.type = "Follow" /\ a.user = g.user
  BY FollowFact DEF TypeOK, ApprovedMeansAccepted
<1>1. CASE GetPrivKey(g)
  <2>1. UNCHANGED <<row, accepted, done>>
    BY <1>1 DEF GetPrivKey, remoteVars, historyVars
  <2>2. \A h \in accepts' : \/ h \in accepts
                            \/ h.user = g.user /\ h.n = g.n /\ h.at = "send"
    BY <1>0, <1>1 DEF GetPrivKey, Moves
  <2> QED  BY <1>0, <2>1, <2>2 DEF ApprovedMeansAccepted
<1>2. CASE SendAccept(g)
  <2>1. UNCHANGED <<row, done>> /\ accepted' = accepted \cup {g.user}
    BY <1>2 DEF SendAccept, historyVars
  <2>2. \A h \in accepts' : \/ h \in accepts
                            \/ h.user = g.user /\ h.n = g.n /\ h.at = "approve"
    BY <1>0, <1>2 DEF SendAccept, Moves
  <2> QED  BY <1>0, <2>1, <2>2 DEF ApprovedMeansAccepted
<1>3. CASE SetFollowerApproveStatus(g)
  <2>1. UNCHANGED <<accepted, done>> /\ accepts' \subseteq accepts /\ g.at = "approve"
    BY <1>3 DEF SetFollowerApproveStatus, Ends, remoteVars, historyVars
  <2>2. g.user \in accepted
    BY <2>1 DEF ApprovedMeansAccepted
  <2>3. ASSUME NEW u \in Users, row'[u] # NoRow
        PROVE  /\ Follow(u, row'[u].request) \in done'
               /\ row'[u].approved => u \in accepted'
    <3>1. CASE row'[u] = row[u]
      BY <2>1, <2>3, <3>1 DEF ApprovedMeansAccepted
    <3>2. CASE u = g.user
      <4>1. row[u] # NoRow /\ row'[u].request = row[u].request
        BY <1>3, <2>3, <3>2, ApproveEffect
      <4> QED  BY <2>1, <2>2, <3>2, <4>1 DEF ApprovedMeansAccepted
    <3> QED  BY <1>3, <3>1, <3>2, ApproveEffect
  <2> QED  BY <2>1, <2>3 DEF ApprovedMeansAccepted
<1>4. CASE AcceptFails(g)
  <2>1. UNCHANGED <<row, done>> /\ accepts' \subseteq accepts
    BY <1>4 DEF AcceptFails, Ends, historyVars
  <2>2. accepted' = accepted \/ accepted' = accepted \cup {g.user}
    BY <1>4 DEF AcceptFails
  <2> QED  BY <1>0, <2>1, <2>2 DEF ApprovedMeansAccepted
<1>5. CASE Panic(g)
  <2>1. UNCHANGED <<row, accepted, done>> /\ accepts' = {}
    BY <1>5 DEF Panic, Restart, remoteVars, historyVars
  <2> QED  BY <2>1, AcceptedKept
<1> QED  BY <1>1, <1>2, <1>3, <1>4, <1>5 DEF AcceptFollower

LEMMA WaitingKept ==
  ASSUME AcceptUnderWay, UNCHANGED <<exists, row>>,
         lost' = lost, accepts \subseteq accepts'
  PROVE  AcceptUnderWay'
BY DEF AcceptUnderWay

LEMMA LostMeansNothingWaits ==
  ASSUME TypeOK, AcceptUnderWay, UNCHANGED <<exists, row>>, lost' = lost + 1
  PROVE  AcceptUnderWay'
<1>1. lost' > 0
  BY DEF TypeOK
<1> QED  BY <1>1 DEF AcceptUnderWay

LEMMA HandleUnderWay ==
  ASSUME TypeOK, AcceptUnderWay, NEW r \in Requests, Handle(r)
  PROVE  AcceptUnderWay'
<1>1. CASE AddFollower(r)
  <2>1. /\ act[r].user \in Users /\ exists' /\ lost' = lost
        /\ \A u \in Users : u # act[r].user => row'[u] = row[u]
    BY <1>1, AddFollowerEffect DEF AddFollower
  <2>2. accepts \subseteq accepts'
    BY <1>1 DEF AddFollower
  <2>3. AutoAccept => \E g \in accepts' : g.user = act[r].user
    <3>1. AutoAccept => [user |-> act[r].user, n |-> act[r].n, at |-> "key"] \in accepts'
      BY <1>1 DEF AddFollower
    <3> QED  BY <3>1
  <2> QED  BY <2>1, <2>2, <2>3 DEF AcceptUnderWay
<1>2. CASE RemoveFollower(r)
  <2>1. \A u \in Users : row'[u] = row[u] \/ row'[u] = NoRow
    BY <1>2 DEF RemoveFollower, TypeOK
  <2> QED  BY <1>2, <2>1 DEF RemoveFollower, AcceptUnderWay
<1>3. CASE MarkActivityHandled(r) \/ MarkedInVain(r) \/ HandleCreateNote(r)
  BY <1>3, WaitingKept DEF MarkActivityHandled, MarkedInVain, HandleCreateNote
<1>4. CASE CallFails(r)
  BY <1>4, LostMeansNothingWaits DEF CallFails
<1> QED  BY <1>1, <1>2, <1>3, <1>4 DEF Handle

LEMMA AcceptFollowerUnderWay ==
  ASSUME TypeOK, AcceptUnderWay, NEW g \in accepts, AcceptFollower(g)
  PROVE  AcceptUnderWay'
<1>0. g \in [user : Users, n : Nat, at : {"key", "send", "approve"}]
  BY DEF TypeOK
<1>1. CASE GetPrivKey(g) \/ SendAccept(g)
  <2>1. PICK place \in {"send", "approve"} : Moves(g, place)
    BY <1>1 DEF GetPrivKey, SendAccept
  <2>2. UNCHANGED <<exists, row, lost>>
    BY <1>1 DEF GetPrivKey, SendAccept
  <2>3. [g EXCEPT !.at = place].user = g.user
    BY <1>0
  <2>4. ASSUME NEW h \in accepts PROVE \E k \in accepts' : k.user = h.user
    BY <2>1, <2>3 DEF Moves
  <2> QED  BY <2>2, <2>4 DEF AcceptUnderWay
<1>2. CASE SetFollowerApproveStatus(g)
  <2>1. /\ exists' /\ lost' = lost
        /\ \A h \in accepts : h = g \/ h \in accepts'
    BY <1>2 DEF SetFollowerApproveStatus, Ends
  <2>2. ASSUME NEW u \in Users, row'[u] # NoRow, u = g.user
        PROVE  row'[u].approved
    <3>1. row[u] # NoRow /\ row'[u] = [row[u] EXCEPT !.approved = TRUE]
      BY <1>2, <2>2, ApproveEffect
    <3>2. row[u] \in [request : Nat, approved : BOOLEAN]
      BY <3>1 DEF TypeOK, Rows
    <3> QED  BY <3>1, <3>2
  <2>3. \A u \in Users : u # g.user => row'[u] = row[u]
    BY <1>2, ApproveEffect
  <2> QED  BY <2>1, <2>2, <2>3 DEF AcceptUnderWay
<1>3. CASE AcceptFails(g)
  BY <1>3, LostMeansNothingWaits DEF AcceptFails
<1>4. CASE Panic(g)
  BY <1>4 DEF Panic, Restart, AcceptUnderWay
<1> QED  BY <1>1, <1>2, <1>3, <1>4 DEF AcceptFollower

\* Whoever follows is approved or has a goroutine that will approve him, as long as
\* no call has failed: the safety half of FollowSettles, for any number of users.
THEOREM FollowersUnderWay == Spec => []AcceptUnderWay
<1>1. Init => AcceptUnderWay
  BY DEF Init, AcceptUnderWay
<1>2. TypeOK /\ AcceptUnderWay /\ [Next]_vars => AcceptUnderWay'
  <2> SUFFICES ASSUME TypeOK, AcceptUnderWay, [Next]_vars PROVE AcceptUnderWay'
    OBVIOUS
  <2>1. ASSUME NEW a \in Activities, Issue(a) \/ DeleteHandledActivities(a)
        PROVE  AcceptUnderWay'
    BY <2>1, WaitingKept DEF Issue, DeleteHandledActivities
  <2>2. ASSUME NEW r \in Requests, NEW a \in Activities, Deliver(r, a)
        PROVE  AcceptUnderWay'
    BY <2>2, WaitingKept DEF Deliver
  <2>3. ASSUME NEW r \in Requests, Handle(r) PROVE AcceptUnderWay'
    BY <2>3, HandleUnderWay
  <2>4. ASSUME NEW g \in accepts, AcceptFollower(g) PROVE AcceptUnderWay'
    BY <2>4, AcceptFollowerUnderWay
  <2>5. ASSUME NEW a \in replies, Reply(a) PROVE AcceptUnderWay'
    <3>1. UNCHANGED <<row, accepts, lost>> /\ exists' \in {exists, TRUE}
      BY <2>5 DEF Reply
    <3> QED  BY <3>1 DEF AcceptUnderWay
  <2>6. CASE DeleteAccount
    BY <2>6 DEF DeleteAccount, AcceptUnderWay
  <2>7. CASE Crash
    BY <2>7, LostMeansNothingWaits DEF Crash, Restart
  <2>8. CASE UNCHANGED vars
    BY <2>8, WaitingKept DEF vars
  <2> QED  BY <2>1, <2>2, <2>3, <2>4, <2>5, <2>6, <2>7, <2>8 DEF Next
<1> QED  BY <1>1, <1>2, TypeCorrect, PTL DEF Spec

\* InboxInv: beside what Once says, an Accept is only ever sent for a Follow that was
\* carried out, a row exists for such a Follow only, and an approved follower has
\* got an Accept; and who waits for his approval has an Accept on its way.
THEOREM InboxInvariant == Spec => []InboxInv
<1>1. Init => ApprovedMeansAccepted
  BY DEF Init, ApprovedMeansAccepted
<1>2. TypeOK /\ ApprovedMeansAccepted /\ [Next]_vars => ApprovedMeansAccepted'
  <2> SUFFICES ASSUME TypeOK, ApprovedMeansAccepted, [Next]_vars PROVE ApprovedMeansAccepted'
    OBVIOUS
  <2>1. ASSUME NEW a \in Activities, Issue(a) \/ DeleteHandledActivities(a)
        PROVE  ApprovedMeansAccepted'
    BY <2>1, AcceptedKept DEF Issue, DeleteHandledActivities, historyVars
  <2>2. ASSUME NEW r \in Requests, NEW a \in Activities, Deliver(r, a)
        PROVE  ApprovedMeansAccepted'
    BY <2>2, AcceptedKept DEF Deliver, remoteVars, historyVars
  <2>3. ASSUME NEW r \in Requests, Handle(r) PROVE ApprovedMeansAccepted'
    BY <2>3, HandleAccepted
  <2>4. ASSUME NEW g \in accepts, AcceptFollower(g) PROVE ApprovedMeansAccepted'
    BY <2>4, AcceptAccepted
  <2>5. ASSUME NEW a \in replies, Reply(a) PROVE ApprovedMeansAccepted'
    BY <2>5, AcceptedKept DEF Reply, CarryOut, remoteVars
  <2>6. CASE DeleteAccount
    BY <2>6, AcceptedKept DEF DeleteAccount, remoteVars, historyVars
  <2>7. CASE Crash
    BY <2>7, AcceptedKept DEF Crash, Restart, remoteVars, historyVars
  <2>8. CASE UNCHANGED vars
    BY <2>8, AcceptedKept DEF vars, remoteVars, historyVars
  <2> QED  BY <2>1, <2>2, <2>3, <2>4, <2>5, <2>6, <2>7, <2>8 DEF Next
<1>3. Once /\ ApprovedMeansAccepted /\ AcceptUnderWay => InboxInv
  BY DEF Once, InboxInv
<1> QED
  BY <1>1, <1>2, <1>3, TypeCorrect, EachActivityOnce, FollowersUnderWay, PTL DEF Spec

-----------------------------------------------------------------------------
(* The inbox implements FollowerList                                         *)

ListVars == <<done, Holding, Approved, accepted>>

LEMMA RowsUnchanged ==
  ASSUME UNCHANGED row
  PROVE  Holding' = Holding /\ Approved' = Approved
BY DEF Holding, Approved

LEMMA FollowIsActivity ==
  ASSUME TypeOK, InboxInv, NEW u \in Users, row[u] # NoRow
  PROVE  Follow(u, row[u].request) # NoActivity /\ Holding[u] # NoActivity
<1>1. Follow(u, row[u].request) \in Activities
  BY DEF InboxInv, ApprovedMeansAccepted, TypeOK
<1> QED  BY <1>1 DEF Holding

LEMMA FollowTakesEffect ==
  ASSUME TypeOK, InboxInv, NEW r \in Requests, AddFollower(r)
  PROVE  List!Follow(act[r])
<1> DEFINE a == act[r]
<1>1. at[r] = "work" /\ a.type = "Follow" /\ at[r] # "none"
  BY DEF AddFollower
<1>2. /\ a.user \in Users /\ Follow(a.user, a.n) = a
      /\ done' = done \cup {a} /\ accepted' = accepted
      /\ \A u \in Users : \/ u # a.user /\ row'[u] = row[u]
                          \/ u = a.user /\ row'[u] = [request |-> a.n, approved |-> FALSE]
  BY AddFollowerEffect
<1>3. a.n \in Nat
  BY <1>1, AtWork
<1>4. a \notin done
  BY <1>1 DEF InboxInv, WorkIsFresh
<1>5. [request |-> a.n, approved |-> FALSE] # NoRow
  <2>1. [request |-> a.n, approved |-> FALSE] \in [request : Nat, approved : BOOLEAN]
    BY <1>3
  <2> QED  BY <2>1
<1> HIDE DEF a
<1>6. Holding' = [Holding EXCEPT ![a.user] = a]
  <2>1. row'[a.user] # NoRow /\ Follow(a.user, row'[a.user].request) = a
    BY <1>2, <1>5
  <2>2. \A u \in Users : u # a.user => row'[u] = row[u]
    BY <1>2
  <2> QED  BY <2>1, <2>2 DEF Holding
<1>7. Approved' = Approved \ {a.user}
  BY <1>2 DEF Approved
<1>8. List!Follow(a)
  BY <1>1, <1>2, <1>4, <1>6, <1>7 DEF List!Follow, List!TakeEffect
<1> QED  BY <1>8 DEF a

LEMMA UndoTakesEffect ==
  ASSUME TypeOK, InboxInv, NEW r \in Requests, RemoveFollower(r)
  PROVE  List!Unfollow(act[r])
<1> DEFINE a == act[r]
<1>1. /\ a.user \in Users /\ a.type = "Undo"
      /\ done' = done \cup {a} /\ accepted' = accepted
      /\ \A u \in Users : row'[u] = IF u = a.user THEN NoRow ELSE row[u]
  BY AtWork DEF RemoveFollower, CarryOut, TypeOK, remoteVars
<1>2. a \notin done
  BY DEF RemoveFollower, InboxInv, WorkIsFresh
<1> HIDE DEF a
<1>3. Holding' = [Holding EXCEPT ![a.user] = NoActivity]
  BY <1>1 DEF Holding
<1>4. Approved' = Approved \ {a.user}
  BY <1>1 DEF Approved
<1>5. List!Unfollow(a)
  BY <1>1, <1>2, <1>3, <1>4 DEF List!Unfollow, List!TakeEffect
<1> QED  BY <1>5 DEF a

LEMMA ReplyTakesEffect ==
  ASSUME TypeOK, InboxInv, NEW a \in replies, Reply(a)
  PROVE  List!Reply(a)
<1>1. done' = done \cup {a} /\ UNCHANGED <<row, accepted>>
  BY DEF Reply, CarryOut, remoteVars
<1>2. a.type = "Create" /\ a \notin done
  BY DEF TypeOK, InboxInv, DoneIsRemembered
<1> QED  BY <1>1, <1>2, RowsUnchanged DEF List!Reply, List!TakeEffect

LEMMA ApprovalListed ==
  ASSUME TypeOK, InboxInv, NEW g \in accepts, SetFollowerApproveStatus(g)
  PROVE  List!Approve(g.user) \/ UNCHANGED ListVars
<1> DEFINE u == g.user
<1>1. u \in Users /\ u \in accepted /\ UNCHANGED <<done, accepted>>
  BY DEF TypeOK, InboxInv, ApprovedMeansAccepted, SetFollowerApproveStatus, remoteVars, historyVars
<1>2. CASE row[u] = NoRow
  <2>1. UNCHANGED row
    BY <1>2 DEF SetFollowerApproveStatus
  <2> QED  BY <1>1, <2>1, RowsUnchanged DEF ListVars
<1>3. CASE row[u] # NoRow
  <2>1. row[u] \in [request : Nat, approved : BOOLEAN]
    BY <1>1, <1>3 DEF TypeOK, Rows
  <2>2. /\ \A v \in Users : v # u => row'[v] = row[v]
        /\ row'[u] = [row[u] EXCEPT !.approved = TRUE]
    BY <1>1, <1>3 DEF SetFollowerApproveStatus, TypeOK
  <2>3. row'[u] # NoRow /\ row'[u].approved /\ row'[u].request = row[u].request
    <3>1. row'[u] \in [request : Nat, approved : BOOLEAN]
      BY <2>1, <2>2
    <3> QED  BY <2>1, <2>2, <3>1
  <2>4. Holding' = Holding
    BY <1>3, <2>2, <2>3 DEF Holding
  <2>5. Approved' = Approved \cup {u}
    BY <1>1, <2>2, <2>3 DEF Approved
  <2>6. Holding[u] # NoActivity
    BY <1>1, <1>3, FollowIsActivity
  <2> QED  BY <1>1, <2>4, <2>5, <2>6 DEF List!Approve
<1> QED  BY <1>2, <1>3

LEMMA AcceptListed ==
  ASSUME TypeOK, InboxInv, NEW g \in accepts, AcceptFollower(g)
  PROVE  List!Tell(g.user) \/ List!Approve(g.user) \/ UNCHANGED ListVars
<1>1. g.user \in Users /\ \E a \in done : a.type = "Follow" /\ a.user = g.user
  BY FollowFact DEF TypeOK, InboxInv, ApprovedMeansAccepted
<1>2. CASE SetFollowerApproveStatus(g)
  BY <1>2, ApprovalListed
<1>3. CASE SendAccept(g) \/ AcceptFails(g)
  <2>1. UNCHANGED <<row, done>>
    BY <1>3 DEF SendAccept, AcceptFails, historyVars
  <2>2. accepted' = accepted \/ accepted' = accepted \cup {g.user}
    BY <1>3 DEF SendAccept, AcceptFails
  <2> QED  BY <1>1, <2>1, <2>2, RowsUnchanged DEF List!Tell, ListVars
<1>4. CASE GetPrivKey(g) \/ Panic(g)
  <2>1. UNCHANGED <<row, done, accepted>>
    BY <1>4 DEF GetPrivKey, Panic, Restart, remoteVars, historyVars
  <2> QED  BY <2>1, RowsUnchanged DEF ListVars
<1> QED  BY <1>2, <1>3, <1>4, AcceptFollower(g) DEF AcceptFollower

LEMMA StepListed ==
  ASSUME TypeOK, InboxInv, [Next]_vars
  PROVE  [List!Next]_ListVars
<1>0. ASSUME UNCHANGED <<row, done, accepted>> PROVE [List!Next]_ListVars
  BY <1>0, RowsUnchanged DEF ListVars
<1>1. ASSUME NEW a \in Activities, Issue(a) \/ DeleteHandledActivities(a)
      PROVE  [List!Next]_ListVars
  BY <1>0, <1>1 DEF Issue, DeleteHandledActivities, historyVars
<1>2. ASSUME NEW r \in Requests, NEW a \in Activities, Deliver(r, a)
      PROVE  [List!Next]_ListVars
  BY <1>0, <1>2 DEF Deliver, remoteVars, historyVars
<1>3. ASSUME NEW r \in Requests, Handle(r) PROVE [List!Next]_ListVars
  <2>1. CASE AddFollower(r) \/ RemoveFollower(r)
    <3>1. act[r] \in Activities
      BY <2>1, AtWork DEF AddFollower, RemoveFollower
    <3>2. List!Follow(act[r]) \/ List!Unfollow(act[r])
      BY <2>1, FollowTakesEffect, UndoTakesEffect
    <3> QED  BY <3>1, <3>2 DEF List!Next
  <2>2. CASE MarkActivityHandled(r) \/ MarkedInVain(r) \/ HandleCreateNote(r) \/ CallFails(r)
    BY <1>0, <2>2 DEF MarkActivityHandled, MarkedInVain, HandleCreateNote, CallFails,
                      remoteVars, historyVars
  <2> QED  BY <1>3, <2>1, <2>2 DEF Handle
<1>4. ASSUME NEW g \in accepts, AcceptFollower(g) PROVE [List!Next]_ListVars
  <2>1. g.user \in Users
    BY DEF TypeOK
  <2> QED  BY <1>4, <2>1, AcceptListed DEF List!Next
<1>5. ASSUME NEW a \in replies, Reply(a) PROVE [List!Next]_ListVars
  <2>1. a \in Activities
    BY DEF TypeOK
  <2> QED  BY <1>5, <2>1, ReplyTakesEffect DEF List!Next
<1>6. CASE DeleteAccount
  <2>1. /\ UNCHANGED <<done, accepted>>
        /\ Holding' = [u \in Users |-> NoActivity] /\ Approved' = {}
    BY <1>6 DEF DeleteAccount, remoteVars, historyVars, Holding, Approved
  <2> QED  BY <2>1 DEF List!Next, List!Delete
<1>7. CASE Crash
  BY <1>0, <1>7 DEF Crash, Restart, remoteVars, historyVars
<1>8. CASE UNCHANGED vars
  BY <1>0, <1>8 DEF vars, remoteVars, historyVars
<1> QED  BY <1>1, <1>2, <1>3, <1>4, <1>5, <1>6, <1>7, <1>8 DEF Next

\* The inbox, with its marks, its goroutines and whatever is sent again, fails or
\* crashes, keeps the promise of FollowerList.
THEOREM InboxKeepsList == Spec => ListPromise
<1>1. Init => List!Init
  BY DEF Init, List!Init, Holding, Approved
<1>2. TypeOK /\ InboxInv /\ [Next]_vars => [List!Next]_ListVars
  BY StepListed
<1> QED
  BY <1>1, <1>2, TypeCorrect, InboxInvariant, PTL DEF Spec, ListPromise, List!Spec, ListVars
===============================================================================
