--------------------------------- MODULE Inbox ---------------------------------
(***************************************************************************)
(* The inbox (server/logic/inbox.go, server/logic/user_directory.go,       *)
(* server/server/apub_handlers.go) as one account and the birb see it:     *)
(* Follow activities, their Undo, notes that mention the birb, and the     *)
(* goroutines that accept a follower and reply to a note.                  *)
(*                                                                         *)
(* Other servers send an activity until they give up, so it may arrive     *)
(* more than once, at the same time as its copy, after a later one, or     *)
(* never.  Each call of the repository is a step of its own.  The account  *)
(* is deleted and created in one step here; Accounts has the details.      *)
(***************************************************************************)
EXTENDS Integers

CONSTANTS
  Users,      \* remote users
  AutoAccept, \* whether the account accepts follows by itself
  Activities, \* bound: the activities that users may send
  Refused,    \* those from a host that is not allowed, or whose object does not fit
  Requests,   \* bound: inbox requests handled at a time
  MaxLost,    \* bound: calls that fail and crashes
  NoRow,      \* no follower row
  NoActivity  \* an idle request handler's

ASSUME InboxAssumption ==
  /\ Refused \subseteq Activities
  /\ AutoAccept \in BOOLEAN
  /\ Activities \subseteq [type : {"Follow", "Undo", "Create"}, user : Users, n : Nat]
  /\ NoActivity \notin Activities
  /\ MaxLost \in Nat
  /\ NoRow \notin [request : Nat, approved : BOOLEAN]

VARIABLES
  issued,   \* activities users have sent for the first time
  pending,  \* those their servers may still send
  act, at,  \* request handlers: the activity, and "none", "mark" or "work"
  handled,  \* handled_activities
  exists,   \* whether the account is there
  row,      \* its follower row for each user
  accepts,  \* goroutines in AcceptFollower, with user, request and place
  replies,  \* notes a goroutine is about to reply to
  lost,     \* counter of the bound
  done,     \* history: activities that were carried out
  again,    \* history: those that were carried out once more
  accepted  \* history: users an Accept has arrived at

remoteVars == <<issued, pending, accepted>>
handlerVars == <<act, at>>
historyVars == <<done, again>>
vars == <<remoteVars, handlerVars, handled, exists, row, accepts, replies, lost, historyVars>>

Rows == [request : Nat, approved : BOOLEAN]

TypeOK ==
  /\ issued \subseteq Activities
  /\ pending \subseteq issued
  /\ act \in [Requests -> issued \cup {NoActivity}]
  /\ at \in [Requests -> {"none", "mark", "work"}]
  /\ \A r \in Requests : at[r] # "none" => act[r] \in issued
  /\ handled \subseteq issued
  /\ exists \in BOOLEAN
  /\ row \in [Users -> Rows \cup {NoRow}]
  /\ accepts \subseteq [user : Users, n : Nat, at : {"key", "send", "approve"}]
  /\ replies \subseteq {a \in issued : a.type = "Create"}
  /\ lost \in 0..MaxLost
  /\ done \subseteq issued
  /\ again \subseteq done
  /\ accepted \subseteq Users

-----------------------------------------------------------------------------
(* Other servers                                                             *)

\* A user follows again only after an Undo, and undoes only a Follow.
Prior(a) ==
  {b \in Activities : /\ b.user = a.user
                      /\ \/ a.type = "Follow" /\ b.type = "Undo" /\ b.n < a.n
                         \/ a.type = "Undo" /\ b.type = "Follow" /\ b.n <= a.n}

Issue(a) ==
  /\ a \notin issued
  /\ Prior(a) \subseteq issued
  /\ issued' = issued \cup {a}
  /\ pending' = pending \cup {a}
  /\ UNCHANGED <<accepted, handlerVars, handled, exists, row, accepts, replies, lost,
                 historyVars>>

-----------------------------------------------------------------------------
(* The request handlers                                                      *)

\* postInbox: the signature is good, a Follow is for an account that exists, and a
\* note from an allowed host.  A request that is refused here changes nothing.
Deliver(r, a) ==
  /\ at[r] = "none"
  /\ a \in pending
  /\ a.type = "Follow" => exists
  /\ a.type = "Create" => a \notin Refused
  /\ act' = [act EXCEPT ![r] = a]
  /\ at' = [at EXCEPT ![r] = "mark"]
  /\ UNCHANGED <<remoteVars, handled, exists, row, accepts, replies, lost, historyVars>>

\* Mutant of Answer: the handler does not return after the answer.
AnswerGoesOn(r) ==
  /\ at' = at
  /\ act' = [act EXCEPT ![r] = NoActivity]

\* The request is answered, whether its sender learns of that or not.
Answer(r) ==
  /\ at' = [at EXCEPT ![r] = "none"]
  /\ act' = [act EXCEPT ![r] = NoActivity]

CarryOut(a) ==
  /\ done' = done \cup {a}
  /\ again' = again \cup (done \cap {a})

MarkActivityHandled(r) ==
  /\ at[r] = "mark"
  /\ handled' = handled \cup {act[r]}
  /\ IF act[r] \in handled
     THEN Answer(r)
     ELSE at' = [at EXCEPT ![r] = "work"] /\ UNCHANGED act
  /\ UNCHANGED <<remoteVars, exists, row, accepts, replies, lost, historyVars>>

\* Mutant of AddFollower: who follows again is not accepted again.
AddFollowerAcceptNew(r) ==
  LET u == act[r].user
      n == act[r].n
  IN /\ at[r] = "work"
     /\ act[r].type = "Follow"
     /\ act[r] \notin Refused
     /\ exists
     /\ row' = [row EXCEPT ![u] = [request |-> n, approved |-> FALSE]]
     /\ accepts' = IF AutoAccept /\ row[u] = NoRow
                   THEN accepts \cup {[user |-> u, n |-> n, at |-> "key"]} ELSE accepts
     /\ CarryOut(act[r])
     /\ Answer(r)
     /\ UNCHANGED <<remoteVars, handled, exists, replies, lost>>

\* HandleFollow after the mark.
AddFollower(r) ==
  LET u == act[r].user
      n == act[r].n
  IN /\ at[r] = "work"
     /\ act[r].type = "Follow"
     /\ act[r] \notin Refused
     /\ exists
     /\ row' = [row EXCEPT ![u] = [request |-> n, approved |-> FALSE]]
     /\ accepts' = IF AutoAccept THEN accepts \cup {[user |-> u, n |-> n, at |-> "key"]} ELSE accepts
     /\ CarryOut(act[r])
     /\ Answer(r)
     /\ UNCHANGED <<remoteVars, handled, exists, replies, lost>>

\* HandleUndo after the mark: it looks for the user's row, not for the request.
RemoveFollower(r) ==
  /\ at[r] = "work"
  /\ act[r].type = "Undo"
  /\ act[r] \notin Refused
  /\ exists
  /\ row' = [row EXCEPT ![act[r].user] = NoRow]
  /\ CarryOut(act[r])
  /\ Answer(r)
  /\ UNCHANGED <<remoteVars, handled, exists, accepts, replies, lost>>

\* A Follow or an Undo that is marked and not carried out: it is refused, or the
\* account is not there any more.
MarkedInVain(r) ==
  /\ at[r] = "work"
  /\ act[r].type # "Create"
  /\ ~exists \/ act[r] \in Refused
  /\ Answer(r)
  /\ UNCHANGED <<remoteVars, handled, exists, row, accepts, replies, lost, historyVars>>

\* HandleCreateNote after the mark: the note is none for the birb, or is replied to.
HandleCreateNote(r) ==
  /\ at[r] = "work"
  /\ act[r].type = "Create"
  /\ replies' \in {replies, replies \cup {act[r]}}
  /\ Answer(r)
  /\ UNCHANGED <<remoteVars, handled, exists, row, accepts, lost, historyVars>>

\* A call fails: the retrieval of the sender's key, or one of the database.
CallFails(r) ==
  /\ at[r] # "none"
  /\ ~(at[r] = "work" /\ act[r].type = "Create")
  /\ lost < MaxLost
  /\ lost' = lost + 1
  /\ Answer(r)
  /\ UNCHANGED <<remoteVars, handled, exists, row, accepts, replies, historyVars>>

-----------------------------------------------------------------------------
(* AcceptFollower and the reply to a note                                    *)

Moves(g, place) == accepts' = (accepts \ {g}) \cup {[g EXCEPT !.at = place]}
Ends(g) == accepts' = accepts \ {g}

GetPrivKey(g) ==
  /\ g \in accepts /\ g.at = "key"
  /\ exists
  /\ Moves(g, "send")
  /\ UNCHANGED <<remoteVars, handlerVars, handled, exists, row, replies, lost, historyVars>>

SendAccept(g) ==
  /\ g \in accepts /\ g.at = "send"
  /\ accepted' = accepted \cup {g.user}
  /\ Moves(g, "approve")
  /\ UNCHANGED <<issued, pending, handlerVars, handled, exists, row, replies, lost, historyVars>>

\* Mutant of SetFollowerApproveStatus: an upsert.
SetFollowerApproveStatusUpsert(g) ==
  /\ g \in accepts /\ g.at = "approve"
  /\ exists
  /\ row' = [row EXCEPT ![g.user] = [request |-> g.n, approved |-> TRUE]]
  /\ Ends(g)
  /\ UNCHANGED <<remoteVars, handlerVars, handled, exists, replies, lost, historyVars>>

\* SetFollowerApproveStatus updates the user's row if there is one.
SetFollowerApproveStatus(g) ==
  /\ g \in accepts /\ g.at = "approve"
  /\ exists
  /\ row' = IF row[g.user] = NoRow THEN row ELSE [row EXCEPT ![g.user].approved = TRUE]
  /\ Ends(g)
  /\ UNCHANGED <<remoteVars, handlerVars, handled, exists, replies, lost, historyVars>>

\* Mutant of AcceptFails: an Accept that cannot be sent is taken for sent.
AcceptFailsUnnoticed(g) ==
  /\ g \in accepts
  /\ lost < MaxLost
  /\ lost' = lost + 1
  /\ IF g.at = "send" THEN Moves(g, "approve") ELSE Ends(g)
  /\ UNCHANGED <<remoteVars, handlerVars, handled, exists, row, replies, historyVars>>

\* A call of the goroutine fails; the Accept may have arrived all the same.
AcceptFails(g) ==
  /\ g \in accepts
  /\ lost < MaxLost
  /\ lost' = lost + 1
  /\ \/ UNCHANGED accepted
     \/ g.at = "send" /\ accepted' = accepted \cup {g.user}
  /\ Ends(g)
  /\ UNCHANGED <<issued, pending, handlerVars, handled, exists, row, replies, historyVars>>

\* handleSiteRequest, which may create the account (GetAccountForFeed), and
\* sendMessage: sent once, whether it arrives or not.
Reply(a) ==
  /\ a \in replies
  /\ replies' = replies \ {a}
  /\ exists' \in {exists, TRUE}
  /\ CarryOut(a)
  /\ UNCHANGED <<remoteVars, handlerVars, handled, row, accepts, lost>>

-----------------------------------------------------------------------------
(* The rest of the program                                                   *)

\* BruteDeleteAccount.
DeleteAccount ==
  /\ exists
  /\ exists' = FALSE
  /\ row' = [u \in Users |-> NoRow]
  /\ UNCHANGED <<remoteVars, handlerVars, handled, accepts, replies, lost, historyVars>>

\* Mutant of DeleteHandledActivities: activities are forgotten too soon.
DeleteHandledActivitiesSoon(a) ==
  /\ a \in handled
  /\ handled' = handled \ {a}
  /\ UNCHANGED <<remoteVars, handlerVars, exists, row, accepts, replies, lost, historyVars>>

\* purgeOldAvititiesLoop, activitiesKeptHr after the activity was handled, whatever
\* its sender does.  Assumption: by then the sender has given up.
DeleteHandledActivities(a) ==
  /\ a \in handled
  /\ \A r \in Requests : act[r] # a
  /\ handled' = handled \ {a}
  /\ pending' = pending \ {a}
  /\ UNCHANGED <<issued, accepted, handlerVars, exists, row, accepts, replies, lost, historyVars>>

Restart ==
  /\ act' = [r \in Requests |-> NoActivity]
  /\ at' = [r \in Requests |-> "none"]
  /\ accepts' = {}
  /\ replies' = {}
  /\ UNCHANGED <<remoteVars, handled, exists, row, historyVars>>

Crash == lost < MaxLost /\ lost' = lost + 1 /\ Restart

\* GetPrivKey and SetFollowerApproveStatus do not check that there is an account.
Panic(g) == g \in accepts /\ g.at \in {"key", "approve"} /\ ~exists /\ Restart /\ UNCHANGED lost

Init ==
  /\ issued = {} /\ pending = {} /\ accepted = {}
  /\ act = [r \in Requests |-> NoActivity]
  /\ at = [r \in Requests |-> "none"]
  /\ handled = {}
  /\ exists = TRUE
  /\ row = [u \in Users |-> NoRow]
  /\ accepts = {} /\ replies = {}
  /\ lost = 0
  /\ done = {} /\ again = {}

Handle(r) ==
  \/ MarkActivityHandled(r)
  \/ AddFollower(r) \/ RemoveFollower(r) \/ MarkedInVain(r)
  \/ HandleCreateNote(r)
  \/ CallFails(r)

AcceptFollower(g) ==
  \/ GetPrivKey(g) \/ SendAccept(g) \/ SetFollowerApproveStatus(g)
  \/ AcceptFails(g) \/ Panic(g)

Next ==
  \/ \E a \in Activities : Issue(a) \/ DeleteHandledActivities(a)
  \/ \E r \in Requests, a \in Activities : Deliver(r, a)
  \/ \E r \in Requests : Handle(r)
  \/ \E g \in accepts : AcceptFollower(g)
  \/ \E a \in replies : Reply(a)
  \/ DeleteAccount
  \/ Crash

Spec == Init /\ [][Next]_vars

\* The goroutine of an Accept comes to its end.
Accepting(a) ==
  \E g \in accepts :
    /\ g.user = a.user /\ g.n = a.n
    /\ GetPrivKey(g) \/ SendAccept(g) \/ SetFollowerApproveStatus(g) \/ Panic(g)

FairSpec == Spec /\ \A a \in Activities : WF_vars(Accepting(a))

-----------------------------------------------------------------------------
(* Properties                                                                *)

Follow(u, n) == [type |-> "Follow", user |-> u, n |-> n]

\* Whatever is sent again, at the same time or after a crash: a follow, its Undo
\* and the reply to a note are carried out at most once (MarkActivityHandled).
CarriedOutOnce == again = {}

\* Two handlers never work on one activity, and not on one that has been done or
\* is being replied to.
WorkIsFresh ==
  \A r \in Requests : at[r] = "work" =>
    /\ act[r] \in handled
    /\ act[r] \notin done
    /\ act[r] \notin replies
    /\ \A s \in Requests : s # r /\ at[s] = "work" => act[s] # act[r]

\* What has been done, or is being replied to, is remembered while it may come again.
Remembered(a) == a \in handled \/ (a \notin pending /\ \A r \in Requests : act[r] # a)
DoneIsRemembered ==
  /\ \A a \in done : Remembered(a)
  /\ \A a \in replies : Remembered(a) /\ a \notin done

\* An Accept is sent only for a Follow that was carried out, and a follower is
\* approved only when an Accept has arrived at his instance.
ApprovedMeansAccepted ==
  /\ \A g \in accepts : /\ Follow(g.user, g.n) \in done
                        /\ g.at = "approve" => g.user \in accepted
  /\ \A u \in accepted : \E a \in done : a.type = "Follow" /\ a.user = u
  /\ \A u \in Users : row[u] # NoRow =>
       /\ Follow(u, row[u].request) \in done
       /\ row[u].approved => u \in accepted

\* A follower who waits for his approval has an Accept on its way, unless a call has
\* failed or the program has crashed: a second Follow, an Undo in between and an
\* account that is deleted and created anew included.
AcceptUnderWay ==
  /\ ~exists => \A u \in Users : row[u] = NoRow
  /\ AutoAccept => \A u \in Users :
       row[u] # NoRow => row[u].approved \/ lost > 0 \/ \E g \in accepts : g.user = u

\* The inductive invariant.
InboxInv == WorkIsFresh /\ DoneIsRemembered /\ ApprovedMeansAccepted /\ AcceptUnderWay

\* The follow that holds for each user, and who is approved for it.
Holding == [u \in Users |-> IF row[u] = NoRow THEN NoActivity ELSE Follow(u, row[u].request)]
Approved == {u \in Users : row[u] # NoRow /\ row[u].approved}

\* The inbox keeps the followers as FollowerList says: whatever is sent again or
\* comes late, a follow begins only with a Follow that takes effect in this step for
\* the first time, and ends only with an Undo or with the account; an Accept that
\* ends late approves a follow that holds and never brings one back.
List == INSTANCE FollowerList WITH
          effects <- done, following <- Holding, approved <- Approved, told <- accepted

ListPromise == List!Spec

\* Whoever follows is at last approved or gone, unless a call failed or the
\* program crashed: an approval is not undone by a follow that came in between.
FollowSettles ==
  \A u \in Users :
    AutoAccept /\ row[u] # NoRow ~> row[u] = NoRow \/ row[u].approved \/ lost > 0

\* "Duplicate key: activity was handled before" (dal/repo.go:907): a Follow for which
\* the mark is found has been carried out, or another handler is at it.
AlreadyHandledMeansHandled ==
  \A r \in Requests :
    at[r] = "mark" /\ act[r] \in handled /\ act[r].type = "Follow" /\ act[r] \notin Refused =>
      act[r] \in done \/ \E s \in Requests : at[s] = "work" /\ act[s] = act[r]
===============================================================================
