---------------------------- MODULE Accounts_proofs ----------------------------
(***************************************************************************)
(* Proofs about Accounts, for all feeds, users and requests: the types,    *)
(* and what rows a deletion and the purge of an account may miss or take;  *)
(* and about ActorKeys, which adds to it what other instances keep: that   *)
(* it is still Accounts, and how an instance's copy can be wrong.          *)
(***************************************************************************)
EXTENDS ActorKeys, TLAPS

USE AccountsAssumption

LEMMA IdOfFacts ==
  ASSUME TypeOK, NEW f \in Feeds, Exists(f)
  PROVE  /\ IdOf(f) \in Ids
         /\ acct[IdOf(f)] = f
         /\ \A i \in Ids : acct[i] = f => i = IdOf(f)
<1>1. IdOf(f) \in Ids /\ acct[IdOf(f)] = f
  BY DEF Exists, IdOf
<1> QED  BY <1>1 DEF TypeOK

-----------------------------------------------------------------------------
(* Types                                                                     *)

LEMMA AddFollowerTypes ==
  ASSUME TypeOK, NEW u \in Users, NEW f \in Feeds, AddFollower(u, f)
  PROVE  TypeOK'
<1>1. IdOf(f) \in Ids
  BY IdOfFacts DEF AddFollower
<1>2. follows' \subseteq Ids \X Users \X Feeds
  BY <1>1 DEF AddFollower, TypeOK
<1>3. since' \subseteq Users \X Feeds
  BY DEF AddFollower, TypeOK
<1>4. late' \subseteq Tables \X Ids
  BY <1>1 DEF AddFollower, Note, Tables, TypeOK
<1>5. UNCHANGED <<accountVars, rows, workerVars, purgeVars, deleteVars>>
  BY DEF AddFollower
<1> QED
  BY <1>2, <1>3, <1>4, <1>5 DEF TypeOK, accountVars, workerVars, purgeVars, deleteVars

LEMMA RemoveFollowerTypes ==
  ASSUME TypeOK, NEW u \in Users, NEW f \in Feeds, RemoveFollower(u, f)
  PROVE  TypeOK'
<1>1. follows' \subseteq follows
  BY DEF RemoveFollower
<1>2. UNCHANGED <<accountVars, rows, late, since, workerVars, purgeVars, deleteVars>>
  BY DEF RemoveFollower
<1> QED  BY <1>1, <1>2 DEF TypeOK, accountVars, workerVars, purgeVars, deleteVars

LEMMA AddAccountTypes ==
  ASSUME TypeOK, NEW w \in Workers, NEW f \in Feeds, AddAccountIfNotExist(w, f)
  PROVE  TypeOK'
<1>1. /\ acct' \in [Ids -> Feeds \cup {NoFeed}]
      /\ \A i, j \in Ids : acct'[i] = acct'[j] /\ acct'[i] # NoFeed => i = j
      /\ created' \in 0..MaxCreations
  <2>1. CASE UNCHANGED accountVars
    BY <2>1 DEF accountVars, TypeOK
  <2>2. CASE ~Exists(f) /\ created < MaxCreations /\ created' = created + 1
             /\ \E i \in Ids : NextId(i) /\ acct' = [acct EXCEPT ![i] = f]
    <3>1. PICK k \in Ids : acct' = [acct EXCEPT ![k] = f]
      BY <2>2
    <3>2. \A i \in Ids : acct[i] # f
      BY <2>2 DEF Exists
    <3>3. acct' \in [Ids -> Feeds \cup {NoFeed}]
      BY <3>1 DEF TypeOK
    <3>4. \A i, j \in Ids : acct'[i] = acct'[j] /\ acct'[i] # NoFeed => i = j
      BY <3>1, <3>2 DEF TypeOK
    <3>5. created' \in 0..MaxCreations
      BY <2>2 DEF TypeOK
    <3> QED  BY <3>3, <3>4, <3>5
  <2> QED  BY <2>1, <2>2 DEF AddAccountIfNotExist
<1>2. /\ at' \in [Workers -> {"idle", "lookup", "start", "post"}]
      /\ feed' \in [Workers -> Feeds \cup {NoFeed}]
      /\ \A v \in Workers : /\ at'[v] # "idle" => feed'[v] \in Feeds
                            /\ at'[v] \in {"start", "post"} => id[v] \in Ids
  BY DEF AddAccountIfNotExist, TypeOK
<1>3. UNCHANGED <<tableVars, id, purgeVars, deleteVars>>
  BY DEF AddAccountIfNotExist
<1> QED  BY <1>1, <1>2, <1>3 DEF TypeOK, tableVars, purgeVars, deleteVars

LEMMA WorkerTypes ==
  ASSUME TypeOK,
         UNCHANGED <<accountVars, tableVars, deleteVars>>,
         at' \in [Workers -> {"idle", "lookup", "start", "post"}],
         id' \in [Workers -> Ids \cup {0}],
         feed' \in [Workers -> Feeds \cup {NoFeed}],
         \A w \in Workers : /\ at'[w] # "idle" => feed'[w] \in Feeds
                            /\ at'[w] \in {"start", "post"} => id'[w] \in Ids,
         \/ UNCHANGED purgeVars
         \/ purge' = "count" /\ target' \in Ids \X Feeds
  PROVE  TypeOK'
  BY DEF TypeOK, accountVars, tableVars, deleteVars, purgeVars

LEMMA GetAccountTypes ==
  ASSUME TypeOK, NEW w \in Workers, GetAccount(w)
  PROVE  TypeOK'
<1>1. feed[w] \in Feeds
  BY DEF GetAccount, TypeOK
<1>2. IdOf(feed[w]) \in Ids
  BY <1>1, IdOfFacts DEF GetAccount
<1>3. /\ UNCHANGED <<accountVars, tableVars, feed, purgeVars, deleteVars>>
      /\ id' = [id EXCEPT ![w] = IdOf(feed[w])]
      /\ at' = [at EXCEPT ![w] = "start"]
  BY DEF GetAccount
<1> QED  BY <1>1, <1>2, <1>3, WorkerTypes DEF TypeOK

LEMMA GetAccountToCheckTypes ==
  ASSUME TypeOK, GetAccountToCheck
  PROVE  TypeOK'
<1>1. PICK i \in Stored : /\ id' = [id EXCEPT ![Loop] = i]
                          /\ feed' = [feed EXCEPT ![Loop] = acct[i]]
  BY DEF GetAccountToCheck
<1>2. i \in Ids /\ acct[i] \in Feeds
  BY <1>1 DEF Stored, TypeOK
<1>3. /\ at' = [at EXCEPT ![Loop] = "start"]
      /\ UNCHANGED <<accountVars, tableVars, purgeVars, deleteVars>>
  BY DEF GetAccountToCheck
<1> QED  BY <1>1, <1>2, <1>3, WorkerTypes DEF TypeOK, Workers

LEMMA GetFeedLastUpdatedTypes ==
  ASSUME TypeOK, NEW w \in Workers, GetFeedLastUpdated(w)
  PROVE  TypeOK'
<1>1. /\ UNCHANGED <<accountVars, tableVars, id, feed, purgeVars, deleteVars>>
      /\ at[w] = "start"
      /\ at' = [at EXCEPT ![w] = "post"]
  BY DEF GetFeedLastUpdated
<1> QED  BY <1>1, WorkerTypes DEF TypeOK

LEMMA AddRowTypes ==
  ASSUME TypeOK, NEW w \in Workers, NEW table \in Written, AddRow(w, table)
  PROVE  TypeOK'
<1>1. id[w] \in Ids /\ feed[w] \in Feeds /\ table \in {"posts", "toots"}
  BY DEF AddRow, TypeOK
<1>2. rows' \subseteq {"toots", "posts"} \X Ids \X Feeds
  BY <1>1 DEF AddRow, TypeOK
<1>3. late' \subseteq Tables \X Ids
  BY <1>1 DEF AddRow, Note, Tables, TypeOK
<1>4. UNCHANGED <<accountVars, follows, since, workerVars, purgeVars, deleteVars>>
  BY DEF AddRow
<1> QED
  BY <1>2, <1>3, <1>4 DEF TypeOK, accountVars, workerVars, purgeVars, deleteVars

LEMMA RestTypes ==
  ASSUME TypeOK, NEW w \in Workers, Rest(w)
  PROVE  /\ at' \in [Workers -> {"idle", "lookup", "start", "post"}]
         /\ id' \in [Workers -> Ids \cup {0}]
         /\ feed' \in [Workers -> Feeds \cup {NoFeed}]
         /\ \A v \in Workers : /\ at'[v] # "idle" => feed'[v] \in Feeds
                               /\ at'[v] \in {"start", "post"} => id'[v] \in Ids
  BY DEF Rest, TypeOK

LEMMA MentionDoneTypes ==
  ASSUME TypeOK, NEW w \in Workers, MentionDone(w)
  PROVE  TypeOK'
<1>1. Rest(w) /\ UNCHANGED <<accountVars, tableVars, purgeVars, deleteVars>>
  BY DEF MentionDone
<1> QED  BY <1>1, RestTypes, WorkerTypes

LEMMA LoopDoneTypes ==
  ASSUME TypeOK, LoopDone
  PROVE  TypeOK'
<1>1. Rest(Loop) /\ UNCHANGED <<accountVars, tableVars, deleteVars>> /\ Loop \in Workers
  BY DEF LoopDone, Workers
<1>2. <<id[Loop], feed[Loop]>> \in Ids \X Feeds
  BY <1>1 DEF LoopDone, TypeOK
<1>3. \/ UNCHANGED purgeVars
      \/ purge' = "count" /\ target' \in Ids \X Feeds
  BY <1>2 DEF LoopDone
<1> QED  BY <1>1, <1>3, RestTypes, WorkerTypes

LEMMA PurgeStepTypes ==
  ASSUME TypeOK,
         UNCHANGED <<accountVars, rows, follows, late, workerVars>>,
         since' \subseteq since,
         \/ purge' \in {"key", "send", "delete"} /\ purge # "none" /\ UNCHANGED target
         \/ purge' = "none" /\ target' = <<0, NoFeed>>,
         \/ UNCHANGED deleteVars
         \/ purge # "none" /\ StartDeleting("purge", target[1])
  PROVE  TypeOK'
<1>1. /\ deleting' \in [Deleters -> Tables \cup {"accounts", "none"}]
      /\ victim' \in [Deleters -> Ids \cup {0}]
      /\ \A d \in Deleters : deleting'[d] # "none" => victim'[d] \in Ids
  <2>1. CASE UNCHANGED deleteVars
    BY <2>1 DEF TypeOK, deleteVars
  <2>2. CASE purge # "none" /\ StartDeleting("purge", target[1])
    <3>1. target[1] \in Ids
      BY <2>2 DEF TypeOK
    <3> QED  BY <2>2, <3>1 DEF TypeOK, StartDeleting, Deleters, Tables
  <2> QED  BY <2>1, <2>2
<1>2. /\ purge' \in {"none", "count", "key", "send", "delete"}
      /\ purge' # "none" => target' \in Ids \X Feeds
      /\ target' \in (Ids \X Feeds) \cup {<<0, NoFeed>>}
  BY DEF TypeOK
<1> QED  BY <1>1, <1>2 DEF TypeOK, accountVars, workerVars

LEMMA DeleteFromTypes ==
  ASSUME TypeOK, NEW d \in Deleters, DeleteFrom(d)
  PROVE  TypeOK'
<1>1. deleting[d] \in Tables \cup {"accounts"} /\ victim[d] \in Ids
  BY DEF DeleteFrom, TypeOK
<1>2. /\ acct' \in [Ids -> Feeds \cup {NoFeed}]
      /\ \A i, j \in Ids : acct'[i] = acct'[j] /\ acct'[i] # NoFeed => i = j
  BY <1>1 DEF DeleteFrom, TypeOK
<1>3. rows' \subseteq rows /\ follows' \subseteq follows /\ late' \subseteq late
  BY DEF DeleteFrom
<1>4. NextTable(deleting[d]) \in Tables \cup {"accounts", "none"}
  BY <1>1 DEF NextTable, Tables
<1>5. /\ deleting' = [deleting EXCEPT ![d] = NextTable(deleting[d])]
      /\ victim' = [victim EXCEPT ![d] = IF NextTable(deleting[d]) = "none" THEN 0 ELSE victim[d]]
  BY DEF DeleteFrom
<1>6. /\ deleting' \in [Deleters -> Tables \cup {"accounts", "none"}]
      /\ victim' \in [Deleters -> Ids \cup {0}]
      /\ \A e \in Deleters : deleting'[e] # "none" => victim'[e] \in Ids
  BY <1>1, <1>4, <1>5 DEF TypeOK
<1>7. \/ UNCHANGED purgeVars
      \/ purge' = "none" /\ target' = <<0, NoFeed>>
  BY DEF DeleteFrom
<1>8. UNCHANGED <<created, since, workerVars>>
  BY DEF DeleteFrom
<1> QED
  BY <1>2, <1>3, <1>6, <1>7, <1>8 DEF TypeOK, purgeVars, workerVars

LEMMA DeleteFailsTypes ==
  ASSUME TypeOK, NEW d \in Deleters, DeleteFails(d)
  PROVE  TypeOK'
<1>1. /\ deleting' \in [Deleters -> Tables \cup {"accounts", "none"}]
      /\ victim' \in [Deleters -> Ids \cup {0}]
      /\ \A e \in Deleters : deleting'[e] # "none" => victim'[e] \in Ids
  BY DEF DeleteFails, TypeOK
<1>2. \/ UNCHANGED purgeVars
      \/ purge' = "none" /\ target' = <<0, NoFeed>>
  <2>1. CASE d = "purge"
    BY <2>1 DEF DeleteFails
  <2>2. CASE d # "purge"
    BY <2>2 DEF DeleteFails, purgeVars
  <2> QED  BY <2>1, <2>2
<1>3. UNCHANGED <<accountVars, tableVars, workerVars>>
  BY DEF DeleteFails
<1> QED
  BY <1>1, <1>2, <1>3 DEF TypeOK, accountVars, tableVars, workerVars, purgeVars

LEMMA ApiDeleteTypes ==
  ASSUME TypeOK, ApiDelete
  PROVE  TypeOK'
<1>1. PICK i \in Stored : StartDeleting("api", i)
  BY DEF ApiDelete
<1>2. /\ deleting' \in [Deleters -> Tables \cup {"accounts", "none"}]
      /\ victim' \in [Deleters -> Ids \cup {0}]
      /\ \A e \in Deleters : deleting'[e] # "none" => victim'[e] \in Ids
  BY <1>1 DEF StartDeleting, Stored, Deleters, Tables, TypeOK
<1>3. UNCHANGED <<accountVars, tableVars, workerVars, purgeVars>>
  BY DEF ApiDelete
<1> QED
  BY <1>2, <1>3 DEF TypeOK, accountVars, tableVars, workerVars, purgeVars

LEMMA CrashTypes ==
  ASSUME TypeOK, Crash
  PROVE  TypeOK'
<1>1. UNCHANGED <<accountVars, tableVars>>
  BY DEF Crash
<1>2. /\ at' \in [Workers -> {"idle", "lookup", "start", "post"}]
      /\ id' \in [Workers -> Ids \cup {0}]
      /\ feed' \in [Workers -> Feeds \cup {NoFeed}]
      /\ \A w \in Workers : at'[w] = "idle"
  BY DEF Crash, AllWorkers
<1>3. /\ deleting' \in [Deleters -> Tables \cup {"accounts", "none"}]
      /\ victim' \in [Deleters -> Ids \cup {0}]
      /\ \A d \in Deleters : deleting'[d] = "none"
      /\ purge' = "none" /\ target' = <<0, NoFeed>>
  BY DEF Crash, AllDeleters
<1> QED  BY <1>1, <1>2, <1>3 DEF TypeOK, accountVars, tableVars

\* The variables of Accounts keep their types: handles stay unique and whoever
\* works for an account holds an id and a handle.
THEOREM TypeCorrect == Spec => []TypeOK
<1>1. Init => TypeOK
  BY DEF Init, TypeOK, AllWorkers, AllDeleters
<1>2. TypeOK /\ [Next]_vars => TypeOK'
  <2> SUFFICES ASSUME TypeOK, [Next]_vars PROVE TypeOK'
    OBVIOUS
  <2>1. ASSUME NEW u \in Users, NEW f \in Feeds, AddFollower(u, f) \/ RemoveFollower(u, f)
        PROVE  TypeOK'
    BY <2>1, AddFollowerTypes, RemoveFollowerTypes
  <2>2. ASSUME NEW w \in Workers, NEW f \in Feeds, AddAccountIfNotExist(w, f)
        PROVE  TypeOK'
    BY <2>2, AddAccountTypes
  <2>3. ASSUME NEW w \in Workers, GetAccount(w) \/ GetFeedLastUpdated(w) \/ MentionDone(w)
        PROVE  TypeOK'
    BY <2>3, GetAccountTypes, GetFeedLastUpdatedTypes, MentionDoneTypes
  <2>4. ASSUME NEW w \in Workers, NEW table \in Written, AddRow(w, table)
        PROVE  TypeOK'
    BY <2>4, AddRowTypes
  <2>5. CASE GetAccountToCheck \/ LoopDone
    BY <2>5, GetAccountToCheckTypes, LoopDoneTypes
  <2>6. ASSUME NEW d \in Deleters, DeleteFrom(d) \/ DeleteFails(d)
        PROVE  TypeOK'
    BY <2>6, DeleteFromTypes, DeleteFailsTypes
  <2>7. CASE CountFollowers
    BY <2>7, PurgeStepTypes DEF CountFollowers
  <2>8. CASE GetPrivKey
    BY <2>8, PurgeStepTypes DEF GetPrivKey, tableVars
  <2>9. CASE DeletesSent
    BY <2>9, PurgeStepTypes DEF DeletesSent, tableVars
  <2>10. CASE UNCHANGED vars
    BY <2>10 DEF TypeOK, vars, accountVars, tableVars, workerVars, purgeVars, deleteVars
  <2> QED
    BY <2>1, <2>2, <2>3, <2>4, <2>5, <2>6, <2>7, <2>8, <2>9, <2>10,
       ApiDeleteTypes, CrashTypes DEF Next
<1> QED  BY <1>1, <1>2, PTL DEF Spec

-----------------------------------------------------------------------------
(* What a deletion leaves behind                                             *)

LEMMA NoTableIsNone == ASSUME NEW table \in Tables
                       PROVE  "none" \notin Passed(table) /\ "toots" \notin Passed(table)
BY DEF Tables, Passed

LEMMA AddFollowerKeeps ==
  ASSUME TypeOK, AccountsInv, NEW u \in Users, NEW f \in Feeds, AddFollower(u, f)
  PROVE  AccountsInv'
<1> DEFINE i == IdOf(f)
<1>1. i \in Ids /\ acct[i] = f
  BY IdOfFacts DEF AddFollower
<1>2. /\ UNCHANGED <<acct, rows, deleting, victim, purge, target>>
      /\ late \subseteq late'
      /\ TooLate("followers", i, f) => <<"followers", i>> \in late'
  BY DEF AddFollower, Note, accountVars, deleteVars, purgeVars
<1>3. /\ \A r \in follows' : r \in follows \/ r = <<i, u, f>>
      /\ purge \in {"key", "send", "delete"} => since' = since \cup {<<u, f>>}
  BY DEF AddFollower
<1> HIDE DEF i
<1>4. RowsExplained'
  BY <1>1, <1>2, <1>3 DEF AccountsInv, RowsExplained
<1>5. PassedStaysEmpty'
  <2> SUFFICES ASSUME NEW d \in Deleters, NEW table \in Tables,
                      deleting[d] \in Passed(table)
               PROVE  /\ \A r \in rows : r[1] = table /\ r[2] = victim[d]
                                           => <<table, victim[d]>> \in late'
                      /\ \A r \in follows' : table = "followers" /\ r[1] = victim[d]
                                               => <<table, victim[d]>> \in late'
    BY <1>2 DEF PassedStaysEmpty, Passed
  <2>1. \A r \in rows : r[1] = table /\ r[2] = victim[d] => <<table, victim[d]>> \in late'
    BY <1>2 DEF AccountsInv, PassedStaysEmpty
  <2>2. ASSUME NEW r \in follows', table = "followers", r[1] = victim[d]
        PROVE  <<table, victim[d]>> \in late'
    <3>1. CASE r \in follows
      BY <1>2, <2>2, <3>1 DEF AccountsInv, PassedStaysEmpty
    <3>2. CASE r = <<i, u, f>>
      BY <1>2, <2>2, <3>2 DEF TooLate
    <3> QED  BY <1>3, <3>1, <3>2
  <2> QED  BY <2>1, <2>2
<1>6. LateFollowsOnly'
  BY <1>2, <1>3 DEF AccountsInv, LateFollowsOnly
<1> QED
  BY <1>2, <1>4, <1>5, <1>6 DEF AccountsInv, PurgeDeletesItsTarget

LEMMA AddRowKeeps ==
  ASSUME TypeOK, AccountsInv, NEW w \in Workers, NEW table \in Written, AddRow(w, table)
  PROVE  AccountsInv'
<1> DEFINE i == id[w]  f == feed[w]
<1>1. i \in Ids /\ f \in Feeds
  BY DEF AddRow, TypeOK
<1>2. /\ UNCHANGED <<acct, follows, deleting, victim, purge, target, since>>
      /\ late \subseteq late'
      /\ TooLate(table, i, f) => <<table, i>> \in late'
      /\ rows' = rows \cup {<<table, i, f>>}
  BY DEF AddRow, Note, accountVars, deleteVars, purgeVars
<1> HIDE DEF i, f
<1>3. RowsExplained'
  <2>1. ASSUME NEW r \in rows', acct[r[2]] # r[3]
        PROVE  <<r[1], r[2]>> \in late'
    <3>1. CASE r \in rows
      BY <1>2, <2>1, <3>1 DEF AccountsInv, RowsExplained
    <3>2. CASE r = <<table, i, f>>
      BY <1>2, <2>1, <3>2 DEF TooLate
    <3> QED  BY <1>2, <3>1, <3>2
  <2>2. \A r \in follows : acct[r[1]] # r[3] => <<"followers", r[1]>> \in late'
    BY <1>2 DEF AccountsInv, RowsExplained
  <2> QED  BY <1>2, <2>1, <2>2 DEF RowsExplained
<1>4. PassedStaysEmpty'
  <2> SUFFICES ASSUME NEW d \in Deleters, NEW t \in Tables,
                      deleting[d] \in Passed(t)
               PROVE  /\ \A r \in rows' : r[1] = t /\ r[2] = victim[d]
                                           => <<t, victim[d]>> \in late'
                      /\ \A r \in follows : t = "followers" /\ r[1] = victim[d]
                                               => <<t, victim[d]>> \in late'
    BY <1>2 DEF PassedStaysEmpty, Passed
  <2>1. \A r \in follows : t = "followers" /\ r[1] = victim[d] => <<t, victim[d]>> \in late'
    BY <1>2 DEF AccountsInv, PassedStaysEmpty
  <2>2. ASSUME NEW r \in rows', r[1] = t, r[2] = victim[d]
        PROVE  <<t, victim[d]>> \in late'
    <3>1. CASE r \in rows
      BY <1>2, <2>2, <3>1 DEF AccountsInv, PassedStaysEmpty
    <3>2. CASE r = <<table, i, f>>
      BY <1>2, <2>2, <3>2 DEF TooLate
    <3> QED  BY <1>2, <3>1, <3>2
  <2> QED  BY <2>1, <2>2
<1> QED
  BY <1>2, <1>3, <1>4 DEF AccountsInv, LateFollowsOnly, PurgeDeletesItsTarget

LEMMA AddAccountKeeps ==
  ASSUME TypeOK, AccountsInv, NEW w \in Workers, NEW f \in Feeds, AddAccountIfNotExist(w, f)
  PROVE  AccountsInv'
<1>1. UNCHANGED <<rows, follows, late, since, purge, target, deleting, victim>>
  BY DEF AddAccountIfNotExist, tableVars, purgeVars, deleteVars
<1>2. \A i \in Ids : acct'[i] # acct[i] => acct[i] = NoFeed
  <2>1. CASE UNCHANGED accountVars
    BY <2>1 DEF accountVars
  <2>2. ASSUME NEW k \in Ids, NextId(k), acct' = [acct EXCEPT ![k] = f]
        PROVE  \A i \in Ids : acct'[i] # acct[i] => acct[i] = NoFeed
    <3>1. \A j \in Ids : acct[j] # NoFeed => j < k
      BY <2>2 DEF NextId, Stored
    <3>2. acct[k] = NoFeed
      BY <3>1 DEF Ids
    <3> QED  BY <2>2, <3>2 DEF TypeOK
  <2> QED  BY <2>1, <2>2 DEF AddAccountIfNotExist
<1>3. RowsExplained'
  <2>1. /\ \A r \in rows : r[2] \in Ids /\ r[3] \in Feeds
        /\ \A r \in follows : r[1] \in Ids /\ r[3] \in Feeds
    BY DEF TypeOK
  <2> QED  BY <1>1, <1>2, <2>1 DEF AccountsInv, RowsExplained
<1> QED
  BY <1>1, <1>3 DEF AccountsInv, PassedStaysEmpty, LateFollowsOnly, PurgeDeletesItsTarget, Passed

\* Steps that write no row and move no deletion.
LEMMA OtherStepsKeep ==
  ASSUME TypeOK, AccountsInv,
         UNCHANGED <<acct, rows, late, since, deleteVars>>, follows' \subseteq follows,
         \/ UNCHANGED purgeVars
         \/ purge = "none" /\ purge' = "count"
         \/ purge = "key" /\ purge' = "send" /\ UNCHANGED target
  PROVE  AccountsInv'
<1>1. RowsExplained' /\ PassedStaysEmpty'
  BY DEF AccountsInv, RowsExplained, PassedStaysEmpty, Passed, deleteVars
<1>2. LateFollowsOnly' /\ PurgeDeletesItsTarget'
  BY DEF AccountsInv, LateFollowsOnly, PurgeDeletesItsTarget, deleteVars, purgeVars
<1> QED  BY <1>1, <1>2 DEF AccountsInv

LEMMA StartDeletingKeeps ==
  ASSUME TypeOK, AccountsInv, NEW d \in Deleters, NEW i, StartDeleting(d, i),
         UNCHANGED <<acct, rows, follows, late>>
  PROVE  RowsExplained' /\ PassedStaysEmpty'
<1>1. RowsExplained'
  BY DEF AccountsInv, RowsExplained
<1>2. ASSUME NEW e \in Deleters, NEW table \in Tables, deleting'[e] \in Passed(table)
      PROVE  e # d /\ deleting[e] = deleting'[e] /\ victim[e] = victim'[e]
  BY <1>2, NoTableIsNone DEF StartDeleting, TypeOK
<1>3. ASSUME NEW e \in Deleters, NEW table \in Tables, deleting'[e] \in Passed(table)
      PROVE  /\ \A r \in rows : r[1] = table /\ r[2] = victim'[e] => <<table, victim'[e]>> \in late
             /\ \A r \in follows :
                  table = "followers" /\ r[1] = victim'[e] => <<table, victim'[e]>> \in late
  <2>1. deleting[e] \in Passed(table) /\ victim[e] = victim'[e]
    BY <1>2, <1>3
  <2>2. PassedStaysEmpty
    BY DEF AccountsInv
  <2> QED  BY <2>1, <2>2 DEF PassedStaysEmpty
<1>4. PassedStaysEmpty'
  BY <1>3 DEF PassedStaysEmpty
<1> QED  BY <1>1, <1>4

LEMMA ApiDeleteKeeps ==
  ASSUME TypeOK, AccountsInv, ApiDelete
  PROVE  AccountsInv'
<1>1. PICK i \in Stored : StartDeleting("api", i)
  BY DEF ApiDelete
<1>2. UNCHANGED <<acct, rows, follows, late, since, purge, target>>
  BY DEF ApiDelete, accountVars, tableVars, purgeVars
<1>3. RowsExplained' /\ PassedStaysEmpty'
  BY <1>1, <1>2, StartDeletingKeeps DEF Deleters
<1>4. deleting'["purge"] = deleting["purge"] /\ victim'["purge"] = victim["purge"]
  BY <1>1 DEF StartDeleting, TypeOK, Deleters
<1> QED
  BY <1>2, <1>3, <1>4 DEF AccountsInv, LateFollowsOnly, PurgeDeletesItsTarget

LEMMA DeletesSentKeeps ==
  ASSUME TypeOK, AccountsInv, DeletesSent
  PROVE  AccountsInv'
<1>1. UNCHANGED <<acct, rows, follows, late, since, target>>
  BY DEF DeletesSent, accountVars, tableVars
<1>2. purge = "send" /\ purge' = "delete" /\ StartDeleting("purge", target[1])
  BY DEF DeletesSent
<1>3. RowsExplained' /\ PassedStaysEmpty'
  BY <1>1, <1>2, StartDeletingKeeps DEF Deleters
<1>4. victim'["purge"] = target[1]
  BY <1>2 DEF StartDeleting, TypeOK, Deleters
<1> QED
  BY <1>1, <1>2, <1>3, <1>4 DEF AccountsInv, LateFollowsOnly, PurgeDeletesItsTarget

LEMMA CountFollowersKeeps ==
  ASSUME TypeOK, AccountsInv, CountFollowers
  PROVE  AccountsInv'
<1>1. UNCHANGED <<acct, rows, follows, late, deleting, victim>> /\ purge = "count"
  BY DEF CountFollowers, accountVars, deleteVars
<1>2. RowsExplained' /\ PassedStaysEmpty'
  BY <1>1 DEF AccountsInv, RowsExplained, PassedStaysEmpty, Passed
<1>3. LateFollowsOnly'
  <2>1. CASE Followers(target[2]) = {} /\ purge' = "key" /\ UNCHANGED target
    <3> SUFFICES ASSUME NEW r \in follows, r[3] = target[2]
                 PROVE  <<"followers", r[1]>> \in late
      BY <1>1, <2>1 DEF LateFollowsOnly
    <3>1. r[1] \in Ids /\ target[2] \in Feeds
      BY <1>1 DEF TypeOK
    <3>2. acct[r[1]] # target[2]
      <4> SUFFICES ASSUME acct[r[1]] = target[2] PROVE FALSE
        OBVIOUS
      <4>1. Exists(target[2])
        BY <3>1 DEF Exists
      <4>2. r[1] = IdOf(target[2])
        BY <3>1, <4>1, IdOfFacts
      <4> QED  BY <2>1, <4>1, <4>2 DEF Followers
    <3> QED  BY <3>2 DEF AccountsInv, RowsExplained
  <2>2. CASE purge' = "none"
    BY <2>2 DEF LateFollowsOnly
  <2> QED  BY <2>1, <2>2 DEF CountFollowers
<1> QED  BY <1>1, <1>2, <1>3 DEF AccountsInv, PurgeDeletesItsTarget

LEMMA DeleteFromKeeps ==
  ASSUME TypeOK, AccountsInv, NEW d \in Deleters, DeleteFrom(d)
  PROVE  AccountsInv'
<1> DEFINE table == deleting[d]  i == victim[d]
<1>1. /\ table \in Tables \cup {"accounts"} /\ i \in Ids
      /\ table \in Tables => table # "accounts"
  BY DEF DeleteFrom, TypeOK, Tables
<1>2. /\ rows' = {r \in rows : ~(r[1] = table /\ r[2] = i)}
      /\ follows' = IF table = "followers" THEN {r \in follows : r[1] # i} ELSE follows
      /\ acct' = IF table = "accounts" THEN [acct EXCEPT ![i] = NoFeed] ELSE acct
      /\ late' = late \ {<<table, i>>}
      /\ since' = since
  BY DEF DeleteFrom
<1>3. /\ deleting' = [deleting EXCEPT ![d] = NextTable(table)]
      /\ victim' = [victim EXCEPT ![d] = IF NextTable(table) = "none" THEN 0 ELSE i]
      /\ \/ UNCHANGED purgeVars
         \/ d = "purge" /\ NextTable(table) = "none" /\ purge' = "none"
  <2>1. CASE d = "purge" /\ NextTable(table) = "none"
    BY <2>1 DEF DeleteFrom
  <2>2. CASE ~(d = "purge" /\ NextTable(table) = "none")
    BY <2>2 DEF DeleteFrom
  <2> QED  BY <2>1, <2>2
<1>4. /\ \A e \in Deleters : e # d => deleting'[e] = deleting[e] /\ victim'[e] = victim[e]
      /\ deleting'[d] = NextTable(table)
      /\ NextTable(table) # "none" => victim'[d] = i
  BY <1>3 DEF TypeOK
<1>5. /\ \A r \in rows : r[1] \in {"toots", "posts"} /\ r[2] \in Ids
      /\ \A r \in follows : r[1] \in Ids
  BY DEF TypeOK
<1> HIDE DEF table, i
<1>6. RowsExplained'
  <2>1. ASSUME NEW r \in rows', acct'[r[2]] # r[3]
        PROVE  <<r[1], r[2]>> \in late
    <3>1. CASE acct[r[2]] # r[3]
      BY <1>2, <2>1, <3>1 DEF AccountsInv, RowsExplained
    <3>2. CASE acct[r[2]] = r[3]
      <4>1. table = "accounts" /\ r[2] = i
        BY <1>1, <1>2, <1>5, <2>1, <3>2 DEF TypeOK
      <4>2. r \in rows /\ deleting[d] \in Passed(r[1]) /\ r[1] \in Tables /\ victim[d] = i
        BY <1>2, <1>5, <2>1, <4>1 DEF Passed, Tables, table, i
      <4> QED  BY <4>1, <4>2 DEF AccountsInv, PassedStaysEmpty
    <3> QED  BY <3>1, <3>2
  <2>2. ASSUME NEW r \in follows', acct'[r[1]] # r[3]
        PROVE  <<"followers", r[1]>> \in late
    <3>0. r \in follows
      BY <1>2, <2>2
    <3>1. CASE acct[r[1]] # r[3]
      BY <1>2, <3>0, <3>1 DEF AccountsInv, RowsExplained
    <3>2. CASE acct[r[1]] = r[3]
      <4>1. table = "accounts" /\ r[1] = i
        BY <1>1, <1>2, <1>5, <2>2, <3>0, <3>2 DEF TypeOK
      <4>2. deleting[d] \in Passed("followers") /\ "followers" \in Tables /\ victim[d] = i
        BY <4>1 DEF Passed, Tables, table, i
      <4> QED  BY <3>0, <4>1, <4>2 DEF AccountsInv, PassedStaysEmpty
    <3> QED  BY <3>1, <3>2
  <2>3. \A r \in rows' : <<r[1], r[2]>> # <<table, i>>
    BY <1>2
  <2>4. \A r \in follows' : <<"followers", r[1]>> # <<table, i>>
    BY <1>2
  <2> QED  BY <1>2, <2>1, <2>2, <2>3, <2>4 DEF RowsExplained
<1>7. PassedStaysEmpty'
  <2> SUFFICES ASSUME NEW e \in Deleters, NEW t \in Tables, deleting'[e] \in Passed(t)
               PROVE  /\ \A r \in rows' : r[1] = t /\ r[2] = victim'[e]
                                           => <<t, victim'[e]>> \in late'
                      /\ \A r \in follows' : t = "followers" /\ r[1] = victim'[e]
                                               => <<t, victim'[e]>> \in late'
    BY DEF PassedStaysEmpty, Passed
  <2>1. CASE t = table /\ victim'[e] = i
    BY <1>2, <2>1
  <2>2. CASE ~(t = table /\ victim'[e] = i)
    <3>1. victim'[e] = victim[e] /\ deleting[e] \in Passed(t)
      <4>1. CASE e # d
        BY <1>4, <4>1
      <4>2. CASE e = d
        <5>1. deleting'[d] # "none" /\ deleting'[d] = NextTable(table)
          BY <1>4, <4>2, NoTableIsNone
        <5>2. victim'[d] = i /\ i = victim[d] /\ t # table
          BY <1>4, <2>2, <4>2, <5>1 DEF i
        <5>3. table \in Passed(t)
          BY <1>1, <4>2, <5>1, <5>2 DEF NextTable, Passed, Tables
        <5> QED  BY <4>2, <5>2, <5>3 DEF table
      <4> QED  BY <4>1, <4>2
    <3>2. \A r \in rows' : r[1] = t /\ r[2] = victim[e] => <<t, victim[e]>> \in late
      BY <1>2, <3>1 DEF AccountsInv, PassedStaysEmpty
    <3>3. \A r \in follows' : t = "followers" /\ r[1] = victim[e] => <<t, victim[e]>> \in late
      BY <1>2, <3>1 DEF AccountsInv, PassedStaysEmpty
    <3>4. <<t, victim[e]>> # <<table, i>>
      BY <2>2, <3>1
    <3> QED  BY <1>2, <3>1, <3>2, <3>3, <3>4
  <2> QED  BY <2>1, <2>2
<1>8. LateFollowsOnly'
  <2>1. CASE purge' = "none"
    BY <2>1 DEF LateFollowsOnly
  <2>2. CASE UNCHANGED purgeVars
    <3>1. \A r \in follows' : r \in follows /\ <<"followers", r[1]>> # <<table, i>>
      BY <1>2
    <3> QED  BY <1>2, <2>2, <3>1 DEF AccountsInv, LateFollowsOnly, purgeVars
  <2> QED  BY <1>3, <2>1, <2>2
<1>9. PurgeDeletesItsTarget'
  <2>1. CASE d # "purge"
    BY <1>3, <1>4, <2>1 DEF AccountsInv, PurgeDeletesItsTarget, purgeVars, Deleters
  <2>2. CASE d = "purge" /\ NextTable(table) = "none"
    BY <1>4, <2>2 DEF PurgeDeletesItsTarget
  <2>3. CASE d = "purge" /\ NextTable(table) # "none"
    <3>1. table # "none" /\ table = deleting["purge"] /\ i = victim["purge"]
      BY <1>1, <2>3 DEF table, i, Tables
    <3> QED
      BY <1>3, <1>4, <2>3, <3>1 DEF AccountsInv, PurgeDeletesItsTarget, purgeVars
  <2> QED  BY <2>1, <2>2, <2>3
<1> QED  BY <1>6, <1>7, <1>8, <1>9 DEF AccountsInv

LEMMA DeleteEndsKeeps ==
  ASSUME TypeOK, AccountsInv, NEW D \in SUBSET Deleters,
         UNCHANGED <<acct, rows, follows, late, since>>,
         \A d \in Deleters : deleting'[d] = IF d \in D THEN "none" ELSE deleting[d],
         \A d \in Deleters \ D : victim'[d] = victim[d],
         IF "purge" \in D THEN purge' = "none" ELSE UNCHANGED <<purge, target>>
  PROVE  AccountsInv'
<1>1. RowsExplained'
  BY DEF AccountsInv, RowsExplained
<1>2. ASSUME NEW e \in Deleters, NEW table \in Tables, deleting'[e] \in Passed(table)
      PROVE  deleting[e] = deleting'[e] /\ victim[e] = victim'[e]
  BY <1>2, NoTableIsNone
<1>3. PassedStaysEmpty'
  BY <1>2 DEF AccountsInv, PassedStaysEmpty, Passed
<1>4. LateFollowsOnly'
  BY DEF AccountsInv, LateFollowsOnly
<1>5. PurgeDeletesItsTarget'
  BY DEF AccountsInv, PurgeDeletesItsTarget, Deleters
<1> QED  BY <1>1, <1>3, <1>4, <1>5 DEF AccountsInv

\* Rows that refer to no account, or to another one than they were written for,
\* were written behind a deletion's back, whatever is deleted, crashes or fails
\* in between and whichever ids are used again; and a purge that goes on has
\* nothing but late follows before it.
THEOREM AccountsInvariant == Spec => []AccountsInv
<1>1. Init => AccountsInv
  BY DEF Init, AccountsInv, RowsExplained, PassedStaysEmpty, LateFollowsOnly,
         PurgeDeletesItsTarget, AllDeleters, Deleters
<1>2. TypeOK /\ AccountsInv /\ [Next]_vars => AccountsInv'
  <2> SUFFICES ASSUME TypeOK, AccountsInv, [Next]_vars PROVE AccountsInv'
    OBVIOUS
  <2>1. ASSUME NEW u \in Users, NEW f \in Feeds, RemoveFollower(u, f)
        PROVE  AccountsInv'
    BY <2>1, OtherStepsKeep DEF RemoveFollower, accountVars
  <2>2. ASSUME NEW w \in Workers, GetAccount(w) \/ GetFeedLastUpdated(w) \/ MentionDone(w)
        PROVE  AccountsInv'
    BY <2>2, OtherStepsKeep
       DEF GetAccount, GetFeedLastUpdated, MentionDone, accountVars, tableVars
  <2>3. CASE GetAccountToCheck
    BY <2>3, OtherStepsKeep DEF GetAccountToCheck, accountVars, tableVars
  <2>4. CASE LoopDone
    <3>1. UNCHANGED <<acct, rows, follows, late, since, deleteVars>>
      BY <2>4 DEF LoopDone, accountVars, tableVars
    <3>2. \/ UNCHANGED purgeVars
          \/ purge = "none" /\ purge' = "count"
      BY <2>4 DEF LoopDone
    <3> QED  BY <3>1, <3>2, OtherStepsKeep
  <2>5. CASE GetPrivKey
    BY <2>5, OtherStepsKeep DEF GetPrivKey, accountVars, tableVars
  <2>6. ASSUME NEW d \in Deleters, DeleteFails(d)
        PROVE  AccountsInv'
    <3>1. UNCHANGED <<acct, rows, follows, late, since>>
      BY <2>6 DEF DeleteFails, accountVars, tableVars
    <3>2. /\ \A e \in Deleters : deleting'[e] = IF e \in {d} THEN "none" ELSE deleting[e]
          /\ \A e \in Deleters \ {d} : victim'[e] = victim[e]
      BY <2>6 DEF DeleteFails, TypeOK
    <3>3. IF "purge" \in {d} THEN purge' = "none" ELSE UNCHANGED <<purge, target>>
      BY <2>6 DEF DeleteFails
    <3> QED  BY <3>1, <3>2, <3>3, DeleteEndsKeeps
  <2>7. CASE Crash
    <3>1. UNCHANGED <<acct, rows, follows, late, since>> /\ purge' = "none"
      BY <2>7 DEF Crash, accountVars, tableVars
    <3>2. \A d \in Deleters : deleting'[d] = "none"
      BY <2>7 DEF Crash, AllDeleters
    <3>3. \A d \in Deleters : deleting'[d] = IF d \in Deleters THEN "none" ELSE deleting[d]
      BY <3>2
    <3>4. "purge" \in Deleters
      BY DEF Deleters
    <3> QED  BY <3>1, <3>3, <3>4, DeleteEndsKeeps
  <2>8. CASE UNCHANGED vars
    BY <2>8, OtherStepsKeep DEF vars, accountVars, tableVars
  <2>9. ASSUME NEW u \in Users, NEW f \in Feeds, AddFollower(u, f)
        PROVE  AccountsInv'
    BY <2>9, AddFollowerKeeps
  <2>10. ASSUME NEW w \in Workers, NEW f \in Feeds, AddAccountIfNotExist(w, f)
         PROVE  AccountsInv'
    BY <2>10, AddAccountKeeps
  <2>11. ASSUME NEW w \in Workers, NEW table \in Written, AddRow(w, table)
         PROVE  AccountsInv'
    BY <2>11, AddRowKeeps
  <2>12. ASSUME NEW d \in Deleters, DeleteFrom(d)
         PROVE  AccountsInv'
    BY <2>12, DeleteFromKeeps
  <2> QED
    BY <2>1, <2>2, <2>3, <2>4, <2>5, <2>6, <2>7, <2>8, <2>9, <2>10, <2>11, <2>12,
       ApiDeleteKeeps, CountFollowersKeeps, DeletesSentKeeps DEF Next
<1> QED  BY <1>1, <1>2, TypeCorrect, PTL DEF Spec

\* Deleting the rows of other accounts' orphans aside, every follow the purge
\* removes from the account it holds arrived after the purge had counted.
THEOREM PurgeTakesLateFollows == Spec => PurgeTakesLateFollowsOnly
<1>1. AccountsInv /\ [Next]_vars =>
        [deleting["purge"] = "followers" /\ deleting'["purge"] = NextTable("followers") =>
           \A r \in follows \ follows' :
             r[3] = target[2] \/ (r[1] = target[1] /\ acct[target[1]] = target[2]) =>
               <<r[2], r[3]>> \in since \/ <<"followers", r[1]>> \in late]_vars
  <2> SUFFICES ASSUME AccountsInv, deleting["purge"] = "followers", NEW r \in follows,
                      r[3] = target[2] \/ (r[1] = target[1] /\ acct[target[1]] = target[2])
               PROVE  <<r[2], r[3]>> \in since \/ <<"followers", r[1]>> \in late
    OBVIOUS
  <2>1. CASE r[3] = target[2]
    BY <2>1 DEF AccountsInv, PurgeDeletesItsTarget, LateFollowsOnly
  <2>2. CASE r[3] # target[2]
    BY <2>2 DEF AccountsInv, RowsExplained
  <2> QED  BY <2>1, <2>2
<1> QED  BY <1>1, AccountsInvariant, PTL DEF Spec, PurgeTakesLateFollowsOnly
-----------------------------------------------------------------------------
(* What other instances keep of the actors                                   *)

LEMMA KeysStepIsStep ==
  ASSUME [KeysNext]_allVars
  PROVE  [Next]_vars
<1>1. ASSUME NEW u \in Users, NEW f \in Feeds, FetchActor(u, f) \/ Follow(u, f)
      PROVE  [Next]_vars
  BY <1>1 DEF FetchActor, Follow, Next
<1>2. ASSUME NEW w \in Workers, NEW f \in Feeds, CreateWithKeys(w, f)
      PROVE  [Next]_vars
  BY <1>2 DEF CreateWithKeys, Next
<1>3. CASE ListInboxes \/ SendDelete \/ SendingDone
  BY <1>3 DEF ListInboxes, SendDelete, SendingDone, Next
<1>4. CASE OtherStep
  BY <1>4 DEF OtherStep, Next
<1>5. CASE Crash
  BY <1>5 DEF Next
<1>6. CASE UNCHANGED allVars
  BY <1>6 DEF allVars
<1> QED  BY <1>1, <1>2, <1>3, <1>4, <1>5, <1>6 DEF KeysNext

\* Instances that fetch, follow and forget actors change nothing in how accounts
\* live: with them the accounts behave as Accounts says, and all that is proved
\* of Accounts holds.
THEOREM KeysImplementAccounts == KeysSpec => Spec
<1>1. KeysInit => Init
  BY DEF KeysInit
<1> QED  BY <1>1, KeysStepIsStep, PTL DEF KeysSpec, Spec

\* A feed's key is as old as its account, and no two feeds share one.
KeysNumbered ==
  /\ \A f \in Feeds : key[f] <= created /\ (Exists(f) => key[f] > 0)
  /\ \A f, g \in Feeds : key[f] = key[g] /\ key[f] > 0 => f = g

\* What an instance keeps of an actor is never newer than the actor's key, and never
\* the key that another feed's account has: a copy that is wrong (NoKeyMismatch is
\* violated) is older than the account it is used for.
CopiesWereTrue ==
  \A u \in Users, f \in Feeds :
    /\ cached[<<u, f>>] <= key[f]
    /\ \A g \in Feeds : cached[<<u, f>>] = key[g] /\ cached[<<u, f>>] > 0 => g = f

KeysInv == KeysTypeOK /\ KeysNumbered /\ CopiesWereTrue

LEMMA CreateWithKeysKeeps ==
  ASSUME TypeOK, KeysInv, NEW w \in Workers, NEW f \in Feeds, CreateWithKeys(w, f)
  PROVE  KeysInv'
<1>1. /\ created \in 0..MaxCreations /\ created' \in 0..MaxCreations
      /\ UNCHANGED <<cached, inboxes>>
  BY AddAccountTypes DEF CreateWithKeys, TypeOK
<1>2. CASE UNCHANGED accountVars
  <2>1. created' = created /\ key' = key /\ \A g \in Feeds : Exists(g)' <=> Exists(g)
    BY <1>2 DEF accountVars, CreateWithKeys, Exists
  <2> QED
    BY <1>1, <2>1 DEF KeysInv, KeysTypeOK, KeysNumbered, CopiesWereTrue
<1>3. CASE ~Exists(f) /\ created < MaxCreations /\ created' = created + 1
           /\ \E i \in Ids : NextId(i) /\ acct' = [acct EXCEPT ![i] = f]
  <2>1. key' = [key EXCEPT ![f] = created + 1]
    BY <1>1, <1>3 DEF CreateWithKeys
  <2>2. \A g \in Feeds : key'[g] = IF g = f THEN created + 1 ELSE key[g]
    BY <2>1 DEF KeysInv, KeysTypeOK
  <2>3. \A g \in Feeds : Exists(g)' => g = f \/ Exists(g)
    BY <1>3 DEF Exists, TypeOK
  <2>4. \A g \in Feeds : key[g] \in Nat /\ key[g] <= created
    BY DEF KeysInv, KeysTypeOK, KeysNumbered
  <2>5. \A u \in Users, g \in Feeds : cached[<<u, g>>] \in Nat /\ cached[<<u, g>>] <= key[g]
    <3> SUFFICES ASSUME NEW u \in Users, NEW g \in Feeds
                 PROVE  cached[<<u, g>>] \in Nat /\ cached[<<u, g>>] <= key[g]
      OBVIOUS
    <3>1. <<u, g>> \in Users \X Feeds
      OBVIOUS
    <3>2. cached[<<u, g>>] \in 0..MaxCreations
      BY <3>1 DEF KeysInv, KeysTypeOK
    <3>3. cached[<<u, g>>] <= key[g]
      BY DEF KeysInv, CopiesWereTrue
    <3> QED  BY <3>2, <3>3
  <2>6. KeysTypeOK'
    BY <1>1, <1>3, <2>1 DEF KeysInv, KeysTypeOK
  <2>7. KeysNumbered'
    <3>1. \A g \in Feeds : key'[g] <= created' /\ (Exists(g)' => key'[g] > 0)
      BY <1>1, <1>3, <2>2, <2>3, <2>4 DEF KeysInv, KeysNumbered
    <3>2. \A g, h \in Feeds : key'[g] = key'[h] /\ key'[g] > 0 => g = h
      BY <1>1, <2>2, <2>4 DEF KeysInv, KeysNumbered
    <3> QED  BY <3>1, <3>2 DEF KeysNumbered
  <2>8. CopiesWereTrue'
    <3> SUFFICES ASSUME NEW u \in Users, NEW g \in Feeds
                 PROVE  /\ cached[<<u, g>>] <= key'[g]
                        /\ \A h \in Feeds :
                             cached[<<u, g>>] = key'[h] /\ cached[<<u, g>>] > 0 => h = g
      BY <1>1 DEF CopiesWereTrue
    <3>1. cached[<<u, g>>] <= created
      BY <1>1, <2>4, <2>5
    <3> QED  BY <1>1, <2>2, <2>4, <2>5, <3>1 DEF KeysInv, CopiesWereTrue
  <2> QED  BY <2>6, <2>7, <2>8 DEF KeysInv
<1> QED  BY <1>2, <1>3 DEF CreateWithKeys, AddAccountIfNotExist

LEMMA CopyStepsKeep ==
  ASSUME KeysInv, UNCHANGED <<key, created, acct>>, inboxes' \subseteq Users,
         NEW u \in Users, NEW f \in Feeds,
         \/ cached' = [cached EXCEPT ![<<u, f>>] = key[f]] /\ Exists(f)
         \/ cached' = [cached EXCEPT ![<<u, f>>] = 0]
  PROVE  KeysInv'
<1>1. key \in [Feeds -> Nat] /\ \A x \in Users \X Feeds : cached[x] \in Nat
  BY DEF KeysInv, KeysTypeOK
<1>2. \A v \in Users, g \in Feeds :
        cached'[<<v, g>>] \in {cached[<<v, g>>], key[g], 0}
  BY DEF KeysInv, KeysTypeOK
<1>3. KeysTypeOK'
  BY <1>2 DEF KeysInv, KeysTypeOK
<1>4. KeysNumbered'
  BY DEF KeysInv, KeysNumbered, Exists
<1>5. CopiesWereTrue'
  <2> SUFFICES ASSUME NEW v \in Users, NEW g \in Feeds
               PROVE  /\ cached'[<<v, g>>] <= key[g]
                      /\ \A h \in Feeds :
                           cached'[<<v, g>>] = key[h] /\ cached'[<<v, g>>] > 0 => h = g
    BY DEF CopiesWereTrue
  <2>1. CASE cached'[<<v, g>>] = cached[<<v, g>>]
    BY <2>1 DEF KeysInv, CopiesWereTrue
  <2>2. CASE cached'[<<v, g>>] = key[g]
    BY <1>1, <2>2 DEF KeysInv, KeysNumbered
  <2>3. CASE cached'[<<v, g>>] = 0
    BY <1>1, <2>3
  <2> QED  BY <1>2, <2>1, <2>2, <2>3
<1> QED  BY <1>3, <1>4, <1>5 DEF KeysInv

LEMMA FewerAccountsKeep ==
  ASSUME KeysInv, UNCHANGED <<key, cached, created>>, inboxes' \subseteq Users,
         \A f \in Feeds : Exists(f)' => Exists(f)
  PROVE  KeysInv'
BY DEF KeysInv, KeysTypeOK, KeysNumbered, CopiesWereTrue

LEMMA OtherStepsDeleteAtMost ==
  ASSUME TypeOK, OtherStep
  PROVE  UNCHANGED created /\ \A f \in Feeds : Exists(f)' => Exists(f)
<1>1. CASE UNCHANGED accountVars
  BY <1>1 DEF accountVars, Exists
<1>2. ASSUME NEW d \in Deleters, DeleteFrom(d)
      PROVE  UNCHANGED created /\ \A f \in Feeds : Exists(f)' => Exists(f)
  <2>1. /\ UNCHANGED created
        /\ acct' = acct \/ \E i \in Ids : acct' = [acct EXCEPT ![i] = NoFeed]
    BY <1>2 DEF DeleteFrom, TypeOK
  <2> QED  BY <2>1 DEF Exists, TypeOK
<1>3. ASSUME NEW u \in Users, NEW f \in Feeds, RemoveFollower(u, f)
      PROVE  UNCHANGED accountVars
  BY <1>3 DEF RemoveFollower
<1>4. ASSUME NEW w \in Workers, GetAccount(w) \/ GetFeedLastUpdated(w) \/ MentionDone(w)
      PROVE  UNCHANGED accountVars
  BY <1>4 DEF GetAccount, GetFeedLastUpdated, MentionDone
<1>5. ASSUME NEW w \in Workers, NEW table \in Written, AddRow(w, table)
      PROVE  UNCHANGED accountVars
  BY <1>5 DEF AddRow
<1>6. ASSUME GetAccountToCheck \/ LoopDone \/ ApiDelete \/ CountFollowers
      PROVE  UNCHANGED accountVars
  BY <1>6 DEF GetAccountToCheck, LoopDone, ApiDelete, CountFollowers
<1>7. ASSUME NEW d \in Deleters, DeleteFails(d)
      PROVE  UNCHANGED accountVars
  BY <1>7 DEF DeleteFails
<1> QED  BY <1>1, <1>2, <1>3, <1>4, <1>5, <1>6, <1>7 DEF OtherStep

\* A copy of an actor is only ever wrong by being old: whatever is created, deleted,
\* fetched and lost, it is no newer than its feed's key and is no other feed's key.
THEOREM WrongCopiesAreOld == KeysSpec => []CopiesWereTrue
<1>1. KeysInit => KeysInv
  BY DEF KeysInit, Init, KeysInv, KeysTypeOK, KeysNumbered, CopiesWereTrue, Exists
<1>2. TypeOK /\ KeysInv /\ [KeysNext]_allVars => KeysInv'
  <2> SUFFICES ASSUME TypeOK, KeysInv, [KeysNext]_allVars
               PROVE  KeysInv'
    OBVIOUS
  <2>1. inboxes \subseteq Users
    BY DEF KeysInv, KeysTypeOK
  <2>2. ASSUME NEW u \in Users, NEW f \in Feeds, FetchActor(u, f)
        PROVE  KeysInv'
    BY <2>1, <2>2, CopyStepsKeep DEF FetchActor, vars, accountVars
  <2>3. ASSUME NEW u \in Users, NEW f \in Feeds, Follow(u, f)
        PROVE  KeysInv'
    BY <2>1, <2>3, FewerAccountsKeep DEF Follow, AddFollower, accountVars, keyVars, Exists
  <2>4. ASSUME NEW w \in Workers, NEW f \in Feeds, CreateWithKeys(w, f)
        PROVE  KeysInv'
    BY <2>4, CreateWithKeysKeeps
  <2>5. CASE ListInboxes
    <3>1. inboxes' \subseteq Users
      BY <2>5 DEF ListInboxes, TypeOK
    <3> QED
      BY <2>5, <3>1, FewerAccountsKeep DEF ListInboxes, GetPrivKey, accountVars, Exists
  <2>6. CASE SendDelete
    <3>1. /\ inboxes' \subseteq Users /\ UNCHANGED <<key, created, acct>>
          /\ target[2] \in Feeds
      BY <2>1, <2>6 DEF SendDelete, vars, accountVars, TypeOK
    <3>2. \/ UNCHANGED cached
          \/ \E u \in Users : cached' = [cached EXCEPT ![<<u, target[2]>>] = 0]
      BY <2>1, <2>6 DEF SendDelete
    <3> QED
      BY <3>1, <3>2, CopyStepsKeep, FewerAccountsKeep DEF Exists
  <2>7. CASE SendingDone
    BY <2>1, <2>7, FewerAccountsKeep DEF SendingDone, DeletesSent, keyVars, accountVars, Exists
  <2>8. CASE OtherStep
    <3>1. UNCHANGED keyVars
      BY <2>8 DEF OtherStep
    <3> QED  BY <2>1, <2>8, <3>1, OtherStepsDeleteAtMost, FewerAccountsKeep DEF keyVars
  <2>9. CASE Crash /\ inboxes' = {} /\ UNCHANGED <<key, cached>>
    BY <2>9, FewerAccountsKeep DEF Crash, accountVars, Exists
  <2>10. CASE UNCHANGED allVars
    BY <2>1, <2>10, FewerAccountsKeep DEF allVars, vars, accountVars, keyVars, Exists
  <2> QED
    BY <2>2, <2>3, <2>4, <2>5, <2>6, <2>7, <2>8, <2>9, <2>10 DEF KeysNext
<1>3. KeysInv => CopiesWereTrue
  BY DEF KeysInv
<1> QED  BY <1>1, <1>2, <1>3, KeysImplementAccounts, TypeCorrect, PTL DEF KeysSpec
================================================================================
