------------------------------ MODULE ActorKeys ------------------------------
(***************************************************************************)
(* What other instances keep of our accounts' actors, composed with        *)
(* Accounts: an instance fetches an actor and caches its public key; the   *)
(* purge tells instances to drop it (sendDeleteToKnownInstances in         *)
(* server/logic/feed_follower.go).                                         *)
(***************************************************************************)
EXTENDS Accounts

CONSTANT Reliable  \* bound: whether no call of the purge fails and every Delete arrives

VARIABLES
  key,     \* the version of a feed's key pair: the number of the account
  cached,  \* the version a user's instance keeps, 0 for none
  inboxes  \* instances the purge has yet to send the Delete activity to

keyVars == <<key, cached, inboxes>>
allVars == <<vars, keyVars>>

KeysTypeOK ==
  /\ key \in [Feeds -> 0..MaxCreations]
  /\ cached \in [Users \X Feeds -> 0..MaxCreations]
  /\ inboxes \subseteq Users

\* An instance that keeps no copy of an actor fetches it.
FetchActor(u, f) ==
  /\ Exists(f)
  /\ cached[<<u, f>>] = 0
  /\ cached' = [cached EXCEPT ![<<u, f>>] = key[f]]
  /\ UNCHANGED <<vars, key, inboxes>>

\* An instance has to fetch the actor before its user can follow it.
Follow(u, f) ==
  /\ cached[<<u, f>>] # 0
  /\ AddFollower(u, f)
  /\ UNCHANGED keyVars

\* MakeKeyPair for each new account.
CreateWithKeys(w, f) ==
  /\ AddAccountIfNotExist(w, f)
  /\ key' = IF created' = created THEN key ELSE [key EXCEPT ![f] = created']
  /\ UNCHANGED <<cached, inboxes>>

\* GetPrivKey, then GetDistinctSharedInboxes: the instances of all followers
\* there are, of whichever account.
ListInboxes ==
  /\ GetPrivKey
  /\ \/ Exists(target[2]) /\ inboxes' = {r[2] : r \in follows}
     \/ ~Reliable /\ inboxes' = {}
  /\ UNCHANGED <<key, cached>>

\* The Delete activity reaches an instance, which drops the actor, or is lost.
SendDelete ==
  /\ purge = "send"
  /\ \E u \in inboxes :
       /\ inboxes' = inboxes \ {u}
       /\ \/ cached' = [cached EXCEPT ![<<u, target[2]>>] = 0]
          \/ ~Reliable /\ UNCHANGED cached
  /\ UNCHANGED <<vars, key>>

SendingDone == inboxes = {} /\ DeletesSent /\ UNCHANGED keyVars

\* What the other actions of Accounts do: nothing instances know of.
OtherStep ==
  /\ \/ \E u \in Users, f \in Feeds : RemoveFollower(u, f)
     \/ \E w \in Workers : GetAccount(w) \/ GetFeedLastUpdated(w) \/ MentionDone(w)
     \/ \E w \in Workers, table \in Written : AddRow(w, table)
     \/ GetAccountToCheck \/ LoopDone
     \/ \E d \in Deleters : DeleteFrom(d) \/ DeleteFails(d)
     \/ ApiDelete
     \/ CountFollowers
  /\ UNCHANGED keyVars

KeysInit ==
  /\ Init
  /\ key = [f \in Feeds |-> 0]
  /\ cached = [x \in Users \X Feeds |-> 0]
  /\ inboxes = {}

KeysNext ==
  \/ \E u \in Users, f \in Feeds : FetchActor(u, f) \/ Follow(u, f)
  \/ \E w \in Workers, f \in Feeds : CreateWithKeys(w, f)
  \/ ListInboxes \/ SendDelete \/ SendingDone
  \/ OtherStep
  \/ Crash /\ inboxes' = {} /\ UNCHANGED <<key, cached>>

KeysSpec == KeysInit /\ [][KeysNext]_allVars

-----------------------------------------------------------------------------

\* "This tells them to drop their cached copy of the actor, preventing key
\* mismatch errors if the account is later re-created" (feed_follower.go:1035).
\* An instance is told only while some user of its follows something, and not
\* at all when the administrator deletes the account.
NoKeyMismatch ==
  \A u \in Users, f \in Feeds :
    Exists(f) /\ cached[<<u, f>>] # 0 => cached[<<u, f>>] = key[f]
===============================================================================
