----------------------------- MODULE FollowerList -----------------------------
(***************************************************************************)
(* What the inbox promises of an account's followers: as if every activity *)
(* came once and took effect at one moment.  A user follows by a Follow of *)
(* his own until an Undo of his own, or until the account is deleted; he   *)
(* is approved for the Follow that holds, and only when he has been told.  *)
(***************************************************************************)
CONSTANTS Activities, Users, NoActivity

VARIABLES
  effects,   \* activities that have taken effect
  following, \* for each user the Follow that holds, or NoActivity
  approved,  \* users approved for it
  told       \* users an Accept has arrived at

TakeEffect(a, type) ==
  /\ a.type = type
  /\ a \notin effects
  /\ effects' = effects \cup {a}
  /\ UNCHANGED told

Follow(a) ==
  /\ TakeEffect(a, "Follow")
  /\ following' = [following EXCEPT ![a.user] = a]
  /\ approved' = approved \ {a.user}

Unfollow(a) ==
  /\ TakeEffect(a, "Undo")
  /\ following' = [following EXCEPT ![a.user] = NoActivity]
  /\ approved' = approved \ {a.user}

Reply(a) == TakeEffect(a, "Create") /\ UNCHANGED <<following, approved>>

Tell(u) ==
  /\ \E a \in effects : a.type = "Follow" /\ a.user = u
  /\ told' = told \cup {u}
  /\ UNCHANGED <<effects, following, approved>>

Approve(u) ==
  /\ following[u] # NoActivity /\ u \in told
  /\ approved' = approved \cup {u}
  /\ UNCHANGED <<effects, following, told>>

Delete ==
  /\ following' = [u \in Users |-> NoActivity]
  /\ approved' = {}
  /\ UNCHANGED <<effects, told>>

Init ==
  /\ effects = {} /\ told = {} /\ approved = {}
  /\ following = [u \in Users |-> NoActivity]

Next ==
  \/ \E a \in Activities : Follow(a) \/ Unfollow(a) \/ Reply(a)
  \/ \E u \in Users : Tell(u) \/ Approve(u)
  \/ Delete

Spec == Init /\ [][Next]_<<effects, following, approved, told>>
===============================================================================
