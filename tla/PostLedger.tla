------------------------------ MODULE PostLedger ------------------------------
(***************************************************************************)
(* What checking a feed promises of its posts: a published post is         *)
(* recorded, tooted and announced, each once and in this order; and when   *)
(* posts are dated in order, the mark up to which the feed counts as read  *)
(* never passes a post that is not recorded.                               *)
(***************************************************************************)
EXTENDS Integers

CONSTANTS Posts, MaxTime, InOrder

VARIABLES
  feed,               \* the date of each post that is published, 0 before
  recorded,           \* the posts with a record
  toots, broadcasts,  \* how often each post was tooted, and announced
  mark                \* the date up to which the feed counts as read

ledgerVars == <<feed, recorded, toots, broadcasts, mark>>

\* All posts dated up to t are recorded.
Complete(t) == \A p \in Posts : feed[p] > 0 /\ feed[p] <= t => p \in recorded

Publish(p, t) ==
  /\ t > feed[p] /\ (InOrder => \A q \in Posts : t > feed[q])
  /\ feed' = [feed EXCEPT ![p] = t]
  /\ UNCHANGED <<recorded, toots, broadcasts, mark>>

Record(p) ==
  /\ feed[p] > 0 /\ p \notin recorded
  /\ recorded' = recorded \cup {p}
  /\ UNCHANGED <<feed, toots, broadcasts, mark>>

Toot(p) ==
  /\ p \in recorded /\ toots[p] = 0
  /\ toots' = [toots EXCEPT ![p] = 1]
  /\ UNCHANGED <<feed, recorded, broadcasts, mark>>

Announce(p) ==
  /\ toots[p] = 1 /\ broadcasts[p] = 0
  /\ broadcasts' = [broadcasts EXCEPT ![p] = 1]
  /\ UNCHANGED <<feed, recorded, toots, mark>>

SetMark(t) ==
  /\ InOrder => Complete(t)
  /\ mark' = t
  /\ UNCHANGED <<feed, recorded, toots, broadcasts>>

Init ==
  /\ feed = [p \in Posts |-> 0] /\ mark = 0
  /\ recorded = {}
  /\ toots = [p \in Posts |-> 0] /\ broadcasts = [p \in Posts |-> 0]

Next ==
  \/ \E p \in Posts : Record(p) \/ Toot(p) \/ Announce(p)
  \/ \E p \in Posts, t \in 1..MaxTime : Publish(p, t)
  \/ \E t \in 0..MaxTime : SetMark(t)

Spec == Init /\ [][Next]_ledgerVars
===============================================================================
