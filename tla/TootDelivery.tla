----------------------------- MODULE TootDelivery -----------------------------
(***************************************************************************)
(* What the messenger's queue promises of each item (one toot for one      *)
(* inbox): once accepted it stays owed until it has been tried, however    *)
(* often; then it is struck off, and never accepted again.                 *)
(***************************************************************************)
CONSTANT Items

VARIABLES owed, tried

Accept(i) ==
  /\ i \notin owed \cup tried
  /\ owed' = owed \cup {i}
  /\ UNCHANGED tried

Try(i) ==
  /\ i \in owed
  /\ tried' = tried \cup {i}
  /\ UNCHANGED owed

StrikeOff(i) ==
  /\ i \in owed \cap tried
  /\ owed' = owed \ {i}
  /\ UNCHANGED tried

Init == owed = {} /\ tried = {}

Next == \E i \in Items : Accept(i) \/ Try(i) \/ StrikeOff(i)

Spec == Init /\ [][Next]_<<owed, tried>>
===============================================================================
