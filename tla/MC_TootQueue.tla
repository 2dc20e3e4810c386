----------------------------- MODULE MC_TootQueue -----------------------------
(* TootQueue on a small instance: a toot for three inboxes and two slots.     *)
EXTENDS TootQueue

CONSTANT u1

MCOwner == [t \in Toots |-> u1]
===============================================================================
