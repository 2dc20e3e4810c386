-------------------------------- MODULE MC_Inbox --------------------------------
(* Inbox with a user who follows twice and writes to the birb.                 *)
EXTENDS Inbox

Activity(type, user, n) == [type |-> type, user |-> user, n |-> n]

CONSTANT u1

SomeActivities ==
  {Activity("Follow", u1, 1), Activity("Undo", u1, 1), Activity("Follow", u1, 2),
   Activity("Create", u1, 1)}
OneFollow == {Activity("Follow", u1, 1)}
=================================================================================
