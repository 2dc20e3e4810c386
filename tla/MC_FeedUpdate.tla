---------------------------- MODULE MC_FeedUpdate ----------------------------
(* FeedUpdate with a few posts and mentions. *)
EXTENDS FeedUpdate
===============================================================================
