---------------------------- MODULE MC_Retention ----------------------------
(* Retention with a few posts and mentions. *)
EXTENDS Retention, TLC

Symmetry == Permutations(Posts) \cup Permutations(Mentions)
===============================================================================
