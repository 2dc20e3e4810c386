------------------------------ MODULE MC_Accounts ------------------------------
(* Accounts with two feeds that may get each other's id.                      *)
EXTENDS Accounts, TLC

Symmetry == Permutations(Feeds)
================================================================================
