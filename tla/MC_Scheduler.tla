----------------------------- MODULE MC_Scheduler -----------------------------
(* Scheduler with a few feeds. *)
EXTENDS Scheduler
===============================================================================
