----------------------------- MODULE MC_ActorKeys -----------------------------
(* ActorKeys with one feed and one instance.                                  *)
EXTENDS ActorKeys
================================================================================
