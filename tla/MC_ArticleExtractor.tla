-------------------------- MODULE MC_ArticleExtractor --------------------------
(* ArticleExtractor on three pages of two hosts: a cache of two, a map of one. *)
EXTENDS ArticleExtractor, TLC

CONSTANTS h1, h2, p1, p2, p3

MCHostOf == p1 :> h1 @@ p2 :> h1 @@ p3 :> h2
================================================================================
