----------------------------- MODULE MC_Discovery -----------------------------
(* Discovery on a web of one site: its page, with a link to the feed of its   *)
(* posts, and the feed of its comments.  Both feeds call the page their site, *)
(* and one more page, without a link, has a feed at the usual place.          *)
EXTENDS Discovery

MCAddresses == {"page", "posts", "comments", "bare", "bare/feed"}
MCSiteLink ==
  [f \in Feeds |-> IF f = "bare/feed" THEN "bare" ELSE "page"]
MCFeedLink == [a \in Pages |-> IF a = "page" THEN "posts" ELSE NoLink]
MCProbed == [a \in Addresses |-> IF a = "bare" THEN {"bare/feed"} ELSE {}]
MCHandles == {"site", "site.posts", "site.comments", "bare", "bare.feed"}
MCHandleOf ==
  [a \in Addresses |->
     CASE a = "page" -> "site"
       [] a = "posts" -> "site.posts"
       [] a = "comments" -> "site.comments"
       [] a = "bare" -> "bare"
       [] a = "bare/feed" -> "bare.feed"]
===============================================================================
