------------------------------- MODULE Discovery -------------------------------
(***************************************************************************)
(* How a request finds a feed and the account for it (GetAccountForFeed    *)
(* and getSiteInfo in server/logic/feed_follower.go, GetHandleFromUrl and  *)
(* ValidateHandle in server/shared/formatter.go,                           *)
(* server/logic/blocked_feeds.go).                                         *)
(*                                                                         *)
(* A request names an address.  If a feed is there, the handle of the      *)
(* account is made of the address the feed calls its site; if a page is    *)
(* there, or nothing, the handle is made of the requested address, and the *)
(* feed is looked for in the page or at the usual places.  The account is  *)
(* then looked up by the handle alone.  The web is a constant here.        *)
(***************************************************************************)
CONSTANTS
  Requests,    \* calls of GetAccountForFeed
  Addresses,   \* addresses of the web, without their query
  Feeds,       \* those with a feed
  Pages,       \* those with a page, none of them with a feed
  SiteLink,    \* feed.Link: for each feed the address it calls its site
  FeedLink,    \* for each page the address its alternate link names, or NoLink
  Probed,      \* for each address those made of it with the usual suffixes
  NoLink,      \* no address, no handle
  Handles,
  HandleOf,    \* GetHandleFromUrl, for each address: not one to one, since case,
               \* scheme, trailing slashes and all punctuation are dropped
  Valid,       \* handles with a dot and two other characters
  Mastodon     \* feeds made by Mastodon

VARIABLES
  blocked,   \* the file of blocked feeds
  feedUrl,   \* accounts: the feed_url of each handle's account, NoLink without one
  tooted,    \* whose posts the account's toots are about
  pc,        \* place of each request: "idle", "add", "update", "done"
  site       \* what getSiteInfo has found for it: a handle and a feed

accountVars == <<feedUrl, tooted>>
requestVars == <<pc, site>>
vars == <<blocked, accountVars, requestVars>>

NoSite == [handle |-> NoLink, feed |-> NoLink]

TypeOK ==
  /\ blocked \subseteq Feeds
  /\ feedUrl \in [Handles -> Feeds \cup {NoLink}]
  /\ tooted \in [Handles -> SUBSET Feeds]
  /\ pc \in [Requests -> {"idle", "add", "update", "done"}]
  /\ site \in [Requests -> [handle : Handles, feed : Feeds] \cup {NoSite}]

-----------------------------------------------------------------------------
(* getSiteInfo                                                               *)

\* getFeedUrl.  Without an alternate link its relative address is empty and
\* resolves to the page itself, so that the usual places are not tried.
AutoDiscovered(a) == IF FeedLink[a] = NoLink THEN a ELSE FeedLink[a]

\* The page's feed, or what probing finds where there is no page (the first one).
FeedOf(a) ==
  IF a \in Pages THEN {AutoDiscovered(a)} \cap Feeds ELSE Probed[a] \cap Feeds

\* What a request for the address finds, with validateSiteInfo.
Sites(a) ==
  {s \in [handle : Valid, feed : Feeds] :
     \/ a \in Feeds /\ s.feed = a /\ s.handle = HandleOf[SiteLink[a]]
     \/ a \notin Feeds /\ s.feed \in FeedOf(a) /\ s.handle = HandleOf[a]}

\* filterFeed: neither Mastodon's own feeds nor those of publishers who opted out.
IsBlocked(f) == f \in blocked
Accepted(f) == f \notin Mastodon /\ ~IsBlocked(f)

-----------------------------------------------------------------------------
(* GetAccountForFeed                                                         *)

GetSiteInfo(r, a) ==
  /\ pc[r] = "idle"
  /\ \/ \E s \in Sites(a) :
          /\ Accepted(s.feed)
          /\ site' = [site EXCEPT ![r] = s]
          /\ pc' = [pc EXCEPT ![r] = "add"]
     \/ /\ \A s \in Sites(a) : ~Accepted(s.feed)
        /\ pc' = [pc EXCEPT ![r] = "done"]
        /\ UNCHANGED site
  /\ UNCHANGED <<blocked, accountVars>>

\* AddAccountIfNotExist: the index on the handle keeps the account there is, with
\* the feed it was made for.
AddAccountIfNotExist(r) ==
  /\ pc[r] = "add"
  /\ feedUrl' = [feedUrl EXCEPT ![site[r].handle] = IF @ = NoLink THEN site[r].feed ELSE @]
  /\ pc' = [pc EXCEPT ![r] = "update"]
  /\ UNCHANGED <<blocked, tooted, site>>

\* updateAccountPosts with the feed that was requested.
UpdateAccountPosts(r) ==
  /\ pc[r] = "update"
  /\ tooted' = [tooted EXCEPT ![site[r].handle] = @ \cup {site[r].feed}]
  /\ pc' = [pc EXCEPT ![r] = "done"]
  /\ UNCHANGED <<blocked, feedUrl, site>>

\* The loop updates an account from its own feed.
UpdateFeed(h) ==
  /\ feedUrl[h] # NoLink
  /\ tooted' = [tooted EXCEPT ![h] = @ \cup {feedUrl[h]}]
  /\ UNCHANGED <<blocked, feedUrl, requestVars>>

\* A fetch, the file of blocked feeds or the database fails: the request ends.
RequestFails(r) ==
  /\ pc[r] # "done"
  /\ pc' = [pc EXCEPT ![r] = "done"]
  /\ UNCHANGED <<blocked, accountVars, site>>

\* A publisher opts out.
Block(f) ==
  /\ blocked' = blocked \cup {f}
  /\ UNCHANGED <<accountVars, requestVars>>

-----------------------------------------------------------------------------
Init ==
  /\ blocked \in SUBSET Feeds
  /\ feedUrl = [h \in Handles |-> NoLink]
  /\ tooted = [h \in Handles |-> {}]
  /\ pc = [r \in Requests |-> "idle"]
  /\ site = [r \in Requests |-> NoSite]

Next ==
  \/ \E r \in Requests, a \in Addresses : GetSiteInfo(r, a)
  \/ \E r \in Requests : AddAccountIfNotExist(r) \/ UpdateAccountPosts(r) \/ RequestFails(r)
  \/ \E h \in Handles : UpdateFeed(h)
  \/ \E f \in Feeds : Block(f)

Spec == Init /\ [][Next]_vars

-----------------------------------------------------------------------------
(* Properties                                                                *)

\* "Every feed has a dedicated account" (www/main-about.tmpl:9): what an account
\* toots is of the feed it was made for, and no other account is made for it.
DedicatedAccount ==
  /\ \A h \in Handles : tooted[h] \subseteq {feedUrl[h]}
  /\ \A g, h \in Handles : feedUrl[g] = feedUrl[h] /\ feedUrl[g] # NoLink => g = h
===============================================================================
