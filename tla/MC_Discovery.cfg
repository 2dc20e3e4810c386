SPECIFICATION Spec
CONSTANTS
  Requests = {r1, r2}
  Addresses <- MCAddresses
  Feeds = {"posts", "comments", "bare/feed"}
  Pages = {"page", "bare"}
  SiteLink <- MCSiteLink
  FeedLink <- MCFeedLink
  Probed <- MCProbed
  NoLink = NoLink
  Handles <- MCHandles
  HandleOf <- MCHandleOf
  Valid <- MCHandles
  Mastodon = {}
INVARIANT DedicatedAccount
CHECK_DEADLOCK FALSE
