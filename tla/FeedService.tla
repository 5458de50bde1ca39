----------------------------- MODULE FeedService -----------------------------
(***************************************************************************)
(* internal/inmem/feed.go: the feeds, indexed by URL and by ID, and the    *)
(* subscriptions of the users.  Each action is one critical section of     *)
(* s.mu; the handlers that call them are in WebApp.                        *)
(*                                                                         *)
(* A feed is its ID, URL and source: the other fields are set once and     *)
(* nothing modelled reads them.  A *models.Feed is never changed, so the   *)
(* indices hold the feed itself.                                           *)
(***************************************************************************)
EXTENDS Naturals, Sequences

CONSTANTS
  URLs,       \* the feed URLs there can be
  KnownFeeds  \* the seed feeds, in order: five in the code

ASSUME KnownFeedsAssumption ==
  /\ KnownFeeds \in Seq(URLs)
  /\ \A m, n \in 1..Len(KnownFeeds) : KnownFeeds[m] = KnownFeeds[n] => m = n

VARIABLES
  feeds,       \* s.feeds, the slice SearchFeeds goes through
  feedsByURL,
  feedsByID,
  userFeeds,   \* s.userFeeds, as the set of its <<user ID, feed ID>> pairs
  nextID

feedVars == <<feeds, feedsByURL, feedsByID, userFeeds, nextID>>

IDs   == Nat \ {0}
Feeds == [id : IDs, url : URLs, source : {"known", "manual", "discovered"}]

FeedTypeOK ==
  /\ feeds \in Seq(Feeds)
  /\ DOMAIN feedsByURL \subseteq URLs
  /\ \A u \in DOMAIN feedsByURL : feedsByURL[u] \in Feeds
  /\ DOMAIN feedsByID \subseteq IDs
  /\ \A i \in DOMAIN feedsByID : feedsByID[i] \in Feeds
  /\ userFeeds \subseteq IDs \X IDs
  /\ nextID \in IDs

\* NewFeedService: the seed feeds, numbered from 1.
SeedFeed(n) == [id |-> n, url |-> KnownFeeds[n], source |-> "known"]

FeedInit ==
  /\ feeds = [n \in 1..Len(KnownFeeds) |-> SeedFeed(n)]
  /\ feedsByID = feeds
  /\ feedsByURL = [u \in {KnownFeeds[n] : n \in 1..Len(KnownFeeds)} |->
                     SeedFeed(CHOOSE n \in 1..Len(KnownFeeds) : KnownFeeds[n] = u)]
  /\ userFeeds = {}
  /\ nextID = Len(KnownFeeds) + 1

------------------------------------------------------------------------------
NewFeed(u, source) == [id |-> nextID, url |-> u, source |-> source]

\* s.feeds = append(...), s.feedsByURL[...] = feed, s.feedsByID[...] = feed
AddFeed(f) ==
  /\ feeds' = Append(feeds, f)
  /\ feedsByURL' = [u \in DOMAIN feedsByURL \cup {f.url} |->
                      IF u = f.url THEN f ELSE feedsByURL[u]]
  /\ feedsByID' = [i \in DOMAIN feedsByID \cup {f.id} |->
                     IF i = f.id THEN f ELSE feedsByID[i]]
  /\ nextID' = nextID + 1

\* The feed GetOrCreateFeed(u, ..., source) returns.
FeedFor(u, source) == IF u \in DOMAIN feedsByURL THEN feedsByURL[u] ELSE NewFeed(u, source)

\* A wrong variant of GetOrCreate: an existing feed takes the new source.
GetOrUpdate(u, source) ==
  IF u \in DOMAIN feedsByURL
  THEN LET f == [feedsByURL[u] EXCEPT !.source = source] IN
         /\ feeds' = [n \in DOMAIN feeds |-> IF feeds[n].url = u THEN f ELSE feeds[n]]
         /\ feedsByURL' = [feedsByURL EXCEPT ![u] = f]
         /\ feedsByID' = [feedsByID EXCEPT ![f.id] = f]
         /\ UNCHANGED nextID
  ELSE AddFeed(NewFeed(u, source))

GetOrCreate(u, source) ==
  IF u \in DOMAIN feedsByURL THEN UNCHANGED <<feeds, feedsByURL, feedsByID, nextID>>
                             ELSE AddFeed(NewFeed(u, source))

GetOrCreateFeed(u) == GetOrCreate(u, "discovered") /\ UNCHANGED userFeeds

------------------------------------------------------------------------------
(* Wrong variants, for the properties to refute; no specification uses them *)

\* The URL is not looked up, so a second subscriber makes a second feed.
SubscribeUnchecked(user, u) ==
  /\ AddFeed(NewFeed(u, "manual"))
  /\ userFeeds' = userFeeds \cup {<<user, nextID>>}

\* The subscription is added where the feed is created.
SubscribeNewOnly(user, u) ==
  /\ GetOrCreate(u, "manual")
  /\ userFeeds' = IF u \in DOMAIN feedsByURL THEN userFeeds
                                            ELSE userFeeds \cup {<<user, nextID>>}

\* The two IDs are swapped.
SubscribeSwapped(user, u) ==
  /\ GetOrCreate(u, "manual")
  /\ userFeeds' = userFeeds \cup {<<FeedFor(u, "manual").id, user>>}

------------------------------------------------------------------------------
\* Gets or creates the feed, and subscribes; it returns FeedFor(u, "manual").
SubscribeToFeed(user, u) ==
  /\ GetOrCreate(u, "manual")
  /\ userFeeds' = userFeeds \cup {<<user, FeedFor(u, "manual").id>>}

UnsubscribeFromFeed(user, i) ==
  /\ userFeeds' = userFeeds \ {<<user, i>>}
  /\ UNCHANGED <<feeds, feedsByURL, feedsByID, nextID>>

\* GetUserFeeds skips a subscription whose feed it does not find.
GetUserFeeds(user) == {i \in DOMAIN feedsByID : <<user, i>> \in userFeeds}

GetFeedByID(i) == i \in DOMAIN feedsByID

IsUserSubscribed(user, i) == <<user, i>> \in userFeeds

------------------------------------------------------------------------------
\* "Index by feed_url for uniqueness" (feed.go:14): the slice and the two
\* indices hold the same feeds, one per URL and one per ID, and every
\* subscription is to one of them, so that GetUserFeeds skips none.
FeedsIndexed ==
  /\ \A n \in DOMAIN feeds : LET f == feeds[n] IN
       /\ f.url \in DOMAIN feedsByURL /\ feedsByURL[f.url] = f
       /\ f.id \in DOMAIN feedsByID /\ feedsByID[f.id] = f
  /\ \A u \in DOMAIN feedsByURL :
       \E n \in DOMAIN feeds : feeds[n] = feedsByURL[u] /\ feeds[n].url = u
  /\ \A i \in DOMAIN feedsByID :
       \E n \in DOMAIN feeds : feeds[n] = feedsByID[i] /\ feeds[n].id = i
  /\ \A m, n \in DOMAIN feeds :
       feeds[m].url = feeds[n].url \/ feeds[m].id = feeds[n].id => m = n
  /\ \A p \in userFeeds : p[2] \in DOMAIN feedsByID

\* As the catalogue of models.FeedService, where IDs and indices do not exist.
Sources == [u \in DOMAIN feedsByURL |-> feedsByURL[u].source]
Follows == {<<p[1], feedsByID[p[2]].url>> : p \in userFeeds}

FC == INSTANCE FeedCatalogue WITH
        Seeds      <- {KnownFeeds[n] : n \in DOMAIN KnownFeeds},
        source     <- Sources,
        subscribed <- Follows

=============================================================================
