-------------------------- MODULE FeedServiceProofs --------------------------
(***************************************************************************)
(* Lemmas about the operations of FeedService, for every set of URLs and   *)
(* every list of seed feeds: each keeps the slice, the two indices and the *)
(* subscriptions together, and is a step of FeedCatalogue.  WebAppProofs   *)
(* applies them to the handlers.                                           *)
(*                                                                         *)
(* FeedsIndexed is not inductive: that a new feed has an ID of its own     *)
(* depends on every ID in use being below nextID.                          *)
(***************************************************************************)
EXTENDS FeedService, TLAPS

\* The slice and the indices, without the subscriptions.
Indexed ==
  /\ feeds \in Seq(Feeds)
  /\ DOMAIN feedsByURL \subseteq URLs
  /\ \A u \in DOMAIN feedsByURL : feedsByURL[u] \in Feeds
  /\ DOMAIN feedsByID \subseteq IDs
  /\ \A i \in DOMAIN feedsByID : feedsByID[i] \in Feeds
  /\ nextID \in IDs
  /\ \A n \in DOMAIN feeds :
       /\ feeds[n].url \in DOMAIN feedsByURL /\ feedsByURL[feeds[n].url] = feeds[n]
       /\ feeds[n].id \in DOMAIN feedsByID /\ feedsByID[feeds[n].id] = feeds[n]
  /\ \A u \in DOMAIN feedsByURL :
       \E n \in DOMAIN feeds : feeds[n] = feedsByURL[u] /\ feeds[n].url = u
  /\ \A i \in DOMAIN feedsByID :
       \E n \in DOMAIN feeds : feeds[n] = feedsByID[i] /\ feeds[n].id = i
  /\ \A m, n \in DOMAIN feeds :
       feeds[m].url = feeds[n].url \/ feeds[m].id = feeds[n].id => m = n
  /\ \A i \in DOMAIN feedsByID : i < nextID

Subscribed ==
  /\ userFeeds \subseteq IDs \X IDs
  /\ \A p \in userFeeds : p[2] \in DOMAIN feedsByID

FeedInv == Indexed /\ Subscribed

LEMMA FeedInvGives == FeedInv => FeedTypeOK /\ FeedsIndexed
  BY DEF FeedInv, Indexed, Subscribed, FeedTypeOK, FeedsIndexed

LEMMA FeedInitInv == FeedInit => FeedInv
<1> SUFFICES ASSUME FeedInit  PROVE FeedInv
  OBVIOUS
<1> DEFINE N == Len(KnownFeeds)
<1>1. N \in Nat /\ \A n \in 1..N : KnownFeeds[n] \in URLs
  BY KnownFeedsAssumption DEF KnownFeedsAssumption
<1>2. \A n \in 1..N : /\ SeedFeed(n) \in Feeds
                      /\ SeedFeed(n).id = n /\ SeedFeed(n).url = KnownFeeds[n]
  BY <1>1 DEF SeedFeed, Feeds, IDs
<1>3. \A m, n \in 1..N : KnownFeeds[m] = KnownFeeds[n] => m = n
  BY KnownFeedsAssumption DEF KnownFeedsAssumption
<1>4. \A n \in 1..N : (CHOOSE m \in 1..N : KnownFeeds[m] = KnownFeeds[n]) = n
  BY <1>3
<1>5. /\ feeds = [n \in 1..N |-> SeedFeed(n)] /\ feedsByID = feeds
      /\ DOMAIN feedsByURL = {KnownFeeds[n] : n \in 1..N}
      /\ \A n \in 1..N : feedsByURL[KnownFeeds[n]] = SeedFeed(n)
      /\ userFeeds = {} /\ nextID = N + 1
  BY <1>4 DEF FeedInit
<1> HIDE DEF N
<1>6. feeds \in Seq(Feeds) /\ DOMAIN feeds = 1..N
  BY <1>1, <1>2, <1>5
<1>7. /\ DOMAIN feedsByURL \subseteq URLs
      /\ \A u \in DOMAIN feedsByURL : feedsByURL[u] \in Feeds
      /\ DOMAIN feedsByID \subseteq IDs
      /\ \A i \in DOMAIN feedsByID : feedsByID[i] \in Feeds
      /\ nextID \in IDs
      /\ \A i \in DOMAIN feedsByID : i < nextID
  BY <1>1, <1>2, <1>5 DEF IDs
<1>8. /\ \A n \in DOMAIN feeds :
           /\ feeds[n].url \in DOMAIN feedsByURL /\ feedsByURL[feeds[n].url] = feeds[n]
           /\ feeds[n].id \in DOMAIN feedsByID /\ feedsByID[feeds[n].id] = feeds[n]
      /\ \A u \in DOMAIN feedsByURL :
           \E n \in DOMAIN feeds : feeds[n] = feedsByURL[u] /\ feeds[n].url = u
      /\ \A i \in DOMAIN feedsByID :
           \E n \in DOMAIN feeds : feeds[n] = feedsByID[i] /\ feeds[n].id = i
      /\ \A m, n \in DOMAIN feeds :
           feeds[m].url = feeds[n].url \/ feeds[m].id = feeds[n].id => m = n
  BY <1>2, <1>3, <1>5, <1>6
<1>9. QED
  BY <1>5, <1>6, <1>7, <1>8 DEF FeedInv, Indexed, Subscribed

\* A feed that is added under a new URL gets a new ID and a place in both
\* indices, and no other feed changes.
LEMMA AddFeedIndexes ==
  ASSUME Indexed, NEW u \in URLs, u \notin DOMAIN feedsByURL,
         NEW source \in {"known", "manual", "discovered"},
         AddFeed(NewFeed(u, source))
  PROVE  /\ Indexed'
         /\ DOMAIN feedsByID' = DOMAIN feedsByID \cup {nextID}
         /\ \A i \in DOMAIN feedsByID : feedsByID'[i] = feedsByID[i]
         /\ feedsByID'[nextID] = NewFeed(u, source)
<1> DEFINE f == NewFeed(u, source)
<1>1. f \in Feeds /\ f.id = nextID /\ f.url = u /\ nextID \in IDs
  BY DEF Indexed, NewFeed, Feeds, IDs
<1>2. nextID \notin DOMAIN feedsByID
  BY DEF Indexed, IDs
<1>3. /\ feeds' = Append(feeds, f)
      /\ DOMAIN feedsByURL' = DOMAIN feedsByURL \cup {u}
      /\ \A v \in DOMAIN feedsByURL : feedsByURL'[v] = feedsByURL[v]
      /\ feedsByURL'[u] = f
      /\ DOMAIN feedsByID' = DOMAIN feedsByID \cup {nextID}
      /\ \A i \in DOMAIN feedsByID : feedsByID'[i] = feedsByID[i]
      /\ feedsByID'[nextID] = f
      /\ nextID' = nextID + 1
  BY <1>1, <1>2 DEF AddFeed
<1> HIDE DEF f
<1>4. /\ feeds' \in Seq(Feeds)
      /\ DOMAIN feeds' = DOMAIN feeds \cup {Len(feeds) + 1} /\ Len(feeds) + 1 \notin DOMAIN feeds
      /\ \A n \in DOMAIN feeds : feeds'[n] = feeds[n]
      /\ feeds'[Len(feeds) + 1] = f
  <2>1. feeds \in Seq(Feeds)
    BY DEF Indexed
  <2>2. /\ Len(feeds) \in Nat /\ DOMAIN feeds = 1..Len(feeds)
        /\ feeds' \in Seq(Feeds) /\ DOMAIN feeds' = 1..(Len(feeds) + 1)
        /\ \A n \in 1..Len(feeds) : feeds'[n] = feeds[n]
        /\ feeds'[Len(feeds) + 1] = f
    BY <1>1, <1>3, <2>1
  <2>3. QED  BY <2>2
<1>5. /\ DOMAIN feedsByURL' \subseteq URLs
      /\ \A v \in DOMAIN feedsByURL' : feedsByURL'[v] \in Feeds
      /\ DOMAIN feedsByID' \subseteq IDs
      /\ \A i \in DOMAIN feedsByID' : feedsByID'[i] \in Feeds
      /\ nextID' \in IDs
      /\ \A i \in DOMAIN feedsByID' : i < nextID'
  BY <1>1, <1>3 DEF Indexed, IDs
<1>6. \A n \in DOMAIN feeds : feeds[n].url # u /\ feeds[n].id # nextID
  BY <1>2, SMTT(30) DEF Indexed
<1>7. ASSUME NEW n \in DOMAIN feeds'
      PROVE  /\ feeds'[n].url \in DOMAIN feedsByURL' /\ feedsByURL'[feeds'[n].url] = feeds'[n]
             /\ feeds'[n].id \in DOMAIN feedsByID' /\ feedsByID'[feeds'[n].id] = feeds'[n]
  <2>1. CASE n \in DOMAIN feeds
    <3>1. /\ feeds[n].url \in DOMAIN feedsByURL /\ feedsByURL[feeds[n].url] = feeds[n]
          /\ feeds[n].id \in DOMAIN feedsByID /\ feedsByID[feeds[n].id] = feeds[n]
          /\ feeds'[n] = feeds[n]
      BY <1>4, <2>1 DEF Indexed
    <3>2. QED  BY <1>3, <3>1
  <2>2. CASE n = Len(feeds) + 1
    BY <1>1, <1>3, <1>4, <2>2
  <2>3. QED  BY <1>4, <2>1, <2>2
<1>8. \A v \in DOMAIN feedsByURL' :
        \E n \in DOMAIN feeds' : feeds'[n] = feedsByURL'[v] /\ feeds'[n].url = v
  BY <1>1, <1>3, <1>4 DEF Indexed
<1>9. ASSUME NEW i \in DOMAIN feedsByID'
      PROVE  \E n \in DOMAIN feeds' : feeds'[n] = feedsByID'[i] /\ feeds'[n].id = i
  <2>1. CASE i \in DOMAIN feedsByID
    <3>1. PICK n \in DOMAIN feeds : feeds[n] = feedsByID[i] /\ feeds[n].id = i
      BY <2>1 DEF Indexed
    <3>2. n \in DOMAIN feeds' /\ feeds'[n] = feedsByID'[i] /\ feeds'[n].id = i
      BY <1>3, <1>4, <2>1, <3>1
    <3>3. QED  BY <3>2
  <2>2. CASE i = nextID
    BY <1>1, <1>3, <1>4, <2>2
  <2>3. QED  BY <1>3, <2>1, <2>2
<1>10. \A m, n \in DOMAIN feeds' :
         feeds'[m].url = feeds'[n].url \/ feeds'[m].id = feeds'[n].id => m = n
  BY <1>1, <1>4, <1>6, SMTT(30) DEF Indexed
<1>11. QED
  BY <1>3, <1>4, <1>5, <1>7, <1>8, <1>9, <1>10 DEF Indexed, f

\* GetOrCreateFeed and the first half of SubscribeToFeed: the feed they return
\* is then indexed under its ID, and no other feed changes.
LEMMA GetOrCreateIndexes ==
  ASSUME Indexed, NEW u \in URLs, NEW source \in {"known", "manual", "discovered"},
         GetOrCreate(u, source)
  PROVE  /\ Indexed'
         /\ DOMAIN feedsByID \subseteq DOMAIN feedsByID'
         /\ \A i \in DOMAIN feedsByID : feedsByID'[i] = feedsByID[i]
         /\ LET f == FeedFor(u, source)
            IN f.id \in IDs /\ f.id \in DOMAIN feedsByID' /\ feedsByID'[f.id] = f /\ f.url = u
<1>1. CASE u \in DOMAIN feedsByURL
  <2>1. UNCHANGED <<feeds, feedsByURL, feedsByID, nextID>>
    BY <1>1 DEF GetOrCreate
  <2>2. Indexed'
    BY <2>1 DEF Indexed
  <2>3. FeedFor(u, source) = feedsByURL[u]
    BY <1>1 DEF FeedFor
  <2>4. QED  BY <1>1, <2>1, <2>2, <2>3, SMTT(30) DEF Indexed
<1>2. CASE u \notin DOMAIN feedsByURL
  <2>1. AddFeed(NewFeed(u, source)) /\ FeedFor(u, source) = NewFeed(u, source)
    BY <1>2 DEF GetOrCreate, FeedFor
  <2>2. NewFeed(u, source).id = nextID /\ NewFeed(u, source).url = u /\ nextID \in IDs
    BY DEF NewFeed, Indexed
  <2>3. QED  BY <1>2, <2>1, <2>2, AddFeedIndexes
<1>3. QED  BY <1>1, <1>2

\* The operations keep the invariant.
LEMMA GetOrCreateFeedKeeps ==
  ASSUME FeedInv, NEW u \in URLs, GetOrCreateFeed(u)
  PROVE  FeedInv'
<1>1. GetOrCreate(u, "discovered") /\ UNCHANGED userFeeds
  BY DEF GetOrCreateFeed
<1>2. QED  BY <1>1, GetOrCreateIndexes DEF FeedInv, Subscribed

LEMMA SubscribeKeeps ==
  ASSUME FeedInv, NEW user \in IDs, NEW u \in URLs, SubscribeToFeed(user, u)
  PROVE  FeedInv'
<1> DEFINE i == FeedFor(u, "manual").id
<1>1. GetOrCreate(u, "manual") /\ userFeeds' = userFeeds \cup {<<user, i>>}
  BY DEF SubscribeToFeed
<1>2. /\ Indexed' /\ DOMAIN feedsByID \subseteq DOMAIN feedsByID'
      /\ i \in IDs /\ i \in DOMAIN feedsByID'
  BY <1>1, GetOrCreateIndexes DEF FeedInv
<1> HIDE DEF i
<1>3. Subscribed'
  BY <1>1, <1>2 DEF FeedInv, Subscribed
<1>4. QED  BY <1>2, <1>3 DEF FeedInv

LEMMA UnsubscribeKeeps ==
  ASSUME FeedInv, NEW user, NEW i, UnsubscribeFromFeed(user, i)
  PROVE  FeedInv'
  BY DEF UnsubscribeFromFeed, FeedInv, Indexed, Subscribed

LEMMA FeedsUnchangedKeeps == FeedInv /\ UNCHANGED feedVars => FeedInv'
  BY DEF FeedInv, Indexed, Subscribed, feedVars

------------------------------------------------------------------------------
(***************************************************************************)
(* The operations are those of the catalogue.  What makes a subscription,  *)
(* which the code keeps by ID, one to a URL for ever is that a feed keeps  *)
(* its ID and its URL; and what makes an unsubscription drop one URL and   *)
(* no other is that two feeds never have the same URL.                     *)
(***************************************************************************)

\* NewFeedService: the seed feeds, known, and nobody follows them.
LEMMA CatalogueStarts == FeedInit => FC!CatalogueInit
<1> SUFFICES ASSUME FeedInit  PROVE FC!CatalogueInit
  OBVIOUS
<1> DEFINE seeds == {KnownFeeds[n] : n \in 1..Len(KnownFeeds)}
<1>1. DOMAIN KnownFeeds = 1..Len(KnownFeeds)
  BY KnownFeedsAssumption DEF KnownFeedsAssumption
<1>2. DOMAIN feedsByURL = seeds /\ \A u \in seeds : feedsByURL[u].source = "known"
  BY DEF FeedInit, SeedFeed
<1>3. Sources = [u \in seeds |-> "known"]
  BY <1>2 DEF Sources
<1>4. Follows = {}
  BY DEF FeedInit, Follows
<1>5. QED  BY <1>1, <1>3, <1>4 DEF FC!CatalogueInit

\* The first to ask for a URL adds it, and no subscription moves.
LEMMA GetOrCreateAdds ==
  ASSUME Indexed, NEW u \in URLs, NEW s \in {"known", "manual", "discovered"}, GetOrCreate(u, s)
  PROVE  /\ FC!Add(u, s) /\ u \in DOMAIN Sources'
         /\ \A i \in DOMAIN feedsByID : feedsByID'[i] = feedsByID[i]
<1>1. CASE u \in DOMAIN feedsByURL
  <2>1. UNCHANGED <<feedsByURL, feedsByID>>
    BY <1>1 DEF GetOrCreate
  <2>2. QED  BY <1>1, <2>1 DEF FC!Add, Sources
<1>2. CASE u \notin DOMAIN feedsByURL
  <2>1. AddFeed(NewFeed(u, s))
    BY <1>2 DEF GetOrCreate
  <2>2. feedsByURL' = [v \in DOMAIN feedsByURL \cup {u} |->
                         IF v = u THEN NewFeed(u, s) ELSE feedsByURL[v]]
    BY <2>1 DEF AddFeed, NewFeed
  <2>3. Sources' = [v \in DOMAIN Sources \cup {u} |-> IF v = u THEN s ELSE Sources[v]]
    BY <2>2 DEF Sources, NewFeed
  <2>4. u \notin DOMAIN Sources
    BY <1>2 DEF Sources
  <2>5. FC!Add(u, s) /\ u \in DOMAIN Sources'
    BY <2>3, <2>4 DEF FC!Add
  <2>6. \A i \in DOMAIN feedsByID : feedsByID'[i] = feedsByID[i]
    BY <1>2, <2>1, AddFeedIndexes
  <2>7. QED  BY <2>5, <2>6
<1>3. QED  BY <1>1, <1>2

\* Two feeds with one URL are one feed.
LEMMA URLNamesFeed ==
  ASSUME Indexed, NEW i \in DOMAIN feedsByID, NEW j \in DOMAIN feedsByID,
         feedsByID[i].url = feedsByID[j].url
  PROVE  i = j
<1>1. PICK m \in DOMAIN feeds : feeds[m] = feedsByID[i] /\ feeds[m].id = i
  BY DEF Indexed
<1>2. PICK n \in DOMAIN feeds : feeds[n] = feedsByID[j] /\ feeds[n].id = j
  BY DEF Indexed
<1>3. \A k, l \in DOMAIN feeds : feeds[k].url = feeds[l].url => k = l
  BY DEF Indexed
<1>4. m = n
  BY <1>1, <1>2, <1>3
<1>5. QED  BY <1>1, <1>2, <1>4

\* GetOrCreateFeed, for a job.
LEMMA JobDiscovers ==
  ASSUME FeedInv, NEW u \in URLs, GetOrCreateFeed(u)
  PROVE  FC!CatalogueNext
<1>1. GetOrCreate(u, "discovered") /\ userFeeds' = userFeeds
  BY DEF GetOrCreateFeed
<1>2. /\ FC!Add(u, "discovered") /\ u \in DOMAIN Sources'
      /\ \A i \in DOMAIN feedsByID : feedsByID'[i] = feedsByID[i]
  BY <1>1, GetOrCreateAdds DEF FeedInv
<1>3. Follows' = Follows
  BY <1>1, <1>2 DEF FeedInv, Subscribed, Follows
<1>4. QED  BY <1>2, <1>3 DEF FC!CatalogueNext, FC!Discover

\* SubscribeToFeed: the user follows this URL too, and that is all.
LEMMA SubscriberFollows ==
  ASSUME FeedInv, NEW user \in IDs, NEW u \in URLs, SubscribeToFeed(user, u)
  PROVE  FC!CatalogueNext
<1> DEFINE f == FeedFor(u, "manual")
<1>1. GetOrCreate(u, "manual") /\ userFeeds' = userFeeds \cup {<<user, f.id>>}
  BY DEF SubscribeToFeed
<1>2. feedsByID'[f.id].url = u
  BY <1>1, GetOrCreateIndexes DEF FeedInv
<1>3. FC!Add(u, "manual") /\ \A i \in DOMAIN feedsByID : feedsByID'[i] = feedsByID[i]
  BY <1>1, GetOrCreateAdds DEF FeedInv
<1> HIDE DEF f
<1>4. Follows' = {<<p[1], feedsByID'[p[2]].url>> : p \in userFeeds \cup {<<user, f.id>>}}
  BY <1>1 DEF Follows
<1>5. \A p \in userFeeds : feedsByID'[p[2]] = feedsByID[p[2]]
  BY <1>3 DEF FeedInv, Subscribed
<1>6. Follows' = Follows \cup {<<user, u>>}
  <2> DEFINE q == <<user, f.id>>
             pair(r) == <<r[1], feedsByID'[r[2]].url>>
  <2>1. pair(q) = <<user, u>>
    BY <1>2
  <2>2. \A r \in userFeeds : pair(r) = <<r[1], feedsByID[r[2]].url>>
    BY <1>5
  <2>3. Follows = {pair(r) : r \in userFeeds}
    BY <2>2 DEF Follows
  <2>4. Follows' = {pair(r) : r \in userFeeds \cup {q}}
    BY <1>4
  <2> HIDE DEF q, pair
  <2>5. QED  BY <2>1, <2>3, <2>4
<1>7. FC!Follow(user, u) /\ <<user, u>> \in Follows'
  BY <1>3, <1>6 DEF FC!Follow
<1> DEFINE p == <<user, u>>
<1>8. p[1] = user /\ p[2] = u /\ p \in Follows'
  BY <1>7
<1>9. QED  BY <1>7, <1>8 DEF FC!CatalogueNext

\* UnsubscribeFromFeed: the user follows this URL no longer, if ever, and that
\* is all.
LEMMA UnsubscriberUnfollows ==
  ASSUME FeedInv, NEW user, NEW i, UnsubscribeFromFeed(user, i)
  PROVE  FC!CatalogueNext \/ UNCHANGED FC!catalogueVars
<1>1. userFeeds' = userFeeds \ {<<user, i>>} /\ UNCHANGED <<feedsByURL, feedsByID>>
  BY DEF UnsubscribeFromFeed
<1>2. Sources' = Sources
  BY <1>1 DEF Sources
<1>3. CASE <<user, i>> \notin userFeeds
  <2>1. userFeeds' = userFeeds
    BY <1>1, <1>3
  <2>2. Follows' = Follows
    BY <1>1, <2>1 DEF Follows
  <2>3. QED  BY <1>2, <2>2 DEF FC!catalogueVars
<1>4. CASE <<user, i>> \in userFeeds
  <2> DEFINE u == feedsByID[i].url
             p == <<user, u>>
  <2>1. i \in DOMAIN feedsByID /\ userFeeds \subseteq IDs \X IDs
    BY <1>4 DEF FeedInv, Subscribed
  <2>2. p[1] = user /\ p[2] = u /\ p \in Follows
    BY <1>4 DEF Follows
  <2>3. ASSUME NEW q \in userFeeds, <<q[1], feedsByID[q[2]].url>> = <<user, u>>
        PROVE  q = <<user, i>>
    <3>1. q[1] = user /\ feedsByID[q[2]].url = feedsByID[i].url
      BY <2>3
    <3>2. q[2] \in DOMAIN feedsByID
      BY DEF FeedInv, Subscribed
    <3>3. q[2] = i
      BY <2>1, <3>1, <3>2, URLNamesFeed DEF FeedInv
    <3>4. QED  BY <2>1, <3>1, <3>3
  <2> HIDE DEF u
  <2>4. Follows' = {<<q[1], feedsByID[q[2]].url>> : q \in userFeeds \ {<<user, i>>}}
    BY <1>1 DEF Follows
  <2>5. Follows' = Follows \ {<<user, u>>}
    <3>1. ASSUME NEW z \in Follows'  PROVE z \in Follows \ {<<user, u>>}
      BY <2>3, <2>4, <3>1 DEF Follows
    <3>2. ASSUME NEW z \in Follows, z # <<user, u>>  PROVE z \in Follows'
      BY <2>4, <3>2 DEF Follows, u
    <3>3. QED  BY <3>1, <3>2
  <2>6. FC!Unfollow(user, u)
    BY <1>2, <2>5 DEF FC!Unfollow
  <2>7. QED  BY <2>2, <2>6 DEF FC!CatalogueNext
<1>5. QED  BY <1>3, <1>4

\* What touches no feed touches nothing of the catalogue.
LEMMA CatalogueUntouched == UNCHANGED feedVars => UNCHANGED FC!catalogueVars
  BY DEF feedVars, FC!catalogueVars, Sources, Follows

=============================================================================
