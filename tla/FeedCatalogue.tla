---------------------------- MODULE FeedCatalogue ----------------------------
(***************************************************************************)
(* What models.FeedService promises its callers, without IDs, indices or   *)
(* locks: one catalogue of feeds for all users, in which a feed is its     *)
(* URL, and for each user the feeds of it that he or she follows.          *)
(*                                                                         *)
(*   - nothing is ever taken out of the catalogue, and who added a feed    *)
(*     first stays its source, whoever asks for the URL later;             *)
(*   - a step changes one subscription of one user, at most, and always    *)
(*     to a feed of the catalogue: making a feed subscribes nobody, and    *)
(*     no subscription ever moves to another feed or another user.         *)
(***************************************************************************)

CONSTANT Seeds  \* the URLs of the feeds known from the start

VARIABLES
  source,      \* where each feed of the catalogue came from, by URL
  subscribed   \* the <<user, URL>> pairs of the subscriptions

catalogueVars == <<source, subscribed>>

CatalogueInit ==
  /\ source = [u \in Seeds |-> "known"]
  /\ subscribed = {}

\* The first to ask for a URL adds it.
Add(u, s) ==
  source' = IF u \in DOMAIN source THEN source
            ELSE [v \in DOMAIN source \cup {u} |-> IF v = u THEN s ELSE source[v]]

\* GetOrCreateFeed
Discover(u) == Add(u, "discovered") /\ UNCHANGED subscribed

\* SubscribeToFeed
Follow(user, u) ==
  /\ Add(u, "manual")
  /\ subscribed' = subscribed \cup {<<user, u>>}

\* UnsubscribeFromFeed
Unfollow(user, u) ==
  /\ subscribed' = subscribed \ {<<user, u>>}
  /\ UNCHANGED source

\* Any user and any URL; both are read off the step.
CatalogueNext ==
  \/ \E u \in DOMAIN source' : Discover(u)
  \/ \E p \in subscribed' : Follow(p[1], p[2])
  \/ \E p \in subscribed : Unfollow(p[1], p[2])

CatalogueSpec == CatalogueInit /\ [][CatalogueNext]_catalogueVars

=============================================================================
