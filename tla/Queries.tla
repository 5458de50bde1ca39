------------------------------- MODULE Queries -------------------------------
(***************************************************************************)
(* What a search is about: NormalizeQuery and IsURLLike                    *)
(* (models/discovery.go), the URL that a job fetches and the feed it reads *)
(* there (discovery/service.go), SearchFeeds (inmem/feed.go) and Suggest   *)
(* (inmem/discovery.go).  DiscoveryService has all of this as parameters:  *)
(* Ids, URLLike, Finds and the outcome of DiscoverFeeds.                   *)
(*                                                                         *)
(* A text is a sequence of tokens, cut so that no token is a part of       *)
(* others put together; "x" is any letter and "X" the same in upper case.  *)
(*                                                                         *)
(* One user has typed one text, in the search box or in the form for a new *)
(* feed, and the site behind it answers something.                         *)
(***************************************************************************)
EXTENDS Selection, FiniteSetsExt

CONSTANTS
  MaxLength,       \* bound: the tokens of a query
  MaxSuggestions,  \* how many feeds Suggest returns: 10 in the code
  Seeds            \* what the feeds are at the start: sequences of feeds

Tokens == {"http:", "https:", "www", ".", "/", " ", "x", "X"}
Texts  == UNION {[1..n -> Tokens] : n \in 0..MaxLength}

Feeds == [url : Seq(Tokens), title : Seq(Tokens), site : Seq(Tokens), description : Seq(Tokens)]

ASSUME QueryAssumption ==
  /\ MaxLength \in Nat
  /\ MaxSuggestions \in Nat
  /\ Seeds \subseteq Seq(Feeds)

HTTP  == <<"http:", "/", "/">>
HTTPS == <<"https:", "/", "/">>
WWW   == <<"www", ".">>

VARIABLES
  query,    \* what the user has typed
  feeds,    \* the feeds of FeedService, in order
  reply,    \* what has become of it: "none" yet, or what was done
  results   \* the feeds that a search has shown

queryVars == <<query, feeds, reply, results>>

------------------------------------------------------------------------------
(* package strings *)

ToLower(t) == [n \in DOMAIN t |-> IF t[n] = "X" THEN "x" ELSE t[n]]

TrimSpace(t) ==
  LET ink == {n \in DOMAIN t : t[n] # " "}
  IN IF ink = {} THEN <<>> ELSE SubSeq(t, Min(ink), Max(ink))

HasPrefix(t, p) == Len(p) <= Len(t) /\ SubSeq(t, 1, Len(p)) = p

HasSuffix(t, p) == Len(p) <= Len(t) /\ SubSeq(t, Len(t) - Len(p) + 1, Len(t)) = p

TrimPrefix(t, p) == IF HasPrefix(t, p) THEN SubSeq(t, Len(p) + 1, Len(t)) ELSE t

TrimSuffix(t, p) == IF HasSuffix(t, p) THEN SubSeq(t, 1, Len(t) - Len(p)) ELSE t

HasText(t, p) == \E n \in 0..(Len(t) - Len(p)) : SubSeq(t, n + 1, n + Len(p)) = p

------------------------------------------------------------------------------
(* Wrong variants, for the properties to refute; no specification uses them *)

\* "www." is removed before the scheme.
NormalizeWWWFirst(t) ==
  TrimSuffix(TrimPrefix(TrimPrefix(TrimPrefix(ToLower(TrimSpace(t)), WWW), HTTP), HTTPS),
             <<"/">>)

\* "/" is removed everywhere.
NormalizeSlashes(t) ==
  LET rest == TrimPrefix(TrimPrefix(TrimPrefix(ToLower(TrimSpace(t)), HTTP), HTTPS), WWW)
  IN Kept(rest, {n \in DOMAIN rest : rest[n] # "/"})

\* The text of the feed is not put in lower case.
MatchesCase(f, t) ==
  \E s \in {f.title, f.url, f.site, f.description} : HasText(s, ToLower(t))

\* The feed's title is what is searched.
MatchesTitle(f, t) == HasText(ToLower(f.title), ToLower(t))

\* The first link is taken, whatever it is.
FirstLink(links) == IF links = <<>> THEN <<>> ELSE links[1].href

------------------------------------------------------------------------------
(* models/discovery.go *)

NormalizeQuery(t) ==
  TrimSuffix(TrimPrefix(TrimPrefix(TrimPrefix(ToLower(TrimSpace(t)), HTTP), HTTPS), WWW),
             <<"/">>)

IsURLLike(t) ==
  LET q == ToLower(TrimSpace(t)) IN
  \/ HasPrefix(q, HTTP) \/ HasPrefix(q, HTTPS)
  \/ HasText(q, <<".">>) /\ ~HasText(q, <<" ">>)

------------------------------------------------------------------------------
(* SearchFeeds, Suggest *)

Matches(f, t) ==
  \E s \in {f.title, f.url, f.site, f.description} : HasText(ToLower(s), ToLower(t))

SearchFeeds(t) ==
  IF t = <<>> THEN <<>> ELSE Kept(feeds, {n \in DOMAIN feeds : Matches(feeds[n], t)})

\* Shorter than two bytes.
Short(t) == Len(t) = 0 \/ (Len(t) = 1 /\ t[1] \in {".", "/", " ", "x", "X"})

Suggest(t) ==
  IF Short(t) THEN <<>>
  ELSE LET found == SearchFeeds(t) IN SubSeq(found, 1, Min({Len(found), MaxSuggestions}))

------------------------------------------------------------------------------
(* DiscoveryJob *)

\* normalizeURL
NormalizeURL(t) ==
  LET q == TrimSpace(t) IN IF HasPrefix(q, HTTP) \/ HasPrefix(q, HTTPS) THEN q ELSE HTTPS \o q

(***************************************************************************)
(* What a fetch brings: an error (of the URL, its address, the connection, *)
(* the status or the reading), or a body with the name of its root         *)
(* element, the feed's title, and its links: of an Atom feed each with its *)
(* rel, of an RSS feed the one <link> of the channel.                      *)
(***************************************************************************)
Site == <<"https:", "/", "/", "x">>
Self == <<"https:", "/", "/", "x", "/", "x">>
Links ==
  {<<>>} \cup
  {<<[rel |-> r, href |-> IF r = "self" THEN Self ELSE Site]>> : r \in {"", "self"}} \cup
  {<<[rel |-> "self", href |-> Self], [rel |-> r, href |-> Site]>> : r \in {"", "alternate"}}
Bodies ==
  [root : {"rss"}, title : {<<>>, <<"X">>}, links : {<<[rel |-> "", href |-> Site]>>}] \cup
  [root : {"feed"}, title : {<<>>, <<"X">>}, links : Links] \cup
  [root : {"html"}, title : {<<"X">>}, links : {<<>>}]

\* parseRSS
ParseRSS(body) ==
  IF body.root = "rss" /\ body.title # <<>>
  THEN <<[title |-> body.title, site |-> body.links[1].href]>> ELSE <<>>

\* The first link that leads to the feed's page.
AlternateLink(links) ==
  LET pages == {n \in DOMAIN links : links[n].rel \in {"alternate", ""}}
  IN IF pages = {} THEN <<>> ELSE links[Min(pages)].href

\* parseAtom
ParseAtom(body) ==
  IF body.root = "feed" /\ body.title # <<>>
  THEN <<[title |-> body.title, site |-> AlternateLink(body.links)]>> ELSE <<>>

\* parseFeed, with the source URL set for all candidates.
ParseFeed(body, url) ==
  LET found == ParseRSS(body) \o ParseAtom(body)
  IN [n \in DOMAIN found |->
        [url |-> url, title |-> found[n].title, site |-> found[n].site, description |-> <<>>]]

KnownURL(u) == \E n \in DOMAIN feeds : feeds[n].url = u

\* GetOrCreateFeed for each candidate.
Persist(found) ==
  feeds' = feeds \o Kept(found, {n \in DOMAIN found : ~KnownURL(found[n].url)})

------------------------------------------------------------------------------
(* handleFeedSearchPost, handleFeedCreatePost *)

QueryInit ==
  /\ query \in Texts
  /\ feeds \in Seeds
  /\ reply = "none"
  /\ results = <<>>

\* SearchKnown has found feeds, or the query is not URL-like.
Discoverable == SearchFeeds(NormalizeQuery(query)) = <<>> /\ IsURLLike(NormalizeQuery(query))

Search ==
  /\ reply = "none" /\ query # <<>>
  /\ ~Discoverable
  /\ reply' = "searched"
  /\ results' = SearchFeeds(NormalizeQuery(query))
  /\ UNCHANGED <<query, feeds>>

\* The job fails to fetch the URL.
DiscoverFails ==
  /\ reply = "none"
  /\ Discoverable
  /\ reply' = "error"
  /\ UNCHANGED <<query, feeds, results>>

Discover(body) ==
  /\ reply = "none"
  /\ Discoverable
  /\ LET found == ParseFeed(body, NormalizeURL(NormalizeQuery(query))) IN
       /\ Persist(found)
       /\ results' = found
       /\ reply' = IF found = <<>> THEN "resolved_none" ELSE "resolved_found"
  /\ UNCHANGED query

\* The text is the URL of a new feed: it is taken as it is, unless blank.
Subscribe ==
  /\ reply = "none"
  /\ TrimSpace(query) # <<>>
  /\ feeds' = IF KnownURL(query) THEN feeds
              ELSE Append(feeds, [url |-> query, title |-> query, site |-> <<>>,
                                  description |-> <<>>])
  /\ reply' = "subscribed"
  /\ UNCHANGED <<query, results>>

\* The text is empty: 400.
Refuse ==
  /\ reply = "none" /\ query = <<>>
  /\ reply' = "refused"
  /\ UNCHANGED <<query, feeds, results>>

Answered == reply # "none" /\ UNCHANGED queryVars

QueryNext ==
  \/ Search \/ DiscoverFails \/ Subscribe \/ Refuse \/ Answered
  \/ \E body \in Bodies : Discover(body)

QuerySpec == QueryInit /\ [][QueryNext]_queryVars

------------------------------------------------------------------------------
(* Properties *)

\* A search for a text at whose URL a job found a feed finds that feed from
\* then on, and is not discovered again - unless the normalised query has
\* kept a space at an end ("x.x /", "www. x.x"), which the URL has not.
FoundIsAnswered ==
  reply = "resolved_found" =>
    LET q == NormalizeQuery(query) IN
    SearchFeeds(q) # <<>> \/ q # TrimSpace(q)

\* Every feed, also one that was entered by hand in whatever case and with
\* spaces around, is found by its own URL, unless nothing remains of that
\* when it is normalised.
KnownByURL ==
  \A n \in DOMAIN feeds :
    LET q == NormalizeQuery(feeds[n].url) IN
    q = <<>> \/ \E m \in DOMAIN SearchFeeds(q) : SearchFeeds(q)[m] = feeds[n]

\* What is suggested while a text is typed is found when it is submitted,
\* although Suggest takes the text as it is and the search normalises it;
\* again, unless nothing remains of the text.
SuggestedIsFound ==
  LET q == NormalizeQuery(query)
      s == Suggest(query)
  IN \A n \in DOMAIN s : q = <<>> \/ \E m \in DOMAIN SearchFeeds(q) : SearchFeeds(q)[m] = s[n]

\* "normalizes a query string for deduplication" (models/discovery.go:77): all
\* spellings of an address - in any case, with or without a scheme, "www."
\* and a "/" at the end - are one query, hence one discovery of a session.
Plain(t) ==
  /\ t = TrimSpace(t) /\ t = ToLower(t)
  /\ ~HasPrefix(t, HTTP) /\ ~HasPrefix(t, HTTPS) /\ ~HasPrefix(t, WWW) /\ ~HasSuffix(t, <<"/">>)

ToUpper(t) == [n \in DOMAIN t |-> IF t[n] = "x" THEN "X" ELSE t[n]]

Spelt(scheme, www, u, slash) == scheme \o www \o u \o slash

Spellings(t) ==
  {Spelt(scheme, www, u, slash) : scheme \in {<<>>, HTTP, HTTPS}, www \in {<<>>, WWW},
                                  u \in {t, ToUpper(t)}, slash \in {<<>>, <<"/">>}}

SpellingsMeet == Plain(query) => \A t \in Spellings(query) : NormalizeQuery(t) = query

\* parseFeed returns at most one candidate, as DiscoveryStore assumes, and its
\* site is never the address of the feed itself that Atom feeds link to.
OneCandidate ==
  reply = "resolved_found" => Len(results) = 1 /\ results[1].site # Self

=============================================================================
