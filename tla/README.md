# TLA+ models of rss-go

rss-go is a web application for following RSS feeds.  Its difficult part is
feed discovery: a search for a site that no known feed matches starts a
background job that fetches the site, while the browser follows the job over
server-sent events.  Around it there are accounts, sessions and subscriptions,
which requests that overlap read and write, and a process that must end in
order.  These modules model all of this, check it with TLC on small instances,
and prove the properties that matter most for all instances with TLAPS.

## The system

| Component | State | Operations | Interacts with |
|---|---|---|---|
| Job queue (`internal/queue`) | channel of 100 jobs, set of in-flight keys under `q.mu`, worker goroutines, `stopOnce` | `Enqueue`, the worker loop, `Stop` | called by the discovery service; workers call `Job.Run` |
| Discovery store (`internal/inmem/discovery.go`, `internal/models/discovery.go`) | discoveries by ID and by (session, query), each with status, results, event counter and a log of 100 events | `CreateOrGetDiscovery`, `GetDiscovery...`, `UpdateDiscovery`, `AppendDiscoveryEvent`, `GetDiscoveryEvents`, `SearchKnown`, `Suggest`, `NextSeq` | called by the service, the search handler and the event stream |
| Discovery service (`internal/discovery/service.go`) | none of its own | `ShouldDiscover`, `StartDiscovery`, `emitEvent`, `DiscoveryJob.Run` | store, queue, feed service, the web |
| Search handlers (`handleFeedSearchPost`, `handleFeedSearch`, `handleFeedSuggest`) | one goroutine per request | known feeds, then `ShouldDiscover`, `StartDiscovery`, reply; the page with the results | store, service |
| Event stream (`handleFeedDiscoveryEvents`) | `fromSeq` of each connection | initial events, then a poll every second for 2 minutes | store, browser |
| Browser page (`ui/static/js/feed-search.js`) | the `EventSource`, the list of results | submit, follow, append results, close | search handler, event stream |
| Feed service and subscriptions (`internal/inmem/feed.go`) | a slice of feeds, indices by ID and URL, subscriptions by user | `GetOrCreateFeed`, `SubscribeToFeed`, `UnsubscribeFromFeed`, `SearchFeeds`, reads | handlers, discovery job |
| Accounts and sessions (`internal/inmem/user.go`, the session manager) | slice of users without a lock; session data by token | `CreateUser`, `Authenticate`, `Exists`; signup, login, logout | handlers, middleware |
| Handlers, middleware, routes (`internal/server`) | one goroutine per request, with its copy of the session | `LoadAndSave`, `authenticate`, `requireAuthentication`, `recoverPanic`, the handlers of feeds | everything |
| Lifecycle (`cmd/web`, `Serve`) | the HTTP server, the deferred calls | signal, `Shutdown` with its limit, `Stop`, return of `main` | server, queue |
| Templates, validation, static files | none | rendering and checks | handlers |
| Feed parsing tool (`test-rss-parsing.go`) | none | fetches some feeds by hand | nothing |

What makes each of them correct, and what is hard about it:

* **Job queue.**  Of one key there is one live job; an accepted job is run
  once; a failed `Enqueue` leaves no mark; `Stop` returns, after every accepted
  job.  Hard: callers, workers and `Stop` share `q.mu` and the channel, and
  `Enqueue` waits for room in the channel *while it holds `q.mu`*.
* **Discovery store.**  One discovery per (session, query); numbers of events
  are never given twice, though the log is trimmed.  Hard: every call is atomic,
  no sequence of calls is.
* **Discovery service.**  A discovery that is pending is somebody's work; it
  gets an outcome; one search starts it; what it found is known afterwards.
  Hard: check, creation, reset, events, `Enqueue` and error path are separate
  calls, interleaved with other tabs of the same session and with the job; the
  outcome is published before the worker has forgotten the key and before the
  feed is stored.
* **Queries.**  The spellings of an address are one query, and what was found
  at it answers it from then on.  Hard: five places transform the same text,
  each in its own way.
* **Event stream and page.**  A page learns of the end of the run it follows,
  lists what was found, and nothing twice.  Hard: the handler reads events and
  status at different moments, connections break and pages are reloaded.
* **Feed service.**  URLs and IDs are unique, a subscription refers to a feed.
  Every operation is one critical section; a handler combines several.
* **Accounts and sessions.**  E-mails and IDs are unique; a session is the
  session of the account that logged in.  Hard: the slice has no lock and a
  signup hashes between its scan and its append; every request works on a copy
  of the session and stores the whole copy at its end.
* **Lifecycle.**  The process ends when told to, and loses no accepted search if
  it need not.  Hard: `Shutdown` gives up after 30 seconds, and handlers may
  then still run when the channel is closed.

## The modules

```
JobPool            what the queue promises
  ^ implements (refinement mapping JP in JobQueue)
JobQueue           internal/queue/inmem.go             <- JobQueueProofs
  | INSTANCE (Q)
DiscoveryService   service.go, handleFeedSearchPost    <- DiscoveryServiceProofs
  |  EXTENDS DiscoveryStore (inmem/discovery.go)
  |
  +-- EventStream  handleFeedSearch, the SSE handler, feed-search.js
  |                                                    <- EventStreamProofs
  +-- Lifecycle    Application.Run, Serve              <- LifecycleProofs

FeedCatalogue      what the feed service promises (models/feed.go)
  ^ implements (refinement mapping FC in FeedService)
FeedService        inmem/feed.go                       <- FeedServiceProofs
UserService        inmem/user.go
  +-- WebApp       the other handlers and the middleware, over both
                                                       <- WebAppProofs

Queries            NormalizeQuery, IsURLLike, SearchFeeds, Suggest,
                   normalizeURL, parseFeed             <- QueriesProofs

Selection          the loop that filters a slice, used by
                   EventStream and Queries             <- SelectionProofs
```

The two halves meet in one set: `known` of `DiscoveryService` is what
`SearchFeeds` answers, and a job that persists a feed there is `JobFinds` in
`WebApp`; `Queries` says which queries a feed answers (`Finds`), and that
`parseFeed` finds at most one candidate.  The `MC...` modules give the constants
their values for TLC.

### JobQueue

A step is a stretch of code whose middle no other goroutine sees.  `Enqueue` is
two steps: `EnqueueMark` (lock, look up, mark, enter the `select`) and one of
`EnqueueSend`, `EnqueueCancel`, `EnqueuePanic`; between them `sending[c]` is the
job, and `MuFree` is false because the caller holds `q.mu`.  The worker's loop is
`Receive`, `RunReturns`, `Forget` (the critical section that deletes the key)
and `Exit`.  `Stop` is `StopClose` and `StopReturn`.  A job is its key, because
the only jobs of this program are determined by theirs.  `EnqueueCancel` may
happen whether or not there is room: `select` picks any ready case.
`InFlight`, `IsInFlight` and `String` only read and are not modelled.

`JobPool` is the contract: per key absent, waiting, running, absent; nothing is
accepted once closing; stopped only when empty.  The mapping calls a key
"running" from the receive to the return of `Run`; marks, the wait in the
`select` and panics are invisible.

### DiscoveryStore

One operator per critical section (or atomic add) of the store.  An element of
`Ids` stands for a (session, normalised query) pair *and* for the random ID
bound to it: the index binds each pair once and nothing is ever deleted.
`results` says whether the discovery has results: `parseFeed` returns at most
one candidate (`OneCandidate` of `Queries`).  `NormalizeQuery` and `IsURLLike`
are parameters here (`Ids`, `URLLike`).

### DiscoveryService

`pc[a]` is where a request (`POST /feeds/search`) or a running job is;
each action is one call of the store or the queue, or one decision.

| Action | Code |
|---|---|
| `SearchKnown`, `SkipDiscovery`, `ShouldDiscover` | `handleFeedSearchPost` up to `StartDiscovery`; `Discoverable` is what `ShouldDiscover` returns |
| `StartNew`, `StartJoins`, `StartAgain`, `ResetDiscovery` | `StartDiscovery` up to its event: new, still pending, or completed and reset; the status is read (service.go:123) in another step than the reset (136) |
| `TakeSeq`, `AppendEvent` | `emitEvent`: `NextSeq`, then `AppendDiscoveryEvent`; `Emission` lists the seven places that emit, with the type and what follows |
| `EnqueueDuplicate`, `EnqueueMark`, `EnqueueSend`, `EnqueueCancel`, `EnqueuePanic` | `s.queue.Enqueue`, a step of `JobQueue` each; a panic ends in `recoverPanic` |
| `StartFails` | the status of the error path |
| `Receive`, `DiscoverFeeds`, `SetError`, `SetNone`, `SetFound`, `GetOrCreateFeed`, `RunReturns` | the worker and `DiscoveryJob.Run` |
| `Forget`, `Exit`, `StopClose`, `StopReturn` | the queue by itself |
| `SubscribeToFeed` | somebody adds the feed by its URL, so that later searches find it |

The fetch, the parsing and the autodiscovery of feeds are one nondeterministic
outcome: an error, no feed, a feed.  `known` is what `SearchFeeds` answers, as a
set of queries: `Seeded` at the start, `Finds[i]` once the feed of `i` exists.
`restarted` is a history variable: the discoveries that were ever reset.

### EventStream

A page is named by the request it made.  `es` and `box` are the page's, `srv`
and `fromSeq` its handler's, `wire` what is written and not received, `listed`
the items of `#results-list`, each with the number of the event that appended
it.  `Follow`, `LoadResults`/`LoadStatus` (a page rendered by the server: two
steps, because the template reads the live discovery after the handler copied
the results), the four `On...` listeners and `OnConnectionError` are the page;
`SendInitial`, `Poll`, `CheckStatus`, `StreamEnds` are the handler, whose poll
reads the events and then the status.  `EndOfStream` is the browser's: when the
handler has returned, the `EventSource` reports an error.  The handler is taken
to get an `http.Flusher` from the session middleware (a library outside this
repository); where it does not, it answers 500 and the page sees
`OnConnectionError`.

### Lifecycle

`phase` is where `Serve` and `Run` are.  `Signal` and `ServeFails` end the
listening; `ShutdownReturns` is `http.Server.Shutdown` with no request active,
`ShutdownTimesOut` its limit of 30 seconds; `RunStops` is the deferred
`jobQueue.Stop` (the service's `StopClose`), `MainReturns` the end of the process
and of every goroutine.  `clean` records which way `Shutdown` returned.  All
other steps are those of `DiscoveryService`, while the process runs; a request
may arrive on a connection accepted earlier until `Shutdown` has closed it.

### FeedService, UserService, WebApp

`FeedService` has the slice, the two indices, `nextID` and the subscriptions as
pairs; one operator per critical section.  A feed is its ID, URL and source.
`FeedCatalogue` is its contract, in which there are no IDs and no indices: a
catalogue of URLs, each with the source that added it first, and the URLs each
user follows.  The mapping reads the URL of a subscription off the feed its ID
leads to.
`UserService` has the slice of accounts; `CreateUser` is in `WebApp`, as the
steps that other signups can come between: `ScanUsers` (the loop over e-mails),
`HashFails` or `NumberUser` (bcrypt, then `len(s.users) + 1`), `ReadUsers` and
`StoreUser` (the two halves of `s.users = append(...)`).

In `WebApp` a request goes through the middleware and one handler:

| Action | Code |
|---|---|
| `Arrive`, `Commit`, `Receive` | `LoadAndSave`: the copy of the session for the cookie's token; the whole copy stored if it changed; the cookie |
| `Authenticated`, `NotAuthenticated` | `authenticate`, `requireAuthentication`, and "/" for a visitor |
| `Refuse`, `DuplicateEmail`, `ScanUsers` ... `StoreUser` | `handleUserSignUpPost`, `CreateUser` |
| `ShowLogin`, `CheckPassword`, `InvalidCredentials`, `StartSession`, `EndSession` | the login page, login and logout with `RenewToken` |
| `Subscribe`, `Unsubscribe`, `GetFeed`, `NoRecord`, `ViewFeed`, `ListFeeds` | the handlers of feeds and the root page; the view reads the feed and the subscription in two calls |
| `JobFinds` | a discovery job's `GetOrCreateFeed` |

A token is named by the request that generated it.  Three things are history:
`data.as`, the credentials a session logged in with; `made`, the subscriptions
asked for; `raced`, that two signups were in `CreateUser` together.  The session
manager (`scs`) is outside this repository: `Arrive`, `Commit`, `Receive` and
`RenewToken` model how the code uses it.

### Queries

A text is a sequence of tokens (`"http:"`, `"www"`, `"."`, `"/"`, a space, a letter
in both cases) and every function on texts is an operator on such sequences,
in the order in which the code trims, lowers and cuts.  `Selection` has the loop
`for ... { if ... { out = append(out, e) } }` with the positions it keeps as a set,
as a recursive function, so that theorems can speak of it.  One user types one
text and searches for it or subscribes to it; the site answers an error, an
RSS or Atom feed with links of every kind, or HTML.

### Wrong variants

Each module has a section of wrong variants: an action with one bug a
programmer might write there (a lock not released, a mark not taken back, a log
not trimmed).  With the variant in place of the action, the property named for
it in `PROJECT.json` is violated; no specification uses one.

## What is checked

Every run is exhaustive for its bounds.

| Run | Instance | Shows |
|---|---|---|
| `queue` | 2 callers, 3 workers, 5 keys, channel of 1 | types; `OneLiveJobPerKey`; `NoLeakedKey`; `OnlyFullQueueStalls`; the queue implements `JobPool`; `StopReturns` with no help from clients; `JobsAreRun` if clients that wait give up |
| `service_safety` | 3 requests, 2 workers, 2 discoveries, channel of 1, log of 4 | types; `FirstRunIsOwned`, `FirstRunIsPending`, `FirstRunInOrder`, `OneStarter`, `SeqsDistinct`, `FoundIsKnown`; of any run, restarts included: `LostOnlyInWindow` |
| `lifecycle` | 3 requests for 3 discoveries, 1 worker, channel of 1, log of 1 | `CleanExitLosesNothing`; `OnlyCutOffStartsAreLost`, however it ends; `SignalEndsProcess` with no help from clients; `SearchesAreAnswered` if clients that hang give up |
| `stream` | 2 requests, one of them a page, 1 worker, 1 discovery, log of 6 | types; `FoundIsListed`; `CompleteIsTrue`; `FirstRunResolves`; `FollowersAreTold` |
| `web` | 4 requests, 2 browsers, 2 e-mails, 3 passwords (one too long for bcrypt), 2 URLs (one a seed feed) | types; `FeedsIndexed`, `AccountsAreUnique`, `SignupIsKept`, `SessionsKeepAccount`, `SubscriptionsAreMade`, `CreatedIsThere`; the feeds implement `FeedCatalogue` |
| `queries` | every text of up to 5 of 8 tokens, no feed or two, 1 suggestion | `FoundIsAnswered`, `KnownByURL`, `SuggestedIsFound`, `SpellingsMeet`, `OneCandidate` |

Why the bounds are enough to be interesting:

* A channel of 1 with 3 workers and 5 keys lets a job wait, jobs be held and one
  be sent at once, with a caller blocked on the full channel and others on
  `q.mu`; that needs more keys than capacity and workers together would let
  through.
* Three requests are the smallest number in which one restarts a discovery while
  two others race, and two discoveries let a job wait while another runs.  A
  first run emits four events, so a log of 4 is trimmed exactly when a restart
  begins; trimming within a first run is covered by the proofs, which are for
  every size of the log.  (In the code the log holds 100 events; it is trimmed
  after some 25 runs.)
* In `lifecycle` the log is 1, because no property of that run looks at it, and
  every request has its own discovery, so that the channel really fills (one
  job running, one waiting, one caller in the `select`) before, during and after
  `Shutdown`.
* In `stream` a log of 6 holds a first run and the error event of a failed
  `Enqueue`, and one discovery is enough, because a page follows one.
  Nobody adds the feed by hand in this run (`service_safety` has that): a page
  that lists it as known could only make `FoundIsListed` easier to keep.
  `FoundIsListed` needs a log of at least 2: with a log of 1 the `done` event
  would push the results out before they are polled.
* In `web` one browser logs in and uses its session in up to three more requests
  at a time: two subscriptions, to one feed or two, and an unsubscription, a
  page or a logout; or two signups of one e-mail, or a signup and a login,
  overlap.  A session is copied by at most three requests, which is what an old
  copy stored last needs.  Subscriptions of two users to one feed do not happen
  in this instance; `FeedsAreCatalogued` is proved for any number of users.
* In `queries` five tokens are `https:` `/` `/` and two more, or `www` `.` and
  three: each prefix with a rest, and a space or a `/` at each end.  Upper case is
  one letter: the scheme and `www` are tokens in lower case only, since `ToLower`
  comes before they are looked at.

`Capacity`, `MaxEvents`, `MaxLength` and the sets of requests, workers,
discoveries, pages, browsers and accounts are the only bounds; nothing else is
cut.  `SYMMETRY` is used only in `service_safety`, over the requests and workers,
which no definition of that instance distinguishes.  Requests are
served once each, so behaviours end, and each specification says where
(`Terminated`, `Exited`, `Answered`); in the queue `EnqueueDuplicate` keeps a
stuttering step.  Deadlock is checked in every run.

### What the documentation says and the code does not do

Each of these runs ends in a counterexample.

* `queue_blocks` / `EnqueueReturns`.  The `select` of `Enqueue` holds `q.mu`.  With
  the channel full and every worker at `q.mu.Lock()` after its job, nobody
  receives and the caller waits until its own client goes away: `Enqueue` neither
  adds the job nor fails, and meanwhile no other job runs either.
* `service_restart_lost` / `PendingIsServed`.  `Run` publishes the final status
  before the worker deletes the key.  A search in between resets the discovery to
  pending, `Enqueue` drops its job as a duplicate and returns nil, and the
  discovery stays pending: every later search is refused because of it.
  `LostOnlyInWindow`, which `service_safety` checks, says that no other way leads
  there.
* `stream_resends` / `ResultsAppendedOnce`.  The initial events do not advance
  `fromSeq`, so the first poll sends them again; the page appends results twice.
* `stream_stale_outcome` / `CompleteIsCurrent`.  A restart keeps the events of the
  previous run, and a new `EventSource` reads from 0: the old done event ends it.
* `stream_cut` / `CompletionIsSent`.  The handler reads events, then the status: a
  run that ends in between ends the stream without its last events, and the page
  shows an error.
* `web_signups` / `EmailsAreUnique`.  `CreateUser` scans, hashes and appends
  without a lock: two signups of one e-mail both pass the scan, and both are
  confirmed.  `AccountsAreUnique` and `SignupIsKept` say that this needs two
  signups in `CreateUser` together.

Smaller divergences, which reading one place of the code settles and no run is
spent on:

* A search that finds its discovery pending is answered without a
  `discovery_id` (server.go:624, service.go:87), where the decision record
  says "Discovery already pending → Return existing id"
  (`decisions/001-rss-feed-search-and-discovery.md:440`); `SkipDiscovery`.
* A completed discovery is run again by the next search (service.go:94), where
  the record says to skip pending *and* completed ones (line 70); `StartAgain`.
* Two searches that restart a discovery together can append their events against
  the order of their numbers, and the error path of one can mark the discovery
  as failed while the job of the other runs.  `FirstRunInOrder` and
  `FirstRunIsPending` say that this needs a restart, `LostOnlyInWindow` that it
  loses no discovery outside the window of `service_restart_lost`.
* A page rendered after a run lists the feed as known and as the discovery's
  result (server.go:567-568): `LoadResults` appends both.
* `handleFeedSearch` copies the results and hands the live discovery to the
  template, which reads its status (server.go:566): a page loaded while the job
  ends can say "Discovery complete" and "No results found", until it is loaded
  again.
* The page closes its `EventSource` at any connection error, and so never
  reconnects, where the record says "Auto-reconnect on disconnect" (line 331);
  the server's `WriteTimeout` of 10 seconds ends every longer stream that way.
* `Stop` does not look at its context, so the limit of 30 seconds that
  `Application.Run` gives it (application.go:73-75) has no effect: it returns when
  the workers have, which the 10 seconds of a fetch bound.
* Of overlapping requests of one session the copy stored last wins
  (server.go:510): a flash message can be lost or shown twice, and a request that
  changes the session while a logout runs stores its older copy, under the old
  token, so that the browser may be logged in again.  `SessionsKeepAccount` says
  that at least the account is never mistaken.
* The login's field checks are made and never consulted (server.go:479-483); an
  empty form is answered as wrong credentials.
* "http://intranet" is not discovered: `IsURLLike` is given the normalised query,
  which has lost its scheme and has no dot (service.go:83), where
  `DISCOVERY-DEBUG-GUIDE.md:93` counts what starts with http:// as URL-like.
* The job fetches the normalised query (service.go:154), lower-cased and without
  its scheme, hence always over https.
* A query that keeps a space at its end when normalised ("x.x /", "www. x.x") is
  not answered by the feed found for it and is discovered again each time; the
  exception in `FoundIsAnswered`.
* `NormalizeQuery` removes one "/" at the end (`TrimSuffix`), where the comment
  above it says "Remove trailing slashes" (models/discovery.go:87); `Spellings`
  has one.

### Fairness

* Runnable goroutines run: weak fairness of the queue's sends, panics, receives
  and exits; `Run` returns because its fetch has a client timeout of 10 seconds.
* A goroutine waiting for `q.mu` gets it: strong fairness of what needs the lock,
  because `sync.Mutex` hands itself to a waiter that it starved for 1ms.
  `DiscoveryService` states it for a request's or a worker's next step as a
  whole (`RequestStep`, `WorkerStep`), of which at most one is enabled.
* Clients: `StopReturns` and `SignalEndsProcess` assume nothing of them.
  `JobsAreRun` (as `ClientsGiveUp`), `SearchesAreAnswered` (as `ClientsGoAway`) and
  the service's own specification assume that a client whose request hangs
  goes away in the end; `queue_blocks` shows why they must.
* `Lifecycle`: the 30 seconds of `Shutdown` pass, and `main` goes on when what it
  waits for has returned.  No signal need come.
* The ticker makes the handler poll, and the browser receives what was written
  (`StreamStep`, `Received`).  Nothing makes a connection break, a page reload,
  a search arrive, or `Stop` be called.

## What is proved

For every set of callers, workers, keys, discoveries, requests, pages, browsers,
accounts and feeds, every capacity, every size of the log, texts of every length
and every number of suggestions, from the modules' assumptions alone: at least
one worker, a capacity and a log of at least 1 (for streams a log of at least 2;
the code has 100), requests are not workers, pages are requests, "no key", "no
token" and "nobody" are none of the real ones, seed feeds have different URLs,
and in `Queries` the feeds at the start are any lists of feeds.  Every safety
property that a passing run checks is the statement of one of these theorems:

| Theorem | Statement |
|---|---|
| `JobQueueProofs!TypeCorrect`, `Deduplication`, `MarksFollowJobs` | `QTypeOK`, `OneLiveJobPerKey`, `NoLeakedKey` are invariants of `QSpec` |
| `JobQueueProofs!StallsOnlyWhenFull` | `OnlyFullQueueStalls` |
| `JobQueueProofs!PoolRefinement` | `QSpec => ImplementsPool` |
| `DiscoveryServiceProofs!ServiceTypes` | `STypeOK` is an invariant of `SSpec` |
| `FirstRunsAreOwned`, `OneStarterOnly`, `FirstRunsArePending` | `FirstRunIsOwned`, `OneStarter`, `FirstRunIsPending` |
| `LostOnlyAsDuplicate` | `SSpec => LostOnlyInWindow`: restarts included, one way only to lose a discovery |
| `NumbersAreDistinct`, `FirstRunsAreInOrder` | `SeqsDistinct`, `FirstRunInOrder` |
| `FoundFeedsAreKept` | `FoundIsKnown` |
| `EventStreamProofs!StreamTypes`, `CompletionIsTrue`, `FoundFeedsAreListed` | `StreamTypeOK`, `CompleteIsTrue`, `FoundIsListed` are invariants of `StreamSpec` |
| `LifecycleProofs!CleanShutdownLosesNothing`, `CutOffStartsOnly` | `CleanExitLosesNothing`, `OnlyCutOffStartsAreLost` are invariants of `LSpec` |
| `WebAppProofs!WebIsTyped`, `FeedsStayIndexed` | `WebTypeOK`, `FeedsIndexed` are invariants of `WebSpec` |
| `AccountsStayUnique`, `ConfirmedSignupsAreKept` | `AccountsAreUnique`, `SignupIsKept` |
| `SessionsStayTrue`, `SubscriptionsStayTrue` | `SessionsKeepAccount`, `SubscriptionsAreMade` |
| `NewSubscriptionsAreThere` | `CreatedIsThere` |
| `FeedsAreCatalogued` | `WebSpec => ImplementsCatalogue` |
| `QueriesProofs!FoundAnswers`, `FeedsAreKnown`, `SuggestionsAreFound` | `FoundIsAnswered`, `KnownByURL`, `SuggestedIsFound` are invariants of `QuerySpec` |
| `CandidatesAreOne` | `OneCandidate` |
| `SpellingsAreOne`, `SpellingsNormalize` | every spelling of a plain address normalises to it, for every address; hence `SpellingsMeet` |
| `SelectionProofs!KeptSelects` | what the loop that filters a slice returns |

**The queue.**  `OneLiveJobPerKey` is not inductive: that a key is not queued while
a worker holds it follows from the mark, so `IndInv` adds that every live job is
marked (`LiveIsMarked`), that a busy worker holds a key, and that a worker exits
only when the closed channel is empty.  The last is what `Drained` of the pool
needs: `Stop` returns when every worker has left, hence with nothing waiting.

`StallsOnlyWhenFull` is what can be proved about blocking without fairness.
Suppose that something is outstanding and nobody in the queue can go on.  After
the close no caller is in the `select` (it would panic), so `q.mu` is free, no
worker has anything left to wait for, and `Stop` returns.  Before it no worker has
left (`ExitedIsDrained`, and there is at least one), so whatever is outstanding
leads to workers that wait for `q.mu`, hence to a caller in the `select`, hence to
a full channel, hence to no worker at the receive: the situation of
`queue_blocks`, and no other.

**The composition.**  `BaseInv` is the queue's `IndInv`, the types and `Links`: a
request is at `sending` exactly when the queue says it is in the `select`, a
worker is inside `Run` exactly when the queue says `running`, whoever carries a
number is at a place that emits.  Every step of the service is then a step of
the queue or leaves it alone (`StepUsesQueue`), so the queue's theorems are used
as they are; likewise every step of a stream or of the process is one of the
service or leaves it alone (the lemmas `StreamsOnlyRead`, `ProcessRunsService`), so
what is proved of the service holds while pages follow it and for the whole life
of the process.  These transfer lemmas hold by the way the modules are composed
and say nothing of the code by themselves.

**First runs.**  `FirstRunIsOwned` fails if `Enqueue` drops the job of a first run
as a duplicate.  Before the close a marked key has a live job (`NoLeakedKey`), so
`FirstRun` adds that no job of the discovery lives while it is being started,
that it has one starter (`CreateOrGetDiscovery` checks and creates under one
lock), that nobody starts what does not exist, and that what is being started or
worked on is pending.  Nothing of this survives a restart, which is exactly what
`service_restart_lost` shows.

**All runs.**  What does survive is that a pending discovery is `Served`: its job
waits or runs, or a request is starting it.  `StepKeepsServed` goes through every
step and finds two that can end this, both of a request that leaves `Enqueue`
without a job: the duplicate and the panic.  The panic needs the close.  For the
duplicate, nobody is in the `select` (it holds `q.mu`), so by `NoLeakedKey` the
marked key waits or is held; if it does not wait and no job of it is in progress,
the worker that holds it has published its outcome.  That is `LostOnlyInWindow`.

**Numbers.**  `SeqsDistinct` is inductive over `BaseInv`, once it speaks of the
numbers taken and not yet appended; `LastEventsOfAppend` says what the trimmed
log is.  The order of a first run's log follows because the emitters of a first
run exclude each other (`OneEmitter`, from `FirstRun` and one live job per key).

**Found feeds.**  `FoundIsKnown` is inductive over `BaseInv` as it stands: `known`
only grows, a worker leaves `persist` only by adding what it found, and all
other steps change neither (`KeepsFound`) or only say of a discovery that it
has not found a feed.

**Streams.**  `FoundIsListed` speaks of the end of a stream; it holds because of
what is true all along.  Three things are added, each kept by every step:

* `RunLog`: in a first run there is no "done" event before the job has emitted its
  last one, and a job that has found a feed has appended "results" and "done"
  next to each other and last.  That the log is in order and has one emitter at
  a time comes from `FirstRunIsOwned` and its company above; that both events are
  still there takes a log of two.
* `Told`: a "done" that a page has been sent is true, and the results before it
  are listed, or on the wire in front of it, or have a number that the handler
  has not read up to yet.
* `GoesOn`: a poll reads the events, then the status, and the service moves in
  between; but it only moves on from what was read: events are appended with
  greater numbers, the run takes no step back, and whether a feed was found is
  decided before the run is completed.

`EventsAfter` says of any log what the loop of `GetDiscoveryEvents` returns of it.

**Queries.**  Searching and normalising are related by parts of texts.  `HasText` is
reflexive and transitive, and `ToLower` keeps it (`PartOfPart`, `LowerPart`);
trimming, lowering and cutting prefixes make a normalised query a part of its
text (`NormalizedIsPart`).  A feed that matches a text therefore matches every
part of it (`MatchesParts`): its own URL, normalised, and the text for which it
was suggested, normalised.  For what a job found, `QueryInv` ties the outcome to
a feed whose URL is `NormalizeURL` of the normalised query, and the query is a
part of that URL.  A spelling is undone prefix by prefix: each is what the code
cuts there, and a plain address has none of them left, so that nothing more is
cut.  `CandidatesAreOne` follows the branches of `parseFeed` for every body the model
has: HTML, an RSS document with its link, an Atom document with up to two links
of every kind.

**Selections.**  What a recursive function computes needs an induction, and the
library's rules for it take an operator, which the provers can not instantiate.
`NatSetInduction` states it for a *set* of numbers (the theorem that every set
of numbers that is not empty has a least one, `LeastOf`, is enough), and that is
how `KeptSelects` goes through the loop: the result is the kept positions, in
their order, one to one.

**The end of the process.**  Neither property follows from `FirstRunIsOwned`, which
says nothing after the close, nor from `NoLeakedKey`, which panics break.  `MarkInv`
says of a first run, in any state of `Stop`, that a mark found while it is being
started is its starter's own, who is in the `select`: there is no mark before the
creation, and one starter.  So its `Enqueue` is never a duplicate, and of the two
exceptions of `StepKeepsServed` only the panic is left: a pending first run is
served, or its starter panicked (`WorkInv`).  When the process exits, `Stop` has
returned, hence every worker has left and the channel is empty (`ExitedIsDrained`):
nothing waits or runs, and what is pending is being started or panicked, which is
`OnlyCutOffStartsAreLost`.  After a clean shutdown no request is active when `Stop`
is called and none arrives later (`Settled`), so nothing is pending.

**Feeds.**  `FeedsIndexed` is inductive once every ID in use is below `nextID`
(`FeedInv`); `FeedServiceProofs` shows it for each operation by itself, and
`WebAppProofs` that handlers and jobs change feeds by these operations only,
with a user ID that is not 0.  That needs the types, and what the place of a
request says (`Places`: behind `requireAuthentication` there is a user).

**The catalogue.**  That `WebApp` implements `FeedCatalogue` is a consequence of
`FeedInv`, and what it adds is about two states: a feed under an ID never gets
another URL (`GetOrCreateAdds`), so a subscription by ID is one to a URL for ever,
and two feeds never have one URL (`URLNamesFeed`), so that taking away a
subscription by ID takes away one URL.  Each operation is then one step of the
catalogue, or none when there was nothing to unsubscribe from.

**Accounts and sessions.**  `AccountInv`, as long as no two signups were in
`CreateUser` together: at most one request is in it, its e-mail is free, and the
number and the slice it has read are still those of `users`, so that its append
adds one account at the place its ID says.  No account changes or moves after
that, so everything that names one (a stored session, a copy of one, a login
past its check, a subscription) goes on naming the same credentials, whichever
copy is stored last.

**Only model-checked.**  The liveness properties: `StopReturns`, `JobsAreRun`,
`FirstRunResolves`, `FollowersAreTold`, `SignalEndsProcess` and `SearchesAreAnswered`.
Fairness and `ENABLED` are out of the prover's reach.  What is proved has their
safety side: nothing the queue accepted is dropped, a first run that is pending
is owned, the queue stands still in one situation only.

## Not modelled, and why

* `InFlight`, `IsInFlight`, `String`, `GetFeedByURL`: they only read, and nothing
  modelled depends on them.
* Fetching, redirects, XML and HTML parsing: one nondeterministic outcome in
  `DiscoveryService`, an answer of the site in `Queries`; their own correctness
  is a matter of parsing, not of states.
* The torn reads a Go data race allows: of a discovery's `Status` and `Results`
  (server.go:566 hands the live object to the template) the fields are read as
  two steps, each value one that was written; of `s.users` the words of the
  slice header are read and written together.
* CSRF tokens and common headers decide before a handler runs whether it does;
  requests that fail there change nothing.  Session expiry after 12 hours would
  be one more way to an unknown token, which `Arrive` has.
* Which fields of a form are valid: a signup is well formed or not.
* `isSafeRedirect`, the health check, static pages, templates, CSS, logging,
  autocomplete and keyboard handling.
* Durations: timeouts and ticks may happen at any moment.
* `test-rss-parsing.go`, a program of its own that is run by hand.

## Plan

All modules of the plan are written.  What would come next:

1. The two halves in one instance: searches and subscriptions of one user in one
   state space, so that `known` is computed from `feeds` instead of stated.
2. A history of events per run, to say of restarted runs what the properties of
   first runs say, once the code tells runs apart.
