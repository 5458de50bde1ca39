-------------------------- MODULE DiscoveryService --------------------------
(***************************************************************************)
(* internal/discovery/service.go, with the handler that drives it          *)
(* (handleFeedSearchPost), the store it keeps discoveries in and the queue *)
(* its jobs run on.                                                        *)
(*                                                                         *)
(* A request is one POST /feeds/search, which runs                         *)
(*     SearchKnown; ShouldDiscover; StartDiscovery; reply                  *)
(* in its own goroutine; a worker of the queue runs DiscoveryJob.Run.      *)
(* Both are sequences of calls of the store, each atomic by itself, so any *)
(* number of requests for one discovery (tabs of one session) interleave   *)
(* with each other and with the job between any two of them.               *)
(***************************************************************************)
EXTENDS DiscoveryStore, FiniteSets

CONSTANTS
  Requests,   \* the POST /feeds/search requests, each served once
  Workers,    \* the queue's workers: 3 in the code
  Capacity,   \* the queue's channel buffer: 100 in the code
  NoId,       \* no discovery
  URLLike,    \* the discoveries whose query IsURLLike accepts
  Seeded,     \* the discoveries whose query matches a seed feed
  Finds,      \* Finds[i]: those whose query matches the feed at i's URL; i is
              \* one of them unless its query keeps a space (Queries)
  Manual,     \* those whose feed someone may subscribe to by its URL meanwhile
  Asks        \* Asks[r]: those that request r may be about

ASSUME ServiceAssumption ==
  /\ Capacity \in Nat \ {0}
  /\ NoId \notin Ids
  /\ Workers # {}
  /\ Requests \cap Workers = {}
  /\ URLLike \subseteq Ids /\ Seeded \subseteq Ids /\ Manual \subseteq Ids
  /\ Finds \in [Ids -> SUBSET Ids]
  /\ Asks \in [Requests -> SUBSET Ids]

VARIABLES
  jobs, inflight, sending, wpc, wkey, stop,   \* the queue (JobQueue)
  known,    \* the discoveries whose query SearchFeeds answers
  pc,       \* where each request and each running job is
  req,      \* the discovery each request is about
  hit,      \* whether its SearchKnown returned something
  held,     \* the number NextSeq gave to an event not yet appended; 0: none
  reply,    \* the discovery_id each request's response carries
  restarted \* history: the discoveries StartDiscovery has reset

queueVars   == <<jobs, inflight, sending, wpc, wkey, stop>>
serviceVars == <<known, pc, req, hit, held, reply, restarted>>
vars        == <<disc, queueVars, serviceVars>>

Q == INSTANCE JobQueue WITH Callers <- Requests, Keys <- Ids, NoKey <- NoId

Actors == Requests \cup Workers

\* The discovery an actor works on.
Subject(a) == IF a \in Requests THEN req[a] ELSE wkey[a]

\* Where an actor emits an event: the type it gives it, and what comes next.
Emission ==
  [starting    |-> [type |-> "progress", next |-> "enqueue"],
   failing     |-> [type |-> "error",    next |-> "setError"],
   fetching    |-> [type |-> "progress", next |-> "fetch"],
   fetchFailed |-> [type |-> "error",    next |-> "setError"],
   noFeeds     |-> [type |-> "done",     next |-> "setNone"],
   found       |-> [type |-> "results",  next |-> "finishing"],
   finishing   |-> [type |-> "done",     next |-> "setFound"]]

RequestPCs ==
  {"idle", "searched", "start", "reset", "starting", "enqueue", "sending",
   "failing", "setError", "replied", "panicked"}
WorkerPCs ==
  {"idle", "fetching", "fetch", "fetchFailed", "setError", "noFeeds", "setNone",
   "found", "finishing", "setFound", "persist", "return"}

ServiceTypeOK ==
  /\ known \subseteq Ids
  /\ pc \in [Actors -> RequestPCs \cup WorkerPCs]
  /\ \A r \in Requests : pc[r] \in RequestPCs
  /\ \A w \in Workers : pc[w] \in WorkerPCs
  /\ req \in [Requests -> Ids \cup {NoId}]
  /\ hit \in [Requests -> BOOLEAN]
  /\ held \in [Actors -> Nat]
  /\ reply \in [Requests -> Ids \cup {NoId}]
  /\ restarted \subseteq Ids

STypeOK == Q!QTypeOK /\ DTypeOK /\ ServiceTypeOK

SInit ==
  /\ Q!QInit
  /\ DInit
  /\ known = Seeded
  /\ pc = [a \in Actors |-> "idle"]
  /\ req = [r \in Requests |-> NoId]
  /\ hit = [r \in Requests |-> FALSE]
  /\ held = [a \in Actors |-> 0]
  /\ reply = [r \in Requests |-> NoId]
  /\ restarted = {}

Goto(a, l) == pc' = [pc EXCEPT ![a] = l]

At(a, l, m) == pc[a] = l /\ Goto(a, m)

------------------------------------------------------------------------------
(***************************************************************************)
(* Wrong variants: bugs this code could plausibly have, each the form of   *)
(* one action below with one thing changed.  They show that the properties *)
(* tell such bugs from the code; no specification uses them.               *)
(***************************************************************************)

\* Events are numbered by their place in the (trimmed) log.
TakeSeqFromLog(a) ==
  /\ pc[a] \in DOMAIN Emission
  /\ held[a] = 0
  /\ LET n == Len(disc[Subject(a)].events) + 1 IN
       /\ disc' = [disc EXCEPT ![Subject(a)].seq = n]
       /\ held' = [held EXCEPT ![a] = n]
  /\ UNCHANGED <<queueVars, known, pc, req, hit, reply, restarted>>

\* A plain send in Enqueue, instead of the select with ctx.Done().
EnqueueWithoutContext(r) ==
  /\ At(r, "sending", "failing")
  /\ FALSE
  /\ UNCHANGED <<disc, queueVars, known, req, hit, held, reply, restarted>>

\* The error path of StartDiscovery leaves the status as it is.
StartFailsPending(r) ==
  /\ At(r, "setError", "replied")
  /\ UNCHANGED <<disc, queueVars, known, req, hit, held, reply, restarted>>

\* The result of Enqueue is tested the wrong way round.
EnqueueSendFails(r) ==
  /\ At(r, "sending", "failing")
  /\ Q!EnqueueSend(r)
  /\ UNCHANGED <<disc, known, req, hit, held, reply, restarted>>

\* Run returns as soon as the fetch fails, without event or status.
DiscoverFeedsOrReturn(w) ==
  /\ \E l \in {"return", "noFeeds", "found"} : At(w, "fetch", l)
  /\ UNCHANGED <<disc, queueVars, known, req, hit, held, reply, restarted>>

\* Run says "done" when there is no feed, and leaves the status as it is.
SetNoneForgotten(w) ==
  /\ At(w, "setNone", "return")
  /\ UNCHANGED <<disc, queueVars, known, req, hit, held, reply, restarted>>

\* Run returns when it has published its outcome.
PersistSkipped(w) ==
  /\ At(w, "persist", "return")
  /\ UNCHANGED <<disc, queueVars, known, req, hit, held, reply, restarted>>

\* The reset is taken for the new run: StartDiscovery returns after it.
ResetOnly(r) ==
  /\ At(r, "reset", "replied")
  /\ UpdateDiscovery(req[r], "pending", FALSE)
  /\ restarted' = restarted \cup {req[r]}
  /\ UNCHANGED <<queueVars, known, req, hit, held, reply>>

------------------------------------------------------------------------------
(* emitEvent: NextSeq, then AppendDiscoveryEvent *)

TakeSeq(a) ==
  /\ pc[a] \in DOMAIN Emission
  /\ held[a] = 0
  /\ NextSeq(Subject(a))
  /\ held' = [held EXCEPT ![a] = disc[Subject(a)].seq + 1]
  /\ UNCHANGED <<queueVars, known, pc, req, hit, reply, restarted>>

AppendEvent(a) ==
  /\ held[a] # 0
  /\ AppendDiscoveryEvent(Subject(a), held[a], Emission[pc[a]].type)
  /\ held' = [held EXCEPT ![a] = 0]
  /\ Goto(a, Emission[pc[a]].next)
  /\ UNCHANGED <<queueVars, known, req, hit, reply, restarted>>

------------------------------------------------------------------------------
(* handleFeedSearchPost *)

\* A request for i arrives; SearchKnown reads the feeds.
SearchKnown(r, i) ==
  /\ i \in Asks[r]
  /\ At(r, "idle", "searched")
  /\ req' = [req EXCEPT ![r] = i]
  /\ hit' = [hit EXCEPT ![r] = i \in known]
  /\ UNCHANGED <<disc, queueVars, known, held, reply, restarted>>

\* What ShouldDiscover returns; a discovery is only read, never created.
Discoverable(r) ==
  /\ ~hit[r]
  /\ req[r] \in URLLike
  /\ disc[req[r]].status # "pending"

\* ShouldDiscover returns false: the response carries no discovery_id.
SkipDiscovery(r) ==
  /\ At(r, "searched", "replied")
  /\ ~Discoverable(r)
  /\ UNCHANGED <<disc, queueVars, known, req, hit, held, reply, restarted>>

ShouldDiscover(r) ==
  /\ At(r, "searched", "start")
  /\ Discoverable(r)
  /\ UNCHANGED <<disc, queueVars, known, req, hit, held, reply, restarted>>

\* StartDiscovery succeeded: the response carries the discovery's ID.
ReplyWithId(r) == reply' = [reply EXCEPT ![r] = req[r]]

------------------------------------------------------------------------------
(* StartDiscovery *)

\* CreateOrGetDiscovery, isNew.
StartNew(r) ==
  /\ At(r, "start", "starting")
  /\ CreateDiscovery(req[r])
  /\ UNCHANGED <<queueVars, known, req, hit, held, reply, restarted>>

\* Not new, and still pending when its status is read: returned as it is.
StartJoins(r) ==
  /\ At(r, "start", "replied")
  /\ disc[req[r]].status = "pending"
  /\ ReplyWithId(r)
  /\ UNCHANGED <<disc, queueVars, known, req, hit, held, restarted>>

\* Not new, and completed when its status is read.
StartAgain(r) ==
  /\ At(r, "start", "reset")
  /\ disc[req[r]].status \in Terminal
  /\ UNCHANGED <<disc, queueVars, known, req, hit, held, reply, restarted>>

ResetDiscovery(r) ==
  /\ At(r, "reset", "starting")
  /\ UpdateDiscovery(req[r], "pending", FALSE)
  /\ restarted' = restarted \cup {req[r]}
  /\ UNCHANGED <<queueVars, known, req, hit, held, reply>>

\* s.queue.Enqueue(ctx, job)
EnqueueDuplicate(r) ==
  /\ At(r, "enqueue", "replied")
  /\ Q!EnqueueDuplicate(r, req[r])
  /\ ReplyWithId(r)
  /\ UNCHANGED <<disc, known, req, hit, held, restarted>>

EnqueueMark(r) ==
  /\ At(r, "enqueue", "sending")
  /\ Q!EnqueueMark(r, req[r])
  /\ UNCHANGED <<disc, known, req, hit, held, reply, restarted>>

EnqueueSend(r) ==
  /\ At(r, "sending", "replied")
  /\ Q!EnqueueSend(r)
  /\ ReplyWithId(r)
  /\ UNCHANGED <<disc, known, req, hit, held, restarted>>

\* r.Context() is done: the client has gone away.
EnqueueCancel(r) ==
  /\ At(r, "sending", "failing")
  /\ Q!EnqueueCancel(r)
  /\ UNCHANGED <<disc, known, req, hit, held, reply, restarted>>

\* recoverPanic answers 500; nothing else of StartDiscovery runs.
EnqueuePanic(r) ==
  /\ At(r, "sending", "panicked")
  /\ Q!EnqueuePanic(r)
  /\ UNCHANGED <<disc, known, req, hit, held, reply, restarted>>

\* The end of the error path: StartDiscovery returns the error.
StartFails(r) ==
  /\ At(r, "setError", "replied")
  /\ UpdateStatus(req[r], "error")
  /\ UNCHANGED <<queueVars, known, req, hit, held, reply, restarted>>

------------------------------------------------------------------------------
(* The worker and DiscoveryJob.Run *)

Receive(w) ==
  /\ At(w, "idle", "fetching")
  /\ Q!Receive(w)
  /\ UNCHANGED <<disc, known, req, hit, held, reply, restarted>>

\* discoverFeeds: an error, no feed, or a feed; the site decides.
DiscoverFeeds(w) ==
  /\ \E l \in {"fetchFailed", "noFeeds", "found"} : At(w, "fetch", l)
  /\ UNCHANGED <<disc, queueVars, known, req, hit, held, reply, restarted>>

SetError(w) ==
  /\ At(w, "setError", "return")
  /\ UpdateStatus(wkey[w], "error")
  /\ UNCHANGED <<queueVars, known, req, hit, held, reply, restarted>>

SetNone(w) ==
  /\ At(w, "setNone", "return")
  /\ UpdateStatus(wkey[w], "resolved_none")
  /\ UNCHANGED <<queueVars, known, req, hit, held, reply, restarted>>

SetFound(w) ==
  /\ At(w, "setFound", "persist")
  /\ UpdateDiscovery(wkey[w], "resolved_found", TRUE)
  /\ UNCHANGED <<queueVars, known, req, hit, held, reply, restarted>>

\* GetOrCreateFeed, which never fails.
GetOrCreateFeed(w) ==
  /\ At(w, "persist", "return")
  /\ known' = known \cup Finds[wkey[w]]
  /\ UNCHANGED <<disc, queueVars, req, hit, held, reply, restarted>>

RunReturns(w) ==
  /\ At(w, "return", "idle")
  /\ Q!RunReturns(w)
  /\ UNCHANGED <<disc, known, req, hit, held, reply, restarted>>

\* Steps of the queue alone.
Forget(w)   == Q!Forget(w)   /\ UNCHANGED <<disc, serviceVars>>
Exit(w)     == Q!Exit(w)     /\ UNCHANGED <<disc, serviceVars>>
StopClose   == Q!StopClose   /\ UNCHANGED <<disc, serviceVars>>
StopReturn  == Q!StopReturn  /\ UNCHANGED <<disc, serviceVars>>

------------------------------------------------------------------------------
\* SubscribeToFeed, called for a form with the feed's URL: it creates the
\* feed, and later searches find it.
SubscribeToFeed(i) ==
  /\ i \in Manual
  /\ known' = known \cup Finds[i]
  /\ UNCHANGED <<disc, queueVars, pc, req, hit, held, reply, restarted>>

------------------------------------------------------------------------------
\* What a request does on its own once it has arrived.
RequestStep(r) ==
  \/ SkipDiscovery(r) \/ ShouldDiscover(r)
  \/ StartNew(r) \/ StartJoins(r) \/ StartAgain(r) \/ ResetDiscovery(r)
  \/ TakeSeq(r) \/ AppendEvent(r)
  \/ EnqueueDuplicate(r) \/ EnqueueMark(r) \/ EnqueueSend(r) \/ EnqueuePanic(r)
  \/ StartFails(r)

WorkerStep(w) ==
  \/ Receive(w) \/ TakeSeq(w) \/ AppendEvent(w)
  \/ DiscoverFeeds(w) \/ SetError(w) \/ SetNone(w) \/ SetFound(w)
  \/ GetOrCreateFeed(w) \/ RunReturns(w) \/ Forget(w) \/ Exit(w)

\* Everything is over: every request is served and Stop has returned.
Terminated ==
  /\ stop = "stopped"
  /\ \A r \in Requests : pc[r] \in {"replied", "panicked"}
  /\ UNCHANGED vars

SNext ==
  \/ \E r \in Requests :
        \/ \E i \in Ids : SearchKnown(r, i)
        \/ RequestStep(r)
        \/ EnqueueCancel(r)
  \/ \E w \in Workers : WorkerStep(w)
  \/ \E i \in Ids : SubscribeToFeed(i)
  \/ StopClose
  \/ StopReturn
  \/ Terminated

SSpec == SInit /\ [][SNext]_vars

(***************************************************************************)
(* Fairness, as in JobQueue: goroutines run, a waiter for q.mu gets it     *)
(* (hence SF), the fetch ends within its 10s timeout, and a client whose   *)
(* request hangs goes away in the end.                                     *)
(***************************************************************************)
SFairness ==
  /\ \A r \in Requests : SF_vars(RequestStep(r)) /\ WF_vars(EnqueueCancel(r))
  /\ \A w \in Workers : SF_vars(WorkerStep(w))
  /\ WF_vars(StopReturn)

SFairSpec == SSpec /\ SFairness

------------------------------------------------------------------------------
(* Properties *)

\* The request is between deciding to run the discovery and the send.
Starting(r, i) ==
  req[r] = i /\ pc[r] \in {"starting", "enqueue", "sending", "failing", "setError"}

\* A worker runs the job of i and has not published its outcome.
InProgress(i) ==
  \E w \in Workers :
    /\ wkey[w] = i
    /\ pc[w] \in {"fetching", "fetch", "fetchFailed", "setError", "noFeeds", "setNone",
                  "found", "finishing", "setFound"}

\* A pending discovery that was never restarted is somebody's work: the one
\* request that created it is still starting it, or its job waits or runs.
\* So no discovery is lost in its first run, whatever the interleaving of
\* the requests that ask for it.  (After a restart this is false: see
\* PendingIsServed.)
FirstRunIsOwned ==
  \A i \in Ids \ restarted :
    disc[i].status = "pending" /\ stop = "open" =>
      Q!Queued(i) \/ InProgress(i) \/ \E r \in Requests : Starting(r, i)

\* Of any number of simultaneous first searches, one starts the discovery:
\* CreateOrGetDiscovery is a check and a creation under one lock.
OneStarter ==
  \A i \in Ids \ restarted : \A r, s \in Requests :
    Starting(r, i) /\ Starting(s, i) => r = s

\* The converse: while its job waits or runs, a discovery that was never
\* restarted is pending, so ShouldDiscover refuses further searches for it
\* ("Check if discovery already exists and is in progress", service.go:79).
\* Two searches that restart a discovery together break this: the error path
\* of one can mark it as failed while the other's job runs.
FirstRunIsPending ==
  \A i \in Ids \ restarted :
    Q!Queued(i) \/ InProgress(i) => disc[i].status = "pending"

\* The log of a discovery that was never restarted is in the order of the
\* event numbers, on which GetDiscoveryEvents(id, fromSeq) relies ("Event
\* sequence number for reconnection", models/discovery.go:42), although
\* emitEvent takes the number and appends in two steps: a first run has one
\* emitter at a time.  Two restarts together can append out of order.
FirstRunInOrder ==
  \A i \in Ids \ restarted : \A m, n \in DOMAIN disc[i].events :
    m < n => disc[i].events[m].seq < disc[i].events[n].seq

\* Event numbers are never given twice, among the events of the log and
\* those that requests and the job are about to append: a browser tells by
\* its Last-Event-ID what it has.
SeqsDistinct ==
  \A i \in Ids :
    LET e == disc[i].events
        mine(a) == held[a] # 0 /\ Subject(a) = i IN
    /\ \A m, n \in DOMAIN e : e[m].seq = e[n].seq => m = n
    /\ \A n \in DOMAIN e : e[n].seq <= disc[i].seq
    /\ \A a \in Actors : mine(a) =>
         /\ held[a] <= disc[i].seq
         /\ \A n \in DOMAIN e : e[n].seq # held[a]
         /\ \A b \in Actors : mine(b) /\ held[a] = held[b] => a = b

\* A discovery that says it has found a feed: later searches find the feed,
\* or the job that found it is just about to persist it.  The status comes
\* first (service.go:260, 267), so a search in between may fetch the site
\* again; the feed is never lost.
FoundIsKnown ==
  \A i \in Ids :
    disc[i].status = "resolved_found" =>
      Finds[i] \subseteq known \/ \E w \in Workers : wkey[w] = i /\ pc[w] = "persist"

\* Nobody will ever serve this pending discovery: no request is starting it
\* and no job of it waits or runs.  Later searches are refused (ShouldDiscover).
Lost(i) ==
  /\ disc[i].status = "pending" /\ stop = "open"
  /\ ~Q!Queued(i) /\ ~InProgress(i)
  /\ \A r \in Requests : ~Starting(r, i)

\* The job of i has published its outcome, and its key is still in q.inflight.
Finishing(i) ==
  \E w \in Workers : wkey[w] = i /\ (pc[w] \in {"persist", "return"} \/ wpc[w] = "finished")

\* First runs and restarts alike, however many at once: a discovery is lost in
\* one way only, by an Enqueue that meets the key of a job which has already
\* published its outcome (service.go:136, inmem.go:134).  No failing Enqueue,
\* no restart that overlaps another one or a running job, and no path through
\* Run loses it.
LostOnlyInWindow ==
  [][\A i \in Ids : Lost(i)' => Lost(i) \/
       /\ \E r \in Requests : req[r] = i /\ pc[r] = "enqueue" /\ pc'[r] = "replied"
       /\ Finishing(i)]_vars

\* A first run ends with a result, none or an error, unless Stop intervenes.
FirstRunResolves ==
  \A i \in Ids :
    disc[i].status = "pending" /\ i \notin restarted
      ~> disc[i].status \in Terminal \/ stop # "open"

------------------------------------------------------------------------------
(* What the documentation or the comments say and the code does not do *)

\* "reset it for a new run" (service.go:130): a pending discovery is run.
PendingIsServed ==
  \A i \in Ids : disc[i].status = "pending"
                   ~> disc[i].status \in Terminal \/ stop # "open"

=============================================================================
