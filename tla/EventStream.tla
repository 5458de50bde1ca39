----------------------------- MODULE EventStream -----------------------------
(***************************************************************************)
(* How a browser follows a discovery: the search page (feed-search.js),    *)
(* the page the server renders for it (handleFeedSearch) and the handler   *)
(* of its event stream (handleFeedDiscoveryEvents), on top of              *)
(* DiscoveryService, which writes the events.                              *)
(*                                                                         *)
(* A page is named by the request it made.  The handler only reads the     *)
(* store, in separate steps: the events, then the status.  What it has     *)
(* written and the browser has not received yet is on the wire, in order.  *)
(* A handler whose browser is gone reads until it notices and writes to    *)
(* nobody: it is dropped with its connection.                              *)
(***************************************************************************)
EXTENDS DiscoveryService, Selection

CONSTANT Pages  \* the requests whose page stays, and follows the discovery

\* A log of 1 would lose the results of a run when its last event comes.
ASSUME StreamAssumption == Pages \subseteq Requests /\ MaxEvents >= 2

VARIABLES
  es,       \* the page's EventSource: "none", "open", "closed"
  srv,      \* its handler: "off", "initial", "poll", "check", "ended"
  fromSeq,  \* fromSeq of its handler
  wire,     \* events written by the handler and not received
  box,      \* the class of #discovery-status
  listed    \* #results-list: the number of the event that appended an item, 0
            \* for an item the server rendered

streamVars == <<es, srv, fromSeq, wire, box, listed>>

StreamTypeOK ==
  /\ es \in [Pages -> {"none", "open", "closed"}]
  /\ srv \in [Pages -> {"off", "initial", "poll", "check", "ended"}]
  /\ fromSeq \in [Pages -> Nat]
  /\ wire \in [Pages -> Seq(Events)]
  /\ box \in [Pages -> {"none", "loading", "pending"} \cup Terminal]
  /\ listed \in [Pages -> Seq(Nat)]
  /\ \A p \in Pages : srv[p] # "off" <=> es[p] = "open"

StreamInit ==
  /\ SInit
  /\ es = [p \in Pages |-> "none"]
  /\ srv = [p \in Pages |-> "off"]
  /\ fromSeq = [p \in Pages |-> 0]
  /\ wire = [p \in Pages |-> <<>>]
  /\ box = [p \in Pages |-> "none"]
  /\ listed = [p \in Pages |-> <<>>]

\* The discovery a page is about, once it has its ID.
Followed(p) == disc[reply[p]]

\* GetDiscoveryEvents(id, n)
EventsFrom(p, n) ==
  LET log == Followed(p).events IN Kept(log, {k \in DOMAIN log : log[k].seq > n})

------------------------------------------------------------------------------
(***************************************************************************)
(* Wrong variants: bugs this code could plausibly have, each the form of   *)
(* one action below with one thing changed.  They show that the properties *)
(* tell such bugs from the code; no specification uses them.               *)
(***************************************************************************)

\* The handler takes the discovery's last number for what it has sent.
PollSkipsAhead(p) ==
  /\ srv[p] = "poll"
  /\ wire' = [wire EXCEPT ![p] = @ \o EventsFrom(p, fromSeq[p])]
  /\ fromSeq' = [fromSeq EXCEPT ![p] = Followed(p).seq]
  /\ srv' = [srv EXCEPT ![p] = "check"]
  /\ UNCHANGED <<vars, es, box, listed>>

\* The page takes the results for the end of the discovery.
OnResultsComplete(p) ==
  /\ wire[p] # <<>>
  /\ Head(wire[p]).type = "results"
  /\ listed' = [listed EXCEPT ![p] = Append(@, Head(wire[p]).seq)]
  /\ box' = [box EXCEPT ![p] = "resolved_found"]
  /\ es' = [es EXCEPT ![p] = "closed"]
  /\ srv' = [srv EXCEPT ![p] = "off"]
  /\ fromSeq' = [fromSeq EXCEPT ![p] = 0]
  /\ wire' = [wire EXCEPT ![p] = <<>>]
  /\ UNCHANGED vars

\* The page shows the type of the event as the status.
OnDoneRaw(p) ==
  /\ wire[p] # <<>>
  /\ Head(wire[p]).type = "done"
  /\ box' = [box EXCEPT ![p] = "done"]
  /\ wire' = [wire EXCEPT ![p] = Tail(@)]
  /\ UNCHANGED <<vars, es, srv, fromSeq, listed>>

------------------------------------------------------------------------------
(* The page *)

\* new EventSource(url): the handler starts, without a Last-Event-ID.
Connect(p) ==
  /\ es' = [es EXCEPT ![p] = "open"]
  /\ srv' = [srv EXCEPT ![p] = "initial"]
  /\ fromSeq' = [fromSeq EXCEPT ![p] = 0]
  /\ wire' = [wire EXCEPT ![p] = <<>>]

\* The EventSource is closed (to s) and its handler dropped.
Disconnect(p, s) ==
  /\ es' = [es EXCEPT ![p] = s]
  /\ srv' = [srv EXCEPT ![p] = "off"]
  /\ fromSeq' = [fromSeq EXCEPT ![p] = 0]
  /\ wire' = [wire EXCEPT ![p] = <<>>]

Show(p, s) == box' = [box EXCEPT ![p] = s]

\* submitSearch: the JSON response carries a discovery_id.
Follow(p) ==
  /\ box[p] = "none"
  /\ reply[p] # NoId
  /\ Show(p, "pending")
  /\ Connect(p)
  /\ UNCHANGED <<vars, listed>>

\* The page is loaded at its URL with q and d (the redirect of a search
\* without script, or a reload): handleFeedSearch copies the known results,
\* then those of the discovery.
LoadResults(p) ==
  /\ reply[p] # NoId
  /\ box[p] # "loading"
  /\ Show(p, "loading")
  /\ Disconnect(p, "none")
  /\ listed' = [listed EXCEPT ![p] =
       (IF reply[p] \in known THEN <<0>> ELSE <<>>)
         \o (IF Followed(p).results THEN <<0>> ELSE <<>>)]
  /\ UNCHANGED vars

\* The template renders the status, and init() connects when it is pending.
LoadStatus(p) ==
  /\ box[p] = "loading"
  /\ Show(p, Followed(p).status)
  /\ IF Followed(p).status = "pending" THEN Connect(p)
                                       ELSE UNCHANGED <<es, srv, fromSeq, wire>>
  /\ UNCHANGED <<vars, listed>>

------------------------------------------------------------------------------
(* The handler *)

\* The initial events: fromSeq stays as it is.
SendInitial(p) ==
  /\ srv[p] = "initial"
  /\ wire' = [wire EXCEPT ![p] = EventsFrom(p, fromSeq[p])]
  /\ srv' = [srv EXCEPT ![p] = "poll"]
  /\ UNCHANGED <<vars, es, fromSeq, box, listed>>

\* A tick: the new events are read and written.
Poll(p) ==
  /\ srv[p] = "poll"
  /\ LET new == EventsFrom(p, fromSeq[p]) IN
       /\ wire' = [wire EXCEPT ![p] = @ \o new]
       /\ fromSeq' = [fromSeq EXCEPT ![p] = IF new = <<>> THEN @ ELSE new[Len(new)].seq]
  /\ srv' = [srv EXCEPT ![p] = "check"]
  /\ UNCHANGED <<vars, es, box, listed>>

\* After the write and the keepalive, the status as it is then.
CheckStatus(p) ==
  /\ srv[p] = "check"
  /\ srv' = [srv EXCEPT ![p] = IF Followed(p).status = "pending" THEN "poll" ELSE "ended"]
  /\ UNCHANGED <<vars, es, fromSeq, wire, box, listed>>

\* The 2-minute timeout, or the context: the server's WriteTimeout has made a
\* write fail.
StreamEnds(p) ==
  /\ srv[p] = "poll"
  /\ srv' = [srv EXCEPT ![p] = "ended"]
  /\ UNCHANGED <<vars, es, fromSeq, wire, box, listed>>

------------------------------------------------------------------------------
(* The listeners of the EventSource *)

OnProgress(p) ==
  /\ wire[p] # <<>>
  /\ Head(wire[p]).type = "progress"
  /\ Show(p, "pending")
  /\ wire' = [wire EXCEPT ![p] = Tail(@)]
  /\ UNCHANGED <<vars, es, srv, fromSeq, listed>>

OnResults(p) ==
  /\ wire[p] # <<>>
  /\ Head(wire[p]).type = "results"
  /\ listed' = [listed EXCEPT ![p] = Append(@, Head(wire[p]).seq)]
  /\ wire' = [wire EXCEPT ![p] = Tail(@)]
  /\ UNCHANGED <<vars, es, srv, fromSeq, box>>

\* "done" is shown as resolved_found, whether feeds were found or none.
OnDone(p) ==
  /\ wire[p] # <<>>
  /\ Head(wire[p]).type = "done"
  /\ Show(p, "resolved_found")
  /\ Disconnect(p, "closed")
  /\ UNCHANGED <<vars, listed>>

OnError(p) ==
  /\ wire[p] # <<>>
  /\ Head(wire[p]).type = "error"
  /\ Show(p, "error")
  /\ Disconnect(p, "closed")
  /\ UNCHANGED <<vars, listed>>

\* The "error" listener hears connection errors too (without data): it closes
\* the EventSource, which therefore never reconnects.
OnConnectionError(p) ==
  /\ es[p] = "open"
  /\ Show(p, "error")
  /\ Disconnect(p, "closed")
  /\ UNCHANGED <<vars, listed>>

\* The handler has returned and all that it wrote is received.
EndOfStream(p) ==
  /\ srv[p] = "ended"
  /\ wire[p] = <<>>
  /\ OnConnectionError(p)

------------------------------------------------------------------------------
Received(p) == OnProgress(p) \/ OnResults(p) \/ OnDone(p) \/ OnError(p) \/ EndOfStream(p)

StreamStep(p) == SendInitial(p) \/ Poll(p) \/ CheckStatus(p)

StreamNext ==
  \/ SNext /\ UNCHANGED streamVars
  \/ \E p \in Pages :
       \/ Follow(p) \/ LoadResults(p) \/ LoadStatus(p)
       \/ StreamStep(p) \/ StreamEnds(p)
       \/ Received(p) \/ OnConnectionError(p)

allVars == <<vars, streamVars>>

StreamSpec == StreamInit /\ [][StreamNext]_allVars

(***************************************************************************)
(* Fairness: that of the service, the ticker that makes the handler poll,  *)
(* and a browser that receives what was written.  The handler's timeouts   *)
(* and lost connections may happen or not, and so may reloads.             *)
(***************************************************************************)
StreamFairSpec ==
  /\ StreamSpec
  /\ SFairness
  /\ \A p \in Pages : WF_allVars(StreamStep(p)) /\ WF_allVars(Received(p))

------------------------------------------------------------------------------
(* Properties *)

\* A page whose stream told it that its first run is complete lists what the
\* run has found: no event of a first run is skipped between two polls,
\* although numbers are taken before their events can be read.
FoundIsListed ==
  \A p \in Pages :
    es[p] = "closed" /\ box[p] = "resolved_found" /\ reply[p] \notin restarted
      /\ Followed(p).status = "resolved_found"
    => listed[p] # <<>>

\* A page is told that a first run is complete only when its job has emitted
\* its last event and sets the status, or has set it.
CompleteIsTrue ==
  \A p \in Pages :
    es[p] = "closed" /\ box[p] = "resolved_found" /\ reply[p] \notin restarted
    => \/ Followed(p).status \in {"resolved_found", "resolved_none"}
       \/ \E w \in Workers : wkey[w] = reply[p] /\ pc[w] \in {"setNone", "setFound"}

\* A page that follows a first run does not follow it for ever: the stream
\* ends by the run's outcome, without the timeouts.
FollowersAreTold ==
  \A p \in Pages :
    es[p] = "open" ~> es[p] # "open" \/ reply[p] \in restarted \/ stop # "open"

------------------------------------------------------------------------------
(* What the documentation or the comments say and the code does not do *)

\* "Get new events" (server.go:779): no results event is appended twice.
ResultsAppendedOnce ==
  \A p \in Pages : \A m, n \in DOMAIN listed[p] :
    listed[p][m] = listed[p][n] /\ listed[p][m] # 0 => m = n

\* "reset it for a new run" (service.go:130): the page that follows the new
\* run is not told it is complete while its job waits or fetches.
CompleteIsCurrent ==
  [][\A p \in Pages :
       es[p] = "open" /\ box'[p] = "resolved_found"
         => /\ ~Q!Queued(reply[p])
            /\ \A w \in Workers : wkey[w] = reply[p] => pc[w] \notin {"fetching", "fetch"}]_allVars

\* "Should see progress, results, done" (DISCOVERY-DEBUG-GUIDE.md:188): when a
\* discovery has ended well, its stream ends after the done event.
CompletionIsSent ==
  [][\A p \in Pages :
       /\ srv[p] = "check" /\ srv'[p] = "ended"
       /\ Followed(p).status \in {"resolved_found", "resolved_none"}
       => EventsFrom(p, fromSeq[p]) = <<>>]_allVars

=============================================================================
