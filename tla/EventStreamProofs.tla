-------------------------- MODULE EventStreamProofs --------------------------
(***************************************************************************)
(* Theorems about EventStream, for every set of pages, requests, workers   *)
(* and discoveries, and for every size of the log from 2.                  *)
(*                                                                         *)
(* FoundIsListed looks at the end of a stream only.  What makes it hold is *)
(* said of the run before that: how its log ends when its job is about to  *)
(* publish the outcome (RunLog), and of everything that a page has, is     *)
(* sent and will be sent (Told): a "done" on the wire comes after results, *)
(* and results that the handler takes for sent are on the wire or listed.  *)
(***************************************************************************)
EXTENDS EventStream, DiscoveryServiceProofs, SelectionProofs

------------------------------------------------------------------------------
(* What a page may rely on: it has the ID of a discovery that exists *)

\* A response carries the ID of the discovery it was about, which exists.
ReplyInv ==
  \A r \in Requests :
    /\ reply[r] # NoId => pc[r] = "replied" /\ reply[r] = req[r] /\ Exists(req[r])
    /\ pc[r] \in {"reset", "starting", "enqueue", "sending", "failing", "setError"}
         => Exists(req[r])

\* Nothing is ever deleted.
LEMMA ExistsForEver ==
  ASSUME BaseInv, [SNext]_vars, NEW i \in Ids, Exists(i)
  PROVE  Exists(i)'
<1> USE DEF Exists
<1>1. disc \in [Ids -> Discoveries]
  BY DEF BaseInv, DTypeOK
<1>2. CASE disc' = disc
  BY <1>2
<1>3. CASE \E a \in Actors : TakeSeq(a) \/ AppendEvent(a)
  BY <1>3, EmitKeepsStatus
<1>4. CASE \E j \in Ids : \/ CreateDiscovery(j)
                          \/ \E s \in Terminal : UpdateStatus(j, s)
                          \/ UpdateDiscovery(j, "pending", FALSE)
                          \/ UpdateDiscovery(j, "resolved_found", TRUE)
  BY <1>1, <1>4 DEF CreateDiscovery, UpdateStatus, UpdateDiscovery, Terminal, Discoveries
<1>5. ASSUME NEW r \in Requests,
             \/ \E j \in Ids : SearchKnown(r, j)
             \/ RequestStep(r) \/ EnqueueCancel(r)
      PROVE  Exists(i)'
  <2>1. CASE StartNew(r) \/ ResetDiscovery(r) \/ StartFails(r)
    <3>1. req[r] \in Ids
      BY <2>1 DEF StartNew, ResetDiscovery, StartFails, At, BaseInv, Links
    <3>2. QED  BY <1>4, <2>1, <3>1 DEF StartNew, ResetDiscovery, StartFails, Terminal
  <2>2. QED
    BY <1>2, <1>3, <1>5, <2>1
    DEF RequestStep, SearchKnown, SkipDiscovery, ShouldDiscover, StartJoins, StartAgain,
        EnqueueDuplicate, EnqueueMark, EnqueueSend, EnqueueCancel, EnqueuePanic, Actors
<1>6. ASSUME NEW w \in Workers, WorkerStep(w)  PROVE Exists(i)'
  <2>1. CASE SetError(w) \/ SetNone(w) \/ SetFound(w)
    <3>1. wkey[w] \in Ids
      BY <2>1, Subjects, ServiceAssumption
      DEF SetError, SetNone, SetFound, At, Subject, Actors, ServiceAssumption
    <3>2. QED  BY <1>4, <2>1, <3>1 DEF SetError, SetNone, SetFound, Terminal
  <2>2. QED
    BY <1>2, <1>3, <1>6, <2>1
    DEF WorkerStep, Receive, DiscoverFeeds, GetOrCreateFeed, RunReturns, Forget, Exit, Actors
<1>7. CASE \/ StopClose \/ StopReturn \/ Terminated \/ UNCHANGED vars
           \/ \E j \in Ids : SubscribeToFeed(j)
  BY <1>2, <1>7 DEF StopClose, StopReturn, Terminated, vars, SubscribeToFeed
<1>8. QED  BY <1>5, <1>6, <1>7 DEF SNext

\* What a step leaves alone of the requests that do not take it.
LEMMA WorkersLeaveReplies ==
  ASSUME BaseInv, NEW w \in Workers, WorkerStep(w)
  PROVE  /\ UNCHANGED <<req, reply>>
         /\ \A r \in Requests : pc'[r] = pc[r]
<1>1. UNCHANGED <<req, reply>>
  BY DEF WorkerStep, Receive, TakeSeq, AppendEvent, DiscoverFeeds, SetError, SetNone, SetFound,
     GetOrCreateFeed, RunReturns, Forget, Exit, serviceVars
<1>2. pc' = pc \/ \E l : Goto(w, l)
  BY DEF WorkerStep, Receive, TakeSeq, AppendEvent, DiscoverFeeds, SetError, SetNone, SetFound,
     GetOrCreateFeed, RunReturns, Forget, Exit, serviceVars, At
<1>3. QED
  BY <1>1, <1>2, ServiceAssumption DEF ServiceAssumption, Goto, BaseInv, ServiceTypeOK, Actors

\* Every step keeps ReplyInv.
LEMMA NextReply == BaseInv /\ ReplyInv /\ [SNext]_vars => ReplyInv'
<1> SUFFICES ASSUME BaseInv, ReplyInv, [SNext]_vars  PROVE ReplyInv'
  OBVIOUS
<1>1. \A i \in Ids : Exists(i) => Exists(i)'
  BY ExistsForEver
<1>2. ASSUME NEW r \in Requests, reply'[r] = reply[r], req'[r] = req[r], pc'[r] = pc[r]
      PROVE  /\ reply'[r] # NoId => pc'[r] = "replied" /\ reply'[r] = req'[r] /\ Exists(req[r])'
             /\ pc'[r] \in {"reset", "starting", "enqueue", "sending", "failing", "setError"}
                  => Exists(req[r])'
  <2>1. req[r] \in Ids \/ (pc[r] = "idle" /\ reply[r] = NoId)
    BY DEF BaseInv, Links, ReplyInv
  <2>2. Exists(req[r])' <=> disc'[req[r]].status # "absent"
    BY <1>2 DEF Exists
  <2>3. QED  BY <1>1, <1>2, <2>1, <2>2 DEF ReplyInv, Exists
<1>3. ASSUME NEW r \in Requests,
             \/ \E i \in Ids : SearchKnown(r, i)
             \/ RequestStep(r) \/ EnqueueCancel(r)
      PROVE  ReplyInv'
  <2>1. \A s \in Requests : s # r => reply'[s] = reply[s] /\ req'[s] = req[s] /\ pc'[s] = pc[s]
    <3>1. /\ pc' = pc \/ \E l : Goto(r, l)
          /\ req' = req \/ \E i : req' = [req EXCEPT ![r] = i]
          /\ reply' = reply \/ \E i : reply' = [reply EXCEPT ![r] = i]
      BY <1>3 DEF RequestStep, SearchKnown, SkipDiscovery, ShouldDiscover, StartNew, StartJoins,
         StartAgain, ResetDiscovery, TakeSeq, AppendEvent, EnqueueDuplicate, EnqueueMark,
         EnqueueSend, EnqueueCancel, EnqueuePanic, StartFails, At, ReplyWithId
    <3>2. QED  BY <3>1 DEF Goto, BaseInv, ServiceTypeOK, Actors
  <2>2. /\ reply'[r] # NoId => pc'[r] = "replied" /\ reply'[r] = req'[r] /\ Exists(req[r])'
        /\ pc'[r] \in {"reset", "starting", "enqueue", "sending", "failing", "setError"}
             => Exists(req[r])'
    <3> USE DEF BaseInv, ServiceTypeOK, Actors, At, Goto
    <3>1. CASE \E i \in Ids : SearchKnown(r, i)
      BY <3>1 DEF SearchKnown, ReplyInv
    <3>2. CASE SkipDiscovery(r) \/ ShouldDiscover(r) \/ EnqueuePanic(r)
      BY <3>2 DEF SkipDiscovery, ShouldDiscover, EnqueuePanic, ReplyInv
    <3>3. CASE StartNew(r)
      <4>1. req'[r] = req[r] /\ req[r] \in Ids /\ reply'[r] = NoId /\ CreateDiscovery(req[r])
        BY <3>3 DEF StartNew, ReplyInv, Links
      <4>2. disc'[req[r]].status = "pending"
        BY <4>1 DEF CreateDiscovery, DTypeOK, Discoveries
      <4>3. QED  BY <4>1, <4>2 DEF Exists
    <3>4. CASE StartJoins(r) \/ StartAgain(r)
      <4>1. req' = req /\ disc' = disc /\ pc[r] = "start" /\ reply[r] = NoId
            /\ disc[req[r]].status \in {"pending"} \cup Terminal
        BY <3>4 DEF StartJoins, StartAgain, ReplyInv
      <4>2. Exists(req[r])'
        BY <4>1 DEF Exists, Terminal
      <4>3. QED  BY <3>4, <4>1, <4>2 DEF StartJoins, StartAgain, ReplyWithId
    <3>5. CASE ResetDiscovery(r) \/ StartFails(r) \/ AppendEvent(r) \/ EnqueueMark(r)
               \/ EnqueueCancel(r) \/ EnqueueDuplicate(r) \/ EnqueueSend(r)
      <4>1. pc[r] \in {"reset", "starting", "enqueue", "sending", "failing", "setError"}
        BY <3>5, Emissions
        DEF ResetDiscovery, StartFails, AppendEvent, EnqueueMark, EnqueueCancel,
            EnqueueDuplicate, EnqueueSend, Links, RequestPCs
      <4>2. req' = req /\ req[r] \in Ids /\ reply[r] = NoId
        BY <3>5, <4>1 DEF ResetDiscovery, StartFails, AppendEvent, EnqueueMark, EnqueueCancel,
           EnqueueDuplicate, EnqueueSend, ReplyInv, Links
      <4>3. Exists(req[r])'
        <5>1. Exists(req[r])
          BY <4>1 DEF ReplyInv
        <5>2. QED  BY <1>1, <4>2, <5>1 DEF Exists
      <4>4. reply' = reply \/ (reply' = [reply EXCEPT ![r] = req[r]] /\ pc'[r] = "replied")
        BY <3>5 DEF ResetDiscovery, StartFails, AppendEvent, EnqueueMark, EnqueueCancel,
           EnqueueDuplicate, EnqueueSend, ReplyWithId
      <4>5. QED  BY <4>2, <4>3, <4>4
    <3>6. CASE TakeSeq(r)
      BY <1>2, <3>6 DEF TakeSeq
    <3>7. QED
      BY <1>3, <3>1, <3>2, <3>3, <3>4, <3>5, <3>6 DEF RequestStep
  <2>3. QED  BY <1>2, <2>1, <2>2 DEF ReplyInv
<1>4. ASSUME NEW w \in Workers, WorkerStep(w)  PROVE ReplyInv'
  BY <1>2, <1>4, WorkersLeaveReplies DEF ReplyInv
<1>5. CASE \/ StopClose \/ StopReturn \/ Terminated \/ UNCHANGED vars
           \/ \E i \in Ids : SubscribeToFeed(i)
  <2>1. UNCHANGED <<reply, req, pc>>
    BY <1>5 DEF StopClose, StopReturn, Terminated, vars, SubscribeToFeed, serviceVars
  <2>2. QED  BY <1>2, <2>1 DEF ReplyInv
<1>6. QED  BY <1>3, <1>4, <1>5 DEF SNext

------------------------------------------------------------------------------
(* How the log of a first run ends *)

\* A worker runs the job of i and is at l.
RunsAt(i, l) == \E w \in Workers : wkey[w] = i /\ pc[w] = l

\* The job of i has emitted its last event, and has set the status or sets it
\* next: what CompleteIsTrue asks for.
Completed(i) ==
  \/ disc[i].status \in {"resolved_found", "resolved_none"}
  \/ RunsAt(i, "setNone") \/ RunsAt(i, "setFound")

\* ... and it has found a feed.
FoundFeed(i) == disc[i].status = "resolved_found" \/ RunsAt(i, "setFound")

\* What the log of i tells of its first run.  A job that has found a feed
\* appends "results" and "done" next to each other, and nothing after them.
RunLog(i) ==
  LET e == disc[i].events IN
  /\ \A n \in DOMAIN e : e[n].type = "done" => n = Len(e) /\ Completed(i)
  /\ RunsAt(i, "finishing") => e # <<>> /\ e[Len(e)].type = "results"
  /\ FoundFeed(i) =>
       Len(e) >= 2 /\ e[Len(e) - 1].type = "results" /\ e[Len(e)].type = "done"

RunLogInv == \A i \in Ids \ restarted : RunLog(i)

\* A step that leaves the log of i alone, and takes its run no step back.
Steady(i) ==
  /\ disc'[i].events = disc[i].events
  /\ Completed(i) => Completed(i)'
  /\ FoundFeed(i)' => FoundFeed(i)
  /\ RunsAt(i, "finishing")' => RunsAt(i, "finishing")

\* A step of a request at a call leaves the workers alone.
LEMMA RequestsLeaveWorkers ==
  ASSUME BaseInv, NEW r \in Requests,
         \/ \E i \in Ids : SearchKnown(r, i)
         \/ RequestStep(r) \/ EnqueueCancel(r)
  PROVE  /\ \A i \in Ids : \A l : RunsAt(i, l)' <=> RunsAt(i, l)
<1>1. wkey' = wkey
  BY DEF RequestStep, SearchKnown, SkipDiscovery, ShouldDiscover, StartNew, StartJoins,
     StartAgain, ResetDiscovery, TakeSeq, AppendEvent, EnqueueDuplicate, EnqueueMark,
     EnqueueSend, EnqueueCancel, EnqueuePanic, StartFails, queueVars, Q!queueVars,
     Q!EnqueueDuplicate, Q!EnqueueMark, Q!EnqueueSend, Q!EnqueueCancel, Q!EnqueuePanic
<1>2. pc' = pc \/ \E l : Goto(r, l)
  BY DEF RequestStep, SearchKnown, SkipDiscovery, ShouldDiscover, StartNew, StartJoins,
     StartAgain, ResetDiscovery, TakeSeq, AppendEvent, EnqueueDuplicate, EnqueueMark,
     EnqueueSend, EnqueueCancel, EnqueuePanic, StartFails, At
<1>3. \A w \in Workers : pc'[w] = pc[w]
  BY <1>2, ServiceAssumption DEF ServiceAssumption, Goto, BaseInv, ServiceTypeOK, Actors
<1>4. QED  BY <1>1, <1>3 DEF RunsAt

\* While a request starts i, i has not been run.
LEMMA StarterIsFirst ==
  ASSUME BaseInv, FirstRunInv, NEW i \in Ids \ restarted,
         ~Exists(i) \/ \E r \in Requests : Starting(r, i)
  PROVE  ~Completed(i) /\ ~FoundFeed(i)
<1>1. FirstRun(i)
  BY DEF FirstRunInv
<1>2. disc[i].status \in {"absent", "pending"} /\ ~Q!Held(i)
  BY <1>1 DEF FirstRun, Exists
<1>3. \A w \in Workers : wkey[w] = i => pc[w] = "idle"
  BY <1>2, ProgressIsHeld
<1>4. QED  BY <1>2, <1>3 DEF Completed, FoundFeed, RunsAt

\* A step of a request is steady, unless it appends an event.
LEMMA RequestSteady ==
  ASSUME BaseInv, FirstRunInv, [SNext]_vars, NEW r \in Requests,
         \/ \E j \in Ids : SearchKnown(r, j)
         \/ RequestStep(r) \/ EnqueueCancel(r),
         ~AppendEvent(r), NEW i \in Ids \ restarted'
  PROVE  Steady(i)
<1>1. i \in Ids \ restarted
  BY RestartedGrows
<1>2. \A l : RunsAt(i, l)' <=> RunsAt(i, l)
  BY <1>1, RequestsLeaveWorkers
<1>3. disc'[i].events = disc[i].events
  <2>1. CASE TakeSeq(r)
    <3>1. \E k, n : disc' = [disc EXCEPT ![k].seq = n]
      BY <2>1 DEF TakeSeq, NextSeq
    <3>2. QED  BY <3>1 DEF BaseInv, DTypeOK, Discoveries
  <2>2. CASE ~TakeSeq(r)
    <3>1. LogUntouched
      BY <2>2, RequestKeepsLogs, EnqueueKeepsLogs DEF RequestStep
    <3>2. QED  BY <3>1 DEF LogUntouched
  <2>3. QED  BY <2>1, <2>2
<1>4. disc'[i].status = "resolved_found" => disc[i].status = "resolved_found"
  BY RequestKeepsFound DEF KeepsFound
<1>5. Completed(i) => disc'[i].status = disc[i].status
  <2>1. CASE disc' = disc
    BY <2>1
  <2>2. CASE TakeSeq(r)
    BY <2>2, EmitKeepsStatus DEF Actors
  <2>3. CASE StartNew(r) \/ StartFails(r) \/ ResetDiscovery(r)
    <3>1. CASE i # req[r]
      <4>1. disc'[i] = disc[i]
        BY <2>3, <3>1 DEF StartNew, CreateDiscovery, StartFails, UpdateStatus,
                          ResetDiscovery, UpdateDiscovery, BaseInv, DTypeOK
      <4>2. QED  BY <4>1
    <3>2. CASE i = req[r]
      <4>1. ~ResetDiscovery(r)
        BY <3>2 DEF ResetDiscovery
      <4>2. ~Exists(i) \/ Starting(r, i)
        BY <2>3, <3>2, <4>1 DEF StartNew, CreateDiscovery, StartFails, At, Starting
      <4>3. QED  BY <1>1, <4>2, StarterIsFirst
    <3>3. QED  BY <3>1, <3>2
  <2>4. QED
    BY <2>1, <2>2, <2>3
    DEF RequestStep, SearchKnown, SkipDiscovery, ShouldDiscover, StartJoins, StartAgain,
        EnqueueDuplicate, EnqueueMark, EnqueueSend, EnqueueCancel, EnqueuePanic
<1>6. QED  BY <1>2, <1>3, <1>4, <1>5 DEF Steady, Completed, FoundFeed

\* A worker that works on i in a first run is the only one.
LEMMA JobOfFirstRun ==
  ASSUME BaseInv, FirstRunInv, NEW i \in Ids \ restarted, NEW w \in Workers, wkey[w] = i,
         pc[w] \in {"fetching", "fetch", "fetchFailed", "setError", "noFeeds", "setNone",
                    "found", "finishing", "setFound"}
  PROVE  /\ disc[i].status = "pending"
         /\ \A v \in Workers : wkey[v] = i /\ pc[v] # "idle" => v = w
<1>1. InProgress(i)
  BY DEF InProgress
<1>2. QED  BY <1>1, ProgressIsHeld DEF FirstRunInv, FirstRun

\* A step of a job is steady, unless it appends an event.
LEMMA WorkerSteady ==
  ASSUME BaseInv, FirstRunInv, NEW w \in Workers, WorkerStep(w), ~AppendEvent(w),
         NEW i \in Ids \ restarted
  PROVE  Steady(i)
<1>1. disc'[i].events = disc[i].events
  <2>1. CASE TakeSeq(w)
    <3>1. \E k, n : disc' = [disc EXCEPT ![k].seq = n]
      BY <2>1 DEF TakeSeq, NextSeq
    <3>2. QED  BY <3>1 DEF BaseInv, DTypeOK, Discoveries
  <2>2. CASE ~TakeSeq(w)
    <3>1. LogUntouched
      BY <2>2, WorkerKeepsLogs DEF WorkerStep
    <3>2. QED  BY <3>1 DEF LogUntouched
  <2>3. QED  BY <2>1, <2>2
<1>2. pc' = pc \/ \E l : Goto(w, l)
  BY DEF WorkerStep, Receive, TakeSeq, AppendEvent, DiscoverFeeds, SetError, SetNone, SetFound,
     GetOrCreateFeed, RunReturns, Forget, Exit, serviceVars, At
<1>3. wkey' = wkey \/ \E k : wkey' = [wkey EXCEPT ![w] = k]
  BY DEF WorkerStep, Receive, TakeSeq, AppendEvent, DiscoverFeeds, SetError, SetNone, SetFound,
     GetOrCreateFeed, RunReturns, Forget, Exit, queueVars,
     Q!Receive, Q!RunReturns, Q!Forget, Q!Exit
<1>4. \A v \in Workers : v # w => pc'[v] = pc[v] /\ wkey'[v] = wkey[v]
  BY <1>2, <1>3 DEF Goto, BaseInv, ServiceTypeOK, Actors, QP!IndInv, QP!QTypeOK
<1>5. \/ pc'[w] \notin {"setNone", "setFound", "finishing"}
      \/ pc' = pc /\ wkey' = wkey
  <2>1. CASE Forget(w) \/ Exit(w)
    <3>1. pc' = pc /\ wpc[w] # "running"
      BY <2>1 DEF Forget, Exit, Q!Forget, Q!Exit, serviceVars
    <3>2. QED  BY <3>1 DEF BaseInv, Links
  <2>2. CASE TakeSeq(w)
    BY <2>2 DEF TakeSeq, queueVars
  <2>3. CASE \/ Receive(w) \/ DiscoverFeeds(w) \/ SetError(w) \/ SetNone(w) \/ SetFound(w)
             \/ GetOrCreateFeed(w) \/ RunReturns(w)
    <3>1. \E l \in {"fetching", "fetchFailed", "noFeeds", "found", "return", "persist", "idle"} :
            pc' = [pc EXCEPT ![w] = l]
      BY <2>3 DEF Receive, DiscoverFeeds, SetError, SetNone, SetFound, GetOrCreateFeed,
                  RunReturns, At, Goto
    <3>2. QED  BY <3>1 DEF BaseInv, ServiceTypeOK, Actors
  <2>4. QED  BY <2>1, <2>2, <2>3 DEF WorkerStep
<1>6. \A l \in {"setNone", "setFound", "finishing"} : RunsAt(i, l)' => RunsAt(i, l)
  BY <1>4, <1>5 DEF RunsAt
<1>7. CASE SetError(w) \/ SetNone(w) \/ SetFound(w)
  <2>1. /\ wkey' = wkey
        /\ pc[w] \in {"setError", "setNone", "setFound"}
        /\ \E s, b : \/ disc' = [disc EXCEPT ![wkey[w]].status = s]
                     \/ disc' = [disc EXCEPT ![wkey[w]].status = s, ![wkey[w]].results = b]
    BY <1>7 DEF SetError, SetNone, SetFound, At, UpdateStatus, UpdateDiscovery, queueVars
  <2>2. CASE wkey[w] # i
    <3>1. disc'[i] = disc[i]
      BY <2>1, <2>2 DEF BaseInv, DTypeOK
    <3>2. \A l : RunsAt(i, l)' <=> RunsAt(i, l)
      BY <1>4, <2>1, <2>2 DEF RunsAt
    <3>3. QED  BY <3>1, <3>2 DEF Steady, Completed, FoundFeed
  <2>3. CASE wkey[w] = i
    <3>1. /\ disc[i].status = "pending"
          /\ \A v \in Workers : wkey[v] = i /\ pc[v] # "idle" => v = w
      BY <2>1, <2>3, JobOfFirstRun
    <3>2. disc \in [Ids -> Discoveries]
      BY DEF BaseInv, DTypeOK
    <3>3. CASE SetError(w)
      <4>1. pc[w] = "setError" /\ disc'[i].status = "error"
        BY <2>3, <3>2, <3>3 DEF SetError, At, UpdateStatus, Discoveries
      <4>2. ~Completed(i)
        BY <3>1, <4>1 DEF Completed, RunsAt
      <4>3. QED  BY <1>1, <1>6, <4>1, <4>2 DEF Steady, FoundFeed
    <3>4. CASE SetNone(w)
      <4>1. disc'[i].status = "resolved_none"
        BY <2>3, <3>2, <3>4 DEF SetNone, At, UpdateStatus, Discoveries
      <4>2. QED  BY <1>1, <1>6, <4>1 DEF Steady, FoundFeed, Completed
    <3>5. CASE SetFound(w)
      <4>1. pc[w] = "setFound" /\ disc'[i].status = "resolved_found"
        BY <2>3, <3>2, <3>5 DEF SetFound, At, UpdateDiscovery, Discoveries
      <4>2. FoundFeed(i)
        BY <2>3, <4>1 DEF FoundFeed, RunsAt
      <4>3. QED  BY <1>1, <1>6, <4>1, <4>2 DEF Steady, Completed
    <3>6. QED  BY <1>7, <3>3, <3>4, <3>5
  <2>4. QED  BY <2>2, <2>3
<1>8. CASE ~(SetError(w) \/ SetNone(w) \/ SetFound(w))
  <2>1. disc'[i].status = disc[i].status
    BY <1>8, EmitKeepsStatus
    DEF WorkerStep, Receive, DiscoverFeeds, GetOrCreateFeed, RunReturns, Forget, Exit, Actors
  <2>2. \/ pc[w] \notin {"setNone", "setFound", "finishing"}
        \/ pc' = pc /\ wkey' = wkey
    <3>1. CASE Forget(w) \/ Exit(w)
      <4>1. wpc[w] # "running"
        BY <3>1 DEF Forget, Exit, Q!Forget, Q!Exit
      <4>2. QED  BY <4>1 DEF BaseInv, Links
    <3>2. CASE TakeSeq(w)
      BY <3>2 DEF TakeSeq, queueVars
    <3>3. CASE Receive(w) \/ DiscoverFeeds(w) \/ GetOrCreateFeed(w) \/ RunReturns(w)
      BY <3>3 DEF Receive, DiscoverFeeds, GetOrCreateFeed, RunReturns, At
    <3>4. QED  BY <1>8, <3>1, <3>2, <3>3 DEF WorkerStep
  <2>3. \A l \in {"setNone", "setFound", "finishing"} : RunsAt(i, l) => RunsAt(i, l)'
    BY <1>4, <2>2 DEF RunsAt
  <2>4. QED  BY <1>1, <1>6, <2>1, <2>3 DEF Steady, Completed, FoundFeed
<1>9. QED  BY <1>7, <1>8

\* Every step of the service but the appending of an event is Steady for a
\* discovery that is in its first run.
LEMMA NextSteady ==
  ASSUME BaseInv, FirstRunInv, [SNext]_vars, ~\E a \in Actors : AppendEvent(a),
         NEW i \in Ids \ restarted'
  PROVE  Steady(i)
<1>1. i \in Ids \ restarted
  BY RestartedGrows
<1>2. CASE \E r \in Requests : \/ \E j \in Ids : SearchKnown(r, j)
                               \/ RequestStep(r) \/ EnqueueCancel(r)
  BY <1>2, RequestSteady DEF Actors
<1>3. CASE \E w \in Workers : WorkerStep(w)
  BY <1>1, <1>3, WorkerSteady DEF Actors
<1>4. CASE \/ StopClose \/ StopReturn \/ Terminated \/ UNCHANGED vars
           \/ \E j \in Ids : SubscribeToFeed(j)
  <2>1. UNCHANGED <<disc, pc, wkey>>
    BY <1>4 DEF StopClose, StopReturn, Terminated, vars, queueVars, serviceVars,
                Q!StopClose, Q!StopReturn, SubscribeToFeed
  <2>2. QED  BY <2>1 DEF Steady, Completed, FoundFeed, RunsAt
<1>5. QED  BY <1>2, <1>3, <1>4 DEF SNext

\* A log of at least two keeps its last event when the next one comes.
LEMMA AppendKeepsTwo ==
  ASSUME NEW s \in Seq(Events), s # <<>>, Len(s) <= MaxEvents, NEW e \in Events
  PROVE  LET t == LastEvents(Append(s, e)) IN Len(t) >= 2 /\ t[Len(t) - 1] = s[Len(s)]
<1> DEFINE a == Append(s, e)
           t == LastEvents(a)
<1>1. /\ Len(s) \in Nat \ {0} /\ MaxEvents \in Nat /\ MaxEvents >= 2
      /\ a \in Seq(Events) /\ Len(a) = Len(s) + 1 /\ a[Len(s)] = s[Len(s)]
  BY StoreAssumption, StreamAssumption DEF StoreAssumption, StreamAssumption
<1>2. t = IF Len(a) > MaxEvents THEN SubSeq(a, Len(a) - MaxEvents + 1, Len(a)) ELSE a
  BY DEF LastEvents
<1> HIDE DEF a, t
<1>3. CASE Len(s) = MaxEvents
  <2>1. t = SubSeq(a, 2, Len(s) + 1)
    BY <1>1, <1>2, <1>3
  <2>2. Len(t) = Len(s) /\ t[Len(s) - 1] = a[Len(s)]
    BY <1>1, <1>3, <2>1
  <2>3. QED  BY <1>1, <1>3, <2>2 DEF t, a
<1>4. CASE Len(s) < MaxEvents
  <2>1. t = a
    BY <1>1, <1>2, <1>4
  <2>2. QED  BY <1>1, <2>1 DEF t, a
<1>5. QED  BY <1>1, <1>3, <1>4

\* What is in a log after an append: the event, last, and older ones.
LEMMA LogAfterAppend ==
  ASSUME NEW s \in Seq(Events), Len(s) <= MaxEvents, NEW e \in Events
  PROVE  LET t == LastEvents(Append(s, e)) IN
           /\ DOMAIN t = 1..Len(t) /\ Len(t) \in Nat \ {0} /\ t[Len(t)] = e /\ t \in Seq(Events)
           /\ \A n \in 1..(Len(t) - 1) : \E m \in DOMAIN s : t[n] = s[m]
<1> DEFINE t == LastEvents(Append(s, e))
<1>1. /\ t \in Seq(Events)
      /\ DOMAIN t = 1..Len(t)
      /\ Len(t) \in Nat \ {0}
      /\ t[Len(t)] = e
      /\ \E k \in {0, 1} :
           /\ Len(t) = Len(s) + 1 - k
           /\ \A n \in 1..(Len(t) - 1) : n + k \in DOMAIN s /\ t[n] = s[n + k]
  BY LastEventsOfAppend, Zenon
<1> HIDE DEF t
<1>2. \A n \in 1..(Len(t) - 1) : \E m \in DOMAIN s : t[n] = s[m]
  BY <1>1
<1>3. QED  BY <1>1, <1>2 DEF t

\* What an emission does to a first run: it was not over, and it is over when
\* the event says so.
LEMMA AppendInFirstRun ==
  ASSUME BaseInv, FirstRunInv, NEW a \in Actors, AppendEvent(a),
         NEW i \in Ids \ restarted, Subject(a) = i
  PROVE  /\ ~Completed(i) /\ ~FoundFeed(i)
         /\ disc'[i].status = "pending"
         /\ \A l \in {"setNone", "setFound", "finishing"} :
              RunsAt(i, l)' => a \in Workers /\ Emission[pc[a]].next = l
         /\ Emission[pc[a]].type = "done" => Completed(i)'
         /\ pc[a] = "finishing" => RunsAt(i, "finishing")
<1>1. /\ pc[a] \in DOMAIN Emission
      /\ pc' = [pc EXCEPT ![a] = Emission[pc[a]].next]
      /\ wkey' = wkey
      /\ pc \in [Actors -> RequestPCs \cup WorkerPCs]
  BY DEF AppendEvent, BaseInv, Links, Goto, queueVars, ServiceTypeOK
<1>2. \A j \in Ids : disc'[j].status = disc[j].status
  BY EmitKeepsStatus
<1>3. CASE a \in Requests
  <2>1. pc[a] \in {"starting", "failing"} /\ req[a] = i
    BY <1>1, <1>3, Emissions DEF BaseInv, ServiceTypeOK, RequestPCs, Subject
  <2>2. Starting(a, i)
    BY <2>1 DEF Starting
  <2>3. ~Completed(i) /\ ~FoundFeed(i) /\ disc[i].status = "pending"
    BY <1>3, <2>2, StarterIsFirst DEF FirstRunInv, FirstRun
  <2>4. \A w \in Workers : pc'[w] = pc[w]
    BY <1>1, <1>3, ServiceAssumption DEF ServiceAssumption
  <2>5. \A w \in Workers : ~(wkey[w] = i /\ pc[w] # "idle")
    BY <1>3, <2>2, ProgressIsHeld DEF FirstRunInv, FirstRun
  <2>6. \A l \in {"setNone", "setFound", "finishing"} : ~RunsAt(i, l)'
    BY <1>1, <2>4, <2>5 DEF RunsAt
  <2>7. Emission[pc[a]].type # "done"
    BY <2>1 DEF Emission
  <2>8. QED  BY <1>2, <2>1, <2>3, <2>6, <2>7
<1>4. CASE a \in Workers
  <2>1. wkey[a] = i
    BY <1>4, ServiceAssumption DEF ServiceAssumption, Subject
  <2>2. pc[a] \in {"fetching", "fetchFailed", "noFeeds", "found", "finishing"}
    BY <1>1, <1>4, Emissions DEF BaseInv, ServiceTypeOK, WorkerPCs
  <2>3. /\ disc[i].status = "pending"
        /\ \A v \in Workers : wkey[v] = i /\ pc[v] # "idle" => v = a
    BY <1>4, <2>1, <2>2, JobOfFirstRun
  <2>4. ~Completed(i) /\ ~FoundFeed(i)
    BY <2>2, <2>3 DEF Completed, FoundFeed, RunsAt
  <2>5. pc'[a] = Emission[pc[a]].next /\ \A v \in Workers : v # a => pc'[v] = pc[v]
    BY <1>1, <1>4 DEF Actors
  <2>6. \A l \in {"setNone", "setFound", "finishing"} :
          RunsAt(i, l)' => Emission[pc[a]].next = l
    BY <1>1, <2>3, <2>5 DEF RunsAt
  <2>7. Emission[pc[a]].type = "done" => Completed(i)'
    <3>1. SUFFICES ASSUME Emission[pc[a]].type = "done"  PROVE Completed(i)'
      OBVIOUS
    <3>2. pc[a] \in {"noFeeds", "finishing"}
      BY <2>2, <3>1 DEF Emission
    <3>3. pc'[a] \in {"setNone", "setFound"}
      BY <2>5, <3>2, Emissions
    <3>4. QED  BY <1>1, <1>4, <2>1, <3>3 DEF Completed, RunsAt
  <2>8. QED  BY <1>2, <1>4, <2>1, <2>3, <2>4, <2>6, <2>7 DEF RunsAt
<1>5. QED  BY <1>3, <1>4 DEF Actors

\* The event appended, as the lemmas about logs want it.
LEMMA AppendedEvent ==
  ASSUME BaseInv, NEW a \in Actors, AppendEvent(a)
  PROVE  LET k == Subject(a)
             e == [seq |-> held[a], type |-> Emission[pc[a]].type] IN
         /\ k \in Ids /\ e \in Events /\ Carries(a, k)
         /\ disc[k].events \in Seq(Events) /\ Len(disc[k].events) <= MaxEvents
         /\ disc'[k].events = LastEvents(Append(disc[k].events, e))
         /\ \A i \in Ids : i # k => disc'[i] = disc[i]
         /\ restarted' = restarted
<1>1. /\ Subject(a) \in Ids /\ held[a] \in Nat \ {0} /\ pc[a] \in DOMAIN Emission
      /\ disc \in [Ids -> Discoveries]
      /\ Len(disc[Subject(a)].events) <= MaxEvents
  BY Subjects, Emissions DEF AppendEvent, BaseInv, DTypeOK, Links, ServiceTypeOK
<1>2. [seq |-> held[a], type |-> Emission[pc[a]].type] \in Events
  BY <1>1, Emissions DEF Events
<1>3. disc[Subject(a)].events \in Seq(Events)
  BY <1>1 DEF Discoveries
<1>4. QED
  BY <1>1, <1>2, <1>3
  DEF AppendEvent, AppendDiscoveryEvent, Discoveries, Carries

\* An emission of another run is steady.
LEMMA AppendElsewhere ==
  ASSUME BaseInv, NEW a \in Actors, AppendEvent(a), NEW i \in Ids, Subject(a) # i
  PROVE  Steady(i)
<1>1. disc'[i] = disc[i]
  BY AppendedEvent
<1>2. wkey' = wkey /\ pc' = [pc EXCEPT ![a] = Emission[pc[a]].next]
  BY DEF AppendEvent, Goto, queueVars
<1>3. \A w \in Workers : wkey[w] = i => w # a
  BY ServiceAssumption DEF ServiceAssumption, Subject
<1>4. \A l : RunsAt(i, l)' <=> RunsAt(i, l)
  BY <1>2, <1>3 DEF RunsAt, BaseInv, ServiceTypeOK, Actors
<1>5. QED  BY <1>1, <1>4 DEF Steady, Completed, FoundFeed

\* A step that is Steady keeps what the log says of the run.
LEMMA SteadyKeepsLog ==
  ASSUME NEW i \in Ids, RunLog(i), Steady(i)  PROVE RunLog(i)'
  BY DEF RunLog, Steady

\* So does a step that appends an event, to any discovery.
LEMMA AppendKeepsLog ==
  ASSUME BaseInv, FirstRunInv, RunLogInv, NEW a \in Actors, AppendEvent(a)
  PROVE  RunLogInv'
<1> DEFINE k == Subject(a)
           e == [seq |-> held[a], type |-> Emission[pc[a]].type]
           s == disc[k].events
           t == LastEvents(Append(s, e))
<1>1. /\ k \in Ids /\ e \in Events /\ e.type = Emission[pc[a]].type
      /\ s \in Seq(Events) /\ Len(s) <= MaxEvents
      /\ disc'[k].events = t
      /\ restarted' = restarted
  BY AppendedEvent
<1> SUFFICES ASSUME NEW i \in Ids \ restarted  PROVE RunLog(i)'
  BY <1>1 DEF RunLogInv
<1>2. RunLog(i)
  BY DEF RunLogInv
<1>3. CASE k # i
  BY <1>2, <1>3, AppendElsewhere, SteadyKeepsLog
<1>4. CASE k = i
  <2> HIDE DEF e, k
  <2>1. /\ DOMAIN t = 1..Len(t) /\ Len(t) \in Nat \ {0} /\ t[Len(t)] = e /\ t \in Seq(Events)
        /\ \A n \in 1..(Len(t) - 1) : \E m \in DOMAIN s : t[n] = s[m]
    <3>1. s \in Seq(Events) /\ Len(s) <= MaxEvents /\ e \in Events
      BY <1>1
    <3> HIDE DEF s
    <3>2. QED  BY <3>1, LogAfterAppend, Zenon
  <2>2. /\ ~Completed(i) /\ ~FoundFeed(i)
        /\ disc'[i].status = "pending"
        /\ \A l \in {"setNone", "setFound", "finishing"} :
             RunsAt(i, l)' => a \in Workers /\ Emission[pc[a]].next = l
        /\ e.type = "done" => Completed(i)'
        /\ pc[a] = "finishing" => RunsAt(i, "finishing")
    BY <1>1, <1>4, AppendInFirstRun DEF k
  <2>3. s # <<>> => Len(t) >= 2 /\ t[Len(t) - 1] = s[Len(s)]
    BY <1>1, AppendKeepsTwo
  <2> HIDE DEF t
  <2>4. pc[a] \in DOMAIN Emission
    BY DEF AppendEvent, BaseInv, Links
  <2>5. ASSUME NEW n \in DOMAIN t, t[n].type = "done"  PROVE n = Len(t) /\ Completed(i)'
    <3>1. CASE n = Len(t)
      BY <2>1, <2>2, <2>5, <3>1
    <3>2. CASE n # Len(t)
      <4>1. n \in 1..(Len(t) - 1)
        BY <2>1, <3>2
      <4>2. PICK m \in DOMAIN s : t[n] = s[m]
        BY <2>1, <4>1
      <4>3. Completed(i)
        BY <1>2, <1>4, <2>5, <4>2 DEF RunLog
      <4>4. QED  BY <2>2, <4>3
    <3>3. QED  BY <3>1, <3>2
  <2>6. ASSUME RunsAt(i, "finishing")'  PROVE t # <<>> /\ t[Len(t)].type = "results"
    <3>1. Emission[pc[a]].next = "finishing"
      BY <2>2, <2>6
    <3>2. pc[a] = "found"
      BY <2>4, <3>1, Emissions
    <3>3. e.type = "results"
      BY <1>1, <3>2 DEF Emission
    <3>4. QED  BY <2>1, <3>3
  <2>7. ASSUME FoundFeed(i)'
        PROVE  Len(t) >= 2 /\ t[Len(t) - 1].type = "results" /\ t[Len(t)].type = "done"
    <3>1. Emission[pc[a]].next = "setFound"
      BY <2>2, <2>7 DEF FoundFeed
    <3>2. pc[a] = "finishing"
      BY <2>4, <3>1, Emissions
    <3>3. e.type = "done"
      BY <1>1, <3>2 DEF Emission
    <3>4. s # <<>> /\ s[Len(s)].type = "results"
      BY <1>2, <1>4, <2>2, <3>2 DEF RunLog
    <3>5. QED  BY <2>1, <2>3, <3>3, <3>4
  <2>8. disc'[i].events = t
    BY <1>1, <1>4 DEF k
  <2>9. QED  BY <2>5, <2>6, <2>7, <2>8 DEF RunLog
<1>5. QED  BY <1>3, <1>4

\* Every step keeps RunLogInv.
LEMMA NextRunLog == BaseInv /\ FirstRunInv /\ RunLogInv /\ [SNext]_vars => RunLogInv'
<1> SUFFICES ASSUME BaseInv, FirstRunInv, RunLogInv, [SNext]_vars  PROVE RunLogInv'
  OBVIOUS
<1>1. CASE \E a \in Actors : AppendEvent(a)
  BY <1>1, AppendKeepsLog
<1>2. CASE ~\E a \in Actors : AppendEvent(a)
  BY <1>2, NextSteady, SteadyKeepsLog, RestartedGrows DEF RunLogInv
<1>3. QED  BY <1>1, <1>2

------------------------------------------------------------------------------
(* What a page sees of a first run from one step to the next *)

\* The log of i goes on: what is new in it has a larger number than all that
\* was there, the run takes no step back, and whether it has found a feed is
\* decided before it is completed.
GoesOn(i) ==
  LET e == disc[i].events  d == disc'[i].events IN
  /\ Completed(i) => Completed(i)'
  /\ FoundFeed(i)' => FoundFeed(i) \/ ~Completed(i)
  /\ e # <<>> => d # <<>> /\ e[Len(e)].seq <= d[Len(d)].seq
  /\ \A n \in DOMAIN d : \/ \E m \in DOMAIN e : d[n] = e[m]
                         \/ e # <<>> => d[n].seq > e[Len(e)].seq

\* Every step of the service goes on from what has been read.
LEMMA NextGoesOn ==
  ASSUME BaseInv, FirstRunInv, OrderInv, [SNext]_vars, NEW i \in Ids \ restarted'
  PROVE  GoesOn(i)
<1>1. i \in Ids \ restarted
  BY RestartedGrows
<1>2. CASE Steady(i)
  <2>1. DOMAIN disc[i].events = 1..Len(disc[i].events) /\ Len(disc[i].events) \in Nat
        /\ \A n \in DOMAIN disc[i].events : disc[i].events[n].seq \in Nat
    BY <1>1, LogTypes
  <2>2. disc[i].events # <<>> => Len(disc[i].events) \in DOMAIN disc[i].events
    BY <1>1, <2>1, LogTypes
  <2>3. QED  BY <1>2, <2>1, <2>2 DEF Steady, GoesOn
<1>3. ASSUME NEW a \in Actors, AppendEvent(a), Subject(a) = i  PROVE GoesOn(i)
  <2> DEFINE e == [seq |-> held[a], type |-> Emission[pc[a]].type]
             s == disc[i].events
             t == LastEvents(Append(s, e))
  <2>1. /\ e \in Events /\ e.seq = held[a] /\ Carries(a, i)
        /\ s \in Seq(Events) /\ Len(s) <= MaxEvents
        /\ disc'[i].events = t
    BY <1>3, AppendedEvent
  <2>2. \A n \in DOMAIN s : s[n].seq < held[a]
    BY <1>1, <2>1 DEF OrderInv, Ordered
  <2> HIDE DEF e
  <2>3. /\ DOMAIN t = 1..Len(t) /\ Len(t) \in Nat \ {0} /\ t[Len(t)] = e /\ t \in Seq(Events)
        /\ \A n \in 1..(Len(t) - 1) : \E m \in DOMAIN s : t[n] = s[m]
    <3>1. s \in Seq(Events) /\ Len(s) <= MaxEvents /\ e \in Events
      BY <2>1
    <3> HIDE DEF s
    <3>2. QED  BY <3>1, LogAfterAppend, Zenon
  <2> HIDE DEF t
  <2>4. s # <<>> => s[Len(s)].seq < held[a] /\ s[Len(s)].seq \in Nat
    <3>1. s # <<>> => Len(s) \in DOMAIN s
      BY <2>1
    <3>2. QED  BY <1>1, <2>2, <3>1, LogTypes
  <2>5. held[a] \in Nat /\ t # <<>>
    BY <1>1, <2>3, LogTypes
  <2>6. ASSUME NEW n \in DOMAIN t
        PROVE  (\E m \in DOMAIN s : t[n] = s[m]) \/ (s # <<>> => t[n].seq > s[Len(s)].seq)
    <3>1. CASE n = Len(t)
      BY <2>1, <2>3, <2>4, <2>5, <3>1
    <3>2. CASE n # Len(t)
      <4>1. n \in 1..(Len(t) - 1)
        BY <2>3, <3>2
      <4>2. QED  BY <2>3, <4>1
    <3>3. QED  BY <3>1, <3>2
  <2>7. ~Completed(i)
    BY <1>1, <1>3, AppendInFirstRun
  <2>8. QED  BY <2>1, <2>3, <2>4, <2>5, <2>6, <2>7 DEF GoesOn
<1>4. QED  BY <1>1, <1>2, <1>3, NextSteady, AppendElsewhere

\* A response, once sent, does not change.
LEMMA RepliesStay ==
  ASSUME BaseInv, ReplyInv, [SNext]_vars, NEW r \in Requests, reply[r] # NoId
  PROVE  reply'[r] = reply[r]
<1>1. reply[r] = req[r]
  BY DEF ReplyInv
<1>2. CASE \E s \in Requests : \/ \E i \in Ids : SearchKnown(s, i)
                               \/ RequestStep(s) \/ EnqueueCancel(s)
  <2>1. PICK s \in Requests : reply' = reply \/ reply' = [reply EXCEPT ![s] = req[s]]
    BY <1>2 DEF RequestStep, SearchKnown, SkipDiscovery, ShouldDiscover, StartNew, StartJoins,
       StartAgain, ResetDiscovery, TakeSeq, AppendEvent, EnqueueDuplicate, EnqueueMark,
       EnqueueSend, EnqueueCancel, EnqueuePanic, StartFails, ReplyWithId
  <2>2. QED  BY <1>1, <2>1 DEF BaseInv, ServiceTypeOK
<1>3. CASE \E w \in Workers : WorkerStep(w)
  BY <1>3, WorkersLeaveReplies
<1>4. CASE \/ StopClose \/ StopReturn \/ Terminated \/ UNCHANGED vars
           \/ \E i \in Ids : SubscribeToFeed(i)
  BY <1>4 DEF StopClose, StopReturn, Terminated, vars, serviceVars, SubscribeToFeed
<1>5. QED  BY <1>2, <1>3, <1>4 DEF SNext

\* A page that shows or follows something has the ID of a discovery; what its
\* handler has written goes with the connection; it connects after it is
\* loaded.
PageOK(p) ==
  /\ es[p] # "none" \/ box[p] # "none" => reply[p] # NoId
  /\ es[p] # "open" => wire[p] = <<>> /\ fromSeq[p] = 0
  /\ srv[p] = "initial" => fromSeq[p] = 0
  /\ box[p] = "loading" => es[p] = "none"

\* The page lists a result, or is about to.
HasResults(p) ==
  listed[p] # <<>> \/ \E m \in DOMAIN wire[p] : wire[p][m].type = "results"

\* What p is told of the first run of its discovery is true.
Told(p) ==
  LET i == reply[p]  e == disc[i].events IN
  \* a "done" on its way is true, and results are ahead of it;
  /\ \A n \in DOMAIN wire[p] : wire[p][n].type = "done" =>
       /\ Completed(i)
       /\ FoundFeed(i) => \/ listed[p] # <<>>
                          \/ \E m \in 1..(n - 1) : wire[p][m].type = "results"
  \* what the handler takes for sent is in the log, and its results are sent;
  /\ fromSeq[p] # 0 => e # <<>> /\ fromSeq[p] <= e[Len(e)].seq
  /\ \A n \in DOMAIN e : e[n].type = "results" /\ e[n].seq <= fromSeq[p] => HasResults(p)
  \* what it has been told was true, and stays so.
  /\ es[p] = "closed" /\ box[p] = "resolved_found" =>
       Completed(i) /\ (FoundFeed(i) => listed[p] # <<>>)

PageInv == \A p \in Pages : PageOK(p)

ToldInv == \A p \in Pages : reply[p] # NoId /\ reply[p] \notin restarted => Told(p)

ServiceInv == BaseInv /\ FirstRunInv /\ SeqsDistinct /\ OrderInv /\ ReplyInv /\ RunLogInv

StreamInv == ServiceInv /\ StreamTypeOK /\ PageInv /\ ToldInv

------------------------------------------------------------------------------
(* What GetDiscoveryEvents returns *)

\* The events of s after number n: all of them, in their order; those that
\* come before an event come before it; and they end as s does.
LEMMA EventsAfter ==
  ASSUME NEW s \in Seq(Events), NEW n \in Nat,
         \A l, m \in DOMAIN s : l < m => s[l].seq < s[m].seq
  PROVE  LET new == Kept(s, {k \in DOMAIN s : s[k].seq > n}) IN
         /\ new \in Seq(Events)
         /\ \A m \in DOMAIN new : \E k \in DOMAIN s :
              /\ new[m] = s[k]
              /\ \A j \in DOMAIN s : j < k /\ s[j].seq > n => \E l \in 1..(m - 1) : new[l] = s[j]
         /\ \A k \in DOMAIN s : s[k].seq > n => \E m \in DOMAIN new : new[m] = s[k]
         /\ new # <<>> => s # <<>> /\ new[Len(new)] = s[Len(s)]
<1> DEFINE K == {k \in DOMAIN s : s[k].seq > n}
           new == Kept(s, K)
<1> HIDE DEF K
<1>1. new \in Seq(Events) /\ \E f : Selects(f, new, Len(s), s, K)
  BY KeptSelects
<1> HIDE DEF new
<1>2. PICK f : Selects(f, new, Len(s), s, K)
  BY <1>1
<1>3. /\ DOMAIN s = 1..Len(s) /\ Len(s) \in Nat
      /\ DOMAIN new = 1..Len(new) /\ Len(new) \in Nat
      /\ K \cap 1..Len(s) = K
      /\ \A k \in K : k \in DOMAIN s /\ s[k].seq > n
      /\ \A k \in DOMAIN s : s[k].seq > n => k \in K
      /\ \A k \in DOMAIN s : s[k].seq \in Nat
  <2>1. \A k \in DOMAIN s : s[k] \in Events
    OBVIOUS
  <2>2. QED  BY <1>1, <2>1 DEF Events, K
<1>4. /\ f \in [1..Len(new) -> K]
      /\ \A m \in 1..Len(new) : new[m] = s[f[m]]
      /\ \A l, m \in 1..Len(new) : l < m => f[l] < f[m]
      /\ \A p \in K : \E m \in 1..Len(new) : f[m] = p
  BY <1>2, <1>3 DEF Selects
<1>5. \A m \in 1..Len(new) : f[m] \in K /\ f[m] \in 1..Len(s)
  BY <1>3, <1>4
<1>6. ASSUME NEW m \in DOMAIN new
      PROVE  \E k \in DOMAIN s :
               /\ new[m] = s[k]
               /\ \A j \in DOMAIN s : j < k /\ s[j].seq > n => \E l \in 1..(m - 1) : new[l] = s[j]
  <2>1. ASSUME NEW j \in DOMAIN s, j < f[m], s[j].seq > n
        PROVE  \E l \in 1..(m - 1) : new[l] = s[j]
    <3>1. PICK l \in 1..Len(new) : f[l] = j
      BY <1>3, <1>4, <2>1
    <3>2. l < m
      <4>1. m \in 1..Len(new) /\ ~(f[m] < f[l]) /\ l # m
        BY <1>3, <1>5, <2>1, <3>1
      <4>2. QED  BY <1>3, <1>4, <4>1
    <3>3. l \in 1..(m - 1)
      BY <1>3, <3>2
    <3>4. QED  BY <1>4, <3>1, <3>3
  <2>2. f[m] \in DOMAIN s /\ new[m] = s[f[m]]
    BY <1>3, <1>4, <1>5
  <2>3. QED  BY <2>1, <2>2
<1>7. ASSUME NEW k \in DOMAIN s, s[k].seq > n  PROVE \E m \in DOMAIN new : new[m] = s[k]
  <2>1. PICK m \in 1..Len(new) : f[m] = k
    BY <1>3, <1>4, <1>7
  <2>2. QED  BY <1>3, <1>4, <2>1
<1>8. ASSUME new # <<>>  PROVE s # <<>> /\ new[Len(new)] = s[Len(s)]
  <2>1. Len(new) \in 1..Len(new) /\ f[Len(new)] \in K
    BY <1>1, <1>3, <1>5, <1>8
  <2>2. f[Len(new)] \in 1..Len(s) /\ Len(s) \in 1..Len(s)
    BY <1>3, <1>5, <2>1
  <2>3. s[Len(s)].seq > n
    <3>1. s[f[Len(new)]].seq > n /\ s[f[Len(new)]].seq <= s[Len(s)].seq
      BY <1>3, <2>1, <2>2
    <3>2. QED  BY <1>3, <2>2, <3>1
  <2>4. PICK m \in 1..Len(new) : f[m] = Len(s)
    BY <1>3, <1>4, <2>2, <2>3
  <2>5. m = Len(new)
    <3>1. ~(f[m] < f[Len(new)])
      BY <1>3, <2>2, <2>4
    <3>2. ~(m < Len(new))
      BY <1>4, <2>1, <3>1
    <3>3. Len(new) \in Nat /\ m \in 1..Len(new)
      BY <1>3
    <3>4. QED  BY <3>2, <3>3
  <2>6. QED  BY <1>4, <2>2, <2>4, <2>5
<1>9. QED  BY <1>1, <1>6, <1>7, <1>8 DEF new, K

\* What a handler reads of a first run: the events after n, of which a "done"
\* comes last and is true, with its results before it unless n is past them.
LEMMA FirstRunEvents ==
  ASSUME ServiceInv, NEW p \in Pages, reply[p] \in Ids \ restarted, NEW n \in Nat
  PROVE  LET i == reply[p]  e == disc[i].events  new == EventsFrom(p, n) IN
         /\ new \in Seq(Events)
         /\ \A m \in DOMAIN new : new[m].type = "done" =>
              /\ Completed(i)
              /\ FoundFeed(i) =>
                   \/ \E l \in 1..(m - 1) : new[l].type = "results"
                   \/ \E k \in DOMAIN e : e[k].type = "results" /\ e[k].seq <= n
         /\ \A k \in DOMAIN e : e[k].seq > n => \E m \in DOMAIN new : new[m] = e[k]
         /\ new # <<>> => e # <<>> /\ new[Len(new)] = e[Len(e)]
<1> DEFINE i == reply[p]
           e == disc[i].events
           new == EventsFrom(p, n)
<1>1. /\ i \in Ids \ restarted /\ e \in Seq(Events)
      /\ DOMAIN e = 1..Len(e) /\ Len(e) \in Nat
      /\ \A k \in DOMAIN e : e[k].seq \in Nat
      /\ \A l, m \in DOMAIN e : l < m => e[l].seq < e[m].seq
      /\ \A k \in DOMAIN e : e[k].type = "done" => k = Len(e) /\ Completed(i)
      /\ FoundFeed(i) => Len(e) >= 2 /\ e[Len(e) - 1].type = "results"
  BY LogTypes DEF ServiceInv, OrderInv, Ordered, RunLogInv, RunLog
<1>2. new = Kept(e, {k \in DOMAIN e : e[k].seq > n})
  BY DEF EventsFrom, Followed
<1> HIDE DEF new, e, i
<1>3. /\ new \in Seq(Events)
      /\ \A m \in DOMAIN new : \E k \in DOMAIN e :
           /\ new[m] = e[k]
           /\ \A j \in DOMAIN e : j < k /\ e[j].seq > n => \E l \in 1..(m - 1) : new[l] = e[j]
      /\ \A k \in DOMAIN e : e[k].seq > n => \E m \in DOMAIN new : new[m] = e[k]
      /\ new # <<>> => e # <<>> /\ new[Len(new)] = e[Len(e)]
  <2> DEFINE kept == Kept(e, {k \in DOMAIN e : e[k].seq > n})
  <2>1. /\ kept \in Seq(Events)
        /\ \A m \in DOMAIN kept : \E k \in DOMAIN e :
             /\ kept[m] = e[k]
             /\ \A j \in DOMAIN e : j < k /\ e[j].seq > n => \E l \in 1..(m - 1) : kept[l] = e[j]
        /\ \A k \in DOMAIN e : e[k].seq > n => \E m \in DOMAIN kept : kept[m] = e[k]
        /\ kept # <<>> => e # <<>> /\ kept[Len(kept)] = e[Len(e)]
    BY <1>1, EventsAfter, Zenon
  <2>2. kept = new
    BY <1>2
  <2> HIDE DEF kept
  <2>3. QED  BY <2>1, <2>2
<1>4. ASSUME NEW m \in DOMAIN new, new[m].type = "done"
      PROVE  /\ Completed(i)
             /\ FoundFeed(i) =>
                  \/ \E l \in 1..(m - 1) : new[l].type = "results"
                  \/ \E k \in DOMAIN e : e[k].type = "results" /\ e[k].seq <= n
  <2>1. PICK k \in DOMAIN e :
          /\ new[m] = e[k]
          /\ \A j \in DOMAIN e : j < k /\ e[j].seq > n => \E l \in 1..(m - 1) : new[l] = e[j]
    BY <1>3
  <2>2. k = Len(e) /\ Completed(i)
    BY <1>1, <1>4, <2>1
  <2>3. ASSUME FoundFeed(i)
        PROVE  \/ \E l \in 1..(m - 1) : new[l].type = "results"
               \/ \E j \in DOMAIN e : e[j].type = "results" /\ e[j].seq <= n
    <3>1. Len(e) >= 2 /\ e[Len(e) - 1].type = "results"
      BY <1>1, <2>3
    <3>2. Len(e) - 1 \in DOMAIN e /\ Len(e) - 1 < k
      BY <1>1, <2>2, <3>1
    <3>3. e[Len(e) - 1].seq > n \/ e[Len(e) - 1].seq <= n
      BY <1>1, <3>2
    <3>4. QED  BY <2>1, <3>1, <3>2, <3>3
  <2>4. QED  BY <2>2, <2>3
<1>5. QED  BY <1>3, <1>4 DEF new, e, i

------------------------------------------------------------------------------
(* The steps of the page and of its handler *)

\* What p has, is sent and will be sent.
View(p) == <<es[p], srv[p], fromSeq[p], wire[p], box[p], listed[p]>>

PageStep(p) ==
  \/ Follow(p) \/ LoadResults(p) \/ LoadStatus(p)
  \/ StreamStep(p) \/ StreamEnds(p)
  \/ Received(p) \/ OnConnectionError(p)

\* What a page's step leaves alone: the service, and the other pages.
LEMMA StepsOfOne ==
  ASSUME StreamTypeOK, NEW p \in Pages, PageStep(p)
  PROVE  UNCHANGED vars /\ \A q \in Pages : q # p => UNCHANGED View(q)
<1> USE DEF StreamTypeOK, View
<1>1. CASE Follow(p) \/ LoadResults(p)
  BY <1>1 DEF Follow, LoadResults, Connect, Disconnect, Show
<1>2. CASE LoadStatus(p)
  BY <1>2 DEF LoadStatus, Connect, Show
<1>3. CASE SendInitial(p) \/ Poll(p) \/ CheckStatus(p) \/ StreamEnds(p)
  BY <1>3 DEF SendInitial, Poll, CheckStatus, StreamEnds
<1>4. CASE OnProgress(p) \/ OnResults(p)
  BY <1>4 DEF OnProgress, OnResults, Show
<1>5. CASE OnDone(p) \/ OnError(p) \/ OnConnectionError(p) \/ EndOfStream(p)
  BY <1>5 DEF OnDone, OnError, EndOfStream, OnConnectionError, Disconnect, Show
<1>6. QED  BY <1>1, <1>2, <1>3, <1>4, <1>5 DEF PageStep, StreamStep, Received

\* A page whose view does not change, in a service that does not either.
LEMMA SameView ==
  ASSUME NEW p \in Pages, UNCHANGED vars, UNCHANGED View(p)
  PROVE  /\ PageOK(p) => PageOK(p)'
         /\ Told(p) => Told(p)'
  BY DEF vars, View, PageOK, Told, HasResults, Completed, FoundFeed, RunsAt, queueVars,
         serviceVars

\* A page that is not new follows a discovery that exists.
LEMMA FollowedExists ==
  ASSUME ServiceInv, NEW p \in Pages, reply[p] # NoId
  PROVE  /\ reply[p] \in Ids /\ Followed(p) \in Discoveries
         /\ Followed(p).status \in {"pending"} \cup Terminal
<1>1. p \in Requests
  BY StreamAssumption DEF StreamAssumption
<1>2. reply[p] \in Ids /\ Exists(reply[p])
  BY <1>1 DEF ServiceInv, ReplyInv, BaseInv, ServiceTypeOK
<1>3. disc[reply[p]] \in Discoveries
  BY <1>2 DEF ServiceInv, BaseInv, DTypeOK
<1>4. QED  BY <1>2, <1>3 DEF Followed, Discoveries, Exists

\* The events read are events.
LEMMA EventsFromType ==
  ASSUME ServiceInv, NEW p \in Pages, reply[p] # NoId, NEW n
  PROVE  EventsFrom(p, n) \in Seq(Events)
<1>1. Followed(p).events \in Seq(Events)
  BY FollowedExists DEF Discoveries
<1>2. QED  BY <1>1, KeptSelects DEF EventsFrom

\* Every step of a page keeps the types.
LEMMA PageStepType ==
  ASSUME ServiceInv, StreamTypeOK, PageInv, NEW p \in Pages, PageStep(p)
  PROVE  StreamTypeOK'
<1> USE DEF StreamTypeOK
<1>1. CASE Follow(p)
  BY <1>1 DEF Follow, Connect, Show
<1>2. CASE LoadResults(p)
  <2> DEFINE shown == (IF reply[p] \in known THEN <<0>> ELSE <<>>)
                        \o (IF Followed(p).results THEN <<0>> ELSE <<>>)
  <2>1. shown \in Seq(Nat)
    <3>1. \A s, t \in Seq(Nat) : s \o t \in Seq(Nat)
      OBVIOUS
    <3>2. <<0>> \in Seq(Nat) /\ <<>> \in Seq(Nat)
      OBVIOUS
    <3>3. QED  BY <3>1, <3>2, Zenon
  <2>2. listed' = [listed EXCEPT ![p] = shown]
    BY <1>2 DEF LoadResults
  <2> HIDE DEF shown
  <2>3. QED  BY <1>2, <2>1, <2>2 DEF LoadResults, Disconnect, Show
<1>3. CASE LoadStatus(p)
  <2>1. Followed(p).status \in {"pending"} \cup Terminal
    BY <1>3, FollowedExists DEF LoadStatus, PageInv, PageOK
  <2>2. box' = [box EXCEPT ![p] = Followed(p).status] /\ listed' = listed
    BY <1>3 DEF LoadStatus, Show
  <2>3. Connect(p) \/ UNCHANGED <<es, srv, fromSeq, wire>>
    BY <1>3 DEF LoadStatus
  <2> HIDE DEF Followed
  <2>4. box' \in [Pages -> {"none", "loading", "pending"} \cup Terminal]
    BY <2>1, <2>2
  <2>5. listed' \in [Pages -> Seq(Nat)]
    BY <2>2
  <2>6. CASE Connect(p)
    BY <2>4, <2>5, <2>6 DEF Connect
  <2>7. CASE UNCHANGED <<es, srv, fromSeq, wire>>
    BY <2>4, <2>5, <2>7
  <2>8. QED  BY <2>3, <2>6, <2>7
<1>4. CASE SendInitial(p) \/ Poll(p)
  <2>1. es[p] = "open" /\ reply[p] # NoId
    BY <1>4 DEF SendInitial, Poll, PageInv, PageOK
  <2> DEFINE new == EventsFrom(p, fromSeq[p])
  <2>2. new \in Seq(Events)
    BY <2>1, EventsFromType
  <2>3. new # <<>> => new[Len(new)].seq \in Nat
    <3>1. new # <<>> => new[Len(new)] \in Events
      BY <2>2
    <3>2. QED  BY <3>1 DEF Events
  <2>4. CASE SendInitial(p)
    BY <2>1, <2>2, <2>4 DEF SendInitial
  <2>5. CASE Poll(p)
    <3>1. /\ wire' = [wire EXCEPT ![p] = wire[p] \o new]
          /\ fromSeq' = [fromSeq EXCEPT ![p] = IF new = <<>> THEN fromSeq[p] ELSE new[Len(new)].seq]
          /\ srv' = [srv EXCEPT ![p] = "check"]
          /\ UNCHANGED <<es, box, listed>>
      BY <2>5 DEF Poll
    <3> HIDE DEF new
    <3>2. wire[p] \o new \in Seq(Events)
      BY <2>2
    <3>3. QED  BY <2>1, <2>3, <3>1, <3>2
  <2>6. QED  BY <1>4, <2>4, <2>5
<1>5. CASE CheckStatus(p) \/ StreamEnds(p)
  BY <1>5 DEF CheckStatus, StreamEnds
<1>6. CASE OnProgress(p)
  BY <1>6 DEF OnProgress, Show
<1>7. CASE OnResults(p)
  <2>1. Head(wire[p]).seq \in Nat
    <3>1. Head(wire[p]) \in Events
      BY <1>7 DEF OnResults
    <3>2. QED  BY <3>1 DEF Events
  <2>2. Append(listed[p], Head(wire[p]).seq) \in Seq(Nat)
    BY <2>1
  <2>3. QED  BY <1>7, <2>2 DEF OnResults
<1>8. CASE OnDone(p) \/ OnError(p) \/ OnConnectionError(p) \/ EndOfStream(p)
  <2>1. \E s \in {"resolved_found", "error"} : box' = [box EXCEPT ![p] = s]
    BY <1>8 DEF OnDone, OnError, EndOfStream, OnConnectionError, Show
  <2>2. Disconnect(p, "closed") /\ listed' = listed
    BY <1>8 DEF OnDone, OnError, EndOfStream, OnConnectionError
  <2>3. QED  BY <2>1, <2>2 DEF Disconnect, Terminal
<1>9. QED
  BY <1>1, <1>2, <1>3, <1>4, <1>5, <1>6, <1>7, <1>8 DEF PageStep, StreamStep, Received

\* Every step of a page leaves it connected as it should be.
LEMMA PageStepOK ==
  ASSUME ServiceInv, StreamTypeOK, PageInv, NEW p \in Pages, PageStep(p)
  PROVE  PageOK(p)'
<1> USE DEF StreamTypeOK, PageOK
<1>1. PageOK(p) /\ reply' = reply
  BY StepsOfOne DEF PageInv, vars, serviceVars
<1>2. CASE Follow(p)
  BY <1>1, <1>2 DEF Follow, Connect, Show
<1>3. CASE LoadResults(p)
  BY <1>1, <1>3 DEF LoadResults, Disconnect, Show
<1>4. CASE LoadStatus(p)
  <2>1. Followed(p).status \in {"pending"} \cup Terminal
    BY <1>1, <1>4, FollowedExists DEF LoadStatus
  <2>2. QED  BY <1>1, <1>4, <2>1 DEF LoadStatus, Connect, Show, Terminal
<1>5. CASE SendInitial(p) \/ Poll(p) \/ CheckStatus(p) \/ StreamEnds(p)
  <2>1. es[p] = "open" /\ es' = es /\ box' = box /\ srv'[p] # "initial"
    BY <1>5 DEF SendInitial, Poll, CheckStatus, StreamEnds
  <2>2. QED  BY <1>1, <2>1
<1>6. CASE OnProgress(p) \/ OnResults(p)
  <2>1. /\ es[p] = "open" /\ es' = es /\ srv' = srv /\ fromSeq' = fromSeq
        /\ box'[p] = box[p] \/ box'[p] = "pending"
    BY <1>1, <1>6 DEF OnProgress, OnResults, Show
  <2>2. QED  BY <1>1, <2>1
<1>7. CASE OnDone(p) \/ OnError(p) \/ OnConnectionError(p) \/ EndOfStream(p)
  <2>1. es[p] = "open"
    BY <1>1, <1>7 DEF OnDone, OnError, EndOfStream, OnConnectionError
  <2>2. QED
    BY <1>1, <1>7, <2>1 DEF OnDone, OnError, EndOfStream, OnConnectionError, Disconnect, Show
<1>8. QED  BY <1>2, <1>3, <1>4, <1>5, <1>6, <1>7 DEF PageStep, StreamStep, Received

\* A page that has just connected, or is not connected, is told nothing.
LEMMA FreshTold ==
  ASSUME ServiceInv', NEW p \in Pages, reply'[p] \in Ids,
         wire'[p] = <<>>, fromSeq'[p] = 0, es'[p] # "closed" \/ box'[p] # "resolved_found"
  PROVE  Told(p)'
<1>1. \A n \in DOMAIN disc'[reply'[p]].events : ~(disc'[reply'[p]].events[n].seq <= 0)
  <2>1. disc'[reply'[p]].events \in Seq(Events)
    BY DEF ServiceInv, BaseInv, DTypeOK, Discoveries
  <2>2. \A n \in DOMAIN disc'[reply'[p]].events : disc'[reply'[p]].events[n] \in Events
    BY <2>1
  <2>3. QED  BY <2>2 DEF Events
<1>2. DOMAIN <<>> = {}
  OBVIOUS
<1>3. QED  BY <1>1, <1>2 DEF Told

\* A page that opens or loses its connection has been told nothing yet.
LEMMA ConnectTold ==
  ASSUME ServiceInv', StreamTypeOK, PageInv, NEW p \in Pages, reply'[p] \in Ids,
         \/ Follow(p) \/ LoadResults(p) \/ LoadStatus(p)
         \/ OnError(p) \/ OnConnectionError(p) \/ EndOfStream(p)
  PROVE  Told(p)'
<1> USE DEF StreamTypeOK
<1>1. PageOK(p)
  BY DEF PageInv
<1>2. wire'[p] = <<>> /\ fromSeq'[p] = 0
  BY <1>1 DEF Follow, LoadResults, LoadStatus, OnError, OnConnectionError, EndOfStream,
              Connect, Disconnect, PageOK
<1>3. CASE LoadStatus(p)
  BY <1>1, <1>2, <1>3, FreshTold DEF LoadStatus, Connect, PageOK
<1>4. CASE ~LoadStatus(p)
  <2>1. es'[p] # "closed" \/ box'[p] # "resolved_found"
    BY <1>4 DEF Follow, LoadResults, OnError, OnConnectionError, EndOfStream,
                Connect, Disconnect, Show
  <2>2. QED  BY <1>2, <2>1, FreshTold
<1>5. QED  BY <1>3, <1>4

\* The initial events of a stream are the whole log.
LEMMA SendInitialTold ==
  ASSUME ServiceInv, StreamTypeOK, PageInv, NEW p \in Pages, reply[p] \in Ids \ restarted,
         SendInitial(p)
  PROVE  Told(p)'
<1> DEFINE i == reply[p]
           e == disc[i].events
           new == EventsFrom(p, 0)
<1>1. fromSeq[p] = 0 /\ es[p] = "open"
  BY DEF SendInitial, PageInv, PageOK, StreamTypeOK
<1>2. /\ wire'[p] = new
      /\ UNCHANGED <<vars, es, fromSeq, box, listed>>
  BY <1>1 DEF SendInitial, StreamTypeOK
<1>3. \A k \in DOMAIN e : ~(e[k].seq <= 0)
  <2>1. e \in Seq(Events)
    BY LogTypes DEF ServiceInv
  <2>2. \A k \in DOMAIN e : e[k] \in Events
    BY <2>1
  <2>3. QED  BY <2>2 DEF Events
<1>4. \A m \in DOMAIN new : new[m].type = "done" =>
        Completed(i) /\ (FoundFeed(i) => \E l \in 1..(m - 1) : new[l].type = "results")
  BY <1>3, FirstRunEvents
<1>5. /\ UNCHANGED <<reply, disc, pc, wkey>>
      /\ Completed(i)' <=> Completed(i)
      /\ FoundFeed(i)' <=> FoundFeed(i)
  BY <1>2 DEF vars, queueVars, serviceVars, Completed, FoundFeed, RunsAt
<1> HIDE DEF new
<1>6. QED
  BY <1>1, <1>2, <1>3, <1>4, <1>5 DEF Told

\* A poll sends what is new, after all that was sent.
LEMMA PollTold ==
  ASSUME ServiceInv, StreamTypeOK, PageInv, NEW p \in Pages, reply[p] \in Ids \ restarted,
         Told(p), Poll(p)
  PROVE  Told(p)'
<1> DEFINE i == reply[p]
           e == disc[i].events
           old == wire[p]
           n0 == fromSeq[p]
           new == EventsFrom(p, n0)
           all == old \o new
<1>1. es[p] = "open" /\ n0 \in Nat /\ old \in Seq(Events)
  BY DEF Poll, StreamTypeOK
<1>2. /\ wire'[p] = all
      /\ fromSeq'[p] = IF new = <<>> THEN n0 ELSE new[Len(new)].seq
      /\ UNCHANGED <<vars, es, box, listed>>
  BY DEF Poll, StreamTypeOK
<1>3. /\ e \in Seq(Events) /\ DOMAIN e = 1..Len(e) /\ Len(e) \in Nat
      /\ \A k \in DOMAIN e : e[k].seq \in Nat
  BY LogTypes DEF ServiceInv
<1>4. /\ new \in Seq(Events)
      /\ \A m \in DOMAIN new : new[m].type = "done" =>
           /\ Completed(i)
           /\ FoundFeed(i) =>
                \/ \E l \in 1..(m - 1) : new[l].type = "results"
                \/ \E k \in DOMAIN e : e[k].type = "results" /\ e[k].seq <= n0
      /\ \A k \in DOMAIN e : e[k].seq > n0 => \E m \in DOMAIN new : new[m] = e[k]
      /\ new # <<>> => e # <<>> /\ new[Len(new)] = e[Len(e)]
  BY <1>1, FirstRunEvents
<1>5. /\ UNCHANGED <<reply, disc, pc, wkey>>
      /\ Completed(i)' <=> Completed(i)
      /\ FoundFeed(i)' <=> FoundFeed(i)
  BY <1>2 DEF vars, queueVars, serviceVars, Completed, FoundFeed, RunsAt
<1>6. /\ \A n \in DOMAIN old : old[n].type = "done" =>
           /\ Completed(i)
           /\ FoundFeed(i) => \/ listed[p] # <<>>
                              \/ \E m \in 1..(n - 1) : old[m].type = "results"
      /\ n0 # 0 => e # <<>> /\ n0 <= e[Len(e)].seq
      /\ \A k \in DOMAIN e : e[k].type = "results" /\ e[k].seq <= n0 =>
           listed[p] # <<>> \/ \E m \in DOMAIN old : old[m].type = "results"
  BY DEF Told, HasResults
<1> HIDE DEF new, old, e, n0, i
<1>7. /\ DOMAIN old = 1..Len(old) /\ Len(old) \in Nat
      /\ DOMAIN new = 1..Len(new) /\ Len(new) \in Nat
      /\ DOMAIN all = 1..(Len(old) + Len(new))
      /\ \A n \in 1..Len(old) : n \in DOMAIN all /\ all[n] = old[n]
      /\ \A m \in 1..Len(new) : Len(old) + m \in DOMAIN all /\ all[Len(old) + m] = new[m]
  BY <1>1, <1>4
<1> HIDE DEF all
<1>8. ASSUME NEW n \in DOMAIN all, all[n].type = "done"
      PROVE  /\ Completed(i)
             /\ FoundFeed(i) => \/ listed[p] # <<>>
                                \/ \E m \in 1..(n - 1) : all[m].type = "results"
  <2>1. CASE n \in 1..Len(old)
    <3>1. /\ Completed(i)
          /\ FoundFeed(i) => \/ listed[p] # <<>>
                             \/ \E m \in 1..(n - 1) : old[m].type = "results"
      BY <1>6, <1>7, <1>8, <2>1
    <3>2. \A m \in 1..(n - 1) : all[m] = old[m]
      BY <1>7, <2>1
    <3>3. QED  BY <3>1, <3>2
  <2>2. CASE n \notin 1..Len(old)
    <3>1. PICK m \in 1..Len(new) : n = Len(old) + m
      <4>1. n - Len(old) \in 1..Len(new) /\ n = Len(old) + (n - Len(old))
        BY <1>7, <2>2
      <4>2. QED  BY <4>1
    <3>2. new[m].type = "done"
      BY <1>7, <1>8, <3>1
    <3>3. Completed(i)
      BY <1>4, <1>7, <3>2
    <3>4. ASSUME FoundFeed(i)
          PROVE  listed[p] # <<>> \/ \E l \in 1..(n - 1) : all[l].type = "results"
      <4>1. CASE \E l \in 1..(m - 1) : new[l].type = "results"
        <5>1. PICK l \in 1..(m - 1) : new[l].type = "results"
          BY <4>1
        <5>2. l \in 1..Len(new) /\ Len(old) + l \in 1..(n - 1)
          BY <1>7, <3>1, <5>1
        <5>3. QED  BY <1>7, <5>1, <5>2
      <4>2. CASE \E k \in DOMAIN e : e[k].type = "results" /\ e[k].seq <= n0
        <5>1. CASE \E l \in DOMAIN old : old[l].type = "results"
          <6>1. PICK l \in 1..Len(old) : old[l].type = "results"
            BY <1>7, <5>1
          <6>2. l \in 1..(n - 1) /\ all[l] = old[l]
            BY <1>7, <3>1, <6>1
          <6>3. QED  BY <6>1, <6>2
        <5>2. QED  BY <1>6, <4>2, <5>1
      <4>3. QED  BY <1>4, <1>7, <3>2, <3>4, <4>1, <4>2
    <3>5. QED  BY <3>3, <3>4
  <2>3. QED  BY <2>1, <2>2
<1>9. fromSeq'[p] # 0 => e # <<>> /\ fromSeq'[p] <= e[Len(e)].seq
  <2>1. e # <<>> => e[Len(e)].seq \in Nat
    <3>1. e # <<>> => Len(e) \in DOMAIN e
      BY <1>3
    <3>2. QED  BY <1>3, <3>1
  <2>2. QED  BY <1>2, <1>4, <1>6, <2>1
<1>10. ASSUME NEW k \in DOMAIN e, e[k].type = "results"
       PROVE  listed[p] # <<>> \/ \E m \in DOMAIN all : all[m].type = "results"
  <2>1. CASE e[k].seq > n0
    <3>1. PICK m \in DOMAIN new : new[m] = e[k]
      BY <1>4, <2>1
    <3>2. Len(old) + m \in DOMAIN all /\ all[Len(old) + m] = new[m]
      BY <1>7
    <3>3. QED  BY <1>10, <3>1, <3>2
  <2>2. CASE e[k].seq <= n0
    BY <1>6, <1>7, <1>10, <2>2
  <2>3. n0 \in Nat /\ e[k].seq \in Nat
    BY <1>1, <1>3
  <2>4. QED  BY <2>1, <2>2, <2>3
<1>11. QED
  BY <1>1, <1>2, <1>5, <1>8, <1>9, <1>10 DEF Told, HasResults, i, e, n0

\* The first event on the wire is received.
LEMMA ReceiveTold ==
  ASSUME ServiceInv, StreamTypeOK, PageInv, NEW p \in Pages, reply[p] \in Ids \ restarted,
         Told(p), OnProgress(p) \/ OnResults(p)
  PROVE  Told(p)'
<1> DEFINE i == reply[p]
           old == wire[p]
           new == Tail(old)
<1>1. old \in Seq(Events) /\ old # <<>> /\ Head(old).type \in {"progress", "results"}
  BY DEF OnProgress, OnResults, StreamTypeOK
<1>2. es[p] = "open"
  BY <1>1 DEF PageInv, PageOK
<1>3. /\ wire'[p] = new
      /\ UNCHANGED <<vars, es, fromSeq>>
      /\ Head(old).type = "results" => listed'[p] # <<>>
      /\ Head(old).type = "progress" => listed'[p] = listed[p]
  BY DEF OnProgress, OnResults, StreamTypeOK
<1>4. /\ UNCHANGED <<reply, disc, pc, wkey>>
      /\ Completed(i)' <=> Completed(i)
      /\ FoundFeed(i)' <=> FoundFeed(i)
  BY <1>3 DEF vars, queueVars, serviceVars, Completed, FoundFeed, RunsAt
<1>5. /\ old[1] = Head(old) /\ Len(old) \in Nat \ {0} /\ DOMAIN old = 1..Len(old)
      /\ DOMAIN new = 1..(Len(old) - 1)
      /\ \A n \in DOMAIN new : n + 1 \in DOMAIN old /\ new[n] = old[n + 1]
  BY <1>1
<1>6. \A n \in DOMAIN old : old[n].type = "done" =>
        /\ Completed(i)
        /\ FoundFeed(i) => \/ listed[p] # <<>>
                           \/ \E m \in 1..(n - 1) : old[m].type = "results"
  BY DEF Told
<1> HIDE DEF new
<1>7. \A m \in DOMAIN old : old[m].type = "results" =>
        listed'[p] # <<>> \/ (m - 1 \in DOMAIN new /\ new[m - 1].type = "results")
  <2> SUFFICES ASSUME NEW m \in DOMAIN old, old[m].type = "results", listed'[p] = <<>>
               PROVE  m - 1 \in DOMAIN new /\ new[m - 1].type = "results"
    OBVIOUS
  <2>1. m # 1
    BY <1>1, <1>3, <1>5
  <2>2. m - 1 \in DOMAIN new /\ m - 1 + 1 = m
    BY <1>5, <2>1
  <2>3. QED  BY <1>5, <2>2
<1>8. listed[p] # <<>> => listed'[p] # <<>>
  BY <1>1, <1>3
<1>9. ASSUME NEW n \in DOMAIN new, new[n].type = "done"
      PROVE  /\ Completed(i)
             /\ FoundFeed(i) => \/ listed'[p] # <<>>
                                \/ \E m \in 1..(n - 1) : new[m].type = "results"
  <2>1. PICK k \in DOMAIN old : k = n + 1 /\ old[k].type = "done"
    BY <1>5, <1>9
  <2>2. /\ Completed(i)
        /\ FoundFeed(i) => \/ listed[p] # <<>>
                           \/ \E m \in 1..(k - 1) : old[m].type = "results"
    BY <1>6, <2>1
  <2>3. ASSUME NEW m \in 1..(k - 1), old[m].type = "results", listed'[p] = <<>>
        PROVE  \E l \in 1..(n - 1) : new[l].type = "results"
    <3>1. m \in DOMAIN old
      BY <1>5, <2>1
    <3>2. m - 1 \in DOMAIN new /\ new[m - 1].type = "results"
      BY <1>7, <2>3, <3>1
    <3>3. m - 1 \in 1..(n - 1)
      BY <1>5, <2>1, <3>2
    <3>4. QED  BY <3>2, <3>3
  <2>4. QED  BY <1>8, <2>2, <2>3
<1>10. HasResults(p) => listed'[p] # <<>> \/ \E m \in DOMAIN new : new[m].type = "results"
  BY <1>7, <1>8 DEF HasResults
<1> HIDE DEF old
<1>11. QED
  BY <1>2, <1>3, <1>4, <1>9, <1>10 DEF Told, HasResults

\* A page that receives the done event has been told of what was found.
LEMMA DoneTold ==
  ASSUME ServiceInv, ServiceInv', StreamTypeOK, PageInv, NEW p \in Pages,
         reply[p] \in Ids \ restarted, Told(p), OnDone(p)
  PROVE  Told(p)'
<1>1. wire[p] \in Seq(Events) /\ wire[p] # <<>> /\ Head(wire[p]).type = "done"
  BY DEF OnDone, StreamTypeOK
<1>2. 1 \in DOMAIN wire[p] /\ wire[p][1].type = "done" /\ 1..(1 - 1) = {}
  BY <1>1
<1>3. Completed(reply[p]) /\ (FoundFeed(reply[p]) => listed[p] # <<>>)
  BY <1>2 DEF Told
<1>4. /\ wire'[p] = <<>> /\ fromSeq'[p] = 0 /\ UNCHANGED <<vars, listed>>
  BY DEF OnDone, Disconnect, StreamTypeOK
<1>5. /\ UNCHANGED <<reply, disc, pc, wkey, restarted, listed>>
      /\ Completed(reply[p])' <=> Completed(reply[p])
      /\ FoundFeed(reply[p])' <=> FoundFeed(reply[p])
  BY <1>4 DEF vars, queueVars, serviceVars, Completed, FoundFeed, RunsAt
<1>6. \A n \in DOMAIN disc'[reply'[p]].events : ~(disc'[reply'[p]].events[n].seq <= 0)
  <2>1. disc'[reply'[p]].events \in Seq(Events)
    BY <1>5 DEF ServiceInv, BaseInv, DTypeOK, Discoveries
  <2>2. \A n \in DOMAIN disc'[reply'[p]].events : disc'[reply'[p]].events[n] \in Events
    BY <2>1
  <2>3. QED  BY <2>2 DEF Events
<1>7. DOMAIN <<>> = {}
  OBVIOUS
<1>8. QED  BY <1>3, <1>4, <1>5, <1>6, <1>7 DEF Told

\* Every step of a page keeps what it is told true.
LEMMA PageStepTold ==
  ASSUME ServiceInv, ServiceInv', StreamTypeOK, PageInv, NEW p \in Pages,
         reply[p] \in Ids \ restarted, Told(p), PageStep(p)
  PROVE  Told(p)'
<1>1. UNCHANGED vars
  BY StepsOfOne
<1>2. reply'[p] \in Ids
  BY <1>1 DEF vars, serviceVars
<1>3. CASE CheckStatus(p) \/ StreamEnds(p)
  <2>1. UNCHANGED <<vars, es, fromSeq, wire, box, listed>>
    BY <1>3 DEF CheckStatus, StreamEnds
  <2>2. QED
    BY <2>1 DEF vars, Told, HasResults, Completed, FoundFeed, RunsAt, queueVars, serviceVars
<1>4. QED
  BY <1>2, <1>3, ConnectTold, SendInitialTold, PollTold, ReceiveTold, DoneTold
  DEF PageStep, StreamStep, Received

------------------------------------------------------------------------------
(* The steps of the service *)

\* What p is told stays true whatever the service does.
LEMMA ServiceKeepsTold ==
  ASSUME ServiceInv, ServiceInv', [SNext]_vars, UNCHANGED streamVars, StreamTypeOK, PageInv,
         ToldInv
  PROVE  StreamTypeOK' /\ PageInv' /\ ToldInv'
<1>1. Pages \subseteq Requests
  BY StreamAssumption DEF StreamAssumption
<1>2. \A p \in Pages : reply[p] # NoId => reply'[p] = reply[p]
  BY <1>1, RepliesStay DEF ServiceInv
<1>3. StreamTypeOK'
  BY DEF StreamTypeOK, streamVars
<1>4. PageInv'
  BY <1>2, ServiceAssumption DEF PageInv, PageOK, streamVars, ServiceAssumption
<1>5. ASSUME NEW p \in Pages, reply'[p] # NoId, reply'[p] \notin restarted'  PROVE Told(p)'
  <2>1. reply'[p] \in Ids
    BY <1>1, <1>5 DEF ServiceInv, BaseInv, ServiceTypeOK
  <2>2. PageOK(p)
    BY DEF PageInv
  <2>3. CASE reply[p] = NoId
    BY <2>1, <2>2, <2>3, FreshTold DEF PageOK, streamVars
  <2>4. CASE reply[p] # NoId
    <3> DEFINE i == reply[p]
               e == disc[i].events
               d == disc'[i].events
    <3>1. reply'[p] = i /\ i \in Ids \ restarted' /\ i \notin restarted
      BY <1>2, <1>5, <2>1, <2>4, RestartedGrows
    <3>2. GoesOn(i)
      BY <3>1, NextGoesOn DEF ServiceInv
    <3>3. Told(p)
      BY <2>4, <3>1 DEF ToldInv
    <3>4. /\ fromSeq[p] \in Nat
          /\ \A n \in DOMAIN d : d[n].seq \in Nat /\ ~(d[n].seq <= 0)
          /\ e # <<>> => e[Len(e)].seq \in Nat
          /\ d # <<>> => d[Len(d)].seq \in Nat
      <4>1. e \in Seq(Events) /\ d \in Seq(Events)
        BY <3>1 DEF ServiceInv, BaseInv, DTypeOK, Discoveries
      <4>2. /\ \A n \in DOMAIN d : d[n] \in Events
            /\ e # <<>> => e[Len(e)] \in Events
            /\ d # <<>> => d[Len(d)] \in Events
        BY <4>1
      <4>3. fromSeq[p] \in Nat
        BY DEF StreamTypeOK
      <4>4. QED  BY <4>2, <4>3 DEF Events
    <3>5. /\ \A n \in DOMAIN wire[p] : wire[p][n].type = "done" =>
               /\ Completed(i)
               /\ FoundFeed(i) => \/ listed[p] # <<>>
                                  \/ \E m \in 1..(n - 1) : wire[p][m].type = "results"
          /\ fromSeq[p] # 0 => e # <<>> /\ fromSeq[p] <= e[Len(e)].seq
          /\ \A n \in DOMAIN e : e[n].type = "results" /\ e[n].seq <= fromSeq[p] => HasResults(p)
          /\ es[p] = "closed" /\ box[p] = "resolved_found" =>
               Completed(i) /\ (FoundFeed(i) => listed[p] # <<>>)
      BY <3>3 DEF Told
    <3>6. /\ Completed(i) => Completed(i)'
          /\ FoundFeed(i)' => FoundFeed(i) \/ ~Completed(i)
          /\ e # <<>> => d # <<>> /\ e[Len(e)].seq <= d[Len(d)].seq
          /\ \A n \in DOMAIN d : \/ \E m \in DOMAIN e : d[n] = e[m]
                                 \/ e # <<>> => d[n].seq > e[Len(e)].seq
      BY <3>2 DEF GoesOn
    <3> HIDE DEF d, e
    <3>7. fromSeq[p] # 0 => d # <<>> /\ fromSeq[p] <= d[Len(d)].seq
      BY <3>4, <3>5, <3>6
    <3>8. ASSUME NEW n \in DOMAIN d, d[n].type = "results", d[n].seq <= fromSeq[p]
          PROVE  HasResults(p)
      <4>1. CASE \E m \in DOMAIN e : d[n] = e[m]
        BY <3>5, <3>8, <4>1
      <4>2. CASE e # <<>> => d[n].seq > e[Len(e)].seq
        BY <3>4, <3>5, <3>8, <4>2
      <4>3. QED  BY <3>6, <4>1, <4>2
    <3>9. HasResults(p)' <=> HasResults(p)
      BY DEF HasResults, streamVars
    <3>10. UNCHANGED <<es, fromSeq, wire, box, listed>>
      BY DEF streamVars
    <3> HIDE DEF i
    <3>11. /\ \A n \in DOMAIN wire'[p] : wire'[p][n].type = "done" =>
               /\ Completed(i)'
               /\ FoundFeed(i)' => \/ listed'[p] # <<>>
                                   \/ \E m \in 1..(n - 1) : wire'[p][m].type = "results"
           /\ es'[p] = "closed" /\ box'[p] = "resolved_found" =>
               Completed(i)' /\ (FoundFeed(i)' => listed'[p] # <<>>)
      BY <3>5, <3>6, <3>10
    <3>12. QED
      BY <3>1, <3>7, <3>8, <3>9, <3>10, <3>11 DEF Told, d, i
  <2>5. QED  BY <2>3, <2>4
<1>6. QED  BY <1>3, <1>4, <1>5 DEF ToldInv

\* What the service keeps while it serves.
LEMMA NextService == ServiceInv /\ [SNext]_vars => ServiceInv'
  BY NextBase, NextFirst, NextNumbers, NextOrder, NextReply, NextRunLog DEF ServiceInv

\* StreamInv holds at the start.
LEMMA InitStream == StreamInit => StreamInv
<1> SUFFICES ASSUME StreamInit  PROVE StreamInv
  OBVIOUS
<1>1. SInit /\ BaseInv /\ FirstRunInv
  BY InitBase, InitFirst DEF StreamInit
<1>2. \A i \in Ids : disc[i].events = <<>> /\ disc[i].status = "absent"
  BY <1>1 DEF SInit, DInit, NoDiscovery
<1>3. /\ \A a \in Actors : pc[a] = "idle" /\ held[a] = 0
      /\ \A r \in Requests : reply[r] = NoId
  BY <1>1 DEF SInit
<1>4. SeqsDistinct
  BY <1>2, <1>3, NumberedIsDistinct DEF Numbered, Carries
<1>5. OrderInv
  <2> SUFFICES ASSUME NEW i \in Ids  PROVE Ordered(i)
    BY DEF OrderInv
  <2>1. QED  BY <1>2, <1>3 DEF Ordered, Carries
<1>6. ReplyInv
  BY <1>3 DEF ReplyInv, Actors
<1>7. RunLogInv
  <2> SUFFICES ASSUME NEW i \in Ids  PROVE RunLog(i)
    BY DEF RunLogInv
  <2>1. ~FoundFeed(i) /\ ~RunsAt(i, "finishing")
    BY <1>2, <1>3 DEF FoundFeed, RunsAt, Actors
  <2>2. QED  BY <1>2, <2>1 DEF RunLog
<1>8. StreamTypeOK
  BY DEF StreamInit, StreamTypeOK
<1>9. PageInv
  BY DEF StreamInit, PageInv, PageOK
<1>10. ToldInv
  BY <1>3, StreamAssumption DEF ToldInv, StreamAssumption
<1>11. QED
  BY <1>1, <1>4, <1>5, <1>6, <1>7, <1>8, <1>9, <1>10 DEF StreamInv, ServiceInv

\* A step of the stream is a step of the service or of one page.
LEMMA StreamSteps ==
  [StreamNext]_allVars =>
    \/ [SNext]_vars /\ UNCHANGED streamVars
    \/ \E p \in Pages : PageStep(p)
  BY DEF StreamNext, allVars, PageStep

\* Every step keeps StreamInv.
LEMMA NextStream == StreamInv /\ [StreamNext]_allVars => StreamInv'
<1> SUFFICES ASSUME StreamInv, [StreamNext]_allVars  PROVE StreamInv'
  OBVIOUS
<1>1. CASE [SNext]_vars /\ UNCHANGED streamVars
  <2>1. ServiceInv'
    BY <1>1, NextService DEF StreamInv
  <2>2. QED  BY <1>1, <2>1, ServiceKeepsTold DEF StreamInv
<1>2. ASSUME NEW p \in Pages, PageStep(p)  PROVE StreamInv'
  <2>1. UNCHANGED vars /\ \A q \in Pages : q # p => UNCHANGED View(q)
    BY <1>2, StepsOfOne DEF StreamInv
  <2>2. ServiceInv'
    BY <2>1, NextService DEF StreamInv
  <2>3. StreamTypeOK' /\ PageOK(p)'
    BY <1>2, PageStepType, PageStepOK DEF StreamInv
  <2>4. PageInv'
    BY <2>1, <2>3, SameView DEF StreamInv, PageInv
  <2>5. UNCHANGED <<reply, restarted>>
    BY <2>1 DEF vars, serviceVars
  <2>6. ASSUME NEW q \in Pages, reply[q] # NoId, reply[q] \notin restarted  PROVE Told(q)'
    <3>1. Told(q)
      BY <2>6 DEF StreamInv, ToldInv
    <3>2. CASE q # p
      BY <2>1, <3>1, <3>2, SameView
    <3>3. CASE q = p
      <4>1. reply[p] \in Ids \ restarted
        BY <2>6, <3>3, FollowedExists DEF StreamInv
      <4>2. QED  BY <1>2, <2>2, <3>1, <3>3, <4>1, PageStepTold DEF StreamInv
    <3>4. QED  BY <3>2, <3>3
  <2>7. ToldInv'
    BY <2>5, <2>6 DEF ToldInv
  <2>8. QED  BY <2>2, <2>3, <2>4, <2>7 DEF StreamInv
<1>3. QED  BY <1>1, <1>2, StreamSteps

------------------------------------------------------------------------------
(* Theorems *)

\* StreamInv is an invariant.
LEMMA StreamInvariant == StreamSpec => []StreamInv
  BY InitStream, NextStream, PTL DEF StreamSpec

\* Streams only read: a service that is followed is a service, so all that is
\* proved of DiscoveryService holds while pages follow its discoveries.
LEMMA StreamsOnlyRead == StreamSpec => SSpec
<1>1. StreamInit => SInit
  BY DEF StreamInit
<1>2. StreamInv /\ [StreamNext]_allVars => [SNext]_vars
  BY StreamSteps, StepsOfOne DEF StreamInv
<1>3. QED  BY <1>1, <1>2, StreamInvariant, PTL DEF StreamSpec, SSpec

\* Every variable of the stream keeps its type, and a handler runs exactly
\* while its page is connected.
THEOREM StreamTypes == StreamSpec => []StreamTypeOK
  BY StreamInvariant, PTL DEF StreamInv

\* A page is told that a first run is complete only when it is, for any
\* number of pages, requests and polls.
THEOREM CompletionIsTrue == StreamSpec => []CompleteIsTrue
<1>1. StreamInv => CompleteIsTrue
  <2> SUFFICES ASSUME StreamInv, NEW p \in Pages, es[p] = "closed",
                      box[p] = "resolved_found", reply[p] \notin restarted
               PROVE  \/ Followed(p).status \in {"resolved_found", "resolved_none"}
                      \/ \E w \in Workers : wkey[w] = reply[p] /\ pc[w] \in {"setNone", "setFound"}
    BY DEF CompleteIsTrue
  <2>1. reply[p] # NoId
    BY DEF StreamInv, PageInv, PageOK
  <2>2. Completed(reply[p])
    BY <2>1 DEF StreamInv, ToldInv, Told
  <2>3. QED  BY <2>2 DEF Completed, RunsAt, Followed
<1>2. QED  BY <1>1, StreamInvariant, PTL

\* No result of a first run is lost between two polls: a page that is told
\* the run is complete lists what it has found, for every log of at least two.
THEOREM FoundFeedsAreListed == StreamSpec => []FoundIsListed
<1>1. StreamInv => FoundIsListed
  <2> SUFFICES ASSUME StreamInv, NEW p \in Pages, es[p] = "closed",
                      box[p] = "resolved_found", reply[p] \notin restarted,
                      Followed(p).status = "resolved_found"
               PROVE  listed[p] # <<>>
    BY DEF FoundIsListed
  <2>1. reply[p] # NoId
    BY DEF StreamInv, PageInv, PageOK
  <2>2. FoundFeed(reply[p]) => listed[p] # <<>>
    BY <2>1 DEF StreamInv, ToldInv, Told
  <2>3. QED  BY <2>2 DEF FoundFeed, Followed
<1>2. QED  BY <1>1, StreamInvariant, PTL

=============================================================================
