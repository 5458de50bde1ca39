--------------------------- MODULE LifecycleProofs ---------------------------
(***************************************************************************)
(* Theorems about Lifecycle, for every set of requests, workers and        *)
(* discoveries.                                                            *)
(*                                                                         *)
(* The process lets the service do no more than DiscoveryService says, so  *)
(* the invariants of DiscoveryServiceProofs hold during the whole life of  *)
(* the process.  FirstRunIsOwned says nothing once Stop is called; WorkInv *)
(* does: a pending first run that no job serves has a request that is      *)
(* still starting it, or panicked.  When the process exits Stop has        *)
(* returned, so no job is left, and after a clean shutdown no such request *)
(* either (LifeInv).                                                       *)
(***************************************************************************)
EXTENDS Lifecycle, DiscoveryServiceProofs

\* Every step of the process is one of the service or leaves it alone.
LEMMA ProcessRunsService == LSpec => SSpec
<1>1. LInit => SInit
  BY DEF LInit
<1>2. [LNext]_lvars => [SNext]_vars
  <2> SUFFICES ASSUME LNext  PROVE [SNext]_vars
    BY DEF lvars
  <2>1. CASE Running
    BY <2>1 DEF Running, Arrive, SNext
  <2>2. CASE RunStops
    BY <2>2 DEF RunStops, SNext
  <2>3. CASE Signal \/ ServeFails \/ ShutdownReturns \/ ShutdownTimesOut \/ MainReturns \/ Exited
    BY <2>3 DEF Signal, ServeFails, ShutdownReturns, ShutdownTimesOut, MainReturns, Exited
  <2>4. QED  BY <2>1, <2>2, <2>3 DEF LNext
<1>3. QED  BY <1>1, <1>2, PTL DEF LSpec, SSpec

------------------------------------------------------------------------------
\* The request has been answered as its handler meant to, or has not arrived.
AtRest(r) == pc[r] \in {"idle", "replied"}

\* What a clean shutdown waits for.
Settled == \A r \in Requests : AtRest(r)

\* Stop is called when Serve has returned, a panic needs a closed channel,
\* and after a clean shutdown only the workers have something to do.
LifeInv ==
  /\ phase \in {"serving", "shutdown"} => stop = "open" /\ ~clean
  /\ stop = "open" => \A r \in Requests : pc[r] # "panicked"
  /\ phase = "exited" => stop = "stopped"
  /\ clean => Settled

LEMMA InitLife == LInit => LifeInv
  BY DEF LInit, SInit, Q!QInit, Actors, LifeInv

LEMMA RunningKeepsStop ==
  ASSUME BaseInv, Running
  PROVE  stop' = stop \/ (stop = "closing" /\ stop' = "stopped")
<1>1. CASE \E w \in Workers : WorkerStep(w)
  BY <1>1, WorkerLeavesRequests
<1>2. ASSUME NEW r \in Requests, Arrive(r) \/ RequestStep(r) \/ EnqueueCancel(r)
      PROVE  stop' = stop
  <2>1. CASE \/ EnqueueDuplicate(r) \/ EnqueueMark(r) \/ EnqueueSend(r)
             \/ EnqueuePanic(r) \/ EnqueueCancel(r)
    BY <2>1 DEF EnqueueDuplicate, EnqueueMark, EnqueueSend, EnqueuePanic, EnqueueCancel,
                Q!EnqueueDuplicate, Q!EnqueueMark, Q!EnqueueSend, Q!EnqueuePanic,
                Q!EnqueueCancel, Q!queueVars
  <2>2. CASE ~(\/ EnqueueDuplicate(r) \/ EnqueueMark(r) \/ EnqueueSend(r)
               \/ EnqueuePanic(r) \/ EnqueueCancel(r))
    BY <1>2, <2>2 DEF Arrive, SearchKnown, RequestStep, SkipDiscovery, ShouldDiscover, StartNew,
                      StartJoins, StartAgain, ResetDiscovery, TakeSeq, AppendEvent, StartFails,
                      queueVars
  <2>3. QED  BY <2>1, <2>2
<1>3. CASE StopReturn \/ \E i \in Ids : SubscribeToFeed(i)
  BY <1>3 DEF StopReturn, Q!StopReturn, SubscribeToFeed, queueVars
<1>4. QED  BY <1>1, <1>2, <1>3 DEF Running

\* After a clean shutdown, only workers and Stop still do something.
LEMMA RunningKeepsSettled ==
  ASSUME BaseInv, clean, Settled, Running
  PROVE  Settled'
<1>1. \A r \in Requests : ~Arrive(r) /\ ~RequestStep(r) /\ ~EnqueueCancel(r)
  <2> SUFFICES ASSUME NEW r \in Requests
               PROVE  ~Arrive(r) /\ ~RequestStep(r) /\ ~EnqueueCancel(r)
    OBVIOUS
  <2>1. pc[r] \in {"idle", "replied"} /\ r \in Actors
    BY DEF Settled, AtRest, Actors
  <2>2. pc[r] \notin DOMAIN Emission /\ ~TakeSeq(r) /\ ~AppendEvent(r)
    BY <2>1, Emissions DEF TakeSeq, AppendEvent, BaseInv, Links
  <2>3. QED
    BY <2>1, <2>2
    DEF Arrive, RequestStep, SkipDiscovery, ShouldDiscover, StartNew, StartJoins, StartAgain,
        ResetDiscovery, EnqueueDuplicate, EnqueueMark, EnqueueSend, EnqueuePanic, EnqueueCancel,
        StartFails, At
<1>2. CASE \E w \in Workers : WorkerStep(w)
  BY <1>2, WorkerLeavesRequests DEF Settled, AtRest
<1>3. CASE StopReturn \/ \E i \in Ids : SubscribeToFeed(i)
  BY <1>3 DEF StopReturn, SubscribeToFeed, serviceVars, Settled, AtRest
<1>4. QED  BY <1>1, <1>2, <1>3 DEF Running

\* While the channel is open no request panics.
LEMMA RequestsDoNotPanic ==
  ASSUME BaseInv, Running, stop' = "open", stop = "open" => \A r \in Requests : pc[r] # "panicked"
  PROVE  \A r \in Requests : pc'[r] # "panicked"
<1>1. stop = "open"
  BY RunningKeepsStop
<1>2. CASE \E r \in Requests : Arrive(r) \/ RequestStep(r) \/ EnqueueCancel(r)
  <2>1. PICK r \in Requests : Arrive(r) \/ RequestStep(r) \/ EnqueueCancel(r)
    BY <1>2
  <2>2. ~EnqueuePanic(r)
    BY <1>1 DEF EnqueuePanic, Q!EnqueuePanic, Q!ChannelClosed
  <2>3. CASE TakeSeq(r)
    BY <1>1, <2>3 DEF TakeSeq
  <2>4. CASE AppendEvent(r)
    <3>1. Goto(r, Emission[pc[r]].next) /\ pc[r] \in DOMAIN Emission
      BY <2>4 DEF AppendEvent, BaseInv, Links, Actors
    <3>2. Emission[pc[r]].next \in {"enqueue", "setError"}
      BY <3>1, Emissions DEF BaseInv, ServiceTypeOK, RequestPCs
    <3>3. QED  BY <1>1, <3>1, <3>2, MoveRequest DEF RequestPCs
  <2>5. CASE ~TakeSeq(r) /\ ~AppendEvent(r)
    <3>1. PICK l \in RequestPCs \ {"panicked"} : Goto(r, l)
      BY <2>1, <2>2, <2>5
      DEF Arrive, SearchKnown, RequestStep, SkipDiscovery, ShouldDiscover, StartNew, StartJoins,
          StartAgain, ResetDiscovery, EnqueueDuplicate, EnqueueMark, EnqueueSend, EnqueueCancel,
          StartFails, At, RequestPCs
    <3>2. QED  BY <1>1, <3>1, MoveRequest
  <2>6. QED  BY <2>3, <2>4, <2>5
<1>3. CASE \E w \in Workers : WorkerStep(w)
  <2>1. \A r \in Requests : pc'[r] = pc[r]
    BY <1>3, WorkerLeavesRequests
  <2>2. QED  BY <1>1, <2>1
<1>4. CASE StopReturn \/ \E i \in Ids : SubscribeToFeed(i)
  BY <1>1, <1>4 DEF StopReturn, SubscribeToFeed, serviceVars
<1>5. QED  BY <1>2, <1>3, <1>4 DEF Running

LEMMA NextLife ==
  ASSUME BaseInv, LifeInv, [LNext]_lvars
  PROVE  LifeInv'
<1>1. CASE UNCHANGED lvars \/ Exited
  BY <1>1 DEF Exited, lvars, vars, lifeVars, queueVars, serviceVars, LifeInv, Settled, AtRest
<1>2. CASE Signal \/ ServeFails \/ ShutdownTimesOut \/ MainReturns
  <2>1. UNCHANGED <<vars, clean>>
    BY <1>2 DEF Signal, ServeFails, ShutdownTimesOut, MainReturns
  <2>2. Settled' <=> Settled
    BY <2>1 DEF vars, serviceVars, Settled, AtRest
  <2>3. QED
    BY <1>2, <2>1, <2>2 DEF Signal, ServeFails, ShutdownTimesOut, MainReturns, LifeInv, vars,
                            queueVars, serviceVars
<1>3. CASE ShutdownReturns
  <2>1. /\ phase = "shutdown" /\ phase' = "returned" /\ UNCHANGED vars
        /\ \A r \in Requests : ~Active(r)
    BY <1>3 DEF ShutdownReturns
  <2>2. stop = "open" /\ Settled
    BY <2>1 DEF LifeInv, Active, Settled, AtRest
  <2>3. Settled'
    BY <2>1, <2>2 DEF vars, serviceVars, Settled, AtRest
  <2>4. QED
    BY <2>1, <2>2, <2>3 DEF LifeInv, vars, queueVars, serviceVars
<1>4. CASE RunStops
  <2>1. /\ phase = "returned" /\ stop' = "closing"
        /\ UNCHANGED <<serviceVars, lifeVars>>
    BY <1>4 DEF RunStops, StopClose, Q!StopClose
  <2>2. Settled' <=> Settled
    BY <2>1 DEF serviceVars, Settled, AtRest
  <2>3. QED  BY <2>1, <2>2 DEF LifeInv, lifeVars
<1>5. CASE phase # "exited" /\ Running /\ UNCHANGED lifeVars
  <2>1. stop' = "open" => \A r \in Requests : pc'[r] # "panicked"
    BY <1>5, RequestsDoNotPanic DEF LifeInv
  <2>2. stop' = stop \/ (stop = "closing" /\ stop' = "stopped")
    BY <1>5, RunningKeepsStop
  <2>3. clean => Settled'
    BY <1>5, RunningKeepsSettled DEF LifeInv
  <2>4. QED
    BY <1>5, <2>1, <2>2, <2>3 DEF LifeInv, lifeVars
<1>6. QED  BY <1>1, <1>2, <1>3, <1>4, <1>5 DEF LNext

LEMMA LifeInvariant == LSpec => [](BaseInv /\ WorkInv /\ LifeInv)
<1>1. LInit => LifeInv
  BY InitLife
<1>2. BaseInv /\ LifeInv /\ [LNext]_lvars => LifeInv'
  BY NextLife
<1>3. LSpec => []BaseInv /\ []WorkInv
  BY ProcessRunsService, BaseInvariant, WorkInvariant, PTL
<1>4. QED  BY <1>1, <1>2, <1>3, PTL DEF LSpec

\* When the process exits, Stop has waited for the jobs: a pending first run
\* has a request that did not get through Enqueue.
LEMMA ExitLeavesStarters ==
  ASSUME BaseInv, WorkInv, LifeInv, phase = "exited",
         NEW i \in Ids \ restarted, disc[i].status = "pending"
  PROVE  \E r \in Requests : Starting(r, i) \/ (req[r] = i /\ pc[r] = "panicked")
<1>1. stop = "stopped"
  BY DEF LifeInv
<1>2. \A w \in Workers : wpc[w] = "exited"
  BY <1>1 DEF BaseInv, QP!IndInv, QP!ExitedIsDrained
<1>3. jobs = <<>>
  BY <1>2, ServiceAssumption DEF ServiceAssumption, BaseInv, QP!IndInv, QP!ExitedIsDrained
<1>4. \A w \in Workers : pc[w] = "idle"
  BY <1>2 DEF BaseInv, Links
<1>5. ~Q!Queued(i) /\ ~InProgress(i)
  BY <1>3, <1>4 DEF Q!Queued, InProgress
<1>6. QED  BY <1>5 DEF WorkInv, Served

\* However the process ends, also when Shutdown timed out or Serve failed, and
\* however many handlers still ran while the queue was stopped: a first run
\* that it leaves pending is one whose Enqueue had not returned or panicked.
THEOREM CutOffStartsOnly == LSpec => []OnlyCutOffStartsAreLost
<1>1. BaseInv /\ WorkInv /\ LifeInv => OnlyCutOffStartsAreLost
  BY ExitLeavesStarters DEF OnlyCutOffStartsAreLost
<1>2. QED  BY <1>1, LifeInvariant, PTL

\* A shutdown that did not time out loses nothing, for any number of searches
\* and any capacity: when the process exits, every search that arrived was
\* answered, and every discovery that was not restarted has its outcome.
THEOREM CleanShutdownLosesNothing == LSpec => []CleanExitLosesNothing
<1>1. BaseInv /\ WorkInv /\ LifeInv => CleanExitLosesNothing
  <2> SUFFICES ASSUME BaseInv, WorkInv, LifeInv, clean, phase = "exited"
               PROVE  /\ \A r \in Requests : pc[r] \in {"idle", "replied"}
                      /\ \A i \in Ids \ restarted : disc[i].status # "pending"
    BY DEF CleanExitLosesNothing
  <2>1. \A r \in Requests : pc[r] \in {"idle", "replied"}
    BY DEF LifeInv, Settled, AtRest
  <2>2. \A r \in Requests, i \in Ids : ~Starting(r, i) /\ pc[r] # "panicked"
    BY <2>1 DEF Starting
  <2>3. QED  BY <2>1, <2>2, ExitLeavesStarters
<1>2. QED  BY <1>1, LifeInvariant, PTL

=============================================================================
