----------------------- MODULE DiscoveryServiceProofs -----------------------
(***************************************************************************)
(* Theorems about DiscoveryService, for every set of requests, workers and *)
(* discoveries.                                                            *)
(*                                                                         *)
(* The queue's part is not proved again: every step of the service is a    *)
(* step of JobQueue or leaves it alone (StepUsesQueue), so the invariant   *)
(* that JobQueueProofs proves holds here.  Links says how the place of     *)
(* each goroutine corresponds to the queue's state.                        *)
(*                                                                         *)
(* FirstRunIsOwned is not inductive: that the job of a first run is not    *)
(* dropped as a duplicate depends on no job of it being alive before its   *)
(* Enqueue, and that on its having one starter.  FirstRun adds both.       *)
(***************************************************************************)
EXTENDS DiscoveryService, TLAPS

(* The store: what each of its operations keeps. *)

\* The log that AppendDiscoveryEvent leaves: at most MaxEvents events, the
\* new one and some of the old ones, in their old order.
LEMMA LastEventsOfAppend ==
  ASSUME NEW s \in Seq(Events), Len(s) <= MaxEvents, NEW e \in Events
  PROVE  LET t == LastEvents(Append(s, e)) IN
           /\ t \in Seq(Events)
           /\ Len(t) <= MaxEvents
           /\ DOMAIN t = 1..Len(t)
           /\ Len(t) \in Nat \ {0}
           /\ t[Len(t)] = e
           /\ \E k \in {0, 1} :
                /\ Len(t) = Len(s) + 1 - k
                /\ \A n \in 1..(Len(t) - 1) : n + k \in DOMAIN s /\ t[n] = s[n + k]
<1> DEFINE a == Append(s, e)
           t == LastEvents(a)
<1>1. /\ a \in Seq(Events) /\ Len(a) = Len(s) + 1 /\ a[Len(s) + 1] = e
      /\ \A n \in 1..Len(s) : n \in DOMAIN s /\ a[n] = s[n]
      /\ Len(s) \in Nat /\ MaxEvents \in Nat \ {0}
  BY StoreAssumption DEF StoreAssumption
<1>2. t = IF Len(a) > MaxEvents THEN SubSeq(a, Len(a) - MaxEvents + 1, Len(a)) ELSE a
  BY DEF LastEvents
<1> HIDE DEF a, t
<1>3. CASE Len(s) = MaxEvents
  <2>1. t = SubSeq(a, 2, Len(s) + 1)
    BY <1>1, <1>2, <1>3
  <2>2. t \in Seq(Events) /\ Len(t) = Len(s) /\ \A n \in 1..Len(s) : t[n] = a[n + 1]
    BY <1>1, <2>1
  <2>3. t[Len(t)] = e
    BY <1>1, <1>3, <2>2
  <2>4. \A n \in 1..(Len(t) - 1) : n + 1 \in DOMAIN s /\ t[n] = s[n + 1]
    <3>1. SUFFICES ASSUME NEW n \in 1..(Len(s) - 1)
                   PROVE  n + 1 \in DOMAIN s /\ t[n] = s[n + 1]
      BY <2>2
    <3>2. n \in 1..Len(s) /\ n + 1 \in 1..Len(s)
      BY <1>1
    <3>3. QED  BY <1>1, <2>2, <3>2
  <2>5. Len(t) = Len(s) + 1 - 1 /\ Len(t) <= MaxEvents /\ DOMAIN t = 1..Len(t)
        /\ Len(t) \in Nat \ {0}
    BY <1>1, <1>3, <2>2
  <2>6. QED  BY <2>2, <2>3, <2>4, <2>5 DEF t, a
<1>4. CASE Len(s) < MaxEvents
  <2>1. t = a
    BY <1>1, <1>2, <1>4
  <2>2. /\ t \in Seq(Events) /\ Len(t) <= MaxEvents /\ DOMAIN t = 1..Len(t)
        /\ Len(t) \in Nat \ {0} /\ t[Len(t)] = e /\ Len(t) = Len(s) + 1 - 0
        /\ \A n \in 1..(Len(t) - 1) : n + 0 \in DOMAIN s /\ t[n] = s[n + 0]
    BY <1>1, <1>4, <2>1
  <2>3. QED  BY <2>2 DEF t, a
<1>5. QED  BY <1>1, <1>3, <1>4

\* NewDiscoveryStore gives every discovery its type.
LEMMA InitType == DInit => DTypeOK
  BY StoreAssumption DEF StoreAssumption, DInit, DTypeOK, NoDiscovery, Discoveries

\* Replacing one discovery by another keeps the types.
LEMMA ReplaceType ==
  ASSUME DTypeOK, NEW i \in Ids, NEW d \in Discoveries, Len(d.events) <= MaxEvents,
         disc' = [disc EXCEPT ![i] = d]
  PROVE  DTypeOK'
  BY DEF DTypeOK

\* CreateOrGetDiscovery keeps the types.
LEMMA CreateType ==
  ASSUME DTypeOK, NEW i \in Ids, CreateDiscovery(i)
  PROVE  DTypeOK'
<1> DEFINE d == [disc[i] EXCEPT !.status = "pending"]
<1>1. d \in Discoveries /\ d.events = disc[i].events /\ disc' = [disc EXCEPT ![i] = d]
  BY DEF DTypeOK, CreateDiscovery, Discoveries
<1>2. QED  BY <1>1, ReplaceType DEF DTypeOK

\* NextSeq keeps the types: the counter stays a natural number.
LEMMA NextSeqType ==
  ASSUME DTypeOK, NEW i \in Ids, NextSeq(i)
  PROVE  DTypeOK'
<1> DEFINE d == [disc[i] EXCEPT !.seq = @ + 1]
<1>1. disc' = [disc EXCEPT ![i] = d]
  BY DEF DTypeOK, NextSeq
<1>2. disc[i].seq + 1 \in Nat /\ disc[i] \in Discoveries
  BY DEF DTypeOK, Discoveries
<1>3. d \in Discoveries /\ d.events = disc[i].events
  BY <1>2 DEF Discoveries
<1>4. QED  BY <1>1, <1>3, ReplaceType DEF DTypeOK

\* UpdateDiscovery keeps the types when it sets the status ...
LEMMA UpdateStatusType ==
  ASSUME DTypeOK, NEW i \in Ids, NEW s \in Terminal \cup {"pending"}, UpdateStatus(i, s)
  PROVE  DTypeOK'
<1> DEFINE d == [disc[i] EXCEPT !.status = s]
<1>1. d \in Discoveries /\ d.events = disc[i].events /\ disc' = [disc EXCEPT ![i] = d]
  BY DEF DTypeOK, UpdateStatus, Discoveries
<1>2. QED  BY <1>1, ReplaceType DEF DTypeOK

\* ... and when it sets status and results.
LEMMA UpdateDiscoveryType ==
  ASSUME DTypeOK, NEW i \in Ids, NEW s \in Terminal \cup {"pending"}, NEW b \in BOOLEAN,
         UpdateDiscovery(i, s, b)
  PROVE  DTypeOK'
<1> DEFINE d == [disc[i] EXCEPT !.status = s, !.results = b]
<1>1. d \in Discoveries /\ d.events = disc[i].events /\ disc' = [disc EXCEPT ![i] = d]
  BY DEF DTypeOK, UpdateDiscovery, Discoveries
<1>2. QED  BY <1>1, ReplaceType DEF DTypeOK

\* AppendDiscoveryEvent keeps the types and the bound of the log.
LEMMA AppendType ==
  ASSUME DTypeOK, NEW i \in Ids, NEW n \in Nat \ {0}, NEW t \in EventTypes,
         AppendDiscoveryEvent(i, n, t)
  PROVE  DTypeOK'
<1> DEFINE e == [seq |-> n, type |-> t]
           l == LastEvents(Append(disc[i].events, e))
           d == [disc[i] EXCEPT !.events = l]
<1>1. e \in Events /\ disc[i].events \in Seq(Events) /\ Len(disc[i].events) <= MaxEvents
  BY DEF Events, DTypeOK, Discoveries
<1>2. l \in Seq(Events) /\ Len(l) <= MaxEvents
  BY <1>1, LastEventsOfAppend
<1>3. disc' = [disc EXCEPT ![i] = d]
  BY DEF AppendDiscoveryEvent, DTypeOK
<1> HIDE DEF l
<1>4. d \in Discoveries /\ d.events = l
  BY <1>2 DEF DTypeOK, Discoveries
<1>5. QED  BY <1>2, <1>3, <1>4, ReplaceType

------------------------------------------------------------------------------
(* The service and the queue *)

QP == INSTANCE JobQueueProofs WITH Callers <- Requests, Keys <- Ids, NoKey <- NoId

LEMMA QueueAssumed == QP!QueueAssumption
  BY ServiceAssumption DEF ServiceAssumption, QP!QueueAssumption

\* Q and QP are one module under two names.
LEMMA SameInit == Q!QInit => QP!QInit
  BY DEF Q!QInit, QP!QInit

LEMMA SameNext == [Q!QNext]_(Q!queueVars) => [QP!QNext]_(QP!queueVars)
  BY DEF Q!QNext, QP!QNext, Q!queueVars, QP!queueVars, Q!MuFree, QP!MuFree,
     Q!ChannelClosed, QP!ChannelClosed, Q!LeaveSelect, QP!LeaveSelect,
     Q!EnqueueDuplicate, QP!EnqueueDuplicate, Q!EnqueueMark, QP!EnqueueMark,
     Q!EnqueueSend, QP!EnqueueSend, Q!EnqueueCancel, QP!EnqueueCancel,
     Q!EnqueuePanic, QP!EnqueuePanic, Q!Receive, QP!Receive,
     Q!RunReturns, QP!RunReturns, Q!Forget, QP!Forget, Q!Exit, QP!Exit,
     Q!StopClose, QP!StopClose, Q!StopReturn, QP!StopReturn

\* How the places of the requests and the workers relate to the queue.
Links ==
  /\ \A w \in Workers : pc[w] # "idle" => wpc[w] = "running"
  /\ \A w \in Workers : wpc[w] = "running" => pc[w] # "idle"
  /\ \A r \in Requests : sending[r] # NoId => pc[r] = "sending" /\ sending[r] = req[r]
  /\ \A r \in Requests : pc[r] = "sending" => sending[r] # NoId
  /\ \A r \in Requests : pc[r] # "idle" => req[r] \in Ids
  /\ \A a \in Actors : held[a] # 0 => pc[a] \in DOMAIN Emission

BaseInv == QP!IndInv /\ DTypeOK /\ ServiceTypeOK /\ Links

\* Where an event is emitted, by whom, and where its emitter goes on.
LEMMA Emissions ==
  /\ DOMAIN Emission =
       {"starting", "failing", "fetching", "fetchFailed", "noFeeds", "found", "finishing"}
  /\ \A l \in DOMAIN Emission : Emission[l].type \in EventTypes
  /\ Emission["starting"].next = "enqueue"
  /\ Emission["failing"].next = "setError"
  /\ Emission["fetching"].next = "fetch"
  /\ Emission["fetchFailed"].next = "setError"
  /\ Emission["noFeeds"].next = "setNone"
  /\ Emission["found"].next = "finishing"
  /\ Emission["finishing"].next = "setFound"
  BY DEF Emission, EventTypes

\* An actor that is not idle works on a discovery.
LEMMA Subjects ==
  ASSUME BaseInv, NEW a \in Actors, pc[a] # "idle"
  PROVE  Subject(a) \in Ids
  BY DEF BaseInv, Links, Actors, Subject, QP!IndInv, QP!WorkersHoldKeys, QP!Busy

LEMMA InitBase == SInit => BaseInv
<1> SUFFICES ASSUME SInit  PROVE BaseInv
  OBVIOUS
<1>1. QP!IndInv
  BY SameInit, QueueAssumed, QP!InitInd DEF SInit
<1>2. DTypeOK
  BY InitType DEF SInit
<1>3. ServiceTypeOK
  BY ServiceAssumption
  DEF ServiceAssumption, SInit, ServiceTypeOK, RequestPCs, WorkerPCs, Actors
<1>4. Links
  BY DEF SInit, Links, Actors, Q!QInit
<1>5. QED  BY <1>1, <1>2, <1>3, <1>4 DEF BaseInv

------------------------------------------------------------------------------
\* Every step of the service is a step of the queue or leaves it alone.
LEMMA StepUsesQueue ==
  ASSUME BaseInv, [SNext]_vars
  PROVE  [Q!QNext]_(Q!queueVars)
<1> USE DEF Q!queueVars, queueVars
<1>1. ASSUME NEW r \in Requests, EnqueueDuplicate(r) \/ EnqueueMark(r)
      PROVE  Q!QNext
  <2>1. req[r] \in Ids
    BY <1>1 DEF EnqueueDuplicate, EnqueueMark, At, BaseInv, Links
  <2>2. Q!EnqueueDuplicate(r, req[r]) \/ Q!EnqueueMark(r, req[r])
    BY <1>1 DEF EnqueueDuplicate, EnqueueMark
  <2>3. QED  BY <2>1, <2>2 DEF Q!QNext
<1>2. ASSUME NEW r \in Requests, EnqueueSend(r) \/ EnqueueCancel(r) \/ EnqueuePanic(r)
      PROVE  Q!QNext
  <2>1. Q!EnqueueSend(r) \/ Q!EnqueueCancel(r) \/ Q!EnqueuePanic(r)
    BY <1>2 DEF EnqueueSend, EnqueueCancel, EnqueuePanic
  <2>2. QED  BY <2>1 DEF Q!QNext
<1>3. ASSUME NEW r \in Requests,
             \/ \E i \in Ids : SearchKnown(r, i)
             \/ SkipDiscovery(r) \/ ShouldDiscover(r) \/ StartNew(r) \/ StartJoins(r)
             \/ StartAgain(r) \/ ResetDiscovery(r) \/ StartFails(r)
      PROVE  UNCHANGED Q!queueVars
  BY <1>3 DEF SearchKnown, SkipDiscovery, ShouldDiscover, StartNew, StartJoins, StartAgain,
              ResetDiscovery, StartFails
<1>4. ASSUME NEW a \in Actors, TakeSeq(a) \/ AppendEvent(a)  PROVE UNCHANGED Q!queueVars
  BY <1>4 DEF TakeSeq, AppendEvent
<1>5. ASSUME NEW w \in Workers, Receive(w) \/ RunReturns(w) \/ Forget(w) \/ Exit(w)
      PROVE  Q!QNext
  <2>1. Q!Receive(w) \/ Q!RunReturns(w) \/ Q!Forget(w) \/ Q!Exit(w)
    BY <1>5 DEF Receive, RunReturns, Forget, Exit
  <2>2. QED  BY <2>1 DEF Q!QNext
<1>6. ASSUME NEW w \in Workers,
             DiscoverFeeds(w) \/ SetError(w) \/ SetNone(w) \/ SetFound(w) \/ GetOrCreateFeed(w)
      PROVE  UNCHANGED Q!queueVars
  BY <1>6 DEF DiscoverFeeds, SetError, SetNone, SetFound, GetOrCreateFeed
<1>7. CASE StopClose \/ StopReturn
  <2>1. Q!StopClose \/ Q!StopReturn
    BY <1>7 DEF StopClose, StopReturn
  <2>2. QED  BY <2>1 DEF Q!QNext
<1>8. CASE Terminated \/ UNCHANGED vars \/ \E i \in Ids : SubscribeToFeed(i)
  BY <1>8 DEF Terminated, vars, SubscribeToFeed
<1>9. QED
  BY <1>1, <1>2, <1>3, <1>4, <1>5, <1>6, <1>7, <1>8
  DEF SNext, RequestStep, WorkerStep, Actors


------------------------------------------------------------------------------
(* Types and links *)

\* The part of ServiceTypeOK and Links that a step which moves one actor
\* from one place to another has to keep.
LEMMA MoveRequest ==
  ASSUME BaseInv, NEW r \in Requests, NEW l \in RequestPCs, Goto(r, l)
  PROVE  /\ pc' \in [Actors -> RequestPCs \cup WorkerPCs]
         /\ \A s \in Requests : pc'[s] \in RequestPCs /\ pc'[s] = IF s = r THEN l ELSE pc[s]
         /\ \A w \in Workers : pc'[w] \in WorkerPCs /\ pc'[w] = pc[w]
  BY ServiceAssumption DEF ServiceAssumption, BaseInv, ServiceTypeOK, Actors, Goto

LEMMA MoveWorker ==
  ASSUME BaseInv, NEW w \in Workers, NEW l \in WorkerPCs, Goto(w, l)
  PROVE  /\ pc' \in [Actors -> RequestPCs \cup WorkerPCs]
         /\ \A r \in Requests : pc'[r] \in RequestPCs /\ pc'[r] = pc[r]
         /\ \A v \in Workers : pc'[v] \in WorkerPCs /\ pc'[v] = IF v = w THEN l ELSE pc[v]
  BY ServiceAssumption DEF ServiceAssumption, BaseInv, ServiceTypeOK, Actors, Goto

\* Steps that only decide where a request goes, or that read a discovery.
LEMMA RequestControlBase ==
  ASSUME BaseInv, NEW r \in Requests,
         \/ \E i \in Ids : SearchKnown(r, i)
         \/ SkipDiscovery(r) \/ ShouldDiscover(r) \/ StartJoins(r) \/ StartAgain(r)
  PROVE  DTypeOK' /\ ServiceTypeOK' /\ Links'
<1>1. PICK l \in {"searched", "replied", "start", "reset"} : Goto(r, l)
  BY DEF SearchKnown, SkipDiscovery, ShouldDiscover, StartJoins, StartAgain, At
<1>2. l \in RequestPCs /\ l # "sending" /\ l # "idle"
  BY <1>1 DEF RequestPCs
<1>3. /\ pc[r] \in {"idle", "searched", "start"}
      /\ UNCHANGED <<disc, queueVars, known, held, restarted>>
  BY DEF SearchKnown, SkipDiscovery, ShouldDiscover, StartJoins, StartAgain, At
<1>4. /\ \A s \in Requests : s # r => req'[s] = req[s]
      /\ req'[r] \in Ids /\ req' \in [Requests -> Ids \cup {NoId}]
  BY DEF SearchKnown, SkipDiscovery, ShouldDiscover, StartJoins, StartAgain, At,
         BaseInv, Links, ServiceTypeOK
<1>5. hit' \in [Requests -> BOOLEAN]
  <2>1. ASSUME NEW i \in Ids, SearchKnown(r, i)  PROVE hit' \in [Requests -> BOOLEAN]
    <3>1. hit' = [hit EXCEPT ![r] = i \in known] /\ (i \in known) \in BOOLEAN
      BY <2>1 DEF SearchKnown
    <3>2. QED  BY <3>1 DEF BaseInv, ServiceTypeOK
  <2>2. QED
    BY <2>1 DEF SkipDiscovery, ShouldDiscover, StartJoins, StartAgain, BaseInv, ServiceTypeOK
<1>6. reply' \in [Requests -> Ids \cup {NoId}]
  BY DEF SearchKnown, SkipDiscovery, ShouldDiscover, StartJoins, StartAgain, At, ReplyWithId,
         BaseInv, Links, ServiceTypeOK
<1>7. DTypeOK'
  BY <1>3 DEF BaseInv, DTypeOK
<1>8. ServiceTypeOK'
  BY <1>1, <1>2, <1>3, <1>4, <1>5, <1>6, MoveRequest DEF BaseInv, ServiceTypeOK
<1>9. Links'
  BY <1>1, <1>2, <1>3, <1>4, MoveRequest, Emissions DEF BaseInv, Links, queueVars, Actors
<1>10. QED  BY <1>7, <1>8, <1>9


\* Steps of a request that change the status of its discovery.
LEMMA RequestStoreBase ==
  ASSUME BaseInv, NEW r \in Requests, StartNew(r) \/ ResetDiscovery(r) \/ StartFails(r)
  PROVE  DTypeOK' /\ ServiceTypeOK' /\ Links'
<1>1. PICK l \in {"starting", "replied"} : Goto(r, l)
  BY DEF StartNew, ResetDiscovery, StartFails, At
<1>2. l \in RequestPCs /\ l # "sending" /\ l # "idle"
  BY <1>1 DEF RequestPCs
<1>3. /\ pc[r] \in {"start", "reset", "setError"} /\ req[r] \in Ids
      /\ UNCHANGED <<queueVars, known, req, hit, held, reply>>
  BY DEF StartNew, ResetDiscovery, StartFails, At, BaseInv, Links
<1>4. DTypeOK'
  BY <1>3, CreateType, UpdateStatusType, UpdateDiscoveryType
  DEF StartNew, ResetDiscovery, StartFails, BaseInv, Terminal
<1>5. restarted' \subseteq Ids
  BY <1>3 DEF StartNew, ResetDiscovery, StartFails, BaseInv, ServiceTypeOK
<1>6. ServiceTypeOK'
  BY <1>1, <1>2, <1>3, <1>5, MoveRequest DEF BaseInv, ServiceTypeOK
<1>7. Links'
  BY <1>1, <1>2, <1>3, MoveRequest, Emissions DEF BaseInv, Links, queueVars, Actors
<1>8. QED  BY <1>4, <1>6, <1>7

\* The two steps of emitEvent.
LEMMA TakeSeqBase ==
  ASSUME BaseInv, NEW a \in Actors, TakeSeq(a)
  PROVE  DTypeOK' /\ ServiceTypeOK' /\ Links'
<1>1. pc[a] \in DOMAIN Emission /\ Subject(a) \in Ids
  BY Subjects, Emissions DEF TakeSeq
<1>2. DTypeOK'
  BY <1>1, NextSeqType DEF TakeSeq, BaseInv
<1>3. disc[Subject(a)].seq \in Nat
  BY <1>1 DEF BaseInv, DTypeOK, Discoveries
<1>4. ServiceTypeOK'
  BY <1>3 DEF TakeSeq, BaseInv, ServiceTypeOK
<1>5. \A b \in Actors : held'[b] # 0 => pc[b] \in DOMAIN Emission
  BY <1>1 DEF TakeSeq, BaseInv, ServiceTypeOK, Links
<1>6. Links'
  BY <1>5 DEF TakeSeq, BaseInv, Links, queueVars
<1>7. QED  BY <1>2, <1>4, <1>6

LEMMA AppendEventBase ==
  ASSUME BaseInv, NEW a \in Actors, AppendEvent(a)
  PROVE  DTypeOK' /\ ServiceTypeOK' /\ Links'
<1>1. pc[a] \in DOMAIN Emission /\ Subject(a) \in Ids /\ held[a] \in Nat \ {0}
  BY Subjects, Emissions DEF AppendEvent, BaseInv, Links, ServiceTypeOK
<1>2. DTypeOK'
  BY <1>1, AppendType, Emissions DEF AppendEvent, BaseInv
<1> DEFINE l == Emission[pc[a]].next
<1>3. Goto(a, l) /\ UNCHANGED <<queueVars, known, req, hit, reply, restarted>>
      /\ held' = [held EXCEPT ![a] = 0]
  BY DEF AppendEvent
<1>4. held' \in [Actors -> Nat] /\ \A b \in Actors : b # a => held'[b] = held[b]
  BY <1>3 DEF BaseInv, ServiceTypeOK
<1>5. held'[a] = 0
  BY <1>3 DEF BaseInv, ServiceTypeOK
<1>6. CASE a \in Requests
  <2>1. l \in {"enqueue", "setError"}
    BY <1>1, <1>6, Emissions DEF BaseInv, ServiceTypeOK, RequestPCs
  <2>2. l \in RequestPCs /\ l # "sending" /\ l # "idle" /\ pc[a] # "sending"
    BY <1>1, <2>1, Emissions DEF RequestPCs
  <2> HIDE DEF l
  <2>3. ServiceTypeOK'
    BY <1>3, <1>4, <1>6, <2>2, MoveRequest DEF BaseInv, ServiceTypeOK
  <2>4. Links'
    BY <1>1, <1>3, <1>4, <1>5, <1>6, <2>2, MoveRequest, Emissions
    DEF BaseInv, Links, queueVars, Actors
  <2>5. QED  BY <1>2, <2>3, <2>4
<1>7. CASE a \in Workers
  <2>1. l \in {"fetch", "setError", "setNone", "finishing", "setFound"}
    BY <1>1, <1>7, Emissions DEF BaseInv, ServiceTypeOK, WorkerPCs
  <2>2. l \in WorkerPCs /\ l # "idle" /\ pc[a] # "idle"
    BY <1>1, <2>1, Emissions DEF WorkerPCs
  <2> HIDE DEF l
  <2>3. ServiceTypeOK'
    BY <1>3, <1>4, <1>7, <2>2, MoveWorker DEF BaseInv, ServiceTypeOK
  <2>4. Links'
    BY <1>1, <1>3, <1>4, <1>5, <1>7, <2>2, MoveWorker, Emissions
    DEF BaseInv, Links, queueVars, Actors
  <2>5. QED  BY <1>2, <2>3, <2>4
<1>8. QED  BY <1>6, <1>7 DEF Actors

\* Enqueue.
LEMMA EnqueueBase ==
  ASSUME BaseInv, NEW r \in Requests,
         \/ EnqueueDuplicate(r) \/ EnqueueMark(r) \/ EnqueueSend(r)
         \/ EnqueueCancel(r) \/ EnqueuePanic(r)
  PROVE  DTypeOK' /\ ServiceTypeOK' /\ Links'
<1>1. /\ UNCHANGED <<disc, known, req, hit, held, restarted, wpc, wkey>>
      /\ pc[r] \in {"enqueue", "sending"}
  BY DEF EnqueueDuplicate, EnqueueMark, EnqueueSend, EnqueueCancel, EnqueuePanic, At,
         Q!EnqueueDuplicate, Q!EnqueueMark, Q!EnqueueSend, Q!EnqueueCancel, Q!EnqueuePanic,
         Q!queueVars
<1>2. req[r] \in Ids /\ reply' \in [Requests -> Ids \cup {NoId}]
  BY <1>1 DEF EnqueueDuplicate, EnqueueMark, EnqueueSend, EnqueueCancel, EnqueuePanic,
              ReplyWithId, BaseInv, Links, ServiceTypeOK
<1>3. PICK l \in {"replied", "sending", "failing", "panicked"} :
        /\ Goto(r, l)
        /\ l = "sending" => sending' = [sending EXCEPT ![r] = req[r]]
        /\ l # "sending" => sending' = [sending EXCEPT ![r] = NoId]
  <2>1. CASE EnqueueDuplicate(r)
    <3>1. sending[r] = NoId /\ sending' = sending /\ Goto(r, "replied")
      BY <2>1 DEF EnqueueDuplicate, At, Q!EnqueueDuplicate, Q!MuFree, Q!queueVars
    <3>2. sending' = [sending EXCEPT ![r] = NoId]
      BY <3>1 DEF BaseInv, QP!IndInv, QP!QTypeOK
    <3>3. QED  BY <3>1, <3>2
  <2>2. CASE EnqueueMark(r)
    BY <2>2 DEF EnqueueMark, At, Q!EnqueueMark
  <2>3. CASE EnqueueSend(r) \/ EnqueueCancel(r) \/ EnqueuePanic(r)
    BY <2>3 DEF EnqueueSend, EnqueueCancel, EnqueuePanic, At, Q!EnqueueSend, Q!EnqueueCancel,
                Q!EnqueuePanic, Q!LeaveSelect
  <2>4. QED  BY <2>1, <2>2, <2>3
<1>4. l \in RequestPCs /\ l # "idle" /\ req[r] # NoId
  BY <1>2, <1>3, ServiceAssumption DEF RequestPCs, ServiceAssumption
<1>5. DTypeOK'
  BY <1>1 DEF BaseInv, DTypeOK
<1>6. ServiceTypeOK'
  BY <1>1, <1>2, <1>3, <1>4, MoveRequest DEF BaseInv, ServiceTypeOK
<1>7. /\ \A s \in Requests : s # r => sending'[s] = sending[s]
      /\ sending'[r] = IF l = "sending" THEN req[r] ELSE NoId
  BY <1>3 DEF BaseInv, QP!IndInv, QP!QTypeOK
<1>8. Links'
  BY <1>1, <1>2, <1>3, <1>4, <1>7, MoveRequest, Emissions DEF BaseInv, Links, Actors
<1>9. QED  BY <1>5, <1>6, <1>8


\* The steps of Run between the receive and the return.
LEMMA RunBase ==
  ASSUME BaseInv, NEW w \in Workers,
         DiscoverFeeds(w) \/ SetError(w) \/ SetNone(w) \/ SetFound(w) \/ GetOrCreateFeed(w)
  PROVE  DTypeOK' /\ ServiceTypeOK' /\ Links'
<1>1. PICK l \in {"fetchFailed", "noFeeds", "found", "return", "persist"} : Goto(w, l)
  BY DEF DiscoverFeeds, SetError, SetNone, SetFound, GetOrCreateFeed, At
<1>2. l \in WorkerPCs /\ l # "idle"
  BY <1>1 DEF WorkerPCs
<1>3. /\ pc[w] \in {"fetch", "setError", "setNone", "setFound", "persist"}
      /\ UNCHANGED <<queueVars, req, hit, held, reply, restarted>>
  BY DEF DiscoverFeeds, SetError, SetNone, SetFound, GetOrCreateFeed, At
<1>4. wkey[w] \in Ids
  BY <1>3, ServiceAssumption, Subjects DEF Subject, Actors, ServiceAssumption
<1>5. DTypeOK'
  <2>1. CASE DiscoverFeeds(w) \/ GetOrCreateFeed(w)
    BY <2>1 DEF DiscoverFeeds, GetOrCreateFeed, BaseInv, DTypeOK
  <2>2. CASE SetError(w) \/ SetNone(w)
    BY <1>4, <2>2, UpdateStatusType DEF SetError, SetNone, BaseInv, Terminal
  <2>3. CASE SetFound(w)
    BY <1>4, <2>3, UpdateDiscoveryType DEF SetFound, BaseInv, Terminal
  <2>4. QED  BY <2>1, <2>2, <2>3
<1>6. known' \subseteq Ids
  BY <1>4, ServiceAssumption
  DEF DiscoverFeeds, SetError, SetNone, SetFound, GetOrCreateFeed, BaseInv, ServiceTypeOK,
      ServiceAssumption
<1>7. ServiceTypeOK'
  BY <1>1, <1>2, <1>3, <1>6, MoveWorker DEF BaseInv, ServiceTypeOK
<1>8. Links'
  BY <1>1, <1>2, <1>3, MoveWorker, Emissions DEF BaseInv, Links, queueVars, Actors
<1>9. QED  BY <1>5, <1>7, <1>8

\* The receive and the return of Run.
LEMMA ReceiveReturnBase ==
  ASSUME BaseInv, NEW w \in Workers, Receive(w) \/ RunReturns(w)
  PROVE  DTypeOK' /\ ServiceTypeOK' /\ Links'
<1>1. PICK l \in {"fetching", "idle"} :
        /\ Goto(w, l)
        /\ wpc' = [wpc EXCEPT ![w] = IF l = "idle" THEN "finished" ELSE "running"]
  BY DEF Receive, RunReturns, At, Q!Receive, Q!RunReturns
<1>2. l \in WorkerPCs
  BY <1>1 DEF WorkerPCs
<1>3. /\ pc[w] \in {"idle", "return"}
      /\ UNCHANGED <<disc, known, req, hit, held, reply, restarted, sending>>
  BY DEF Receive, RunReturns, At, Q!Receive, Q!RunReturns
<1>4. /\ \A v \in Workers : v # w => wpc'[v] = wpc[v]
      /\ wpc'[w] = "running" <=> l # "idle"
  BY <1>1 DEF BaseInv, QP!IndInv, QP!QTypeOK
<1>5. DTypeOK'
  BY <1>3 DEF BaseInv, DTypeOK
<1>6. ServiceTypeOK'
  BY <1>1, <1>2, <1>3, MoveWorker DEF BaseInv, ServiceTypeOK
<1>7. Links'
  BY <1>1, <1>2, <1>3, <1>4, MoveWorker, Emissions DEF BaseInv, Links, Actors
<1>8. QED  BY <1>5, <1>6, <1>7

\* Steps of the queue alone.
LEMMA QueueAloneBase ==
  ASSUME BaseInv,
         \/ \E w \in Workers : Forget(w) \/ Exit(w)
         \/ StopClose \/ StopReturn
  PROVE  DTypeOK' /\ ServiceTypeOK' /\ Links'
<1>1. UNCHANGED <<disc, serviceVars>> /\ sending' = sending
  BY DEF Forget, Exit, StopClose, StopReturn, Q!Forget, Q!Exit, Q!StopClose, Q!StopReturn
<1>2. \A w \in Workers : wpc'[w] = "running" <=> wpc[w] = "running"
  <2>1. ASSUME NEW v \in Workers, Forget(v) \/ Exit(v)
        PROVE  \A w \in Workers : wpc'[w] = "running" <=> wpc[w] = "running"
    BY <2>1 DEF Forget, Exit, Q!Forget, Q!Exit, BaseInv, QP!IndInv, QP!QTypeOK
  <2>2. CASE StopClose \/ StopReturn
    BY <2>2 DEF StopClose, StopReturn, Q!StopClose, Q!StopReturn
  <2>3. QED  BY <2>1, <2>2
<1>3. QED
  BY <1>1, <1>2 DEF BaseInv, DTypeOK, ServiceTypeOK, Links, serviceVars

LEMMA NextBase == BaseInv /\ [SNext]_vars => BaseInv'
<1> SUFFICES ASSUME BaseInv, [SNext]_vars  PROVE BaseInv'
  OBVIOUS
<1>1. QP!IndInv'
  BY StepUsesQueue, SameNext, QueueAssumed, QP!NextInd DEF BaseInv
<1>2. DTypeOK' /\ ServiceTypeOK' /\ Links'
  <2>1. CASE Terminated \/ UNCHANGED vars
    BY <2>1 DEF Terminated, vars, queueVars, serviceVars, BaseInv, DTypeOK, ServiceTypeOK, Links
  <2>2. CASE \E r \in Requests : \/ \E i \in Ids : SearchKnown(r, i)
                                 \/ RequestStep(r) \/ EnqueueCancel(r)
    BY <2>2, RequestControlBase, RequestStoreBase, TakeSeqBase, AppendEventBase, EnqueueBase
    DEF RequestStep, Actors
  <2>3. CASE \E w \in Workers : WorkerStep(w)
    BY <2>3, TakeSeqBase, AppendEventBase, RunBase, ReceiveReturnBase, QueueAloneBase
    DEF WorkerStep, Actors
  <2>4. CASE StopClose \/ StopReturn
    BY <2>4, QueueAloneBase
  <2>5. CASE \E i \in Ids : SubscribeToFeed(i)
    BY <2>5, ServiceAssumption
    DEF ServiceAssumption, SubscribeToFeed, queueVars, BaseInv, DTypeOK, ServiceTypeOK, Links
  <2>6. QED  BY <2>1, <2>2, <2>3, <2>4, <2>5 DEF SNext
<1>3. QED  BY <1>1, <1>2 DEF BaseInv

LEMMA BaseInvariant == SSpec => []BaseInv
  BY InitBase, NextBase, PTL DEF SSpec

\* Every variable of the composed system keeps its type.
THEOREM ServiceTypes == SSpec => []STypeOK
<1>1. BaseInv => STypeOK
  BY DEF BaseInv, STypeOK, QP!IndInv, QP!QTypeOK, Q!QTypeOK
<1>2. QED  BY <1>1, BaseInvariant, PTL

------------------------------------------------------------------------------
(* First runs *)

\* What holds of a discovery that was never restarted.  The first and third
\* conjuncts make the others inductive: there is one Enqueue of the job, and
\* while it has not happened no job of the discovery exists, so it can not be
\* dropped as a duplicate.
FirstRun(i) ==
  /\ ~Exists(i) => ~Q!Queued(i) /\ ~Q!Held(i) /\ \A r \in Requests : ~Starting(r, i)
  /\ \A r, s \in Requests : Starting(r, i) /\ Starting(s, i) => r = s
  /\ \A r \in Requests : Starting(r, i) => ~Q!Queued(i) /\ ~Q!Held(i)
  /\ disc[i].status = "pending" /\ stop = "open" =>
       Q!Queued(i) \/ InProgress(i) \/ \E r \in Requests : Starting(r, i)
  /\ Q!Queued(i) \/ InProgress(i) \/ (\E r \in Requests : Starting(r, i)) =>
       disc[i].status = "pending"

FirstRunInv == \A i \in Ids \ restarted : FirstRun(i)

\* A step that changes nothing FirstRun(i) speaks of, save that a worker may
\* forget i and that Stop may be called.
LEMMA SameViewKeeps ==
  ASSUME NEW i \in Ids, FirstRun(i),
         disc'[i].status = disc[i].status,
         Q!Queued(i)' <=> Q!Queued(i),
         Q!Held(i)' => Q!Held(i),
         InProgress(i)' <=> InProgress(i),
         \A r \in Requests : Starting(r, i)' <=> Starting(r, i),
         stop' = "open" => stop = "open"
  PROVE  FirstRun(i)'
  BY DEF FirstRun, Exists

\* A job in progress is held by its worker, and it is the only one alive.
LEMMA ProgressIsHeld ==
  ASSUME BaseInv, NEW w \in Workers, pc[w] # "idle"
  PROVE  /\ Q!Held(wkey[w]) /\ ~Q!Queued(wkey[w])
         /\ \A v \in Workers : pc[v] # "idle" /\ wkey[v] = wkey[w] => v = w
<1>1. \A v \in Workers : pc[v] # "idle" => QP!Busy(v)
  BY DEF BaseInv, Links, QP!Busy
<1>2. wkey[w] \in Ids
  BY <1>1 DEF BaseInv, QP!IndInv, QP!WorkersHoldKeys
<1>3. QP!Held(wkey[w])
  BY <1>1 DEF QP!Held
<1>4. QP!OneLiveJobPerKey
  BY DEF BaseInv, QP!IndInv
<1>5. /\ \A v \in Workers : QP!Busy(v) /\ QP!Busy(w) /\ wkey[v] = wkey[w] => v = w
      /\ ~QP!Queued(wkey[w])
  BY <1>2, <1>3, <1>4 DEF QP!OneLiveJobPerKey
<1>6. QED
  BY <1>1, <1>3, <1>5 DEF Q!Held, QP!Held, Q!Busy, QP!Busy, Q!Queued, QP!Queued

\* Moving a request outside the starting places, or inside them.
LEMMA MoveOutsideStarting ==
  ASSUME BaseInv, NEW r \in Requests, NEW l \in RequestPCs, Goto(r, l),
         NEW i \in Ids,
         \A s \in Requests : s # r => req'[s] = req[s],
         \/ /\ pc[r] \notin {"starting", "enqueue", "sending", "failing", "setError"}
            /\ l \notin {"starting", "enqueue", "sending", "failing", "setError"}
         \/ /\ pc[r] \in {"starting", "enqueue", "sending", "failing", "setError"}
            /\ l \in {"starting", "enqueue", "sending", "failing", "setError"}
            /\ req'[r] = req[r]
  PROVE  \A s \in Requests : Starting(s, i)' <=> Starting(s, i)
  BY MoveRequest DEF Starting

LEMMA RequestControlFirst ==
  ASSUME BaseInv, FirstRunInv, NEW r \in Requests,
         \/ \E i \in Ids : SearchKnown(r, i)
         \/ SkipDiscovery(r) \/ ShouldDiscover(r) \/ StartJoins(r) \/ StartAgain(r)
  PROVE  FirstRunInv'
<1>1. PICK l \in {"searched", "replied", "start", "reset"} : Goto(r, l)
  BY DEF SearchKnown, SkipDiscovery, ShouldDiscover, StartJoins, StartAgain, At
<1>2. /\ pc[r] \in {"idle", "searched", "start"} /\ l \in RequestPCs
      /\ UNCHANGED <<disc, queueVars, restarted>>
      /\ \A s \in Requests : s # r => req'[s] = req[s]
  BY <1>1 DEF SearchKnown, SkipDiscovery, ShouldDiscover, StartJoins, StartAgain, At, BaseInv,
              ServiceTypeOK, RequestPCs
<1>3. SUFFICES ASSUME NEW i \in Ids \ restarted  PROVE FirstRun(i)'
  BY <1>2 DEF FirstRunInv
<1>4. \A s \in Requests : Starting(s, i)' <=> Starting(s, i)
  BY <1>1, <1>2, MoveOutsideStarting
<1>5. /\ Q!Queued(i)' <=> Q!Queued(i)
      /\ Q!Held(i)' <=> Q!Held(i)
      /\ InProgress(i)' <=> InProgress(i)
  BY <1>1, <1>2, MoveRequest DEF Q!Queued, Q!Held, Q!Busy, InProgress, queueVars
<1>6. QED
  BY <1>2, <1>4, <1>5, SameViewKeeps DEF FirstRunInv, queueVars

\* A creation: the one starter of a discovery that did not exist.
LEMMA StartNewFirst ==
  ASSUME BaseInv, FirstRunInv, NEW r \in Requests, StartNew(r)
  PROVE  FirstRunInv'
<1>1. /\ Goto(r, "starting") /\ pc[r] = "start" /\ "starting" \in RequestPCs /\ req[r] \in Ids
      /\ UNCHANGED <<queueVars, req, restarted>>
      /\ ~Exists(req[r]) /\ disc' = [disc EXCEPT ![req[r]].status = "pending"]
  BY DEF StartNew, At, CreateDiscovery, RequestPCs, BaseInv, Links
<1>2. SUFFICES ASSUME NEW i \in Ids \ restarted  PROVE FirstRun(i)'
  BY <1>1 DEF FirstRunInv
<1>3. /\ Q!Queued(i)' <=> Q!Queued(i)
      /\ Q!Held(i)' <=> Q!Held(i)
      /\ InProgress(i)' <=> InProgress(i)
  BY <1>1, MoveRequest DEF Q!Queued, Q!Held, Q!Busy, InProgress, queueVars
<1>4. \A s \in Requests : Starting(s, i)' <=> Starting(s, i) \/ (s = r /\ i = req[r])
  BY <1>1, MoveRequest DEF Starting
<1>5. CASE i = req[r]
  <2>1. ~Q!Queued(i) /\ ~Q!Held(i) /\ \A s \in Requests : ~Starting(s, i)
    BY <1>1, <1>5 DEF FirstRunInv, FirstRun
  <2>2. disc'[i].status = "pending" /\ Exists(i)'
    BY <1>1, <1>5 DEF Exists, BaseInv, DTypeOK, Discoveries
  <2>3. QED  BY <1>3, <1>4, <1>5, <2>1, <2>2 DEF FirstRun
<1>6. CASE i # req[r]
  <2>1. disc'[i].status = disc[i].status
    BY <1>1, <1>6 DEF BaseInv, DTypeOK
  <2>2. QED
    BY <1>1, <1>3, <1>4, <1>6, <2>1, SameViewKeeps DEF FirstRunInv, queueVars
<1>7. QED  BY <1>5, <1>6

\* A restart: nothing is said of the restarted discovery any more.
LEMMA ResetFirst ==
  ASSUME BaseInv, FirstRunInv, NEW r \in Requests, ResetDiscovery(r)
  PROVE  FirstRunInv'
<1>1. /\ Goto(r, "starting") /\ pc[r] = "reset" /\ "starting" \in RequestPCs
      /\ UNCHANGED <<queueVars, req>>
      /\ restarted' = restarted \cup {req[r]}
      /\ disc' = [disc EXCEPT ![req[r]].status = "pending", ![req[r]].results = FALSE]
  BY DEF ResetDiscovery, At, UpdateDiscovery, RequestPCs
<1>2. SUFFICES ASSUME NEW i \in Ids \ restarted, i # req[r]  PROVE FirstRun(i)'
  BY <1>1 DEF FirstRunInv
<1>3. /\ Q!Queued(i)' <=> Q!Queued(i)
      /\ Q!Held(i)' <=> Q!Held(i)
      /\ InProgress(i)' <=> InProgress(i)
  BY <1>1, MoveRequest DEF Q!Queued, Q!Held, Q!Busy, InProgress, queueVars
<1>4. \A s \in Requests : Starting(s, i)' <=> Starting(s, i)
  BY <1>1, <1>2, MoveRequest DEF Starting
<1>5. disc'[i].status = disc[i].status
  BY <1>1, <1>2 DEF BaseInv, DTypeOK
<1>6. QED
  BY <1>1, <1>3, <1>4, <1>5, SameViewKeeps DEF FirstRunInv, queueVars

\* The end of the error path: the discovery is resolved.
LEMMA StartFailsFirst ==
  ASSUME BaseInv, FirstRunInv, NEW r \in Requests, StartFails(r)
  PROVE  FirstRunInv'
<1>1. /\ Goto(r, "replied") /\ pc[r] = "setError" /\ "replied" \in RequestPCs /\ req[r] \in Ids
      /\ UNCHANGED <<queueVars, req, restarted>>
      /\ disc' = [disc EXCEPT ![req[r]].status = "error"]
  BY DEF StartFails, At, UpdateStatus, RequestPCs, BaseInv, Links
<1>2. SUFFICES ASSUME NEW i \in Ids \ restarted  PROVE FirstRun(i)'
  BY <1>1 DEF FirstRunInv
<1>3. /\ Q!Queued(i)' <=> Q!Queued(i)
      /\ Q!Held(i)' <=> Q!Held(i)
      /\ InProgress(i)' <=> InProgress(i)
  BY <1>1, MoveRequest DEF Q!Queued, Q!Held, Q!Busy, InProgress, queueVars
<1>4. \A s \in Requests : Starting(s, i)' <=> Starting(s, i) /\ s # r
  BY <1>1, MoveRequest DEF Starting
<1>5. CASE i = req[r]
  <2>1. disc'[i].status = "error"
    BY <1>1, <1>5 DEF BaseInv, DTypeOK, Discoveries
  <2>2. Exists(i)' /\ disc'[i].status # "pending"
    BY <2>1 DEF Exists
  <2>3. FirstRun(i) /\ Starting(r, i)
    BY <1>1, <1>2, <1>5 DEF FirstRunInv, Starting
  <2>4. ~Q!Queued(i) /\ ~Q!Held(i) /\ \A s \in Requests : Starting(s, i) => s = r
    BY <2>3 DEF FirstRun
  <2>5. ~InProgress(i)
    BY <2>4, ProgressIsHeld DEF InProgress
  <2>6. QED  BY <1>3, <1>4, <2>2, <2>4, <2>5 DEF FirstRun
<1>6. CASE i # req[r]
  <2>1. disc'[i].status = disc[i].status
    BY <1>1, <1>6 DEF BaseInv, DTypeOK
  <2>2. \A s \in Requests : Starting(s, i)' <=> Starting(s, i)
    BY <1>4, <1>6 DEF Starting
  <2>3. QED
    BY <1>1, <1>3, <2>1, <2>2, SameViewKeeps DEF FirstRunInv, queueVars
<1>7. QED  BY <1>5, <1>6

\* Moving a worker inside or outside the places of a job in progress.
LEMMA MoveJob ==
  ASSUME BaseInv, NEW w \in Workers, NEW l \in WorkerPCs, Goto(w, l), UNCHANGED wkey,
         pc[w] \in {"idle", "persist", "return"} <=> l \in {"idle", "persist", "return"},
         NEW i \in Ids
  PROVE  InProgress(i)' <=> InProgress(i)
<1> DEFINE places == {"fetching", "fetch", "fetchFailed", "setError", "noFeeds", "setNone",
                      "found", "finishing", "setFound"}
<1>1. \A v \in Workers : pc[v] \in WorkerPCs
  BY DEF BaseInv, ServiceTypeOK
<1>2. \A m \in WorkerPCs : m \in places <=> m \notin {"idle", "persist", "return"}
  BY DEF WorkerPCs
<1>3. \A v \in Workers : pc'[v] \in places <=> pc[v] \in places
  BY <1>1, <1>2, MoveWorker
<1>4. QED  BY <1>3 DEF InProgress

\* The steps of emitEvent: a starter goes on starting, a job goes on.
LEMMA TakeSeqFirst ==
  ASSUME BaseInv, FirstRunInv, NEW a \in Actors, TakeSeq(a)
  PROVE  FirstRunInv'
<1>1. /\ UNCHANGED <<queueVars, pc, req, restarted>>
      /\ disc' = [disc EXCEPT ![Subject(a)].seq = @ + 1]
  BY DEF TakeSeq, NextSeq
<1>2. SUFFICES ASSUME NEW i \in Ids \ restarted  PROVE FirstRun(i)'
  BY <1>1 DEF FirstRunInv
<1>3. disc'[i].status = disc[i].status
  BY <1>1 DEF BaseInv, DTypeOK, Discoveries
<1>4. /\ Q!Queued(i)' <=> Q!Queued(i)
      /\ Q!Held(i)' <=> Q!Held(i)
      /\ InProgress(i)' <=> InProgress(i)
      /\ \A r \in Requests : Starting(r, i)' <=> Starting(r, i)
  BY <1>1 DEF Q!Queued, Q!Held, Q!Busy, InProgress, Starting, queueVars
<1>5. QED
  BY <1>1, <1>3, <1>4, SameViewKeeps DEF FirstRunInv, queueVars

LEMMA AppendEventFirst ==
  ASSUME BaseInv, FirstRunInv, NEW a \in Actors, AppendEvent(a)
  PROVE  FirstRunInv'
<1> DEFINE l == Emission[pc[a]].next
<1>1. /\ UNCHANGED <<queueVars, req, restarted>> /\ Goto(a, l)
      /\ pc[a] \in DOMAIN Emission
  BY DEF AppendEvent, BaseInv, Links
<1>2. SUFFICES ASSUME NEW i \in Ids \ restarted  PROVE FirstRun(i)'
  BY <1>1 DEF FirstRunInv
<1>3. disc'[i].status = disc[i].status
  BY DEF AppendEvent, AppendDiscoveryEvent, BaseInv, DTypeOK, Discoveries
<1>4. /\ Q!Queued(i)' <=> Q!Queued(i)
      /\ Q!Held(i)' <=> Q!Held(i)
  BY <1>1 DEF Q!Queued, Q!Held, Q!Busy, queueVars
<1>5. /\ InProgress(i)' <=> InProgress(i)
      /\ \A r \in Requests : Starting(r, i)' <=> Starting(r, i)
  <2>1. CASE a \in Requests
    <3>1. pc[a] \in {"starting", "failing"} /\ l \in {"enqueue", "setError"}
      BY <1>1, <2>1, Emissions DEF BaseInv, ServiceTypeOK, RequestPCs
    <3>2. l \in RequestPCs
      BY <3>1 DEF RequestPCs
    <3> HIDE DEF l
    <3>3. \A r \in Requests : Starting(r, i)' <=> Starting(r, i)
      BY <1>1, <2>1, <3>1, <3>2, MoveOutsideStarting
    <3>4. InProgress(i)' <=> InProgress(i)
      BY <1>1, <2>1, <3>2, MoveRequest DEF InProgress, queueVars
    <3>5. QED  BY <3>3, <3>4
  <2>2. CASE a \in Workers
    <3>1. /\ l \in {"fetch", "setError", "setNone", "finishing", "setFound"}
          /\ pc[a] \notin {"idle", "persist", "return"}
      BY <1>1, <2>2, Emissions DEF BaseInv, ServiceTypeOK, WorkerPCs
    <3>2. l \in WorkerPCs /\ l \notin {"idle", "persist", "return"}
      BY <3>1 DEF WorkerPCs
    <3> HIDE DEF l
    <3>3. InProgress(i)' <=> InProgress(i)
      BY <1>1, <2>2, <3>1, <3>2, MoveJob DEF queueVars
    <3>4. \A r \in Requests : Starting(r, i)' <=> Starting(r, i)
      BY <1>1, <2>2, <3>2, MoveWorker DEF Starting
    <3>5. QED  BY <3>3, <3>4
  <2>3. QED  BY <2>1, <2>2 DEF Actors
<1>6. QED
  BY <1>1, <1>3, <1>4, <1>5, SameViewKeeps DEF FirstRunInv, queueVars

\* The mark, and the cancelled or panicked send.  A panic comes after the
\* close only, and then the request no longer answers for its discovery.
LEMMA MarkCancelFirst ==
  ASSUME BaseInv, FirstRunInv, NEW r \in Requests, EnqueueMark(r) \/ EnqueueCancel(r)
  PROVE  FirstRunInv'
<1>1. PICK l \in {"sending", "failing"} : Goto(r, l)
  BY DEF EnqueueMark, EnqueueCancel, At
<1>2. /\ pc[r] \in {"enqueue", "sending"} /\ l \in RequestPCs
      /\ UNCHANGED <<disc, jobs, wpc, wkey, stop, req, restarted>>
  BY DEF EnqueueMark, EnqueueCancel, At, Q!EnqueueMark, Q!EnqueueCancel, RequestPCs
<1>3. SUFFICES ASSUME NEW i \in Ids \ restarted  PROVE FirstRun(i)'
  BY <1>2 DEF FirstRunInv
<1>4. \A s \in Requests : Starting(s, i)' <=> Starting(s, i)
  BY <1>1, <1>2, MoveOutsideStarting
<1>5. /\ Q!Queued(i)' <=> Q!Queued(i)
      /\ Q!Held(i)' <=> Q!Held(i)
      /\ InProgress(i)' <=> InProgress(i)
  BY <1>1, <1>2, MoveRequest DEF Q!Queued, Q!Held, Q!Busy, InProgress
<1>6. QED
  BY <1>2, <1>4, <1>5, SameViewKeeps DEF FirstRunInv

LEMMA PanicFirst ==
  ASSUME BaseInv, FirstRunInv, NEW r \in Requests, EnqueuePanic(r)
  PROVE  FirstRunInv'
<1>1. /\ Goto(r, "panicked") /\ "panicked" \in RequestPCs
      /\ stop # "open"
      /\ UNCHANGED <<disc, jobs, wpc, wkey, stop, req, restarted>>
  BY DEF EnqueuePanic, At, Q!EnqueuePanic, Q!ChannelClosed, RequestPCs
<1>2. SUFFICES ASSUME NEW i \in Ids \ restarted  PROVE FirstRun(i)'
  BY <1>1 DEF FirstRunInv
<1>3. \A s \in Requests : Starting(s, i)' => Starting(s, i)
  BY <1>1, MoveRequest DEF Starting
<1>4. /\ Q!Queued(i)' <=> Q!Queued(i)
      /\ Q!Held(i)' <=> Q!Held(i)
      /\ InProgress(i)' <=> InProgress(i)
      /\ Exists(i)' <=> Exists(i)
  BY <1>1, MoveRequest DEF Q!Queued, Q!Held, Q!Busy, InProgress, Exists
<1>5. QED
  BY <1>1, <1>2, <1>3, <1>4 DEF FirstRunInv, FirstRun

\* Enqueue drops the job as a duplicate.  This does not happen to a first
\* run before the close: a marked key has a live job, and none is alive
\* while the one request is still starting it.
LEMMA DuplicateFirst ==
  ASSUME BaseInv, FirstRunInv, NEW r \in Requests, EnqueueDuplicate(r)
  PROVE  FirstRunInv'
<1>1. /\ Goto(r, "replied") /\ pc[r] = "enqueue" /\ "replied" \in RequestPCs
      /\ req[r] \in Ids /\ req[r] \in inflight
      /\ \A s \in Requests : sending[s] = NoId
      /\ UNCHANGED <<disc, queueVars, req, restarted>>
  BY DEF EnqueueDuplicate, At, Q!EnqueueDuplicate, Q!MuFree, Q!queueVars, queueVars,
         RequestPCs, BaseInv, Links
<1>2. SUFFICES ASSUME NEW i \in Ids \ restarted  PROVE FirstRun(i)'
  BY <1>1 DEF FirstRunInv
<1>3. /\ Q!Queued(i)' <=> Q!Queued(i)
      /\ Q!Held(i)' <=> Q!Held(i)
      /\ InProgress(i)' <=> InProgress(i)
  BY <1>1, MoveRequest DEF Q!Queued, Q!Held, Q!Busy, InProgress, queueVars
<1>4. CASE i # req[r]
  <2>1. \A s \in Requests : Starting(s, i)' <=> Starting(s, i)
    BY <1>1, <1>4, MoveRequest DEF Starting
  <2>2. QED
    BY <1>1, <1>3, <2>1, SameViewKeeps DEF FirstRunInv, queueVars
<1>5. CASE i = req[r]
  <2>1. Starting(r, i) /\ FirstRun(i)
    BY <1>1, <1>2, <1>5 DEF Starting, FirstRunInv
  <2>2. ~Q!Queued(i) /\ ~Q!Held(i)
    BY <2>1 DEF FirstRun
  <2>3. stop # "open"
    <3>1. ~QP!Queued(i) /\ ~QP!Held(i)
      BY <2>2 DEF Q!Queued, QP!Queued, Q!Held, QP!Held, Q!Busy, QP!Busy
    <3>2. ~QP!Sent(i)
      BY <1>1, ServiceAssumption DEF QP!Sent, ServiceAssumption
    <3>3. QED
      BY <1>1, <1>5, <3>1, <3>2 DEF BaseInv, QP!IndInv, QP!NoLeakedKey
  <2>4. \A s \in Requests : Starting(s, i)' => Starting(s, i)
    BY <1>1, MoveRequest DEF Starting
  <2>5. QED
    BY <1>1, <1>3, <2>1, <2>2, <2>3, <2>4 DEF FirstRun, queueVars, Exists
<1>6. QED  BY <1>4, <1>5

\* The send: the one starter hands its discovery to the channel.
LEMMA SendFirst ==
  ASSUME BaseInv, FirstRunInv, NEW r \in Requests, EnqueueSend(r)
  PROVE  FirstRunInv'
<1> DEFINE k == req[r]
<1>1. /\ Goto(r, "replied") /\ pc[r] = "sending" /\ "replied" \in RequestPCs
      /\ k \in Ids /\ sending[r] = k
      /\ jobs' = Append(jobs, k) /\ jobs \in Seq(Ids)
      /\ UNCHANGED <<disc, wpc, wkey, stop, req, restarted>>
  BY DEF EnqueueSend, At, Q!EnqueueSend, Q!LeaveSelect, RequestPCs, BaseInv, Links,
         QP!IndInv, QP!QTypeOK
<1> HIDE DEF k
<1>2. SUFFICES ASSUME NEW i \in Ids \ restarted  PROVE FirstRun(i)'
  BY <1>1 DEF FirstRunInv
<1>3. Q!Queued(i)' <=> Q!Queued(i) \/ i = k
  BY <1>1, QP!AppendToJobs DEF Q!Queued
<1>4. /\ Q!Held(i)' <=> Q!Held(i)
      /\ InProgress(i)' <=> InProgress(i)
  BY <1>1, MoveRequest DEF Q!Held, Q!Busy, InProgress
<1>5. \A s \in Requests : Starting(s, i)' <=> Starting(s, i) /\ s # r
  BY <1>1, MoveRequest DEF Starting
<1>6. CASE i = k
  <2>1. Starting(r, i) /\ FirstRun(i)
    BY <1>1, <1>2, <1>6 DEF Starting, FirstRunInv, k
  <2>2. \A s \in Requests : ~Starting(s, i)'
    BY <1>5, <2>1 DEF FirstRun
  <2>3. disc'[i].status = "pending" /\ Exists(i)'
    BY <1>1, <2>1 DEF FirstRun, Exists
  <2>4. QED  BY <1>3, <1>6, <2>2, <2>3 DEF FirstRun
<1>7. CASE i # k
  <2>1. \A s \in Requests : Starting(s, i)' <=> Starting(s, i)
    BY <1>5, <1>7 DEF Starting, k
  <2>2. QED
    BY <1>1, <1>3, <1>4, <1>7, <2>1, SameViewKeeps DEF FirstRunInv
<1>8. QED  BY <1>6, <1>7

\* The receive: the job goes from the channel to a worker.
LEMMA ReceiveFirst ==
  ASSUME BaseInv, FirstRunInv, NEW w \in Workers, Receive(w)
  PROVE  FirstRunInv'
<1> DEFINE k == Head(jobs)
<1>1. /\ Goto(w, "fetching") /\ pc[w] = "idle" /\ "fetching" \in WorkerPCs
      /\ wpc[w] = "idle" /\ jobs # <<>>
      /\ wkey' = [wkey EXCEPT ![w] = k]
      /\ wpc' = [wpc EXCEPT ![w] = "running"]
      /\ UNCHANGED <<disc, stop, req, restarted>>
      /\ wkey \in [Workers -> Ids \cup {NoId}]
      /\ DOMAIN wpc = Workers
      /\ QP!IndInv /\ QP!Receive(w)
  BY DEF Receive, At, Q!Receive, QP!Receive, WorkerPCs, BaseInv, QP!IndInv, QP!QTypeOK
<1>2. Q!Queued(k) /\ k \in Ids
  BY <1>1, QP!TailOfJobs DEF Q!Queued, QP!IndInv, QP!QTypeOK
<1>3. SUFFICES ASSUME NEW i \in Ids \ restarted  PROVE FirstRun(i)'
  BY <1>1 DEF FirstRunInv
<1>4. Q!Queued(i)' <=> Q!Queued(i) /\ i # k
  <2>1. QP!Queued(i)' <=> QP!Queued(i) /\ i # k
    BY <1>1, QueueAssumed, QP!ReceiveKeepsOthers
  <2>2. QED  BY <2>1 DEF Q!Queued, QP!Queued
<1> HIDE DEF k
<1>5. Q!Held(i)' <=> Q!Held(i) \/ i = k
  BY <1>1 DEF Q!Held, Q!Busy
<1>6. InProgress(i)' <=> InProgress(i) \/ i = k
  <2>1. \A v \in Workers : v # w => pc'[v] = pc[v] /\ wkey'[v] = wkey[v]
    BY <1>1, MoveWorker
  <2>2. pc'[w] = "fetching" /\ wkey'[w] = k
    BY <1>1, MoveWorker
  <2>3. QED  BY <1>1, <2>1, <2>2 DEF InProgress
<1>7. \A s \in Requests : Starting(s, i)' <=> Starting(s, i)
  BY <1>1, MoveWorker DEF Starting
<1>8. FirstRun(i) /\ (Exists(i)' <=> Exists(i))
  BY <1>1, <1>3 DEF FirstRunInv, Exists
<1>9. disc'[i].status = disc[i].status /\ stop' = stop
  BY <1>1
<1>10. QED
  BY <1>2, <1>4, <1>5, <1>6, <1>7, <1>8, <1>9 DEF FirstRun

\* The steps of the job that publish nothing, and its return.
LEMMA RunFirst ==
  ASSUME BaseInv, FirstRunInv, NEW w \in Workers,
         DiscoverFeeds(w) \/ GetOrCreateFeed(w) \/ RunReturns(w)
  PROVE  FirstRunInv'
<1>1. PICK l \in {"fetchFailed", "noFeeds", "found", "return", "idle"} :
        /\ Goto(w, l)
        /\ pc[w] \in {"idle", "persist", "return"} <=> l \in {"idle", "persist", "return"}
  BY DEF DiscoverFeeds, GetOrCreateFeed, RunReturns, At
<1>2. l \in WorkerPCs
  BY <1>1 DEF WorkerPCs
<1>3. UNCHANGED <<disc, jobs, wkey, stop, req, restarted>>
  BY DEF DiscoverFeeds, GetOrCreateFeed, RunReturns, Q!RunReturns, queueVars
<1>4. \A v \in Workers : Q!Busy(v)' <=> Q!Busy(v)
  BY DEF DiscoverFeeds, GetOrCreateFeed, RunReturns, Q!RunReturns, queueVars, Q!Busy,
         BaseInv, QP!IndInv, QP!QTypeOK
<1>5. SUFFICES ASSUME NEW i \in Ids \ restarted  PROVE FirstRun(i)'
  BY <1>3 DEF FirstRunInv
<1>6. InProgress(i)' <=> InProgress(i)
  BY <1>1, <1>2, <1>3, MoveJob
<1>7. /\ Q!Queued(i)' <=> Q!Queued(i)
      /\ Q!Held(i)' <=> Q!Held(i)
  BY <1>3, <1>4 DEF Q!Queued, Q!Held
<1>8. \A s \in Requests : Starting(s, i)' <=> Starting(s, i)
  BY <1>1, <1>2, <1>3, MoveWorker DEF Starting
<1>9. QED
  BY <1>3, <1>6, <1>7, <1>8, SameViewKeeps DEF FirstRunInv

\* The job publishes its outcome: its discovery is no longer pending.
LEMMA OutcomeFirst ==
  ASSUME BaseInv, FirstRunInv, NEW w \in Workers, SetError(w) \/ SetNone(w) \/ SetFound(w)
  PROVE  FirstRunInv'
<1> DEFINE k == wkey[w]
<1>1. PICK l \in {"return", "persist"} : Goto(w, l)
  BY DEF SetError, SetNone, SetFound, At
<1>2. l \in WorkerPCs /\ pc[w] # "idle"
  BY DEF SetError, SetNone, SetFound, At, WorkerPCs
<1>3. k \in Ids
  BY <1>2, ServiceAssumption, Subjects DEF Subject, Actors, ServiceAssumption
<1>4. UNCHANGED <<queueVars, req, restarted>>
  BY DEF SetError, SetNone, SetFound
<1>5. /\ disc'[k].status \in Terminal
      /\ \A i \in Ids : i # k => disc'[i].status = disc[i].status
  BY <1>3 DEF SetError, SetNone, SetFound, UpdateStatus, UpdateDiscovery, Terminal,
              BaseInv, DTypeOK, Discoveries
<1> HIDE DEF k
<1>6. SUFFICES ASSUME NEW i \in Ids \ restarted  PROVE FirstRun(i)'
  BY <1>4 DEF FirstRunInv
<1>7. /\ Q!Queued(i)' <=> Q!Queued(i)
      /\ Q!Held(i)' <=> Q!Held(i)
      /\ \A s \in Requests : Starting(s, i)' <=> Starting(s, i)
  BY <1>1, <1>2, <1>4, MoveWorker DEF Q!Queued, Q!Held, Q!Busy, Starting, queueVars
<1>8. CASE i = k
  <2>1. Exists(i)' /\ disc'[i].status # "pending"
    BY <1>5, <1>8 DEF Exists, Terminal
  <2>2. FirstRun(i) /\ Q!Held(i) /\ ~Q!Queued(i)
    BY <1>2, <1>6, <1>8, ProgressIsHeld DEF FirstRunInv, k
  <2>3. ~InProgress(i)'
    <3>1. \A v \in Workers : v # w /\ pc[v] # "idle" => wkey[v] # i
      BY <1>2, <1>8, ProgressIsHeld DEF k
    <3>2. QED
      BY <1>1, <1>2, <1>4, <3>1, MoveWorker DEF InProgress, queueVars
  <2>4. QED  BY <1>7, <2>1, <2>2, <2>3 DEF FirstRun
<1>9. CASE i # k
  <2>1. InProgress(i)' <=> InProgress(i)
    BY <1>1, <1>2, <1>4, <1>9, MoveWorker DEF InProgress, queueVars, k
  <2>2. QED
    BY <1>4, <1>5, <1>7, <1>9, <2>1, SameViewKeeps DEF FirstRunInv, queueVars
<1>10. QED  BY <1>8, <1>9

\* Steps of the queue alone: the job they may forget has no outcome to give.
LEMMA QueueAloneFirst ==
  ASSUME BaseInv, FirstRunInv,
         \/ \E w \in Workers : Forget(w) \/ Exit(w)
         \/ StopClose \/ StopReturn
  PROVE  FirstRunInv'
<1>1. /\ UNCHANGED <<disc, serviceVars, jobs>>
      /\ stop' = "open" => stop = "open"
  BY DEF Forget, Exit, StopClose, StopReturn, Q!Forget, Q!Exit, Q!StopClose, Q!StopReturn
<1>2. /\ \A v \in Workers : Q!Busy(v)' => Q!Busy(v) /\ wkey'[v] = wkey[v]
      /\ \A v \in Workers : pc[v] # "idle" => wkey'[v] = wkey[v]
  <2>1. ASSUME NEW w \in Workers, Forget(w)
        PROVE  /\ \A v \in Workers : Q!Busy(v)' => Q!Busy(v) /\ wkey'[v] = wkey[v]
               /\ \A v \in Workers : pc[v] # "idle" => wkey'[v] = wkey[v]
    BY <2>1 DEF Forget, Q!Forget, Q!Busy, BaseInv, Links, QP!IndInv, QP!QTypeOK
  <2>2. CASE (\E w \in Workers : Exit(w)) \/ StopClose \/ StopReturn
    BY <2>2 DEF Exit, StopClose, StopReturn, Q!Exit, Q!StopClose, Q!StopReturn, Q!Busy,
                BaseInv, QP!IndInv, QP!QTypeOK
  <2>3. QED  BY <2>1, <2>2
<1>3. SUFFICES ASSUME NEW i \in Ids \ restarted  PROVE FirstRun(i)'
  BY <1>1 DEF FirstRunInv, serviceVars
<1>4. /\ Q!Queued(i)' <=> Q!Queued(i)
      /\ Q!Held(i)' => Q!Held(i)
      /\ InProgress(i)' <=> InProgress(i)
      /\ \A s \in Requests : Starting(s, i)' <=> Starting(s, i)
  BY <1>1, <1>2 DEF Q!Queued, Q!Held, InProgress, Starting, serviceVars
<1>5. QED
  BY <1>1, <1>3, <1>4, SameViewKeeps DEF FirstRunInv, serviceVars

LEMMA InitFirst == SInit => FirstRunInv
<1> SUFFICES ASSUME SInit, NEW i \in Ids  PROVE FirstRun(i)
  BY DEF FirstRunInv
<1>1. disc[i].status = "absent"
  BY DEF SInit, DInit, NoDiscovery
<1>2. ~Q!Queued(i) /\ ~Q!Held(i) /\ ~InProgress(i)
  BY DEF SInit, Q!QInit, Q!Queued, Q!Held, Q!Busy, InProgress, Actors
<1>3. \A r \in Requests : ~Starting(r, i)
  BY DEF SInit, Actors, Starting
<1>4. QED  BY <1>1, <1>2, <1>3 DEF FirstRun

LEMMA NextFirst == BaseInv /\ FirstRunInv /\ [SNext]_vars => FirstRunInv'
<1> SUFFICES ASSUME BaseInv, FirstRunInv, [SNext]_vars  PROVE FirstRunInv'
  OBVIOUS
<1>1. CASE \E r \in Requests : \/ \E i \in Ids : SearchKnown(r, i)
                               \/ RequestStep(r) \/ EnqueueCancel(r)
  BY <1>1, RequestControlFirst, StartNewFirst, ResetFirst, StartFailsFirst, TakeSeqFirst,
     AppendEventFirst, DuplicateFirst, MarkCancelFirst, SendFirst, PanicFirst
  DEF RequestStep, Actors
<1>2. CASE \E w \in Workers : WorkerStep(w)
  BY <1>2, ReceiveFirst, TakeSeqFirst, AppendEventFirst, RunFirst, OutcomeFirst,
     QueueAloneFirst
  DEF WorkerStep, Actors
<1>3. CASE StopClose \/ StopReturn
  BY <1>3, QueueAloneFirst
<1>4. CASE Terminated \/ UNCHANGED vars \/ \E i \in Ids : SubscribeToFeed(i)
  <2>1. UNCHANGED <<disc, queueVars, pc, req, restarted>>
    BY <1>4 DEF Terminated, vars, serviceVars, SubscribeToFeed
  <2>2. QED
    BY <2>1 DEF FirstRunInv, FirstRun, Exists, Starting, InProgress, Q!Queued, Q!Held, Q!Busy,
                queueVars
<1>5. QED  BY <1>1, <1>2, <1>3, <1>4 DEF SNext

LEMMA FirstRunInvariant == SSpec => []FirstRunInv
<1>1. SInit => BaseInv /\ FirstRunInv
  BY InitBase, InitFirst
<1>2. BaseInv /\ FirstRunInv /\ [SNext]_vars => (BaseInv /\ FirstRunInv)'
  BY NextBase, NextFirst
<1>3. QED  BY <1>1, <1>2, PTL DEF SSpec

\* Whatever the number of searches, workers and discoveries, no first run of
\* a discovery is lost: while it is pending, somebody works on it.
THEOREM FirstRunsAreOwned == SSpec => []FirstRunIsOwned
<1>1. FirstRunInv => FirstRunIsOwned
  BY DEF FirstRunInv, FirstRun, FirstRunIsOwned
<1>2. QED  BY <1>1, FirstRunInvariant, PTL

\* Of any number of simultaneous first searches, one starts the discovery.
THEOREM OneStarterOnly == SSpec => []OneStarter
<1>1. FirstRunInv => OneStarter
  BY DEF FirstRunInv, FirstRun, OneStarter
<1>2. QED  BY <1>1, FirstRunInvariant, PTL

\* While its job waits or runs, a discovery that was never restarted is
\* pending, so no further search starts it.
THEOREM FirstRunsArePending == SSpec => []FirstRunIsPending
<1>1. FirstRunInv => FirstRunIsPending
  BY DEF FirstRunInv, FirstRun, FirstRunIsPending
<1>2. QED  BY <1>1, FirstRunInvariant, PTL

------------------------------------------------------------------------------
(***************************************************************************)
(* Pending discoveries, restarted ones included.                           *)
(*                                                                         *)
(* A pending discovery is served while its job waits or runs or a request  *)
(* is starting it.  StepKeepsServed goes through all the steps, in any     *)
(* state of Stop: only a request that leaves Enqueue as a duplicate, or by *)
(* a panic, takes away the last of these.  LostOnlyInWindow follows with   *)
(* NoLeakedKey of the queue: a marked key that neither waits nor is being  *)
(* sent is held, by a worker that has published its outcome.  For a first  *)
(* run the mark is the starter's own (MarkInv), so only the panic is left  *)
(* (WorkInv), which is what the process can take down as it ends.          *)
(***************************************************************************)

\* A pending discovery has a job that waits or runs.
Owned(i) == disc[i].status = "pending" => Q!Queued(i) \/ InProgress(i)

\* Whatever a worker does, also after the close, a discovery that is owned by
\* a job stays so until it has its outcome.
LEMMA WorkerKeepsOwned ==
  ASSUME BaseInv, NEW w \in Workers, WorkerStep(w), NEW i \in Ids, Owned(i)
  PROVE  Owned(i)'
<1>1. CASE Receive(w)
  <2> DEFINE k == Head(jobs)
  <2>1. /\ Goto(w, "fetching") /\ pc[w] = "idle" /\ "fetching" \in WorkerPCs
        /\ wpc[w] = "idle" /\ jobs # <<>>
        /\ wkey' = [wkey EXCEPT ![w] = k]
        /\ UNCHANGED disc
        /\ wkey \in [Workers -> Ids \cup {NoId}]
        /\ QP!IndInv /\ QP!Receive(w)
    BY <1>1 DEF Receive, At, Q!Receive, QP!Receive, WorkerPCs, BaseInv, QP!IndInv, QP!QTypeOK
  <2>2. Q!Queued(i)' <=> Q!Queued(i) /\ i # k
    <3>1. QP!Queued(i)' <=> QP!Queued(i) /\ i # k
      BY <2>1, QueueAssumed, QP!ReceiveKeepsOthers
    <3>2. QED  BY <3>1 DEF Q!Queued, QP!Queued
  <2> HIDE DEF k
  <2>3. InProgress(i)' <=> InProgress(i) \/ i = k
    <3>1. \A v \in Workers : v # w => pc'[v] = pc[v] /\ wkey'[v] = wkey[v]
      BY <2>1, MoveWorker
    <3>2. pc'[w] = "fetching" /\ wkey'[w] = k
      BY <2>1, MoveWorker
    <3>3. QED  BY <2>1, <3>1, <3>2 DEF InProgress
  <2>4. QED  BY <2>1, <2>2, <2>3 DEF Owned
<1>2. CASE TakeSeq(w)
  <2>1. UNCHANGED <<jobs, wkey, pc>> /\ disc' = [disc EXCEPT ![Subject(w)].seq = @ + 1]
    BY <1>2 DEF TakeSeq, NextSeq, queueVars
  <2>2. disc'[i].status = disc[i].status
    BY <2>1 DEF BaseInv, DTypeOK, Discoveries
  <2>3. QED  BY <2>1, <2>2 DEF Owned, Q!Queued, InProgress
<1>3. CASE AppendEvent(w)
  <2> DEFINE l == Emission[pc[w]].next
  <2>1. UNCHANGED <<jobs, wkey>> /\ Goto(w, l) /\ pc[w] \in DOMAIN Emission
    BY <1>3 DEF AppendEvent, queueVars, BaseInv, Links, Actors
  <2>2. disc'[i].status = disc[i].status
    BY <1>3 DEF AppendEvent, AppendDiscoveryEvent, BaseInv, DTypeOK, Discoveries
  <2>3. /\ l \in {"fetch", "setError", "setNone", "finishing", "setFound"}
        /\ pc[w] \notin {"idle", "persist", "return"}
    BY <2>1, Emissions DEF BaseInv, ServiceTypeOK, WorkerPCs
  <2>4. l \in WorkerPCs /\ l \notin {"idle", "persist", "return"}
    BY <2>3 DEF WorkerPCs
  <2> HIDE DEF l
  <2>5. InProgress(i)' <=> InProgress(i)
    BY <2>1, <2>3, <2>4, MoveJob
  <2>6. QED  BY <2>1, <2>2, <2>5 DEF Owned, Q!Queued
<1>4. CASE DiscoverFeeds(w) \/ GetOrCreateFeed(w) \/ RunReturns(w)
  <2>1. PICK l \in {"fetchFailed", "noFeeds", "found", "return", "idle"} :
          /\ Goto(w, l)
          /\ pc[w] \in {"idle", "persist", "return"} <=> l \in {"idle", "persist", "return"}
    BY <1>4 DEF DiscoverFeeds, GetOrCreateFeed, RunReturns, At
  <2>2. l \in WorkerPCs
    BY <2>1 DEF WorkerPCs
  <2>3. UNCHANGED <<disc, jobs, wkey>>
    BY <1>4 DEF DiscoverFeeds, GetOrCreateFeed, RunReturns, Q!RunReturns, queueVars
  <2>4. InProgress(i)' <=> InProgress(i)
    BY <2>1, <2>2, <2>3, MoveJob
  <2>5. QED  BY <2>3, <2>4 DEF Owned, Q!Queued
<1>5. CASE SetError(w) \/ SetNone(w) \/ SetFound(w)
  <2> DEFINE k == wkey[w]
  <2>1. PICK l \in {"return", "persist"} : Goto(w, l)
    BY <1>5 DEF SetError, SetNone, SetFound, At
  <2>2. l \in WorkerPCs /\ pc[w] # "idle" /\ UNCHANGED <<jobs, wkey>>
    BY <1>5 DEF SetError, SetNone, SetFound, At, WorkerPCs, queueVars
  <2>3. k \in Ids
    BY <2>2, ServiceAssumption, Subjects DEF Subject, Actors, ServiceAssumption
  <2>4. /\ disc'[k].status \in Terminal
        /\ \A j \in Ids : j # k => disc'[j].status = disc[j].status
    BY <1>5, <2>3 DEF SetError, SetNone, SetFound, UpdateStatus, UpdateDiscovery, Terminal,
                      BaseInv, DTypeOK, Discoveries
  <2> HIDE DEF k
  <2>5. i # k /\ InProgress(i) => InProgress(i)'
    BY <2>1, <2>2, MoveWorker DEF InProgress, k
  <2>6. QED  BY <2>2, <2>4, <2>5 DEF Owned, Q!Queued, Terminal
<1>6. CASE Forget(w) \/ Exit(w)
  <2>1. /\ UNCHANGED <<disc, jobs, pc>>
        /\ \A v \in Workers : pc[v] # "idle" => wkey'[v] = wkey[v]
    BY <1>6 DEF Forget, Exit, Q!Forget, Q!Exit, serviceVars, BaseInv, Links, QP!IndInv, QP!QTypeOK
  <2>2. QED  BY <2>1 DEF Owned, Q!Queued, InProgress
<1>7. QED  BY <1>1, <1>2, <1>3, <1>4, <1>5, <1>6 DEF WorkerStep

\* A worker moves no request and resets no discovery.
LEMMA WorkerLeavesRequests ==
  ASSUME BaseInv, NEW w \in Workers, WorkerStep(w)
  PROVE  /\ UNCHANGED <<req, restarted, stop>>
         /\ \A r \in Requests : pc'[r] = pc[r]
<1>1. UNCHANGED <<req, restarted, stop>>
  BY DEF WorkerStep, Receive, TakeSeq, AppendEvent, DiscoverFeeds, SetError, SetNone, SetFound,
         GetOrCreateFeed, RunReturns, Forget, Exit, queueVars, serviceVars,
         Q!Receive, Q!RunReturns, Q!Forget, Q!Exit
<1>2. UNCHANGED pc \/ \E l \in {"idle", "fetching", "fetchFailed", "noFeeds", "found", "return", "persist"} : Goto(w, l)
                   \/ AppendEvent(w)
  BY DEF WorkerStep, Receive, TakeSeq, DiscoverFeeds, SetError, SetNone, SetFound,
         GetOrCreateFeed, RunReturns, Forget, Exit, serviceVars, At
<1>3. CASE AppendEvent(w)
  <2>1. Goto(w, Emission[pc[w]].next) /\ pc[w] \in DOMAIN Emission
    BY <1>3 DEF AppendEvent, BaseInv, Links, Actors
  <2>2. QED
    BY <1>1, <2>1, ServiceAssumption
    DEF Goto, BaseInv, ServiceTypeOK, Actors, ServiceAssumption
<1>4. CASE \E l \in {"idle", "fetching", "fetchFailed", "noFeeds", "found", "return", "persist"} : Goto(w, l)
  BY <1>1, <1>4, ServiceAssumption DEF Goto, BaseInv, ServiceTypeOK, Actors, ServiceAssumption
<1>5. QED  BY <1>1, <1>2, <1>3, <1>4


\* ... or it is being started.
Served(i) ==
  disc[i].status = "pending" =>
    Q!Queued(i) \/ InProgress(i) \/ \E r \in Requests : Starting(r, i)

LEMMA WorkerKeepsServed ==
  ASSUME BaseInv, NEW w \in Workers, WorkerStep(w), NEW i \in Ids, Served(i)
  PROVE  Served(i)'
<1>1. CASE \E r \in Requests : Starting(r, i)
  BY <1>1, WorkerLeavesRequests DEF Served, Starting
<1>2. CASE ~\E r \in Requests : Starting(r, i)
  <2>1. Owned(i)
    BY <1>2 DEF Served, Owned
  <2>2. Owned(i)'
    BY <2>1, WorkerKeepsOwned
  <2>3. QED  BY <2>2 DEF Served, Owned
<1>3. QED  BY <1>1, <1>2

\* A step of a request that makes nothing pending, lets go of no job and
\* leaves the places where requests start i as they are.
LEMMA SameStartersKeepServed ==
  ASSUME NEW i \in Ids, Served(i),
         disc'[i].status = disc[i].status,
         Q!Queued(i) => Q!Queued(i)', InProgress(i) => InProgress(i)',
         \A s \in Requests : Starting(s, i) => Starting(s, i)'
  PROVE  Served(i)'
  BY DEF Served

\* Steps of a request that change no status.
LEMMA RequestMoveServed ==
  ASSUME BaseInv, NEW r \in Requests, NEW i \in Ids, Served(i),
         \/ \E k \in Ids : SearchKnown(r, k)
         \/ SkipDiscovery(r) \/ ShouldDiscover(r) \/ StartJoins(r) \/ StartAgain(r)
         \/ EnqueueMark(r) \/ EnqueueCancel(r)
  PROVE  Served(i)'
<1>1. PICK l \in {"searched", "replied", "start", "reset", "sending", "failing"} : Goto(r, l)
  BY DEF SearchKnown, SkipDiscovery, ShouldDiscover, StartJoins, StartAgain, At,
         EnqueueMark, EnqueueCancel
<1>2. l \in RequestPCs
  BY <1>1 DEF RequestPCs
<1>3. UNCHANGED <<disc, jobs, wkey>>
  BY DEF SearchKnown, SkipDiscovery, ShouldDiscover, StartJoins, StartAgain, EnqueueMark,
         EnqueueCancel, Q!EnqueueMark, Q!EnqueueCancel, queueVars
<1>4. \A s \in Requests : Starting(s, i)' <=> Starting(s, i)
  <2>1. CASE EnqueueMark(r) \/ EnqueueCancel(r)
    <3>1. /\ UNCHANGED req /\ pc[r] \in {"enqueue", "sending"}
          /\ Goto(r, "sending") \/ Goto(r, "failing")
          /\ "sending" \in RequestPCs /\ "failing" \in RequestPCs
      BY <2>1 DEF EnqueueMark, EnqueueCancel, At, RequestPCs
    <3>2. QED  BY <3>1, MoveOutsideStarting
  <2>2. CASE ~(EnqueueMark(r) \/ EnqueueCancel(r))
    <3>1. PICK m \in {"searched", "replied", "start", "reset"} : Goto(r, m)
      BY <2>2 DEF SearchKnown, SkipDiscovery, ShouldDiscover, StartJoins, StartAgain, At
    <3>2. /\ pc[r] \in {"idle", "searched", "start"} /\ m \in RequestPCs
          /\ \A s \in Requests : s # r => req'[s] = req[s]
      BY <2>2, <3>1 DEF SearchKnown, SkipDiscovery, ShouldDiscover, StartJoins, StartAgain, At,
                        BaseInv, ServiceTypeOK, RequestPCs
    <3>3. QED  BY <3>1, <3>2, MoveOutsideStarting
  <2>3. QED  BY <2>1, <2>2
<1>5. InProgress(i) => InProgress(i)'
  BY <1>1, <1>2, <1>3, MoveRequest DEF InProgress
<1>6. Q!Queued(i) => Q!Queued(i)'
  BY <1>3 DEF Q!Queued
<1>7. disc'[i].status = disc[i].status
  BY <1>3
<1>8. QED  BY <1>4, <1>5, <1>6, <1>7, SameStartersKeepServed

\* Steps of a request that change the status of its discovery.
LEMMA RequestStoreServed ==
  ASSUME BaseInv, NEW r \in Requests, NEW i \in Ids, Served(i),
         StartNew(r) \/ ResetDiscovery(r) \/ StartFails(r)
  PROVE  Served(i)'
<1>1. /\ UNCHANGED <<queueVars, req>>
      /\ pc[r] \in {"start", "reset", "setError"} /\ req[r] \in Ids
  BY DEF StartNew, ResetDiscovery, StartFails, At, BaseInv, Links
<1>2. PICK l \in {"starting", "replied"} :
        Goto(r, l) /\ (l = "starting" <=> pc[r] # "setError")
  BY DEF StartNew, ResetDiscovery, StartFails, At
<1>3. l \in RequestPCs
  BY <1>2 DEF RequestPCs
<1>4. CASE i # req[r]
  <2>1. disc'[i].status = disc[i].status
    BY <1>1, <1>4 DEF StartNew, CreateDiscovery, ResetDiscovery, UpdateDiscovery, StartFails,
                      UpdateStatus, BaseInv, DTypeOK
  <2>2. \A s \in Requests : Starting(s, i) => Starting(s, i)'
    BY <1>1, <1>2, <1>3, <1>4, MoveRequest DEF Starting
  <2>3. InProgress(i) => InProgress(i)'
    BY <1>1, <1>2, <1>3, MoveRequest DEF InProgress, queueVars
  <2>4. Q!Queued(i) => Q!Queued(i)'
    BY <1>1 DEF Q!Queued, queueVars
  <2>5. QED  BY <2>1, <2>2, <2>3, <2>4, SameStartersKeepServed
<1>5. CASE i = req[r] /\ StartFails(r)
  <2>1. disc'[i].status = "error"
    BY <1>1, <1>5 DEF StartFails, UpdateStatus, BaseInv, DTypeOK, Discoveries
  <2>2. QED  BY <2>1 DEF Served
<1>6. CASE i = req[r] /\ ~StartFails(r)
  <2>1. Goto(r, "starting") /\ "starting" \in RequestPCs
    BY <1>6 DEF StartNew, ResetDiscovery, At, RequestPCs
  <2>2. Starting(r, i)'
    BY <1>1, <1>6, <2>1, MoveRequest DEF Starting
  <2>3. QED  BY <2>2 DEF Served
<1>7. QED  BY <1>4, <1>5, <1>6

\* The steps of emitEvent in StartDiscovery: a starter goes on starting.
LEMMA RequestEmitServed ==
  ASSUME BaseInv, NEW r \in Requests, NEW i \in Ids, Served(i), TakeSeq(r) \/ AppendEvent(r)
  PROVE  Served(i)'
<1>1. UNCHANGED <<queueVars, req>>
  BY DEF TakeSeq, AppendEvent
<1>2. disc'[i].status = disc[i].status
  <2>1. CASE TakeSeq(r)
    BY <2>1 DEF TakeSeq, NextSeq, BaseInv, DTypeOK, Discoveries
  <2>2. CASE AppendEvent(r)
    BY <2>2 DEF AppendEvent, AppendDiscoveryEvent, BaseInv, DTypeOK, Discoveries
  <2>3. QED  BY <2>1, <2>2
<1>3. Q!Queued(i) => Q!Queued(i)'
  BY <1>1 DEF Q!Queued, queueVars
<1>4. CASE TakeSeq(r)
  <2>1. UNCHANGED pc
    BY <1>4 DEF TakeSeq
  <2>2. QED
    BY <1>1, <1>2, <1>3, <2>1, SameStartersKeepServed DEF InProgress, Starting, queueVars
<1>5. CASE AppendEvent(r)
  <2> DEFINE l == Emission[pc[r]].next
  <2>1. Goto(r, l) /\ pc[r] \in DOMAIN Emission
    BY <1>5 DEF AppendEvent, BaseInv, Links, Actors
  <2>2. pc[r] \in {"starting", "failing"} /\ l \in {"enqueue", "setError"}
    BY <2>1, Emissions DEF BaseInv, ServiceTypeOK, RequestPCs
  <2>3. l \in RequestPCs
    BY <2>2 DEF RequestPCs
  <2> HIDE DEF l
  <2>4. \A s \in Requests : Starting(s, i)' <=> Starting(s, i)
    BY <1>1, <2>1, <2>2, <2>3, MoveOutsideStarting
  <2>5. InProgress(i) => InProgress(i)'
    BY <1>1, <2>1, <2>3, MoveRequest DEF InProgress, queueVars
  <2>6. QED  BY <1>2, <1>3, <2>4, <2>5, SameStartersKeepServed
<1>6. QED  BY <1>4, <1>5

\* The ends of Enqueue: the send hands the discovery to the channel; the
\* duplicate and the panic leave their own discovery, and no other.
LEMMA EnqueueEndServed ==
  ASSUME BaseInv, NEW r \in Requests, NEW i \in Ids, Served(i),
         EnqueueSend(r) \/ EnqueueDuplicate(r) \/ EnqueuePanic(r)
  PROVE  Served(i)' \/ (req[r] = i /\ ~EnqueueSend(r))
<1>1. PICK l \in {"replied", "panicked"} : Goto(r, l)
  BY DEF EnqueueSend, EnqueueDuplicate, EnqueuePanic, At
<1>2. /\ l \in RequestPCs /\ req[r] \in Ids /\ UNCHANGED <<disc, wkey, req>>
      /\ jobs \in Seq(Ids) /\ (EnqueueSend(r) => jobs' = Append(jobs, req[r]))
      /\ ~EnqueueSend(r) => jobs' = jobs
  BY <1>1 DEF EnqueueSend, EnqueueDuplicate, EnqueuePanic, At, Q!EnqueueSend, Q!LeaveSelect,
              Q!EnqueueDuplicate, Q!EnqueuePanic, Q!queueVars, RequestPCs, BaseInv, Links,
              QP!IndInv, QP!QTypeOK
<1>3. Q!Queued(i) => Q!Queued(i)'
  BY <1>2, QP!AppendToJobs DEF Q!Queued
<1>4. InProgress(i) => InProgress(i)'
  BY <1>1, <1>2, MoveRequest DEF InProgress
<1>5. CASE i # req[r]
  <2>1. \A s \in Requests : Starting(s, i) => Starting(s, i)'
    BY <1>1, <1>2, <1>5, MoveRequest DEF Starting
  <2>2. disc'[i].status = disc[i].status
    BY <1>2
  <2>3. QED  BY <1>3, <1>4, <2>1, <2>2, SameStartersKeepServed
<1>6. CASE i = req[r] /\ EnqueueSend(r)
  <2>1. Q!Queued(i)'
    BY <1>2, <1>6, QP!AppendToJobs DEF Q!Queued
  <2>2. QED  BY <2>1 DEF Served
<1>7. QED  BY <1>5, <1>6

LEMMA StepKeepsServed ==
  ASSUME BaseInv, [SNext]_vars, NEW i \in Ids, Served(i)
  PROVE  \/ Served(i)'
         \/ \E r \in Requests : req[r] = i /\ (EnqueueDuplicate(r) \/ EnqueuePanic(r))
<1>1. CASE \E r \in Requests : \/ \E k \in Ids : SearchKnown(r, k)
                               \/ RequestStep(r) \/ EnqueueCancel(r)
  BY <1>1, RequestMoveServed, RequestStoreServed, RequestEmitServed, EnqueueEndServed
  DEF RequestStep
<1>2. CASE \E w \in Workers : WorkerStep(w)
  BY <1>2, WorkerKeepsServed
<1>3. CASE StopClose \/ StopReturn \/ Terminated \/ UNCHANGED vars
           \/ \E k \in Ids : SubscribeToFeed(k)
  <2>1. UNCHANGED <<disc, jobs, wkey, pc, req>>
    BY <1>3 DEF StopClose, StopReturn, Q!StopClose, Q!StopReturn, Terminated, vars, queueVars,
                serviceVars, SubscribeToFeed
  <2>2. QED  BY <2>1 DEF Served, Starting, InProgress, Q!Queued
<1>4. QED  BY <1>1, <1>2, <1>3 DEF SNext

\* Stop does not take its call back.
LEMMA StopIsKept ==
  ASSUME BaseInv, [SNext]_vars
  PROVE  stop # "open" => stop' # "open"
<1>1. [Q!QNext]_(Q!queueVars)
  BY StepUsesQueue
<1>2. QED
  BY <1>1 DEF Q!QNext, Q!queueVars, Q!EnqueueDuplicate, Q!EnqueueMark, Q!EnqueueSend,
              Q!EnqueueCancel, Q!EnqueuePanic, Q!Receive, Q!RunReturns, Q!Forget, Q!Exit,
              Q!StopClose, Q!StopReturn

\* A job that Enqueue drops as a duplicate while none of its key waits or is
\* in progress: the worker that holds the key has published its outcome.
LEMMA DuplicateIsFinishing ==
  ASSUME BaseInv, NEW r \in Requests, EnqueueDuplicate(r), stop = "open",
         ~Q!Queued(req[r]), ~InProgress(req[r])
  PROVE  Finishing(req[r])
<1>1. /\ req[r] \in inflight
      /\ \A s \in Requests : sending[s] = NoId
      /\ req[r] \in Ids
  BY DEF EnqueueDuplicate, At, Q!EnqueueDuplicate, Q!MuFree, BaseInv, Links
<1>2. ~QP!Queued(req[r])
  BY DEF Q!Queued, QP!Queued
<1>3. ~QP!Sent(req[r])
  BY <1>1, ServiceAssumption DEF QP!Sent, ServiceAssumption
<1>4. PICK w \in Workers : QP!Busy(w) /\ wkey[w] = req[r]
  BY <1>1, <1>2, <1>3 DEF BaseInv, QP!IndInv, QP!NoLeakedKey, QP!Held
<1>5. CASE wpc[w] = "finished"
  BY <1>4, <1>5 DEF Finishing
<1>6. CASE wpc[w] = "running"
  <2>1. pc[w] # "idle" /\ pc[w] \in WorkerPCs
    BY <1>6 DEF BaseInv, Links, ServiceTypeOK
  <2>2. pc[w] \in {"persist", "return"}
    BY <1>4, <2>1 DEF InProgress, WorkerPCs
  <2>3. QED  BY <1>4, <2>2 DEF Finishing
<1>7. QED  BY <1>4, <1>5, <1>6 DEF QP!Busy

\* However many searches, restarts and jobs of a discovery overlap: what
\* becomes pending is served, save when the Enqueue of a restart meets the key
\* of a job that has already published its outcome.
THEOREM LostOnlyAsDuplicate == SSpec => LostOnlyInWindow
<1>1. ASSUME BaseInv, [SNext]_vars, NEW i \in Ids, Lost(i)', ~Lost(i)
      PROVE  /\ \E r \in Requests : req[r] = i /\ pc[r] = "enqueue" /\ pc'[r] = "replied"
             /\ Finishing(i)
  <2>1. stop = "open" /\ stop' = "open"
    BY <1>1, StopIsKept DEF Lost
  <2>2. Served(i) /\ ~Served(i)'
    BY <1>1, <2>1 DEF Lost, Served
  <2>3. PICK r \in Requests : req[r] = i /\ (EnqueueDuplicate(r) \/ EnqueuePanic(r))
    BY <1>1, <2>2, StepKeepsServed
  <2>4. EnqueueDuplicate(r)
    BY <2>1, <2>3 DEF EnqueuePanic, Q!EnqueuePanic, Q!ChannelClosed
  <2>5. /\ Goto(r, "replied") /\ pc[r] = "enqueue" /\ "replied" \in RequestPCs
        /\ UNCHANGED <<jobs, wkey>>
    BY <2>4 DEF EnqueueDuplicate, At, Q!EnqueueDuplicate, Q!queueVars, RequestPCs
  <2>6. pc'[r] = "replied" /\ \A w \in Workers : pc'[w] = pc[w]
    BY <1>1, <2>5, MoveRequest
  <2>7. ~Q!Queued(i)' /\ ~InProgress(i)'
    BY <1>1 DEF Lost
  <2>8. ~Q!Queued(i) /\ ~InProgress(i)
    BY <2>5, <2>6, <2>7 DEF Q!Queued, InProgress
  <2>9. Finishing(i)
    BY <1>1, <2>1, <2>3, <2>4, <2>8, DuplicateIsFinishing
  <2>10. QED  BY <2>3, <2>5, <2>6, <2>9
<1>2. BaseInv /\ [SNext]_vars =>
        [\A i \in Ids : Lost(i)' => Lost(i) \/
           /\ \E r \in Requests : req[r] = i /\ pc[r] = "enqueue" /\ pc'[r] = "replied"
           /\ Finishing(i)]_vars
  BY <1>1
<1>3. QED  BY <1>2, BaseInvariant, PTL DEF SSpec, LostOnlyInWindow

\* A mark of a first run: before its creation there is none, and while it is
\* being started the only one is that of its starter, in the select.  (Panics
\* leave marks, so this says more than NoLeakedKey once Stop is called.)
Unmarked(i) ==
  /\ ~Exists(i) => i \notin inflight
  /\ \A r \in Requests : Starting(r, i) /\ i \in inflight => pc[r] = "sending"

MarkInv == \A i \in Ids \ restarted : Unmarked(i)

\* A step that marks nothing and moves no request.
LEMMA SamePlacesUnmarked ==
  ASSUME MarkInv, inflight' \subseteq inflight, UNCHANGED <<req, restarted>>,
         \A r \in Requests : pc'[r] = pc[r],
         \A i \in Ids : Exists(i) => Exists(i)'
  PROVE  MarkInv'
  BY DEF MarkInv, Unmarked, Starting

\* A step of a request that marks nothing and begins no start.
LEMMA RequestMoveUnmarked ==
  ASSUME BaseInv, MarkInv, NEW r \in Requests, NEW l \in RequestPCs, Goto(r, l),
         inflight' \subseteq inflight, UNCHANGED restarted,
         \A s \in Requests : s # r => req'[s] = req[s],
         \A i \in Ids : Exists(i) => Exists(i)',
         \/ l \notin {"starting", "enqueue", "sending", "failing", "setError"}
         \/ /\ pc[r] \in {"starting", "enqueue", "sending", "failing", "setError"}
            /\ req'[r] = req[r]
            /\ pc[r] # "sending" \/ req[r] \notin inflight'
  PROVE  MarkInv'
<1> SUFFICES ASSUME NEW i \in Ids \ restarted  PROVE Unmarked(i)'
  BY DEF MarkInv
<1>1. Unmarked(i)
  BY DEF MarkInv
<1>2. ~Exists(i)' => i \notin inflight'
  BY <1>1 DEF Unmarked
<1>3. ASSUME NEW s \in Requests, Starting(s, i)', i \in inflight'  PROVE pc'[s] = "sending"
  <2>1. CASE s # r
    BY <1>1, <1>3, <2>1, MoveRequest DEF Unmarked, Starting
  <2>2. CASE s = r
    <3>1. pc'[r] = l /\ req'[r] = i
      BY <1>3, <2>2, MoveRequest DEF Starting
    <3>2. Starting(r, i) /\ pc[r] # "sending"
      BY <1>3, <2>2, <3>1 DEF Starting
    <3>3. QED  BY <1>1, <1>3, <3>2 DEF Unmarked
  <2>3. QED  BY <2>1, <2>2
<1>4. QED  BY <1>2, <1>3 DEF Unmarked

\* The mark itself is that of the one starter.
LEMMA MarkUnmarked ==
  ASSUME BaseInv, FirstRunInv, MarkInv, NEW r \in Requests, EnqueueMark(r)
  PROVE  MarkInv'
<1>1. /\ Goto(r, "sending") /\ pc[r] = "enqueue" /\ "sending" \in RequestPCs
      /\ inflight' = inflight \cup {req[r]}
      /\ UNCHANGED <<disc, req, restarted>>
  BY DEF EnqueueMark, At, Q!EnqueueMark, RequestPCs
<1> SUFFICES ASSUME NEW i \in Ids \ restarted  PROVE Unmarked(i)'
  BY <1>1 DEF MarkInv
<1>2. Unmarked(i) /\ FirstRun(i)
  BY DEF MarkInv, FirstRunInv
<1>3. CASE i = req[r]
  <2>1. Starting(r, i)
    BY <1>1, <1>3 DEF Starting
  <2>2. Exists(i) /\ \A s \in Requests : Starting(s, i) => s = r
    BY <1>2, <2>1 DEF FirstRun
  <2>3. Exists(i)' /\ pc'[r] = "sending"
    BY <1>1, <2>2, MoveRequest DEF Exists
  <2>4. \A s \in Requests : Starting(s, i)' => Starting(s, i)
    BY <1>1, <2>1, MoveRequest DEF Starting
  <2>5. QED  BY <2>2, <2>3, <2>4 DEF Unmarked
<1>4. CASE i # req[r]
  <2>1. \A s \in Requests : Starting(s, i)' => Starting(s, i) /\ pc'[s] = pc[s]
    BY <1>1, <1>4, MoveRequest DEF Starting
  <2>2. QED  BY <1>1, <1>2, <1>4, <2>1 DEF Unmarked, Exists
<1>5. QED  BY <1>3, <1>4

\* A creation finds no mark; a restart is of no concern here.
LEMMA BeginUnmarked ==
  ASSUME BaseInv, MarkInv, NEW r \in Requests, StartNew(r) \/ ResetDiscovery(r)
  PROVE  MarkInv'
<1>1. /\ Goto(r, "starting") /\ "starting" \in RequestPCs /\ req[r] \in Ids
      /\ UNCHANGED <<inflight, req>> /\ restarted \subseteq restarted'
      /\ req[r] \in restarted' \/ ~Exists(req[r])
  BY DEF StartNew, CreateDiscovery, ResetDiscovery, At, queueVars, RequestPCs, BaseInv, Links
<1> SUFFICES ASSUME NEW i \in Ids \ restarted'  PROVE Unmarked(i)'
  BY DEF MarkInv
<1>2. Unmarked(i)
  BY <1>1 DEF MarkInv
<1>3. CASE i = req[r]
  <2>1. i \notin inflight'
    BY <1>1, <1>2, <1>3 DEF Unmarked
  <2>2. QED  BY <2>1 DEF Unmarked
<1>4. CASE i # req[r]
  <2>1. \A s \in Requests : Starting(s, i)' => Starting(s, i) /\ pc'[s] = pc[s]
    BY <1>1, <1>4, MoveRequest DEF Starting
  <2>2. disc'[i].status = disc[i].status
    BY <1>1, <1>4 DEF StartNew, CreateDiscovery, ResetDiscovery, UpdateDiscovery, BaseInv, DTypeOK
  <2>3. QED  BY <1>1, <1>2, <2>1, <2>2 DEF Unmarked, Exists
<1>5. QED  BY <1>3, <1>4

\* Nothing deletes a discovery.
LEMMA ExistsIsKept ==
  ASSUME BaseInv, [SNext]_vars, NEW i \in Ids, Exists(i)
  PROVE  Exists(i)'
<1>1. ASSUME NEW a \in Actors, TakeSeq(a)  PROVE Exists(i)'
  BY <1>1 DEF TakeSeq, NextSeq, Exists, BaseInv, DTypeOK, Discoveries
<1>2. ASSUME NEW a \in Actors, AppendEvent(a)  PROVE Exists(i)'
  BY <1>2 DEF AppendEvent, AppendDiscoveryEvent, Exists, BaseInv, DTypeOK, Discoveries
<1>3. ASSUME NEW r \in Requests, StartNew(r) \/ ResetDiscovery(r) \/ StartFails(r)
      PROVE  Exists(i)'
  BY <1>3 DEF StartNew, CreateDiscovery, ResetDiscovery, UpdateDiscovery, StartFails,
              UpdateStatus, Exists, BaseInv, DTypeOK, Discoveries
<1>4. ASSUME NEW w \in Workers, SetError(w) \/ SetNone(w) \/ SetFound(w)
      PROVE  Exists(i)'
  <2>1. CASE SetError(w) \/ SetNone(w)
    BY <1>4, <2>1 DEF SetError, SetNone, UpdateStatus, Exists, BaseInv, DTypeOK, Discoveries
  <2>2. CASE SetFound(w)
    BY <1>4, <2>2 DEF SetFound, UpdateDiscovery, Exists, BaseInv, DTypeOK, Discoveries
  <2>3. QED  BY <1>4, <2>1, <2>2
<1>5. disc' = disc => Exists(i)'
  BY DEF Exists
<1>6. CASE \E r \in Requests : \/ \E k \in Ids : SearchKnown(r, k)
                               \/ RequestStep(r) \/ EnqueueCancel(r)
  BY <1>1, <1>2, <1>3, <1>5, <1>6
  DEF RequestStep, SearchKnown, SkipDiscovery, ShouldDiscover, StartJoins, StartAgain,
      EnqueueDuplicate, EnqueueMark, EnqueueSend, EnqueuePanic, EnqueueCancel, Actors
<1>7. CASE \E w \in Workers : WorkerStep(w)
  BY <1>1, <1>2, <1>4, <1>5, <1>7
  DEF WorkerStep, Receive, DiscoverFeeds, GetOrCreateFeed, RunReturns, Forget, Exit, Actors
<1>8. CASE StopClose \/ StopReturn \/ Terminated \/ UNCHANGED vars
           \/ \E k \in Ids : SubscribeToFeed(k)
  BY <1>5, <1>8 DEF StopClose, StopReturn, Terminated, vars, SubscribeToFeed
<1>9. QED  BY <1>6, <1>7, <1>8 DEF SNext

LEMMA NextUnmarked ==
  ASSUME BaseInv, FirstRunInv, MarkInv, [SNext]_vars
  PROVE  MarkInv'
<1>1. \A i \in Ids : Exists(i) => Exists(i)'
  BY ExistsIsKept
<1>2. ASSUME NEW r \in Requests,
             \/ \E k \in Ids : SearchKnown(r, k)
             \/ SkipDiscovery(r) \/ ShouldDiscover(r) \/ StartJoins(r) \/ StartAgain(r)
             \/ StartFails(r) \/ EnqueueDuplicate(r) \/ EnqueueSend(r) \/ EnqueuePanic(r)
      PROVE  MarkInv'
  <2>1. PICK l \in {"searched", "replied", "start", "reset", "panicked"} : Goto(r, l)
    BY <1>2 DEF SearchKnown, SkipDiscovery, ShouldDiscover, StartJoins, StartAgain, StartFails,
                EnqueueDuplicate, EnqueueSend, EnqueuePanic, At
  <2>2. /\ l \in RequestPCs /\ UNCHANGED <<inflight, restarted>>
        /\ \A s \in Requests : s # r => req'[s] = req[s]
    BY <1>2, <2>1
    DEF SearchKnown, SkipDiscovery, ShouldDiscover, StartJoins, StartAgain, StartFails,
        EnqueueDuplicate, EnqueueSend, EnqueuePanic, Q!EnqueueDuplicate, Q!EnqueueSend,
        Q!EnqueuePanic, Q!queueVars, queueVars, RequestPCs, BaseInv, ServiceTypeOK
  <2>3. QED  BY <1>1, <2>1, <2>2, RequestMoveUnmarked
<1>3. ASSUME NEW r \in Requests, EnqueueCancel(r)  PROVE MarkInv'
  <2>1. /\ Goto(r, "failing") /\ pc[r] = "sending" /\ "failing" \in RequestPCs
        /\ inflight' = inflight \ {req[r]} /\ UNCHANGED <<req, restarted>>
    BY <1>3 DEF EnqueueCancel, At, Q!EnqueueCancel, Q!LeaveSelect, RequestPCs, BaseInv, Links
  <2>2. QED  BY <1>1, <2>1, RequestMoveUnmarked
<1>4. ASSUME NEW r \in Requests, AppendEvent(r)  PROVE MarkInv'
  <2> DEFINE l == Emission[pc[r]].next
  <2>1. /\ Goto(r, l) /\ pc[r] \in DOMAIN Emission
        /\ UNCHANGED <<inflight, req, restarted>>
    BY <1>4 DEF AppendEvent, queueVars, BaseInv, Links, Actors
  <2>2. pc[r] \in {"starting", "failing"} /\ l \in {"enqueue", "setError"}
    BY <2>1, Emissions DEF BaseInv, ServiceTypeOK, RequestPCs
  <2>3. l \in RequestPCs
    BY <2>2 DEF RequestPCs
  <2> HIDE DEF l
  <2>4. QED  BY <1>1, <2>1, <2>2, <2>3, RequestMoveUnmarked
<1>5. ASSUME NEW r \in Requests, TakeSeq(r)  PROVE MarkInv'
  <2>1. UNCHANGED <<inflight, pc, req, restarted>>
    BY <1>5 DEF TakeSeq, queueVars
  <2>2. QED  BY <1>1, <2>1, SamePlacesUnmarked
<1>6. ASSUME NEW w \in Workers, WorkerStep(w)  PROVE MarkInv'
  <2>1. inflight' \subseteq inflight
    BY <1>6 DEF WorkerStep, Receive, TakeSeq, AppendEvent, DiscoverFeeds, SetError, SetNone,
                SetFound, GetOrCreateFeed, RunReturns, Forget, Exit, Q!Receive, Q!RunReturns,
                Q!Forget, Q!Exit, queueVars
  <2>2. UNCHANGED <<req, restarted>> /\ \A r \in Requests : pc'[r] = pc[r]
    BY <1>6, WorkerLeavesRequests
  <2>3. QED  BY <1>1, <2>1, <2>2, SamePlacesUnmarked
<1>7. CASE StopClose \/ StopReturn \/ Terminated \/ UNCHANGED vars
           \/ \E k \in Ids : SubscribeToFeed(k)
  <2>1. UNCHANGED <<inflight, pc, req, restarted>>
    BY <1>7 DEF StopClose, StopReturn, Q!StopClose, Q!StopReturn, Terminated, vars, queueVars,
                serviceVars, SubscribeToFeed
  <2>2. QED  BY <1>1, <2>1, SamePlacesUnmarked
<1>8. CASE \E r \in Requests : \/ \E k \in Ids : SearchKnown(r, k)
                               \/ RequestStep(r) \/ EnqueueCancel(r)
  BY <1>2, <1>3, <1>4, <1>5, <1>8, MarkUnmarked, BeginUnmarked DEF RequestStep
<1>9. QED  BY <1>6, <1>7, <1>8 DEF SNext

\* A panicked request stays as it is.
LEMMA PanickedStays ==
  ASSUME BaseInv, [SNext]_vars, NEW r \in Requests, pc[r] = "panicked"
  PROVE  pc'[r] = "panicked" /\ req'[r] = req[r]
<1>1. r \in Actors /\ "panicked" \notin DOMAIN Emission
  BY Emissions DEF Actors
<1>2. ASSUME NEW s \in Requests,
             (\E k \in Ids : SearchKnown(s, k)) \/ RequestStep(s) \/ EnqueueCancel(s)
      PROVE  pc'[r] = pc[r] /\ req'[r] = req[r]
  <2>1. s # r
    BY <1>1, <1>2
    DEF SearchKnown, RequestStep, SkipDiscovery, ShouldDiscover, StartNew, StartJoins, StartAgain,
        ResetDiscovery, TakeSeq, AppendEvent, EnqueueDuplicate, EnqueueMark, EnqueueSend,
        EnqueuePanic, EnqueueCancel, StartFails, At, BaseInv, Links
  <2>2. pc' = pc \/ \E l : Goto(s, l)
    BY <1>2
    DEF SearchKnown, RequestStep, SkipDiscovery, ShouldDiscover, StartNew, StartJoins, StartAgain,
        ResetDiscovery, TakeSeq, AppendEvent, EnqueueDuplicate, EnqueueMark, EnqueueSend,
        EnqueuePanic, EnqueueCancel, StartFails, At
  <2>3. req' = req \/ \E k : req' = [req EXCEPT ![s] = k]
    BY <1>2
    DEF SearchKnown, RequestStep, SkipDiscovery, ShouldDiscover, StartNew, StartJoins, StartAgain,
        ResetDiscovery, TakeSeq, AppendEvent, EnqueueDuplicate, EnqueueMark, EnqueueSend,
        EnqueuePanic, EnqueueCancel, StartFails
  <2>4. QED
    BY <1>1, <2>1, <2>2, <2>3 DEF Goto, BaseInv, ServiceTypeOK
<1>3. CASE \E w \in Workers : WorkerStep(w)
  BY <1>3, WorkerLeavesRequests
<1>4. CASE StopClose \/ StopReturn \/ Terminated \/ UNCHANGED vars
           \/ \E k \in Ids : SubscribeToFeed(k)
  BY <1>4 DEF StopClose, StopReturn, Terminated, vars, serviceVars, SubscribeToFeed
<1>5. QED  BY <1>2, <1>3, <1>4 DEF SNext

\* In any state of Stop, a pending first run is served, or its starter's send
\* met the closed channel.
WorkInv ==
  \A i \in Ids \ restarted :
    Served(i) \/ \E r \in Requests : req[r] = i /\ pc[r] = "panicked"

LEMMA NextWork ==
  ASSUME BaseInv, MarkInv, WorkInv, [SNext]_vars
  PROVE  WorkInv'
<1>1. restarted \subseteq restarted'
  <2>1. \A w \in Workers : WorkerStep(w) => restarted' = restarted
    BY WorkerLeavesRequests
  <2>2. CASE ~\E w \in Workers : WorkerStep(w)
    BY <2>2
    DEF SNext, SearchKnown, RequestStep, SkipDiscovery, ShouldDiscover, StartNew, StartJoins,
        StartAgain, ResetDiscovery, TakeSeq, AppendEvent, EnqueueDuplicate, EnqueueMark,
        EnqueueSend, EnqueuePanic, EnqueueCancel, StartFails, StopClose, StopReturn, Terminated,
        vars, serviceVars, SubscribeToFeed
  <2>3. QED  BY <2>1, <2>2
<1> SUFFICES ASSUME NEW i \in Ids \ restarted'
             PROVE  Served(i)' \/ \E r \in Requests : req'[r] = i /\ pc'[r] = "panicked"
  BY DEF WorkInv
<1>2. Served(i) \/ \E r \in Requests : req[r] = i /\ pc[r] = "panicked"
  BY <1>1 DEF WorkInv
<1>3. CASE \E r \in Requests : req[r] = i /\ pc[r] = "panicked"
  BY <1>3, PanickedStays
<1>4. ASSUME Served(i), ~Served(i)'
      PROVE  \E r \in Requests : req'[r] = i /\ pc'[r] = "panicked"
  <2>1. PICK r \in Requests : req[r] = i /\ (EnqueueDuplicate(r) \/ EnqueuePanic(r))
    BY <1>4, StepKeepsServed
  <2>2. ~EnqueueDuplicate(r)
    <3> SUFFICES ASSUME EnqueueDuplicate(r)  PROVE FALSE
      OBVIOUS
    <3>1. pc[r] = "enqueue" /\ i \in inflight
      BY <2>1 DEF EnqueueDuplicate, At, Q!EnqueueDuplicate
    <3>2. Starting(r, i) /\ Unmarked(i)
      BY <1>1, <2>1, <3>1 DEF Starting, MarkInv
    <3>3. QED  BY <3>1, <3>2 DEF Unmarked
  <2>3. Goto(r, "panicked") /\ "panicked" \in RequestPCs /\ UNCHANGED req
    BY <2>1, <2>2 DEF EnqueuePanic, At, RequestPCs
  <2>4. QED  BY <2>1, <2>3, MoveRequest
<1>5. QED  BY <1>2, <1>3, <1>4

LEMMA WorkInvariant == SSpec => []WorkInv
<1>1. SInit => MarkInv /\ WorkInv
  <2> SUFFICES ASSUME SInit, NEW i \in Ids  PROVE Unmarked(i) /\ Served(i)
    BY DEF MarkInv, WorkInv
  <2>1. disc[i].status = "absent" /\ inflight = {}
    BY DEF SInit, DInit, NoDiscovery, Q!QInit
  <2>2. QED  BY <2>1 DEF Unmarked, Served
<1>2. BaseInv /\ FirstRunInv /\ MarkInv /\ WorkInv /\ [SNext]_vars => (MarkInv /\ WorkInv)'
  BY NextUnmarked, NextWork
<1>3. QED  BY <1>1, <1>2, BaseInvariant, FirstRunInvariant, PTL DEF SSpec

------------------------------------------------------------------------------
(* Event numbers *)

\* a has taken a number for an event of i, and not appended it yet.
Carries(a, i) == held[a] # 0 /\ Subject(a) = i

Numbered(i) ==
  /\ \A m, n \in DOMAIN disc[i].events :
        disc[i].events[m].seq = disc[i].events[n].seq => m = n
  /\ \A n \in DOMAIN disc[i].events : disc[i].events[n].seq <= disc[i].seq
  /\ \A a \in Actors : Carries(a, i) => held[a] <= disc[i].seq
  /\ \A a \in Actors : Carries(a, i) =>
        \A n \in DOMAIN disc[i].events : disc[i].events[n].seq # held[a]
  /\ \A a, b \in Actors : Carries(a, i) /\ Carries(b, i) /\ held[a] = held[b] => a = b

LEMMA NumberedIsDistinct == SeqsDistinct <=> \A i \in Ids : Numbered(i)
  BY DEF SeqsDistinct, Numbered, Carries

\* A step that neither takes a number nor appends an event.
LogUntouched ==
  /\ UNCHANGED held
  /\ \A i \in Ids : disc'[i].events = disc[i].events /\ disc'[i].seq = disc[i].seq
  /\ \A a \in Actors : held[a] # 0 => Subject(a)' = Subject(a)

LEMMA KeepsNumbers ==
  ASSUME SeqsDistinct, LogUntouched  PROVE SeqsDistinct'
<1>1. SUFFICES ASSUME NEW i \in Ids  PROVE Numbered(i)'
  BY NumberedIsDistinct DEF SeqsDistinct, Numbered, Carries
<1>2. Numbered(i) /\ \A a \in Actors : Carries(a, i)' <=> Carries(a, i)
  BY NumberedIsDistinct DEF Carries, LogUntouched
<1>3. QED  BY <1>2 DEF Numbered, LogUntouched

\* The number taken is larger than every number of the discovery.
LEMMA TakeSeqNumbers ==
  ASSUME BaseInv, SeqsDistinct, NEW a \in Actors, TakeSeq(a)
  PROVE  SeqsDistinct'
<1> DEFINE k == Subject(a)
<1>1. k \in Ids /\ disc[k] \in Discoveries /\ held[a] = 0
  BY Subjects, Emissions DEF TakeSeq, BaseInv, DTypeOK
<1>2. /\ disc' = [disc EXCEPT ![k].seq = disc[k].seq + 1]
      /\ held' = [held EXCEPT ![a] = disc[k].seq + 1]
      /\ \A b \in Actors : Subject(b)' = Subject(b)
  BY DEF TakeSeq, NextSeq, Subject, queueVars
<1> HIDE DEF k
<1>3. SUFFICES ASSUME NEW i \in Ids  PROVE Numbered(i)'
  BY NumberedIsDistinct DEF SeqsDistinct, Numbered, Carries
<1>4. /\ Numbered(i)
      /\ disc[i].seq \in Nat /\ disc[i].events \in Seq(Events)
      /\ held \in [Actors -> Nat]
  BY NumberedIsDistinct DEF BaseInv, DTypeOK, Discoveries, ServiceTypeOK
<1>5. disc'[i].events = disc[i].events
  BY <1>1, <1>2 DEF BaseInv, DTypeOK, Discoveries
<1>6. \A n \in DOMAIN disc[i].events : disc[i].events[n].seq \in Nat
  <2>1. \A n \in DOMAIN disc[i].events : disc[i].events[n] \in Events
    BY <1>4
  <2>2. QED  BY <2>1 DEF Events
<1>7. CASE i # k
  <2>1. disc'[i].seq = disc[i].seq
    BY <1>2, <1>7 DEF BaseInv, DTypeOK
  <2>2. \A b \in Actors : Carries(b, i)' => Carries(b, i) /\ held'[b] = held[b]
    BY <1>2, <1>4, <1>7 DEF Carries, k
  <2>3. QED  BY <1>4, <1>5, <2>1, <2>2 DEF Numbered
<1>8. CASE i = k
  <2>1. disc'[i].seq = disc[i].seq + 1
    BY <1>1, <1>2, <1>8 DEF BaseInv, DTypeOK, Discoveries
  <2>2. held'[a] = disc[i].seq + 1
    BY <1>2, <1>4, <1>8
  <2>3. \A b \in Actors : b # a /\ Carries(b, i)' => Carries(b, i) /\ held'[b] = held[b]
    BY <1>2, <1>4 DEF Carries
  <2>4. \A b \in Actors : b # a /\ Carries(b, i)' => held'[b] <= disc[i].seq
    BY <1>4, <2>3 DEF Numbered
  <2>5. (\A n \in DOMAIN disc[i].events : disc[i].events[n].seq <= disc[i].seq)'
    BY <1>4, <1>5, <1>6, <2>1 DEF Numbered
  <2>6. (\A b \in Actors : Carries(b, i) => held[b] <= disc[i].seq)'
    <3>1. ASSUME NEW b \in Actors, Carries(b, i)'  PROVE held'[b] <= disc'[i].seq
      <4>1. CASE b = a
        BY <1>4, <2>1, <2>2, <4>1
      <4>2. CASE b # a
        BY <1>4, <2>1, <2>3, <2>4, <3>1, <4>2
      <4>3. QED  BY <4>1, <4>2
    <3>2. QED  BY <3>1
  <2>7. (\A b \in Actors : Carries(b, i) =>
           \A n \in DOMAIN disc[i].events : disc[i].events[n].seq # held[b])'
    <3>1. ASSUME NEW b \in Actors, Carries(b, i)', NEW n \in DOMAIN disc[i].events
          PROVE  disc[i].events[n].seq # held'[b]
      <4>1. disc[i].events[n].seq <= disc[i].seq /\ disc[i].events[n].seq \in Nat
        BY <1>4, <1>6 DEF Numbered
      <4>2. CASE b = a
        BY <1>4, <2>2, <4>1, <4>2
      <4>3. CASE b # a
        BY <1>4, <2>3, <3>1, <4>3 DEF Numbered
      <4>4. QED  BY <4>2, <4>3
    <3>2. QED  BY <1>5, <3>1
  <2>8. (\A b, c \in Actors : Carries(b, i) /\ Carries(c, i) /\ held[b] = held[c] => b = c)'
    <3>1. ASSUME NEW b \in Actors, NEW c \in Actors, Carries(b, i)', Carries(c, i)',
                 held'[b] = held'[c], b # a, c # a
          PROVE  b = c
      BY <1>4, <2>3, <3>1 DEF Numbered
    <3>2. ASSUME NEW b \in Actors, Carries(b, i)', b # a  PROVE held'[b] # held'[a]
      BY <1>4, <2>2, <2>3, <2>4, <3>2
    <3>3. QED  BY <3>1, <3>2
  <2>9. QED
    BY <1>4, <1>5, <2>5, <2>6, <2>7, <2>8 DEF Numbered
<1>9. QED  BY <1>7, <1>8

\* The event appended has a number that no event of the log has.
LEMMA AppendEventNumbers ==
  ASSUME BaseInv, SeqsDistinct, NEW a \in Actors, AppendEvent(a)
  PROVE  SeqsDistinct'
<1> DEFINE k == Subject(a)
           e == [seq |-> held[a], type |-> Emission[pc[a]].type]
           t == LastEvents(Append(disc[k].events, e))
<1>1. /\ k \in Ids /\ disc[k] \in Discoveries /\ held[a] \in Nat \ {0}
      /\ pc[a] \in DOMAIN Emission /\ held \in [Actors -> Nat]
      /\ Len(disc[k].events) <= MaxEvents
  BY Subjects, Emissions DEF AppendEvent, BaseInv, DTypeOK, Links, ServiceTypeOK
<1>2. /\ disc' = [disc EXCEPT ![k].events = t]
      /\ held' = [held EXCEPT ![a] = 0]
      /\ \A b \in Actors : Subject(b)' = Subject(b)
  BY DEF AppendEvent, AppendDiscoveryEvent, Subject, queueVars
<1>3. /\ disc[k].events \in Seq(Events) /\ e \in Events /\ e.seq = held[a]
      /\ DOMAIN disc[k].events = 1..Len(disc[k].events)
  BY <1>1, Emissions DEF Discoveries, Events
<1> HIDE DEF e, k
<1>4. /\ DOMAIN t = 1..Len(t) /\ Len(t) \in Nat \ {0} /\ t[Len(t)] = e
      /\ \E q \in {0, 1} : \A n \in 1..(Len(t) - 1) :
           n + q \in DOMAIN disc[k].events /\ t[n] = disc[k].events[n + q]
  <2>1. Len(disc[k].events) <= MaxEvents
    BY <1>1
  <2>2. /\ DOMAIN t = 1..Len(t) /\ Len(t) \in Nat \ {0} /\ t[Len(t)] = e
        /\ \E q \in {0, 1} :
             /\ Len(t) = Len(disc[k].events) + 1 - q
             /\ \A n \in 1..(Len(t) - 1) :
                  n + q \in DOMAIN disc[k].events /\ t[n] = disc[k].events[n + q]
    BY <1>3, <2>1, LastEventsOfAppend, Zenon
  <2> HIDE DEF t
  <2>3. QED  BY <2>2
<1> HIDE DEF t
<1>5. PICK q \in {0, 1} : \A n \in 1..(Len(t) - 1) :
        n + q \in DOMAIN disc[k].events /\ t[n] = disc[k].events[n + q]
  BY <1>4
<1>6. SUFFICES ASSUME NEW i \in Ids  PROVE Numbered(i)'
  BY NumberedIsDistinct DEF SeqsDistinct, Numbered, Carries
<1>7. /\ Numbered(i) /\ Numbered(k)
      /\ disc'[i].seq = disc[i].seq
  BY <1>1, <1>2, NumberedIsDistinct DEF BaseInv, DTypeOK, Discoveries
<1>8. \A b \in Actors : Carries(b, i)' => Carries(b, i) /\ held'[b] = held[b] /\ b # a
  BY <1>1, <1>2 DEF Carries
<1>9. CASE i # k
  <2>1. disc'[i].events = disc[i].events
    BY <1>2, <1>9 DEF BaseInv, DTypeOK
  <2>2. QED  BY <1>7, <1>8, <2>1 DEF Numbered
<1>10. CASE i = k
  <2>1. disc'[i].events = t
    BY <1>1, <1>2, <1>10 DEF BaseInv, DTypeOK, Discoveries
  <2>2. Carries(a, i)
    BY <1>1, <1>10 DEF Carries, k
  <2>3. \A n \in DOMAIN disc[k].events : disc[k].events[n].seq # held[a]
    BY <1>7, <1>10, <2>2 DEF Numbered
  <2>4. \A n \in DOMAIN t : n = Len(t) \/ n \in 1..(Len(t) - 1)
    BY <1>4
  <2>5. \A m, n \in DOMAIN t : t[m].seq = t[n].seq => m = n
    <3>1. ASSUME NEW m \in 1..(Len(t) - 1)  PROVE t[m].seq # t[Len(t)].seq
      BY <1>3, <1>4, <1>5, <2>3
    <3>2. ASSUME NEW m \in 1..(Len(t) - 1), NEW n \in 1..(Len(t) - 1), t[m].seq = t[n].seq
          PROVE  m = n
      <4>1. m + q = n + q
        BY <1>5, <1>7, <3>2 DEF Numbered
      <4>2. QED  BY <1>4, <4>1
    <3>3. QED  BY <2>4, <3>1, <3>2
  <2>6. \A n \in DOMAIN t : t[n].seq <= disc[i].seq
    <3>1. t[Len(t)].seq <= disc[i].seq
      BY <1>3, <1>4, <1>7, <2>2 DEF Numbered
    <3>2. \A n \in 1..(Len(t) - 1) : t[n].seq <= disc[i].seq
      BY <1>5, <1>7, <1>10 DEF Numbered
    <3>3. QED  BY <2>4, <3>1, <3>2
  <2>7. \A b \in Actors : Carries(b, i)' => \A n \in DOMAIN t : t[n].seq # held'[b]
    <3>1. ASSUME NEW b \in Actors, Carries(b, i)'
          PROVE  \A n \in DOMAIN t : t[n].seq # held'[b]
      <4>1. held'[b] = held[b] /\ held[b] # held[a]
        BY <1>7, <1>8, <2>2, <3>1 DEF Numbered
      <4>2. \A n \in DOMAIN disc[k].events : disc[k].events[n].seq # held[b]
        BY <1>7, <1>8, <1>10, <3>1 DEF Numbered
      <4>3. QED  BY <1>3, <1>4, <1>5, <2>4, <4>1, <4>2
    <3>2. QED  BY <3>1
  <2>8. QED  BY <1>7, <1>8, <2>1, <2>5, <2>6, <2>7 DEF Numbered
<1>11. QED  BY <1>9, <1>10

\* Whoever is not in the middle of an emission carries no number.
LEMMA CarriersEmit ==
  ASSUME BaseInv, NEW a \in Actors, pc[a] \notin DOMAIN Emission
  PROVE  held[a] = 0
  BY DEF BaseInv, Links

LEMMA StoreKeepsNumbers ==
  ASSUME BaseInv, NEW i \in Ids,
         \/ CreateDiscovery(i)
         \/ \E s \in Terminal \cup {"pending"} : UpdateStatus(i, s)
         \/ \E s \in Terminal \cup {"pending"}, r \in BOOLEAN : UpdateDiscovery(i, s, r)
  PROVE  \A j \in Ids : disc'[j].events = disc[j].events /\ disc'[j].seq = disc[j].seq
<1> USE DEF BaseInv, DTypeOK, Discoveries
<1>1. CASE CreateDiscovery(i)
  BY <1>1 DEF CreateDiscovery
<1>2. ASSUME NEW s \in Terminal \cup {"pending"}, UpdateStatus(i, s)
      PROVE  \A j \in Ids : disc'[j].events = disc[j].events /\ disc'[j].seq = disc[j].seq
  BY <1>2 DEF UpdateStatus
<1>3. ASSUME NEW s \in Terminal \cup {"pending"}, NEW r \in BOOLEAN, UpdateDiscovery(i, s, r)
      PROVE  \A j \in Ids : disc'[j].events = disc[j].events /\ disc'[j].seq = disc[j].seq
  <2>1. /\ \A j \in Ids : j # i => disc'[j] = disc[j]
        /\ disc'[i] = [disc[i] EXCEPT !.status = s, !.results = r]
    BY <1>3 DEF UpdateDiscovery
  <2>2. disc'[i].events = disc[i].events /\ disc'[i].seq = disc[i].seq
    BY <2>1
  <2>3. QED  BY <2>1, <2>2
<1>4. QED  BY <1>1, <1>2, <1>3

LEMMA RequestKeepsLogs ==
  ASSUME BaseInv, NEW r \in Requests,
         \/ \E i \in Ids : SearchKnown(r, i)
         \/ SkipDiscovery(r) \/ ShouldDiscover(r) \/ StartNew(r) \/ StartJoins(r)
         \/ StartAgain(r) \/ ResetDiscovery(r) \/ StartFails(r)
  PROVE  LogUntouched
<1>1. UNCHANGED <<queueVars, held>>
  BY DEF SearchKnown, SkipDiscovery, ShouldDiscover, StartNew, StartJoins, StartAgain,
         ResetDiscovery, StartFails
<1>2. \A i \in Ids : disc'[i].events = disc[i].events /\ disc'[i].seq = disc[i].seq
  <2>1. CASE StartNew(r) \/ ResetDiscovery(r) \/ StartFails(r)
    <3>1. req[r] \in Ids
      BY <2>1 DEF StartNew, ResetDiscovery, StartFails, At, BaseInv, Links
    <3>2. QED
      BY <2>1, <3>1, StoreKeepsNumbers DEF StartNew, ResetDiscovery, StartFails, Terminal
  <2>2. QED
    BY <2>1 DEF SearchKnown, SkipDiscovery, ShouldDiscover, StartJoins, StartAgain
<1>3. \A a \in Actors : held[a] # 0 => Subject(a)' = Subject(a)
  <2>1. ASSUME NEW i \in Ids, SearchKnown(r, i)
        PROVE  \A a \in Actors : held[a] # 0 => Subject(a)' = Subject(a)
    <3>1. held[r] = 0
      BY <2>1, CarriersEmit, Emissions DEF SearchKnown, At, Actors
    <3>2. QED
      BY <1>1, <2>1, <3>1 DEF SearchKnown, Subject, BaseInv, ServiceTypeOK, queueVars
  <2>2. QED
    BY <1>1, <2>1 DEF SkipDiscovery, ShouldDiscover, StartNew, StartJoins, StartAgain,
                      ResetDiscovery, StartFails, Subject, queueVars
<1>4. QED  BY <1>1, <1>2, <1>3 DEF LogUntouched

LEMMA EnqueueKeepsLogs ==
  ASSUME BaseInv, NEW r \in Requests,
         \/ EnqueueDuplicate(r) \/ EnqueueMark(r) \/ EnqueueSend(r)
         \/ EnqueueCancel(r) \/ EnqueuePanic(r)
  PROVE  LogUntouched
<1>1. UNCHANGED <<disc, held, req, wkey>>
  BY DEF EnqueueDuplicate, EnqueueMark, EnqueueSend, EnqueueCancel, EnqueuePanic,
         Q!EnqueueDuplicate, Q!EnqueueMark, Q!EnqueueSend, Q!EnqueueCancel, Q!EnqueuePanic,
         Q!queueVars
<1>2. QED  BY <1>1 DEF Subject, LogUntouched

LEMMA WorkerKeepsLogs ==
  ASSUME BaseInv, NEW w \in Workers,
         \/ Receive(w) \/ RunReturns(w) \/ Forget(w) \/ Exit(w) \/ DiscoverFeeds(w)
         \/ SetError(w) \/ SetNone(w) \/ SetFound(w) \/ GetOrCreateFeed(w)
  PROVE  LogUntouched
<1>1. UNCHANGED <<held, req>>
  BY DEF Receive, RunReturns, Forget, Exit, DiscoverFeeds, SetError, SetNone, SetFound,
         GetOrCreateFeed, serviceVars
<1>2. \A i \in Ids : disc'[i].events = disc[i].events /\ disc'[i].seq = disc[i].seq
  <2>1. CASE SetError(w) \/ SetNone(w) \/ SetFound(w)
    <3>1. wkey[w] \in Ids
      BY <2>1, Subjects, ServiceAssumption
      DEF SetError, SetNone, SetFound, At, Subject, Actors, ServiceAssumption
    <3>2. QED
      BY <2>1, <3>1, StoreKeepsNumbers DEF SetError, SetNone, SetFound, Terminal
  <2>2. QED
    BY <2>1 DEF Receive, RunReturns, Forget, Exit, DiscoverFeeds, GetOrCreateFeed
<1>3. \A a \in Actors : held[a] # 0 => Subject(a)' = Subject(a)
  <2>1. CASE Receive(w) \/ Forget(w)
    <3>1. pc[w] = "idle"
      BY <2>1 DEF Receive, Forget, At, Q!Forget, BaseInv, Links
    <3>2. held[w] = 0
      BY <3>1, CarriersEmit, Emissions DEF Actors
    <3>3. \A v \in Workers : v # w => wkey'[v] = wkey[v]
      BY <2>1 DEF Receive, Forget, Q!Receive, Q!Forget, BaseInv, QP!IndInv, QP!QTypeOK
    <3>4. QED  BY <1>1, <3>2, <3>3 DEF Subject, Actors
  <2>2. CASE ~(Receive(w) \/ Forget(w))
    BY <1>1, <2>2 DEF RunReturns, Exit, DiscoverFeeds, SetError, SetNone, SetFound,
                      GetOrCreateFeed, Q!RunReturns, Q!Exit, Subject, queueVars
  <2>3. QED  BY <2>1, <2>2
<1>4. QED  BY <1>1, <1>2, <1>3 DEF LogUntouched

LEMMA NextLogs ==
  ASSUME BaseInv, [SNext]_vars
  PROVE  LogUntouched \/ \E a \in Actors : TakeSeq(a) \/ AppendEvent(a)
<1>1. CASE \E r \in Requests : \/ \E i \in Ids : SearchKnown(r, i)
                               \/ RequestStep(r) \/ EnqueueCancel(r)
  BY <1>1, RequestKeepsLogs, EnqueueKeepsLogs DEF RequestStep, Actors
<1>2. CASE \E w \in Workers : WorkerStep(w)
  BY <1>2, WorkerKeepsLogs DEF WorkerStep, Actors
<1>3. CASE \/ StopClose \/ StopReturn \/ Terminated \/ UNCHANGED vars
           \/ \E i \in Ids : SubscribeToFeed(i)
  <2>1. UNCHANGED <<disc, held, req, wkey>>
    BY <1>3 DEF StopClose, StopReturn, Terminated, vars, queueVars, serviceVars,
                Q!StopClose, Q!StopReturn, SubscribeToFeed
  <2>2. QED  BY <2>1 DEF Subject, LogUntouched
<1>4. QED  BY <1>1, <1>2, <1>3 DEF SNext

LEMMA NextNumbers == BaseInv /\ SeqsDistinct /\ [SNext]_vars => SeqsDistinct'
  BY NextLogs, KeepsNumbers, TakeSeqNumbers, AppendEventNumbers

LEMMA NumbersInvariant == SSpec => [](BaseInv /\ SeqsDistinct)
<1>1. SInit => BaseInv /\ SeqsDistinct
  <2>1. SInit => SeqsDistinct
    <3> SUFFICES ASSUME SInit, NEW i \in Ids  PROVE Numbered(i)
      BY NumberedIsDistinct
    <3>1. disc[i].events = <<>> /\ \A a \in Actors : held[a] = 0
      BY DEF SInit, DInit, NoDiscovery
    <3>2. QED  BY <3>1 DEF Numbered, Carries
  <2>2. QED  BY <2>1, InitBase
<1>2. BaseInv /\ SeqsDistinct /\ [SNext]_vars => (BaseInv /\ SeqsDistinct)'
  BY NextBase, NextNumbers
<1>3. QED  BY <1>1, <1>2, PTL DEF SSpec

\* Event numbers are never given twice, over any number of runs and restarts
\* and for any size of the log.
THEOREM NumbersAreDistinct == SSpec => []SeqsDistinct
  BY NumbersInvariant, PTL

------------------------------------------------------------------------------
(* The order of the log *)

\* The log of i is in the order of its numbers, and whoever is about to
\* append to it has a larger one.
Ordered(i) ==
  /\ \A m, n \in DOMAIN disc[i].events :
        m < n => disc[i].events[m].seq < disc[i].events[n].seq
  /\ \A a \in Actors : Carries(a, i) =>
        \A n \in DOMAIN disc[i].events : disc[i].events[n].seq < held[a]

OrderInv == \A i \in Ids \ restarted : Ordered(i)

\* A first run has one emitter at a time: its one starter, then its job.
LEMMA OneEmitter ==
  ASSUME BaseInv, FirstRunInv, NEW i \in Ids \ restarted, NEW a \in Actors, NEW b \in Actors,
         Carries(a, i), Carries(b, i)
  PROVE  a = b
<1>1. FirstRun(i) /\ pc[a] \in DOMAIN Emission /\ pc[b] \in DOMAIN Emission
  BY DEF FirstRunInv, BaseInv, Links, Carries
<1>2. ASSUME NEW c \in Requests, Carries(c, i), pc[c] \in DOMAIN Emission  PROVE Starting(c, i)
  BY <1>2, Emissions DEF Carries, Subject, Starting, BaseInv, ServiceTypeOK, RequestPCs
<1>3. ASSUME NEW c \in Workers, Carries(c, i), pc[c] \in DOMAIN Emission
      PROVE  wkey[c] = i /\ pc[c] # "idle" /\ Q!Held(i)
  <2>1. wkey[c] = i
    BY <1>3, ServiceAssumption DEF Carries, Subject, ServiceAssumption
  <2>2. pc[c] # "idle"
    BY <1>3, Emissions
  <2>3. QED  BY <2>1, <2>2, ProgressIsHeld
<1>4. CASE a \in Requests /\ b \in Requests
  BY <1>1, <1>2, <1>4 DEF FirstRun
<1>5. CASE a \in Workers /\ b \in Workers
  BY <1>1, <1>3, <1>5, ProgressIsHeld
<1>6. ~(a \in Requests /\ b \in Workers) /\ ~(a \in Workers /\ b \in Requests)
  <2>1. \A r \in Requests : Starting(r, i) => ~Q!Held(i)
    BY <1>1 DEF FirstRun
  <2>2. QED  BY <1>1, <1>2, <1>3, <2>1
<1>7. QED  BY <1>4, <1>5, <1>6 DEF Actors

LEMMA RestartedGrows ==
  ASSUME [SNext]_vars  PROVE restarted \subseteq restarted'
<1>1. CASE \E r \in Requests : \/ \E i \in Ids : SearchKnown(r, i)
                               \/ RequestStep(r) \/ EnqueueCancel(r)
  BY <1>1 DEF RequestStep, SearchKnown, SkipDiscovery, ShouldDiscover, StartNew, StartJoins,
     StartAgain, ResetDiscovery, TakeSeq, AppendEvent, EnqueueDuplicate, EnqueueMark,
     EnqueueSend, EnqueueCancel, EnqueuePanic, StartFails
<1>2. CASE \E w \in Workers : WorkerStep(w)
  BY <1>2 DEF WorkerStep, Receive, TakeSeq, AppendEvent, DiscoverFeeds, SetError, SetNone,
     SetFound, GetOrCreateFeed, RunReturns, Forget, Exit, serviceVars
<1>3. CASE \/ StopClose \/ StopReturn \/ Terminated \/ UNCHANGED vars
           \/ \E i \in Ids : SubscribeToFeed(i)
  BY <1>3 DEF StopClose, StopReturn, Terminated, vars, serviceVars, SubscribeToFeed
<1>4. QED  BY <1>1, <1>2, <1>3 DEF SNext

\* The types the arithmetic of the next lemmas needs.
LEMMA LogTypes ==
  ASSUME BaseInv, NEW i \in Ids
  PROVE  /\ disc[i].seq \in Nat /\ disc[i].events \in Seq(Events)
         /\ DOMAIN disc[i].events = 1..Len(disc[i].events)
         /\ \A n \in DOMAIN disc[i].events : disc[i].events[n].seq \in Nat
         /\ held \in [Actors -> Nat]
<1>1. /\ disc[i].seq \in Nat /\ disc[i].events \in Seq(Events)
      /\ held \in [Actors -> Nat]
  BY DEF BaseInv, DTypeOK, Discoveries, ServiceTypeOK
<1>2. \A n \in DOMAIN disc[i].events : disc[i].events[n] \in Events
  BY <1>1
<1>3. QED  BY <1>1, <1>2 DEF Events

\* The number taken is larger than every number of the log.
LEMMA TakeSeqOrder ==
  ASSUME BaseInv, SeqsDistinct, OrderInv, NEW a \in Actors, TakeSeq(a)
  PROVE  OrderInv'
<1> DEFINE k == Subject(a)
<1>1. k \in Ids
  BY Subjects, Emissions DEF TakeSeq
<1>2. /\ disc' = [disc EXCEPT ![k].seq = disc[k].seq + 1]
      /\ held' = [held EXCEPT ![a] = disc[k].seq + 1]
      /\ restarted' = restarted
      /\ \A b \in Actors : Subject(b)' = Subject(b)
  BY DEF TakeSeq, NextSeq, Subject, queueVars
<1> HIDE DEF k
<1>3. SUFFICES ASSUME NEW i \in Ids \ restarted  PROVE Ordered(i)'
  BY <1>2 DEF OrderInv
<1>4. Ordered(i) /\ Numbered(i)
  BY <1>3, NumberedIsDistinct DEF OrderInv
<1>5. disc'[i].events = disc[i].events
  BY <1>1, <1>2 DEF BaseInv, DTypeOK, Discoveries
<1>6. ASSUME NEW b \in Actors, Carries(b, i)', NEW n \in DOMAIN disc[i].events
      PROVE  disc[i].events[n].seq < held'[b]
  <2>1. CASE b # a
    <3>1. held'[b] = held[b] /\ Carries(b, i)
      BY <1>2, <1>6, <2>1, LogTypes DEF Carries
    <3>2. QED  BY <1>4, <3>1 DEF Ordered
  <2>2. CASE b = a
    <3>1. i = k
      BY <1>2, <1>6, <2>2 DEF Carries, k
    <3>2. held'[a] = disc[i].seq + 1
      BY <1>2, <3>1, LogTypes
    <3>3. disc[i].events[n].seq <= disc[i].seq
      BY <1>4 DEF Numbered
    <3>4. QED  BY <2>2, <3>2, <3>3, LogTypes
  <2>3. QED  BY <2>1, <2>2
<1>7. QED  BY <1>4, <1>5, <1>6 DEF Ordered

\* The event appended is the last, and its emitter was the only one.
LEMMA AppendEventOrder ==
  ASSUME BaseInv, FirstRunInv, OrderInv, NEW a \in Actors, AppendEvent(a)
  PROVE  OrderInv'
<1> DEFINE k == Subject(a)
           e == [seq |-> held[a], type |-> Emission[pc[a]].type]
           t == LastEvents(Append(disc[k].events, e))
<1>1. /\ k \in Ids /\ held[a] \in Nat \ {0} /\ pc[a] \in DOMAIN Emission
      /\ Len(disc[k].events) <= MaxEvents
  BY Subjects, Emissions DEF AppendEvent, BaseInv, DTypeOK, Links, ServiceTypeOK
<1>2. /\ disc' = [disc EXCEPT ![k].events = t]
      /\ held' = [held EXCEPT ![a] = 0]
      /\ restarted' = restarted
      /\ \A b \in Actors : Subject(b)' = Subject(b)
  BY DEF AppendEvent, AppendDiscoveryEvent, Subject, queueVars
<1>3. e \in Events /\ e.seq = held[a] /\ Carries(a, k)
  BY <1>1, Emissions DEF Events, Carries
<1> HIDE DEF e, k
<1>4. /\ DOMAIN t = 1..Len(t) /\ Len(t) \in Nat \ {0} /\ t[Len(t)] = e
      /\ \E q \in {0, 1} :
           /\ Len(t) = Len(disc[k].events) + 1 - q
           /\ \A n \in 1..(Len(t) - 1) :
                n + q \in DOMAIN disc[k].events /\ t[n] = disc[k].events[n + q]
  <2>1. disc[k].events \in Seq(Events) /\ Len(disc[k].events) <= MaxEvents
    BY <1>1, LogTypes
  <2>2. QED  BY <1>3, <2>1, LastEventsOfAppend, Zenon
<1> HIDE DEF t
<1>5. PICK q \in {0, 1} : \A n \in 1..(Len(t) - 1) :
        n + q \in DOMAIN disc[k].events /\ t[n] = disc[k].events[n + q]
  BY <1>4
<1>6. SUFFICES ASSUME NEW i \in Ids \ restarted  PROVE Ordered(i)'
  BY <1>2 DEF OrderInv
<1>7. Ordered(i) /\ \A b \in Actors : Carries(b, i)' => Carries(b, i) /\ held'[b] = held[b] /\ b # a
  BY <1>1, <1>2, <1>6, LogTypes DEF Carries, OrderInv
<1>8. CASE i # k
  <2>1. disc'[i].events = disc[i].events
    BY <1>2, <1>8 DEF BaseInv, DTypeOK
  <2>2. QED  BY <1>7, <2>1 DEF Ordered
<1>9. CASE i = k
  <2>1. disc'[i].events = t
    BY <1>1, <1>2, <1>9 DEF BaseInv, DTypeOK, Discoveries
  <2>2. \A b \in Actors : ~Carries(b, i)'
    BY <1>3, <1>7, <1>9, OneEmitter
  <2>3. \A n \in DOMAIN disc[k].events : disc[k].events[n].seq < held[a]
    BY <1>3, <1>7, <1>9 DEF Ordered
  <2>4. ASSUME NEW m \in DOMAIN t, NEW n \in DOMAIN t, m < n  PROVE t[m].seq < t[n].seq
    <3>1. m \in 1..(Len(t) - 1)
      BY <1>4, <2>4
    <3>2. CASE n = Len(t)
      BY <1>3, <1>4, <1>5, <2>3, <3>1, <3>2
    <3>3. CASE n # Len(t)
      <4>1. n \in 1..(Len(t) - 1)
        <5>1. n \in 1..Len(t) /\ Len(t) \in Nat
          BY <1>4
        <5>2. QED  BY <3>3, <5>1
      <4>2. m + q < n + q
        BY <1>5, <2>4, <3>1, <4>1
      <4>3. QED  BY <1>5, <1>7, <1>9, <3>1, <4>1, <4>2 DEF Ordered
    <3>4. QED  BY <3>2, <3>3
  <2>5. QED  BY <2>1, <2>2, <2>4 DEF Ordered
<1>10. QED  BY <1>8, <1>9

LEMMA NextOrder ==
  BaseInv /\ FirstRunInv /\ SeqsDistinct /\ OrderInv /\ [SNext]_vars => OrderInv'
<1> SUFFICES ASSUME BaseInv, FirstRunInv, SeqsDistinct, OrderInv, [SNext]_vars  PROVE OrderInv'
  OBVIOUS
<1>1. CASE LogUntouched
  <2> SUFFICES ASSUME NEW i \in Ids \ restarted  PROVE Ordered(i)'
    BY RestartedGrows DEF OrderInv
  <2>1. Ordered(i) /\ \A a \in Actors : Carries(a, i)' <=> Carries(a, i)
    BY <1>1 DEF OrderInv, LogUntouched, Carries
  <2>2. QED  BY <1>1, <2>1 DEF Ordered, LogUntouched
<1>2. QED  BY <1>1, NextLogs, TakeSeqOrder, AppendEventOrder

\* The log of a discovery that was never restarted is in the order of its
\* numbers, for any number of requests and any size of the log.
THEOREM FirstRunsAreInOrder == SSpec => []FirstRunInOrder
<1>1. SInit => OrderInv
  <2> SUFFICES ASSUME SInit, NEW i \in Ids  PROVE Ordered(i)
    BY DEF OrderInv
  <2>1. disc[i].events = <<>>
    BY DEF SInit, DInit, NoDiscovery
  <2>2. QED  BY <2>1 DEF Ordered
<1>2. OrderInv => FirstRunInOrder
  BY DEF OrderInv, Ordered, FirstRunInOrder
<1>3. QED
  BY <1>1, <1>2, NextOrder, FirstRunInvariant, NumbersInvariant, PTL DEF SSpec

------------------------------------------------------------------------------
(* What a run has found *)

\* Nothing forgets a feed, publishes "resolved_found" or leaves "persist".
KeepsFound ==
  /\ known \subseteq known'
  /\ \A i \in Ids : disc'[i].status = "resolved_found" => disc[i].status = "resolved_found"
  /\ \A w \in Workers : pc[w] = "persist" => pc'[w] = "persist" /\ wkey'[w] = wkey[w]

\* Events leave the status alone.
LEMMA EmitKeepsStatus ==
  ASSUME BaseInv, NEW a \in Actors, TakeSeq(a) \/ AppendEvent(a)
  PROVE  /\ \A i \in Ids : disc'[i].status = disc[i].status
         /\ known' = known /\ wkey' = wkey
<1>1. disc \in [Ids -> Discoveries]
  BY DEF BaseInv, DTypeOK
<1>2. \/ \E n : disc' = [disc EXCEPT ![Subject(a)].seq = n]
      \/ \E e : disc' = [disc EXCEPT ![Subject(a)].events = e]
  BY DEF TakeSeq, NextSeq, AppendEvent, AppendDiscoveryEvent
<1>3. ASSUME NEW i \in Ids  PROVE disc'[i].status = disc[i].status
  <2>1. disc[i] \in Discoveries
    BY <1>1
  <2>2. \/ disc'[i] = disc[i]
        \/ \E n : disc'[i] = [disc[i] EXCEPT !.seq = n]
        \/ \E e : disc'[i] = [disc[i] EXCEPT !.events = e]
    BY <1>1, <1>2
  <2>3. QED  BY <2>1, <2>2 DEF Discoveries
<1>4. QED  BY <1>3 DEF TakeSeq, AppendEvent, queueVars

LEMMA RequestKeepsFound ==
  ASSUME BaseInv, NEW r \in Requests,
         \/ \E i \in Ids : SearchKnown(r, i)
         \/ RequestStep(r) \/ EnqueueCancel(r)
  PROVE  KeepsFound
<1>1. known' = known /\ wkey' = wkey
  BY DEF RequestStep, SearchKnown, SkipDiscovery, ShouldDiscover, StartNew, StartJoins,
     StartAgain, ResetDiscovery, TakeSeq, AppendEvent, EnqueueDuplicate, EnqueueMark,
     EnqueueSend, EnqueueCancel, EnqueuePanic, StartFails, queueVars, Q!queueVars,
     Q!EnqueueDuplicate, Q!EnqueueMark, Q!EnqueueSend, Q!EnqueueCancel, Q!EnqueuePanic
<1>2. \A w \in Workers : pc'[w] = pc[w]
  <2>1. pc' = pc \/ \E l : Goto(r, l)
    BY DEF RequestStep, SearchKnown, SkipDiscovery, ShouldDiscover, StartNew, StartJoins,
       StartAgain, ResetDiscovery, TakeSeq, AppendEvent, EnqueueDuplicate, EnqueueMark,
       EnqueueSend, EnqueueCancel, EnqueuePanic, StartFails, At
  <2>2. QED
    BY <2>1, ServiceAssumption DEF ServiceAssumption, Goto, BaseInv, ServiceTypeOK, Actors
<1>3. \A i \in Ids : disc'[i].status = "resolved_found" => disc[i].status = "resolved_found"
  <2>1. CASE disc' = disc
    BY <2>1
  <2>2. CASE StartNew(r) \/ ResetDiscovery(r) \/ StartFails(r)
    <3>1. \A i \in Ids : disc'[i] = disc[i] \/ disc'[i].status \in {"pending", "error"}
      BY <2>2 DEF StartNew, CreateDiscovery, ResetDiscovery, UpdateDiscovery, StartFails,
                  UpdateStatus, BaseInv, DTypeOK, Discoveries
    <3>2. QED  BY <3>1
  <2>3. CASE TakeSeq(r) \/ AppendEvent(r)
    BY <2>3, EmitKeepsStatus DEF Actors
  <2>4. QED
    BY <2>1, <2>2, <2>3
    DEF RequestStep, SearchKnown, SkipDiscovery, ShouldDiscover, StartJoins, StartAgain,
        EnqueueDuplicate, EnqueueMark, EnqueueSend, EnqueueCancel, EnqueuePanic
<1>4. QED  BY <1>1, <1>2, <1>3 DEF KeepsFound

LEMMA WorkerKeepsFound ==
  ASSUME BaseInv, NEW w \in Workers, pc[w] # "persist",
         WorkerStep(w), ~SetFound(w)
  PROVE  KeepsFound
<1>1. known' = known
  BY DEF WorkerStep, Receive, TakeSeq, AppendEvent, DiscoverFeeds, SetError, SetNone,
     GetOrCreateFeed, RunReturns, Forget, Exit, serviceVars, At
<1>2. \A v \in Workers : pc[v] = "persist" => pc'[v] = "persist"
  <2>1. pc' = pc \/ \E l : Goto(w, l)
    BY DEF WorkerStep, Receive, TakeSeq, AppendEvent, DiscoverFeeds, SetError, SetNone,
       GetOrCreateFeed, RunReturns, Forget, Exit, serviceVars, At
  <2>2. QED
    BY <2>1, ServiceAssumption DEF ServiceAssumption, Goto, BaseInv, ServiceTypeOK, Actors
<1>3. \A v \in Workers : pc[v] = "persist" => wkey'[v] = wkey[v]
  <2>1. wkey' = wkey \/ \E k : wkey' = [wkey EXCEPT ![w] = k]
    BY DEF WorkerStep, Receive, TakeSeq, AppendEvent, DiscoverFeeds, SetError, SetNone,
       GetOrCreateFeed, RunReturns, Forget, Exit, queueVars,
       Q!Receive, Q!RunReturns, Q!Forget, Q!Exit
  <2>2. QED  BY <2>1 DEF BaseInv, QP!IndInv, QP!QTypeOK
<1>4. \A i \in Ids : disc'[i].status = "resolved_found" => disc[i].status = "resolved_found"
  <2>1. CASE SetError(w) \/ SetNone(w)
    <3>1. \A i \in Ids : disc'[i] = disc[i] \/ disc'[i].status \in {"error", "resolved_none"}
      BY <2>1 DEF SetError, SetNone, UpdateStatus, BaseInv, DTypeOK, Discoveries
    <3>2. QED  BY <3>1
  <2>2. CASE TakeSeq(w) \/ AppendEvent(w)
    BY <2>2, EmitKeepsStatus DEF Actors
  <2>3. QED
    BY <2>1, <2>2
    DEF WorkerStep, Receive, DiscoverFeeds, GetOrCreateFeed, RunReturns, Forget, Exit
<1>5. QED  BY <1>1, <1>2, <1>3, <1>4 DEF KeepsFound

\* The status is published, and the feed is to be persisted.
LEMMA SetFoundFound ==
  ASSUME BaseInv, FoundIsKnown, NEW w \in Workers, SetFound(w)
  PROVE  FoundIsKnown'
<1>1. /\ disc' = [disc EXCEPT ![wkey[w]].status = "resolved_found", ![wkey[w]].results = TRUE]
      /\ known' = known /\ wkey' = wkey
      /\ pc[w] = "setFound" /\ pc' = [pc EXCEPT ![w] = "persist"]
  BY DEF SetFound, At, Goto, UpdateDiscovery, queueVars
<1>2. /\ pc'[w] = "persist"
      /\ \A v \in Workers : pc[v] = "persist" => pc'[v] = "persist"
  BY <1>1 DEF BaseInv, ServiceTypeOK, Actors
<1>3. \A i \in Ids : i # wkey[w] => disc'[i] = disc[i]
  BY <1>1 DEF BaseInv, DTypeOK
<1>4. QED  BY <1>1, <1>2, <1>3 DEF FoundIsKnown

\* The feed is persisted: whatever the discovery was waiting for is known.
LEMMA GetOrCreateFound ==
  ASSUME BaseInv, FoundIsKnown, NEW w \in Workers, GetOrCreateFeed(w)
  PROVE  FoundIsKnown'
<1>1. /\ disc' = disc /\ wkey' = wkey
      /\ known' = known \cup Finds[wkey[w]]
      /\ pc' = [pc EXCEPT ![w] = "return"]
  BY DEF GetOrCreateFeed, At, Goto, queueVars
<1>2. \A v \in Workers : v # w => pc'[v] = pc[v]
  BY <1>1 DEF BaseInv, ServiceTypeOK, Actors
<1>3. SUFFICES ASSUME NEW i \in Ids, disc[i].status = "resolved_found"
               PROVE  Finds[i] \subseteq known' \/ \E v \in Workers : wkey'[v] = i /\ pc'[v] = "persist"
  BY <1>1 DEF FoundIsKnown
<1>4. CASE Finds[i] \subseteq known
  BY <1>1, <1>4
<1>5. CASE \E v \in Workers : wkey[v] = i /\ pc[v] = "persist"
  BY <1>1, <1>2, <1>5
<1>6. QED  BY <1>3, <1>4, <1>5 DEF FoundIsKnown

LEMMA NextFound == BaseInv /\ FoundIsKnown /\ [SNext]_vars => FoundIsKnown'
<1> SUFFICES ASSUME BaseInv, FoundIsKnown, [SNext]_vars  PROVE FoundIsKnown'
  OBVIOUS
<1>1. CASE KeepsFound
  BY <1>1 DEF KeepsFound, FoundIsKnown
<1>2. CASE \E r \in Requests : \/ \E i \in Ids : SearchKnown(r, i)
                               \/ RequestStep(r) \/ EnqueueCancel(r)
  BY <1>1, <1>2, RequestKeepsFound
<1>3. ASSUME NEW w \in Workers, WorkerStep(w)  PROVE FoundIsKnown'
  <2>1. CASE SetFound(w)
    BY <2>1, SetFoundFound
  <2>2. CASE GetOrCreateFeed(w)
    BY <2>2, GetOrCreateFound
  <2>3. CASE ~SetFound(w) /\ ~GetOrCreateFeed(w)
    <3>1. CASE pc[w] # "persist"
      BY <1>1, <1>3, <2>3, <3>1, WorkerKeepsFound
    <3>2. CASE pc[w] = "persist"
      <4>1. wpc[w] = "running" /\ held[w] = 0
        BY <3>2, Emissions DEF BaseInv, Links, Actors
      <4>2. FALSE
        BY <1>3, <2>3, <3>2, <4>1, Emissions
        DEF WorkerStep, Receive, TakeSeq, AppendEvent, DiscoverFeeds, SetError, SetNone,
            RunReturns, Forget, Exit, At, Q!Forget, Q!Exit
      <4>3. QED  BY <4>2
    <3>3. QED  BY <3>1, <3>2
  <2>4. QED  BY <2>1, <2>2, <2>3
<1>4. CASE StopClose \/ StopReturn \/ Terminated \/ UNCHANGED vars
  <2>1. UNCHANGED <<disc, known, pc, wkey>>
    BY <1>4 DEF StopClose, StopReturn, Terminated, vars, queueVars, serviceVars,
                Q!StopClose, Q!StopReturn
  <2>2. QED  BY <1>1, <2>1 DEF KeepsFound
<1>5. CASE \E i \in Ids : SubscribeToFeed(i)
  <2>1. UNCHANGED <<disc, pc, wkey>> /\ known \subseteq known'
    BY <1>5 DEF SubscribeToFeed, queueVars
  <2>2. QED  BY <1>1, <2>1 DEF KeepsFound
<1>6. QED  BY <1>2, <1>3, <1>4, <1>5 DEF SNext

\* A feed that a discovery says it has found is known, or about to be, for any
\* number of jobs, searches and restarts.
THEOREM FoundFeedsAreKept == SSpec => []FoundIsKnown
<1>1. SInit => FoundIsKnown
  BY DEF SInit, DInit, NoDiscovery, FoundIsKnown
<1>2. QED  BY <1>1, NextFound, BaseInvariant, PTL DEF SSpec

=============================================================================
