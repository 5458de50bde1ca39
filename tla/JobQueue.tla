------------------------------ MODULE JobQueue ------------------------------
(***************************************************************************)
(* internal/queue/inmem.go: InMemQueue, an in-process job queue with a     *)
(* buffered channel, a pool of worker goroutines and a set of in-flight    *)
(* keys for deduplication.                                                 *)
(*                                                                         *)
(* A step is a stretch of code other goroutines cannot see the middle of:  *)
(* a critical section of q.mu, one channel operation, or a call of Run.    *)
(* Enqueue is two of them, because it performs its select INSIDE the       *)
(* critical section: the caller that waits for room in the channel holds   *)
(* q.mu while it waits.                                                    *)
(*                                                                         *)
(* A job is represented by its key (Job.Key()): the only jobs of this      *)
(* program, DiscoveryJob, are determined by it.  InFlight, IsInFlight and  *)
(* String only read, and nothing outside the package calls them.           *)
(***************************************************************************)
EXTENDS Naturals, Sequences, FiniteSets

CONSTANTS
  Callers,    \* goroutines that call Enqueue (the HTTP handlers)
  Workers,    \* the numWorkers goroutines started by Start
  Keys,       \* the values of Job.Key()
  Capacity,   \* size of the channel buffer: 100 in the code
  NoKey       \* "no job": what an idle caller or worker holds

ASSUME QueueAssumption ==
  /\ Capacity \in Nat \ {0}
  /\ NoKey \notin Keys
  /\ Workers # {}

VARIABLES
  jobs,       \* q.jobs, the buffered channel, oldest job first
  inflight,   \* q.inflight, the set of keys mapped to true
  sending,    \* the job with which a caller waits in the select of Enqueue
  wpc,        \* where each worker is in its loop
  wkey,       \* the job each worker took from the channel
  stop        \* where Stop is: "open" (not called), "closing", "stopped"

queueVars == <<jobs, inflight, sending, wpc, wkey, stop>>

QTypeOK ==
  /\ jobs \in Seq(Keys)
  /\ Len(jobs) <= Capacity
  /\ inflight \subseteq Keys
  /\ sending \in [Callers -> Keys \cup {NoKey}]
  /\ wpc \in [Workers -> {"idle", "running", "finished", "exited"}]
  /\ wkey \in [Workers -> Keys \cup {NoKey}]
  /\ stop \in {"open", "closing", "stopped"}

\* NewInMemQueue, then Start: every worker is at the head of its loop.
QInit ==
  /\ jobs = <<>>
  /\ inflight = {}
  /\ sending = [c \in Callers |-> NoKey]
  /\ wpc = [w \in Workers |-> "idle"]
  /\ wkey = [w \in Workers |-> NoKey]
  /\ stop = "open"

\* q.mu is held across a step only by a caller waiting in the select.
MuFree == \A c \in Callers : sending[c] = NoKey

ChannelClosed == stop # "open"

------------------------------------------------------------------------------
(***************************************************************************)
(* Wrong variants: bugs this code could plausibly have, each the form of   *)
(* one action below with one thing changed.  They show that the properties *)
(* tell such bugs from the code; no specification uses them.               *)
(***************************************************************************)

\* The key is not looked up before it is marked.
EnqueueMarkUnchecked(c, k) ==
  /\ MuFree
  /\ inflight' = inflight \cup {k}
  /\ sending' = [sending EXCEPT ![c] = k]
  /\ UNCHANGED <<jobs, wpc, wkey, stop>>

\* An unbounded list instead of the buffered channel.
EnqueueSendUnbounded(c) ==
  /\ ~ChannelClosed
  /\ sending[c] # NoKey
  /\ sending' = [sending EXCEPT ![c] = NoKey]
  /\ jobs' = Append(jobs, sending[c])
  /\ UNCHANGED <<inflight, wpc, wkey, stop>>

\* The cancelled branch does not delete the key.
EnqueueCancelKeepsKey(c) ==
  /\ sending[c] # NoKey
  /\ sending' = [sending EXCEPT ![c] = NoKey]
  /\ UNCHANGED <<jobs, inflight, wpc, wkey, stop>>

\* The unlock is not deferred, so the panic skips it.
EnqueuePanicKeepsLock(c) ==
  /\ ChannelClosed
  /\ sending[c] # NoKey
  /\ UNCHANGED queueVars

\* The worker forgets the key as it takes the job, before Run.
ReceiveForgets(w) ==
  /\ wpc[w] = "idle"
  /\ jobs # <<>>
  /\ jobs' = Tail(jobs)
  /\ inflight' = inflight \ {Head(jobs)}
  /\ wkey' = [wkey EXCEPT ![w] = Head(jobs)]
  /\ wpc' = [wpc EXCEPT ![w] = "running"]
  /\ UNCHANGED <<sending, stop>>

\* Workers leave as soon as Stop is called, as with a quit channel.
ExitUndrained(w) ==
  /\ wpc[w] = "idle"
  /\ ChannelClosed
  /\ wpc' = [wpc EXCEPT ![w] = "exited"]
  /\ UNCHANGED <<jobs, inflight, sending, wkey, stop>>

\* A worker whose job failed returns instead of taking the next one.
RunEndsWorker(w) ==
  /\ wpc[w] = "running"
  /\ wpc' = [wpc EXCEPT ![w] = "exited"]
  /\ UNCHANGED <<jobs, inflight, sending, wkey, stop>>

------------------------------------------------------------------------------
(* Enqueue(ctx, job) *)

\* The key is in flight: Enqueue returns nil and queues nothing.
EnqueueDuplicate(c, k) ==
  /\ MuFree
  /\ k \in inflight
  /\ UNCHANGED queueVars

\* The key is marked, and the caller enters the select holding q.mu.
EnqueueMark(c, k) ==
  /\ MuFree
  /\ k \notin inflight
  /\ inflight' = inflight \cup {k}
  /\ sending' = [sending EXCEPT ![c] = k]
  /\ UNCHANGED <<jobs, wpc, wkey, stop>>

\* Leaving the select: return or panic, and the deferred q.mu.Unlock().
LeaveSelect(c) ==
  /\ sending[c] # NoKey
  /\ sending' = [sending EXCEPT ![c] = NoKey]

\* The channel has room: the job is queued and Enqueue returns nil.
EnqueueSend(c) ==
  /\ ~ChannelClosed
  /\ Len(jobs) < Capacity
  /\ LeaveSelect(c)
  /\ jobs' = Append(jobs, sending[c])
  /\ UNCHANGED <<inflight, wpc, wkey, stop>>

\* ctx is done.  It may already be when Enqueue is called, and select picks
\* any ready case: this can happen whether or not there is room.
EnqueueCancel(c) ==
  /\ LeaveSelect(c)
  /\ inflight' = inflight \ {sending[c]}
  /\ UNCHANGED <<jobs, wpc, wkey, stop>>

\* The channel was closed, before or while the caller waits: send panics.
\* The deferred unlock runs, the key stays marked.
EnqueuePanic(c) ==
  /\ ChannelClosed
  /\ LeaveSelect(c)
  /\ UNCHANGED <<jobs, inflight, wpc, wkey, stop>>

------------------------------------------------------------------------------
(* worker(ctx, id) *)

\* for job := range q.jobs
Receive(w) ==
  /\ wpc[w] = "idle"
  /\ jobs # <<>>
  /\ jobs' = Tail(jobs)
  /\ wkey' = [wkey EXCEPT ![w] = Head(jobs)]
  /\ wpc' = [wpc EXCEPT ![w] = "running"]
  /\ UNCHANGED <<inflight, sending, stop>>

\* job.Run returned; its error is only logged.
RunReturns(w) ==
  /\ wpc[w] = "running"
  /\ wpc' = [wpc EXCEPT ![w] = "finished"]
  /\ UNCHANGED <<jobs, inflight, sending, wkey, stop>>

\* q.mu.Lock(); delete(q.inflight, key); q.mu.Unlock()
Forget(w) ==
  /\ wpc[w] = "finished"
  /\ MuFree
  /\ inflight' = inflight \ {wkey[w]}
  /\ wpc' = [wpc EXCEPT ![w] = "idle"]
  /\ wkey' = [wkey EXCEPT ![w] = NoKey]
  /\ UNCHANGED <<jobs, sending, stop>>

\* The range loop ends when the channel is closed and drained: wg.Done().
Exit(w) ==
  /\ wpc[w] = "idle"
  /\ ChannelClosed
  /\ jobs = <<>>
  /\ wpc' = [wpc EXCEPT ![w] = "exited"]
  /\ UNCHANGED <<jobs, inflight, sending, wkey, stop>>

------------------------------------------------------------------------------
(* Stop(ctx): stopOnce admits one caller; ctx is not looked at *)

\* close(q.jobs)
StopClose ==
  /\ stop = "open"
  /\ stop' = "closing"
  /\ UNCHANGED <<jobs, inflight, sending, wpc, wkey>>

\* q.wg.Wait() returns, then Stop does.
StopReturn ==
  /\ stop = "closing"
  /\ \A w \in Workers : wpc[w] = "exited"
  /\ stop' = "stopped"
  /\ UNCHANGED <<jobs, inflight, sending, wpc, wkey>>

------------------------------------------------------------------------------
QNext ==
  \/ \E c \in Callers :
        \/ \E k \in Keys : EnqueueDuplicate(c, k) \/ EnqueueMark(c, k)
        \/ EnqueueSend(c)
        \/ EnqueueCancel(c)
        \/ EnqueuePanic(c)
  \/ \E w \in Workers : Receive(w) \/ RunReturns(w) \/ Forget(w) \/ Exit(w)
  \/ StopClose
  \/ StopReturn

QSpec == QInit /\ [][QNext]_queueVars

(***************************************************************************)
(* Fairness.  A runnable goroutine is scheduled, so a select whose case is *)
(* ready and a receive are weakly fair; Run returns because its one fetch  *)
(* has a 10s client timeout.  sync.Mutex hands itself to a waiter it has   *)
(* starved for 1ms, so Lock is strongly fair.  Nobody has to call Enqueue  *)
(* or Stop, and nothing makes a request context end.                       *)
(***************************************************************************)
QFairness ==
  /\ \A c \in Callers : WF_queueVars(EnqueueSend(c)) /\ WF_queueVars(EnqueuePanic(c))
  /\ \A w \in Workers :
        /\ WF_queueVars(Receive(w)) /\ WF_queueVars(RunReturns(w))
        /\ SF_queueVars(Forget(w)) /\ WF_queueVars(Exit(w))
  /\ WF_queueVars(StopReturn)

QFairSpec == QSpec /\ QFairness

\* Every client that waits in Enqueue gives up at some time.
ClientsGiveUp == \A c \in Callers : WF_queueVars(EnqueueCancel(c))

------------------------------------------------------------------------------
(* Properties *)

Queued(k)  == \E i \in DOMAIN jobs : jobs[i] = k
Busy(w)    == wpc[w] \in {"running", "finished"}
Held(k)    == \E w \in Workers : Busy(w) /\ wkey[w] = k
Sent(k)    == \E c \in Callers : sending[c] = k
Running(k) == \E w \in Workers : wpc[w] = "running" /\ wkey[w] = k

\* Deduplication: of one key, at most one job is being sent, waits in the
\* channel, or is held by a worker (until the worker has forgotten it).
\* This is "jobs with the same key will not be queued twice" of Job.Key(),
\* for every interleaving of Enqueue with the workers.
OneLiveJobPerKey ==
  /\ \A i, j \in DOMAIN jobs : jobs[i] = jobs[j] => i = j
  /\ \A v, w \in Workers : Busy(v) /\ Busy(w) /\ wkey[v] = wkey[w] => v = w
  /\ \A c, d \in Callers : sending[c] # NoKey /\ sending[d] # NoKey => c = d
  /\ \A k \in Keys :
        /\ ~(Queued(k) /\ Held(k))
        /\ ~(Queued(k) /\ Sent(k))
        /\ ~(Held(k) /\ Sent(k))

\* Until Stop, a key is marked in q.inflight only while a job of that key
\* exists: a mark without a job would refuse the key for ever.  (After
\* close(q.jobs) a caller that panics in the select leaves its mark.)
NoLeakedKey ==
  stop = "open" =>
    \A k \in inflight : Queued(k) \/ Held(k) \/ Sent(k)

\* Something the queue has yet to end: a job that is being sent, waits or is
\* held, or a Stop that has not returned.
Outstanding == stop = "closing" \/ \E k \in Keys : Queued(k) \/ Held(k) \/ Sent(k)

\* A goroutine in the queue can take its next step, whatever clients do: a
\* caller its send or its panic, a worker one of its loop, Stop its return.
CanGoOn ==
  \/ \E c \in Callers : sending[c] # NoKey /\ (ChannelClosed \/ Len(jobs) < Capacity)
  \/ \E w \in Workers :
       \/ wpc[w] = "running"
       \/ wpc[w] = "idle" /\ (jobs # <<>> \/ ChannelClosed)
       \/ wpc[w] = "finished" /\ MuFree
  \/ stop = "closing" /\ \A w \in Workers : wpc[w] = "exited"

\* The queue comes to a stand in one way only, which EnqueueReturns shows it
\* can: before Stop, with the channel full, a caller in the select that holds
\* q.mu, and every worker, its job done, at q.mu.Lock().  Room for one more
\* job, one worker that is not yet there, or a call of Stop keeps it going.
OnlyFullQueueStalls ==
  Outstanding =>
    \/ CanGoOn
    \/ /\ stop = "open"
       /\ Len(jobs) = Capacity
       /\ \E c \in Callers : sending[c] # NoKey
       /\ \A w \in Workers : wpc[w] = "finished"

\* The queue implements the pool of keyed jobs: a job waits from the send
\* until a worker takes it, and runs until Run returns.  The step that
\* forgets the key, the wait in the select and the panics are invisible.
JP == INSTANCE JobPool WITH
        pool <- [k \in Keys |-> IF Running(k) THEN "running"
                                ELSE IF Queued(k) THEN "waiting" ELSE "absent"],
        phase <- stop

\* No accepted job is dropped or run twice, none is accepted after Stop, and
\* Stop returns only when none is left ("Waits for in-flight jobs to
\* complete", JobQueue.Stop).
ImplementsPool == JP!PoolSpec

\* Stop, once called, returns: even when it finds a caller in the select
\* holding q.mu and every worker waiting for q.mu, because the close makes
\* that caller panic and its deferred unlock lets the workers go on.
StopReturns == stop = "closing" ~> stop = "stopped"

\* A job in the channel is run, if clients that wait give up eventually.
JobsAreRun == ClientsGiveUp => \A k \in Keys : Queued(k) ~> Running(k)

\* Enqueue returns (with nil, an error or a panic).  The interface promises
\* "Returns error if enqueue fails"; the code can wait for ever.
EnqueueReturns == \A c \in Callers : sending[c] # NoKey ~> sending[c] = NoKey

=============================================================================
