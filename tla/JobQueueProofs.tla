--------------------------- MODULE JobQueueProofs ---------------------------
(***************************************************************************)
(* Theorems about JobQueue, for every set of callers, workers and keys and *)
(* every capacity: the types, the deduplication of keys, that no key stays *)
(* marked without a job, that the queue stands still in one way only, and  *)
(* that it implements JobPool.                                             *)
(*                                                                         *)
(* OneLiveJobPerKey is not inductive by itself: that EnqueueMark creates   *)
(* the only job of its key depends on every live job being marked in       *)
(* q.inflight, and that StopReturn leaves nothing behind depends on the    *)
(* workers exiting only from a closed and drained channel.  IndInv adds    *)
(* both.                                                                   *)
(***************************************************************************)
EXTENDS JobQueue, TLAPS

\* A worker holds a job from the receive until it has forgotten the key.
WorkersHoldKeys == \A w \in Workers : Busy(w) => wkey[w] \in Keys

\* Every live job is marked.
LiveIsMarked ==
  \A k \in Keys : Queued(k) \/ Held(k) \/ Sent(k) => k \in inflight

\* A worker exits only when nothing is left, and Stop returns after all did.
ExitedIsDrained ==
  /\ \A w \in Workers : wpc[w] = "exited" => ChannelClosed /\ jobs = <<>>
  /\ stop = "stopped" => \A w \in Workers : wpc[w] = "exited"

IndInv ==
  /\ QTypeOK
  /\ WorkersHoldKeys
  /\ OneLiveJobPerKey
  /\ LiveIsMarked
  /\ NoLeakedKey
  /\ ExitedIsDrained

------------------------------------------------------------------------------
\* What taking the oldest job leaves in the channel.
LEMMA TailOfJobs ==
  ASSUME jobs \in Seq(Keys), jobs # <<>>
  PROVE  /\ Head(jobs) = jobs[1]
         /\ 1 \in DOMAIN jobs
         /\ Head(jobs) \in Keys
         /\ Tail(jobs) \in Seq(Keys)
         /\ Len(Tail(jobs)) = Len(jobs) - 1
         /\ DOMAIN Tail(jobs) = 1..(Len(jobs) - 1)
         /\ \A i \in DOMAIN Tail(jobs) :
              i + 1 \in DOMAIN jobs /\ Tail(jobs)[i] = jobs[i + 1]
         /\ \A i \in DOMAIN jobs :
              i # 1 => i - 1 \in DOMAIN Tail(jobs) /\ Tail(jobs)[i - 1] = jobs[i]
  OBVIOUS

\* What queueing a job adds to the channel.
LEMMA AppendToJobs ==
  ASSUME jobs \in Seq(Keys), NEW k \in Keys
  PROVE  /\ Append(jobs, k) \in Seq(Keys)
         /\ Len(Append(jobs, k)) = Len(jobs) + 1
         /\ DOMAIN Append(jobs, k) = 1..(Len(jobs) + 1)
         /\ DOMAIN jobs = 1..Len(jobs)
         /\ \A i \in DOMAIN jobs : Append(jobs, k)[i] = jobs[i]
         /\ Append(jobs, k)[Len(jobs) + 1] = k
  OBVIOUS

LEMMA InitInd == QInit => IndInv
  BY QueueAssumption
  DEF QueueAssumption, QInit, IndInv, QTypeOK, WorkersHoldKeys, OneLiveJobPerKey,
      LiveIsMarked, NoLeakedKey, ExitedIsDrained, Queued, Held, Sent, Busy

------------------------------------------------------------------------------
(* Each action preserves IndInv. *)

\* The mark: k was not marked, so no other job of k is alive.
LEMMA MarkInd ==
  ASSUME IndInv, NEW c \in Callers, NEW k \in Keys, EnqueueMark(c, k)
  PROVE  IndInv'
<1> USE QueueAssumption DEF QueueAssumption, IndInv
<1>1. QTypeOK'
  BY DEF EnqueueMark, QTypeOK
<1>2. WorkersHoldKeys'
  BY DEF EnqueueMark, WorkersHoldKeys, Busy
<1>3. ~Queued(k) /\ ~Held(k) /\ ~Sent(k)
  BY DEF LiveIsMarked, EnqueueMark
<1>4. /\ \A q \in Keys : Queued(q)' = Queued(q) /\ Held(q)' = Held(q)
      /\ \A q \in Keys : Sent(q)' => Sent(q) \/ q = k
      /\ \A q \in Keys : Sent(q) => Sent(q)'
      /\ Sent(k)'
  BY DEF EnqueueMark, MuFree, QTypeOK, Queued, Held, Sent, Busy
<1>5. OneLiveJobPerKey'
  <2>1. /\ (\A i, j \in DOMAIN jobs : jobs[i] = jobs[j] => i = j)'
        /\ (\A v, w \in Workers : Busy(v) /\ Busy(w) /\ wkey[v] = wkey[w] => v = w)'
    BY DEF EnqueueMark, OneLiveJobPerKey, Busy
  <2>2. (\A a, d \in Callers : sending[a] # NoKey /\ sending[d] # NoKey => a = d)'
    BY DEF EnqueueMark, MuFree, QTypeOK
  <2>3. QED  BY <1>3, <1>4, <2>1, <2>2 DEF OneLiveJobPerKey
<1>6. LiveIsMarked'
  BY <1>4 DEF EnqueueMark, LiveIsMarked
<1>7. NoLeakedKey'
  BY <1>4 DEF EnqueueMark, NoLeakedKey, QTypeOK
<1>8. ExitedIsDrained'
  BY DEF EnqueueMark, ExitedIsDrained, ChannelClosed
<1>9. QED  BY <1>1, <1>2, <1>5, <1>6, <1>7, <1>8

\* The send: the job moves from the caller to the end of the channel.
LEMMA SendInd ==
  ASSUME IndInv, NEW c \in Callers, EnqueueSend(c)
  PROVE  IndInv'
<1> USE QueueAssumption DEF QueueAssumption, IndInv
<1> DEFINE k == sending[c]
<1>1. k \in Keys /\ Sent(k)
  BY DEF EnqueueSend, LeaveSelect, QTypeOK, Sent
<1>2. jobs' = Append(jobs, k) /\ jobs \in Seq(Keys)
  BY DEF EnqueueSend, QTypeOK
<1> HIDE DEF k
<1>3. QTypeOK'
  BY <1>1, <1>2, AppendToJobs DEF EnqueueSend, LeaveSelect, QTypeOK
<1>4. WorkersHoldKeys'
  BY DEF EnqueueSend, WorkersHoldKeys, Busy
<1>5. ~Queued(k) /\ ~Held(k)
  BY <1>1 DEF OneLiveJobPerKey
<1>6. \A q \in Keys : Queued(q)' <=> Queued(q) \/ q = k
  BY <1>1, <1>2, AppendToJobs DEF Queued
<1>7. /\ \A q \in Keys : Held(q)' = Held(q)
      /\ \A a \in Callers : sending'[a] = NoKey
  BY DEF EnqueueSend, LeaveSelect, OneLiveJobPerKey, QTypeOK, Held, Busy
<1>8. \A q \in Keys : ~Sent(q)' /\ (Sent(q) => q = k)
  BY <1>7 DEF Sent, OneLiveJobPerKey, EnqueueSend, LeaveSelect, k
<1>9. OneLiveJobPerKey'
  <2>1. (\A i, j \in DOMAIN jobs : jobs[i] = jobs[j] => i = j)'
    BY <1>1, <1>2, <1>5, AppendToJobs DEF OneLiveJobPerKey, Queued
  <2>2. (\A v, w \in Workers : Busy(v) /\ Busy(w) /\ wkey[v] = wkey[w] => v = w)'
    BY DEF EnqueueSend, OneLiveJobPerKey, Busy
  <2>3. QED  BY <1>5, <1>6, <1>7, <1>8, <2>1, <2>2 DEF OneLiveJobPerKey
<1>10. LiveIsMarked'
  BY <1>1, <1>6, <1>7, <1>8 DEF EnqueueSend, LiveIsMarked
<1>11. NoLeakedKey'
  BY <1>6, <1>7, <1>8 DEF EnqueueSend, NoLeakedKey, QTypeOK
<1>12. ExitedIsDrained'
  BY DEF EnqueueSend, ExitedIsDrained, ChannelClosed
<1>13. QED  BY <1>3, <1>4, <1>9, <1>10, <1>11, <1>12

\* The cancelled send: the job and its mark disappear together.
LEMMA CancelInd ==
  ASSUME IndInv, NEW c \in Callers, EnqueueCancel(c)
  PROVE  IndInv'
<1> USE QueueAssumption DEF QueueAssumption, IndInv
<1> DEFINE k == sending[c]
<1>1. k \in Keys /\ Sent(k)
  BY DEF EnqueueCancel, LeaveSelect, QTypeOK, Sent
<1>2. \A q \in Keys : Queued(q)' = Queued(q) /\ Held(q)' = Held(q)
  BY DEF EnqueueCancel, Queued, Held, Busy
<1>3. \A a \in Callers : sending'[a] = NoKey
  BY DEF EnqueueCancel, LeaveSelect, OneLiveJobPerKey, QTypeOK
<1>4. \A q \in Keys : ~Sent(q)' /\ (Sent(q) => q = k)
  BY <1>3 DEF Sent, OneLiveJobPerKey, EnqueueCancel, LeaveSelect
<1>5. ~Queued(k) /\ ~Held(k)
  BY <1>1 DEF OneLiveJobPerKey
<1>6. QTypeOK'
  BY DEF EnqueueCancel, LeaveSelect, QTypeOK
<1>7. WorkersHoldKeys'
  BY DEF EnqueueCancel, WorkersHoldKeys, Busy
<1>8. OneLiveJobPerKey'
  BY <1>2, <1>3, <1>4 DEF EnqueueCancel, OneLiveJobPerKey, Busy
<1>9. LiveIsMarked'
  BY <1>2, <1>4, <1>5 DEF EnqueueCancel, LiveIsMarked
<1>10. NoLeakedKey'
  BY <1>2, <1>4 DEF EnqueueCancel, NoLeakedKey, QTypeOK
<1>11. ExitedIsDrained'
  BY DEF EnqueueCancel, ExitedIsDrained, ChannelClosed
<1>12. QED  BY <1>6, <1>7, <1>8, <1>9, <1>10, <1>11

\* The panic: the job disappears and its mark stays, after the close.
LEMMA PanicInd ==
  ASSUME IndInv, NEW c \in Callers, EnqueuePanic(c)
  PROVE  IndInv'
<1> USE QueueAssumption DEF QueueAssumption, IndInv
<1>1. \A q \in Keys : Queued(q)' = Queued(q) /\ Held(q)' = Held(q)
  BY DEF EnqueuePanic, Queued, Held, Busy
<1>2. \A a \in Callers : sending'[a] = NoKey
  BY DEF EnqueuePanic, LeaveSelect, OneLiveJobPerKey, QTypeOK
<1>3. \A q \in Keys : ~Sent(q)'
  BY <1>2 DEF Sent
<1>4. QTypeOK'
  BY DEF EnqueuePanic, LeaveSelect, QTypeOK
<1>5. WorkersHoldKeys'
  BY DEF EnqueuePanic, WorkersHoldKeys, Busy
<1>6. OneLiveJobPerKey'
  BY <1>1, <1>2, <1>3 DEF EnqueuePanic, OneLiveJobPerKey, Busy
<1>7. LiveIsMarked'
  BY <1>1, <1>3 DEF EnqueuePanic, LiveIsMarked
<1>8. NoLeakedKey'
  BY DEF EnqueuePanic, NoLeakedKey, ChannelClosed
<1>9. ExitedIsDrained'
  BY DEF EnqueuePanic, ExitedIsDrained, ChannelClosed
<1>10. QED  BY <1>4, <1>5, <1>6, <1>7, <1>8, <1>9

\* The receive takes one key out of the channel and leaves the others.
LEMMA ReceiveKeepsOthers ==
  ASSUME IndInv, NEW w \in Workers, Receive(w), NEW q \in Keys
  PROVE  Queued(q)' <=> Queued(q) /\ q # Head(jobs)
<1>1. jobs \in Seq(Keys) /\ jobs # <<>> /\ jobs' = Tail(jobs) /\ OneLiveJobPerKey
  BY DEF Receive, IndInv, QTypeOK
<1>2. ASSUME Queued(q)'  PROVE Queued(q) /\ q # Head(jobs)
  <2>1. PICK i \in DOMAIN Tail(jobs) : Tail(jobs)[i] = q
    BY <1>1, <1>2 DEF Queued
  <2>2. /\ i \in Nat \ {0}
        /\ i + 1 \in DOMAIN jobs /\ jobs[i + 1] = q
        /\ 1 \in DOMAIN jobs /\ Head(jobs) = jobs[1]
    BY <1>1, <2>1, TailOfJobs
  <2>3. i + 1 # 1
    BY <2>2
  <2>4. QED  BY <1>1, <2>2, <2>3 DEF Queued, OneLiveJobPerKey
<1>3. ASSUME Queued(q), q # Head(jobs)  PROVE Queued(q)'
  <2>1. PICK i \in DOMAIN jobs : jobs[i] = q
    BY <1>3 DEF Queued
  <2>2. i # 1
    BY <1>1, <1>3, <2>1, TailOfJobs
  <2>3. QED  BY <1>1, <2>1, <2>2, TailOfJobs DEF Queued
<1>4. QED  BY <1>2, <1>3

\* The receive: the oldest job moves from the channel to a worker.
LEMMA ReceiveInd ==
  ASSUME IndInv, NEW w \in Workers, Receive(w)
  PROVE  IndInv'
<1> USE QueueAssumption DEF QueueAssumption, IndInv
<1> DEFINE k == Head(jobs)
<1>1. /\ jobs \in Seq(Keys) /\ jobs # <<>> /\ jobs' = Tail(jobs)
      /\ wkey' = [wkey EXCEPT ![w] = k] /\ wpc' = [wpc EXCEPT ![w] = "running"]
      /\ wpc[w] = "idle"
  BY DEF Receive, QTypeOK
<1>2. k \in Keys /\ Queued(k) /\ k = jobs[1]
  BY <1>1, TailOfJobs DEF Queued
<1> HIDE DEF k
<1>3. ~Held(k) /\ ~Sent(k)
  BY <1>2 DEF OneLiveJobPerKey
<1>4. \A q \in Keys : Queued(q)' <=> Queued(q) /\ q # k
  BY ReceiveKeepsOthers DEF k
<1>5. \A q \in Keys : Held(q)' <=> Held(q) \/ q = k
  BY <1>1, <1>2 DEF Held, Busy, QTypeOK
<1>6. \A q \in Keys : Sent(q)' = Sent(q)
  BY DEF Receive, Sent
<1>7. QTypeOK'
  BY <1>1, <1>2, TailOfJobs DEF Receive, QTypeOK
<1>8. WorkersHoldKeys'
  BY <1>1, <1>2 DEF WorkersHoldKeys, Busy, QTypeOK
<1>9. OneLiveJobPerKey'
  <2>1. (\A i, j \in DOMAIN jobs : jobs[i] = jobs[j] => i = j)'
    BY <1>1, TailOfJobs DEF OneLiveJobPerKey
  <2>2. (\A u, v \in Workers : Busy(u) /\ Busy(v) /\ wkey[u] = wkey[v] => u = v)'
    BY <1>1, <1>2, <1>3 DEF OneLiveJobPerKey, Held, Busy, QTypeOK
  <2>3. (\A a, d \in Callers : sending[a] # NoKey /\ sending[d] # NoKey => a = d)'
    BY DEF Receive, OneLiveJobPerKey
  <2>4. QED  BY <1>3, <1>4, <1>5, <1>6, <2>1, <2>2, <2>3 DEF OneLiveJobPerKey
<1>10. LiveIsMarked'
  BY <1>2, <1>4, <1>5, <1>6 DEF Receive, LiveIsMarked
<1>11. NoLeakedKey'
  BY <1>4, <1>5, <1>6 DEF Receive, NoLeakedKey, QTypeOK
<1>12. ExitedIsDrained'
  BY <1>1 DEF Receive, ExitedIsDrained, ChannelClosed, QTypeOK
<1>13. QED  BY <1>7, <1>8, <1>9, <1>10, <1>11, <1>12

\* The return of Run: the worker still holds the key.
LEMMA RunReturnsInd ==
  ASSUME IndInv, NEW w \in Workers, RunReturns(w)
  PROVE  IndInv'
<1> USE QueueAssumption DEF QueueAssumption, IndInv
<1>1. \A v \in Workers : Busy(v)' = Busy(v)
  BY DEF RunReturns, Busy, QTypeOK
<1>2. \A q \in Keys : Queued(q)' = Queued(q) /\ Held(q)' = Held(q) /\ Sent(q)' = Sent(q)
  BY <1>1 DEF RunReturns, Queued, Held, Sent
<1>3. QTypeOK'
  BY DEF RunReturns, QTypeOK
<1>4. WorkersHoldKeys'
  BY <1>1 DEF RunReturns, WorkersHoldKeys
<1>5. OneLiveJobPerKey'
  BY <1>1, <1>2 DEF RunReturns, OneLiveJobPerKey
<1>6. LiveIsMarked' /\ NoLeakedKey'
  BY <1>2 DEF RunReturns, LiveIsMarked, NoLeakedKey, QTypeOK
<1>7. ExitedIsDrained'
  BY DEF RunReturns, ExitedIsDrained, ChannelClosed, QTypeOK
<1>8. QED  BY <1>3, <1>4, <1>5, <1>6, <1>7

\* The delete: the worker's job and its mark disappear together.
LEMMA ForgetInd ==
  ASSUME IndInv, NEW w \in Workers, Forget(w)
  PROVE  IndInv'
<1> USE QueueAssumption DEF QueueAssumption, IndInv
<1> DEFINE k == wkey[w]
<1>1. k \in Keys /\ Held(k)
  BY DEF Forget, WorkersHoldKeys, Held, Busy
<1>2. ~Queued(k) /\ ~Sent(k)
  BY <1>1 DEF OneLiveJobPerKey
<1>3. \A q \in Keys : Queued(q)' = Queued(q) /\ Sent(q)' = Sent(q)
  BY DEF Forget, Queued, Sent
<1>4. \A v \in Workers : Busy(v)' <=> Busy(v) /\ v # w
  BY DEF Forget, Busy, QTypeOK
<1>5. \A q \in Keys : Held(q)' <=> Held(q) /\ q # k
  BY <1>4 DEF Forget, Held, OneLiveJobPerKey, QTypeOK, Busy
<1>6. QTypeOK'
  BY DEF Forget, QTypeOK
<1>7. WorkersHoldKeys'
  BY <1>4 DEF Forget, WorkersHoldKeys, QTypeOK
<1>8. OneLiveJobPerKey'
  <2>1. (\A u, v \in Workers : Busy(u) /\ Busy(v) /\ wkey[u] = wkey[v] => u = v)'
    BY <1>4 DEF Forget, OneLiveJobPerKey, QTypeOK
  <2>2. QED  BY <1>3, <1>5, <2>1 DEF Forget, OneLiveJobPerKey
<1>9. LiveIsMarked'
  BY <1>2, <1>3, <1>5 DEF Forget, LiveIsMarked
<1>10. NoLeakedKey'
  BY <1>3, <1>5 DEF Forget, NoLeakedKey, QTypeOK
<1>11. ExitedIsDrained'
  BY DEF Forget, ExitedIsDrained, ChannelClosed, QTypeOK
<1>12. QED  BY <1>6, <1>7, <1>8, <1>9, <1>10, <1>11

\* The end of the loop: from a closed and drained channel only.
LEMMA ExitInd ==
  ASSUME IndInv, NEW w \in Workers, Exit(w)
  PROVE  IndInv'
<1> USE QueueAssumption DEF QueueAssumption, IndInv
<1>1. \A v \in Workers : Busy(v)' = Busy(v)
  BY DEF Exit, Busy, QTypeOK
<1>2. \A q \in Keys : Queued(q)' = Queued(q) /\ Held(q)' = Held(q) /\ Sent(q)' = Sent(q)
  BY <1>1 DEF Exit, Queued, Held, Sent
<1>3. QTypeOK'
  BY DEF Exit, QTypeOK
<1>4. WorkersHoldKeys'
  BY <1>1 DEF Exit, WorkersHoldKeys
<1>5. OneLiveJobPerKey'
  BY <1>1, <1>2 DEF Exit, OneLiveJobPerKey
<1>6. LiveIsMarked' /\ NoLeakedKey'
  BY <1>2 DEF Exit, LiveIsMarked, NoLeakedKey, QTypeOK
<1>7. ExitedIsDrained'
  BY DEF Exit, ExitedIsDrained, ChannelClosed, QTypeOK
<1>8. QED  BY <1>3, <1>4, <1>5, <1>6, <1>7

\* The two steps of Stop.
LEMMA StopInd ==
  ASSUME IndInv, StopClose \/ StopReturn
  PROVE  IndInv'
<1> USE QueueAssumption DEF QueueAssumption, IndInv
<1>1. UNCHANGED <<jobs, inflight, sending, wpc, wkey>>
  BY DEF StopClose, StopReturn
<1>2. /\ \A v \in Workers : Busy(v)' = Busy(v)
      /\ \A q \in Keys : Queued(q)' = Queued(q) /\ Held(q)' = Held(q) /\ Sent(q)' = Sent(q)
  BY <1>1 DEF Queued, Held, Sent, Busy
<1>3. QTypeOK'
  BY <1>1 DEF StopClose, StopReturn, QTypeOK
<1>4. WorkersHoldKeys' /\ LiveIsMarked'
  BY <1>1, <1>2 DEF WorkersHoldKeys, LiveIsMarked
<1>5. OneLiveJobPerKey'
  BY <1>1, <1>2 DEF OneLiveJobPerKey
<1>6. NoLeakedKey'
  BY DEF StopClose, StopReturn, NoLeakedKey
<1>7. ExitedIsDrained'
  BY DEF StopClose, StopReturn, ExitedIsDrained, ChannelClosed
<1>8. QED  BY <1>3, <1>4, <1>5, <1>6, <1>7

LEMMA StutterInd ==
  ASSUME IndInv, UNCHANGED queueVars
  PROVE  IndInv'
  BY DEF queueVars, IndInv, QTypeOK, WorkersHoldKeys, OneLiveJobPerKey, LiveIsMarked,
         NoLeakedKey, ExitedIsDrained, ChannelClosed, Queued, Held, Sent, Busy

LEMMA NextInd == IndInv /\ [QNext]_queueVars => IndInv'
<1> SUFFICES ASSUME IndInv, [QNext]_queueVars  PROVE IndInv'
  OBVIOUS
<1>1. ASSUME NEW c \in Callers, NEW k \in Keys, EnqueueDuplicate(c, k)  PROVE IndInv'
  BY <1>1, StutterInd DEF EnqueueDuplicate
<1>2. ASSUME NEW c \in Callers, NEW k \in Keys, EnqueueMark(c, k)  PROVE IndInv'
  BY <1>2, MarkInd
<1>3. ASSUME NEW c \in Callers, EnqueueSend(c)  PROVE IndInv'
  BY <1>3, SendInd
<1>4. ASSUME NEW c \in Callers, EnqueueCancel(c)  PROVE IndInv'
  BY <1>4, CancelInd
<1>5. ASSUME NEW c \in Callers, EnqueuePanic(c)  PROVE IndInv'
  BY <1>5, PanicInd
<1>6. ASSUME NEW w \in Workers, Receive(w)  PROVE IndInv'
  BY <1>6, ReceiveInd
<1>7. ASSUME NEW w \in Workers, RunReturns(w)  PROVE IndInv'
  BY <1>7, RunReturnsInd
<1>8. ASSUME NEW w \in Workers, Forget(w)  PROVE IndInv'
  BY <1>8, ForgetInd
<1>9. ASSUME NEW w \in Workers, Exit(w)  PROVE IndInv'
  BY <1>9, ExitInd
<1>10. CASE StopClose \/ StopReturn
  BY <1>10, StopInd
<1>11. CASE UNCHANGED queueVars
  BY <1>11, StutterInd
<1>12. QED
  BY <1>1, <1>2, <1>3, <1>4, <1>5, <1>6, <1>7, <1>8, <1>9, <1>10, <1>11 DEF QNext

------------------------------------------------------------------------------
LEMMA Inductive == QSpec => []IndInv
  BY InitInd, NextInd, PTL DEF QSpec

\* The variables keep their types; the channel never exceeds its capacity.
THEOREM TypeCorrect == QSpec => []QTypeOK
  BY Inductive, PTL DEF IndInv

\* Deduplication holds for every interleaving of any number of goroutines.
THEOREM Deduplication == QSpec => []OneLiveJobPerKey
  BY Inductive, PTL DEF IndInv

\* Until Stop, no key stays marked without a job.
THEOREM MarksFollowJobs == QSpec => []NoLeakedKey
  BY Inductive, PTL DEF IndInv

------------------------------------------------------------------------------
(* The queue implements JobPool. *)

LEMMA RefineInit == QInit => JP!PoolInit
  BY DEF QInit, JP!PoolInit, Running, Queued

\* What the steps that matter to the pool do to it.
LEMMA RefineSend ==
  ASSUME IndInv, NEW c \in Callers, EnqueueSend(c)
  PROVE  JP!Accept(sending[c])
<1> USE QueueAssumption DEF QueueAssumption, IndInv
<1> DEFINE k == sending[c]
<1>1. k \in Keys /\ Sent(k) /\ jobs \in Seq(Keys) /\ jobs' = Append(jobs, k)
  BY DEF EnqueueSend, LeaveSelect, QTypeOK, Sent
<1>2. stop = "open" /\ stop' = stop
  BY DEF EnqueueSend, ChannelClosed, QTypeOK
<1>3. \A q \in Keys : Running(q)' = Running(q)
  BY DEF EnqueueSend, Running
<1> HIDE DEF k
<1>4. ~Queued(k) /\ ~Running(k)
  BY <1>1 DEF OneLiveJobPerKey, Held, Busy, Running
<1>5. \A q \in Keys : Queued(q)' <=> Queued(q) \/ q = k
  BY <1>1, AppendToJobs DEF Queued
<1>6. JP!Accept(k)
  BY <1>1, <1>2, <1>3, <1>4, <1>5 DEF JP!Accept, JP!Move
<1>7. QED  BY <1>6 DEF k

LEMMA RefineReceive ==
  ASSUME IndInv, NEW w \in Workers, Receive(w)
  PROVE  Head(jobs) \in Keys /\ JP!Begin(Head(jobs))
<1> USE QueueAssumption DEF QueueAssumption, IndInv
<1> DEFINE k == Head(jobs)
<1>1. /\ jobs \in Seq(Keys) /\ jobs # <<>> /\ jobs' = Tail(jobs) /\ stop' = stop
      /\ wkey' = [wkey EXCEPT ![w] = k] /\ wpc' = [wpc EXCEPT ![w] = "running"]
      /\ wpc[w] = "idle"
  BY DEF Receive, QTypeOK
<1>2. k \in Keys /\ Queued(k)
  BY <1>1, TailOfJobs DEF Queued
<1> HIDE DEF k
<1>3. ~Held(k) /\ ~Running(k)
  BY <1>2 DEF OneLiveJobPerKey, Held, Busy, Running
<1>4. \A q \in Keys : Running(q)' <=> Running(q) \/ q = k
  BY <1>1, <1>2 DEF Running, QTypeOK
<1>5. \A q \in Keys : q # k => (Queued(q)' <=> Queued(q))
  BY ReceiveKeepsOthers DEF k
<1>6. QED
  BY <1>1, <1>2, <1>3, <1>4, <1>5 DEF JP!Begin, JP!Move, k

LEMMA RefineRunReturns ==
  ASSUME IndInv, NEW w \in Workers, RunReturns(w)
  PROVE  wkey[w] \in Keys /\ JP!Complete(wkey[w])
<1> USE QueueAssumption DEF QueueAssumption, IndInv
<1> DEFINE k == wkey[w]
<1>1. k \in Keys /\ Held(k) /\ Running(k)
  BY DEF RunReturns, WorkersHoldKeys, Busy, Held, Running
<1>2. ~Queued(k)
  BY <1>1 DEF OneLiveJobPerKey
<1>3. \A q \in Keys : Queued(q)' = Queued(q)
  BY DEF RunReturns, Queued
<1>4. \A q \in Keys : Running(q)' <=> Running(q) /\ q # k
  BY DEF RunReturns, Running, OneLiveJobPerKey, Busy, QTypeOK
<1>5. stop' = stop
  BY DEF RunReturns
<1>6. QED
  BY <1>1, <1>2, <1>3, <1>4, <1>5 DEF JP!Complete, JP!Move

LEMMA RefineStopReturn ==
  ASSUME IndInv, StopReturn
  PROVE  JP!Drained
<1> USE QueueAssumption DEF QueueAssumption, IndInv
<1>1. jobs = <<>> /\ \A w \in Workers : wpc[w] = "exited"
  BY DEF StopReturn, ExitedIsDrained
<1>2. \A q \in Keys : ~Queued(q) /\ ~Running(q)
  BY <1>1 DEF Queued, Running
<1>3. \A q \in Keys : Queued(q)' = Queued(q) /\ Running(q)' = Running(q)
  BY DEF StopReturn, Queued, Running
<1>4. QED
  BY <1>2, <1>3 DEF StopReturn, JP!Drained

\* A step that leaves the channel, the running workers and Stop alone is
\* invisible in the pool.
LEMMA RefineStutter ==
  ASSUME jobs' = jobs, stop' = stop, \A q \in Keys : Running(q)' = Running(q)
  PROVE  UNCHANGED JP!poolVars
  BY DEF JP!poolVars, Queued

LEMMA RefineNext == IndInv /\ [QNext]_queueVars => [JP!PoolNext]_JP!poolVars
<1> SUFFICES ASSUME IndInv, [QNext]_queueVars  PROVE [JP!PoolNext]_JP!poolVars
  OBVIOUS
<1> USE DEF IndInv
<1>1. ASSUME NEW c \in Callers,
             \/ \E k \in Keys : EnqueueDuplicate(c, k) \/ EnqueueMark(c, k)
             \/ EnqueueCancel(c) \/ EnqueuePanic(c)
      PROVE  UNCHANGED JP!poolVars
  <2>1. jobs' = jobs /\ stop' = stop /\ wpc' = wpc /\ wkey' = wkey
    BY <1>1 DEF EnqueueDuplicate, EnqueueMark, EnqueueCancel, EnqueuePanic, queueVars
  <2>2. QED  BY <2>1, RefineStutter DEF Running
<1>2. ASSUME NEW c \in Callers, EnqueueSend(c)  PROVE JP!PoolNext
  <2>1. sending[c] \in Keys
    BY <1>2 DEF EnqueueSend, LeaveSelect, QTypeOK
  <2>2. QED  BY <1>2, <2>1, RefineSend DEF JP!PoolNext
<1>3. ASSUME NEW w \in Workers, Receive(w)  PROVE JP!PoolNext
  BY <1>3, RefineReceive DEF JP!PoolNext
<1>4. ASSUME NEW w \in Workers, RunReturns(w)  PROVE JP!PoolNext
  BY <1>4, RefineRunReturns DEF JP!PoolNext
<1>5. ASSUME NEW w \in Workers, Forget(w) \/ Exit(w)  PROVE UNCHANGED JP!poolVars
  <2>1. jobs' = jobs /\ stop' = stop
    BY <1>5 DEF Forget, Exit
  <2>2. \A q \in Keys : Running(q)' = Running(q)
    BY <1>5 DEF Forget, Exit, Running, QTypeOK
  <2>3. QED  BY <2>1, <2>2, RefineStutter
<1>6. CASE StopClose
  <2>1. \A q \in Keys : Queued(q)' = Queued(q) /\ Running(q)' = Running(q)
    BY <1>6 DEF StopClose, Queued, Running
  <2>2. QED  BY <1>6, <2>1 DEF StopClose, JP!Close, JP!PoolNext
<1>7. CASE StopReturn
  BY <1>7, RefineStopReturn DEF JP!PoolNext
<1>8. CASE UNCHANGED queueVars
  BY <1>8, RefineStutter DEF queueVars, Running
<1>9. QED
  BY <1>1, <1>2, <1>3, <1>4, <1>5, <1>6, <1>7, <1>8 DEF QNext

\* The queue stands still only when it is full, Stop has not been called, and
\* every worker is at q.mu.Lock() behind a caller in the select.  Suppose that
\* nobody can go on.  After the close no caller is in the select, so that q.mu
\* is free, no worker is running, finished or idle, and Stop returns.  Before
\* it no worker has left, and each kind of work leads to the full channel.
LEMMA StallIsFull ==
  ASSUME IndInv, Outstanding, ~CanGoOn
  PROVE  /\ stop = "open" /\ Len(jobs) = Capacity
         /\ \E c \in Callers : sending[c] # NoKey
         /\ \A w \in Workers : wpc[w] = "finished"
<1>1. /\ \A w \in Workers : wpc[w] \in {"idle", "finished", "exited"}
      /\ \A w \in Workers : wpc[w] = "idle" => jobs = <<>> /\ ~ChannelClosed
      /\ \A w \in Workers : wpc[w] = "finished" => ~MuFree
      /\ \A c \in Callers : sending[c] # NoKey => ~ChannelClosed /\ ~(Len(jobs) < Capacity)
  BY DEF CanGoOn, IndInv, QTypeOK
<1>2. stop # "closing"
  <2>1. SUFFICES ASSUME stop = "closing"  PROVE FALSE
    OBVIOUS
  <2>2. MuFree
    BY <1>1, <2>1 DEF MuFree, ChannelClosed
  <2>3. \A w \in Workers : wpc[w] = "exited"
    BY <1>1, <2>1, <2>2 DEF ChannelClosed
  <2>4. QED  BY <2>1, <2>3 DEF CanGoOn
<1>3. PICK k \in Keys : Queued(k) \/ Held(k) \/ Sent(k)
  BY <1>2 DEF Outstanding
<1>4. stop = "open"
  <2>1. SUFFICES ASSUME stop = "stopped"  PROVE FALSE
    BY <1>2 DEF IndInv, QTypeOK
  <2>2. \A w \in Workers : wpc[w] = "exited" /\ jobs = <<>>
    BY <2>1 DEF IndInv, ExitedIsDrained
  <2>3. PICK w \in Workers : TRUE
    BY QueueAssumption DEF QueueAssumption
  <2>4. ~Queued(k) /\ ~Held(k)
    BY <2>2, <2>3 DEF Queued, Held, Busy
  <2>5. \A c \in Callers : sending[c] = NoKey
    BY <1>1, <2>1 DEF ChannelClosed
  <2>6. ~Sent(k)
    BY <2>5, QueueAssumption DEF Sent, QueueAssumption
  <2>7. QED  BY <1>3, <2>4, <2>6
<1>5. \A w \in Workers : wpc[w] # "exited"
  BY <1>4 DEF IndInv, ExitedIsDrained, ChannelClosed
<1>6. ~MuFree
  <2>1. SUFFICES ASSUME MuFree  PROVE FALSE
    OBVIOUS
  <2>2. \A w \in Workers : wpc[w] = "idle" /\ jobs = <<>>
    BY <1>1, <1>5, <2>1
  <2>3. PICK w \in Workers : TRUE
    BY QueueAssumption DEF QueueAssumption
  <2>4. ~Queued(k) /\ ~Held(k)
    BY <2>2, <2>3 DEF Queued, Held, Busy
  <2>5. ~Sent(k)
    BY <2>1, QueueAssumption DEF MuFree, Sent, QueueAssumption
  <2>6. QED  BY <1>3, <2>4, <2>5
<1>7. PICK c \in Callers : sending[c] # NoKey
  BY <1>6 DEF MuFree
<1>8. Len(jobs) = Capacity /\ jobs # <<>>
  <2>1. jobs \in Seq(Keys) /\ Len(jobs) <= Capacity /\ ~(Len(jobs) < Capacity)
    BY <1>1, <1>7 DEF IndInv, QTypeOK
  <2>2. QED  BY <2>1, QueueAssumption DEF QueueAssumption
<1>9. \A w \in Workers : wpc[w] = "finished"
  BY <1>1, <1>5, <1>8
<1>10. QED  BY <1>4, <1>7, <1>8, <1>9

\* The queue stands still in one way only.
THEOREM StallsOnlyWhenFull == QSpec => []OnlyFullQueueStalls
<1>1. IndInv => OnlyFullQueueStalls
  BY StallIsFull DEF OnlyFullQueueStalls
<1>2. QED  BY <1>1, Inductive, PTL

\* The queue is a pool of keyed jobs: an accepted job is run exactly once,
\* none is accepted after Stop, and Stop returns when none is left.
THEOREM PoolRefinement == QSpec => ImplementsPool
<1>1. QInit => JP!PoolInit
  BY RefineInit
<1>2. IndInv /\ [QNext]_queueVars => [JP!PoolNext]_JP!poolVars
  BY RefineNext
<1>3. QED
  BY <1>1, <1>2, Inductive, PTL DEF QSpec, ImplementsPool, JP!PoolSpec

=============================================================================
