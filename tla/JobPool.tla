------------------------------- MODULE JobPool -------------------------------
(***************************************************************************)
(* What internal/queue promises its callers, without the channel, the      *)
(* mutex or the worker goroutines: a pool of keyed jobs.                   *)
(*                                                                         *)
(* The interface (queue.go) says that a job has a key, that jobs with the  *)
(* same key are not queued twice, and that Stop waits for the jobs that    *)
(* were accepted.  In terms of this pool:                                  *)
(*   - a key has at most one live job, and it lives through                *)
(*     absent -> waiting -> running -> absent, skipping nothing: an        *)
(*     accepted job is never dropped and never run twice;                  *)
(*   - no job is accepted once the pool is closing;                        *)
(*   - the pool reports that it stopped only when no job is left.          *)
(***************************************************************************)

CONSTANT Keys

VARIABLES
  pool,    \* the state of the job of each key
  phase    \* "open", "closing" or "stopped"

poolVars == <<pool, phase>>

PoolTypeOK ==
  /\ pool \in [Keys -> {"absent", "waiting", "running"}]
  /\ phase \in {"open", "closing", "stopped"}

PoolInit ==
  /\ pool = [k \in Keys |-> "absent"]
  /\ phase = "open"

Move(k, from, to) ==
  /\ pool[k] = from
  /\ pool' = [pool EXCEPT ![k] = to]
  /\ UNCHANGED phase

Accept(k)   == phase = "open" /\ Move(k, "absent", "waiting")
Begin(k)    == Move(k, "waiting", "running")
Complete(k) == Move(k, "running", "absent")

Close ==
  /\ phase = "open"
  /\ phase' = "closing"
  /\ UNCHANGED pool

Drained ==
  /\ phase = "closing"
  /\ \A k \in Keys : pool[k] = "absent"
  /\ phase' = "stopped"
  /\ UNCHANGED pool

PoolNext ==
  \/ \E k \in Keys : Accept(k) \/ Begin(k) \/ Complete(k)
  \/ Close
  \/ Drained

PoolSpec == PoolInit /\ [][PoolNext]_poolVars

=============================================================================
