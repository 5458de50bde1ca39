------------------------------ MODULE Lifecycle ------------------------------
(***************************************************************************)
(* How the process ends: Application.Run (cmd/web/application.go) and      *)
(* Server.Serve (internal/server/server.go) around DiscoveryService.       *)
(*                                                                         *)
(* A signal makes Serve's goroutine call http.Server.Shutdown, which waits *)
(* for the active requests, at most 30 seconds.  When Serve has returned,  *)
(* the deferred function of Run stops the queue, and main returns, which   *)
(* ends every goroutine.  Requests that outlive the 30 seconds are still   *)
(* running while the queue stops.                                          *)
(*                                                                         *)
(* Other requests than searches (pages, event streams) only matter by the  *)
(* time they make Shutdown wait: it may give up with no search active.     *)
(***************************************************************************)
EXTENDS DiscoveryService

VARIABLES
  phase,  \* "serving", "shutdown" (Shutdown waits), "returned" (Serve), "exited"
  clean   \* Shutdown returned because no request was active

lifeVars == <<phase, clean>>

LInit == SInit /\ phase = "serving" /\ clean = FALSE

Active(r) == pc[r] \notin {"idle", "replied", "panicked"}

------------------------------------------------------------------------------
(***************************************************************************)
(* Wrong variants: bugs this code could plausibly have, each the form of   *)
(* one action below with one thing changed.  They show that the properties *)
(* tell such bugs from the code; no specification uses them.               *)
(***************************************************************************)

\* Shutdown(context.Background()): no limit.
ShutdownUnlimited == FALSE /\ UNCHANGED <<vars, lifeVars>>

\* Serve returns as soon as ListenAndServe does, not waiting for Shutdown.
ServeReturnsAtOnce ==
  /\ phase = "shutdown"
  /\ phase' = "returned"
  /\ clean' = TRUE
  /\ UNCHANGED vars

\* Stop honours its context, and gives up while the workers still run.
MainReturnsEarly ==
  /\ phase = "returned"
  /\ stop # "open"
  /\ phase' = "exited"
  /\ UNCHANGED <<vars, clean>>

------------------------------------------------------------------------------
(* Serve *)

\* SIGINT or SIGTERM: Shutdown closes the listener, and ListenAndServe
\* returns ErrServerClosed.
Signal ==
  /\ phase = "serving"
  /\ phase' = "shutdown"
  /\ UNCHANGED <<vars, clean>>

\* ListenAndServe fails (the port is taken, the listener breaks), and Serve
\* returns at once.
ServeFails ==
  /\ phase = "serving"
  /\ phase' = "returned"
  /\ UNCHANGED <<vars, clean>>

\* No request is active: their connections are closed, Shutdown returns nil.
ShutdownReturns ==
  /\ phase = "shutdown"
  /\ \A r \in Requests : ~Active(r)
  /\ phase' = "returned"
  /\ clean' = TRUE
  /\ UNCHANGED vars

\* 30 seconds have passed: the error of the context is Serve's.
ShutdownTimesOut ==
  /\ phase = "shutdown"
  /\ phase' = "returned"
  /\ UNCHANGED <<vars, clean>>

------------------------------------------------------------------------------
(* Run, main *)

\* The deferred jobQueue.Stop.
RunStops == phase = "returned" /\ StopClose /\ UNCHANGED lifeVars

\* Stop has returned: Run and main return.
MainReturns ==
  /\ phase = "returned"
  /\ stop = "stopped"
  /\ phase' = "exited"
  /\ UNCHANGED <<vars, clean>>

------------------------------------------------------------------------------
\* A request may also arrive on a connection that was accepted before the
\* listener closed, until Shutdown has closed the connections.
Arrive(r) == ~clean /\ \E i \in Ids : SearchKnown(r, i)

Running ==
  \/ \E r \in Requests : Arrive(r) \/ RequestStep(r) \/ EnqueueCancel(r)
  \/ \E w \in Workers : WorkerStep(w)
  \/ \E i \in Ids : ~clean /\ SubscribeToFeed(i)
  \/ StopReturn

Exited == phase = "exited" /\ UNCHANGED <<vars, lifeVars>>

LNext ==
  \/ phase # "exited" /\ Running /\ UNCHANGED lifeVars
  \/ RunStops
  \/ Signal \/ ServeFails \/ ShutdownReturns \/ ShutdownTimesOut
  \/ MainReturns
  \/ Exited

lvars == <<vars, lifeVars>>

LSpec == LInit /\ [][LNext]_lvars

(***************************************************************************)
(* Fairness: that of the service while the process runs, but nothing is    *)
(* assumed of the clients; the 30 seconds pass; main goes on.  No signal   *)
(* need come.                                                              *)
(***************************************************************************)
Alive(A) == phase # "exited" /\ A /\ UNCHANGED lifeVars

LFairness ==
  /\ \A r \in Requests : SF_lvars(Alive(RequestStep(r)))
  /\ \A w \in Workers : SF_lvars(Alive(WorkerStep(w)))
  /\ WF_lvars(Alive(StopReturn))
  /\ WF_lvars(ShutdownTimesOut)
  /\ WF_lvars(RunStops)
  /\ WF_lvars(MainReturns)

LFairSpec == LSpec /\ LFairness

\* Every client whose request waits in Enqueue gives up at some time.
ClientsGoAway == \A r \in Requests : WF_lvars(Alive(EnqueueCancel(r)))

------------------------------------------------------------------------------
(* Properties *)

\* A shutdown that did not time out loses nothing: every search that arrived
\* was answered (none by a panic), and every discovery that was not restarted
\* has its outcome, those still queued when the queue was closed included.
CleanExitLosesNothing ==
  clean /\ phase = "exited" =>
    /\ \A r \in Requests : pc[r] \in {"idle", "replied"}
    /\ \A i \in Ids \ restarted : disc[i].status # "pending"

\* Whether or not Shutdown timed out, and also when Serve failed and never
\* called it: the process takes no discovery down in its first run except one
\* whose search was cut off before its Enqueue had returned, by the end of the
\* process or by the panic of a send on the closed channel.  What Enqueue had
\* accepted was run to its outcome, while handlers still came and panicked.
OnlyCutOffStartsAreLost ==
  phase = "exited" =>
    \A i \in Ids \ restarted : disc[i].status = "pending" =>
      \E r \in Requests : Starting(r, i) \/ (req[r] = i /\ pc[r] = "panicked")

\* A signal, or the failure of the listener, ends the process, with no help
\* from clients: also when a caller of Enqueue holds q.mu on a full channel and
\* every worker waits for q.mu, the limit of Shutdown lets Stop close the
\* channel, which frees the caller.
SignalEndsProcess == phase \in {"shutdown", "returned"} ~> phase = "exited"

\* If hanging clients give up, every search is answered, with a response or by
\* recoverPanic, unless the process ends first.
SearchesAreAnswered ==
  ClientsGoAway =>
    \A r \in Requests : pc[r] = "searched" ~> pc[r] \in {"replied", "panicked"}
                                               \/ phase = "exited"

=============================================================================
