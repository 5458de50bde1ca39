----------------------------- MODULE MCLifecycle -----------------------------
(* Instances of Lifecycle for TLC. *)
EXTENDS Lifecycle, TLC

CONSTANTS r1, r2, r3, i1, i2, i3

\* A job finds the feed of its own query.
MCFinds == [i \in Ids |-> {i}]

\* Each request is about its own discovery: three jobs, a full channel.
MCAsks == (r1 :> {i1}) @@ (r2 :> {i2}) @@ (r3 :> {i3})

=============================================================================
