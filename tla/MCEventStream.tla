---------------------------- MODULE MCEventStream ----------------------------
(* Instances of EventStream for TLC. *)
EXTENDS EventStream

\* Searches for one discovery, whose feed answers its own query.
MCFinds == [i \in Ids |-> {i}]
MCAsks  == [r \in Requests |-> Ids]

=============================================================================
