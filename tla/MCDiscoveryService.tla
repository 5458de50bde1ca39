------------------------- MODULE MCDiscoveryService -------------------------
(* Instances of DiscoveryService for TLC. *)
EXTENDS DiscoveryService, TLC

CONSTANTS i1, i2

\* What a job finds answers the discovery's own query; with two discoveries,
\* i1's feed also answers i2's query (a query that is a part of i1's, or the
\* same query in another session).
MCFinds == [i \in Ids |-> IF i = i1 THEN Ids ELSE {i}]

\* Any request may be about any discovery.
MCAsksAny == [r \in Requests |-> Ids]

\* Requests and workers are interchangeable.
Symmetry == Permutations(Requests) \cup Permutations(Workers)

=============================================================================
