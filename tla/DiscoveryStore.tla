--------------------------- MODULE DiscoveryStore ---------------------------
(***************************************************************************)
(* internal/inmem/discovery.go and models.Discovery: the discoveries, one  *)
(* per (session, normalised query), each with a status, its results and a  *)
(* bounded log of numbered events for the browsers that follow it.         *)
(*                                                                         *)
(* discoveryIdx binds each (userKey, queryNorm) pair once, under the lock, *)
(* to a random 128-bit ID, and nothing is ever deleted: the pair names its *)
(* discovery, and Ids is the set of these pairs.                           *)
(*                                                                         *)
(* Each operator is one critical section of s.mu (or one atomic add); the  *)
(* goroutines that call them are in DiscoveryService.  A discovery has     *)
(* results or none: parseFeed returns at most one candidate, and which one *)
(* it is matters to nothing modelled here.                                 *)
(***************************************************************************)
EXTENDS Naturals, Sequences

CONSTANTS
  Ids,          \* the discoveries there can be
  MaxEvents     \* maxEventsPerDiscovery: 100 in the code

ASSUME StoreAssumption == MaxEvents \in Nat \ {0}

VARIABLE disc   \* s.discoveries

Terminal   == {"resolved_found", "resolved_none", "error"}
EventTypes == {"progress", "results", "done", "error"}
Events     == [seq : Nat \ {0}, type : EventTypes]

Discoveries ==
  [status  : Terminal \cup {"absent", "pending"},
   results : BOOLEAN,
   seq     : Nat,
   events  : Seq(Events)]

\* NewDiscoveryStore
NoDiscovery == [status |-> "absent", results |-> FALSE, seq |-> 0, events |-> <<>>]

DTypeOK ==
  /\ disc \in [Ids -> Discoveries]
  /\ \A i \in Ids : Len(disc[i].events) <= MaxEvents

DInit == disc = [i \in Ids |-> NoDiscovery]

Exists(i) == disc[i].status # "absent"

\* A wrong variant, for the properties to refute: the index is not looked up
\* again under the write lock, so a second creation replaces the first.
CreateUnchecked(i) == disc' = [disc EXCEPT ![i] = [NoDiscovery EXCEPT !.status = "pending"]]

\* CreateOrGetDiscovery, when it creates.
CreateDiscovery(i) ==
  /\ ~Exists(i)
  /\ disc' = [disc EXCEPT ![i].status = "pending"]

\* discovery.NextSeq(): the new number is disc'[i].seq.
NextSeq(i) == disc' = [disc EXCEPT ![i].seq = @ + 1]

\* A wrong variant, for the properties to refute: the log is not trimmed.
AllEvents(s) == s

LastEvents(s) == IF Len(s) > MaxEvents THEN SubSeq(s, Len(s) - MaxEvents + 1, Len(s)) ELSE s

\* AppendDiscoveryEvent: the log keeps the last MaxEvents.
AppendDiscoveryEvent(i, n, t) ==
  disc' = [disc EXCEPT ![i].events = LastEvents(Append(@, [seq |-> n, type |-> t]))]

\* UpdateDiscovery, with the two kinds of function its callers pass.
UpdateStatus(i, s) == disc' = [disc EXCEPT ![i].status = s]

UpdateDiscovery(i, s, r) == disc' = [disc EXCEPT ![i].status = s, ![i].results = r]

=============================================================================
