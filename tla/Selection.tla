------------------------------ MODULE Selection ------------------------------
(***************************************************************************)
(* The loop by which the code filters a slice (GetDiscoveryEvents,         *)
(* SearchFeeds, the candidates of a job):                                  *)
(*     for _, e := range s { if <kept> { out = append(out, e) } }          *)
(* SelectSeq says the same; this form takes the positions kept as a set,   *)
(* so that SelectionProofs can say what it returns.                        *)
(***************************************************************************)
EXTENDS Naturals, Sequences

\* The elements of s at the positions in K, in their order.
Kept(s, K) ==
  LET kept[n \in 0..Len(s)] ==
        IF n = 0 THEN <<>>
        ELSE IF n \in K THEN Append(kept[n - 1], s[n]) ELSE kept[n - 1]
  IN kept[Len(s)]

=============================================================================
