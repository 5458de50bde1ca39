----------------------------- MODULE MCJobQueue -----------------------------
(* Instances of JobQueue for TLC: the configurations give every constant. *)
EXTENDS JobQueue

=============================================================================
