------------------------------- MODULE MCMtSum -------------------------------
(* A small array for the threaded sum. *)
EXTENDS MtSum

Values3 == [i \in 0 .. 2 |-> i + 2]
=============================================================================
