------------------------------- MODULE MCMpSum -------------------------------
(* Small instances of the shared-memory sum.                               *)
EXTENDS MpSum, TLC

InstsAlike == Permutations(Insts)
=============================================================================
