---------------------------- MODULE MCOneProgram ----------------------------
(* Small instances of each program, for TLC. *)
EXTENDS OneProgram, MCExercises, MCMtSum

MCHere == [d \in Dirs |-> IF d = "start" THEN {"b"} ELSE {}]
=============================================================================
