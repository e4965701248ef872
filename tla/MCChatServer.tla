----------------------------- MODULE MCChatServer -----------------------------
(* Small instances of the chat server.                                     *)
EXTENDS ChatStreams, TLC
CONSTANTS c1, c2, c3

\* Bounds on what each peer sends: the first chunk is its name.
Say1   == [c \in Conns |-> 1]
Say211 == [c \in Conns |-> IF c = c1 THEN 2 ELSE 1]

\* The peers that send equally much are interchangeable.
OthersAlike == Permutations(Conns \ {c1})
=============================================================================
