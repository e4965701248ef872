----------------------------- MODULE MCChatClient -----------------------------
(* Small instances of the chat server with its clients.                    *)
EXTENDS ChatClient
CONSTANTS c1, c2

\* Bound on what each client sends, its name first.
Say31 == [c \in Conns |-> IF c = c1 THEN 3 ELSE 1]
=============================================================================
