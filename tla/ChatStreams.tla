----------------------------- MODULE ChatStreams -----------------------------
(***************************************************************************)
(* What the users of the chat server can conclude from the streams of      *)
(* messages it sends them, and what it owes them: the properties of        *)
(* ChatServer that look at the whole conversation.                         *)
(***************************************************************************)
EXTENDS ChatServer

Users == {Owner(j) : j \in Occupied}
NameOf(c) == usernames[CHOOSE j \in Occupied : Owner(j) = c]

\* What the server's state means in terms of the room.
RoomPhase == CASE pc = "exit" -> "closing" [] pc = "closing" -> "said"
               [] Stopped -> "over" [] OTHER -> "open"
Came      == {c \in Conns : chan[c] # "new" /\ \A k \in DOMAIN backlog : backlog[k] # c}
Newcomer  == IF pc = "name" THEN fds[new_socket] ELSE NULL
Named     == [c \in IF Stopped THEN {} ELSE Users |-> NameOf(c)]
Deaf      == {c \in Conns : chan[c] \in {"aborted", "reset", "closed"}}

Room == INSTANCE ChatRoom WITH
    phase <- RoomPhase, came <- Came, newcomer <- Newcomer, room <- Named,
    text <- inbuf, heard <- s2c, deaf <- Deaf

\* The server implements the room: accepting, naming, relaying, disconnecting
\* and cleaning up over slots and sockets, with peers that are reset and
\* signals at any time, is never seen as anything but one user after another
\* entering, talking and leaving; nobody is refused while there is room, and
\* everyone whose connection works is told of each of these exactly once.
ImplementsRoom == Room!RoomSpec

PresenceIsExact == Room!PresenceIsExact

\* What a message, and a stream of them, relays from connection d, as the
\* numbers of the chunks.
RelayedIn(m, d) ==
    IF m.kind = "chat" /\ m.from = d THEN [k \in DOMAIN m.text |-> m.text[k].n] ELSE <<>>
RelayedFrom(s, d) ==
    LET Glue[k \in 0 .. Len(s)] == IF k = 0 THEN <<>> ELSE Glue[k - 1] \o RelayedIn(s[k], d)
    IN  Glue[Len(s)]

-----------------------------------------------------------------------------
(* What the server owes its users, and what its messages promise.          *)

\* If newcomers introduce themselves, what the user of a slot sends is read,
\* and a queued connection is taken out of the queue, unless the server stops.
UsersAreServed ==
    \A c \in Conns :
        (\E j \in Occupied : Owner(j) = c) /\ c2s[c] # <<>> ~> c2s[c] = <<>> \/ ~running \/ Stopped
QueueIsServed ==
    backlog # <<>> ~> backlog = <<>> \/ ~running \/ Stopped

\* Once running is false the server stops, if it is not waiting in select()
\* or select() has something to report.
StopsAtNextEvent == ~running /\ (pc = "select" => Activity) ~> Stopped

\* "Warning: Failed to broadcast message": a failing send is survived.
ServerSurvives == pc # "killed"

\* "Receive the user name from the client": the name of a user consists of
\* text from its own connection, unless its recv() failed because the
\* connection was reset or SIGINT came; then it is whatever inbuf held.
NamesAreReceived ==
    ~Stopped => \A j \in Occupied :
        \/ usernames[j] # <<>> /\ \A k \in DOMAIN usernames[j] : usernames[j][k].by = Owner(j)
        \/ chan[Owner(j)] = "reset"
        \/ ~running
=============================================================================
