------------------------------- MODULE ChatRoom -------------------------------
(***************************************************************************)
(* What a chat server promises: a room of at most MAX_CONNECTIONS users,   *)
(* one thing happening in it at a time, and everybody in it told of all    *)
(* that others do, until their connection breaks.  There are no slots,     *)
(* descriptors, sockets or signals here: ChatStreams shows that the server *)
(* implements this.                                                        *)
(***************************************************************************)
EXTENDS Integers, Sequences, FiniteSets

CONSTANTS Conns, MAX_CONNECTIONS, NULL

VARIABLES
    phase,     \* "open", "closing" (nothing happens but the farewell), "said" or "over"
    came,      \* the connections that were looked at: each is, once
    newcomer,  \* the connection that was welcomed and is asked for its name, or NULL
    room,      \* the names of the users who are in, by connection
    text,      \* the last thing that was said
    heard,     \* everything each connection was told
    deaf       \* connections that cannot be told anything any more

roomVars == <<phase, came, newcomer, room, text, heard, deaf>>

Users       == DOMAIN room
Others(c)   == Users \ {c}
RoomRoster  == {<<c, room[c]>> : c \in Users}
Told(S, m)  == [c \in Conns |-> IF c \in S \ deaf THEN Append(heard[c], m) ELSE heard[c]]

RoomInit ==
    /\ phase = "open" /\ came = {} /\ newcomer = NULL
    /\ room = <<>> /\ text = <<>> /\ deaf = {}
    /\ heard = [c \in Conns |-> <<>>]

Greets(c) ==
    /\ phase = "open" /\ newcomer = NULL /\ c \notin came
    /\ Cardinality(Users) < MAX_CONNECTIONS
    /\ came' = came \cup {c} /\ newcomer' = c
    /\ heard' = Told({c}, [kind |-> "welcome", users |-> RoomRoster])
    /\ UNCHANGED <<phase, room, text, deaf>>

\* Nobody is refused while there is room.
Refuses(c) ==
    /\ phase = "open" /\ newcomer = NULL /\ c \notin came
    /\ Cardinality(Users) = MAX_CONNECTIONS
    /\ came' = came \cup {c} /\ deaf' = deaf \cup {c}
    /\ UNCHANGED <<phase, newcomer, room, text, heard>>

\* Between its welcome and its entry nothing happens to the users in the room.
Joins(c) ==
    /\ phase = "open" /\ newcomer = c
    /\ newcomer' = NULL
    /\ room' = [d \in Users \cup {c} |-> IF d = c THEN text' ELSE room[d]]
    /\ heard' = Told(Users, [kind |-> "joined", from |-> c, user |-> text'])
    /\ UNCHANGED <<phase, came>> /\ deaf \subseteq deaf'

TurnsBack(c) ==
    /\ phase = "open" /\ newcomer = c
    /\ newcomer' = NULL
    /\ UNCHANGED <<phase, came, room, text, heard, deaf>>

Chats(c) ==
    /\ phase = "open" /\ newcomer = NULL /\ c \in Users
    /\ heard' = Told(Others(c), [kind |-> "chat", from |-> c, user |-> room[c], text |-> text'])
    /\ UNCHANGED <<phase, came, newcomer, room, deaf>>

Leaves(c) ==
    /\ phase = "open" /\ newcomer = NULL /\ c \in Users
    /\ room' = [d \in Others(c) |-> room[d]]
    /\ heard' = Told(Others(c), [kind |-> "left", from |-> c, user |-> room[c]])
    /\ deaf' = deaf \cup {c}
    /\ UNCHANGED <<phase, came, newcomer>>

\* A connection breaks; it may take its time to be noticed.
Breaks(c) ==
    /\ deaf' = deaf \cup {c}
    /\ UNCHANGED <<phase, came, newcomer, room, text, heard>>

Closes ==
    /\ phase = "open" /\ newcomer = NULL
    /\ phase' = "closing"
    /\ UNCHANGED <<came, newcomer, room, text, heard, deaf>>

SaysBye ==
    /\ phase = "closing"
    /\ phase' = "said"
    /\ heard' = Told(Users, [kind |-> "bye"])
    /\ UNCHANGED <<came, newcomer, room, text, deaf>>

Ends ==
    /\ phase = "said"
    /\ phase' = "over" /\ room' = <<>>
    /\ deaf' = deaf \cup Users
    /\ UNCHANGED <<came, newcomer, text, heard>>

\* A message that kills the server reaches some of those it is for.
Dies ==
    /\ phase \in {"open", "closing"}
    /\ \E c \in Users : c \in deaf'
    /\ phase' = "over" /\ newcomer' = NULL /\ room' = <<>>
    /\ \A c \in Conns :
         \/ heard'[c] = heard[c]
         \/ Len(heard'[c]) = Len(heard[c]) + 1 /\ c \in Users \ deaf
    /\ deaf \subseteq deaf' /\ UNCHANGED came

RoomNext ==
    \/ \E c \in Conns : Greets(c) \/ Refuses(c) \/ Joins(c) \/ TurnsBack(c)
                          \/ Chats(c) \/ Leaves(c) \/ Breaks(c)
    \/ Closes \/ SaysBye \/ Ends \/ Dies

RoomSpec == RoomInit /\ [][RoomNext]_roomVars

-----------------------------------------------------------------------------
(* What users can conclude from what they hear.                            *)

Introduces(m, p) ==
    \/ m.kind = "welcome" /\ p \in m.users
    \/ m.kind = "joined" /\ p = <<m.from, m.user>>
Retracts(m, p) == m.kind = "left" /\ p = <<m.from, m.user>>

\* The users a stream says are present.
Present(s) ==
    LET Mentioned == UNION {IF s[k].kind = "welcome" THEN s[k].users
                            ELSE IF s[k].kind = "joined" THEN {<<s[k].from, s[k].user>>}
                            ELSE {} : k \in DOMAIN s}
    IN {p \in Mentioned : \E k \in DOMAIN s :
            /\ Introduces(s[k], p)
            /\ \A l \in DOMAIN s : l > k => ~Retracts(s[l], p)}

\* The welcome's user list, plus the arrivals, minus the departures a user was
\* told of, is exactly who else is in the room, as long as the connection
\* works: no arrival or departure is missed or told twice, not even those
\* between somebody's welcome and its entry.
PresenceIsExact ==
    \A c \in Users \ deaf : Present(heard[c]) = RoomRoster \ {<<c, room[c]>>}
=============================================================================
