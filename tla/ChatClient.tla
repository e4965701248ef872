------------------------------ MODULE ChatClient ------------------------------
(***************************************************************************)
(* The chat client of Homework/chatclient/chatclient.c, one process for    *)
(* each connection, together with the server: the peers of ChatServer,     *)
(* which may do anything, are replaced by this program and its user.       *)
(***************************************************************************)
EXTENDS ChatStreams

VARIABLES
    cpc,      \* of each client: "connect", "welcome", "name", "select",
              \* "drain", "drainThenSocket", "socket", "leave" or "ended"
    seen,     \* how many of the server's messages it has shown
    outbuf,   \* history: the number of the line in it, 0 for none
    late,     \* it has sent something since the server closed the connection
    lineOf,   \* history: the lines its chunks were sent for, 0 for the name
    repeats   \* history: how often a line was sent again at the end of input

localVars  == <<seen, outbuf, late>>
clientVars == <<cpc, localVars, lineOf, repeats>>
chatVars   == <<vars, clientVars>>

\* The server, or its kernel at its end, closed the connection.
ServerClosed(c) == chan[c] = "closed" \/ Stopped

\* recv() of the client would not wait.
Pending(c) == seen[c] < Len(s2c[c]) \/ ServerClosed(c)

\* Lines the user has entered: each is sent once, at least.
Entered(c) == {lineOf[c][n] : n \in DOMAIN lineOf[c]} \ {0}

ChatInit ==
    /\ Init
    /\ cpc = [c \in Conns |-> "connect"]
    /\ seen = [c \in Conns |-> 0]
    /\ outbuf = [c \in Conns |-> 0]
    /\ late = [c \in Conns |-> FALSE]
    /\ lineOf = [c \in Conns |-> <<>>]
    /\ repeats = [c \in Conns |-> 0]

GoTo(c, where) == cpc' = [cpc EXCEPT ![c] = where]

\* The process is gone, and its memory.
Gone(c) ==
    /\ GoTo(c, "ended")
    /\ seen' = [seen EXCEPT ![c] = 0]
    /\ outbuf' = [outbuf EXCEPT ![c] = 0]
    /\ late' = [late EXCEPT ![c] = FALSE]
    /\ UNCHANGED <<lineOf, repeats>>

\* close(), or the kernel's when the process dies: with messages unread it
\* resets the connection.
Close(c, unread) ==
    \/ /\ ~ServerClosed(c) /\ HangUp(c)
       /\ chan'[c] = IF unread THEN "aborted" ELSE "fin"
    \/ ServerClosed(c) /\ UNCHANGED vars

-----------------------------------------------------------------------------
(* main up to the loop                                                     *)

EnterChat(c) ==
    /\ cpc[c] = "connect"
    /\ Connect(c)
    /\ GoTo(c, "welcome")
    /\ UNCHANGED <<localVars, lineOf, repeats>>

\* recv() returns a nonempty prefix of the messages that have arrived.
Show(c) == \E k \in seen[c] + 1 .. Len(s2c[c]) : seen' = [seen EXCEPT ![c] = k]

\* Whatever comes first is taken for the welcome.
GetWelcome(c) ==
    /\ cpc[c] = "welcome"
    /\ Show(c)
    /\ GoTo(c, "name")
    /\ UNCHANGED <<vars, outbuf, late, lineOf, repeats>>

\* "All connections are busy", or a reset.
NoWelcome(c) ==
    /\ cpc[c] = "welcome" /\ seen[c] = Len(s2c[c]) /\ ServerClosed(c)
    /\ Gone(c)
    /\ UNCHANGED vars

-----------------------------------------------------------------------------
(* send()                                                                  *)

\* A chunk for line n, which is the word "bye" or not, reaches the server.
Sent(c, n, bye) ==
    /\ ~ServerClosed(c)
    /\ Say(c) /\ c2s'[c][Len(c2s'[c])].bye = bye
    /\ lineOf' = [lineOf EXCEPT ![c] = Append(@, n)]
    /\ UNCHANGED late

\* The server closed its end: the chunk is lost, or send() fails, which is only
\* reported.
Lost(c) ==
    /\ ServerClosed(c)
    /\ late' = [late EXCEPT ![c] = TRUE]
    /\ UNCHANGED <<vars, lineOf>>

send(c, n, bye) == Sent(c, n, bye) \/ Lost(c)

\* get_string() read a line without its newline, and reads on until that comes.
Draining(c) == cpc[c] \in {"drain", "drainThenSocket"}

\* A second send() to a closed server may raise SIGPIPE.
BrokenPipe(c) ==
    /\ cpc[c] = "select" \/ Draining(c)
    /\ ServerClosed(c) /\ late[c]
    /\ Gone(c)
    /\ UNCHANGED vars

\* No user is called "bye".
SendName(c) ==
    /\ cpc[c] = "name"
    /\ send(c, 0, FALSE)
    /\ GoTo(c, "select")
    /\ UNCHANGED <<seen, outbuf, repeats>>

-----------------------------------------------------------------------------
(* The loop: standard input first, then the socket if select() reported it *)
(* as well.                                                                *)

AfterInput(c) == \E where \in {"select"} \cup (IF Pending(c) THEN {"socket"} ELSE {}) : GoTo(c, where)

NewLine(c) == Cardinality(Entered(c)) + 1

\* A line, cut if it is too long.  After "bye" the client leaves, whatever has
\* arrived.
HandleLine(c) ==
    /\ cpc[c] = "select"
    /\ \/ send(c, NewLine(c), TRUE) /\ GoTo(c, "leave")
       \/ send(c, NewLine(c), FALSE) /\ AfterInput(c)
    /\ outbuf' = [outbuf EXCEPT ![c] = NewLine(c)]
    /\ UNCHANGED <<seen, repeats>>

\* What was read has no newline at its end: the client waits for one, or for
\* the end of input, and for nothing else.  What select() reported is kept.
\* Bound: a line is begun only while MaxSay lets it be sent.
BeginLine(c) ==
    /\ cpc[c] = "select" /\ (said[c] < MaxSay[c] \/ ServerClosed(c))
    /\ outbuf' = [outbuf EXCEPT ![c] = NewLine(c)]
    /\ GoTo(c, IF Pending(c) THEN "drainThenSocket" ELSE "drain")
    /\ UNCHANGED <<vars, seen, late, lineOf, repeats>>

FinishLine(c) ==
    /\ Draining(c)
    /\ \/ send(c, outbuf[c], TRUE) /\ GoTo(c, "leave")
       \/ /\ send(c, outbuf[c], FALSE)
          /\ GoTo(c, IF cpc[c] = "drain" THEN "select" ELSE "socket")
    /\ UNCHANGED <<seen, outbuf, repeats>>

\* Mutation: outbuf is left as it is.
HandleEmptyLineAgain(c) ==
    /\ cpc[c] = "select" /\ outbuf[c] # 0
    /\ send(c, outbuf[c], FALSE) /\ AfterInput(c)
    /\ UNCHANGED <<seen, outbuf, repeats>>

\* outbuf is empty, and send() of nothing does nothing.
HandleEmptyLine(c) ==
    /\ cpc[c] = "select"
    /\ outbuf' = [outbuf EXCEPT ![c] = 0]
    /\ AfterInput(c)
    /\ UNCHANGED <<vars, seen, late, lineOf, repeats>>

\* read() returns 0 and leaves outbuf alone: the last line is sent again.
HandleEndOfInput(c) ==
    /\ cpc[c] = "select" /\ outbuf[c] # 0
    /\ send(c, outbuf[c], FALSE) /\ AfterInput(c)
    /\ repeats' = [repeats EXCEPT ![c] = IF ServerClosed(c) THEN @ ELSE @ + 1]
    /\ UNCHANGED <<seen, outbuf>>

AtSocket(c) == cpc[c] \in {"select", "socket"}

\* "bye" is recognised if it is all that recv() returned.
ByeAlone(c, k) == SubSeq(s2c[c], seen[c] + 1, k) = <<[kind |-> "bye"]>>

HandleMessage(c) ==
    /\ AtSocket(c)
    /\ Show(c)
    /\ GoTo(c, IF ByeAlone(c, seen'[c]) THEN "leave" ELSE "select")
    /\ UNCHANGED <<vars, outbuf, late, lineOf, repeats>>

\* Mutation: only the server's bye ends the client.
HandleLostIgnored(c) ==
    /\ AtSocket(c) /\ seen[c] = Len(s2c[c]) /\ ServerClosed(c)
    /\ GoTo(c, "select")
    /\ UNCHANGED <<vars, localVars, lineOf, repeats>>

\* "Connection to server has been lost", or a reset.
HandleLost(c) ==
    /\ AtSocket(c) /\ seen[c] = Len(s2c[c]) /\ ServerClosed(c)
    /\ Gone(c)
    /\ UNCHANGED vars

Leave(c) ==
    /\ cpc[c] = "leave"
    /\ Close(c, seen[c] < Len(s2c[c]))
    /\ Gone(c)

\* The user interrupts or kills the client.
Killed(c) ==
    /\ cpc[c] \notin {"connect", "leave", "ended"}
    /\ Close(c, seen[c] < Len(s2c[c]))
    /\ Gone(c)

-----------------------------------------------------------------------------
Client(c) ==
    \/ GetWelcome(c) \/ NoWelcome(c) \/ SendName(c)
    \/ HandleMessage(c) \/ HandleLost(c) \/ Leave(c)

User(c) ==
    \/ EnterChat(c) \/ HandleLine(c) \/ BeginLine(c) \/ FinishLine(c)
    \/ HandleEmptyLine(c) \/ HandleEndOfInput(c) \/ BrokenPipe(c) \/ Killed(c)

\* Steps of the server, its kernel and its signals.
ServerSide ==
    /\ Server \/ (\E c \in Conns : ResetArrives(c)) \/ Sigint \/ SigintInSelect \/ NameInterrupted
    /\ UNCHANGED clientVars

ChatNext == ServerSide \/ \E c \in Conns : Client(c) \/ User(c)

\* The server and the clients run whenever they can; no user has to do anything.
ChatSpec == /\ ChatInit /\ [][ChatNext]_chatVars
            /\ WF_chatVars(Server /\ UNCHANGED clientVars)
            /\ \A c \in Conns : WF_chatVars(Client(c))

-----------------------------------------------------------------------------
(* Properties                                                              *)

\* What is on a client's terminal.
Screen(c) == SubSeq(s2c[c], 1, seen[c])

\* What user d enters appears on the screen of user c line by line, nothing
\* missing in between and nothing twice, except that the last line may be sent
\* again each time d's input ends; nobody sees lines of his own.
EachLineOnce ==
    \A c, d \in Conns :
        LET r == RelayedFrom(Screen(c), d)
            Again == {k \in 1 .. Len(r) - 1 : lineOf[d][r[k + 1]] = lineOf[d][r[k]]}
        IN  /\ c = d => r = <<>>
            /\ Cardinality(Again) <= repeats[d]
            /\ \A k \in 1 .. Len(r) - 1 :
                  /\ r[k + 1] = r[k] + 1
                  /\ k \notin Again => lineOf[d][r[k + 1]] = lineOf[d][r[k]] + 1

\* "Server initiated shutdown", "Connection to server has been lost": once the
\* server closed its end, or is gone, every client ends, even if the server's
\* bye arrived glued to other messages, and whatever its user types - unless he
\* never ends a line that he began.
ClientsEnd ==
    \A c \in Conns :
        \/ <>[]Draining(c)
        \/ ServerClosed(c) /\ cpc[c] # "connect" ~> cpc[c] = "ended"

\* A client that ended, however it did, loses its slot.
LeaversLoseSlot ==
    \A c \in Conns : cpc[c] = "ended" ~> (\A j \in Occupied : Owner(j) # c) \/ ~running \/ Stopped
=============================================================================
