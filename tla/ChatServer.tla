------------------------------ MODULE ChatServer ------------------------------
(***************************************************************************)
(* The chat server of Homework/chatclient/chatserver/chatserver.c: one     *)
(* process, one select() loop, MAX_CONNECTIONS slots, TCP peers that may   *)
(* say anything, hang up or be reset at any time, and SIGINT.              *)
(*                                                                         *)
(* The server runs from one system call at which it can wait (select, the  *)
(* recv of a user name, usleep) or at which another party's steps can be   *)
(* noticed to the next.  A whole broadcast is one step: each send touches  *)
(* one connection only, so it commutes with what the other peers do.       *)
(***************************************************************************)
EXTENDS Integers, Sequences, FiniteSets

CONSTANTS
    Conns,            \* the connections peers may open during a behaviour
    MAX_CONNECTIONS,  \* number of slots
    Fds,              \* descriptor numbers left to the server for connections
    MaxSay,           \* bound: the number of chunks of text each peer sends
    NULL              \* the null pointer, and a descriptor that is not open

ASSUME ServerAssumption ==
    /\ IsFiniteSet(Conns)
    /\ MAX_CONNECTIONS \in Nat \ {0}
    /\ IsFiniteSet(Fds) /\ Fds \subseteq Nat
    /\ MaxSay \in [Conns -> Nat]
    /\ NULL \notin Conns

Slots == 0 .. MAX_CONNECTIONS - 1

(***************************************************************************)
(* Text is a sequence of chunks, one per send() of a peer: recv() returns  *)
(* the chunks that have arrived glued together.  A chunk is known by its   *)
(* sender and number; the one text the server looks at is the word "bye".  *)
(***************************************************************************)
Chunk == [by : Conns, n : Nat, bye : BOOLEAN]
Text  == Seq(Chunk)
IsBye(text) == Len(text) = 1 /\ text[1].bye

ASSUME NullAssumption == NULL \notin Text

\* The server's messages; "from" names the connection a message is about and
\* is not on the wire.  A user list is the set of <<connection, name>> pairs.
Message ==
    [kind : {"welcome"}, users : SUBSET (Conns \X Text)]
      \cup [kind : {"joined", "left"}, from : Conns, user : Text]
      \cup [kind : {"chat"}, from : Conns, user : Text, text : Text]
      \cup [kind : {"bye"}]

(***************************************************************************)
(* What the server's kernel knows of a connection.  "up": both ends open;  *)
(* "fin": the peer closed; "poked": and we have sent since, so its reset   *)
(* is on the way; "aborted": reset, with ECONNRESET not reported yet;      *)
(* "reset": reset and reported, the next send raises SIGPIPE; "closed":    *)
(* the server closed its end.                                              *)
(***************************************************************************)
ChanState == {"new", "up", "fin", "poked", "aborted", "reset", "closed"}

VARIABLES
    chan,            \* state of each connection
    c2s,             \* chunks sent by the peer and not yet received
    s2c,             \* everything the server has sent to the peer
    said,            \* number of the last chunk each peer sent
    backlog,         \* connections waiting in the listen queue
    fds,             \* the server's descriptor table
    running, client_sockets, usernames, num_connections, inbuf, sockset,
    new_socket,      \* handle_server_socket's local, -1 outside it
    idx,             \* loop variable of the pass over the slots
    pc

netVars  == <<chan, c2s, s2c, said, backlog>>
slotVars == <<client_sockets, usernames, num_connections>>
vars     == <<netVars, fds, running, slotVars, inbuf, sockset, new_socket, idx, pc>>

ProgramPoint == {"loop", "select", "accept", "name", "clients", "exit",
                 "closing", "done", "killed"}
Stopped == pc \in {"done", "killed"}

Occupied  == {j \in Slots : client_sockets[j] # -1}
Owner(j)  == fds[client_sockets[j]]
FreeFds   == {f \in Fds : fds[f] = NULL}
Roster    == {<<Owner(j), usernames[j]>> : j \in Occupied}

\* recv() on the connection would not wait.
Readable(c) == c2s[c] # <<>> \/ chan[c] # "up"

\* select() has something to report.
Activity == backlog # <<>> \/ \E f \in sockset : Readable(fds[f])

Init ==
    /\ chan = [c \in Conns |-> "new"]
    /\ c2s = [c \in Conns |-> <<>>]
    /\ s2c = [c \in Conns |-> <<>>]
    /\ said = [c \in Conns |-> 0]
    /\ backlog = <<>>
    /\ fds = [f \in Fds |-> NULL]
    /\ running = TRUE
    /\ client_sockets = [j \in Slots |-> -1]
    /\ usernames = [j \in Slots |-> NULL]
    /\ num_connections = 0
    /\ inbuf = <<>>
    /\ sockset = {}
    /\ new_socket = -1
    /\ idx = 0
    /\ pc = "loop"

-----------------------------------------------------------------------------
(* Peers and kernel.                                                       *)

serverVars == <<fds, slotVars, inbuf, sockset, new_socket, idx>>

\* The kernel completes the handshake; Linux queues MAX_CONNECTIONS + 1.
Connect(c) ==
    /\ chan[c] = "new" /\ ~Stopped /\ Len(backlog) <= MAX_CONNECTIONS
    /\ chan' = [chan EXCEPT ![c] = "up"]
    /\ backlog' = Append(backlog, c)
    /\ UNCHANGED <<c2s, s2c, said, serverVars, running, pc>>

\* A peer sends its next text, or the word "bye".
Say(c) ==
    /\ chan[c] = "up" /\ ~Stopped /\ said[c] < MaxSay[c]
    /\ said' = [said EXCEPT ![c] = @ + 1]
    /\ \E b \in BOOLEAN :
         c2s' = [c2s EXCEPT ![c] = Append(@, [by |-> c, n |-> said[c] + 1, bye |-> b])]
    /\ UNCHANGED <<chan, s2c, backlog, serverVars, running, pc>>

\* A peer closes its socket, or is reset (closed with data unread).
HangUp(c) ==
    /\ chan[c] = "up" /\ ~Stopped
    /\ \E st \in {"fin", "aborted"} : chan' = [chan EXCEPT ![c] = st]
    /\ UNCHANGED <<c2s, s2c, said, backlog, serverVars, running, pc>>

\* The reset provoked by sending to a closed peer arrives.
ResetArrives(c) ==
    /\ chan[c] = "poked" /\ ~Stopped
    /\ chan' = [chan EXCEPT ![c] = "reset"]
    /\ UNCHANGED <<c2s, s2c, said, backlog, serverVars, running, pc>>

\* catch_signal runs while the server is not waiting in a system call.
Sigint ==
    /\ running /\ ~Stopped
    /\ running' = FALSE
    /\ UNCHANGED <<netVars, serverVars, pc>>

\* catch_signal interrupts select(), maybe for the second time: it fails with
\* EINTR, and neither the listening socket nor the slots are looked at because
\* running is false.
SigintInSelect ==
    /\ pc = "select" /\ ~Activity
    /\ running' = FALSE
    /\ pc' = "loop"
    /\ UNCHANGED <<netVars, serverVars>>

Environment ==
    \/ \E c \in Conns : Connect(c) \/ Say(c) \/ HangUp(c) \/ ResetArrives(c)
    \/ Sigint
    \/ SigintInSelect

-----------------------------------------------------------------------------
(* broadcast_buffer                                                        *)

\* Slots whose send() raises SIGPIPE, which the server does not catch.
Fatal(skip, st) == {j \in Occupied \ {skip} : st[Owner(j)] = "reset"}

\* Mutation of the loop: it starts after the sender.
ReachedAfter(skip, st) == {Owner(j) : j \in {k \in Occupied : k > skip}}

\* Connections the loop sends to before such a slot ends the process.
Reached(skip, st) ==
    {Owner(j) : j \in {k \in Occupied \ {skip} : \A f \in Fatal(skip, st) : k < f}}

SendOk(s)    == s \in {"up", "fin", "poked"}
AfterSend(s) == IF s = "fin" THEN "poked" ELSE IF s = "aborted" THEN "reset" ELSE s

\* Sends m to every slot but skip, the connections being in states st, and
\* goes on at program point then.  A failing send is only logged.
broadcast_buffer(skip, m, st, then) ==
    LET R == Reached(skip, st) IN
    /\ s2c' = [c \in Conns |-> IF c \in R /\ SendOk(st[c]) THEN Append(s2c[c], m) ELSE s2c[c]]
    /\ chan' = [c \in Conns |-> IF c \in R THEN AfterSend(st[c]) ELSE st[c]]
    /\ pc' = IF Fatal(skip, st) = {} THEN then ELSE "killed"

-----------------------------------------------------------------------------
(* main: the select loop                                                   *)

\* Mutation: the loop does not look at running.
BeginSelectAnyway ==
    /\ pc = "loop"
    /\ sockset' = {client_sockets[j] : j \in Occupied}
    /\ pc' = "select"
    /\ UNCHANGED <<netVars, fds, running, slotVars, inbuf, new_socket, idx>>

BeginSelect ==
    /\ pc = "loop" /\ running
    /\ sockset' = {client_sockets[j] : j \in Occupied}
    /\ pc' = "select"
    /\ UNCHANGED <<netVars, fds, running, slotVars, inbuf, new_socket, idx>>

LeaveLoop ==
    /\ pc = "loop" /\ ~running
    /\ pc' = "exit"
    /\ UNCHANGED <<netVars, serverVars, running>>

\* Mutation: the listening socket is not in the set.
SelectIgnoresQueue ==
    /\ pc = "select" /\ Activity
    /\ sockset' = {f \in sockset : Readable(fds[f])}
    /\ pc' = "clients"
    /\ UNCHANGED <<netVars, fds, running, slotVars, inbuf, new_socket, idx>>

\* select() leaves in the set the descriptors that can be read.
SelectReturns ==
    /\ pc = "select" /\ Activity
    /\ sockset' = {f \in sockset : Readable(fds[f])}
    /\ pc' = IF backlog # <<>> THEN "accept" ELSE "clients"
    /\ UNCHANGED <<netVars, fds, running, slotVars, inbuf, new_socket, idx>>

SkipAccept ==
    /\ pc = "accept" /\ ~running
    /\ pc' = "clients"
    /\ UNCHANGED <<netVars, serverVars, running>>

-----------------------------------------------------------------------------
(* handle_server_socket                                                    *)

LowestFree(f) == f \in FreeFds /\ \A g \in FreeFds : f <= g

Full == num_connections >= MAX_CONNECTIONS

\* accept() fails (no descriptor left, or no file or memory in the system) and
\* main gives up.
AcceptFails ==
    /\ pc = "accept" /\ running
    /\ pc' = "exit"
    /\ UNCHANGED <<netVars, serverVars, running>>

\* The server is maxed out: the connection is accepted and closed.
Refuse ==
    /\ pc = "accept" /\ running
    /\ FreeFds # {} /\ Full
    /\ backlog' = Tail(backlog)
    /\ chan' = [chan EXCEPT ![Head(backlog)] = "closed"]
    /\ pc' = "clients"
    /\ UNCHANGED <<c2s, s2c, said, serverVars, running>>

\* Mutation: the list starts at slot 1.
welcome_msg_tail == [kind |-> "welcome", users |-> {<<Owner(j), usernames[j]>> : j \in Occupied \ {0}}]

create_welcome_msg == [kind |-> "welcome", users |-> Roster]

\* The connection gets a descriptor and the welcome with the user list; the
\* server then waits for the user name.
Welcome ==
    /\ pc = "accept" /\ running
    /\ ~Full
    /\ \E f \in Fds :
         /\ LowestFree(f)
         /\ LET c == Head(backlog) IN
              /\ fds' = [fds EXCEPT ![f] = c]
              /\ s2c' = IF SendOk(chan[c])
                          THEN [s2c EXCEPT ![c] = Append(@, create_welcome_msg)]
                          ELSE s2c
              /\ chan' = [chan EXCEPT ![c] = AfterSend(@)]
         /\ new_socket' = f
    /\ backlog' = Tail(backlog)
    /\ pc' = "name"
    /\ UNCHANGED <<c2s, said, running, slotVars, inbuf, sockset, idx>>

\* "Add new socket to array of sockets": the first free slot takes the socket
\* and a copy of inbuf as its name, and the others are told.
FirstFreeCounted(j) == j = num_connections   \* mutation: the counter as index

FirstFree(j) == j \in Slots \ Occupied /\ \A k \in Slots \ Occupied : j <= k

AddClient(st) ==
    \E j \in Slots :
      /\ FirstFree(j)
      /\ client_sockets' = [client_sockets EXCEPT ![j] = new_socket]
      /\ usernames' = [usernames EXCEPT ![j] = inbuf']
      /\ num_connections' = num_connections + 1
      /\ broadcast_buffer(j, [kind |-> "joined", from |-> fds[new_socket], user |-> inbuf'],
                          st, "clients")
      /\ new_socket' = -1
      /\ UNCHANGED <<said, backlog, fds, sockset, idx>>

\* recv() returns a nonempty prefix of what the peer has sent.
Receive(c) ==
    \E k \in 1 .. Len(c2s[c]) :
      /\ inbuf' = SubSeq(c2s[c], 1, k)
      /\ c2s' = [c2s EXCEPT ![c] = SubSeq(@, k + 1, Len(@))]

NameReceived ==
    /\ pc = "name"
    /\ Receive(fds[new_socket])
    /\ AddClient(chan)
    /\ UNCHANGED running

\* Mutation: a failed recv() returns as well.
NameHangUpOrError ==
    /\ pc = "name"
    /\ c2s[fds[new_socket]] = <<>> /\ chan[fds[new_socket]] # "up"
    /\ new_socket' = -1
    /\ pc' = "clients"
    /\ UNCHANGED <<netVars, fds, running, slotVars, inbuf, sockset, idx>>

\* Mutation: the client is added although it hung up.
NameHangUpAdds ==
    /\ pc = "name"
    /\ c2s[fds[new_socket]] = <<>> /\ chan[fds[new_socket]] \in {"fin", "poked", "reset"}
    /\ UNCHANGED <<inbuf, c2s>>
    /\ AddClient(chan)
    /\ UNCHANGED running

\* The client hung up prematurely: recv() returned 0 and so does the handler.
NameHangUp ==
    /\ pc = "name"
    /\ c2s[fds[new_socket]] = <<>> /\ chan[fds[new_socket]] \in {"fin", "poked", "reset"}
    /\ new_socket' = -1
    /\ pc' = "clients"
    /\ UNCHANGED <<netVars, fds, running, slotVars, inbuf, sockset, idx>>

\* recv() failed with ECONNRESET: a warning, and the client is added with
\* whatever inbuf held.
NameReset ==
    /\ pc = "name"
    /\ c2s[fds[new_socket]] = <<>> /\ chan[fds[new_socket]] = "aborted"
    /\ UNCHANGED <<inbuf, c2s>>
    /\ AddClient([chan EXCEPT ![fds[new_socket]] = "reset"])
    /\ UNCHANGED running

\* SIGINT interrupts the recv(): EINTR is a failure like any other.
NameInterrupted ==
    /\ pc = "name"
    /\ ~Readable(fds[new_socket])
    /\ running' = FALSE
    /\ UNCHANGED <<inbuf, c2s>>
    /\ AddClient(chan)

-----------------------------------------------------------------------------
(* handle_client_socket and disconnect_client                              *)

\* Mutations: no FD_ISSET; slot 0 forgotten.
SelectedOpen(j)  == j \in Occupied
SelectedTail(j)  == j \in Occupied \ {0} /\ client_sockets[j] \in sockset

\* The slot is open and select() reported its descriptor.
Selected(j) == j \in Occupied /\ client_sockets[j] \in sockset

AtSlot == pc = "clients" /\ running /\ idx < MAX_CONNECTIONS

SkipSlot ==
    /\ AtSlot /\ ~Selected(idx)
    /\ idx' = idx + 1
    /\ UNCHANGED <<netVars, fds, running, slotVars, inbuf, sockset, new_socket, pc>>

EndOfSlots ==
    /\ pc = "clients" /\ (~running \/ idx = MAX_CONNECTIONS)
    /\ pc' = "loop"
    /\ idx' = 0
    /\ UNCHANGED <<netVars, fds, running, slotVars, inbuf, sockset, new_socket>>

\* The others are told, then the slot is freed, unless a send ended the process.
disconnect_client(j) ==
    LET st == [chan EXCEPT ![Owner(j)] = "closed"] IN
    /\ broadcast_buffer(j, [kind |-> "left", from |-> Owner(j), user |-> usernames[j]],
                        st, "clients")
    /\ IF Fatal(j, st) # {}
         THEN UNCHANGED <<slotVars, fds>>
         ELSE /\ fds' = [fds EXCEPT ![client_sockets[j]] = NULL]
              /\ client_sockets' = [client_sockets EXCEPT ![j] = -1]
              /\ usernames' = [usernames EXCEPT ![j] = NULL]
              /\ num_connections' = num_connections - 1

handlerUnchanged == UNCHANGED <<said, backlog, running, sockset, new_socket>>

\* Text other than "bye" is relayed to the other users.
ClientText ==
    /\ AtSlot /\ Selected(idx)
    /\ Receive(Owner(idx))
    /\ ~IsBye(inbuf')
    /\ broadcast_buffer(idx, [kind |-> "chat", from |-> Owner(idx),
                              user |-> usernames[idx], text |-> inbuf'], chan, "clients")
    /\ idx' = idx + 1
    /\ UNCHANGED <<slotVars, fds>> /\ handlerUnchanged

ClientBye ==
    /\ AtSlot /\ Selected(idx)
    /\ Receive(Owner(idx))
    /\ IsBye(inbuf')
    /\ disconnect_client(idx)
    /\ idx' = idx + 1
    /\ handlerUnchanged

\* recv() returned 0.
ClientClosed ==
    /\ AtSlot /\ Selected(idx)
    /\ c2s[Owner(idx)] = <<>> /\ chan[Owner(idx)] \in {"fin", "poked", "reset"}
    /\ disconnect_client(idx)
    /\ idx' = idx + 1
    /\ UNCHANGED <<inbuf, c2s>> /\ handlerUnchanged

\* recv() failed with ECONNRESET: a warning only; the next one returns 0.
ClientError ==
    /\ AtSlot /\ Selected(idx)
    /\ c2s[Owner(idx)] = <<>> /\ chan[Owner(idx)] = "aborted"
    /\ chan' = [chan EXCEPT ![Owner(idx)] = "reset"]
    /\ idx' = idx + 1
    /\ UNCHANGED <<c2s, s2c, pc, inbuf, fds, slotVars>> /\ handlerUnchanged

-----------------------------------------------------------------------------
(* cleanup: tell every client "bye", sleep, close what is in the slots.    *)

SayBye ==
    /\ pc = "exit"
    /\ broadcast_buffer(-1, [kind |-> "bye"], chan, "closing")
    /\ UNCHANGED <<c2s, said, backlog, serverVars, running>>

CloseAll ==
    /\ pc = "closing"
    /\ fds' = [f \in Fds |-> IF \E j \in Occupied : client_sockets[j] = f THEN NULL ELSE fds[f]]
    /\ chan' = [c \in Conns |-> IF \E j \in Occupied : Owner(j) = c THEN "closed" ELSE chan[c]]
    /\ pc' = "done"
    /\ UNCHANGED <<c2s, s2c, said, backlog, running, slotVars, inbuf, sockset, new_socket, idx>>

-----------------------------------------------------------------------------
Server ==
    \/ BeginSelect \/ LeaveLoop \/ SelectReturns \/ SkipAccept
    \/ AcceptFails \/ Refuse \/ Welcome
    \/ NameReceived \/ NameHangUp \/ NameReset
    \/ SkipSlot \/ EndOfSlots
    \/ ClientText \/ ClientBye \/ ClientClosed \/ ClientError
    \/ SayBye \/ CloseAll

Next == Server \/ Environment \/ NameInterrupted

Spec == Init /\ [][Next]_vars

-----------------------------------------------------------------------------
(* Invariants                                                              *)

\* Every variable has its type: descriptors are -1 or numbers from Fds, names
\* are NULL or text, streams are sequences of the server's messages.
TypeOK ==
    /\ chan \in [Conns -> ChanState]
    /\ c2s \in [Conns -> Text]
    /\ s2c \in [Conns -> Seq(Message)]
    /\ said \in [Conns -> Nat]
    /\ backlog \in Seq(Conns)
    /\ fds \in [Fds -> Conns \cup {NULL}]
    /\ running \in BOOLEAN
    /\ client_sockets \in [Slots -> Fds \cup {-1}]
    /\ usernames \in [Slots -> Text \cup {NULL}]
    /\ num_connections \in 0 .. MAX_CONNECTIONS
    /\ inbuf \in Text
    /\ sockset \subseteq Fds
    /\ new_socket \in Fds \cup {-1}
    /\ idx \in 0 .. MAX_CONNECTIONS
    /\ pc \in ProgramPoint

\* client_sockets, usernames, num_connections and the descriptor table agree:
\* a slot has a name iff it has a socket, the sockets are distinct open
\* descriptors, and the counter that decides on refusals counts them.
SlotsAgree ==
    /\ \A j \in Slots : client_sockets[j] = -1 <=> usernames[j] = NULL
    /\ \A j, k \in Occupied : j # k => client_sockets[j] # client_sockets[k]
    /\ pc # "done" => \A j \in Occupied : Owner(j) # NULL
    /\ num_connections = Cardinality(Occupied)

\* While a newcomer is asked for its name there is a free slot for it, and its
\* descriptor is in no slot yet: the search of handle_server_socket succeeds.
RoomForNewcomer ==
    pc = "name" => /\ Occupied # Slots
                   /\ new_socket \in Fds /\ fds[new_socket] # NULL
                   /\ \A j \in Occupied : client_sockets[j] # new_socket

\* handle_client_socket never waits in recv(): the slot it is called for holds
\* the connection that select() reported, still readable, although the server
\* accepted, closed and reused descriptors since select() returned.
RecvNeverWaits == AtSlot /\ Selected(idx) => Readable(Owner(idx))

\* An open descriptor that is neither in a slot nor being set up belongs to a
\* client that hung up before naming itself: nothing else leaks.
OnlyHangUpsLeak ==
    \A f \in Fds :
        fds[f] # NULL /\ f # new_socket /\ (\A j \in Occupied : client_sockets[j] # f)
            => /\ chan[fds[f]] \in {"fin", "poked", "reset"}
               /\ c2s[fds[f]] = <<>>
               /\ Len(s2c[fds[f]]) <= 1

=============
