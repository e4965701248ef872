---- MODULE FindServer ----
(* findserver: tries one port after the other until a server answers (lab 10).
   A port refuses, or its server speaks within the 250 microseconds recv() is
   given, or it is silent, or it ends the connection. *)
EXTENDS Integers

CONSTANTS Ports,       \* 1024 .. 65535
          Landscapes   \* what the ports may be, as functions on Ports

ASSUME PortsAssumption ==
    /\ Ports \subseteq Nat \ {0}
    /\ \E first, last \in Ports : Ports = first..last

VARIABLES server,     \* what each port is
          port,       \* the loop's i
          sockets,    \* the ports with an open descriptor
          client,     \* client_socket, as the port it was made for; 0 is -1
          answer,     \* the port that was reported, 0 for none
          findPc      \* "loop", "exit", "found", "none" or "failed"

findVars == <<server, port, sockets, client, answer, findPc>>

FirstPort == CHOOSE p \in Ports : \A q \in Ports : p <= q

FindInit(landscapes, at) ==
    /\ server \in landscapes
    /\ port = FirstPort /\ sockets = {} /\ client = 0 /\ answer = 0 /\ findPc = at

(* EXIT: closes client_socket if it is open. *)
CleansUp(open, how) == sockets' = open \ {client'} /\ findPc' = how

(* create_socket() returns -1; where setsockopt() failed the socket stays. *)
SocketFails ==
    /\ findPc = "loop" /\ port \in Ports
    /\ client' = 0
    /\ \E open \in {sockets, sockets \cup {port}} : CleansUp(open, "failed")
    /\ UNCHANGED <<server, port, answer>>

\* Mutation: the socket is not closed.
ConnectLeaks ==
    /\ findPc = "loop" /\ port \in Ports /\ server[port] = "refuses"
    /\ port' = port + 1 /\ client' = port /\ sockets' = sockets \cup {port}
    /\ UNCHANGED <<server, answer, findPc>>

ConnectFails ==
    /\ findPc = "loop" /\ port \in Ports /\ server[port] = "refuses"
    /\ port' = port + 1 /\ client' = port
    /\ UNCHANGED <<server, sockets, answer, findPc>>

(* recv() times out, or fails: the search is over. *)
RecvFails ==
    /\ findPc = "loop" /\ port \in Ports /\ server[port] \in {"late", "silent"}
    /\ client' = port
    /\ CleansUp(sockets \cup {port}, "failed")
    /\ UNCHANGED <<server, port, answer>>

(* A message, or none: a connection that ends counts as a server. *)
Found ==
    /\ findPc = "loop" /\ port \in Ports /\ server[port] \in {"speaks", "late", "closes"}
    /\ client' = port /\ answer' = port
    /\ CleansUp(sockets \cup {port}, "found")
    /\ UNCHANGED <<server, port>>

(* After the last port client_socket is the number of a closed descriptor. *)
NoServer ==
    /\ findPc = "loop" /\ port \notin Ports
    /\ UNCHANGED <<server, port, client, answer>>
    /\ CleansUp(sockets, "none")

FindNext == SocketFails \/ ConnectFails \/ RecvFails \/ Found \/ NoServer

(* No server that would have answered is passed over: all the ports below the
   one that was tried last refused, and "no server" means that all ports did.
   Of the connections that were tried none is left open. *)
FindReport ==
    /\ \A p \in Ports : p < port => server[p] = "refuses"
    /\ findPc = "none" => \A p \in Ports : server[p] = "refuses"
    /\ findPc \in {"found", "none"} => sockets = {}
====
