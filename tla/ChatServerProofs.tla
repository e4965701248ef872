--------------------------- MODULE ChatServerProofs ---------------------------
(***************************************************************************)
(* The chat server's tables stay consistent for any number of connections, *)
(* slots and descriptors, whatever peers and signals do, and its recv()    *)
(* never waits.                                                            *)
(***************************************************************************)
EXTENDS ChatServer, TLAPS, FiniteSetTheorems, SequenceTheorems

-----------------------------------------------------------------------------
(* Lemmas about the operators of the model.                                *)

\* A nonempty prefix is split off a stream.
LEMMA ReceiveType ==
    ASSUME c2s \in [Conns -> Text], NEW c \in Conns, Receive(c)
    PROVE  inbuf' \in Text /\ c2s' \in [Conns -> Text] /\ c2s[c] # <<>>
<1>1. PICK k \in 1 .. Len(c2s[c]) :
          /\ inbuf' = SubSeq(c2s[c], 1, k)
          /\ c2s' = [c2s EXCEPT ![c] = SubSeq(@, k + 1, Len(@))]
  BY DEF Receive
<1>2. c2s[c] \in Seq(Chunk) /\ Len(c2s[c]) \in Nat /\ k \in Int
  BY <1>1 DEF Text
<1>3. \A i \in 1 .. Len(c2s[c]) : c2s[c][i] \in Chunk
  BY <1>2, ElementOfSeq
<1>4. SubSeq(c2s[c], 1, k) \in Seq(Chunk)
  BY <1>1, <1>2, <1>3, SubSeqProperties
<1>5. SubSeq(c2s[c], k + 1, Len(c2s[c])) \in Seq(Chunk)
  <2>1. k + 1 \in Int /\ Len(c2s[c]) \in Int BY <1>2
  <2>2. \A i \in k + 1 .. Len(c2s[c]) : c2s[c][i] \in Chunk BY <1>1, <1>2, <1>3
  <2> QED BY <2>1, <2>2, SubSeqProperties
<1>6. c2s[c] # <<>>
  BY <1>1, <1>2
<1> QED BY <1>1, <1>4, <1>5, <1>6 DEF Text

\* A send leaves a connection in a state, and opens none that is not open.
LEMMA AfterSendType ==
    ASSUME NEW s \in ChanState
    PROVE  /\ AfterSend(s) \in ChanState
           /\ (AfterSend(s) = "up") <=> (s = "up")
           /\ (AfterSend(s) = "new") <=> (s = "new")
BY DEF ChanState, AfterSend

\* A broadcast appends messages, opens no connection, and goes on or ends the
\* process.
LEMMA BroadcastType ==
    ASSUME s2c \in [Conns -> Seq(Message)],
           NEW st \in [Conns -> ChanState], NEW m \in Message, NEW skip, NEW then,
           broadcast_buffer(skip, m, st, then)
    PROVE  /\ s2c' \in [Conns -> Seq(Message)]
           /\ chan' \in [Conns -> ChanState]
           /\ pc' \in {then, "killed"}
           /\ \A c \in Conns : (chan'[c] = "up" <=> st[c] = "up")
                                 /\ (chan'[c] = "new" <=> st[c] = "new")
<1> DEFINE R == Reached(skip, st)
<1> HIDE DEF R
<1>1. s2c' = [c \in Conns |-> IF c \in R /\ SendOk(st[c]) THEN Append(s2c[c], m) ELSE s2c[c]]
  BY DEF broadcast_buffer, R
<1>2. chan' = [c \in Conns |-> IF c \in R THEN AfterSend(st[c]) ELSE st[c]]
  BY DEF broadcast_buffer, R
<1>3. s2c' \in [Conns -> Seq(Message)]
  <2>1. \A c \in Conns : Append(s2c[c], m) \in Seq(Message) BY AppendProperties
  <2> QED BY <1>1, <2>1
<1>4. \A c \in Conns : /\ AfterSend(st[c]) \in ChanState
                       /\ (AfterSend(st[c]) = "up") <=> (st[c] = "up")
                       /\ (AfterSend(st[c]) = "new") <=> (st[c] = "new")
  BY AfterSendType
<1>5. chan' \in [Conns -> ChanState] BY <1>2, <1>4
<1>6. \A c \in Conns : (chan'[c] = "up" <=> st[c] = "up") /\ (chan'[c] = "new" <=> st[c] = "new")
  BY <1>2, <1>4
<1>7. pc' \in {then, "killed"} BY DEF broadcast_buffer
<1> QED BY <1>3, <1>5, <1>6, <1>7

\* There are MAX_CONNECTIONS slots.
LEMMA SlotsFinite ==
    IsFiniteSet(Slots) /\ Cardinality(Slots) = MAX_CONNECTIONS
BY FS_Interval, ServerAssumption DEF Slots

-----------------------------------------------------------------------------
(* The tables: types, agreement of the slots, room for the newcomer.       *)

\* main calls accept() only if the listen queue is not empty.
QueueNotEmpty == pc = "accept" => backlog # <<>>

\* The socket being set up is open, in no slot, and within the limit.
NewcomerFits ==
    pc = "name" => /\ new_socket \in Fds /\ fds[new_socket] # NULL
                   /\ \A j \in Occupied : client_sockets[j] # new_socket
                   /\ num_connections < MAX_CONNECTIONS

TablesInv == TypeOK /\ SlotsAgree /\ QueueNotEmpty /\ NewcomerFits

\* What the rest of the proof needs to know of a slot in use.
LEMMA OccupiedType ==
    ASSUME TablesInv, pc # "done", NEW j \in Occupied
    PROVE  /\ j \in Slots /\ client_sockets[j] \in Fds
           /\ Owner(j) \in Conns /\ usernames[j] \in Text
BY DEF TablesInv, TypeOK, SlotsAgree, Occupied, Owner

\* Adding the newcomer keeps the tables in agreement.
LEMMA AddClientTables ==
    ASSUME TablesInv, pc = "name", NEW st \in [Conns -> ChanState],
           inbuf' \in Text, AddClient(st)
    PROVE  /\ s2c' \in [Conns -> Seq(Message)]
           /\ chan' \in [Conns -> ChanState]
           /\ client_sockets' \in [Slots -> Fds \cup {-1}]
           /\ usernames' \in [Slots -> Text \cup {NULL}]
           /\ num_connections' \in 0 .. MAX_CONNECTIONS
           /\ new_socket' = -1 /\ pc' \in {"clients", "killed"}
           /\ UNCHANGED <<said, backlog, fds, sockset, idx>>
           /\ SlotsAgree'
<1> USE ServerAssumption
<1>1. PICK j \in Slots :
        /\ FirstFree(j)
        /\ client_sockets' = [client_sockets EXCEPT ![j] = new_socket]
        /\ usernames' = [usernames EXCEPT ![j] = inbuf']
        /\ num_connections' = num_connections + 1
        /\ broadcast_buffer(j, [kind |-> "joined", from |-> fds[new_socket], user |-> inbuf'],
                            st, "clients")
        /\ new_socket' = -1
        /\ UNCHANGED <<said, backlog, fds, sockset, idx>>
  BY DEF AddClient
<1>2. /\ new_socket \in Fds /\ fds[new_socket] \in Conns
      /\ \A k \in Occupied : client_sockets[k] # new_socket
      /\ num_connections + 1 \in 0 .. MAX_CONNECTIONS
  BY DEF TablesInv, TypeOK, NewcomerFits
<1>3. [kind |-> "joined", from |-> fds[new_socket], user |-> inbuf'] \in Message
  BY <1>2 DEF Message
<1>4. /\ s2c' \in [Conns -> Seq(Message)]
      /\ chan' \in [Conns -> ChanState]
      /\ pc' \in {"clients", "killed"}
  <2>1. s2c \in [Conns -> Seq(Message)] BY DEF TablesInv, TypeOK
  <2> QED BY <1>1, <1>3, <2>1, BroadcastType
<1>5. j \in Slots /\ j \notin Occupied
  BY <1>1 DEF FirstFree
<1>6. /\ client_sockets' \in [Slots -> Fds \cup {-1}]
      /\ usernames' \in [Slots -> Text \cup {NULL}]
      /\ num_connections' \in 0 .. MAX_CONNECTIONS
  BY <1>1, <1>2 DEF TablesInv, TypeOK
<1>7. Occupied' = Occupied \cup {j}
  BY <1>1, <1>2, <1>5 DEF TablesInv, TypeOK, Occupied
<1>8. SlotsAgree'
  <2>1. \A k \in Slots : client_sockets'[k] = -1 <=> usernames'[k] = NULL
    BY <1>1, <1>2, NullAssumption DEF TablesInv, TypeOK, SlotsAgree
  <2>2. \A k, l \in Occupied' : k # l => client_sockets'[k] # client_sockets'[l]
    BY <1>1, <1>2, <1>5, <1>7 DEF TablesInv, TypeOK, SlotsAgree, Occupied
  <2>3. \A k \in Occupied' : Owner(k)' # NULL
    BY <1>1, <1>2, <1>5, <1>7 DEF TablesInv, TypeOK, SlotsAgree, NewcomerFits, Occupied, Owner
  <2>4. num_connections' = Cardinality(Occupied')
    <3>1. IsFiniteSet(Occupied)
      BY SlotsFinite, FS_Subset DEF Occupied
    <3> QED BY <1>1, <1>5, <1>7, <3>1, FS_AddElement DEF TablesInv, SlotsAgree
  <2> QED BY <2>1, <2>2, <2>3, <2>4 DEF SlotsAgree
<1> QED BY <1>1, <1>4, <1>6, <1>8

\* Disconnecting a client keeps the tables in agreement.
LEMMA DisconnectTables ==
    ASSUME TablesInv, pc # "done", NEW j \in Occupied, disconnect_client(j)
    PROVE  /\ s2c' \in [Conns -> Seq(Message)]
           /\ chan' \in [Conns -> ChanState]
           /\ fds' \in [Fds -> Conns \cup {NULL}]
           /\ client_sockets' \in [Slots -> Fds \cup {-1}]
           /\ usernames' \in [Slots -> Text \cup {NULL}]
           /\ num_connections' \in 0 .. MAX_CONNECTIONS
           /\ pc' \in {"clients", "killed"}
           /\ SlotsAgree'
<1> USE ServerAssumption
<1> DEFINE st == [chan EXCEPT ![Owner(j)] = "closed"]
           m  == [kind |-> "left", from |-> Owner(j), user |-> usernames[j]]
<1>1. /\ j \in Slots /\ client_sockets[j] \in Fds
      /\ Owner(j) \in Conns /\ usernames[j] \in Text
  BY OccupiedType
<1>2. /\ s2c' \in [Conns -> Seq(Message)]
      /\ chan' \in [Conns -> ChanState]
      /\ pc' \in {"clients", "killed"}
  <2>1. st \in [Conns -> ChanState] /\ s2c \in [Conns -> Seq(Message)]
    BY DEF TablesInv, TypeOK, ChanState
  <2>2. m \in Message
    BY <1>1 DEF Message
  <2>3. broadcast_buffer(j, m, st, "clients")
    BY DEF disconnect_client
  <2> HIDE DEF st, m
  <2> QED BY <2>1, <2>2, <2>3, BroadcastType
<1>3. CASE UNCHANGED <<slotVars, fds>>
  <2>1. SlotsAgree'
    BY <1>3 DEF TablesInv, SlotsAgree, Occupied, Owner, slotVars
  <2> QED BY <1>2, <1>3, <2>1 DEF TablesInv, TypeOK, slotVars
<1>4. CASE /\ fds' = [fds EXCEPT ![client_sockets[j]] = NULL]
           /\ client_sockets' = [client_sockets EXCEPT ![j] = -1]
           /\ usernames' = [usernames EXCEPT ![j] = NULL]
           /\ num_connections' = num_connections - 1
  <2>1. Occupied' = Occupied \ {j}
    BY <1>1, <1>4 DEF TablesInv, TypeOK, Occupied
  <2>2. IsFiniteSet(Occupied) /\ num_connections = Cardinality(Occupied)
    BY SlotsFinite, FS_Subset DEF Occupied, TablesInv, SlotsAgree
  <2>3. num_connections' = Cardinality(Occupied')
    BY <1>4, <2>1, <2>2, FS_RemoveElement
  <2>4. Cardinality(Occupied') \in Nat
    BY <2>1, <2>2, FS_RemoveElement, FS_CardinalityType
  <2>5. num_connections' \in 0 .. MAX_CONNECTIONS
    BY <1>4, <2>3, <2>4 DEF TablesInv, TypeOK
  <2>6. /\ fds' \in [Fds -> Conns \cup {NULL}]
        /\ client_sockets' \in [Slots -> Fds \cup {-1}]
        /\ usernames' \in [Slots -> Text \cup {NULL}]
    BY <1>1, <1>4 DEF TablesInv, TypeOK
  <2>7. SlotsAgree'
    <3>1. \A k \in Slots : client_sockets'[k] = -1 <=> usernames'[k] = NULL
      BY <1>4 DEF TablesInv, TypeOK, SlotsAgree
    <3>2. \A k, l \in Occupied' : k # l => client_sockets'[k] # client_sockets'[l]
      BY <1>4, <2>1 DEF TablesInv, TypeOK, SlotsAgree, Occupied
    <3>3. \A k \in Occupied' : Owner(k)' # NULL
      BY <1>1, <1>4, <2>1 DEF TablesInv, TypeOK, SlotsAgree, Occupied, Owner
    <3> QED BY <2>3, <3>1, <3>2, <3>3 DEF SlotsAgree
  <2> QED BY <1>2, <2>5, <2>6, <2>7
<1> QED BY <1>3, <1>4 DEF disconnect_client

LEMMA TablesInit == Init => TablesInv
<1> SUFFICES ASSUME Init PROVE TablesInv OBVIOUS
<1> USE ServerAssumption
<1>1. Occupied = {}
  BY DEF Init, Occupied
<1>2. TypeOK
  BY DEF Init, TypeOK, ChanState, Text, ProgramPoint
<1>3. SlotsAgree
  BY <1>1, FS_EmptySet DEF Init, SlotsAgree
<1> QED BY <1>2, <1>3 DEF TablesInv, Init, QueueNotEmpty, NewcomerFits

\* A step that leaves the tables alone keeps them in agreement.
LEMMA TablesFrame ==
    ASSUME TablesInv, UNCHANGED <<slotVars, fds>>, pc # "done"
    PROVE  SlotsAgree'
BY DEF TablesInv, SlotsAgree, Occupied, Owner, slotVars

LEMMA TablesNext == TablesInv /\ [Next]_vars => TablesInv'
<1> SUFFICES ASSUME TablesInv, [Next]_vars PROVE TablesInv' OBVIOUS
<1> USE ServerAssumption
<1>1. ASSUME NEW c \in Conns, Connect(c) PROVE TablesInv'
  <2>1. pc # "done" /\ UNCHANGED <<slotVars, fds>> /\ backlog' = Append(backlog, c)
    BY <1>1 DEF Connect, Stopped, serverVars, slotVars
  <2>2. backlog' \in Seq(Conns) /\ backlog' # <<>>
    <3>1. backlog \in Seq(Conns) BY DEF TablesInv, TypeOK
    <3> QED BY <2>1, <3>1, AppendProperties
  <2>3. TypeOK'
    BY <1>1, <2>2 DEF Connect, serverVars, slotVars, TablesInv, TypeOK, ChanState
  <2> QED BY <1>1, <2>1, <2>2, <2>3, TablesFrame
       DEF Connect, serverVars, slotVars, TablesInv, QueueNotEmpty, NewcomerFits, Occupied
<1>2. ASSUME NEW c \in Conns, Say(c) PROVE TablesInv'
  <2>1. PICK b \in BOOLEAN :
          c2s' = [c2s EXCEPT ![c] = Append(@, [by |-> c, n |-> said[c] + 1, bye |-> b])]
    BY <1>2 DEF Say
  <2>2. said[c] + 1 \in Nat BY DEF TablesInv, TypeOK
  <2>3. [by |-> c, n |-> said[c] + 1, bye |-> b] \in Chunk BY <2>2 DEF Chunk
  <2>4. Append(c2s[c], [by |-> c, n |-> said[c] + 1, bye |-> b]) \in Seq(Chunk)
    BY <2>3, AppendProperties DEF TablesInv, TypeOK, Text
  <2>5. TypeOK'
    BY <1>2, <2>1, <2>2, <2>4 DEF Say, serverVars, slotVars, TablesInv, TypeOK, Text
  <2>6. pc # "done" /\ UNCHANGED <<slotVars, fds>>
    BY <1>2 DEF Say, Stopped, serverVars, slotVars
  <2> QED BY <1>2, <2>5, <2>6, TablesFrame
       DEF Say, serverVars, slotVars, TablesInv, QueueNotEmpty, NewcomerFits, Occupied
<1>3. ASSUME NEW c \in Conns, HangUp(c) \/ ResetArrives(c) PROVE TablesInv'
  <2>1. chan' \in [Conns -> ChanState]
    BY <1>3 DEF HangUp, ResetArrives, TablesInv, TypeOK, ChanState
  <2>2. TypeOK'
    BY <1>3, <2>1 DEF HangUp, ResetArrives, serverVars, slotVars, TablesInv, TypeOK
  <2>3. pc # "done" /\ UNCHANGED <<slotVars, fds>>
    BY <1>3 DEF HangUp, ResetArrives, Stopped, serverVars, slotVars
  <2> QED BY <1>3, <2>2, <2>3, TablesFrame
       DEF HangUp, ResetArrives, serverVars, slotVars, TablesInv, QueueNotEmpty, NewcomerFits, Occupied
<1>4. ASSUME Sigint \/ SigintInSelect \/ LeaveLoop \/ SkipAccept \/ AcceptFails PROVE TablesInv'
  <2>1. TypeOK'
    BY <1>4 DEF Sigint, SigintInSelect, LeaveLoop, SkipAccept, AcceptFails,
         netVars, serverVars, slotVars, TablesInv, TypeOK, ProgramPoint
  <2>2. pc # "done" /\ UNCHANGED <<slotVars, fds>>
    BY <1>4 DEF Sigint, SigintInSelect, LeaveLoop, SkipAccept, AcceptFails,
         Stopped, serverVars, slotVars
  <2> QED BY <1>4, <2>1, <2>2, TablesFrame
       DEF Sigint, SigintInSelect, LeaveLoop, SkipAccept, AcceptFails, netVars,
           serverVars, slotVars, TablesInv, QueueNotEmpty, NewcomerFits, Occupied
<1>5. ASSUME BeginSelect \/ SelectReturns \/ SkipSlot \/ EndOfSlots PROVE TablesInv'
  <2>1. TypeOK'
    <3>1. sockset' \subseteq Fds
      <4>1. CASE BeginSelect
        <5>1. \A j \in Occupied : client_sockets[j] \in Fds
          BY DEF TablesInv, TypeOK, Occupied
        <5> QED BY <4>1, <5>1 DEF BeginSelect
      <4>2. CASE SelectReturns
        BY <4>2 DEF SelectReturns, TablesInv, TypeOK
      <4> QED BY <1>5, <4>1, <4>2 DEF SkipSlot, EndOfSlots, TablesInv, TypeOK
    <3>2. idx' \in 0 .. MAX_CONNECTIONS
      BY <1>5 DEF BeginSelect, SelectReturns, SkipSlot, EndOfSlots, AtSlot, TablesInv, TypeOK
    <3>3. pc' \in ProgramPoint
      BY <1>5 DEF BeginSelect, SelectReturns, SkipSlot, EndOfSlots, TablesInv, TypeOK, ProgramPoint
    <3> QED BY <1>5, <3>1, <3>2, <3>3
         DEF BeginSelect, SelectReturns, SkipSlot, EndOfSlots, netVars, slotVars, TablesInv, TypeOK
  <2>2. pc # "done" /\ UNCHANGED <<slotVars, fds>>
    BY <1>5 DEF BeginSelect, SelectReturns, SkipSlot, EndOfSlots, AtSlot, slotVars
  <2> QED BY <1>5, <2>1, <2>2, TablesFrame
       DEF BeginSelect, SelectReturns, SkipSlot, EndOfSlots, AtSlot, netVars, slotVars,
           TablesInv, QueueNotEmpty, NewcomerFits, Occupied
<1>6. CASE Refuse
  <2>1. backlog \in Seq(Conns) /\ backlog # <<>>
    BY <1>6 DEF Refuse, TablesInv, TypeOK, QueueNotEmpty
  <2>2. Tail(backlog) \in Seq(Conns) /\ Head(backlog) \in Conns
    BY <2>1, HeadTailProperties
  <2>3. TypeOK'
    BY <1>6, <2>2 DEF Refuse, serverVars, slotVars, TablesInv, TypeOK, ChanState, ProgramPoint
  <2>4. pc # "done" /\ UNCHANGED <<slotVars, fds>>
    BY <1>6 DEF Refuse, serverVars, slotVars
  <2> QED BY <1>6, <2>3, <2>4, TablesFrame DEF Refuse, TablesInv, QueueNotEmpty, NewcomerFits
<1>7. CASE Welcome
  <2> DEFINE c == Head(backlog)
  <2>1. backlog \in Seq(Conns) /\ backlog # <<>>
    BY <1>7 DEF Welcome, TablesInv, TypeOK, QueueNotEmpty
  <2>2. Tail(backlog) \in Seq(Conns) /\ c \in Conns
    BY <2>1, HeadTailProperties
  <2>3. PICK f \in Fds :
          /\ f \in FreeFds
          /\ fds' = [fds EXCEPT ![f] = c]
          /\ s2c' = IF SendOk(chan[c])
                      THEN [s2c EXCEPT ![c] = Append(@, create_welcome_msg)]
                      ELSE s2c
          /\ chan' = [chan EXCEPT ![c] = AfterSend(@)]
          /\ new_socket' = f
    BY <1>7 DEF Welcome, LowestFree
  <2>4. Roster \in SUBSET (Conns \X Text)
    <3>1. \A j \in Occupied : Owner(j) \in Conns /\ usernames[j] \in Text
      BY <1>7, OccupiedType DEF Welcome
    <3> QED BY <3>1 DEF Roster
  <2>5. create_welcome_msg \in Message
    BY <2>4 DEF create_welcome_msg, Message
  <2>6. s2c' \in [Conns -> Seq(Message)]
    <3>1. Append(s2c[c], create_welcome_msg) \in Seq(Message)
      BY <2>2, <2>5, AppendProperties DEF TablesInv, TypeOK
    <3> QED BY <2>2, <2>3, <3>1 DEF TablesInv, TypeOK
  <2>7. chan' \in [Conns -> ChanState]
    BY <2>2, <2>3, AfterSendType DEF TablesInv, TypeOK
  <2>8. TypeOK'
    BY <1>7, <2>2, <2>3, <2>6, <2>7 DEF Welcome, slotVars, TablesInv, TypeOK, ProgramPoint
  <2>9. Occupied' = Occupied /\ \A j \in Occupied : client_sockets[j] # f
    BY <1>7, <2>3 DEF Welcome, slotVars, TablesInv, SlotsAgree, Occupied, Owner, FreeFds
  <2>10. SlotsAgree'
    BY <1>7, <2>2, <2>3, <2>9 DEF Welcome, slotVars, TablesInv, SlotsAgree, TypeOK, Occupied, Owner
  <2>11. NewcomerFits' /\ QueueNotEmpty'
    BY <1>7, <2>2, <2>3, <2>9 DEF Welcome, slotVars, TablesInv, TypeOK, Full, NewcomerFits,
         QueueNotEmpty
  <2> QED BY <2>8, <2>10, <2>11 DEF TablesInv
<1>8. ASSUME pc = "name", NEW st \in [Conns -> ChanState], AddClient(st),
             inbuf' \in Text, c2s' \in [Conns -> Text], running' \in BOOLEAN
      PROVE  TablesInv'
  <2>1. TypeOK' /\ SlotsAgree' /\ pc' \in {"clients", "killed"}
    BY <1>8, AddClientTables DEF TablesInv, TypeOK, ProgramPoint
  <2> QED BY <2>1 DEF TablesInv, QueueNotEmpty, NewcomerFits
<1>9. CASE NameReceived
  <2>1. fds[new_socket] \in Conns
    BY <1>9 DEF NameReceived, TablesInv, TypeOK, NewcomerFits
  <2>2. inbuf' \in Text /\ c2s' \in [Conns -> Text]
    BY <1>9, <2>1, ReceiveType DEF NameReceived, TablesInv, TypeOK
  <2> QED BY <1>8, <1>9, <2>2 DEF NameReceived, TablesInv, TypeOK
<1>10. CASE NameReset
  <2>1. [chan EXCEPT ![fds[new_socket]] = "reset"] \in [Conns -> ChanState]
    BY DEF TablesInv, TypeOK, ChanState
  <2> QED BY <1>8, <1>10, <2>1 DEF NameReset, TablesInv, TypeOK
<1>11. CASE NameInterrupted
  BY <1>8, <1>11 DEF NameInterrupted, TablesInv, TypeOK
<1>12. CASE NameHangUp
  <2>1. TypeOK'
    BY <1>12 DEF NameHangUp, netVars, slotVars, TablesInv, TypeOK, ProgramPoint
  <2> QED BY <1>12, <2>1, TablesFrame
       DEF NameHangUp, netVars, slotVars, TablesInv, QueueNotEmpty, NewcomerFits
<1>13. ASSUME AtSlot, idx \in Occupied, disconnect_client(idx), idx' = idx + 1,
              inbuf' \in Text, c2s' \in [Conns -> Text], handlerUnchanged
       PROVE  TablesInv'
  <2>1. pc # "done" /\ idx' \in 0 .. MAX_CONNECTIONS
    BY <1>13 DEF AtSlot, TablesInv, TypeOK
  <2>2. TypeOK' /\ SlotsAgree' /\ pc' \in {"clients", "killed"}
    BY <1>13, <2>1, DisconnectTables DEF handlerUnchanged, TablesInv, TypeOK, ProgramPoint
  <2> QED BY <2>2 DEF TablesInv, QueueNotEmpty, NewcomerFits
<1>14. ASSUME AtSlot, Selected(idx) PROVE idx \in Occupied /\ Owner(idx) \in Conns /\ usernames[idx] \in Text
  BY <1>14, OccupiedType DEF AtSlot, Selected
<1>15. CASE ClientBye
  <2>1. inbuf' \in Text /\ c2s' \in [Conns -> Text]
    BY <1>14, <1>15, ReceiveType DEF ClientBye, TablesInv, TypeOK
  <2> QED BY <1>13, <1>14, <1>15, <2>1 DEF ClientBye
<1>16. CASE ClientClosed
  BY <1>13, <1>14, <1>16 DEF ClientClosed, TablesInv, TypeOK
<1>17. CASE ClientText
  <2> DEFINE m == [kind |-> "chat", from |-> Owner(idx), user |-> usernames[idx], text |-> inbuf']
  <2>1. inbuf' \in Text /\ c2s' \in [Conns -> Text]
    BY <1>14, <1>17, ReceiveType DEF ClientText, TablesInv, TypeOK
  <2>2. m \in Message
    BY <1>14, <1>17, <2>1 DEF ClientText, Message
  <2>3. broadcast_buffer(idx, m, chan, "clients")
    BY <1>17 DEF ClientText
  <2>4. chan \in [Conns -> ChanState] /\ s2c \in [Conns -> Seq(Message)]
    BY DEF TablesInv, TypeOK
  <2> HIDE DEF m
  <2>5. /\ s2c' \in [Conns -> Seq(Message)] /\ chan' \in [Conns -> ChanState]
        /\ pc' \in {"clients", "killed"}
    BY <2>2, <2>3, <2>4, BroadcastType
  <2>6. TypeOK'
    BY <1>17, <2>1, <2>5 DEF ClientText, AtSlot, handlerUnchanged, slotVars, TablesInv, TypeOK, ProgramPoint
  <2> QED BY <1>17, <2>5, <2>6, TablesFrame
       DEF ClientText, AtSlot, TablesInv, QueueNotEmpty, NewcomerFits
<1>18. CASE ClientError
  <2>1. TypeOK'
    <3>1. idx' \in 0 .. MAX_CONNECTIONS
      BY <1>18 DEF ClientError, AtSlot, TablesInv, TypeOK
    <3>2. chan' \in [Conns -> ChanState]
      BY <1>18 DEF ClientError, TablesInv, TypeOK, ChanState
    <3> QED BY <1>18, <3>1, <3>2 DEF ClientError, handlerUnchanged, slotVars, TablesInv, TypeOK
  <2> QED BY <1>18, <2>1, TablesFrame
       DEF ClientError, AtSlot, TablesInv, QueueNotEmpty, NewcomerFits
<1>19. CASE SayBye
  <2>1. [kind |-> "bye"] \in Message BY DEF Message
  <2>2. /\ s2c' \in [Conns -> Seq(Message)] /\ chan' \in [Conns -> ChanState]
        /\ pc' \in {"closing", "killed"}
    BY <1>19, <2>1, BroadcastType DEF SayBye, TablesInv, TypeOK
  <2>3. TypeOK'
    BY <1>19, <2>2 DEF SayBye, serverVars, slotVars, TablesInv, TypeOK, ProgramPoint
  <2> QED BY <1>19, <2>2, <2>3, TablesFrame
       DEF SayBye, serverVars, TablesInv, QueueNotEmpty, NewcomerFits
<1>20. CASE CloseAll
  <2>1. TypeOK'
    BY <1>20 DEF CloseAll, slotVars, TablesInv, TypeOK, ChanState, ProgramPoint
  <2>2. SlotsAgree'
    BY <1>20 DEF CloseAll, slotVars, TablesInv, SlotsAgree, Occupied
  <2> QED BY <1>20, <2>1, <2>2 DEF CloseAll, TablesInv, QueueNotEmpty, NewcomerFits
<1>21. CASE UNCHANGED vars
  BY <1>21 DEF vars, netVars, slotVars, TablesInv, TypeOK, SlotsAgree, QueueNotEmpty,
       NewcomerFits, Occupied, Owner
<1> QED
  BY <1>1, <1>2, <1>3, <1>4, <1>5, <1>6, <1>7, <1>9, <1>10, <1>11, <1>12, <1>15, <1>16,
     <1>17, <1>18, <1>19, <1>20, <1>21 DEF Next, Server, Environment

\* The tables are consistent in every reachable state.
THEOREM TablesConsistent == Spec => []TablesInv
BY TablesInit, TablesNext, PTL DEF Spec

\* The types of the variables: descriptors, names and streams hold only what
\* the code puts there, and num_connections never leaves 0 .. MAX_CONNECTIONS.
THEOREM TypeCorrect == Spec => []TypeOK
<1>1. TablesInv => TypeOK BY DEF TablesInv
<1> QED BY <1>1, TablesConsistent, PTL

\* client_sockets, usernames, num_connections and the descriptor table agree.
THEOREM SlotsAlwaysAgree == Spec => []SlotsAgree
<1>1. TablesInv => SlotsAgree BY DEF TablesInv
<1> QED BY <1>1, TablesConsistent, PTL

\* The search for a free slot succeeds for every newcomer that named itself.
THEOREM NewcomerHasRoom == Spec => []RoomForNewcomer
<1>1. TablesInv => RoomForNewcomer
  <2>1. TablesInv /\ pc = "name" => Occupied # Slots
    BY SlotsFinite, ServerAssumption DEF TablesInv, TypeOK, SlotsAgree, NewcomerFits
  <2> QED BY <2>1 DEF TablesInv, NewcomerFits, RoomForNewcomer
<1> QED BY <1>1, TablesConsistent, PTL

-----------------------------------------------------------------------------
(* handle_client_socket never waits in recv(): what select() said of a     *)
(* descriptor stays true of the slot that holds it when it is read.        *)

\* A connection is behind one descriptor or in the queue once, and the kernel
\* has completed its handshake before.
OwnedOnce ==
    /\ \A f, g \in Fds : fds[f] = fds[g] /\ fds[f] # NULL => f = g
    /\ \A i, k \in 1 .. Len(backlog) : backlog[i] = backlog[k] => i = k
    /\ \A f \in Fds, i \in 1 .. Len(backlog) : fds[f] # backlog[i]
    /\ \A f \in Fds : fds[f] # NULL => chan[fds[f]] # "new"
    /\ \A i \in 1 .. Len(backlog) : chan[backlog[i]] # "new"

\* sockset holds descriptors of slots only, so never the newcomer's.
SetOfSlots ==
    /\ pc \in {"select", "accept"} => sockset \subseteq {client_sockets[j] : j \in Occupied}
    /\ pc = "name" => new_socket \notin sockset

\* What select() reported and has not been handled yet can still be read.
StillReadable ==
    pc \in {"accept", "name", "clients"} =>
        \A j \in Occupied : (pc = "clients" => j >= idx) /\ client_sockets[j] \in sockset
                              => Readable(Owner(j))

ReadInv == OwnedOnce /\ SetOfSlots /\ StillReadable

-----------------------------------------------------------------------------
(* What a step may do to the connections.                                  *)

\* No connection goes back to "new", and none that is not up becomes so after
\* it was opened.
LEMMA ChanForward ==
    ASSUME TablesInv, [Next]_vars, NEW c \in Conns
    PROVE  /\ chan'[c] = "new" => chan[c] = "new"
           /\ chan[c] # "new" /\ chan'[c] = "up" => chan[c] = "up"
<1> DEFINE Goal == /\ chan'[c] = "new" => chan[c] = "new"
                   /\ chan[c] # "new" /\ chan'[c] = "up" => chan[c] = "up"
<1> SUFFICES Goal OBVIOUS
<1>1. chan \in [Conns -> ChanState] /\ s2c \in [Conns -> Seq(Message)] /\ chan[c] \in ChanState
  BY DEF TablesInv, TypeOK
<1>2. CASE chan' = chan
  BY <1>2
<1>3. ASSUME NEW d \in Conns, Connect(d) \/ HangUp(d) \/ ResetArrives(d) PROVE Goal
  BY <1>1, <1>3 DEF Connect, HangUp, ResetArrives
<1>4. CASE Refuse
  BY <1>1, <1>4 DEF Refuse
<1>5. CASE Welcome
  <2>1. chan' = [chan EXCEPT ![Head(backlog)] = AfterSend(@)]
    BY <1>5 DEF Welcome
  <2> QED BY <1>1, <2>1, AfterSendType
<1>6. ASSUME NEW st \in [Conns -> ChanState], NEW m \in Message, NEW skip, NEW then,
             st[c] = chan[c] \/ st[c] \in {"closed", "reset"},
             broadcast_buffer(skip, m, st, then)
      PROVE  Goal
  BY <1>1, <1>6, BroadcastType
<1>7. ASSUME pc = "name", NEW st \in [Conns -> ChanState], st[c] = chan[c] \/ st[c] = "reset",
             inbuf' \in Text, AddClient(st)
      PROVE  Goal
  <2>1. [kind |-> "joined", from |-> fds[new_socket], user |-> inbuf'] \in Message
    BY <1>7 DEF TablesInv, TypeOK, NewcomerFits, Message
  <2>2. PICK j \in Slots :
          broadcast_buffer(j, [kind |-> "joined", from |-> fds[new_socket], user |-> inbuf'],
                           st, "clients")
    BY <1>7 DEF AddClient
  <2> QED BY <1>6, <1>7, <2>1, <2>2
<1>8. CASE NameReceived
  <2>1. fds[new_socket] \in Conns /\ c2s \in [Conns -> Text] /\ pc = "name"
    BY <1>8 DEF NameReceived, TablesInv, TypeOK, NewcomerFits
  <2>2. inbuf' \in Text
    BY <1>8, <2>1, ReceiveType DEF NameReceived
  <2> QED BY <1>1, <1>7, <1>8, <2>1, <2>2 DEF NameReceived
<1>9. CASE NameReset
  <2> DEFINE st == [chan EXCEPT ![fds[new_socket]] = "reset"]
  <2>1. st \in [Conns -> ChanState] /\ (st[c] = chan[c] \/ st[c] = "reset")
    BY <1>1 DEF ChanState
  <2>2. AddClient(st) /\ inbuf' \in Text /\ pc = "name"
    BY <1>9 DEF NameReset, TablesInv, TypeOK
  <2> HIDE DEF st
  <2> QED BY <1>7, <2>1, <2>2
<1>10. CASE NameInterrupted
  BY <1>1, <1>7, <1>10 DEF NameInterrupted, TablesInv, TypeOK
<1>11. ASSUME pc = "clients", NEW j \in Occupied, disconnect_client(j) PROVE Goal
  <2> DEFINE st == [chan EXCEPT ![Owner(j)] = "closed"]
             m  == [kind |-> "left", from |-> Owner(j), user |-> usernames[j]]
  <2>1. st \in [Conns -> ChanState] /\ (st[c] = chan[c] \/ st[c] = "closed")
    BY <1>1 DEF ChanState
  <2>2. m \in Message
    BY <1>11, OccupiedType DEF Message
  <2>3. broadcast_buffer(j, m, st, "clients")
    BY <1>11 DEF disconnect_client
  <2> HIDE DEF st, m
  <2> QED BY <1>6, <2>1, <2>2, <2>3
<1>12. CASE ClientBye \/ ClientClosed
  BY <1>11, <1>12 DEF ClientBye, ClientClosed, AtSlot, Selected
<1>13. CASE ClientText
  <2> DEFINE m == [kind |-> "chat", from |-> Owner(idx), user |-> usernames[idx], text |-> inbuf']
  <2>1. Owner(idx) \in Conns /\ usernames[idx] \in Text /\ c2s \in [Conns -> Text]
    BY <1>13, OccupiedType DEF ClientText, AtSlot, Selected, TablesInv, TypeOK
  <2>2. m \in Message
    BY <1>13, <2>1, ReceiveType DEF ClientText, Message
  <2>3. broadcast_buffer(idx, m, chan, "clients")
    BY <1>13 DEF ClientText
  <2> HIDE DEF m
  <2> QED BY <1>1, <1>6, <2>2, <2>3
<1>14. CASE ClientError
  BY <1>1, <1>14 DEF ClientError
<1>15. CASE SayBye
  <2>1. [kind |-> "bye"] \in Message BY DEF Message
  <2> QED BY <1>1, <1>6, <1>15, <2>1 DEF SayBye
<1>16. CASE CloseAll
  BY <1>1, <1>16 DEF CloseAll
<1>17. ASSUME NEW d \in Conns, Say(d) PROVE chan' = chan
  BY <1>17 DEF Say
<1>18. CASE \/ Sigint \/ SigintInSelect \/ BeginSelect \/ LeaveLoop \/ SelectReturns
            \/ SkipAccept \/ AcceptFails \/ NameHangUp \/ SkipSlot \/ EndOfSlots
            \/ UNCHANGED vars
  <2>1. chan' = chan
    BY <1>18 DEF Sigint, SigintInSelect, BeginSelect, LeaveLoop, SelectReturns, SkipAccept,
         AcceptFails, NameHangUp, SkipSlot, EndOfSlots, vars, netVars
  <2> QED BY <1>2, <2>1
<1> QED
  BY <1>2, <1>3, <1>4, <1>5, <1>8, <1>9, <1>10, <1>12, <1>13, <1>14, <1>15, <1>16, <1>17,
     <1>18 DEF Next, Server, Environment

\* The actions that touch neither the queue nor the descriptor table.
LEMMA QuietSteps ==
    ASSUME [Next]_vars
    PROVE  \/ UNCHANGED <<backlog, fds>>
           \/ \E c \in Conns : Connect(c)
           \/ Refuse \/ Welcome \/ CloseAll
           \/ AtSlot /\ Selected(idx) /\ disconnect_client(idx) /\ handlerUnchanged
                /\ idx' = idx + 1 /\ (ClientBye \/ ClientClosed)
<1>1. ASSUME NEW c \in Conns, Say(c) \/ HangUp(c) \/ ResetArrives(c)
      PROVE  UNCHANGED <<backlog, fds>>
  BY <1>1 DEF Say, HangUp, ResetArrives, serverVars
<1>2. CASE \/ Sigint \/ SigintInSelect \/ BeginSelect \/ LeaveLoop \/ SelectReturns
           \/ SkipAccept \/ AcceptFails \/ NameHangUp \/ SkipSlot \/ EndOfSlots
           \/ UNCHANGED vars
  BY <1>2 DEF Sigint, SigintInSelect, BeginSelect, LeaveLoop, SelectReturns, SkipAccept,
       AcceptFails, NameHangUp, SkipSlot, EndOfSlots, vars, netVars, serverVars
<1>3. CASE NameReceived \/ NameReset \/ NameInterrupted
  BY <1>3 DEF NameReceived, NameReset, NameInterrupted, AddClient
<1>4. CASE ClientText \/ ClientError \/ SayBye
  BY <1>4 DEF ClientText, ClientError, SayBye, handlerUnchanged, serverVars
<1>5. CASE ClientBye \/ ClientClosed
  BY <1>5 DEF ClientBye, ClientClosed
<1> QED BY <1>1, <1>2, <1>3, <1>4, <1>5 DEF Next, Server, Environment

LEMMA OwnedOnceNext == TablesInv /\ OwnedOnce /\ [Next]_vars => OwnedOnce'
<1> SUFFICES ASSUME TablesInv, OwnedOnce, [Next]_vars PROVE OwnedOnce' OBVIOUS
<1>1. /\ backlog \in Seq(Conns) /\ Len(backlog) \in Nat
      /\ \A i \in 1 .. Len(backlog) : backlog[i] \in Conns
      /\ fds \in [Fds -> Conns \cup {NULL}] /\ NULL \notin Conns
  BY ElementOfSeq, ServerAssumption DEF TablesInv, TypeOK
<1>2. \A c \in Conns : chan'[c] = "new" => chan[c] = "new"
  BY ChanForward
<1>3. CASE UNCHANGED <<backlog, fds>>
  BY <1>1, <1>2, <1>3 DEF OwnedOnce
<1>4. ASSUME NEW c \in Conns, Connect(c) PROVE OwnedOnce'
  <2>1. /\ Len(backlog') = Len(backlog) + 1 /\ backlog'[Len(backlog) + 1] = c
        /\ \A i \in 1 .. Len(backlog) : backlog'[i] = backlog[i]
        /\ chan[c] = "new" /\ chan'[c] # "new" /\ fds' = fds
    <3>1. backlog' = Append(backlog, c) /\ chan[c] = "new" /\ fds' = fds
      BY <1>4 DEF Connect, serverVars
    <3>2. chan'[c] # "new"
      BY <1>4 DEF Connect, TablesInv, TypeOK
    <3> QED BY <1>1, <3>1, <3>2, AppendProperties
  <2>2. \A i \in 1 .. Len(backlog') : i = Len(backlog) + 1 \/ i \in 1 .. Len(backlog)
    BY <1>1, <2>1
  <2>3. \A i, k \in 1 .. Len(backlog') : backlog'[i] = backlog'[k] => i = k
    BY <2>1, <2>2 DEF OwnedOnce
  <2>4. \A f \in Fds, i \in 1 .. Len(backlog') : fds'[f] # backlog'[i]
    BY <1>1, <1>4, <2>1, <2>2, ServerAssumption DEF OwnedOnce
  <2>5. \A f \in Fds : fds'[f] # NULL => chan'[fds'[f]] # "new"
    BY <1>1, <1>2, <2>1 DEF OwnedOnce
  <2>6. \A i \in 1 .. Len(backlog') : chan'[backlog'[i]] # "new"
    BY <1>1, <1>2, <2>1, <2>2 DEF OwnedOnce
  <2> QED BY <2>1, <2>3, <2>4, <2>5, <2>6 DEF OwnedOnce
<1>5. ASSUME backlog # <<>>, backlog' = Tail(backlog)
      PROVE  /\ Head(backlog) = backlog[1] /\ Head(backlog) \in Conns
             /\ Len(backlog') = Len(backlog) - 1
             /\ \A i \in 1 .. Len(backlog') : /\ backlog'[i] = backlog[i + 1]
                                              /\ i + 1 \in 1 .. Len(backlog)
             /\ 1 \in 1 .. Len(backlog)
  BY <1>1, <1>5, HeadTailProperties
<1>6. CASE Refuse
  <2>1. backlog # <<>> /\ backlog' = Tail(backlog) /\ fds' = fds
    BY <1>6 DEF Refuse, TablesInv, QueueNotEmpty, serverVars
  <2>2. \A i, k \in 1 .. Len(backlog') : backlog'[i] = backlog'[k] => i = k
    BY <1>1, <1>5, <2>1 DEF OwnedOnce
  <2>3. \A f \in Fds, i \in 1 .. Len(backlog') : fds'[f] # backlog'[i]
    BY <1>5, <2>1 DEF OwnedOnce
  <2>4. \A f \in Fds : fds'[f] # NULL => chan'[fds'[f]] # "new"
    BY <1>1, <1>2, <2>1 DEF OwnedOnce
  <2>5. \A i \in 1 .. Len(backlog') : chan'[backlog'[i]] # "new"
    BY <1>1, <1>2, <1>5, <2>1 DEF OwnedOnce
  <2> QED BY <2>1, <2>2, <2>3, <2>4, <2>5 DEF OwnedOnce
<1>7. CASE Welcome
  <2>1. PICK g \in Fds : g \in FreeFds /\ fds' = [fds EXCEPT ![g] = Head(backlog)]
    BY <1>7 DEF Welcome, LowestFree
  <2>2. backlog # <<>> /\ backlog' = Tail(backlog)
    BY <1>7 DEF Welcome, TablesInv, QueueNotEmpty
  <2>3. \A f \in Fds : fds'[f] = IF f = g THEN backlog[1] ELSE fds[f]
    BY <1>1, <1>5, <2>1, <2>2
  <2>4. \A f, h \in Fds : fds'[f] = fds'[h] /\ fds'[f] # NULL => f = h
    BY <1>5, <2>2, <2>3 DEF OwnedOnce
  <2>5. \A i, k \in 1 .. Len(backlog') : backlog'[i] = backlog'[k] => i = k
    BY <1>1, <1>5, <2>2 DEF OwnedOnce
  <2>6. \A f \in Fds, i \in 1 .. Len(backlog') : fds'[f] # backlog'[i]
    <3>1. \A i \in 1 .. Len(backlog') : i + 1 # 1 BY <1>1
    <3> QED BY <1>5, <2>2, <2>3, <3>1 DEF OwnedOnce
  <2>7. \A f \in Fds : fds'[f] # NULL => chan'[fds'[f]] # "new"
    BY <1>1, <1>2, <1>5, <2>2, <2>3 DEF OwnedOnce
  <2>8. \A i \in 1 .. Len(backlog') : chan'[backlog'[i]] # "new"
    BY <1>1, <1>2, <1>5, <2>2 DEF OwnedOnce
  <2> QED BY <2>4, <2>5, <2>6, <2>7, <2>8 DEF OwnedOnce
<1>8. ASSUME UNCHANGED backlog, \A f \in Fds : fds'[f] \in {fds[f], NULL} PROVE OwnedOnce'
  <2>1. \A f \in Fds, i \in 1 .. Len(backlog) : fds'[f] # backlog[i]
    BY <1>1, <1>8 DEF OwnedOnce
  <2> QED BY <1>1, <1>2, <1>8, <2>1 DEF OwnedOnce
<1>9. CASE CloseAll
  BY <1>8, <1>9 DEF CloseAll
<1>10. CASE AtSlot /\ Selected(idx) /\ disconnect_client(idx) /\ handlerUnchanged
  BY <1>1, <1>8, <1>10 DEF disconnect_client, handlerUnchanged
<1> QED BY <1>3, <1>4, <1>6, <1>7, <1>9, <1>10, QuietSteps

\* A connection stays readable until somebody takes what it sent.
LEMMA ReadableStays ==
    ASSUME TablesInv, [Next]_vars, NEW c \in Conns, chan[c] # "new", Readable(c),
           c2s[c] # <<>> => c2s'[c] # <<>>
    PROVE  Readable(c)'
<1>1. chan'[c] = "up" => chan[c] = "up" BY ChanForward
<1> QED BY <1>1 DEF Readable

\* A pass that has a slot still before it after a step had it before the step,
\* with the same readable connection.
LEMMA ReadableFrame ==
    ASSUME TablesInv, OwnedOnce, StillReadable, [Next]_vars,
           pc \in {"accept", "name", "clients"},
           \A j \in Occupied' :
              client_sockets'[j] \in sockset' /\ (pc' = "clients" => j >= idx')
                => /\ j \in Occupied /\ client_sockets'[j] = client_sockets[j]
                   /\ client_sockets[j] \in sockset /\ (pc = "clients" => j >= idx)
                   /\ fds'[client_sockets[j]] = fds[client_sockets[j]]
                   /\ c2s[Owner(j)] # <<>> => c2s'[Owner(j)] # <<>>
    PROVE  StillReadable'
<1> SUFFICES ASSUME NEW j \in Occupied', pc' = "clients" => j >= idx',
                    client_sockets'[j] \in sockset'
             PROVE  Readable(Owner(j))'
  BY DEF StillReadable
<1>1. /\ j \in Occupied /\ client_sockets[j] \in sockset /\ (pc = "clients" => j >= idx)
      /\ Owner(j)' = Owner(j)
      /\ c2s[Owner(j)] # <<>> => c2s'[Owner(j)] # <<>>
  BY DEF Owner
<1>2. Owner(j) \in Conns /\ client_sockets[j] \in Fds
  BY <1>1, OccupiedType
<1>3. Owner(j) # NULL /\ chan[Owner(j)] # "new"
  BY <1>2, ServerAssumption DEF OwnedOnce, Owner
<1>4. Readable(Owner(j)) BY <1>1 DEF StillReadable
<1>5. \A c \in Conns : chan[c] # "new" /\ Readable(c) /\ (c2s[c] # <<>> => c2s'[c] # <<>>)
                         => Readable(c)'
  BY ReadableStays
<1>6. c2s'[Owner(j)] # <<>> \/ chan'[Owner(j)] # "up"
  BY <1>1, <1>2, <1>3, <1>4, <1>5 DEF Readable
<1> QED BY <1>1, <1>6 DEF Readable

\* Different slots belong to different connections.
LEMMA OwnersDiffer ==
    ASSUME TablesInv, OwnedOnce, pc # "done", NEW j \in Occupied, NEW k \in Occupied, j # k
    PROVE  Owner(j) # Owner(k)
BY OccupiedType DEF TablesInv, SlotsAgree, OwnedOnce, Owner

LEMMA StillReadableNext ==
    TablesInv /\ ReadInv /\ [Next]_vars => StillReadable'
<1> SUFFICES ASSUME TablesInv, ReadInv, [Next]_vars PROVE StillReadable' OBVIOUS
<1> USE DEF ReadInv
<1>1. ASSUME NEW c \in Conns, Connect(c) \/ Say(c) \/ HangUp(c) \/ ResetArrives(c)
      PROVE  StillReadable'
  <2>1. UNCHANGED <<slotVars, fds, sockset, idx, pc>>
    BY <1>1 DEF Connect, Say, HangUp, ResetArrives, serverVars, slotVars
  <2>2. \A d \in Conns : c2s[d] # <<>> => c2s'[d] # <<>>
    <3>1. CASE Say(c)
      <4>1. PICK b \in BOOLEAN :
              c2s' = [c2s EXCEPT ![c] = Append(@, [by |-> c, n |-> said[c] + 1, bye |-> b])]
        BY <3>1 DEF Say
      <4>2. [by |-> c, n |-> said[c] + 1, bye |-> b] \in Chunk
        BY DEF Chunk, TablesInv, TypeOK
      <4>3. Append(c2s[c], [by |-> c, n |-> said[c] + 1, bye |-> b]) # <<>>
        <5>1. c2s[c] \in Seq(Chunk) BY DEF TablesInv, TypeOK, Text
        <5> QED BY <4>2, <5>1, AppendProperties
      <4> QED BY <4>1, <4>3 DEF TablesInv, TypeOK
    <3> QED BY <1>1, <3>1 DEF Connect, HangUp, ResetArrives
  <2>3. CASE pc \in {"accept", "name", "clients"}
    <3>1. Occupied' = Occupied BY <2>1 DEF Occupied, slotVars
    <3>2. \A j \in Occupied : Owner(j) \in Conns BY <2>3, OccupiedType
    <3> QED BY <2>1, <2>2, <2>3, <3>1, <3>2, ReadableFrame DEF slotVars
  <2> QED BY <2>1, <2>3 DEF StillReadable
<1>2. CASE Sigint \/ SkipAccept \/ SkipSlot \/ NameHangUp
  <2>1. /\ UNCHANGED <<slotVars, fds, sockset, c2s>>
        /\ pc' \in {"accept", "name", "clients"} => pc \in {"accept", "name", "clients"}
    BY <1>2 DEF Sigint, SkipAccept, SkipSlot, NameHangUp, AtSlot, netVars, serverVars, slotVars
  <2>2. Occupied' = Occupied BY <2>1 DEF Occupied, slotVars
  <2>3. \A j \in Slots : pc' = "clients" /\ j >= idx' => (pc = "clients" => j >= idx)
    BY <1>2 DEF Sigint, SkipAccept, SkipSlot, NameHangUp, AtSlot, serverVars, Slots, TablesInv, TypeOK
  <2>4. pc = "clients" => pc' = "clients"
    BY <1>2 DEF Sigint, SkipAccept, SkipSlot, NameHangUp, AtSlot
  <2>5. CASE pc \in {"accept", "name", "clients"}
    <3>1. \A j \in Occupied : j \in Slots BY DEF Occupied
    <3> QED BY <2>1, <2>2, <2>3, <2>4, <2>5, <3>1, ReadableFrame DEF slotVars
  <2> QED BY <2>1, <2>5 DEF StillReadable
<1>3. CASE SelectReturns
  <2>1. \A f \in sockset' : c2s'[fds'[f]] # <<>> \/ chan'[fds'[f]] # "up"
    BY <1>3 DEF SelectReturns, Readable, netVars
  <2> QED BY <2>1 DEF StillReadable, Readable, Owner
<1>4. CASE Refuse
  <2>1. UNCHANGED <<slotVars, fds, sockset, idx, c2s>> /\ pc = "accept" /\ pc' = "clients"
    BY <1>4 DEF Refuse, serverVars, slotVars
  <2>2. Occupied' = Occupied BY <2>1 DEF Occupied, slotVars
  <2> QED BY <2>1, <2>2, ReadableFrame DEF slotVars
<1>5. CASE Welcome
  <2>1. PICK g \in Fds : g \in FreeFds /\ fds' = [fds EXCEPT ![g] = Head(backlog)]
    BY <1>5 DEF Welcome, LowestFree
  <2>2. UNCHANGED <<slotVars, sockset, idx, c2s>> /\ pc = "accept" /\ pc' = "name"
    BY <1>5 DEF Welcome, slotVars
  <2>3. Occupied' = Occupied BY <2>2 DEF Occupied, slotVars
  <2>4. \A j \in Occupied : fds'[client_sockets[j]] = fds[client_sockets[j]]
    BY <2>1, <2>2 DEF TablesInv, TypeOK, SlotsAgree, Owner, FreeFds, Occupied
  <2> QED BY <2>2, <2>3, <2>4, ReadableFrame DEF slotVars
<1>6. ASSUME pc = "name", NEW st, AddClient(st), NEW d \in Conns, d = fds[new_socket],
             \A c \in Conns \ {d} : c2s'[c] = c2s[c]
      PROVE  StillReadable'
  <2>1. PICK j \in Slots : /\ FirstFree(j)
                           /\ client_sockets' = [client_sockets EXCEPT ![j] = new_socket]
                           /\ UNCHANGED <<fds, sockset, idx>>
    BY <1>6 DEF AddClient
  <2>2. new_socket \notin sockset /\ new_socket \in Fds /\ \A k \in Occupied : client_sockets[k] # new_socket
    BY <1>6 DEF SetOfSlots, TablesInv, NewcomerFits
  <2>3. j \notin Occupied /\ Occupied' = Occupied \cup {j}
    BY <2>1, <2>2, ServerAssumption DEF FirstFree, Occupied, TablesInv, TypeOK
  <2>4. \A k \in Occupied : Owner(k) \in Conns /\ client_sockets[k] \in Fds /\ k \in Slots
    BY <1>6, OccupiedType
  <2>5. \A k \in Occupied : c2s'[Owner(k)] = c2s[Owner(k)]
    BY <1>6, <2>2, <2>4, ServerAssumption DEF OwnedOnce, Owner
  <2>6. \A k \in Occupied' : client_sockets'[k] \in sockset' =>
            k \in Occupied /\ client_sockets'[k] = client_sockets[k]
    BY <2>1, <2>2, <2>3, <2>4 DEF TablesInv, TypeOK
  <2> QED BY <1>6, <2>1, <2>5, <2>6, ReadableFrame
<1>7. CASE NameReceived \/ NameReset \/ NameInterrupted
  <2>1. pc = "name" /\ fds[new_socket] \in Conns
    BY <1>7 DEF NameReceived, NameReset, NameInterrupted, TablesInv, TypeOK, NewcomerFits
  <2>2. \A c \in Conns \ {fds[new_socket]} : c2s'[c] = c2s[c]
    BY <1>7 DEF NameReceived, NameReset, NameInterrupted, Receive, TablesInv, TypeOK
  <2>3. \E st : AddClient(st)
    BY <1>7 DEF NameReceived, NameReset, NameInterrupted
  <2> QED BY <1>6, <2>1, <2>2, <2>3
<1>8. CASE ClientText \/ ClientBye \/ ClientClosed \/ ClientError
  <2>1. /\ pc = "clients" /\ idx \in Occupied /\ idx' = idx + 1 /\ sockset' = sockset
        /\ idx \in Nat /\ pc' \in {"clients", "killed"}
    BY <1>8 DEF ClientText, ClientBye, ClientClosed, ClientError, AtSlot, Selected,
         handlerUnchanged, disconnect_client, broadcast_buffer, TablesInv, TypeOK
  <2>2. \A k \in Occupied : Owner(k) \in Conns /\ client_sockets[k] \in Fds /\ k \in Slots
    BY <2>1, OccupiedType
  <2>3. \A c \in Conns \ {Owner(idx)} : c2s'[c] = c2s[c]
    BY <1>8 DEF ClientText, ClientBye, ClientClosed, ClientError, Receive, TablesInv, TypeOK
  <2>4. \A k \in Occupied \ {idx} : c2s'[Owner(k)] = c2s[Owner(k)]
    BY <2>1, <2>2, <2>3, OwnersDiffer
  <2>5. \A k \in Occupied' \ {idx} : /\ k \in Occupied /\ client_sockets'[k] = client_sockets[k]
                                     /\ fds'[client_sockets[k]] = fds[client_sockets[k]]
    <3>1. CASE UNCHANGED <<slotVars, fds>>
      BY <3>1 DEF slotVars, Occupied
    <3>2. CASE /\ client_sockets' = [client_sockets EXCEPT ![idx] = -1]
               /\ fds' = [fds EXCEPT ![client_sockets[idx]] = NULL]
      BY <2>1, <2>2, <3>2 DEF Occupied, TablesInv, TypeOK, SlotsAgree
    <3> QED BY <1>8, <3>1, <3>2 DEF ClientText, ClientBye, ClientClosed, ClientError,
              disconnect_client
  <2>6. \A k \in Slots : k >= idx' => k >= idx /\ k # idx
    BY <2>1 DEF Slots
  <2>7. \A k \in Occupied' : k \in Slots BY DEF Occupied
  <2>8. CASE pc' = "clients"
    BY <2>1, <2>4, <2>5, <2>6, <2>7, <2>8, ReadableFrame
  <2> QED BY <2>1, <2>8 DEF StillReadable
<1>9. CASE SigintInSelect \/ BeginSelect \/ LeaveLoop \/ AcceptFails \/ EndOfSlots
           \/ SayBye \/ CloseAll
  <2>1. pc' \notin {"accept", "name", "clients"}
    BY <1>9 DEF SigintInSelect, BeginSelect, LeaveLoop, AcceptFails, EndOfSlots, SayBye,
         CloseAll, broadcast_buffer
  <2> QED BY <2>1 DEF StillReadable
<1>10. CASE UNCHANGED vars
  BY <1>10 DEF vars, netVars, slotVars, StillReadable, Readable, Owner, Occupied
<1> QED BY <1>1, <1>2, <1>3, <1>4, <1>5, <1>7, <1>8, <1>9, <1>10 DEF Next, Server, Environment

LEMMA SetOfSlotsNext == TablesInv /\ ReadInv /\ [Next]_vars => SetOfSlots'
<1> SUFFICES ASSUME TablesInv, ReadInv, [Next]_vars PROVE SetOfSlots' OBVIOUS
<1> USE DEF ReadInv
<1>1. ASSUME UNCHANGED <<slotVars, sockset, pc, new_socket>> PROVE SetOfSlots'
  BY <1>1 DEF SetOfSlots, Occupied, slotVars
<1>2. ASSUME NEW c \in Conns, Connect(c) \/ Say(c) \/ HangUp(c) \/ ResetArrives(c)
      PROVE  SetOfSlots'
  BY <1>1, <1>2 DEF Connect, Say, HangUp, ResetArrives, serverVars
<1>3. CASE Sigint \/ UNCHANGED vars
  BY <1>1, <1>3 DEF Sigint, vars, serverVars
<1>4. CASE BeginSelect
  BY <1>4 DEF BeginSelect, SetOfSlots, Occupied, slotVars
<1>5. CASE SelectReturns
  BY <1>5 DEF SelectReturns, SetOfSlots, Occupied, slotVars
<1>6. CASE Welcome
  <2>1. PICK g \in Fds : g \in FreeFds /\ new_socket' = g
    BY <1>6 DEF Welcome, LowestFree
  <2>2. pc = "accept" /\ pc' = "name" /\ sockset' = sockset
    BY <1>6 DEF Welcome
  <2>3. g \notin sockset
    BY <2>1, <2>2 DEF SetOfSlots, TablesInv, SlotsAgree, Owner, FreeFds
  <2> QED BY <2>1, <2>2, <2>3 DEF SetOfSlots
<1>7. ASSUME pc' \notin {"select", "accept", "name"} PROVE SetOfSlots'
  BY <1>7 DEF SetOfSlots
<1>8. CASE NameReceived \/ NameReset \/ NameInterrupted
  BY <1>7, <1>8 DEF NameReceived, NameReset, NameInterrupted, AddClient, broadcast_buffer
<1>9. CASE ClientText \/ ClientBye \/ ClientClosed \/ ClientError
  BY <1>7, <1>9 DEF ClientText, ClientBye, ClientClosed, ClientError, AtSlot,
       disconnect_client, broadcast_buffer
<1>10. CASE \/ SigintInSelect \/ LeaveLoop \/ SkipAccept \/ AcceptFails \/ Refuse
            \/ NameHangUp \/ SkipSlot \/ EndOfSlots \/ SayBye \/ CloseAll
  BY <1>7, <1>10 DEF SigintInSelect, LeaveLoop, SkipAccept, AcceptFails, Refuse,
       NameHangUp, SkipSlot, AtSlot, EndOfSlots, SayBye, CloseAll, broadcast_buffer
<1> QED
  BY <1>2, <1>3, <1>4, <1>5, <1>6, <1>8, <1>9, <1>10 DEF Next, Server, Environment

LEMMA ReadInit == Init => ReadInv
<1> SUFFICES ASSUME Init PROVE ReadInv OBVIOUS
<1>1. backlog = <<>> /\ \A f \in Fds : fds[f] = NULL
  BY DEF Init
<1>2. OwnedOnce
  BY <1>1 DEF OwnedOnce
<1> QED BY <1>2 DEF Init, ReadInv, SetOfSlots, StillReadable

\* Every connection is known once, the set of descriptors stays a set of slots,
\* and what select() reported stays readable until it is handled.
THEOREM ReadsConsistent == Spec => []ReadInv
<1>1. TablesInv /\ ReadInv /\ [Next]_vars => ReadInv'
  BY OwnedOnceNext, SetOfSlotsNext, StillReadableNext DEF ReadInv
<1> QED BY <1>1, ReadInit, TablesConsistent, PTL DEF Spec

\* handle_client_socket never waits in recv().
THEOREM RecvNeverBlocks == Spec => []RecvNeverWaits
<1>1. TablesInv /\ ReadInv => RecvNeverWaits
  <2> SUFFICES ASSUME TablesInv, ReadInv, AtSlot, Selected(idx)
               PROVE  Readable(Owner(idx))
    BY DEF RecvNeverWaits
  <2> QED BY DEF AtSlot, Selected, ReadInv, StillReadable, TablesInv, TypeOK
<1> QED BY <1>1, TablesConsistent, ReadsConsistent, PTL
=============================================================================
