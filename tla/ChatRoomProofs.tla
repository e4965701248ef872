---------------------------- MODULE ChatRoomProofs ----------------------------
(***************************************************************************)
(* The chat server implements the room of ChatRoom for any number of       *)
(* connections, slots and descriptors; what this says of the presence its  *)
(* users are told of, of lost descriptors and of the names of users; and   *)
(* that each line a client's user enters appears on every other screen     *)
(* once, in order.                                                         *)
(***************************************************************************)
EXTENDS ChatClient, ChatServerProofs, WellFoundedInduction

-----------------------------------------------------------------------------
(* What the state of the server says of the room.                          *)

\* A user's name is the name of the slot that its connection has.
NamesBySlot ==
    ~Stopped =>
        /\ Named = [c \in Users |-> Named[c]]
        /\ \A j \in Occupied : Named[Owner(j)] = usernames[j]

\* The module of the room counts as this one does.
LEMMA RoomCounts == \A S : Room!Cardinality(S) = Cardinality(S)
BY DEF Cardinality, Room!Cardinality, IsFiniteSet, Room!IsFiniteSet

LEMMA SlotNames == TablesInv /\ OwnedOnce => NamesBySlot
<1> SUFFICES ASSUME TablesInv, OwnedOnce, ~Stopped PROVE NamesBySlot
  BY DEF NamesBySlot
<1>1. \A j, k \in Occupied : Owner(j) = Owner(k) => j = k
  BY OwnersDiffer DEF Stopped
<1>2. Named = [c \in Users |-> NameOf(c)]
  BY DEF Named
<1>3. ASSUME NEW j \in Occupied PROVE NameOf(Owner(j)) = usernames[j]
  <2>1. (CHOOSE k \in Occupied : Owner(k) = Owner(j)) = j
    BY <1>1, Zenon
  <2> QED BY <2>1, Zenon DEF NameOf
<1>4. \A j \in Occupied : Owner(j) \in Users
  BY DEF Users
<1> QED BY <1>2, <1>3, <1>4 DEF NamesBySlot

LEMMA RoomInitially == Init => Room!RoomInit
<1> SUFFICES ASSUME Init PROVE Room!RoomInit OBVIOUS
<1> USE ServerAssumption
<1>1. RoomPhase = "open" /\ Came = {} /\ Newcomer = NULL /\ Deaf = {}
  BY DEF Init, RoomPhase, Stopped, Came, Newcomer, Deaf
<1>2. Named = <<>>
  <2>1. Users = {}
    BY DEF Init, Users, Occupied
  <2>2. Named = [c \in {} |-> NameOf(c)]
    BY <2>1 DEF Named
  <2> QED BY <2>2
<1> QED BY <1>1, <1>2 DEF Init, Room!RoomInit

\* Users and newcomer are different connections, opened before.
LEMMA WhoIsThere ==
    ASSUME TablesInv, OwnedOnce, pc # "done"
    PROVE  /\ Users \subseteq Conns /\ NULL \notin Users
           /\ \A c \in Users : chan[c] # "new"
           /\ pc = "name" => /\ Newcomer \in Conns /\ Newcomer # NULL
                             /\ Newcomer \notin Users /\ chan[Newcomer] # "new"
<1>1. \A j \in Occupied : Owner(j) \in Conns /\ client_sockets[j] \in Fds
  BY OccupiedType
<1>2. Users \subseteq Conns /\ NULL \notin Users
  BY <1>1, ServerAssumption DEF Users
<1>3. \A j \in Occupied : chan[Owner(j)] # "new"
  BY <1>1, ServerAssumption DEF OwnedOnce, Owner
<1>4. ASSUME pc = "name"
      PROVE  /\ Newcomer \in Conns /\ Newcomer # NULL
             /\ Newcomer \notin Users /\ chan[Newcomer] # "new"
  <2>1. new_socket \in Fds /\ Newcomer = fds[new_socket] /\ Newcomer # NULL /\ Newcomer \in Conns
    BY <1>4 DEF TablesInv, TypeOK, NewcomerFits, Newcomer
  <2>2. \A j \in Occupied : Owner(j) # Newcomer
    BY <1>1, <1>4, <2>1 DEF TablesInv, NewcomerFits, OwnedOnce, Owner
  <2> QED BY <2>1, <2>2 DEF Users, OwnedOnce
<1> QED BY <1>2, <1>3, <1>4 DEF Users

\* The counter is the number of users.
LEMMA UsersCount ==
    ASSUME TablesInv, OwnedOnce, pc # "done"
    PROVE  Cardinality(Users) = num_connections
<1> DEFINE owner == [j \in Occupied |-> Owner(j)]
<1>1. IsFiniteSet(Occupied) /\ num_connections = Cardinality(Occupied)
  BY SlotsFinite, FS_Subset DEF Occupied, TablesInv, SlotsAgree
<1>2. \A j, k \in Occupied : owner[j] = owner[k] => j = k
  BY OwnersDiffer
<1>3. owner \in Bijection(Occupied, Users)
  <2>1. owner \in Injection(Occupied, Users)
    BY <1>2 DEF Users, Injection, IsInjective
  <2>2. owner \in Surjection(Occupied, Users)
    BY DEF Users, Surjection
  <2> QED BY <2>1, <2>2 DEF Bijection
<1>4. ExistsBijection(Occupied, Users)
  BY <1>3 DEF ExistsBijection
<1> QED BY <1>1, <1>4, FS_Bijection

\* send() works for connections that are not deaf, and keeps them so.
LEMMA SendHears ==
    ASSUME NEW s \in ChanState, s # "new"
    PROVE  /\ SendOk(s) <=> s \notin {"aborted", "reset", "closed"}
           /\ AfterSend(s) \in {"aborted", "reset", "closed"} <=> s \in {"aborted", "reset", "closed"}
BY DEF ChanState, SendOk, AfterSend

\* A broadcast that ends tells everybody it is for, and one that does not tells
\* some of them and ends the room.
LEMMA BroadcastTells ==
    ASSUME TablesInv, OwnedOnce, ~Stopped,
           NEW st \in [Conns -> ChanState], NEW m, NEW skip, NEW then,
           broadcast_buffer(skip, m, st, then),
           \A j \in Occupied \ {skip} : st[Owner(j)] = chan[Owner(j)]
    PROVE  /\ \A c \in Conns : /\ chan'[c] = "new" <=> st[c] = "new"
                               /\ chan'[c] \in {"aborted", "reset", "closed"}
                                    <=> st[c] \in {"aborted", "reset", "closed"}
           /\ Fatal(skip, st) = {} => /\ pc' = then
                                      /\ s2c' = Room!Told({Owner(j) : j \in Occupied \ {skip}}, m)
           /\ Fatal(skip, st) # {} =>
                /\ pc' = "killed"
                /\ \E c \in Users : c \in Deaf'
                /\ \A c \in Conns : \/ s2c'[c] = s2c[c]
                                    \/ Len(s2c'[c]) = Len(s2c[c]) + 1 /\ c \in Users \ Deaf
<1> DEFINE R == Reached(skip, st)
           Rest == {Owner(j) : j \in Occupied \ {skip}}
           Broken == {"aborted", "reset", "closed"}
<1>1. /\ s2c' = [c \in Conns |-> IF c \in R /\ SendOk(st[c]) THEN Append(s2c[c], m) ELSE s2c[c]]
      /\ chan' = [c \in Conns |-> IF c \in R THEN AfterSend(st[c]) ELSE st[c]]
      /\ pc' = IF Fatal(skip, st) = {} THEN then ELSE "killed"
  BY DEF broadcast_buffer
<1>2. R \subseteq Rest /\ Rest \subseteq Users /\ Rest \subseteq Conns
      /\ \A c \in Rest : st[c] = chan[c] /\ chan[c] # "new"
  BY WhoIsThere DEF Reached, Users, Stopped
<1>3. \A c \in Conns : chan'[c] = "new" <=> st[c] = "new"
  <2>1. \A c \in Conns : AfterSend(st[c]) = "new" <=> st[c] = "new"
    BY AfterSendType
  <2> HIDE DEF R
  <2> QED BY <1>1, <2>1
<1>4. \A c \in Conns : chan'[c] \in Broken <=> st[c] \in Broken
  <2>1. \A c \in R : AfterSend(st[c]) \in Broken <=> st[c] \in Broken
    BY <1>2, SendHears
  <2> HIDE DEF R, Broken
  <2> QED BY <1>1, <2>1
<1>5. \A c \in R : SendOk(st[c]) <=> c \notin Deaf
  BY <1>2, SendHears DEF Deaf
<1>6. ASSUME Fatal(skip, st) = {}
      PROVE  pc' = then /\ s2c' = Room!Told(Rest, m)
  <2>1. R = Rest
    BY <1>6 DEF Reached
  <2> HIDE DEF R, Rest
  <2> QED BY <1>1, <1>5, <1>6, <2>1 DEF Room!Told
<1>7. ASSUME Fatal(skip, st) # {}
      PROVE  /\ pc' = "killed"
             /\ \E c \in Users : c \in Deaf'
             /\ \A c \in Conns : \/ s2c'[c] = s2c[c]
                                 \/ Len(s2c'[c]) = Len(s2c[c]) + 1 /\ c \in Users \ Deaf
  <2>1. PICK j \in Occupied \ {skip} : st[Owner(j)] = "reset"
    BY <1>7 DEF Fatal
  <2>2. Owner(j) \in Users /\ Owner(j) \in Conns
    BY <1>2 DEF Users
  <2>3. Owner(j) \in Deaf'
    BY <1>4, <2>1, <2>2 DEF Deaf
  <2>4. \A c \in Conns : Len(Append(s2c[c], m)) = Len(s2c[c]) + 1
    BY DEF TablesInv, TypeOK
  <2> HIDE DEF R, Rest
  <2>5. \A c \in Conns : \/ s2c'[c] = s2c[c]
                         \/ Len(s2c'[c]) = Len(s2c[c]) + 1 /\ c \in Users \ Deaf
    BY <1>1, <1>2, <1>5, <2>4
  <2> QED BY <1>1, <1>7, <2>2, <2>3, <2>5
<1> QED BY <1>3, <1>4, <1>6, <1>7

-----------------------------------------------------------------------------
(* Every step is a step of the room, or none that is seen in it.           *)

RoomInv == TablesInv /\ OwnedOnce /\ NamesBySlot

\* Without a change to the slots the room is as it was.
LEMMA RoomFrame ==
    ASSUME RoomInv, NamesBySlot', UNCHANGED <<slotVars, fds>>, ~Stopped, ~Stopped'
    PROVE  Occupied' = Occupied /\ Users' = Users /\ Named' = Named
<1>1. Occupied' = Occupied /\ \A j \in Occupied : Owner(j)' = Owner(j)
  BY DEF Occupied, Owner, slotVars
<1>2. Users' = Users
  BY <1>1 DEF Users
<1>3. /\ Named = [c \in Users |-> Named[c]] /\ \A j \in Occupied : Named[Owner(j)] = usernames[j]
      /\ Named' = [c \in Users |-> Named'[c]] /\ \A j \in Occupied : Named'[Owner(j)] = usernames[j]
  BY <1>1, <1>2 DEF RoomInv, NamesBySlot, slotVars
<1>4. \A c \in Users : Named'[c] = Named[c]
  BY <1>3 DEF Users
<1> QED BY <1>1, <1>2, <1>3, <1>4

LEMMA PeersAreQuiet ==
    ASSUME RoomInv, NamesBySlot', NEW c \in Conns,
           Connect(c) \/ Say(c) \/ HangUp(c) \/ ResetArrives(c)
    PROVE  [Room!RoomNext]_(Room!roomVars)
<1>1. /\ UNCHANGED <<slotVars, fds>> /\ UNCHANGED <<s2c, inbuf, pc, new_socket>>
      /\ ~Stopped /\ ~Stopped'
  BY DEF Connect, Say, HangUp, ResetArrives, serverVars, Stopped
<1>2. UNCHANGED <<RoomPhase, Newcomer, Named>>
  BY <1>1, RoomFrame DEF RoomPhase, Newcomer, Stopped
<1>3. chan \in [Conns -> ChanState] /\ backlog \in Seq(Conns)
  BY DEF RoomInv, TablesInv, TypeOK
<1>4. Came' = Came
  <2>1. CASE Connect(c)
    <3>1. /\ chan[c] = "new" /\ chan' = [chan EXCEPT ![c] = "up"]
          /\ backlog' = Append(backlog, c)
      BY <2>1 DEF Connect
    <3>2. /\ DOMAIN backlog = 1 .. Len(backlog) /\ DOMAIN backlog' = 1 .. Len(backlog) + 1
          /\ Len(backlog) \in Nat /\ backlog'[Len(backlog) + 1] = c
          /\ \A k \in DOMAIN backlog : backlog'[k] = backlog[k]
      BY <1>3, <3>1
    <3>3. \A d \in Conns : (\A k \in DOMAIN backlog' : backlog'[k] # d)
                             <=> d # c /\ \A k \in DOMAIN backlog : backlog[k] # d
      BY <3>2
    <3> QED BY <1>3, <3>1, <3>3 DEF Came
  <2>2. CASE Say(c) \/ HangUp(c) \/ ResetArrives(c)
    <3>1. backlog' = backlog /\ \A d \in Conns : chan'[d] = "new" <=> chan[d] = "new"
      BY <1>3, <2>2 DEF Say, HangUp, ResetArrives
    <3> QED BY <3>1 DEF Came
  <2> QED BY <2>1, <2>2
<1>5. Deaf' = Deaf \/ Deaf' = Deaf \cup {c}
  BY <1>3 DEF Connect, Say, HangUp, ResetArrives, Deaf
<1>6. CASE Deaf' = Deaf
  BY <1>1, <1>2, <1>4, <1>6 DEF Room!roomVars
<1>7. CASE Deaf' = Deaf \cup {c}
  <2>1. Room!Breaks(c)
    BY <1>1, <1>2, <1>4, <1>7 DEF Room!Breaks
  <2> QED BY <2>1 DEF Room!RoomNext
<1> QED BY <1>5, <1>6, <1>7

\* The steps of the loop that no user notices, and the end of the loop.
LEMMA LoopIsQuiet ==
    ASSUME RoomInv, NamesBySlot',
           \/ Sigint \/ SigintInSelect \/ BeginSelect \/ SelectReturns \/ SkipAccept
           \/ SkipSlot \/ EndOfSlots \/ LeaveLoop \/ AcceptFails
    PROVE  [Room!RoomNext]_(Room!roomVars)
<1>1. UNCHANGED <<slotVars, fds>> /\ UNCHANGED <<netVars, inbuf, new_socket>>
  BY DEF Sigint, SigintInSelect, BeginSelect, SelectReturns, SkipAccept, SkipSlot, EndOfSlots,
     LeaveLoop, AcceptFails, serverVars, netVars, slotVars
<1>2. /\ ~Stopped /\ ~Stopped'
      /\ \/ pc' = pc
         \/ pc \notin {"name", "exit", "closing"} /\ pc' \notin {"name", "closing"}
  BY DEF Sigint, SigintInSelect, BeginSelect, SelectReturns, SkipAccept, SkipSlot, EndOfSlots,
     LeaveLoop, AcceptFails, serverVars, AtSlot, Stopped
<1>3. UNCHANGED <<Came, Newcomer, Named, Deaf, s2c, inbuf>>
  <2>1. Named' = Named BY <1>1, <1>2, RoomFrame
  <2>2. Came' = Came /\ Deaf' = Deaf BY <1>1 DEF netVars, Came, Deaf
  <2>3. Newcomer' = Newcomer BY <1>1, <1>2 DEF Newcomer
  <2> QED BY <1>1, <2>1, <2>2, <2>3 DEF netVars
<1>4. CASE pc' = pc \/ pc' # "exit"
  <2>1. RoomPhase' = RoomPhase
    BY <1>2, <1>4 DEF RoomPhase, Stopped
  <2> QED BY <1>3, <2>1 DEF Room!roomVars
<1>5. CASE pc' # pc /\ pc' = "exit"
  <2>1. RoomPhase = "open" /\ RoomPhase' = "closing" /\ Newcomer = NULL
    BY <1>2, <1>5 DEF RoomPhase, Stopped, Newcomer
  <2>2. Room!Closes
    BY <1>3, <2>1 DEF Room!Closes
  <2> QED BY <2>2 DEF Room!RoomNext
<1> QED BY <1>4, <1>5

\* accept() takes a connection out of the queue that was not seen before.
LEMMA TakenFromQueue ==
    ASSUME RoomInv, backlog # <<>>, backlog' = Tail(backlog),
           \A c \in Conns : chan'[c] = "new" <=> chan[c] = "new"
    PROVE  /\ Head(backlog) \in Conns \ Came /\ chan[Head(backlog)] # "new"
           /\ Came' = Came \cup {Head(backlog)}
<1> DEFINE h == Head(backlog)
<1>1. backlog \in Seq(Conns) BY DEF RoomInv, TablesInv, TypeOK
<1>2. /\ DOMAIN backlog = 1 .. Len(backlog) /\ Len(backlog) \in Nat /\ 1 \in DOMAIN backlog
      /\ h = backlog[1] /\ h \in Conns
      /\ DOMAIN backlog' = 1 .. Len(backlog) - 1
      /\ \A k \in DOMAIN backlog' : backlog'[k] = backlog[k + 1] /\ k + 1 \in DOMAIN backlog
  BY <1>1
<1>3. /\ \A i, k \in DOMAIN backlog : backlog[i] = backlog[k] => i = k
      /\ \A i \in DOMAIN backlog : chan[backlog[i]] # "new"
  BY <1>2 DEF RoomInv, OwnedOnce
<1>4. \A k \in DOMAIN backlog' : backlog'[k] # h
  <2> SUFFICES ASSUME NEW k \in DOMAIN backlog' PROVE backlog[k + 1] # backlog[1]
    BY <1>2
  <2>1. k + 1 # 1 BY <1>2
  <2> QED BY <1>2, <1>3, <2>1
<1>5. ASSUME NEW d \in Conns, d # h
      PROVE  (\A k \in DOMAIN backlog' : backlog'[k] # d) <=> (\A k \in DOMAIN backlog : backlog[k] # d)
  <2>1. ASSUME NEW k \in DOMAIN backlog, backlog[k] = d
        PROVE  \E l \in DOMAIN backlog' : backlog'[l] = d
    <3>1. k # 1 BY <1>2, <1>5, <2>1
    <3>2. k - 1 \in DOMAIN backlog' /\ backlog'[k - 1] = backlog[k] BY <1>2, <3>1
    <3> QED BY <2>1, <3>2
  <2> QED BY <1>2, <2>1
<1>6. h \notin Came /\ chan[h] # "new"
  BY <1>2, <1>3 DEF Came
<1>7. \A d \in Conns : d \in Came' <=> d \in Came \/ d = h
  <2> HIDE DEF h
  <2> QED BY <1>2, <1>4, <1>5, <1>6 DEF Came
<1>8. Came' \subseteq Conns /\ Came \subseteq Conns
  BY DEF Came
<1> QED BY <1>2, <1>6, <1>7, <1>8

LEMMA RefuseRefuses ==
    ASSUME RoomInv, NamesBySlot', Refuse
    PROVE  Room!RoomNext
<1> DEFINE c == Head(backlog)
<1>1. /\ pc = "accept" /\ pc' = "clients" /\ backlog # <<>> /\ backlog' = Tail(backlog)
      /\ chan' = [chan EXCEPT ![c] = "closed"] /\ num_connections >= MAX_CONNECTIONS
      /\ UNCHANGED <<s2c, inbuf, fds, slotVars>>
  BY DEF Refuse, Full, RoomInv, TablesInv, QueueNotEmpty, serverVars
<1>2. chan \in [Conns -> ChanState] /\ num_connections = MAX_CONNECTIONS
  BY <1>1, ServerAssumption DEF RoomInv, TablesInv, TypeOK
<1>3. c \in Conns
  <2>1. backlog \in Seq(Conns) BY DEF RoomInv, TablesInv, TypeOK
  <2> QED BY <1>1, <2>1
<1>4. chan[c] # "new"
  <2>1. backlog \in Seq(Conns) BY DEF RoomInv, TablesInv, TypeOK
  <2>2. 1 \in 1 .. Len(backlog) /\ c = backlog[1] BY <1>1, <2>1
  <2> QED BY <2>2 DEF RoomInv, OwnedOnce
<1>5. /\ \A d \in Conns : chan'[d] = "new" <=> chan[d] = "new"
      /\ Deaf' = Deaf \cup {c}
  BY <1>1, <1>2, <1>3, <1>4 DEF Deaf
<1>6. c \notin Came /\ Came' = Came \cup {c}
  BY <1>1, <1>5, TakenFromQueue
<1>7. ~Stopped /\ ~Stopped' BY <1>1 DEF Stopped
<1>8. /\ Named' = Named /\ DOMAIN Named = Users /\ Cardinality(Users) = MAX_CONNECTIONS
  <2>1. Named' = Named BY <1>1, <1>7, RoomFrame
  <2>2. DOMAIN Named = Users BY <1>7 DEF Named
  <2> QED BY <1>2, <1>7, <2>1, <2>2, UsersCount DEF RoomInv, Stopped
<1>9. RoomPhase = "open" /\ RoomPhase' = "open" /\ Newcomer = NULL /\ Newcomer' = NULL
  BY <1>1 DEF RoomPhase, Stopped, Newcomer
<1> HIDE DEF c
<1>10. Room!Refuses(c)
  BY <1>1, <1>5, <1>6, <1>8, <1>9, RoomCounts DEF Room!Refuses, Room!Users
<1> QED BY <1>3, <1>10 DEF Room!RoomNext

\* The roster is the user list of the room.
LEMMA RosterIsRooms ==
    ASSUME NamesBySlot, ~Stopped
    PROVE  Room!RoomRoster = Roster /\ Room!Users = Users
<1>1. DOMAIN Named = Users /\ \A j \in Occupied : Named[Owner(j)] = usernames[j]
  BY DEF NamesBySlot, Named
<1> QED BY <1>1 DEF Room!RoomRoster, Room!Users, Roster, Users

LEMMA WelcomeGreets ==
    ASSUME RoomInv, NamesBySlot', OwnedOnce', Welcome
    PROVE  Room!RoomNext
<1> DEFINE c == Head(backlog)
<1>1. /\ pc = "accept" /\ pc' = "name" /\ backlog # <<>> /\ backlog' = Tail(backlog)
      /\ ~(num_connections >= MAX_CONNECTIONS)
      /\ UNCHANGED <<inbuf, slotVars>>
  BY DEF Welcome, Full, RoomInv, TablesInv, QueueNotEmpty
<1>2. PICK f \in Fds : /\ f \in FreeFds
                       /\ fds' = [fds EXCEPT ![f] = c]
                       /\ s2c' = IF SendOk(chan[c])
                                   THEN [s2c EXCEPT ![c] = Append(@, create_welcome_msg)]
                                   ELSE s2c
                       /\ chan' = [chan EXCEPT ![c] = AfterSend(@)]
                       /\ new_socket' = f
  BY DEF Welcome, LowestFree
<1>3. /\ chan \in [Conns -> ChanState] /\ s2c \in [Conns -> Seq(Message)]
      /\ fds \in [Fds -> Conns \cup {NULL}] /\ backlog \in Seq(Conns)
      /\ num_connections \in Nat /\ MAX_CONNECTIONS \in Nat
  BY ServerAssumption DEF RoomInv, TablesInv, TypeOK
<1>4. c \in Conns /\ chan[c] # "new"
  <2>1. 1 \in 1 .. Len(backlog) /\ c = backlog[1] /\ c \in Conns BY <1>1, <1>3
  <2> QED BY <2>1 DEF RoomInv, OwnedOnce
<1> HIDE DEF c
<1>5. /\ \A d \in Conns : chan'[d] = "new" <=> chan[d] = "new"
      /\ Deaf' = Deaf
  <2>1. /\ AfterSend(chan[c]) # "new"
        /\ AfterSend(chan[c]) \in {"aborted", "reset", "closed"} <=> chan[c] \in {"aborted", "reset", "closed"}
    BY <1>3, <1>4, AfterSendType, SendHears
  <2> QED BY <1>2, <1>3, <1>4, <2>1 DEF Deaf
<1>6. c \notin Came /\ Came' = Came \cup {c}
  BY <1>1, <1>5, TakenFromQueue DEF c
<1>7. ~Stopped /\ ~Stopped' BY <1>1 DEF Stopped
<1>8. Occupied' = Occupied /\ \A j \in Occupied : Owner(j)' = Owner(j)
  <2>1. Occupied' = Occupied BY <1>1 DEF Occupied, slotVars
  <2>2. \A j \in Occupied : client_sockets[j] \in Fds /\ Owner(j) \in Conns
    BY <1>7, OccupiedType DEF RoomInv, Stopped
  <2>3. \A j \in Occupied : client_sockets[j] # f
    BY <1>2, <2>2, ServerAssumption DEF FreeFds, Owner
  <2> QED BY <1>1, <1>2, <1>3, <2>1, <2>2, <2>3 DEF Owner, slotVars
<1>9. Named' = Named
  <2>1. Users' = Users BY <1>8 DEF Users
  <2>2. /\ Named = [d \in Users |-> Named[d]] /\ \A j \in Occupied : Named[Owner(j)] = usernames[j]
        /\ Named' = [d \in Users |-> Named'[d]] /\ \A j \in Occupied : Named'[Owner(j)] = usernames[j]
    BY <1>1, <1>7, <1>8, <2>1 DEF RoomInv, NamesBySlot, slotVars
  <2>3. \A d \in Users : Named'[d] = Named[d] BY <2>2 DEF Users
  <2> QED BY <2>2, <2>3
<1>10. Cardinality(Room!Users) < MAX_CONNECTIONS
  <2>1. Room!Users = Users BY <1>7, RosterIsRooms DEF RoomInv
  <2>2. Cardinality(Users) = num_connections BY <1>7, UsersCount DEF RoomInv, Stopped
  <2> QED BY <1>1, <1>3, <2>1, <2>2
<1>11. s2c' = Room!Told({c}, [kind |-> "welcome", users |-> Room!RoomRoster])
  <2>1. create_welcome_msg = [kind |-> "welcome", users |-> Room!RoomRoster]
    BY <1>7, RosterIsRooms DEF RoomInv, create_welcome_msg
  <2>2. SendOk(chan[c]) <=> c \notin Deaf
    BY <1>3, <1>4, SendHears DEF Deaf
  <2>3. s2c = [d \in Conns |-> s2c[d]] BY <1>3
  <2> QED BY <1>2, <1>3, <1>4, <2>1, <2>2, <2>3 DEF Room!Told
<1>12. RoomPhase = "open" /\ RoomPhase' = "open" /\ Newcomer = NULL
  BY <1>1 DEF RoomPhase, Stopped, Newcomer
<1>13. Newcomer' = c
  BY <1>1, <1>2, <1>3 DEF Newcomer
<1>14. Room!Greets(c)
  BY <1>1, <1>5, <1>6, <1>9, <1>10, <1>11, <1>12, <1>13, RoomCounts DEF Room!Greets
<1> QED BY <1>4, <1>14 DEF Room!RoomNext

LEMMA HangUpTurnsBack ==
    ASSUME RoomInv, NamesBySlot', NameHangUp
    PROVE  Room!RoomNext
<1>1. /\ pc = "name" /\ pc' = "clients"
      /\ UNCHANGED <<fds, slotVars>> /\ UNCHANGED <<netVars, inbuf>>
  BY DEF NameHangUp
<1>2. ~Stopped /\ ~Stopped' BY <1>1 DEF Stopped
<1>3. Named' = Named BY <1>1, <1>2, RoomFrame
<1>4. /\ RoomPhase = "open" /\ RoomPhase' = "open" /\ Newcomer' = NULL
      /\ UNCHANGED <<Came, Deaf, s2c, inbuf>>
  BY <1>1 DEF RoomPhase, Stopped, Newcomer, Came, Deaf, netVars
<1>5. Newcomer \in Conns
  BY <1>1, WhoIsThere DEF RoomInv
<1>6. Room!TurnsBack(Newcomer)
  BY <1>3, <1>4 DEF Room!TurnsBack
<1> QED BY <1>5, <1>6 DEF Room!RoomNext

\* A broadcast that ends the process ends the room, some having been told.
LEMMA BroadcastDies ==
    ASSUME RoomInv, ~Stopped, RoomPhase \in {"open", "closing"}, pc' = "killed", Came' = Came,
           \E c \in Users : c \in Deaf',
           \A c \in Conns : \/ s2c'[c] = s2c[c]
                            \/ Len(s2c'[c]) = Len(s2c[c]) + 1 /\ c \in Users \ Deaf,
           Deaf \subseteq Deaf'
    PROVE  Room!RoomNext
<1>1. RoomPhase' = "over" /\ Newcomer' = NULL
  BY DEF RoomPhase, Newcomer, Stopped
<1>2. Named' = <<>>
  <2>1. Named' = [c \in {} |-> NameOf(c)'] BY DEF Named, Stopped
  <2> QED BY <2>1
<1>3. Room!Users = Users BY RosterIsRooms DEF RoomInv
<1>4. Room!Dies
  BY <1>1, <1>2, <1>3 DEF Room!Dies
<1> QED BY <1>4 DEF Room!RoomNext

\* The newcomer gets a slot and the others hear of it.
LEMMA AddJoins ==
    ASSUME RoomInv, NamesBySlot', pc = "name",
           NEW st \in [Conns -> ChanState], AddClient(st),
           \A c \in Conns : st[c] = "new" <=> chan[c] = "new",
           \A c \in Conns : c # Newcomer => st[c] = chan[c],
           \A c \in Deaf : st[c] \in {"aborted", "reset", "closed"}
    PROVE  Room!RoomNext
<1> DEFINE m == [kind |-> "joined", from |-> fds[new_socket], user |-> inbuf']
<1>1. PICK j \in Slots : /\ FirstFree(j)
                         /\ client_sockets' = [client_sockets EXCEPT ![j] = new_socket]
                         /\ usernames' = [usernames EXCEPT ![j] = inbuf']
                         /\ broadcast_buffer(j, m, st, "clients")
                         /\ UNCHANGED <<said, backlog, fds, sockset, idx>>
  BY DEF AddClient
<1>2. /\ Newcomer \in Conns /\ Newcomer # NULL /\ Newcomer \notin Users /\ Newcomer = fds[new_socket]
      /\ new_socket \in Fds
  BY WhoIsThere DEF RoomInv, Newcomer, TablesInv, NewcomerFits
<1>3. ~Stopped /\ j \notin Occupied /\ \A k \in Occupied : Owner(k) \in Users
  BY <1>1 DEF Stopped, FirstFree, Users
<1>4. {Owner(k) : k \in Occupied \ {j}} = Users
  BY <1>3 DEF Users
<1>5. Users \subseteq Conns
  BY WhoIsThere DEF RoomInv
<1>6. \A k \in Occupied \ {j} : st[Owner(k)] = chan[Owner(k)]
  BY <1>2, <1>3, <1>5
<1> HIDE DEF m
<1>7. /\ \A c \in Conns : /\ chan'[c] = "new" <=> st[c] = "new"
                          /\ chan'[c] \in {"aborted", "reset", "closed"}
                               <=> st[c] \in {"aborted", "reset", "closed"}
      /\ Fatal(j, st) = {} => pc' = "clients" /\ s2c' = Room!Told(Users, m)
      /\ Fatal(j, st) # {} =>
           /\ pc' = "killed"
           /\ \E c \in Users : c \in Deaf'
           /\ \A c \in Conns : \/ s2c'[c] = s2c[c]
                               \/ Len(s2c'[c]) = Len(s2c[c]) + 1 /\ c \in Users \ Deaf
  <2>1. /\ TablesInv /\ OwnedOnce /\ ~Stopped
        /\ \A k \in Occupied \ {j} : st[Owner(k)] = chan[Owner(k)]
        /\ broadcast_buffer(j, m, st, "clients")
    BY <1>1, <1>3, <1>6 DEF RoomInv
  <2>2. /\ \A c \in Conns : /\ chan'[c] = "new" <=> st[c] = "new"
                            /\ chan'[c] \in {"aborted", "reset", "closed"}
                                 <=> st[c] \in {"aborted", "reset", "closed"}
        /\ Fatal(j, st) = {} => pc' = "clients" /\ s2c' = Room!Told({Owner(k) : k \in Occupied \ {j}}, m)
    BY <2>1, BroadcastTells
  <2>3. Fatal(j, st) # {} =>
           /\ pc' = "killed"
           /\ \E c \in Users : c \in Deaf'
           /\ \A c \in Conns : \/ s2c'[c] = s2c[c]
                               \/ Len(s2c'[c]) = Len(s2c[c]) + 1 /\ c \in Users \ Deaf
    BY <2>1, BroadcastTells
  <2> QED BY <1>4, <2>2, <2>3
<1>8. Came' = Came
  BY <1>1, <1>7 DEF Came
<1>9. Deaf \subseteq Deaf'
  BY <1>7 DEF Deaf
<1>10. RoomPhase = "open" BY DEF RoomPhase, Stopped
<1>11. CASE Fatal(j, st) # {}
  BY <1>3, <1>7, <1>8, <1>9, <1>10, <1>11, BroadcastDies
<1>12. CASE Fatal(j, st) = {}
  <2>1. ~Stopped' /\ RoomPhase' = "open" /\ Newcomer' = NULL
    BY <1>7, <1>12 DEF Stopped, RoomPhase, Newcomer
  <2>2. Occupied' = Occupied \cup {j}
    BY <1>1, <1>2, <1>3, ServerAssumption DEF RoomInv, TablesInv, TypeOK, Occupied
  <2>3. /\ Owner(j)' = Newcomer /\ usernames'[j] = inbuf'
        /\ \A k \in Occupied : Owner(k)' = Owner(k) /\ usernames'[k] = usernames[k]
    BY <1>1, <1>2, <1>3 DEF RoomInv, TablesInv, TypeOK, Owner, Occupied
  <2>4. Users' = Users \cup {Newcomer}
    BY <2>2, <2>3 DEF Users
  <2>5. /\ Named = [c \in Users |-> Named[c]] /\ \A k \in Occupied : Named[Owner(k)] = usernames[k]
        /\ Named' = [c \in Users' |-> Named'[c]] /\ \A k \in Occupied' : Named'[Owner(k)'] = usernames'[k]
    BY <1>3, <2>1 DEF RoomInv, NamesBySlot
  <2>6. \A c \in Users \cup {Newcomer} : Named'[c] = IF c = Newcomer THEN inbuf' ELSE Named[c]
    <3>1. Named'[Newcomer] = inbuf' BY <2>2, <2>3, <2>5
    <3>2. \A k \in Occupied : Named'[Owner(k)] = Named[Owner(k)] BY <2>2, <2>3, <2>5
    <3>3. \A c \in Users : Named'[c] = Named[c] BY <3>2 DEF Users
    <3> QED BY <1>2, <3>1, <3>3
  <2>7. Named' = [d \in Users \cup {Newcomer} |-> IF d = Newcomer THEN inbuf' ELSE Named[d]]
    BY <2>4, <2>5, <2>6
  <2>8. Room!Users = Users BY <1>3, RosterIsRooms DEF RoomInv
  <2>9. m = [kind |-> "joined", from |-> Newcomer, user |-> inbuf'] BY <1>2 DEF m
  <2>10. Room!Joins(Newcomer)
    BY <1>7, <1>8, <1>9, <1>10, <1>12, <2>1, <2>7, <2>8, <2>9 DEF Room!Joins
  <2> QED BY <1>2, <2>10 DEF Room!RoomNext
<1> QED BY <1>11, <1>12

LEMMA NameJoins ==
    ASSUME RoomInv, NamesBySlot', NameReceived \/ NameReset \/ NameInterrupted
    PROVE  Room!RoomNext
<1>1. pc = "name" /\ Newcomer = fds[new_socket]
  BY DEF NameReceived, NameReset, NameInterrupted, Newcomer
<1>2. Newcomer \in Conns /\ chan[Newcomer] # "new" /\ chan \in [Conns -> ChanState]
  BY <1>1, WhoIsThere DEF RoomInv, TablesInv, TypeOK
<1>3. CASE NameReceived \/ NameInterrupted
  <2>1. AddClient(chan) BY <1>3 DEF NameReceived, NameInterrupted
  <2> QED BY <1>1, <1>2, <2>1, AddJoins DEF Deaf
<1>4. CASE NameReset
  <2> DEFINE st == [chan EXCEPT ![fds[new_socket]] = "reset"]
  <2>1. AddClient(st) BY <1>4 DEF NameReset
  <2>2. st \in [Conns -> ChanState] /\ \A c \in Conns : st[c] = IF c = Newcomer THEN "reset" ELSE chan[c]
    BY <1>1, <1>2 DEF ChanState
  <2> HIDE DEF st
  <2>3. /\ \A c \in Conns : st[c] = "new" <=> chan[c] = "new"
        /\ \A c \in Conns : c # Newcomer => st[c] = chan[c]
        /\ \A c \in Deaf : st[c] \in {"aborted", "reset", "closed"}
    BY <1>2, <2>2 DEF Deaf
  <2> QED BY <1>1, <2>1, <2>2, <2>3, AddJoins
<1> QED BY <1>3, <1>4

\* The slot at hand belongs to a user, and the other slots to the others.
LEMMA SlotAtHand ==
    ASSUME RoomInv, AtSlot, Selected(idx)
    PROVE  /\ idx \in Occupied /\ Owner(idx) \in Users /\ Owner(idx) \in Conns
           /\ {Owner(k) : k \in Occupied \ {idx}} = Users \ {Owner(idx)}
           /\ Named[Owner(idx)] = usernames[idx] /\ Room!Users = Users
           /\ pc = "clients" /\ ~Stopped /\ RoomPhase = "open" /\ Newcomer = NULL
<1>1. pc = "clients" /\ ~Stopped /\ RoomPhase = "open" /\ Newcomer = NULL
  BY DEF AtSlot, Stopped, RoomPhase, Newcomer
<1>2. idx \in Occupied BY DEF Selected
<1>3. \A j, k \in Occupied : j # k => Owner(j) # Owner(k)
  BY <1>1, OwnersDiffer DEF RoomInv, Stopped
<1>4. {Owner(k) : k \in Occupied \ {idx}} = Users \ {Owner(idx)}
  BY <1>2, <1>3 DEF Users
<1>5. Owner(idx) \in Users /\ Named[Owner(idx)] = usernames[idx]
  BY <1>1, <1>2 DEF Users, RoomInv, NamesBySlot
<1>6. Room!Users = Users BY <1>1, RosterIsRooms DEF RoomInv
<1>7. Owner(idx) \in Conns BY <1>1, <1>5, WhoIsThere DEF RoomInv, Stopped
<1> QED BY <1>1, <1>2, <1>4, <1>5, <1>6, <1>7

LEMMA TextChats ==
    ASSUME RoomInv, NamesBySlot', ClientText
    PROVE  Room!RoomNext
<1> DEFINE c == Owner(idx)
           m == [kind |-> "chat", from |-> Owner(idx), user |-> usernames[idx], text |-> inbuf']
<1>1. /\ AtSlot /\ Selected(idx) /\ broadcast_buffer(idx, m, chan, "clients")
      /\ UNCHANGED <<slotVars, fds>> /\ backlog' = backlog
  BY DEF ClientText, handlerUnchanged
<1>2. /\ idx \in Occupied /\ c \in Users /\ c \in Conns
      /\ {Owner(k) : k \in Occupied \ {idx}} = Users \ {c}
      /\ Named[c] = usernames[idx] /\ Room!Users = Users
      /\ pc = "clients" /\ ~Stopped /\ RoomPhase = "open" /\ Newcomer = NULL
  BY <1>1, SlotAtHand
<1>3. TablesInv /\ OwnedOnce /\ chan \in [Conns -> ChanState]
  BY DEF RoomInv, TablesInv, TypeOK
<1> HIDE DEF m
<1>4. /\ \A d \in Conns : /\ chan'[d] = "new" <=> chan[d] = "new"
                          /\ chan'[d] \in {"aborted", "reset", "closed"}
                               <=> chan[d] \in {"aborted", "reset", "closed"}
      /\ Fatal(idx, chan) = {} => /\ pc' = "clients"
                                  /\ s2c' = Room!Told({Owner(k) : k \in Occupied \ {idx}}, m)
      /\ Fatal(idx, chan) # {} =>
           /\ pc' = "killed"
           /\ \E d \in Users : d \in Deaf'
           /\ \A d \in Conns : \/ s2c'[d] = s2c[d]
                               \/ Len(s2c'[d]) = Len(s2c[d]) + 1 /\ d \in Users \ Deaf
  BY <1>1, <1>2, <1>3, BroadcastTells
<1>5. Came' = Came /\ Deaf' = Deaf
  BY <1>1, <1>4 DEF Came, Deaf
<1>6. CASE Fatal(idx, chan) # {}
  BY <1>2, <1>4, <1>5, <1>6, BroadcastDies
<1>7. CASE Fatal(idx, chan) = {}
  <2>1. RoomPhase' = "open" /\ Newcomer' = NULL /\ ~Stopped'
    BY <1>4, <1>7 DEF RoomPhase, Newcomer, Stopped
  <2>2. Named' = Named BY <1>1, <1>2, <2>1, RoomFrame
  <2>3. s2c' = Room!Told(Users \ {c}, m) BY <1>2, <1>4, <1>7
  <2>4. m = [kind |-> "chat", from |-> c, user |-> Named[c], text |-> inbuf']
    BY <1>2 DEF m
  <2> HIDE DEF c
  <2>5. Room!Chats(c)
    BY <1>2, <1>5, <2>1, <2>2, <2>3, <2>4 DEF Room!Chats, Room!Others
  <2> QED BY <1>2, <2>5 DEF Room!RoomNext
<1> QED BY <1>6, <1>7

LEMMA DisconnectLeaves ==
    ASSUME RoomInv, NamesBySlot', ClientBye \/ ClientClosed
    PROVE  Room!RoomNext
<1> DEFINE c == Owner(idx)
           st == [chan EXCEPT ![Owner(idx)] = "closed"]
           m == [kind |-> "left", from |-> Owner(idx), user |-> usernames[idx]]
<1>1. AtSlot /\ Selected(idx) /\ disconnect_client(idx) /\ backlog' = backlog
  BY DEF ClientBye, ClientClosed, handlerUnchanged
<1>2. /\ idx \in Occupied /\ c \in Users /\ c \in Conns
      /\ {Owner(k) : k \in Occupied \ {idx}} = Users \ {c}
      /\ Named[c] = usernames[idx] /\ Room!Users = Users
      /\ pc = "clients" /\ ~Stopped /\ RoomPhase = "open" /\ Newcomer = NULL
  BY <1>1, SlotAtHand
<1>3. TablesInv /\ OwnedOnce /\ chan \in [Conns -> ChanState]
  BY DEF RoomInv, TablesInv, TypeOK
<1>4. /\ broadcast_buffer(idx, m, st, "clients")
      /\ Fatal(idx, st) = {} =>
           /\ fds' = [fds EXCEPT ![client_sockets[idx]] = NULL]
           /\ client_sockets' = [client_sockets EXCEPT ![idx] = -1]
           /\ usernames' = [usernames EXCEPT ![idx] = NULL]
  BY <1>1 DEF disconnect_client
<1>5. st \in [Conns -> ChanState] /\ \A d \in Conns : st[d] = IF d = c THEN "closed" ELSE chan[d]
  BY <1>2, <1>3 DEF ChanState
<1>6. \A k \in Occupied \ {idx} : Owner(k) # c /\ Owner(k) \in Conns
  <2>1. Users \subseteq Conns BY <1>2, WhoIsThere DEF RoomInv, Stopped
  <2>2. \A k \in Occupied \ {idx} : Owner(k) \in Users \ {c} BY <1>2
  <2> QED BY <2>1, <2>2
<1> HIDE DEF m, st
<1>7. \A k \in Occupied \ {idx} : st[Owner(k)] = chan[Owner(k)]
  BY <1>5, <1>6
<1>8. /\ \A d \in Conns : /\ chan'[d] = "new" <=> st[d] = "new"
                          /\ chan'[d] \in {"aborted", "reset", "closed"}
                               <=> st[d] \in {"aborted", "reset", "closed"}
      /\ Fatal(idx, st) = {} => /\ pc' = "clients"
                                /\ s2c' = Room!Told({Owner(k) : k \in Occupied \ {idx}}, m)
      /\ Fatal(idx, st) # {} =>
           /\ pc' = "killed"
           /\ \E d \in Users : d \in Deaf'
           /\ \A d \in Conns : \/ s2c'[d] = s2c[d]
                               \/ Len(s2c'[d]) = Len(s2c[d]) + 1 /\ d \in Users \ Deaf
  BY <1>2, <1>3, <1>4, <1>5, <1>7, BroadcastTells
<1>9. Came' = Came /\ Deaf' = Deaf \cup {c}
  <2>1. chan[c] # "new" BY <1>2, WhoIsThere DEF RoomInv, Stopped
  <2>2. \A d \in Conns : /\ chan'[d] = "new" <=> chan[d] = "new"
                         /\ chan'[d] \in {"aborted", "reset", "closed"}
                              <=> d = c \/ chan[d] \in {"aborted", "reset", "closed"}
    BY <1>5, <1>8, <2>1
  <2> QED BY <1>1, <1>2, <2>2 DEF Came, Deaf
<1>10. CASE Fatal(idx, st) # {}
  BY <1>2, <1>8, <1>9, <1>10, BroadcastDies
<1>11. CASE Fatal(idx, st) = {}
  <2>1. RoomPhase' = "open" /\ Newcomer' = NULL /\ ~Stopped'
    BY <1>8, <1>11 DEF RoomPhase, Newcomer, Stopped
  <2>2. idx \in Slots /\ client_sockets[idx] \in Fds
    BY <1>2, OccupiedType DEF RoomInv, Stopped
  <2>3. Occupied' = Occupied \ {idx}
    BY <1>3, <1>4, <1>11, <2>2 DEF TablesInv, TypeOK, Occupied
  <2>4. \A k \in Occupied \ {idx} : Owner(k)' = Owner(k) /\ usernames'[k] = usernames[k]
    <3>1. \A k \in Occupied \ {idx} : client_sockets[k] # client_sockets[idx] /\ client_sockets[k] \in Fds
      BY <1>2, <1>3, OccupiedType DEF TablesInv, SlotsAgree, Stopped
    <3> QED BY <1>3, <1>4, <1>11, <3>1 DEF TablesInv, TypeOK, Owner, Occupied
  <2>5. Users' = Users \ {c}
    <3>1. Users' = {Owner(k) : k \in Occupied \ {idx}} BY <2>3, <2>4 DEF Users
    <3> QED BY <1>2, <3>1
  <2>6. /\ Named = [d \in Users |-> Named[d]] /\ \A k \in Occupied : Named[Owner(k)] = usernames[k]
        /\ Named' = [d \in Users' |-> Named'[d]] /\ \A k \in Occupied' : Named'[Owner(k)'] = usernames'[k]
    BY <1>2, <2>1 DEF RoomInv, NamesBySlot
  <2>7. \A d \in Users \ {c} : Named'[d] = Named[d]
    <3>1. \A k \in Occupied \ {idx} : Named'[Owner(k)] = Named[Owner(k)] BY <2>3, <2>4, <2>6
    <3>2. \A d \in Users \ {c} : \E k \in Occupied \ {idx} : d = Owner(k) BY <1>2
    <3> QED BY <3>1, <3>2
  <2>8. Named' = [d \in Users \ {c} |-> Named[d]]
    BY <2>5, <2>6, <2>7
  <2>9. s2c' = Room!Told(Users \ {c}, m) BY <1>2, <1>8, <1>11
  <2>10. m = [kind |-> "left", from |-> c, user |-> Named[c]] BY <1>2 DEF m
  <2> HIDE DEF c
  <2>11. Room!Leaves(c)
    BY <1>2, <1>9, <2>1, <2>8, <2>9, <2>10 DEF Room!Leaves, Room!Others
  <2> QED BY <1>2, <2>11 DEF Room!RoomNext
<1> QED BY <1>10, <1>11

LEMMA ErrorBreaks ==
    ASSUME RoomInv, NamesBySlot', ClientError
    PROVE  Room!RoomNext
<1> DEFINE c == Owner(idx)
<1>1. /\ AtSlot /\ Selected(idx) /\ chan' = [chan EXCEPT ![c] = "reset"] /\ chan[c] = "aborted"
      /\ UNCHANGED <<slotVars, fds>> /\ UNCHANGED <<backlog, s2c, inbuf, pc>>
  BY DEF ClientError, handlerUnchanged
<1>2. c \in Conns /\ pc = "clients" /\ ~Stopped /\ RoomPhase = "open" /\ Newcomer = NULL
  BY <1>1, SlotAtHand
<1>3. ~Stopped' /\ RoomPhase' = "open" /\ Newcomer' = NULL
  BY <1>1, <1>2 DEF Stopped, RoomPhase, Newcomer
<1>4. Named' = Named BY <1>1, <1>2, <1>3, RoomFrame
<1>5. Came' = Came /\ Deaf' = Deaf \cup {c}
  BY <1>1, <1>2 DEF RoomInv, TablesInv, TypeOK, Came, Deaf
<1> HIDE DEF c
<1>6. Room!Breaks(c)
  BY <1>1, <1>2, <1>3, <1>4, <1>5 DEF Room!Breaks
<1> QED BY <1>2, <1>6 DEF Room!RoomNext

LEMMA ByeIsSaid ==
    ASSUME RoomInv, NamesBySlot', SayBye
    PROVE  Room!RoomNext
<1> DEFINE m == [kind |-> "bye"]
<1>1. /\ pc = "exit" /\ broadcast_buffer(-1, m, chan, "closing")
      /\ UNCHANGED <<slotVars, fds>> /\ UNCHANGED <<backlog, inbuf>>
  BY DEF SayBye, serverVars
<1>2. ~Stopped /\ RoomPhase = "closing" /\ Newcomer = NULL
  BY <1>1 DEF Stopped, RoomPhase, Newcomer
<1>3. TablesInv /\ OwnedOnce /\ chan \in [Conns -> ChanState]
  BY DEF RoomInv, TablesInv, TypeOK
<1>4. {Owner(k) : k \in Occupied \ {-1}} = Users /\ Room!Users = Users
  <2>1. -1 \notin Occupied BY ServerAssumption DEF Occupied, Slots
  <2> QED BY <1>2, <2>1, RosterIsRooms DEF Users, RoomInv
<1> HIDE DEF m
<1>5. /\ \A d \in Conns : /\ chan'[d] = "new" <=> chan[d] = "new"
                          /\ chan'[d] \in {"aborted", "reset", "closed"}
                               <=> chan[d] \in {"aborted", "reset", "closed"}
      /\ Fatal(-1, chan) = {} => /\ pc' = "closing"
                                 /\ s2c' = Room!Told({Owner(k) : k \in Occupied \ {-1}}, m)
      /\ Fatal(-1, chan) # {} =>
           /\ pc' = "killed"
           /\ \E d \in Users : d \in Deaf'
           /\ \A d \in Conns : \/ s2c'[d] = s2c[d]
                               \/ Len(s2c'[d]) = Len(s2c[d]) + 1 /\ d \in Users \ Deaf
  BY <1>1, <1>2, <1>3, BroadcastTells
<1>6. Came' = Came /\ Deaf' = Deaf
  BY <1>1, <1>5 DEF Came, Deaf
<1>7. CASE Fatal(-1, chan) # {}
  BY <1>2, <1>5, <1>6, <1>7, BroadcastDies
<1>8. CASE Fatal(-1, chan) = {}
  <2>1. RoomPhase' = "said" /\ Newcomer' = NULL /\ ~Stopped'
    BY <1>5, <1>8 DEF RoomPhase, Newcomer, Stopped
  <2>2. Named' = Named BY <1>1, <1>2, <2>1, RoomFrame
  <2>3. Room!SaysBye
    BY <1>1, <1>2, <1>4, <1>5, <1>6, <1>8, <2>1, <2>2 DEF Room!SaysBye, m
  <2> QED BY <2>3 DEF Room!RoomNext
<1> QED BY <1>7, <1>8

LEMMA ClosingEnds ==
    ASSUME RoomInv, CloseAll
    PROVE  Room!RoomNext
<1>1. /\ pc = "closing" /\ pc' = "done"
      /\ chan' = [c \in Conns |-> IF \E j \in Occupied : Owner(j) = c THEN "closed" ELSE chan[c]]
      /\ UNCHANGED <<backlog, s2c, inbuf>>
  BY DEF CloseAll
<1>2. /\ ~Stopped /\ RoomPhase = "said" /\ RoomPhase' = "over" /\ Newcomer = NULL /\ Newcomer' = NULL
  BY <1>1 DEF Stopped, RoomPhase, Newcomer
<1>3. Users \subseteq Conns /\ (\A c \in Users : chan[c] # "new") /\ Room!Users = Users
  BY <1>1, <1>2, WhoIsThere, RosterIsRooms DEF RoomInv
<1>4. \A c \in Conns : chan'[c] = IF c \in Users THEN "closed" ELSE chan[c]
  BY <1>1 DEF Users
<1>5. Came' = Came /\ Deaf' = Deaf \cup Users
  BY <1>1, <1>3, <1>4 DEF Came, Deaf
<1>6. Named' = <<>>
  <2>1. Named' = [c \in {} |-> NameOf(c)'] BY <1>1 DEF Named, Stopped
  <2> QED BY <2>1
<1>7. Room!Ends
  BY <1>1, <1>2, <1>3, <1>5, <1>6 DEF Room!Ends
<1> QED BY <1>7 DEF Room!RoomNext

\* Every step of the server, its peers and its signals is a step of the room.
LEMMA StepImplements ==
    ASSUME RoomInv, OwnedOnce', NamesBySlot', [Next]_vars
    PROVE  [Room!RoomNext]_(Room!roomVars)
<1>1. CASE UNCHANGED vars
  <2>1. UNCHANGED <<RoomPhase, Came, Newcomer, Deaf>> /\ UNCHANGED <<s2c, inbuf>>
    BY <1>1 DEF vars, netVars, RoomPhase, Stopped, Came, Newcomer, Deaf
  <2>2. Named' = Named
    <3>1. CASE Stopped
      BY <1>1, <3>1 DEF vars, Named, Stopped
    <3>2. CASE ~Stopped
      BY <1>1, <3>2, RoomFrame DEF vars, Stopped
    <3> QED BY <3>1, <3>2
  <2> QED BY <2>1, <2>2 DEF Room!roomVars
<1>2. CASE Next
  BY <1>2, PeersAreQuiet, LoopIsQuiet, RefuseRefuses, WelcomeGreets, HangUpTurnsBack, NameJoins,
     TextChats, DisconnectLeaves, ErrorBreaks, ByeIsSaid, ClosingEnds DEF Next, Server, Environment
<1> QED BY <1>1, <1>2

\* The server implements the room, for any number of connections and slots.
THEOREM ServerImplementsRoom == Spec => ImplementsRoom
<1>1. TablesInv /\ ReadInv => OwnedOnce /\ NamesBySlot
  BY SlotNames DEF ReadInv
<1>2. TablesInv /\ OwnedOnce /\ NamesBySlot /\ OwnedOnce' /\ NamesBySlot' /\ [Next]_vars
        => [Room!RoomNext]_(Room!roomVars)
  BY StepImplements DEF RoomInv
<1> QED BY <1>1, <1>2, RoomInitially, TablesConsistent, ReadsConsistent, PTL
        DEF Spec, ImplementsRoom, Room!RoomSpec


-----------------------------------------------------------------------------
(* What the users conclude from what they hear.                            *)

\* A stream says that a user is present if it introduced the user and did not
\* retract it since.
LEMMA PresentMeans ==
    ASSUME NEW s, NEW p
    PROVE  p \in Room!Present(s) <=>
             \E k \in DOMAIN s : /\ Room!Introduces(s[k], p)
                                 /\ \A l \in DOMAIN s : l > k => ~Room!Retracts(s[l], p)
<1> DEFINE By(m) == IF m.kind = "welcome" THEN m.users
                    ELSE IF m.kind = "joined" THEN {<<m.from, m.user>>} ELSE {}
           Since(k) == \A l \in DOMAIN s : l > k => ~Room!Retracts(s[l], p)
           Mentioned == UNION {By(s[k]) : k \in DOMAIN s}
<1>1. Room!Present(s) = {q \in Mentioned : \E k \in DOMAIN s :
                            /\ Room!Introduces(s[k], q)
                            /\ \A l \in DOMAIN s : l > k => ~Room!Retracts(s[l], q)}
  BY DEF Room!Present
<1>2. p \in Room!Present(s) <=> /\ p \in Mentioned
                                /\ \E k \in DOMAIN s : Room!Introduces(s[k], p) /\ Since(k)
  BY <1>1, Zenon
<1>3. ASSUME NEW k \in DOMAIN s, Room!Introduces(s[k], p) PROVE p \in By(s[k])
  BY <1>3 DEF Room!Introduces
<1>4. (\E k \in DOMAIN s : Room!Introduces(s[k], p)) => p \in Mentioned
  <2> HIDE DEF By
  <2> QED BY <1>3
<1> QED BY <1>2, <1>4

\* Of a stream that grows by one message, what its last message changes.
LEMMA PresentAppend ==
    ASSUME NEW s \in Seq(Message), NEW m
    PROVE  /\ m.kind = "welcome" => Room!Present(Append(s, m)) = Room!Present(s) \cup m.users
           /\ m.kind = "joined" =>
                Room!Present(Append(s, m)) = Room!Present(s) \cup {<<m.from, m.user>>}
           /\ m.kind = "left" =>
                Room!Present(Append(s, m)) = Room!Present(s) \ {<<m.from, m.user>>}
           /\ m.kind \in {"chat", "bye"} => Room!Present(Append(s, m)) = Room!Present(s)
<1> DEFINE t == Append(s, m)
           n == Len(s)
<1>1. /\ n \in Nat /\ DOMAIN s = 1 .. n /\ DOMAIN t = 1 .. n + 1 /\ t[n + 1] = m
      /\ \A k \in 1 .. n : t[k] = s[k]
  OBVIOUS
<1> HIDE DEF t, n
<1>3. ASSUME NEW p
      PROVE  p \in Room!Present(t) <=> \/ Room!Introduces(m, p)
                                       \/ p \in Room!Present(s) /\ ~Room!Retracts(m, p)
  <2> DEFINE I(k) == Room!Introduces(s[k], p)
             R(k) == Room!Retracts(s[k], p)
             J(k) == Room!Introduces(t[k], p)
             Q(k) == Room!Retracts(t[k], p)
  <2>1. p \in Room!Present(t) <=>
          \E k \in 1 .. n + 1 : J(k) /\ \A l \in 1 .. n + 1 : l > k => ~Q(l)
    BY <1>1, PresentMeans
  <2>2. p \in Room!Present(s) <=> \E k \in 1 .. n : I(k) /\ \A l \in 1 .. n : l > k => ~R(l)
    BY <1>1, PresentMeans
  <2>3. /\ \A k \in 1 .. n : (J(k) <=> I(k)) /\ (Q(k) <=> R(k))
        /\ J(n + 1) <=> Room!Introduces(m, p)
        /\ Q(n + 1) <=> Room!Retracts(m, p)
    BY <1>1
  <2> HIDE DEF I, R, J, Q
  <2>4. ASSUME J(n + 1) PROVE p \in Room!Present(t)
    BY <1>1, <2>1, <2>4
  <2>5. ASSUME p \in Room!Present(s), ~Q(n + 1) PROVE p \in Room!Present(t)
    BY <1>1, <2>1, <2>2, <2>3, <2>5
  <2>6. ASSUME p \in Room!Present(t), ~J(n + 1) PROVE p \in Room!Present(s) /\ ~Q(n + 1)
    BY <1>1, <2>1, <2>2, <2>3, <2>6
  <2> QED BY <2>3, <2>4, <2>5, <2>6
<1>4. CASE m.kind = "welcome"
  <2>1. \A p : (Room!Introduces(m, p) <=> p \in m.users) /\ ~Room!Retracts(m, p)
    BY <1>4 DEF Room!Introduces, Room!Retracts
  <2>2. \A p : p \in Room!Present(t) <=> p \in Room!Present(s) \/ p \in m.users
    BY <1>3, <2>1
  <2> QED BY <1>4, <2>2 DEF t
<1>5. CASE m.kind = "joined"
  <2>1. \A p : (Room!Introduces(m, p) <=> p = <<m.from, m.user>>) /\ ~Room!Retracts(m, p)
    BY <1>5 DEF Room!Introduces, Room!Retracts
  <2>2. \A p : p \in Room!Present(t) <=> p \in Room!Present(s) \/ p = <<m.from, m.user>>
    BY <1>3, <2>1
  <2> QED BY <1>5, <2>2 DEF t
<1>6. CASE m.kind = "left"
  <2>1. \A p : ~Room!Introduces(m, p) /\ (Room!Retracts(m, p) <=> p = <<m.from, m.user>>)
    BY <1>6 DEF Room!Introduces, Room!Retracts
  <2>2. \A p : p \in Room!Present(t) <=> p \in Room!Present(s) /\ p # <<m.from, m.user>>
    BY <1>3, <2>1
  <2> QED BY <1>6, <2>2 DEF t
<1>7. CASE m.kind \in {"chat", "bye"}
  <2>1. \A p : ~Room!Introduces(m, p) /\ ~Room!Retracts(m, p)
    BY <1>7 DEF Room!Introduces, Room!Retracts
  <2>2. \A p : p \in Room!Present(t) <=> p \in Room!Present(s)
    BY <1>3, <2>1
  <2> QED BY <1>7, <2>2 DEF t
<1> QED BY <1>4, <1>5, <1>6, <1>7

\* Nobody is mentioned in an empty stream.
LEMMA PresentNobody == Room!Present(<<>>) = {}
BY DEF Room!Present

\* What the stream of everybody who is there, or about to be, says.  A newcomer
\* was told who is there, and nobody enters or leaves before it is in.
StreamsInv ==
    /\ Room!Users \subseteq Came /\ Came \subseteq Conns
    /\ \A c \in Conns \ Came : s2c[c] = <<>>
    /\ Newcomer # NULL =>
         /\ RoomPhase = "open" /\ Newcomer \in Came \ Room!Users
         /\ Newcomer \notin Deaf => Room!Present(s2c[Newcomer]) = Room!RoomRoster
    /\ PresenceIsExact

\* What is told changes only the streams of those it is told to.
LEMMA ToldChanges ==
    ASSUME NEW S, NEW m, NEW c \in Conns, s2c' = Room!Told(S, m)
    PROVE  s2c'[c] = IF c \in S /\ c \notin Deaf THEN Append(s2c[c], m) ELSE s2c[c]
BY DEF Room!Told

\* The steps that change neither the users nor what the others are told of them.
LEMMA StreamsFrame ==
    ASSUME StreamsInv, Named' = Named, Deaf \subseteq Deaf', RoomPhase' = RoomPhase \/ Newcomer' = NULL,
           Came \subseteq Came', Came' \subseteq Conns,
           Newcomer' = Newcomer \/ Newcomer' = NULL,
           \A c \in Conns \ Came' : s2c'[c] = s2c[c],
           \A c \in Came \ Deaf' : Room!Present(s2c'[c]) = Room!Present(s2c[c])
    PROVE  StreamsInv'
<1>1. Room!Users' = Room!Users /\ Room!RoomRoster' = Room!RoomRoster
  BY DEF Room!Users, Room!RoomRoster
<1>2. Room!Users' \subseteq Came' /\ Came' \subseteq Conns /\ \A c \in Conns \ Came' : s2c'[c] = <<>>
  BY <1>1 DEF StreamsInv
<1>3. Newcomer' # NULL =>
        /\ RoomPhase' = "open" /\ Newcomer' \in Came' \ Room!Users'
        /\ Newcomer' \notin Deaf' => Room!Present(s2c'[Newcomer']) = Room!RoomRoster'
  BY <1>1 DEF StreamsInv
<1>4. Room!PresenceIsExact'
  <2>1. \A c \in Room!Users \ Deaf' : Room!Present(s2c'[c]) = Room!RoomRoster \ {<<c, Named[c]>>}
    BY DEF StreamsInv, PresenceIsExact, Room!PresenceIsExact
  <2> QED BY <1>1, <2>1 DEF Room!PresenceIsExact
<1> QED BY <1>2, <1>3, <1>4 DEF StreamsInv, PresenceIsExact

\* A newcomer is told who is there.
LEMMA GreetingIsExact ==
    ASSUME s2c \in [Conns -> Seq(Message)], StreamsInv, NEW c \in Conns, Room!Greets(c)
    PROVE  StreamsInv'
<1> DEFINE m == [kind |-> "welcome", users |-> Room!RoomRoster]
<1>1. /\ RoomPhase = "open" /\ c \notin Came /\ Came' = Came \cup {c} /\ Newcomer' = c
      /\ s2c' = Room!Told({c}, m)
      /\ RoomPhase' = RoomPhase /\ Named' = Named /\ Deaf' = Deaf
  BY DEF Room!Greets
<1>2. /\ Room!Users' = Room!Users /\ Room!RoomRoster' = Room!RoomRoster
      /\ Room!Users \subseteq Came /\ Came \subseteq Conns /\ s2c[c] = <<>>
  BY <1>1 DEF Room!Users, Room!RoomRoster, StreamsInv
<1>3. m.kind = "welcome" /\ m.users = Room!RoomRoster
  OBVIOUS
<1> HIDE DEF m
<1>4. \A d \in Conns : s2c'[d] = IF d = c /\ d \notin Deaf THEN Append(s2c[d], m) ELSE s2c[d]
  BY <1>1, ToldChanges
<1>5. c \notin Deaf => Room!Present(s2c'[c]) = Room!RoomRoster
  <2>1. Room!Present(Append(<<>>, m)) = Room!Present(<<>>) \cup m.users
    <3>1. <<>> \in Seq(Message) OBVIOUS
    <3> QED BY <1>3, <3>1, PresentAppend
  <2> QED BY <1>2, <1>3, <1>4, <2>1, PresentNobody
<1>6. Room!PresenceIsExact'
  <2>1. \A d \in Room!Users : s2c'[d] = s2c[d] BY <1>1, <1>2, <1>4
  <2> QED BY <1>1, <1>2, <2>1 DEF StreamsInv, PresenceIsExact, Room!PresenceIsExact
<1>7. \A d \in Conns \ Came' : s2c'[d] = <<>>
  BY <1>1, <1>4 DEF StreamsInv
<1>8. Came' \subseteq Conns /\ Room!Users' \subseteq Came' /\ RoomPhase' = "open" /\ c \in Came' \ Room!Users'
  BY <1>1, <1>2
<1> QED BY <1>1, <1>2, <1>5, <1>6, <1>7, <1>8 DEF StreamsInv, PresenceIsExact

\* Who enters knows who is there, and everybody else learns who enters.
LEMMA EntryIsExact ==
    ASSUME s2c \in [Conns -> Seq(Message)], StreamsInv, NEW c \in Conns, Room!Joins(c), NULL \notin Conns
    PROVE  StreamsInv'
<1> DEFINE m == [kind |-> "joined", from |-> c, user |-> inbuf']
           p == <<c, inbuf'>>
<1>1. /\ RoomPhase = "open" /\ Newcomer = c /\ Newcomer' = NULL
      /\ Named' = [d \in Room!Users \cup {c} |-> IF d = c THEN inbuf' ELSE Named[d]]
      /\ s2c' = Room!Told(Room!Users, m)
      /\ Came' = Came /\ Deaf \subseteq Deaf'
  BY DEF Room!Joins
<1>2. /\ c \in Came /\ c \notin Room!Users /\ Room!Users \subseteq Came /\ Came \subseteq Conns
      /\ c \notin Deaf => Room!Present(s2c[c]) = Room!RoomRoster
  BY <1>1 DEF StreamsInv
<1>3. /\ Room!Users' = Room!Users \cup {c} /\ Named'[c] = inbuf'
      /\ \A d \in Room!Users : Named'[d] = Named[d]
  BY <1>1, <1>2 DEF Room!Users
<1>4. Room!RoomRoster' = Room!RoomRoster \cup {p}
  BY <1>2, <1>3 DEF Room!RoomRoster
<1>5. p \notin Room!RoomRoster
  BY <1>2 DEF Room!RoomRoster
<1>6. m.kind = "joined" /\ <<m.from, m.user>> = p
  OBVIOUS
<1> HIDE DEF m
<1>7. \A d \in Conns : s2c'[d] = IF d \in Room!Users /\ d \notin Deaf THEN Append(s2c[d], m) ELSE s2c[d]
  BY <1>1, ToldChanges
<1>8. ASSUME NEW d \in Room!Users' \ Deaf'
      PROVE  Room!Present(s2c'[d]) = Room!RoomRoster' \ {<<d, Named'[d]>>}
  <2>1. CASE d = c
    <3>1. s2c'[c] = s2c[c] /\ c \notin Deaf BY <1>1, <1>2, <1>7, <1>8, <2>1
    <3>2. Room!Present(s2c'[c]) = Room!RoomRoster BY <1>2, <3>1
    <3> QED BY <1>3, <1>4, <1>5, <2>1, <3>2
  <2>2. CASE d \in Room!Users
    <3>1. d \in Conns /\ d \notin Deaf /\ d # c BY <1>1, <1>2, <1>8, <2>2
    <3>2. Room!Present(s2c'[d]) = Room!Present(s2c[d]) \cup {p}
      <4>1. s2c[d] \in Seq(Message) BY <3>1
      <4>2. Room!Present(Append(s2c[d], m)) = Room!Present(s2c[d]) \cup {<<m.from, m.user>>}
        BY <1>6, <4>1, PresentAppend
      <4> QED BY <1>6, <1>7, <2>2, <3>1, <4>2
    <3>3. Room!Present(s2c[d]) = Room!RoomRoster \ {<<d, Named[d]>>}
      BY <2>2, <3>1 DEF StreamsInv, PresenceIsExact, Room!PresenceIsExact
    <3>4. <<d, Named[d]>> # p BY <3>1
    <3> HIDE DEF p
    <3> QED BY <1>3, <1>4, <2>2, <3>2, <3>3, <3>4
  <2> QED BY <1>3, <1>8, <2>1, <2>2
<1>9. \A d \in Conns \ Came' : s2c'[d] = <<>>
  BY <1>1, <1>2, <1>7 DEF StreamsInv
<1>10. PresenceIsExact'
  BY <1>8 DEF PresenceIsExact, Room!PresenceIsExact
<1> QED BY <1>1, <1>2, <1>3, <1>9, <1>10 DEF StreamsInv

\* Everybody who stays learns who leaves.
LEMMA ExitIsExact ==
    ASSUME s2c \in [Conns -> Seq(Message)], StreamsInv, NEW c \in Conns, Room!Leaves(c)
    PROVE  StreamsInv'
<1> DEFINE m == [kind |-> "left", from |-> c, user |-> Named[c]]
           p == <<c, Named[c]>>
           Rest == Room!Users \ {c}
<1>1. /\ Newcomer = NULL /\ Newcomer' = NULL /\ c \in Room!Users
      /\ Named' = [d \in Rest |-> Named[d]]
      /\ s2c' = Room!Told(Rest, m)
      /\ Came' = Came /\ Deaf' = Deaf \cup {c}
  BY DEF Room!Leaves, Room!Others
<1>2. Room!Users \subseteq Came /\ Came \subseteq Conns
  BY DEF StreamsInv
<1>3. Room!Users' = Rest /\ \A d \in Rest : Named'[d] = Named[d]
  BY <1>1 DEF Room!Users
<1>4. Room!RoomRoster' = Room!RoomRoster \ {p}
  BY <1>1, <1>3 DEF Room!RoomRoster
<1>5. m.kind = "left" /\ <<m.from, m.user>> = p
  OBVIOUS
<1> HIDE DEF m
<1>6. \A d \in Conns : s2c'[d] = IF d \in Rest /\ d \notin Deaf THEN Append(s2c[d], m) ELSE s2c[d]
  BY <1>1, ToldChanges
<1>7. ASSUME NEW d \in Room!Users' \ Deaf'
      PROVE  Room!Present(s2c'[d]) = Room!RoomRoster' \ {<<d, Named'[d]>>}
  <2>1. d \in Rest /\ d \in Room!Users /\ d \in Conns /\ d \notin Deaf /\ d # c
    BY <1>1, <1>2, <1>3, <1>7
  <2>2. Room!Present(s2c'[d]) = Room!Present(s2c[d]) \ {p}
    <3>1. s2c[d] \in Seq(Message) BY <2>1
    <3>2. Room!Present(Append(s2c[d], m)) = Room!Present(s2c[d]) \ {<<m.from, m.user>>}
      BY <1>5, <3>1, PresentAppend
    <3> QED BY <1>5, <1>6, <2>1, <3>2
  <2>3. Room!Present(s2c[d]) = Room!RoomRoster \ {<<d, Named[d]>>}
    BY <2>1 DEF StreamsInv, PresenceIsExact, Room!PresenceIsExact
  <2> HIDE DEF p
  <2> QED BY <1>3, <1>4, <2>1, <2>2, <2>3
<1>8. \A d \in Conns \ Came' : s2c'[d] = <<>>
  BY <1>1, <1>2, <1>6 DEF StreamsInv
<1>9. PresenceIsExact'
  BY <1>7 DEF PresenceIsExact, Room!PresenceIsExact
<1> QED BY <1>1, <1>2, <1>3, <1>8, <1>9 DEF StreamsInv

\* Text and "bye" say nothing of who is there.
LEMMA TalkIsExact ==
    ASSUME s2c \in [Conns -> Seq(Message)], StreamsInv,
           Room!SaysBye \/ \E c \in Conns : Room!Chats(c)
    PROVE  StreamsInv'
<1>1. PICK m, S : /\ m.kind \in {"chat", "bye"} /\ S \subseteq Room!Users /\ s2c' = Room!Told(S, m)
                  /\ UNCHANGED <<Named, Deaf, Came, Newcomer>>
                  /\ RoomPhase' = RoomPhase \/ RoomPhase # "open"
  <2>1. CASE Room!SaysBye
    <3>1. [kind |-> "bye"].kind \in {"chat", "bye"} OBVIOUS
    <3> QED BY <2>1, <3>1 DEF Room!SaysBye
  <2>2. CASE \E c \in Conns : Room!Chats(c)
    <3>1. PICK c \in Conns : Room!Chats(c) BY <2>2
    <3> DEFINE m == [kind |-> "chat", from |-> c, user |-> Named[c], text |-> inbuf']
    <3>2. m.kind \in {"chat", "bye"} OBVIOUS
    <3>3. s2c' = Room!Told(Room!Others(c), m) BY <3>1 DEF Room!Chats
    <3> HIDE DEF m
    <3> QED BY <3>1, <3>2, <3>3 DEF Room!Chats, Room!Others
  <2> QED BY <2>1, <2>2
<1>2. \A c \in Conns : s2c'[c] = IF c \in S /\ c \notin Deaf THEN Append(s2c[c], m) ELSE s2c[c]
  BY <1>1, ToldChanges
<1>3. ASSUME NEW c \in Conns PROVE Room!Present(s2c'[c]) = Room!Present(s2c[c])
  <2>1. s2c[c] \in Seq(Message) OBVIOUS
  <2>2. Room!Present(Append(s2c[c], m)) = Room!Present(s2c[c])
    BY <1>1, <2>1, PresentAppend
  <2> QED BY <1>2, <2>2
<1>4. Room!Users \subseteq Came /\ Came \subseteq Conns /\ (RoomPhase # "open" => Newcomer = NULL)
  BY DEF StreamsInv
<1>5. \A c \in Conns \ Came' : s2c'[c] = s2c[c]
  BY <1>1, <1>2, <1>4
<1> QED BY <1>1, <1>3, <1>4, <1>5, StreamsFrame

\* When the room is empty nobody has to know anything.
LEMMA OverIsExact ==
    ASSUME StreamsInv, Room!Ends \/ Room!Dies
    PROVE  StreamsInv'
<1>1. /\ Newcomer' = NULL /\ Named' = <<>> /\ Came' = Came
      /\ \A c \in Conns \ Room!Users : s2c'[c] = s2c[c]
  BY DEF Room!Ends, Room!Dies, StreamsInv
<1>2. Room!Users' = {}
  BY <1>1 DEF Room!Users
<1>3. \A c \in Conns \ Came' : s2c'[c] = <<>>
  BY <1>1 DEF StreamsInv
<1>4. PresenceIsExact'
  BY <1>2 DEF PresenceIsExact, Room!PresenceIsExact
<1> QED BY <1>1, <1>2, <1>3, <1>4 DEF StreamsInv

LEMMA StreamsNext ==
    ASSUME TypeOK, StreamsInv, [Room!RoomNext]_(Room!roomVars)
    PROVE  StreamsInv'
<1>1. s2c \in [Conns -> Seq(Message)] BY DEF TypeOK
<1>2. Came \subseteq Conns /\ Came' \subseteq Conns BY DEF Came
<1>3. CASE UNCHANGED Room!roomVars
  BY <1>2, <1>3, StreamsFrame DEF Room!roomVars
<1>4. ASSUME NEW c \in Conns, Room!Refuses(c) \/ Room!TurnsBack(c) \/ Room!Breaks(c)
      PROVE  StreamsInv'
  BY <1>2, <1>4, StreamsFrame DEF Room!Refuses, Room!TurnsBack, Room!Breaks
<1>5. CASE Room!Closes
  BY <1>2, <1>5, StreamsFrame DEF Room!Closes
<1> QED BY <1>1, <1>3, <1>4, <1>5, GreetingIsExact, EntryIsExact, ExitIsExact, TalkIsExact,
        OverIsExact, ServerAssumption DEF Room!RoomNext

\* The streams are as StreamsInv says in every reachable state.
THEOREM StreamsConsistent == Spec => []StreamsInv
<1>1. Init => StreamsInv
  <2> SUFFICES ASSUME Init PROVE StreamsInv OBVIOUS
  <2>1. Room!RoomInit BY RoomInitially
  <2>2. Room!Users = {} /\ Came = {} /\ Newcomer = NULL
    BY <2>1 DEF Room!RoomInit, Room!Users
  <2>3. \A c \in Conns : s2c[c] = <<>> BY DEF Init
  <2> QED BY <2>2, <2>3 DEF StreamsInv, PresenceIsExact, Room!PresenceIsExact
<1>2. TablesInv => TypeOK BY DEF TablesInv
<1>3. TypeOK /\ StreamsInv /\ [Room!RoomNext]_(Room!roomVars) => StreamsInv'
  BY StreamsNext
<1> QED BY <1>1, <1>2, <1>3, TablesConsistent, ServerImplementsRoom, PTL
        DEF Spec, ImplementsRoom, Room!RoomSpec

\* In every reachable state everybody whose connection works has been told, by
\* the welcome's list and the arrivals and departures since, exactly who else
\* is in the room.
THEOREM PresenceAlwaysExact == Spec => []PresenceIsExact
<1>1. StreamsInv => PresenceIsExact BY DEF StreamsInv
<1> QED BY <1>1, StreamsConsistent, PTL


-----------------------------------------------------------------------------
(* What becomes of descriptors that nobody closes.                         *)

\* A broadcast leaves those it is not for alone.
LEMMA BroadcastLeavesAlone ==
    ASSUME NEW st \in [Conns -> ChanState], NEW m, NEW skip, NEW then,
           broadcast_buffer(skip, m, st, then),
           NEW c \in Conns, \A j \in Occupied : Owner(j) # c
    PROVE  chan'[c] = st[c]
<1> DEFINE R == Reached(skip, st)
<1>1. chan' = [d \in Conns |-> IF d \in R THEN AfterSend(st[d]) ELSE st[d]]
  BY DEF broadcast_buffer
<1>2. c \notin R BY DEF Reached
<1> HIDE DEF R
<1> QED BY <1>1, <1>2

\* Receiving from one connection takes nothing from another.
LEMMA ReceiveLeavesAlone ==
    ASSUME TypeOK, NEW c \in Conns, NEW d, c # d, Receive(d)
    PROVE  c2s'[c] = c2s[c]
BY DEF TypeOK, Receive

\* The steps that touch neither streams from peers nor connections.
LEMMA SilentSteps ==
    ASSUME [Next]_vars
    PROVE  \/ UNCHANGED <<chan, c2s>>
           \/ \E c \in Conns : Connect(c) \/ Say(c) \/ HangUp(c) \/ ResetArrives(c)
           \/ Refuse \/ Welcome \/ NameReceived \/ NameReset \/ NameInterrupted
           \/ ClientText \/ ClientBye \/ ClientClosed \/ ClientError \/ SayBye \/ CloseAll
BY DEF Next, Server, Environment, Sigint, SigintInSelect, BeginSelect, LeaveLoop, SelectReturns,
       SkipAccept, AcceptFails, NameHangUp, SkipSlot, EndOfSlots, vars, netVars

HungUp(c) == chan[c] \in {"fin", "poked", "reset"} /\ c2s[c] = <<>>

\* The server does nothing more to a connection that is in no slot, not the
\* newcomer's and not in the queue, and its peer has hung up for good.
LEMMA HungUpForGood ==
    ASSUME TablesInv, OwnedOnce, [Next]_vars, NEW c \in Conns, HungUp(c),
           pc # "done" => \A j \in Occupied : Owner(j) # c,
           \A i \in 1 .. Len(backlog) : backlog[i] # c,
           pc = "name" => fds[new_socket] # c
    PROVE  HungUp(c)'
<1>1. TypeOK /\ chan \in [Conns -> ChanState] /\ c2s \in [Conns -> Text] /\ backlog \in Seq(Conns)
  BY DEF TablesInv, TypeOK
<1>2. ASSUME NEW d \in Conns, Connect(d) \/ Say(d) \/ HangUp(d) \/ ResetArrives(d)
      PROVE  HungUp(c)'
  BY <1>1, <1>2 DEF Connect, Say, HangUp, ResetArrives, HungUp
<1>3. CASE Refuse \/ Welcome
  <2>1. backlog # <<>> BY <1>3 DEF TablesInv, QueueNotEmpty, Refuse, Welcome
  <2>2. Head(backlog) = backlog[1] /\ 1 \in 1 .. Len(backlog) BY <1>1, <2>1
  <2>3. Head(backlog) # c BY <2>2
  <2>4. /\ c2s' = c2s
        /\ \/ chan' = [chan EXCEPT ![Head(backlog)] = "closed"]
           \/ chan' = [chan EXCEPT ![Head(backlog)] = AfterSend(@)]
    BY <1>3 DEF Refuse, Welcome
  <2>5. chan'[c] = chan[c] BY <1>1, <2>3, <2>4
  <2> QED BY <2>4, <2>5 DEF HungUp
<1>4. ASSUME NEW st \in [Conns -> ChanState], NEW m, NEW skip, NEW then, pc # "done",
             broadcast_buffer(skip, m, st, then), st[c] = chan[c], c2s'[c] = c2s[c]
      PROVE  HungUp(c)'
  BY <1>4, BroadcastLeavesAlone DEF HungUp
<1>5. ASSUME NEW st \in [Conns -> ChanState], AddClient(st), st[c] = chan[c], c2s'[c] = c2s[c], pc = "name"
      PROVE  HungUp(c)'
  BY <1>4, <1>5 DEF AddClient
<1>6. CASE NameReceived \/ NameReset \/ NameInterrupted
  <2>1. pc = "name" /\ fds[new_socket] # c
    BY <1>6 DEF NameReceived, NameReset, NameInterrupted
  <2>2. CASE NameReceived
    BY <1>1, <1>5, <2>1, <2>2, ReceiveLeavesAlone DEF NameReceived
  <2>3. CASE NameInterrupted
    BY <1>1, <1>5, <2>1, <2>3 DEF NameInterrupted
  <2>4. CASE NameReset
    <3> DEFINE st == [chan EXCEPT ![fds[new_socket]] = "reset"]
    <3>1. AddClient(st) /\ c2s' = c2s BY <2>4 DEF NameReset
    <3>2. st \in [Conns -> ChanState] /\ st[c] = chan[c] BY <1>1, <2>1 DEF ChanState
    <3> HIDE DEF st
    <3> QED BY <1>5, <2>1, <3>1, <3>2
  <2> QED BY <1>6, <2>2, <2>3, <2>4
<1>7. CASE ClientText \/ ClientBye \/ ClientClosed \/ ClientError
  <2>1. pc = "clients" /\ idx \in Occupied /\ Owner(idx) # c
    BY <1>7 DEF ClientText, ClientBye, ClientClosed, ClientError, AtSlot, Selected
  <2>2. c2s'[c] = c2s[c]
    BY <1>1, <1>7, <2>1, ReceiveLeavesAlone DEF ClientText, ClientBye, ClientClosed, ClientError
  <2>3. CASE ClientText
    BY <1>1, <1>4, <2>1, <2>2, <2>3 DEF ClientText
  <2>4. CASE ClientError
    BY <1>1, <2>1, <2>2, <2>4 DEF ClientError, HungUp
  <2>5. CASE ClientBye \/ ClientClosed
    <3> DEFINE st == [chan EXCEPT ![Owner(idx)] = "closed"]
    <3>1. PICK m : broadcast_buffer(idx, m, st, "clients")
      BY <2>5 DEF ClientBye, ClientClosed, disconnect_client
    <3>2. st \in [Conns -> ChanState] /\ st[c] = chan[c] BY <1>1, <2>1 DEF ChanState
    <3> HIDE DEF st
    <3> QED BY <1>4, <2>1, <2>2, <3>1, <3>2
  <2> QED BY <1>7, <2>3, <2>4, <2>5
<1>8. CASE SayBye
  BY <1>1, <1>4, <1>8 DEF SayBye
<1>9. CASE CloseAll
  BY <1>1, <1>9 DEF CloseAll, HungUp
<1>10. CASE UNCHANGED <<chan, c2s>>
  BY <1>10 DEF HungUp
<1> QED BY <1>2, <1>3, <1>6, <1>7, <1>8, <1>9, <1>10, SilentSteps

\* Nobody is told anything in a step but users, and who is greeted.
LEMMA OnlyUsersAreTold ==
    ASSUME StreamsInv, [Room!RoomNext]_(Room!roomVars), NEW c \in Came \ Room!Users
    PROVE  s2c'[c] = s2c[c]
<1>1. c \in Conns BY DEF StreamsInv
<1>2. ASSUME NEW S, NEW m, c \notin S, s2c' = Room!Told(S, m) PROVE s2c'[c] = s2c[c]
  BY <1>1, <1>2, ToldChanges
<1>3. ASSUME NEW d \in Conns,
             Room!Greets(d) \/ Room!Joins(d) \/ Room!Chats(d) \/ Room!Leaves(d)
      PROVE  s2c'[c] = s2c[c]
  <2>1. PICK S, m : s2c' = Room!Told(S, m) /\ c \notin S
    BY <1>3 DEF Room!Greets, Room!Joins, Room!Chats, Room!Leaves, Room!Others
  <2> QED BY <1>2, <2>1
<1>4. ASSUME NEW d \in Conns, Room!Refuses(d) \/ Room!TurnsBack(d) \/ Room!Breaks(d)
      PROVE  s2c'[c] = s2c[c]
  BY <1>4 DEF Room!Refuses, Room!TurnsBack, Room!Breaks
<1>5. CASE Room!SaysBye
  BY <1>2, <1>5 DEF Room!SaysBye
<1>6. CASE Room!Closes \/ Room!Ends \/ Room!Dies \/ UNCHANGED Room!roomVars
  BY <1>1, <1>6 DEF Room!Closes, Room!Ends, Room!Dies, Room!roomVars
<1> QED BY <1>3, <1>4, <1>5, <1>6 DEF Room!RoomNext

\* A newcomer has been told at most its welcome.
LEMMA WelcomeOnly ==
    ASSUME TypeOK, StreamsInv, [Room!RoomNext]_(Room!roomVars), NULL \notin Conns,
           Newcomer # NULL => Len(s2c[Newcomer]) <= 1, Newcomer' # NULL
    PROVE  Len(s2c'[Newcomer']) <= 1
<1>1. CASE Newcomer' = Newcomer
  <2>1. Newcomer \in Came \ Room!Users BY <1>1 DEF StreamsInv
  <2> QED BY <1>1, <2>1, OnlyUsersAreTold
<1>2. CASE Newcomer' # Newcomer
  <2>1. PICK c \in Conns : Room!Greets(c)
    BY <1>2 DEF Room!RoomNext, Room!roomVars, Room!Refuses, Room!Joins, Room!TurnsBack, Room!Chats,
       Room!Leaves, Room!Breaks, Room!Closes, Room!SaysBye, Room!Ends, Room!Dies
  <2>2. PICK m : s2c' = Room!Told({c}, m) BY <2>1 DEF Room!Greets
  <2>3. Newcomer' = c /\ s2c[c] = <<>> BY <2>1 DEF Room!Greets, StreamsInv
  <2>4. s2c'[c] = Append(<<>>, m) \/ s2c'[c] = <<>> BY <2>2, <2>3, ToldChanges
  <2>5. Len(Append(<<>>, m)) = 1 /\ Len(<<>>) = 0
    <3>1. <<>> \in Seq(Message) /\ Len(<<>>) = 0 OBVIOUS
    <3>2. \A s \in Seq(Message) : Len(Append(s, m)) = Len(s) + 1 OBVIOUS
    <3> QED BY <3>1, <3>2
  <2>6. Len(s2c'[c]) <= 1
    <3>1. CASE s2c'[c] = Append(<<>>, m) BY <2>5, <3>1
    <3>2. CASE s2c'[c] = <<>> BY <2>5, <3>2
    <3> QED BY <2>4, <3>1, <3>2
  <2> QED BY <2>3, <2>6
<1> QED BY <1>1, <1>2

\* Open, but neither in a slot nor being set up.
Leaked(f) == fds[f] # NULL /\ f # new_socket /\ \A j \in Occupied : client_sockets[j] # f

LeakInv ==
    /\ pc # "name" => new_socket = -1
    /\ Newcomer # NULL => Len(s2c[Newcomer]) <= 1
    /\ OnlyHangUpsLeak

\* What the steps do to slots and descriptors.
LEMMA SlotSteps ==
    ASSUME TablesInv, [Next]_vars
    PROVE  \/ UNCHANGED <<fds, slotVars, new_socket>>
              /\ (pc = "name" <=> pc' = "name")
           \/ pc = "accept" /\ Welcome
           \/ pc = "name" /\ NameHangUp
           \/ pc = "name" /\ (NameReceived \/ NameReset \/ NameInterrupted) /\ \E st : AddClient(st)
           \/ pc = "clients" /\ idx \in Occupied /\ disconnect_client(idx)
              /\ new_socket' = new_socket
           \/ CloseAll
<1>1. ASSUME NEW c \in Conns, Connect(c) \/ Say(c) \/ HangUp(c) \/ ResetArrives(c)
      PROVE  UNCHANGED <<fds, slotVars, new_socket>> /\ pc' = pc
  BY <1>1 DEF Connect, Say, HangUp, ResetArrives, serverVars, slotVars
<1>2. CASE \/ Sigint \/ SigintInSelect \/ BeginSelect \/ LeaveLoop \/ SelectReturns \/ SkipAccept
           \/ AcceptFails \/ Refuse \/ SkipSlot \/ EndOfSlots \/ UNCHANGED vars
  <2>1. UNCHANGED <<fds, slotVars, new_socket>>
    BY <1>2 DEF Sigint, SigintInSelect, BeginSelect, LeaveLoop, SelectReturns, SkipAccept,
       AcceptFails, Refuse, SkipSlot, EndOfSlots, serverVars, slotVars, vars
  <2>2. pc' = pc \/ (pc # "name" /\ pc' # "name")
    BY <1>2 DEF Sigint, SigintInSelect, BeginSelect, LeaveLoop, SelectReturns, SkipAccept,
       AcceptFails, Refuse, SkipSlot, EndOfSlots, serverVars, slotVars, vars, AtSlot
  <2> QED BY <2>1, <2>2
<1>3. CASE ClientText \/ ClientError \/ SayBye
  <2>1. UNCHANGED <<fds, slotVars, new_socket>>
    BY <1>3 DEF ClientText, ClientError, SayBye, handlerUnchanged, serverVars, slotVars
  <2>2. pc # "name" /\ pc' # "name"
    BY <1>3 DEF ClientText, ClientError, SayBye, AtSlot, broadcast_buffer
  <2> QED BY <2>1, <2>2
<1>4. CASE ClientBye \/ ClientClosed
  BY <1>4 DEF ClientBye, ClientClosed, AtSlot, Selected, handlerUnchanged
<1>5. CASE NameReceived \/ NameReset \/ NameInterrupted
  BY <1>5 DEF NameReceived, NameReset, NameInterrupted
<1>6. Welcome => pc = "accept" BY DEF Welcome
<1>7. NameHangUp => pc = "name" BY DEF NameHangUp
<1> QED BY <1>1, <1>2, <1>3, <1>4, <1>5, <1>6, <1>7 DEF Next, Server, Environment

\* A leak is the newcomer's that has hung up, or was one before.
LEMMA LeaksBegin ==
    ASSUME TablesInv, LeakInv, [Next]_vars, NEW f \in Fds, Leaked(f)'
    PROVE  /\ fds'[f] = fds[f] /\ fds[f] # NULL
           /\ Leaked(f) \/ (pc = "name" /\ f = new_socket /\ NameHangUp)
<1> USE ServerAssumption
<1>1. TypeOK BY DEF TablesInv
<1>2. CASE UNCHANGED <<fds, slotVars, new_socket>>
  BY <1>2 DEF Leaked, Occupied, slotVars
<1>3. CASE pc = "accept" /\ Welcome
  <2>1. PICK g \in Fds : /\ fds' = [fds EXCEPT ![g] = Head(backlog)] /\ new_socket' = g
                         /\ client_sockets' = client_sockets
    BY <1>3 DEF Welcome, slotVars
  <2>2. new_socket = -1 BY <1>3 DEF LeakInv
  <2>3. f # g /\ fds'[f] = fds[f] BY <1>1, <2>1 DEF Leaked, TypeOK
  <2> QED BY <2>1, <2>2, <2>3 DEF Leaked, Occupied
<1>4. CASE pc = "name" /\ NameHangUp
  BY <1>4 DEF NameHangUp, Leaked, Occupied, slotVars
<1>5. CASE pc = "name" /\ \E st : AddClient(st)
  <2>1. PICK j \in Slots : /\ client_sockets' = [client_sockets EXCEPT ![j] = new_socket]
                           /\ j \notin Occupied /\ fds' = fds
    BY <1>5 DEF AddClient, FirstFree
  <2>2. new_socket \in Fds BY <1>5 DEF TablesInv, NewcomerFits
  <2>3. client_sockets'[j] = new_socket /\ j \in Occupied'
    BY <1>1, <2>1, <2>2 DEF TypeOK, Occupied
  <2>4. f # new_socket BY <2>3 DEF Leaked
  <2>5. \A k \in Occupied : k \in Occupied' /\ client_sockets'[k] = client_sockets[k]
    BY <1>1, <2>1, <2>2 DEF TypeOK, Occupied
  <2> QED BY <2>1, <2>4, <2>5 DEF Leaked
<1>6. CASE pc = "clients" /\ idx \in Occupied /\ disconnect_client(idx) /\ new_socket' = new_socket
  <2>1. CASE UNCHANGED <<slotVars, fds>>
    BY <1>6, <2>1 DEF Leaked, Occupied, slotVars
  <2>2. CASE /\ fds' = [fds EXCEPT ![client_sockets[idx]] = NULL]
             /\ client_sockets' = [client_sockets EXCEPT ![idx] = -1]
    <3>1. idx \in Slots /\ client_sockets[idx] \in Fds
      BY <1>6, OccupiedType
    <3>2. f # client_sockets[idx] /\ fds'[f] = fds[f]
      BY <1>1, <2>2, <3>1 DEF Leaked, TypeOK
    <3>3. \A k \in Occupied \ {idx} : k \in Occupied' /\ client_sockets'[k] = client_sockets[k]
      BY <1>1, <2>2, <3>1 DEF TypeOK, Occupied
    <3> QED BY <1>6, <3>2, <3>3 DEF Leaked
  <2> QED BY <1>6, <2>1, <2>2 DEF disconnect_client
<1>7. CASE CloseAll
  <2>1. /\ fds' = [g \in Fds |-> IF \E j \in Occupied : client_sockets[j] = g THEN NULL ELSE fds[g]]
        /\ UNCHANGED <<client_sockets, new_socket>>
    BY <1>7 DEF CloseAll, slotVars
  <2>2. Occupied' = Occupied BY <2>1 DEF Occupied
  <2> QED BY <2>1, <2>2 DEF Leaked
<1> QED BY <1>2, <1>3, <1>4, <1>5, <1>6, <1>7, SlotSteps

LEMMA LeakNext ==
    ASSUME RoomInv, StreamsInv, LeakInv, OwnedOnce', NamesBySlot', [Next]_vars
    PROVE  LeakInv'
<1> USE ServerAssumption
<1>1. TablesInv /\ OwnedOnce /\ TypeOK BY DEF RoomInv, TablesInv
<1>2. [Room!RoomNext]_(Room!roomVars) BY StepImplements
<1>3. pc' # "name" => new_socket' = -1
  <2>1. CASE Welcome BY <2>1 DEF Welcome
  <2>2. CASE NameHangUp BY <2>2 DEF NameHangUp
  <2>3. CASE \E st : AddClient(st) BY <2>3 DEF AddClient
  <2>4. CASE pc = "clients" /\ disconnect_client(idx) /\ new_socket' = new_socket
    BY <2>4 DEF LeakInv
  <2>5. CASE CloseAll BY <2>5 DEF CloseAll, LeakInv
  <2>6. CASE UNCHANGED <<fds, slotVars, new_socket>> /\ (pc = "name" <=> pc' = "name")
    BY <2>6 DEF LeakInv
  <2> QED BY <1>1, <2>1, <2>2, <2>3, <2>4, <2>5, <2>6, SlotSteps
<1>4. Newcomer' # NULL => Len(s2c'[Newcomer']) <= 1
  BY <1>1, <1>2, WelcomeOnly DEF LeakInv
<1>5. ASSUME NEW f \in Fds, Leaked(f)'
      PROVE  HungUp(fds[f])' /\ fds'[f] = fds[f] /\ Len(s2c'[fds[f]]) <= 1
  <2> DEFINE c == fds[f]
  <2>1. /\ fds'[f] = c /\ c # NULL /\ c \in Conns
        /\ Leaked(f) \/ (pc = "name" /\ f = new_socket /\ NameHangUp)
    BY <1>1, <1>5, LeaksBegin DEF TypeOK
  <2>2. /\ \A i \in 1 .. Len(backlog) : backlog[i] # c
        /\ chan[c] # "new"
        /\ pc # "done" => \A j \in Occupied : Owner(j) # c
    <3>1. (\A i \in 1 .. Len(backlog) : backlog[i] # c) /\ chan[c] # "new"
      BY <1>1, <2>1 DEF OwnedOnce
    <3>2. ASSUME pc # "done", NEW j \in Occupied PROVE Owner(j) # c
      <4>1. client_sockets[j] \in Fds BY <1>1, <3>2, OccupiedType
      <4>2. client_sockets[j] # f
        BY <1>1, <2>1, <3>2 DEF Leaked, TablesInv, NewcomerFits
      <4> QED BY <1>1, <2>1, <4>1, <4>2 DEF OwnedOnce, Owner
    <3> QED BY <3>1, <3>2
  <2>3. backlog \in Seq(Conns) /\ DOMAIN backlog = 1 .. Len(backlog)
    <3>1. backlog \in Seq(Conns) BY <1>1 DEF TypeOK
    <3> QED BY <3>1
  <2>4. c \in Came BY <2>1, <2>2, <2>3 DEF Came
  <2>5. c \notin Room!Users
    BY <2>2 DEF Room!Users, Named, Users, Stopped
  <2>6. s2c'[c] = s2c[c]
    BY <1>2, <2>4, <2>5, OnlyUsersAreTold
  <2>7. CASE pc = "name" /\ f = new_socket /\ NameHangUp
    <3>1. HungUp(c)' BY <2>1, <2>7 DEF NameHangUp, HungUp, netVars
    <3>2. Newcomer = c BY <2>7 DEF Newcomer
    <3> QED BY <2>1, <2>6, <3>1, <3>2 DEF LeakInv
  <2>8. CASE Leaked(f)
    <3>1. HungUp(c) /\ Len(s2c[c]) <= 1
      BY <2>8 DEF LeakInv, OnlyHangUpsLeak, Leaked, HungUp
    <3>2. pc = "name" => fds[new_socket] # c
      BY <1>1, <2>1, <2>8 DEF Leaked, OwnedOnce, TablesInv, NewcomerFits
    <3>3. HungUp(c)' BY <1>1, <2>1, <2>2, <3>1, <3>2, HungUpForGood
    <3> QED BY <2>1, <2>6, <3>1, <3>3
  <2> QED BY <2>1, <2>7, <2>8
<1>6. OnlyHangUpsLeak'
  BY <1>5 DEF OnlyHangUpsLeak, Leaked, HungUp
<1> QED BY <1>3, <1>4, <1>6 DEF LeakInv

\* A descriptor that is in no slot and not being set up is that of a client
\* that hung up before it had a name: in no reachable state is another lost.
THEOREM OnlyHangUpsEverLeak == Spec => []OnlyHangUpsLeak
<1>1. Init => LeakInv
  BY DEF Init, LeakInv, Newcomer, OnlyHangUpsLeak
<1>2. TablesInv /\ ReadInv => RoomInv /\ OwnedOnce /\ NamesBySlot
  BY SlotNames DEF ReadInv, RoomInv
<1>3. RoomInv /\ StreamsInv /\ LeakInv /\ OwnedOnce' /\ NamesBySlot' /\ [Next]_vars => LeakInv'
  BY LeakNext
<1>4. LeakInv => OnlyHangUpsLeak BY DEF LeakInv
<1> QED BY <1>1, <1>2, <1>3, <1>4, TablesConsistent, ReadsConsistent, StreamsConsistent, PTL DEF Spec

-----------------------------------------------------------------------------
(* Where the names come from.                                              *)

\* A slot that stays in use keeps its connection and its name.
LEMMA SlotsKeep ==
    ASSUME TablesInv, [Next]_vars, ~Stopped, ~Stopped', NEW j \in Occupied, j \in Occupied'
    PROVE  /\ Owner(j)' = Owner(j) /\ usernames'[j] = usernames[j]
           /\ j = idx => pc # "clients" \/ ~disconnect_client(idx)
<1> USE ServerAssumption
<1>1. TypeOK /\ j \in Slots /\ client_sockets[j] \in Fds /\ Owner(j) \in Conns
  BY OccupiedType DEF TablesInv, Stopped
<1>2. CASE UNCHANGED <<fds, slotVars, new_socket>> \/ (pc = "name" /\ NameHangUp)
  <2>1. UNCHANGED <<fds, slotVars>> BY <1>2 DEF NameHangUp
  <2>2. ASSUME pc = "clients", j = idx, disconnect_client(idx) PROVE FALSE
    <3>1. client_sockets' = client_sockets BY <2>1 DEF slotVars
    <3>2. Fatal(idx, [chan EXCEPT ![Owner(idx)] = "closed"]) = {}
      BY <2>2 DEF disconnect_client, broadcast_buffer, Stopped
    <3>3. client_sockets' = [client_sockets EXCEPT ![idx] = -1] BY <2>2, <3>2 DEF disconnect_client
    <3> QED BY <1>1, <2>2, <3>1, <3>3 DEF TypeOK
  <2> QED BY <2>1, <2>2 DEF Owner, slotVars
<1>3. CASE pc = "accept" /\ Welcome
  <2>1. PICK g \in Fds : /\ fds' = [fds EXCEPT ![g] = Head(backlog)] /\ UNCHANGED slotVars
                         /\ fds[g] = NULL
    BY <1>3 DEF Welcome, LowestFree, FreeFds
  <2>2. client_sockets[j] # g BY <1>1, <2>1 DEF Owner
  <2> QED BY <1>1, <1>3, <2>1, <2>2 DEF Owner, slotVars, TypeOK
<1>4. CASE pc = "name" /\ \E st : AddClient(st)
  <2>1. PICK k \in Slots \ Occupied : /\ client_sockets' = [client_sockets EXCEPT ![k] = new_socket]
                                      /\ usernames' = [usernames EXCEPT ![k] = inbuf']
                                      /\ fds' = fds
    BY <1>4 DEF AddClient, FirstFree
  <2> QED BY <1>1, <1>4, <2>1 DEF Owner, TypeOK
<1>5. CASE pc = "clients" /\ idx \in Occupied /\ disconnect_client(idx)
  <2>1. Fatal(idx, [chan EXCEPT ![Owner(idx)] = "closed"]) = {}
    BY <1>5 DEF disconnect_client, broadcast_buffer, Stopped
  <2>2. /\ fds' = [fds EXCEPT ![client_sockets[idx]] = NULL]
        /\ client_sockets' = [client_sockets EXCEPT ![idx] = -1]
        /\ usernames' = [usernames EXCEPT ![idx] = NULL]
    BY <1>5, <2>1 DEF disconnect_client
  <2>3. j # idx BY <1>1, <1>5, <2>2 DEF Occupied, TypeOK
  <2>4. client_sockets[j] # client_sockets[idx] BY <1>5, <2>3 DEF TablesInv, SlotsAgree
  <2> QED BY <1>1, <2>2, <2>3, <2>4 DEF Owner, TypeOK
<1>6. CASE CloseAll
  BY <1>6 DEF CloseAll, Stopped
<1> QED BY <1>2, <1>3, <1>4, <1>5, <1>6, SlotSteps

\* A reset stays one as long as its user has a slot.
LEMMA ResetStays ==
    ASSUME TablesInv, OwnedOnce, [Next]_vars, ~Stopped, ~Stopped',
           NEW j \in Occupied, j \in Occupied', chan[Owner(j)] = "reset"
    PROVE  chan'[Owner(j)] = "reset"
<1> USE ServerAssumption
<1> DEFINE c == Owner(j)
<1> SUFFICES chan'[c] = "reset" OBVIOUS
<1>1. TypeOK /\ chan \in [Conns -> ChanState] /\ c \in Conns /\ client_sockets[j] \in Fds
      /\ backlog \in Seq(Conns)
  BY OccupiedType DEF TablesInv, TypeOK, Stopped
<1>2. chan[c] = "reset" OBVIOUS
<1>3. ASSUME NEW st \in [Conns -> ChanState], NEW m, NEW skip, NEW then,
             broadcast_buffer(skip, m, st, then), st[c] = "reset"
      PROVE  chan'[c] = "reset"
  <2>1. chan'[c] = AfterSend(st[c]) \/ chan'[c] = st[c]
    <3> HIDE DEF c
    <3> QED BY <1>1, <1>3 DEF broadcast_buffer
  <2> QED BY <1>3, <2>1 DEF AfterSend
<1>4. ASSUME NEW d \in Conns, Connect(d) \/ Say(d) \/ HangUp(d) \/ ResetArrives(d)
      PROVE  chan'[c] = "reset"
  <2> HIDE DEF c
  <2> QED BY <1>1, <1>2, <1>4 DEF Connect, Say, HangUp, ResetArrives
<1>5. CASE Refuse \/ Welcome
  <2>1. backlog # <<>> BY <1>5 DEF TablesInv, QueueNotEmpty, Refuse, Welcome
  <2>2. Head(backlog) = backlog[1] /\ 1 \in 1 .. Len(backlog) BY <1>1, <2>1
  <2>3. Head(backlog) # c BY <1>1, <2>2 DEF OwnedOnce, Owner
  <2>4. \/ chan' = [chan EXCEPT ![Head(backlog)] = "closed"]
        \/ chan' = [chan EXCEPT ![Head(backlog)] = AfterSend(@)]
    BY <1>5 DEF Refuse, Welcome
  <2> HIDE DEF c
  <2> QED BY <1>1, <1>2, <2>3, <2>4
<1>6. CASE NameReceived \/ NameReset \/ NameInterrupted
  <2>1. PICK st : AddClient(st) /\ (st = chan \/ st = [chan EXCEPT ![fds[new_socket]] = "reset"])
    BY <1>6 DEF NameReceived, NameReset, NameInterrupted
  <2>2. st \in [Conns -> ChanState] /\ st[c] = "reset"
    <3> HIDE DEF c
    <3> QED BY <1>1, <1>2, <2>1 DEF ChanState
  <2>3. PICK m, k : broadcast_buffer(k, m, st, "clients") BY <2>1 DEF AddClient
  <2> QED BY <1>3, <2>2, <2>3
<1>7. CASE ClientText \/ SayBye
  <2>1. PICK m, k, then : broadcast_buffer(k, m, chan, then) BY <1>7 DEF ClientText, SayBye
  <2> QED BY <1>1, <1>2, <1>3, <2>1
<1>8. CASE ClientBye \/ ClientClosed
  <2> DEFINE st == [chan EXCEPT ![Owner(idx)] = "closed"]
  <2>1. pc = "clients" /\ idx \in Occupied /\ disconnect_client(idx)
    BY <1>8 DEF ClientBye, ClientClosed, AtSlot, Selected
  <2>2. PICK m : broadcast_buffer(idx, m, st, "clients") BY <2>1 DEF disconnect_client
  <2>3. j # idx BY <2>1, SlotsKeep
  <2>4. Owner(idx) # c BY <2>1, <2>3, OwnersDiffer DEF Stopped
  <2>5. st \in [Conns -> ChanState] /\ st[c] = "reset"
    <3> HIDE DEF c
    <3> QED BY <1>1, <1>2, <2>4 DEF ChanState
  <2> HIDE DEF st
  <2> QED BY <1>3, <2>2, <2>5
<1>9. CASE ClientError
  <2> HIDE DEF c
  <2> QED BY <1>1, <1>2, <1>9 DEF ClientError
<1>10. CASE CloseAll
  BY <1>10 DEF CloseAll, Stopped
<1>11. CASE UNCHANGED <<chan, c2s>>
  BY <1>11
<1> QED BY <1>4, <1>5, <1>6, <1>7, <1>8, <1>9, <1>10, <1>11, SilentSteps

\* A chunk is by the peer that sent it.
ChunksOwn == \A c \in Conns : \A k \in DOMAIN c2s[c] : c2s[c][k].by = c

NamesInv == ChunksOwn /\ NamesAreReceived

\* What is received is by the peer, and so is what is left.
LEMMA ReceiveOwn ==
    ASSUME c2s \in [Conns -> Text], ChunksOwn, NEW c \in Conns, Receive(c)
    PROVE  /\ inbuf' # <<>> /\ \A k \in DOMAIN inbuf' : inbuf'[k].by = c
           /\ ChunksOwn'
<1>1. PICK k \in 1 .. Len(c2s[c]) :
          /\ inbuf' = SubSeq(c2s[c], 1, k)
          /\ c2s' = [c2s EXCEPT ![c] = SubSeq(@, k + 1, Len(@))]
  BY DEF Receive
<1>2. /\ c2s[c] \in Seq(Chunk) /\ Len(c2s[c]) \in Nat /\ DOMAIN c2s[c] = 1 .. Len(c2s[c])
      /\ \A i \in 1 .. Len(c2s[c]) : c2s[c][i].by = c
  <2>1. c2s[c] \in Seq(Chunk) BY DEF Text
  <2> QED BY <2>1 DEF ChunksOwn
<1>3. Len(inbuf') = k /\ DOMAIN inbuf' = 1 .. k /\ \A i \in 1 .. k : inbuf'[i] = c2s[c][i]
  BY <1>1, <1>2
<1>4. \A i \in DOMAIN c2s'[c] : c2s'[c][i].by = c
  <2> DEFINE rest == SubSeq(c2s[c], k + 1, Len(c2s[c]))
  <2>1. DOMAIN rest = 1 .. Len(c2s[c]) - k /\ \A i \in 1 .. Len(c2s[c]) - k : rest[i] = c2s[c][k + i]
    BY <1>1, <1>2
  <2>2. \A i \in DOMAIN rest : rest[i].by = c
    <3> HIDE DEF rest
    <3>1. \A i \in 1 .. Len(c2s[c]) - k : k + i \in 1 .. Len(c2s[c]) BY <1>1, <1>2
    <3> QED BY <1>2, <2>1, <3>1
  <2>3. c2s'[c] = rest BY <1>1
  <2> HIDE DEF rest
  <2> QED BY <2>2, <2>3
<1>5. ChunksOwn'
  BY <1>1, <1>4 DEF ChunksOwn
<1> QED BY <1>2, <1>3, <1>5

LEMMA ChunksOwnNext == TypeOK /\ TablesInv /\ ChunksOwn /\ [Next]_vars => ChunksOwn'
<1> SUFFICES ASSUME TypeOK, TablesInv, ChunksOwn, [Next]_vars PROVE ChunksOwn' OBVIOUS
<1>1. c2s \in [Conns -> Text] BY DEF TypeOK
<1>2. CASE c2s' = c2s BY <1>2 DEF ChunksOwn
<1>3. ASSUME NEW c \in Conns, Say(c) PROVE ChunksOwn'
  <2>1. PICK b \in BOOLEAN :
          c2s' = [c2s EXCEPT ![c] = Append(@, [by |-> c, n |-> said[c] + 1, bye |-> b])]
    BY <1>3 DEF Say
  <2> DEFINE e == [by |-> c, n |-> said[c] + 1, bye |-> b]
  <2>2. e.by = c OBVIOUS
  <2>3. c2s' = [c2s EXCEPT ![c] = Append(@, e)] BY <2>1
  <2> HIDE DEF e
  <2>4. c2s[c] \in Seq(Chunk) BY <1>1 DEF Text
  <2>5. \A k \in DOMAIN Append(c2s[c], e) : Append(c2s[c], e)[k].by = c
    <3>1. /\ DOMAIN Append(c2s[c], e) = 1 .. Len(c2s[c]) + 1 /\ Len(c2s[c]) \in Nat
          /\ \A k \in 1 .. Len(c2s[c]) : Append(c2s[c], e)[k] = c2s[c][k] /\ k \in DOMAIN c2s[c]
          /\ Append(c2s[c], e)[Len(c2s[c]) + 1] = e
      BY <2>4
    <3> QED BY <2>2, <3>1 DEF ChunksOwn
  <2> QED BY <1>1, <2>3, <2>5 DEF ChunksOwn
<1>4. ASSUME NEW c \in Conns, Connect(c) \/ HangUp(c) \/ ResetArrives(c) PROVE c2s' = c2s
  BY <1>4 DEF Connect, HangUp, ResetArrives
<1>5. CASE Refuse \/ Welcome \/ NameReset \/ NameInterrupted \/ ClientClosed \/ ClientError
           \/ SayBye \/ CloseAll
  BY <1>2, <1>5 DEF Refuse, Welcome, NameReset, NameInterrupted, ClientClosed, ClientError, SayBye,
     CloseAll
<1>6. CASE NameReceived
  <2>1. fds[new_socket] \in Conns
    BY <1>6 DEF NameReceived, TablesInv, NewcomerFits, TypeOK
  <2> QED BY <1>1, <1>6, <2>1, ReceiveOwn DEF NameReceived
<1>7. CASE ClientText \/ ClientBye
  <2>1. Owner(idx) \in Conns /\ Receive(Owner(idx))
    BY <1>7, OccupiedType DEF ClientText, ClientBye, AtSlot, Selected
  <2> QED BY <1>1, <2>1, ReceiveOwn
<1> QED BY <1>2, <1>3, <1>4, <1>5, <1>6, <1>7, SilentSteps

\* Once told to stop the server never runs again.
LEMMA StopStays == [Next]_vars /\ running' => running
BY DEF Next, Server, Environment, Connect, Say, HangUp, ResetArrives, Sigint, SigintInSelect,
       BeginSelect, LeaveLoop, SelectReturns, SkipAccept, AcceptFails, Refuse, Welcome, NameReceived,
       NameHangUp, NameReset, NameInterrupted, SkipSlot, EndOfSlots, ClientText, ClientBye,
       ClientClosed, ClientError, SayBye, CloseAll, handlerUnchanged, vars

LEMMA NamesNext ==
    ASSUME TablesInv, OwnedOnce, NamesInv, [Next]_vars
    PROVE  NamesInv'
<1> USE ServerAssumption
<1> DEFINE Good(j) == \/ usernames[j] # <<>> /\ \A k \in DOMAIN usernames[j] : usernames[j][k].by = Owner(j)
                      \/ chan[Owner(j)] = "reset"
                      \/ ~running
<1>1. TypeOK /\ ChunksOwn BY DEF TablesInv, NamesInv
<1>2. ChunksOwn' BY <1>1, ChunksOwnNext
<1>3. ASSUME ~Stopped', NEW j \in Occupied' PROVE Good(j)'
  <2>1. ~Stopped
    BY <1>3 DEF Next, Server, Environment, Connect, Say, HangUp, ResetArrives, Sigint, SigintInSelect,
       BeginSelect, LeaveLoop, SelectReturns, SkipAccept, AcceptFails, Refuse, Welcome, NameReceived,
       NameHangUp, NameReset, NameInterrupted, SkipSlot, EndOfSlots, ClientText, ClientBye,
       ClientClosed, ClientError, SayBye, CloseAll, AtSlot, vars, Stopped
  <2>2. CASE j \in Occupied
    <3>1. Good(j) BY <2>1, <2>2 DEF NamesInv, NamesAreReceived
    <3>2. Owner(j)' = Owner(j) /\ usernames'[j] = usernames[j] BY <1>3, <2>1, <2>2, SlotsKeep
    <3>3. chan[Owner(j)] = "reset" => chan'[Owner(j)] = "reset" BY <1>3, <2>1, <2>2, ResetStays
    <3>4. ~running => ~running' BY StopStays
    <3> QED BY <3>1, <3>2, <3>3, <3>4
  <2>3. CASE j \notin Occupied
    <3>1. pc = "name" /\ (NameReceived \/ NameReset \/ NameInterrupted) /\ new_socket \in Fds
      <4>1. ~(UNCHANGED <<fds, slotVars, new_socket>>) /\ ~Welcome /\ ~NameHangUp
        BY <1>3, <2>3 DEF Occupied, slotVars, Welcome, NameHangUp
      <4>2. ~(pc = "clients" /\ idx \in Occupied /\ disconnect_client(idx))
        BY <1>1, <1>3, <2>3 DEF disconnect_client, Occupied, slotVars, TypeOK
      <4>3. ~CloseAll BY <1>3 DEF CloseAll, Stopped
      <4> QED BY <4>1, <4>2, <4>3, SlotSteps DEF TablesInv, NewcomerFits
    <3>2. PICK st : AddClient(st) /\ (NameReset => st = [chan EXCEPT ![fds[new_socket]] = "reset"])
                    /\ (NameReceived => st = chan)
      <4>1. \/ NameReset /\ AddClient([chan EXCEPT ![fds[new_socket]] = "reset"])
            \/ NameReceived /\ AddClient(chan)
            \/ NameInterrupted /\ AddClient(chan)
        BY <3>1 DEF NameReset, NameReceived, NameInterrupted
      <4>2. NameReceived => ~NameReset
        <5>1. NameReceived => c2s[fds[new_socket]] # <<>>
          BY <1>1, <3>1, ReceiveType DEF NameReceived, TypeOK, TablesInv, NewcomerFits
        <5> QED BY <5>1 DEF NameReset
      <4>3. NameInterrupted => ~NameReset
        BY DEF NameReset, NameInterrupted, Readable
      <4> QED BY <4>1, <4>2, <4>3
    <3>3. PICK k \in Slots \ Occupied :
            /\ client_sockets' = [client_sockets EXCEPT ![k] = new_socket]
            /\ usernames' = [usernames EXCEPT ![k] = inbuf'] /\ fds' = fds
            /\ \E m : broadcast_buffer(k, m, st, "clients")
      BY <3>2 DEF AddClient, FirstFree
    <3>4. k = j BY <1>1, <1>3, <2>3, <3>3 DEF TypeOK, Occupied
    <3>5. Owner(j)' = fds[new_socket] /\ usernames'[j] = inbuf' /\ fds[new_socket] \in Conns
      BY <1>1, <3>1, <3>3, <3>4 DEF TypeOK, Owner, TablesInv, NewcomerFits
    <3>6. CASE NameInterrupted BY <3>6 DEF NameInterrupted
    <3>7. CASE NameReset
      <4>1. st[fds[new_socket]] = "reset" BY <1>1, <3>2, <3>5, <3>7 DEF TypeOK
      <4>2. \/ chan'[fds[new_socket]] = AfterSend(st[fds[new_socket]])
            \/ chan'[fds[new_socket]] = st[fds[new_socket]]
        BY <3>3, <3>5 DEF broadcast_buffer
      <4>3. chan'[fds[new_socket]] = "reset" BY <4>1, <4>2 DEF AfterSend
      <4> QED BY <3>5, <4>3
    <3>8. CASE NameReceived
      <4>1. inbuf' # <<>> /\ \A i \in DOMAIN inbuf' : inbuf'[i].by = fds[new_socket]
        BY <1>1, <3>5, <3>8, ReceiveOwn DEF NameReceived, TypeOK
      <4> QED BY <3>5, <4>1
    <3> QED BY <3>1, <3>6, <3>7, <3>8
  <2> QED BY <2>2, <2>3
<1> QED BY <1>2, <1>3 DEF NamesInv, NamesAreReceived

\* A user has the name its own connection sent, unless its recv() failed.
THEOREM NamesAlwaysReceived == Spec => []NamesAreReceived
<1>1. Init => NamesInv
  <2> SUFFICES ASSUME Init PROVE NamesInv OBVIOUS
  <2>1. Occupied = {} BY DEF Init, Occupied
  <2>2. \A c \in Conns : DOMAIN c2s[c] = {} BY DEF Init
  <2> QED BY <2>1, <2>2 DEF NamesInv, ChunksOwn, NamesAreReceived
<1>2. TablesInv /\ OwnedOnce /\ NamesInv /\ [Next]_vars => NamesInv'
  BY NamesNext
<1>3. ReadInv => OwnedOnce BY DEF ReadInv
<1>4. NamesInv => NamesAreReceived BY DEF NamesInv
<1> QED BY <1>1, <1>2, <1>3, <1>4, TablesConsistent, ReadsConsistent, PTL DEF Spec

-----------------------------------------------------------------------------
(* What a stream relays.                                                   *)

\* A set of natural numbers has a least element, so that a set with 0 and the
\* successor of each number in it contains them all.
LEMMA LeastNatural ==
    ASSUME NEW T \in SUBSET Nat, T # {}
    PROVE  \E x \in T : \A y \in T : x <= y
<1> DEFINE R == {ss \in Nat \X Nat : ss[1] < ss[2]}
<1>1. IsWellFoundedOn(R, Nat) /\ T \subseteq Nat
  BY NatLessThanWellFounded DEF OpToRel
<1>2. \A y, x \in Nat : y < x => <<y, x>> \in R
  OBVIOUS
<1> HIDE DEF R
<1>3. PICK x \in T : \A y \in T : <<y, x>> \notin R
  BY <1>1, WFMin
<1>4. \A y \in T : x <= y
  <2> TAKE y \in T
  <2>1. x \in Nat /\ y \in Nat /\ ~(y < x)
    BY <1>2, <1>3
  <2> QED BY <2>1
<1> QED BY <1>4

LEMMA InductionOnSets ==
    ASSUME NEW S, 0 \in S, \A n \in Nat : n \in S => n + 1 \in S
    PROVE  Nat \subseteq S
<1> SUFFICES ASSUME Nat \ S # {} PROVE FALSE
  OBVIOUS
<1>1. PICK x \in Nat \ S : \A y \in Nat \ S : x <= y
  BY LeastNatural
<1>2. x - 1 \in Nat /\ (x - 1) + 1 = x /\ ~(x <= x - 1)
  OBVIOUS
<1>3. x - 1 \in S
  BY <1>1, <1>2
<1> QED BY <1>2, <1>3

\* h glues what the first n messages of s relay from d.
Glues(h, s, n, d) == h = [k \in 0 .. n |-> IF k = 0 THEN <<>> ELSE h[k - 1] \o RelayedIn(s[k], d)]

LEMMA GluesMeans ==
    \A s, d, h : \A n \in Nat : Glues(h, s, n, d) =>
        h[0] = <<>> /\ \A k \in 0 .. n - 1 : h[k + 1] = h[k] \o RelayedIn(s[k + 1], d)
<1> SUFFICES ASSUME NEW s, NEW d, NEW h, NEW n \in Nat, Glues(h, s, n, d)
             PROVE  h[0] = <<>> /\ \A k \in 0 .. n - 1 : h[k + 1] = h[k] \o RelayedIn(s[k + 1], d)
  OBVIOUS
<1>1. \A k \in 0 .. n : h[k] = IF k = 0 THEN <<>> ELSE h[k - 1] \o RelayedIn(s[k], d)
  BY DEF Glues
<1>2. ASSUME NEW k \in 0 .. n - 1 PROVE h[k + 1] = h[k] \o RelayedIn(s[k + 1], d)
  <2>1. k + 1 \in 0 .. n /\ k + 1 # 0 /\ (k + 1) - 1 = k OBVIOUS
  <2>2. h[k + 1] = h[(k + 1) - 1] \o RelayedIn(s[k + 1], d) BY <1>1, <2>1
  <2> QED BY <2>1, <2>2
<1>3. h[0] = <<>>
  <2>1. 0 \in 0 .. n OBVIOUS
  <2> QED BY <1>1, <2>1
<1> QED BY <1>2, <1>3

LEMMA GlueExists == ASSUME NEW s, NEW d, NEW m \in Nat PROVE \E h : Glues(h, s, m, d)
<1> DEFINE S == {n \in Nat : \E h : Glues(h, s, n, d)}
<1>1. 0 \in S
  <2> DEFINE h == [k \in 0 .. 0 |-> <<>>]
  <2>1. h = [k \in 0 .. 0 |-> IF k = 0 THEN <<>> ELSE h[k - 1] \o RelayedIn(s[k], d)]
    OBVIOUS
  <2>2. Glues(h, s, 0, d) BY <2>1 DEF Glues
  <2> QED BY <2>2
<1>2. \A n \in Nat : n \in S => n + 1 \in S
  <2> SUFFICES ASSUME NEW n \in Nat, n \in S PROVE \E h : Glues(h, s, n + 1, d)
    OBVIOUS
  <2>1. PICK h : Glues(h, s, n, d)
    OBVIOUS
  <2>2. \A k \in 0 .. n : h[k] = IF k = 0 THEN <<>> ELSE h[k - 1] \o RelayedIn(s[k], d)
    BY <2>1 DEF Glues
  <2> DEFINE P(k) == RelayedIn(s[k], d)
             g == [k \in 0 .. n + 1 |-> IF k = n + 1 THEN h[k - 1] \o P(k) ELSE h[k]]
  <2> HIDE DEF P
  <2>3. \A k \in 0 .. n + 1 : g[k] = IF k = 0 THEN <<>> ELSE g[k - 1] \o P(k)
    <3> TAKE k \in 0 .. n + 1
    <3>1. CASE k = 0
      BY <2>2, <3>1
    <3>2. CASE k # 0
      <4>1. k - 1 \in 0 .. n /\ k - 1 # n + 1 /\ (k # n + 1 => k \in 0 .. n)
        BY <3>2
      <4>2. g[k - 1] = h[k - 1]
        BY <4>1
      <4>3. CASE k = n + 1
        <5>1. g[k] = h[k - 1] \o P(k) BY <4>3
        <5> QED BY <3>2, <4>2, <5>1
      <4>4. CASE k # n + 1
        <5>1. g[k] = h[k] BY <4>4
        <5>2. h[k] = h[k - 1] \o P(k) BY <2>2, <3>2, <4>1, <4>4 DEF P
        <5> QED BY <3>2, <4>2, <5>1, <5>2
      <4> QED BY <4>3, <4>4
    <3> QED BY <3>1, <3>2
  <2>4. g = [k \in 0 .. n + 1 |-> g[k]]
    OBVIOUS
  <2> HIDE DEF g
  <2>5. Glues(g, s, n + 1, d)
    BY <2>3, <2>4 DEF Glues, P
  <2> QED BY <2>5
<1> HIDE DEF S
<1>3. m \in S
  BY <1>1, <1>2, InductionOnSets
<1> QED BY <1>3 DEF S

\* What the first messages relay does not depend on those that follow.
LEMMA GluesAlike ==
    ASSUME NEW s, NEW t, NEW n \in Nat, NEW m \in Nat, n <= m, NEW d, NEW h, NEW g,
           Glues(h, s, n, d), Glues(g, t, m, d), \A k \in 1 .. n : s[k] = t[k]
    PROVE  h[n] = g[n]
<1>1. h[0] = <<>> /\ \A k \in 0 .. n - 1 : h[k + 1] = h[k] \o RelayedIn(s[k + 1], d)
  BY GluesMeans
<1>2. g[0] = <<>> /\ \A k \in 0 .. m - 1 : g[k + 1] = g[k] \o RelayedIn(t[k + 1], d)
  BY GluesMeans
<1> DEFINE S == {k \in Nat : k <= n => h[k] = g[k]}
<1>3. 0 \in S BY <1>1, <1>2
<1>4. ASSUME NEW k \in Nat, k \in S PROVE k + 1 \in S
  <2> SUFFICES ASSUME k + 1 <= n PROVE h[k + 1] = g[k + 1]
    OBVIOUS
  <2>1. k <= n /\ k \in 0 .. n - 1 /\ k \in 0 .. m - 1 /\ k + 1 \in 1 .. n
    OBVIOUS
  <2>2. h[k] = g[k] /\ s[k + 1] = t[k + 1]
    BY <1>4, <2>1
  <2>3. h[k + 1] = h[k] \o RelayedIn(s[k + 1], d)
    BY <1>1, <2>1
  <2>4. g[k + 1] = g[k] \o RelayedIn(t[k + 1], d)
    BY <1>2, <2>1
  <2> QED BY <2>2, <2>3, <2>4
<1> HIDE DEF S
<1>5. n \in S BY <1>3, <1>4, InductionOnSets
<1> QED BY <1>5 DEF S

LEMMA RelayedMeans ==
    ASSUME NEW s, Len(s) \in Nat, NEW d
    PROVE  \E h : Glues(h, s, Len(s), d) /\ RelayedFrom(s, d) = h[Len(s)]
<1> DEFINE G == CHOOSE h : h = [k \in 0 .. Len(s) |-> IF k = 0 THEN <<>> ELSE h[k - 1] \o RelayedIn(s[k], d)]
<1>1. RelayedFrom(s, d) = G[Len(s)]
  BY DEF RelayedFrom
<1>2. \E h : h = [k \in 0 .. Len(s) |-> IF k = 0 THEN <<>> ELSE h[k - 1] \o RelayedIn(s[k], d)]
  <2>1. \E h : Glues(h, s, Len(s), d) BY GlueExists
  <2> QED BY <2>1 DEF Glues
<1>3. Glues(G, s, Len(s), d)
  BY <1>2 DEF Glues
<1> QED BY <1>1, <1>3

LEMMA RelayedType ==
    ASSUME NEW m \in Message, NEW d
    PROVE  RelayedIn(m, d) \in Seq(Nat)
<1>1. CASE m.kind = "chat" /\ m.from = d
  <2>1. m.text \in Seq(Chunk) BY <1>1 DEF Message, Text
  <2>2. DOMAIN m.text = 1 .. Len(m.text) /\ Len(m.text) \in Nat BY <2>1
  <2>3. \A k \in 1 .. Len(m.text) : m.text[k].n \in Nat 
    <3>1. \A k \in 1 .. Len(m.text) : m.text[k] \in Chunk BY <2>1
    <3>2. \A x \in Chunk : x.n \in Nat BY DEF Chunk
    <3> QED BY <3>1, <3>2
  <2> QED BY <1>1, <2>2, <2>3 DEF RelayedIn
<1> QED BY <1>1 DEF RelayedIn

\* A stream that grows by one message.
LEMMA RelayedAppend ==
    ASSUME NEW s \in Seq(Message), NEW m \in Message, NEW d
    PROVE  RelayedFrom(Append(s, m), d) = RelayedFrom(s, d) \o RelayedIn(m, d)
<1> DEFINE t == Append(s, m)
           n == Len(s)
<1>1. n \in Nat /\ Len(t) = n + 1 /\ t[n + 1] = m /\ \A k \in 1 .. n : s[k] = t[k]
  BY AppendProperties
<1> HIDE DEF t, n
<1>2. PICK h : Glues(h, s, n, d) /\ RelayedFrom(s, d) = h[n]
  BY <1>1, RelayedMeans DEF n
<1>3. PICK g : Glues(g, t, n + 1, d) /\ RelayedFrom(t, d) = g[n + 1]
  BY <1>1, RelayedMeans
<1>4. h[n] = g[n]
  BY <1>1, <1>2, <1>3, GluesAlike
<1>5. g[n + 1] = g[n] \o RelayedIn(t[n + 1], d)
  <2>1. n + 1 \in Nat /\ n \in 0 .. (n + 1) - 1 BY <1>1
  <2> QED BY <1>3, <2>1, GluesMeans
<1> QED BY <1>1, <1>2, <1>3, <1>4, <1>5 DEF t

LEMMA RelayedEmpty == ASSUME NEW d PROVE RelayedFrom(<<>>, d) = <<>>
<1>1. Len(<<>>) = 0 OBVIOUS
<1>2. PICK h : Glues(h, <<>>, 0, d) /\ RelayedFrom(<<>>, d) = h[0]
  BY <1>1, RelayedMeans
<1> QED BY <1>2, GluesMeans

LEMMA RelayedSeq ==
    ASSUME NEW s \in Seq(Message), NEW d
    PROVE  RelayedFrom(s, d) \in Seq(Nat)
<1>1. Len(s) \in Nat OBVIOUS
<1>2. PICK h : Glues(h, s, Len(s), d) /\ RelayedFrom(s, d) = h[Len(s)]
  BY <1>1, RelayedMeans
<1>3. h[0] = <<>> /\ \A k \in 0 .. Len(s) - 1 : h[k + 1] = h[k] \o RelayedIn(s[k + 1], d)
  BY <1>1, <1>2, GluesMeans
<1> DEFINE S == {k \in Nat : k <= Len(s) => h[k] \in Seq(Nat)}
<1>4. 0 \in S
  <2>1. <<>> \in Seq(Nat) OBVIOUS
  <2> QED BY <1>3, <2>1
<1>5. ASSUME NEW k \in Nat, k \in S PROVE k + 1 \in S
  <2> SUFFICES ASSUME k + 1 <= Len(s) PROVE h[k + 1] \in Seq(Nat)
    OBVIOUS
  <2>1. k <= Len(s) /\ k \in 0 .. Len(s) - 1 /\ k + 1 \in 1 .. Len(s)
    BY <1>1
  <2>2. h[k] \in Seq(Nat) /\ s[k + 1] \in Message
    BY <1>5, <2>1
  <2>3. RelayedIn(s[k + 1], d) \in Seq(Nat)
    BY <2>2, RelayedType
  <2>4. h[k] \o RelayedIn(s[k + 1], d) \in Seq(Nat)
    BY <2>2, <2>3, ConcatProperties
  <2> QED BY <1>3, <2>1, <2>4
<1> HIDE DEF S
<1>6. Len(s) \in S BY <1>1, <1>4, <1>5, InductionOnSets
<1> QED BY <1>1, <1>2, <1>6 DEF S

-----------------------------------------------------------------------------
(* What the server has read of its users.                                  *)

\* How much of what a peer has sent the server has read.
Received(d) == said[d] - Len(c2s[d])

\* What lies unread in a connection continues what was read.
ChunksNumbered ==
    \A d \in Conns : /\ Received(d) \in Nat
                     /\ \A k \in DOMAIN c2s[d] : c2s[d][k].n = Received(d) + k

\* Numbers up to n without a gap.
Steady(r, n) ==
    /\ \A k \in DOMAIN r : r[k] \in 1 .. n
    /\ \A k \in 1 .. Len(r) - 1 : r[k + 1] = r[k] + 1

LEMMA SteadyGrows ==
    ASSUME NEW a \in Nat, NEW r \in Seq(Nat), NEW t \in Seq(Nat), Steady(r, a),
           r = <<>> \/ r[Len(r)] = a, t # <<>>, \A k \in DOMAIN t : t[k] = a + k
    PROVE  LET q == r \o t
           IN  Steady(q, a + Len(t)) /\ q[Len(q)] = a + Len(t)
<1> DEFINE q == r \o t
<1>1. /\ Len(r) \in Nat /\ Len(t) \in Nat /\ Len(t) # 0
      /\ DOMAIN r = 1 .. Len(r) /\ DOMAIN t = 1 .. Len(t)
      /\ Len(q) = Len(r) + Len(t) /\ DOMAIN q = 1 .. Len(q)
      /\ \A k \in 1 .. Len(r) : q[k] = r[k]
      /\ \A k \in Len(r) + 1 .. Len(q) : q[k] = t[k - Len(r)]
      /\ Len(r) # 0 => r # <<>>
  BY ConcatProperties
<1> HIDE DEF q
<1>2. \A k \in 1 .. Len(r) : r[k] \in 1 .. a
  BY <1>1 DEF Steady
<1>3. ASSUME NEW k \in 1 .. Len(t) PROVE q[Len(r) + k] = a + k
  <2>1. Len(r) + k \in Len(r) + 1 .. Len(q) /\ (Len(r) + k) - Len(r) = k BY <1>1
  <2> QED BY <1>1, <2>1
<1>4. ASSUME NEW k \in 1 .. Len(q) PROVE q[k] \in 1 .. a + Len(t)
  <2>1. CASE k <= Len(r)
    <3>1. q[k] = r[k] /\ r[k] \in 1 .. a BY <1>1, <1>2, <2>1
    <3> QED BY <1>1, <3>1
  <2>2. CASE k > Len(r)
    <3>1. k - Len(r) \in 1 .. Len(t) /\ Len(r) + (k - Len(r)) = k BY <1>1, <2>2
    <3>2. q[k] = a + (k - Len(r)) BY <1>3, <3>1
    <3> QED BY <1>1, <3>1, <3>2
  <2> QED BY <1>1, <2>1, <2>2
<1>5. ASSUME NEW k \in 1 .. Len(q) - 1 PROVE q[k + 1] = q[k] + 1
  <2>1. CASE k < Len(r)
    <3>1. k \in 1 .. Len(r) - 1 /\ k \in 1 .. Len(r) /\ k + 1 \in 1 .. Len(r) BY <1>1, <2>1
    <3> QED BY <1>1, <3>1 DEF Steady
  <2>2. CASE k = Len(r)
    <3>1. q[k + 1] = a + 1 /\ q[k] = r[Len(r)] /\ r # <<>> BY <1>1, <1>3, <2>2
    <3> QED BY <3>1
  <2>3. CASE k > Len(r)
    <3>1. /\ k - Len(r) \in 1 .. Len(t) /\ Len(r) + (k - Len(r)) = k
          /\ (k - Len(r)) + 1 \in 1 .. Len(t) /\ Len(r) + ((k - Len(r)) + 1) = k + 1
      BY <1>1, <2>3
    <3>2. q[k] = a + (k - Len(r)) BY <1>3, <3>1
    <3>3. q[k + 1] = a + ((k - Len(r)) + 1) BY <1>3, <3>1
    <3> QED BY <1>1, <3>2, <3>3
  <2>4. k \in Int /\ Len(r) \in Int BY <1>1
  <2> QED BY <2>1, <2>2, <2>3, <2>4
<1>6. q[Len(q)] = a + Len(t) BY <1>1, <1>3
<1> QED BY <1>1, <1>4, <1>5, <1>6 DEF Steady, q

LEMMA SteadyBelow ==
    ASSUME NEW a \in Nat, NEW b \in Nat, a <= b, NEW r, Steady(r, a) PROVE Steady(r, b)
BY DEF Steady

\* What a step does to the chunks of a peer.
LEMMA StreamSteps ==
    ASSUME TablesInv, [Next]_vars, NEW d \in Conns
    PROVE  \/ said'[d] = said[d] /\ c2s'[d] = c2s[d]
           \/ /\ said'[d] = said[d] + 1
              /\ \E e : c2s'[d] = Append(c2s[d], e) /\ e.n = said[d] + 1
           \/ /\ said' = said /\ Receive(d)
              /\ \/ NameReceived /\ fds[new_socket] = d
                 \/ (ClientText \/ ClientBye) /\ Owner(idx) = d
<1>1. /\ c2s \in [Conns -> Text] /\ said \in [Conns -> Nat] BY DEF TablesInv, TypeOK
<1>2. CASE said' = said /\ c2s' = c2s BY <1>2
<1>3. ASSUME NEW c \in Conns, Say(c)
      PROVE  \/ said'[d] = said[d] /\ c2s'[d] = c2s[d]
             \/ /\ said'[d] = said[d] + 1
                /\ \E e : c2s'[d] = Append(c2s[d], e) /\ e.n = said[d] + 1
  <2>1. PICK b \in BOOLEAN :
          /\ c2s' = [c2s EXCEPT ![c] = Append(@, [by |-> c, n |-> said[c] + 1, bye |-> b])]
          /\ said' = [said EXCEPT ![c] = @ + 1]
    BY <1>3 DEF Say
  <2> DEFINE e == [by |-> c, n |-> said[c] + 1, bye |-> b]
  <2>2. e.n = said[c] + 1 OBVIOUS
  <2>3. c2s' = [c2s EXCEPT ![c] = Append(@, e)] BY <2>1
  <2> HIDE DEF e
  <2> QED BY <1>1, <2>1, <2>2, <2>3
<1>4. ASSUME NEW c \in Conns, Connect(c) \/ HangUp(c) \/ ResetArrives(c) PROVE said' = said /\ c2s' = c2s
  BY <1>4 DEF Connect, HangUp, ResetArrives
<1>5. CASE Refuse \/ Welcome \/ NameReset \/ NameInterrupted \/ ClientClosed \/ ClientError
           \/ SayBye \/ CloseAll
  BY <1>2, <1>5 DEF Refuse, Welcome, NameReset, NameInterrupted, ClientClosed, ClientError, SayBye,
     CloseAll, AddClient, handlerUnchanged
<1>6. CASE NameReceived
  <2>1. fds[new_socket] \in Conns /\ said' = said /\ Receive(fds[new_socket])
    BY <1>6 DEF NameReceived, AddClient, TablesInv, NewcomerFits, TypeOK
  <2> QED BY <1>1, <1>6, <2>1, ReceiveLeavesAlone DEF TablesInv
<1>7. CASE ClientText \/ ClientBye
  <2>1. Owner(idx) \in Conns /\ Receive(Owner(idx)) /\ said' = said
    BY <1>7, OccupiedType DEF ClientText, ClientBye, AtSlot, Selected, handlerUnchanged
  <2> QED BY <1>1, <1>7, <2>1, ReceiveLeavesAlone DEF TablesInv
<1>8. UNCHANGED <<chan, c2s>> => said' = said \/ \E c \in Conns : Say(c)
  BY DEF Next, Server, Environment, Sigint, SigintInSelect, BeginSelect, LeaveLoop, SelectReturns,
       SkipAccept, AcceptFails, NameHangUp, SkipSlot, EndOfSlots, vars, netVars,
       Connect, HangUp, ResetArrives, Refuse, Welcome, NameReset, NameInterrupted, NameReceived,
       ClientText, ClientBye, ClientClosed, ClientError, SayBye, CloseAll, AddClient, handlerUnchanged
<1> QED BY <1>2, <1>3, <1>4, <1>5, <1>6, <1>7, <1>8, SilentSteps

\* What is received continues what was received.
LEMMA ReceiveNumbers ==
    ASSUME c2s \in [Conns -> Text], said \in [Conns -> Nat], ChunksNumbered,
           NEW d \in Conns, Receive(d), said' = said
    PROVE  /\ inbuf' \in Text /\ inbuf' # <<>> /\ Len(inbuf') \in Nat
           /\ Received(d)' = Received(d) + Len(inbuf')
           /\ \A k \in DOMAIN inbuf' : inbuf'[k].n = Received(d) + k
           /\ \A k \in DOMAIN c2s'[d] : c2s'[d][k].n = Received(d)' + k
<1>1. PICK k \in 1 .. Len(c2s[d]) :
          /\ inbuf' = SubSeq(c2s[d], 1, k)
          /\ c2s' = [c2s EXCEPT ![d] = SubSeq(@, k + 1, Len(@))]
  BY DEF Receive
<1> DEFINE s == c2s[d]
           N == Len(s)
           rest == SubSeq(s, k + 1, N)
           a == Received(d)
<1>2. /\ s \in Seq(Chunk) /\ N \in Nat /\ DOMAIN s = 1 .. N /\ k \in 1 .. N /\ a \in Nat
      /\ \A i \in 1 .. N : s[i].n = a + i
  <2>1. s \in Seq(Chunk) BY DEF Text
  <2> QED BY <2>1 DEF ChunksNumbered
<1>3. /\ Len(inbuf') = k /\ DOMAIN inbuf' = 1 .. k /\ \A i \in 1 .. k : inbuf'[i] = s[i]
      /\ inbuf' \in Text
  <2>1. \A i \in 1 .. k : s[i] \in Chunk BY <1>2
  <2>2. /\ SubSeq(s, 1, k) \in Seq(Chunk) /\ Len(SubSeq(s, 1, k)) = k
        /\ \A i \in 1 .. k : SubSeq(s, 1, k)[i] = s[i]
    BY <1>2, <2>1, SubSeqProperties
  <2> QED BY <1>1, <1>2, <2>2 DEF Text
<1>4. Len(rest) = N - k /\ DOMAIN rest = 1 .. N - k /\ \A i \in 1 .. N - k : rest[i] = s[k + i]
  <2>1. \A i \in k + 1 .. N : s[i] \in Chunk BY <1>2
  <2>2. k + 1 \in Int /\ N \in Int BY <1>2
  <2>3. /\ rest \in Seq(Chunk) /\ Len(rest) = IF k + 1 <= N THEN N - (k + 1) + 1 ELSE 0
        /\ \A i \in 1 .. N - (k + 1) + 1 : rest[i] = s[(k + 1) + i - 1]
    BY <2>1, <2>2, SubSeqProperties
  <2> HIDE DEF rest, s, N
  <2>4. Len(rest) = N - k BY <1>2, <2>3
  <2>5. DOMAIN rest = 1 .. N - k BY <2>3, <2>4
  <2>6. ASSUME NEW i \in 1 .. N - k PROVE rest[i] = s[k + i]
    <3>1. i \in 1 .. N - (k + 1) + 1 /\ (k + 1) + i - 1 = k + i BY <1>2
    <3> QED BY <2>3, <3>1
  <2> QED BY <2>4, <2>5, <2>6
<1>5. c2s'[d] = rest BY <1>1
<1>6. a = said[d] - N /\ Received(d)' = said[d] - Len(rest)
  BY <1>5 DEF Received
<1> HIDE DEF rest, a, N, s
<1>7. Received(d)' = a + k
  <2>1. said[d] \in Nat OBVIOUS
  <2> QED BY <1>2, <1>4, <1>6, <2>1
<1>8. \A i \in 1 .. N - k : rest[i].n = (a + k) + i
  <2> TAKE i \in 1 .. N - k
  <2>1. k + i \in 1 .. N BY <1>2
  <2>2. rest[i] = s[k + i] BY <1>4
  <2>3. s[k + i].n = a + (k + i) BY <1>2, <2>1
  <2> QED BY <1>2, <2>2, <2>3
<1>9. \A i \in 1 .. k : inbuf'[i].n = a + i
  <2> TAKE i \in 1 .. k
  <2>1. i \in 1 .. N BY <1>2
  <2> QED BY <1>2, <1>3, <2>1
<1>10. inbuf' # <<>> BY <1>2, <1>3
<1> QED BY <1>2, <1>3, <1>4, <1>5, <1>7, <1>8, <1>9, <1>10 DEF a

LEMMA ChunksNumberedNext == TablesInv /\ ChunksNumbered /\ [Next]_vars => ChunksNumbered'
<1> SUFFICES ASSUME TablesInv, ChunksNumbered, [Next]_vars, NEW d \in Conns
             PROVE  /\ Received(d)' \in Nat
                    /\ \A k \in DOMAIN c2s'[d] : c2s'[d][k].n = Received(d)' + k
  BY DEF ChunksNumbered
<1>1. c2s \in [Conns -> Text] /\ said \in [Conns -> Nat] BY DEF TablesInv, TypeOK
<1>2. /\ Received(d) \in Nat /\ \A k \in DOMAIN c2s[d] : c2s[d][k].n = Received(d) + k
      /\ Received(d) = said[d] - Len(c2s[d])
  BY DEF ChunksNumbered, Received
<1>3. Received(d)' = said'[d] - Len(c2s'[d]) BY DEF Received
<1>4. CASE said'[d] = said[d] /\ c2s'[d] = c2s[d]
  BY <1>2, <1>3, <1>4
<1>5. CASE /\ said'[d] = said[d] + 1
           /\ \E e : c2s'[d] = Append(c2s[d], e) /\ e.n = said[d] + 1
  <2>1. PICK e : c2s'[d] = Append(c2s[d], e) /\ e.n = said[d] + 1 BY <1>5
  <2> DEFINE s == c2s[d]
  <2>2. s \in Seq(Chunk) /\ said[d] \in Nat BY <1>1 DEF Text
  <2>3. /\ Len(s) \in Nat /\ Len(Append(s, e)) = Len(s) + 1
        /\ DOMAIN Append(s, e) = 1 .. Len(s) + 1 /\ DOMAIN s = 1 .. Len(s)
        /\ \A k \in 1 .. Len(s) : Append(s, e)[k] = s[k]
        /\ Append(s, e)[Len(s) + 1] = e
    BY <2>2
  <2>4. Received(d)' = Received(d) BY <1>2, <1>3, <1>5, <2>1, <2>2, <2>3
  <2>5. \A k \in 1 .. Len(s) + 1 : Append(s, e)[k].n = Received(d) + k
    <3> TAKE k \in 1 .. Len(s) + 1
    <3>1. CASE k \in 1 .. Len(s) BY <1>2, <2>3, <3>1
    <3>2. CASE k = Len(s) + 1
      <4>1. Append(s, e)[k].n = said[d] + 1 BY <2>1, <2>3, <3>2
      <4>2. Received(d) + k = said[d] + 1 BY <1>2, <2>2, <2>3, <3>2
      <4> QED BY <4>1, <4>2
    <3> QED BY <2>3, <3>1, <3>2
  <2>6. c2s'[d] = Append(s, e) BY <2>1
  <2> HIDE DEF s
  <2> QED BY <1>2, <2>3, <2>4, <2>5, <2>6
<1>6. CASE said' = said /\ Receive(d)
  <2>1. /\ Len(inbuf') \in Nat /\ Received(d)' = Received(d) + Len(inbuf')
        /\ \A k \in DOMAIN c2s'[d] : c2s'[d][k].n = Received(d)' + k
    BY <1>1, <1>6, ReceiveNumbers
  <2> QED BY <1>2, <2>1
<1> QED BY <1>4, <1>5, <1>6, StreamSteps

-----------------------------------------------------------------------------
(* What a step relays.                                                     *)

\* What a step sends to a connection: nothing, or one message.  Only what was
\* read as text of a user is relayed.
LEMMA BroadcastSends ==
    ASSUME NEW st, NEW m, NEW skip, NEW then, broadcast_buffer(skip, m, st, then), NEW c \in Conns
    PROVE  \/ s2c'[c] = s2c[c]
           \/ s2c'[c] = Append(s2c[c], m) /\ c \in Reached(skip, st) /\ SendOk(st[c])
BY DEF broadcast_buffer

LEMMA StepSends ==
    ASSUME TablesInv, [Next]_vars, NEW c \in Conns
    PROVE  \/ s2c'[c] = s2c[c]
           \/ \E m : m.kind # "chat" /\ s2c'[c] = Append(s2c[c], m)
           \/ /\ ClientText /\ c \in Reached(idx, chan) /\ SendOk(chan[c])
              /\ s2c'[c] = Append(s2c[c], [kind |-> "chat", from |-> Owner(idx),
                                           user |-> usernames[idx], text |-> inbuf'])
<1>1. s2c \in [Conns -> Seq(Message)] BY DEF TablesInv, TypeOK
<1>2. CASE Welcome
  <2>1. create_welcome_msg.kind # "chat" BY DEF create_welcome_msg
  <2>2. PICK d : s2c' = IF SendOk(chan[d]) THEN [s2c EXCEPT ![d] = Append(@, create_welcome_msg)] ELSE s2c
    BY <1>2 DEF Welcome
  <2> QED BY <1>1, <2>1, <2>2
<1>3. CASE NameReceived \/ NameReset \/ NameInterrupted
  <2>1. PICK st, j : broadcast_buffer(j, [kind |-> "joined", from |-> fds[new_socket], user |-> inbuf'],
                                      st, "clients")
    BY <1>3 DEF NameReceived, NameReset, NameInterrupted, AddClient
  <2> DEFINE m == [kind |-> "joined", from |-> fds[new_socket], user |-> inbuf']
  <2>2. m.kind # "chat" OBVIOUS
  <2> HIDE DEF m
  <2>3. broadcast_buffer(j, m, st, "clients") BY <2>1 DEF m
  <2>4. s2c'[c] = s2c[c] \/ s2c'[c] = Append(s2c[c], m) BY <2>3, BroadcastSends
  <2> QED BY <2>2, <2>4
<1>4. CASE ClientBye \/ ClientClosed
  <2> DEFINE m == [kind |-> "left", from |-> Owner(idx), user |-> usernames[idx]]
  <2>2. m.kind # "chat" OBVIOUS
  <2>3. PICK st : broadcast_buffer(idx, m, st, "clients")
    BY <1>4 DEF ClientBye, ClientClosed, disconnect_client
  <2> HIDE DEF m
  <2>4. s2c'[c] = s2c[c] \/ s2c'[c] = Append(s2c[c], m) BY <2>3, BroadcastSends
  <2> QED BY <2>2, <2>4
<1>5. CASE SayBye
  <2> DEFINE m == [kind |-> "bye"]
  <2>2. m.kind # "chat" OBVIOUS
  <2>3. broadcast_buffer(-1, m, chan, "closing") BY <1>5 DEF SayBye
  <2> HIDE DEF m
  <2>4. s2c'[c] = s2c[c] \/ s2c'[c] = Append(s2c[c], m) BY <2>3, BroadcastSends
  <2> QED BY <2>2, <2>4
<1>6. CASE ClientText
  <2> DEFINE m == [kind |-> "chat", from |-> Owner(idx), user |-> usernames[idx], text |-> inbuf']
  <2>1. broadcast_buffer(idx, m, chan, "clients") BY <1>6 DEF ClientText
  <2> HIDE DEF m
  <2>2. \/ s2c'[c] = s2c[c]
        \/ s2c'[c] = Append(s2c[c], m) /\ c \in Reached(idx, chan) /\ SendOk(chan[c])
    BY <2>1, BroadcastSends
  <2> QED BY <1>6, <2>2 DEF m
<1>7. ASSUME NEW d \in Conns, Connect(d) \/ Say(d) \/ HangUp(d) \/ ResetArrives(d) PROVE s2c' = s2c
  BY <1>7 DEF Connect, Say, HangUp, ResetArrives
<1>8. CASE Refuse \/ ClientError \/ CloseAll \/ Sigint \/ SigintInSelect \/ BeginSelect \/ LeaveLoop
           \/ SelectReturns \/ SkipAccept \/ AcceptFails \/ NameHangUp \/ SkipSlot \/ EndOfSlots
           \/ UNCHANGED vars
  BY <1>8 DEF Refuse, ClientError, CloseAll, Sigint, SigintInSelect, BeginSelect, LeaveLoop,
     SelectReturns, SkipAccept, AcceptFails, NameHangUp, SkipSlot, EndOfSlots, vars, netVars
<1> QED BY <1>2, <1>3, <1>4, <1>5, <1>6, <1>7, <1>8 DEF Next, Server, Environment

\* Nobody who was not looked at yet, or is being asked for its name, was told of
\* anything that was said, and nothing it says is relayed.
Fresh(c) == c \notin Came \/ c = Newcomer

LEMMA FreshStays ==
    ASSUME [Room!RoomNext]_(Room!roomVars), NULL \notin Conns, NEW c \in Conns, Fresh(c)'
    PROVE  Fresh(c)
<1>1. CASE UNCHANGED Room!roomVars
  BY <1>1 DEF Room!roomVars, Fresh
<1>2. ASSUME NEW d \in Conns, Room!Greets(d) PROVE Fresh(c)
  BY <1>2 DEF Room!Greets, Fresh
<1>3. ASSUME NEW d \in Conns,
             Room!Refuses(d) \/ Room!Joins(d) \/ Room!TurnsBack(d) \/ Room!Chats(d) \/ Room!Leaves(d)
             \/ Room!Breaks(d)
      PROVE  Came \subseteq Came' /\ (Newcomer' = Newcomer \/ Newcomer' = NULL)
  BY <1>3 DEF Room!Refuses, Room!Joins, Room!TurnsBack, Room!Chats, Room!Leaves, Room!Breaks
<1>4. CASE Room!Closes \/ Room!SaysBye \/ Room!Ends \/ Room!Dies
  BY <1>4 DEF Room!Closes, Room!SaysBye, Room!Ends, Room!Dies, Fresh
<1>5. Came \subseteq Came' /\ (Newcomer' = Newcomer \/ Newcomer' = NULL) => Fresh(c)
  BY DEF Fresh
<1> QED BY <1>1, <1>2, <1>3, <1>4, <1>5 DEF Room!RoomNext

\* Only the newcomer enters the room, and who is deaf stays so.
LEMMA UsersEnter ==
    ASSUME [Room!RoomNext]_(Room!roomVars)
    PROVE  Room!Users' \subseteq Room!Users \cup {Newcomer} /\ Deaf \subseteq Deaf'
<1>1. CASE UNCHANGED Room!roomVars
  BY <1>1 DEF Room!roomVars, Room!Users
<1>2. ASSUME NEW d \in Conns, Room!Joins(d)
      PROVE  Room!Users' \subseteq Room!Users \cup {Newcomer} /\ Deaf \subseteq Deaf'
  BY <1>2 DEF Room!Joins, Room!Users
<1>3. ASSUME NEW d \in Conns, Room!Leaves(d)
      PROVE  Room!Users' \subseteq Room!Users /\ Deaf \subseteq Deaf'
  BY <1>3 DEF Room!Leaves, Room!Others, Room!Users
<1>4. ASSUME NEW d \in Conns,
             Room!Greets(d) \/ Room!Refuses(d) \/ Room!TurnsBack(d) \/ Room!Chats(d) \/ Room!Breaks(d)
      PROVE  Named' = Named /\ Deaf \subseteq Deaf'
  BY <1>4 DEF Room!Greets, Room!Refuses, Room!TurnsBack, Room!Chats, Room!Breaks
<1>5. CASE Room!Closes \/ Room!SaysBye
  BY <1>5 DEF Room!Closes, Room!SaysBye, Room!Users
<1>6. CASE Room!Ends \/ Room!Dies
  <2>1. Named' = <<>> /\ Deaf \subseteq Deaf' BY <1>6 DEF Room!Ends, Room!Dies
  <2>2. DOMAIN <<>> = {} OBVIOUS
  <2> QED BY <2>1, <2>2 DEF Room!Users
<1>7. Named' = Named => Room!Users' = Room!Users BY DEF Room!Users
<1> QED BY <1>1, <1>2, <1>3, <1>4, <1>5, <1>6, <1>7 DEF Room!RoomNext

\* The end is the end.
LEMMA StoppedStays == Stopped /\ [Next]_vars => Stopped'
BY DEF Next, Server, Environment, Connect, Say, HangUp, ResetArrives, Sigint, SigintInSelect,
       BeginSelect, LeaveLoop, SelectReturns, SkipAccept, AcceptFails, Refuse, Welcome, NameReceived,
       NameHangUp, NameReset, NameInterrupted, SkipSlot, EndOfSlots, ClientText, ClientBye,
       ClientClosed, ClientError, SayBye, CloseAll, AtSlot, vars, Stopped

RelayedUpTo(c, k, d) == RelayedFrom(SubSeq(s2c[c], 1, k), d)

\* However much of a stream was shown, what it relays of another user is without
\* a gap, and was read by the server.
PrefixesSteady ==
    \A c, d \in Conns : \A k \in 0 .. Len(s2c[c]) :
        /\ Steady(RelayedUpTo(c, k, d), Received(d))
        /\ c = d \/ Fresh(c) \/ Fresh(d) => RelayedUpTo(c, k, d) = <<>>

\* The users who can be told have been relayed all that was read, since the
\* first of it.
UpToDate ==
    ~Stopped => \A c \in Users \ Deaf, d \in Users :
        LET r == RelayedFrom(s2c[c], d) IN r = <<>> \/ r[Len(r)] = Received(d)

RelayInv == ChunksNumbered /\ PrefixesSteady /\ UpToDate

LEMMA PrefixesOfAppend ==
    ASSUME NEW S, NEW s \in Seq(S), NEW m \in S, NEW k \in 0 .. Len(s) + 1
    PROVE  SubSeq(Append(s, m), 1, k) = IF k <= Len(s) THEN SubSeq(s, 1, k) ELSE Append(s, m)
<1> DEFINE t == Append(s, m)
<1>1. /\ t \in Seq(S) /\ Len(t) = Len(s) + 1 /\ Len(s) \in Nat
      /\ \A i \in 1 .. Len(s) : t[i] = s[i]
  BY AppendProperties
<1> HIDE DEF t
<1>2. CASE k = Len(s) + 1
  BY <1>1, <1>2, SubSeqFull DEF t
<1>3. CASE k <= Len(s)
  <2>1. k \in Int /\ k \in 0 .. Len(s) BY <1>1, <1>3
  <2>2. SubSeq(t, 1, k) = [i \in 1 .. k |-> t[i]] BY <1>1, <2>1
  <2>3. SubSeq(s, 1, k) = [i \in 1 .. k |-> s[i]] BY <1>1, <2>1
  <2>4. \A i \in 1 .. k : t[i] = s[i] BY <1>1, <2>1
  <2> QED BY <1>3, <2>2, <2>3, <2>4 DEF t
<1> QED BY <1>1, <1>2, <1>3

LEMMA PrefixesWhole ==
    ASSUME TypeOK, NEW c \in Conns, NEW d
    PROVE  /\ Len(s2c[c]) \in 0 .. Len(s2c[c])
           /\ RelayedUpTo(c, Len(s2c[c]), d) = RelayedFrom(s2c[c], d)
<1>1. s2c[c] \in Seq(Message) BY DEF TypeOK
<1>2. Len(s2c[c]) \in Nat BY <1>1
<1>3. SubSeq(s2c[c], 1, Len(s2c[c])) = s2c[c] BY <1>1, SubSeqFull
<1>4. RelayedUpTo(c, Len(s2c[c]), d) = RelayedFrom(s2c[c], d)
  BY <1>3, Zenon DEF RelayedUpTo
<1>5. Len(s2c[c]) \in 0 .. Len(s2c[c]) BY <1>2
<1> QED BY <1>4, <1>5

\* A message that relays nothing from d leaves what the stream relays from d.
LEMMA RelayedFrame ==
    ASSUME TypeOK, TypeOK', NEW c \in Conns, NEW d,
           \/ s2c'[c] = s2c[c]
           \/ \E m : s2c'[c] = Append(s2c[c], m) /\ RelayedIn(m, d) = <<>>
    PROVE  /\ RelayedFrom(s2c'[c], d) = RelayedFrom(s2c[c], d)
           /\ \A k \in 0 .. Len(s2c'[c]) : \E l \in 0 .. Len(s2c[c]) :
                RelayedFrom(SubSeq(s2c'[c], 1, k), d) = RelayedUpTo(c, l, d)
<1>1. CASE s2c'[c] = s2c[c]
  BY <1>1 DEF RelayedUpTo
<1>2. ASSUME NEW m, s2c'[c] = Append(s2c[c], m), RelayedIn(m, d) = <<>>
      PROVE  /\ RelayedFrom(s2c'[c], d) = RelayedFrom(s2c[c], d)
             /\ \A k \in 0 .. Len(s2c'[c]) : \E l \in 0 .. Len(s2c[c]) :
                  RelayedFrom(SubSeq(s2c'[c], 1, k), d) = RelayedUpTo(c, l, d)
  <2> DEFINE s == s2c[c]
  <2>1. s \in Seq(Message) /\ s2c'[c] \in Seq(Message) BY DEF TypeOK
  <2>2. Len(s) \in Nat /\ Len(s2c'[c]) = Len(s) + 1 /\ s2c'[c][Len(s) + 1] = m
    BY <1>2, <2>1
  <2>3. m \in Message BY <2>1, <2>2
  <2>4. RelayedFrom(s2c'[c], d) = RelayedFrom(s, d)
    <3>0. RelayedFrom(Append(s, m), d) = RelayedFrom(s, d) \o RelayedIn(m, d)
      BY <2>1, <2>3, RelayedAppend
    <3>1. RelayedFrom(Append(s, m), d) = RelayedFrom(s, d) \o <<>>
      BY <1>2, <3>0
    <3>2. RelayedFrom(s, d) \in Seq(Nat) BY <2>1, RelayedSeq
    <3>3. RelayedFrom(s, d) \o <<>> = RelayedFrom(s, d) BY <3>2, ConcatEmptySeq
    <3> QED BY <1>2, <3>1, <3>3
  <2>5. ASSUME NEW k \in 0 .. Len(s2c'[c])
        PROVE  \E l \in 0 .. Len(s) : RelayedFrom(SubSeq(s2c'[c], 1, k), d) = RelayedUpTo(c, l, d)
    <3>1. k \in 0 .. Len(s) + 1 BY <2>2
    <3>2. SubSeq(s2c'[c], 1, k) = IF k <= Len(s) THEN SubSeq(s, 1, k) ELSE s2c'[c]
      BY <1>2, <2>1, <2>3, <3>1, PrefixesOfAppend
    <3>3. CASE k <= Len(s)
      <4>1. k \in 0 .. Len(s) BY <2>2, <3>1, <3>3
      <4>2. RelayedFrom(SubSeq(s2c'[c], 1, k), d) = RelayedUpTo(c, k, d)
        BY <3>2, <3>3 DEF RelayedUpTo
      <4> QED BY <4>1, <4>2
    <3>4. CASE ~(k <= Len(s))
      <4>1. RelayedFrom(SubSeq(s2c'[c], 1, k), d) = RelayedUpTo(c, Len(s), d)
        BY <2>4, <3>2, <3>4, PrefixesWhole
      <4>2. Len(s) \in 0 .. Len(s) BY <2>2
      <4> QED BY <4>1, <4>2
    <3> QED BY <3>3, <3>4
  <2> QED BY <2>4, <2>5
<1> QED BY <1>1, <1>2

\* Text of a user that is relayed continues what was relayed of it before.
LEMMA TextRelays ==
    ASSUME RoomInv, StreamsInv, RelayInv, TypeOK', ClientText, NEW c \in Conns,
           NEW d, d = Owner(idx),
           c \in Reached(idx, chan), SendOk(chan[c]),
           s2c'[c] = Append(s2c[c], [kind |-> "chat", from |-> Owner(idx),
                                     user |-> usernames[idx], text |-> inbuf'])
    PROVE  LET r == RelayedFrom(s2c'[c], d) IN
           /\ d \in Conns /\ c # d /\ ~Fresh(c) /\ ~Fresh(d)
           /\ \A k \in 0 .. Len(s2c'[c]) :
                Steady(RelayedFrom(SubSeq(s2c'[c], 1, k), d), Received(d)')
           /\ r[Len(r)] = Received(d)'
<1> DEFINE m == [kind |-> "chat", from |-> d, user |-> usernames[idx], text |-> inbuf']
           s == s2c[c]
           r == RelayedFrom(s, d)
           t == RelayedIn(m, d)
<1>1. /\ AtSlot /\ Selected(idx) /\ Receive(d) /\ said' = said
  BY DEF ClientText, handlerUnchanged
<1>2. /\ idx \in Occupied /\ d \in Users /\ d \in Conns
      /\ {Owner(k) : k \in Occupied \ {idx}} = Users \ {d}
      /\ Room!Users = Users /\ ~Stopped
  BY <1>1, SlotAtHand
<1>3. c \in Users \ {d}
  BY <1>2 DEF Reached
<1>4. TypeOK /\ TablesInv /\ OwnedOnce BY DEF RoomInv, TablesInv
<1>5. c \notin Deaf /\ ~Fresh(c) /\ ~Fresh(d)
  <2>1. Users \subseteq Came /\ NULL \notin Users /\ (Newcomer # NULL => Newcomer \notin Users)
    BY <1>2, <1>4, WhoIsThere DEF StreamsInv, Stopped
  <2>2. Newcomer \notin Users BY <2>1
  <2>3. chan[c] \notin {"aborted", "reset", "closed"} BY DEF SendOk
  <2> QED BY <1>2, <1>3, <2>1, <2>2, <2>3 DEF Fresh, Deaf
<1>6. /\ inbuf' \in Text /\ inbuf' # <<>> /\ Len(inbuf') \in Nat
      /\ Received(d)' = Received(d) + Len(inbuf')
      /\ \A k \in DOMAIN inbuf' : inbuf'[k].n = Received(d) + k
  <2>1. c2s \in [Conns -> Text] /\ said \in [Conns -> Nat] /\ ChunksNumbered
    BY <1>4 DEF RelayInv, TypeOK
  <2> QED BY <1>1, <1>2, <2>1, ReceiveNumbers
<1>7. Received(d) \in Nat BY <1>2 DEF RelayInv, ChunksNumbered
<1>8. /\ s \in Seq(Message) /\ s2c'[c] \in Seq(Message) /\ Len(s) \in Nat
      /\ s2c'[c] = Append(s, m)
  BY <1>4 DEF TypeOK
<1>9. Len(s2c'[c]) = Len(s) + 1 /\ m \in Message
  <2>1. Len(s2c'[c]) = Len(s) + 1 /\ s2c'[c][Len(s) + 1] = m BY <1>8
  <2> QED BY <1>8, <2>1
<1>10. /\ t \in Seq(Nat) /\ t # <<>> /\ Len(t) = Len(inbuf')
       /\ \A k \in DOMAIN t : t[k] = Received(d) + k
  <2>1. t = [k \in DOMAIN inbuf' |-> inbuf'[k].n]
    BY DEF RelayedIn
  <2>2. t \in Seq(Nat) BY <1>9, RelayedType
  <2>3. DOMAIN inbuf' = 1 .. Len(inbuf') /\ Len(inbuf') # 0 BY <1>6 DEF Text
  <2> HIDE DEF t
  <2>4. Len(t) = Len(inbuf') BY <1>6, <2>1, <2>3
  <2> QED BY <1>6, <2>1, <2>2, <2>3, <2>4
<1>11. r \in Seq(Nat) /\ Steady(r, Received(d)) /\ (r = <<>> \/ r[Len(r)] = Received(d))
  <2>1. r \in Seq(Nat) BY <1>8, RelayedSeq
  <2>2. Steady(r, Received(d)) BY <1>2, <1>4, PrefixesWhole DEF RelayInv, PrefixesSteady
  <2>3. r = <<>> \/ r[Len(r)] = Received(d)
    BY <1>2, <1>3, <1>5 DEF RelayInv, UpToDate
  <2> QED BY <2>1, <2>2, <2>3
<1>12. RelayedFrom(s2c'[c], d) = r \o t
  BY <1>8, <1>9, RelayedAppend
<1> DEFINE q == RelayedFrom(s2c'[c], d)
<1>13. Steady(q, Received(d)') /\ q[Len(q)] = Received(d)'
  <2> HIDE DEF r, t
  <2>1. Steady(r \o t, Received(d) + Len(t)) /\ (r \o t)[Len(r \o t)] = Received(d) + Len(t)
    BY <1>7, <1>10, <1>11, SteadyGrows
  <2> QED BY <1>6, <1>10, <1>12, <2>1
<1>14. ASSUME NEW k \in 0 .. Len(s2c'[c])
       PROVE  Steady(RelayedFrom(SubSeq(s2c'[c], 1, k), d), Received(d)')
  <2>1. k \in 0 .. Len(s) + 1 BY <1>9
  <2>2. SubSeq(s2c'[c], 1, k) = IF k <= Len(s) THEN SubSeq(s, 1, k) ELSE s2c'[c]
    BY <1>8, <1>9, <2>1, PrefixesOfAppend
  <2>3. CASE k <= Len(s)
    <3>1. k \in 0 .. Len(s) BY <1>8, <2>1, <2>3
    <3>2. Steady(RelayedUpTo(c, k, d), Received(d))
      BY <1>2, <3>1 DEF RelayInv, PrefixesSteady
    <3>3. Received(d)' \in Nat /\ Received(d) <= Received(d)' BY <1>6, <1>7
    <3>4. Steady(RelayedUpTo(c, k, d), Received(d)') BY <1>7, <3>2, <3>3, SteadyBelow
    <3> QED BY <2>2, <2>3, <3>4 DEF RelayedUpTo
  <2>4. CASE ~(k <= Len(s)) BY <1>13, <2>2, <2>4
  <2> QED BY <2>3, <2>4
<1> QED BY <1>2, <1>3, <1>5, <1>13, <1>14

\* What was read is never unread.
LEMMA ReceivedGrows ==
    ASSUME TablesInv, ChunksNumbered, [Next]_vars, NEW d \in Conns
    PROVE  /\ Received(d) \in Nat /\ Received(d)' \in Nat /\ Received(d) <= Received(d)'
           /\ \/ Received(d)' = Received(d)
              \/ NameReceived /\ fds[new_socket] = d
              \/ (ClientText \/ ClientBye) /\ Owner(idx) = d
<1>1. c2s \in [Conns -> Text] /\ said \in [Conns -> Nat] BY DEF TablesInv, TypeOK
<1>2. Received(d) \in Nat /\ Received(d) = said[d] - Len(c2s[d])
  BY DEF ChunksNumbered, Received
<1>3. Received(d)' = said'[d] - Len(c2s'[d]) BY DEF Received
<1>4. CASE said'[d] = said[d] /\ c2s'[d] = c2s[d]
  BY <1>2, <1>3, <1>4
<1>5. CASE /\ said'[d] = said[d] + 1
           /\ \E e : c2s'[d] = Append(c2s[d], e) /\ e.n = said[d] + 1
  <2>1. c2s[d] \in Seq(Chunk) /\ said[d] \in Nat BY <1>1 DEF Text
  <2>2. Len(c2s[d]) \in Nat /\ Len(c2s'[d]) = Len(c2s[d]) + 1 BY <1>5, <2>1
  <2>3. Received(d)' = Received(d) BY <1>2, <1>3, <1>5, <2>1, <2>2
  <2> QED BY <1>2, <2>3
<1>6. CASE /\ said' = said /\ Receive(d)
           /\ \/ NameReceived /\ fds[new_socket] = d
              \/ (ClientText \/ ClientBye) /\ Owner(idx) = d
  <2>1. Len(inbuf') \in Nat /\ Received(d)' = Received(d) + Len(inbuf')
    BY <1>1, <1>6, ReceiveNumbers
  <2> QED BY <1>2, <1>6, <2>1
<1> QED BY <1>4, <1>5, <1>6, StreamSteps

\* Who is disconnected has no slot any more.
LEMMA ByeLosesSlot ==
    ASSUME TablesInv, OwnedOnce, ClientBye, ~Stopped', NEW d, d = Owner(idx)
    PROVE  d \notin Users'
<1>1. AtSlot /\ Selected(idx) /\ disconnect_client(idx) /\ pc = "clients" /\ idx \in Occupied
  BY DEF ClientBye, AtSlot, Selected
<1>2. Fatal(idx, [chan EXCEPT ![d] = "closed"]) = {}
  BY <1>1 DEF disconnect_client, broadcast_buffer, Stopped
<1>3. /\ fds' = [fds EXCEPT ![client_sockets[idx]] = NULL]
      /\ client_sockets' = [client_sockets EXCEPT ![idx] = -1]
  BY <1>1, <1>2 DEF disconnect_client
<1>4. TypeOK /\ idx \in Slots /\ client_sockets[idx] \in Fds BY <1>1, OccupiedType DEF TablesInv
<1>5. ASSUME NEW j \in Occupied' PROVE fds'[client_sockets'[j]] # d
  <2>1. j \in Slots /\ client_sockets'[j] # -1 BY <1>5 DEF Occupied
  <2>2. j # idx BY <1>3, <1>4, <2>1 DEF TypeOK
  <2>3. client_sockets'[j] = client_sockets[j] /\ j \in Occupied
    BY <1>3, <1>4, <2>1, <2>2 DEF TypeOK, Occupied
  <2>4. client_sockets[j] \in Fds /\ client_sockets[j] # client_sockets[idx]
    BY <1>1, <2>2, <2>3, OccupiedType DEF TablesInv, SlotsAgree
  <2>5. fds'[client_sockets[j]] = Owner(j) BY <1>3, <1>4, <2>4 DEF TypeOK, Owner
  <2>6. Owner(j) # Owner(idx) BY <1>1, <2>2, <2>3, OwnersDiffer
  <2> QED BY <2>3, <2>5, <2>6
<1> QED BY <1>5 DEF Users, Owner

LEMMA UsersStayConns == ASSUME TablesInv', ~Stopped' PROVE Users' \subseteq Conns
<1>1. \A j \in Occupied' : client_sockets'[j] \in Fds /\ Owner(j)' \in Conns
  BY DEF Owner, Occupied, TablesInv, TypeOK, SlotsAgree, Stopped
<1> QED BY <1>1 DEF Users

LEMMA RelayNext ==
    ASSUME RoomInv, StreamsInv, RelayInv, TablesInv', OwnedOnce', NamesBySlot', [Next]_vars
    PROVE  RelayInv'
<1> USE ServerAssumption
<1>1. TablesInv /\ TypeOK /\ TypeOK' /\ OwnedOnce /\ NamesBySlot
  BY DEF RoomInv, TablesInv
<1>2. [Room!RoomNext]_(Room!roomVars) BY StepImplements
<1>3. ChunksNumbered /\ PrefixesSteady /\ UpToDate BY DEF RelayInv
<1>4. ChunksNumbered' BY <1>1, <1>3, ChunksNumberedNext
<1>5. ASSUME NEW c \in Conns, NEW d \in Conns
      PROVE  \/ /\ RelayedFrom(s2c'[c], d) = RelayedFrom(s2c[c], d)
                /\ \A k \in 0 .. Len(s2c'[c]) : \E l \in 0 .. Len(s2c[c]) :
                     RelayedFrom(SubSeq(s2c'[c], 1, k), d) = RelayedUpTo(c, l, d)
             \/ /\ c # d /\ ~Fresh(c) /\ ~Fresh(d)
                /\ \A k \in 0 .. Len(s2c'[c]) :
                     Steady(RelayedFrom(SubSeq(s2c'[c], 1, k), d), Received(d)')
                /\ LET r == RelayedFrom(s2c'[c], d) IN r[Len(r)] = Received(d)'
  <2>1. CASE s2c'[c] = s2c[c]
    BY <1>1, <2>1, RelayedFrame
  <2>2. ASSUME NEW m, m.kind # "chat", s2c'[c] = Append(s2c[c], m)
        PROVE  /\ RelayedFrom(s2c'[c], d) = RelayedFrom(s2c[c], d)
               /\ \A k \in 0 .. Len(s2c'[c]) : \E l \in 0 .. Len(s2c[c]) :
                    RelayedFrom(SubSeq(s2c'[c], 1, k), d) = RelayedUpTo(c, l, d)
    <3>1. RelayedIn(m, d) = <<>> BY <2>2 DEF RelayedIn
    <3> QED BY <1>1, <2>2, <3>1, RelayedFrame
  <2> DEFINE m == [kind |-> "chat", from |-> Owner(idx), user |-> usernames[idx], text |-> inbuf']
  <2>3. CASE ClientText /\ c \in Reached(idx, chan) /\ SendOk(chan[c]) /\ s2c'[c] = Append(s2c[c], m)
    <3>1. CASE d = Owner(idx)
      BY <1>1, <2>3, <3>1, TextRelays
    <3>2. CASE d # Owner(idx)
      <4>1. RelayedIn(m, d) = <<>> BY <3>2 DEF RelayedIn
      <4> HIDE DEF m
      <4> QED BY <1>1, <2>3, <4>1, RelayedFrame
    <3> QED BY <3>1, <3>2
  <2> QED BY <1>1, <2>1, <2>2, <2>3, StepSends
<1>6. ASSUME NEW d \in Conns
      PROVE  Received(d) \in Nat /\ Received(d)' \in Nat /\ Received(d) <= Received(d)'
  BY <1>1, <1>3, ReceivedGrows
<1>7. PrefixesSteady'
  <2> SUFFICES ASSUME NEW c \in Conns, NEW d \in Conns, NEW k \in 0 .. Len(s2c'[c])
               PROVE  LET r == RelayedFrom(SubSeq(s2c'[c], 1, k), d) IN
                      Steady(r, Received(d)') /\ (c = d \/ Fresh(c)' \/ Fresh(d)' => r = <<>>)
    BY DEF PrefixesSteady, RelayedUpTo
  <2>1. (Fresh(c)' => Fresh(c)) /\ (Fresh(d)' => Fresh(d)) BY <1>2, FreshStays
  <2>2. ASSUME NEW l \in 0 .. Len(s2c[c]),
               RelayedFrom(SubSeq(s2c'[c], 1, k), d) = RelayedUpTo(c, l, d)
        PROVE  LET r == RelayedFrom(SubSeq(s2c'[c], 1, k), d) IN
               Steady(r, Received(d)') /\ (c = d \/ Fresh(c)' \/ Fresh(d)' => r = <<>>)
    <3>1. /\ Steady(RelayedUpTo(c, l, d), Received(d))
          /\ c = d \/ Fresh(c) \/ Fresh(d) => RelayedUpTo(c, l, d) = <<>>
      BY <1>3 DEF PrefixesSteady
    <3>2. Steady(RelayedUpTo(c, l, d), Received(d)') BY <1>6, <3>1, SteadyBelow
    <3> QED BY <2>1, <2>2, <3>1, <3>2
  <2> QED BY <1>5, <2>1, <2>2
<1>8. UpToDate'
  <2> SUFFICES ASSUME ~Stopped', NEW c \in Users' \ Deaf', NEW d \in Users'
               PROVE  LET r == RelayedFrom(s2c'[c], d) IN r = <<>> \/ r[Len(r)] = Received(d)'
    BY DEF UpToDate
  <2>1. ~Stopped BY StoppedStays
  <2>2. Room!Users = Users /\ Room!Users' = Users'
    BY <2>1 DEF Room!Users, Named
  <2>3. c \in Users \cup {Newcomer} /\ d \in Users \cup {Newcomer} /\ c \notin Deaf
    BY <1>2, <2>2, UsersEnter
  <2>4. c \in Conns /\ d \in Conns
    BY UsersStayConns
  <2>5. RelayedUpTo(c, Len(s2c[c]), d) = RelayedFrom(s2c[c], d) /\ Len(s2c[c]) \in 0 .. Len(s2c[c])
    BY <1>1, <2>4, PrefixesWhole
  <2>6. CASE c = Newcomer \/ d = Newcomer
    <3>1. Fresh(c) \/ Fresh(d) BY <2>6 DEF Fresh
    <3>2. RelayedFrom(s2c[c], d) = <<>> BY <1>3, <2>4, <2>5, <3>1 DEF PrefixesSteady
    <3> QED BY <1>5, <2>4, <3>1, <3>2
  <2>7. CASE c # Newcomer /\ d # Newcomer
    <3>1. c \in Users \ Deaf /\ d \in Users BY <2>3, <2>7
    <3>2. RelayedFrom(s2c[c], d) = <<>> \/ LET r == RelayedFrom(s2c[c], d) IN r[Len(r)] = Received(d)
      BY <1>3, <2>1, <3>1 DEF UpToDate
    <3>3. CASE Received(d)' = Received(d) BY <1>5, <2>4, <3>2, <3>3
    <3>4. CASE NameReceived /\ fds[new_socket] = d
      BY <2>7, <3>4 DEF NameReceived, Newcomer
    <3>5. CASE ClientBye /\ Owner(idx) = d
      BY <1>1, <3>5, ByeLosesSlot
    <3>6. CASE ClientText /\ Owner(idx) = d
      <4>1. CASE c = d
        <5>1. RelayedFrom(s2c[c], d) = <<>> BY <1>3, <2>4, <2>5, <4>1 DEF PrefixesSteady
        <5> QED BY <1>5, <2>4, <4>1, <5>1
      <4>2. CASE c # d
        <5> DEFINE m == [kind |-> "chat", from |-> Owner(idx), user |-> usernames[idx], text |-> inbuf']
        <5>1. broadcast_buffer(idx, m, chan, "clients") BY <3>6 DEF ClientText
        <5>2. idx \in Occupied BY <3>6 DEF ClientText, Selected
        <5>3. Fatal(idx, chan) = {} BY <5>1 DEF broadcast_buffer, Stopped
        <5>4. PICK k \in Occupied : c = Owner(k) BY <3>1 DEF Users
        <5>5. k # idx BY <3>6, <4>2, <5>4
        <5>6. c \in Reached(idx, chan) BY <5>3, <5>4, <5>5 DEF Reached
        <5>7. SendOk(chan[c])
          <6>1. chan[c] \in ChanState /\ chan[c] # "new"
            BY <1>1, <2>1, <2>4, <3>1, WhoIsThere DEF TypeOK, Stopped
          <6>2. chan[c] \notin {"aborted", "reset", "closed"} BY <2>3, <2>4 DEF Deaf
          <6> QED BY <6>1, <6>2 DEF ChanState, SendOk
        <5>8. s2c'[c] = Append(s2c[c], m)
          BY <2>4, <5>1, <5>6, <5>7 DEF broadcast_buffer
        <5> QED BY <1>1, <2>4, <3>6, <5>6, <5>7, <5>8, TextRelays
      <4> QED BY <4>1, <4>2
    <3> QED BY <1>1, <1>3, <2>4, <3>3, <3>4, <3>5, <3>6, ReceivedGrows
  <2> QED BY <2>6, <2>7
<1> QED BY <1>4, <1>7, <1>8 DEF RelayInv

-----------------------------------------------------------------------------
(* The order of lines.                                                     *)

LastOf(l)     == IF l = <<>> THEN 0 ELSE l[Len(l)]
RepeatedIn(l) == {k \in 1 .. Len(l) - 1 : l[k + 1] = l[k]}

\* Lines numbered from 1, after the name, each followed by itself or the next.
InOrder(l) ==
    /\ l \in Seq(Nat)
    /\ {l[k] : k \in DOMAIN l} \ {0} = 1 .. LastOf(l)
    /\ \A k \in 1 .. Len(l) - 1 : l[k + 1] = l[k] \/ l[k + 1] = l[k] + 1

LEMMA RepeatedType ==
    ASSUME NEW l \in Seq(Nat)
    PROVE  IsFiniteSet(RepeatedIn(l)) /\ Cardinality(RepeatedIn(l)) \in Nat
<1>1. Len(l) - 1 \in Int /\ 1 \in Int OBVIOUS
<1>2. IsFiniteSet(1 .. Len(l) - 1) BY <1>1, FS_Interval
<1>3. RepeatedIn(l) \in SUBSET (1 .. Len(l) - 1) BY DEF RepeatedIn
<1>4. IsFiniteSet(RepeatedIn(l)) BY <1>2, <1>3, FS_Subset
<1> QED BY <1>4, FS_CardinalityType

\* The last line again, or the next one, continues the order.
LEMMA AppendLine ==
    ASSUME NEW l, InOrder(l), NEW n \in Nat, n = LastOf(l) \/ n = LastOf(l) + 1
    PROVE  /\ InOrder(Append(l, n)) /\ LastOf(Append(l, n)) = n
           /\ Len(Append(l, n)) = Len(l) + 1
           /\ l = <<>> \/ n # LastOf(l) => RepeatedIn(Append(l, n)) = RepeatedIn(l)
           /\ Cardinality(RepeatedIn(Append(l, n))) <= Cardinality(RepeatedIn(l)) + 1
<1> DEFINE t == Append(l, n)
           N == Len(l)
<1>1. /\ l \in Seq(Nat) /\ t \in Seq(Nat) /\ N \in Nat /\ Len(t) = N + 1 /\ t[N + 1] = n /\ t # <<>>
      /\ DOMAIN l = 1 .. N /\ DOMAIN t = 1 .. N + 1
      /\ \A k \in 1 .. N : l[k] \in Nat
      /\ \A k \in 1 .. N : t[k] = l[k]
      /\ N = 0 <=> l = <<>>
  <2>1. l \in Seq(Nat) BY DEF InOrder
  <2> QED BY <2>1, AppendProperties
<1>2. /\ {l[k] : k \in 1 .. N} \ {0} = 1 .. LastOf(l)
      /\ \A k \in 1 .. N - 1 : l[k + 1] = l[k] \/ l[k + 1] = l[k] + 1
  BY <1>1 DEF InOrder
<1>3. LastOf(l) = IF N = 0 THEN 0 ELSE l[N]
  BY <1>1 DEF LastOf
<1>4. LastOf(t) = n BY <1>1 DEF LastOf
<1>5. RepeatedIn(l) = {k \in 1 .. N - 1 : l[k + 1] = l[k]} BY DEF RepeatedIn
<1>6. RepeatedIn(t) = {k \in 1 .. N : t[k + 1] = t[k]}
  <2>1. Len(t) - 1 = N BY <1>1
  <2> QED BY <2>1 DEF RepeatedIn
<1> HIDE DEF t, N
<1>7. LastOf(l) \in Nat BY <1>1, <1>3
<1>8. {t[k] : k \in 1 .. N + 1} \ {0} = 1 .. n
  <2>1. {t[k] : k \in 1 .. N + 1} = {l[k] : k \in 1 .. N} \cup {n}
    <3>1. \A k \in 1 .. N : k \in 1 .. N + 1 BY <1>1
    <3>2. \A k \in 1 .. N + 1 : k \in 1 .. N \/ k = N + 1 BY <1>1
    <3>3. N + 1 \in 1 .. N + 1 BY <1>1
    <3> QED BY <1>1, <3>1, <3>2, <3>3
  <2>2. ({l[k] : k \in 1 .. N} \cup {n}) \ {0} = (1 .. LastOf(l)) \cup ({n} \ {0})
    BY <1>2
  <2>3. (1 .. LastOf(l)) \cup ({n} \ {0}) = 1 .. n
    BY <1>7
  <2> QED BY <2>1, <2>2, <2>3
<1>9. \A k \in 1 .. N : t[k + 1] = t[k] \/ t[k + 1] = t[k] + 1
  <2> TAKE k \in 1 .. N
  <2>1. CASE k \in 1 .. N - 1
    <3>1. k + 1 \in 1 .. N BY <1>1, <2>1
    <3> QED BY <1>1, <1>2, <2>1, <3>1
  <2>2. CASE k = N
    BY <1>1, <1>3, <2>2
  <2> QED BY <1>1, <2>1, <2>2
<1>10. InOrder(t)
  <2>1. Len(t) - 1 = N BY <1>1
  <2> QED BY <1>1, <1>4, <1>8, <1>9, <2>1 DEF InOrder
<1>11. \A k \in 1 .. N - 1 : k \in RepeatedIn(t) <=> k \in RepeatedIn(l)
  <2> TAKE k \in 1 .. N - 1
  <2>1. k \in 1 .. N /\ k + 1 \in 1 .. N BY <1>1
  <2> QED BY <1>1, <1>5, <1>6, <2>1
<1>12. RepeatedIn(t) \subseteq RepeatedIn(l) \cup {N} /\ RepeatedIn(l) \subseteq RepeatedIn(t)
  <2>1. \A k \in 1 .. N : k = N \/ k \in 1 .. N - 1 BY <1>1
  <2> QED BY <1>5, <1>6, <1>11, <2>1
<1>13. ASSUME l = <<>> \/ n # LastOf(l) PROVE RepeatedIn(t) = RepeatedIn(l)
  <2>1. N \notin RepeatedIn(t)
    <3> SUFFICES ASSUME N \in RepeatedIn(t) PROVE FALSE OBVIOUS
    <3>1. N \in 1 .. N /\ t[N + 1] = t[N] BY <1>6
    <3>2. N # 0 BY <1>1, <3>1
    <3>3. n = l[N] BY <1>1, <3>1
    <3> QED BY <1>1, <1>3, <1>13, <3>2, <3>3
  <2> QED BY <1>12, <2>1
<1>14. Cardinality(RepeatedIn(t)) <= Cardinality(RepeatedIn(l)) + 1
  <2>1. /\ IsFiniteSet(RepeatedIn(l)) /\ Cardinality(RepeatedIn(l)) \in Nat
        /\ Cardinality(RepeatedIn(t)) \in Nat
    BY <1>1, RepeatedType
  <2>2. /\ IsFiniteSet(RepeatedIn(l) \cup {N})
        /\ Cardinality(RepeatedIn(l) \cup {N}) = IF N \in RepeatedIn(l) THEN Cardinality(RepeatedIn(l))
                                                 ELSE Cardinality(RepeatedIn(l)) + 1
    BY <2>1, FS_AddElement
  <2>3. Cardinality(RepeatedIn(t)) <= Cardinality(RepeatedIn(l) \cup {N})
    BY <1>12, <2>2, FS_Subset
  <2> QED BY <2>1, <2>2, <2>3
<1> QED BY <1>1, <1>4, <1>10, <1>13, <1>14 DEF t, N

\* Numbers without a gap differ.
LEMMA SteadyApart ==
    ASSUME NEW n \in Nat, NEW r \in Seq(Nat), Steady(r, n), NEW j \in DOMAIN r, NEW k \in DOMAIN r,
           r[j] = r[k]
    PROVE  j = k
<1>1. /\ Len(r) \in Nat /\ DOMAIN r = 1 .. Len(r) /\ \A x \in 1 .. Len(r) : r[x] \in Nat
      /\ \A x \in 1 .. Len(r) - 1 : r[x + 1] = r[x] + 1
  BY DEF Steady
<1> DEFINE S == {x \in Nat : \A y \in 1 .. Len(r) : y + x <= Len(r) => r[y + x] = r[y] + x}
<1>2. 0 \in S BY <1>1
<1>3. ASSUME NEW x \in Nat, x \in S PROVE x + 1 \in S
  <2> SUFFICES ASSUME NEW y \in 1 .. Len(r), y + (x + 1) <= Len(r) PROVE r[y + (x + 1)] = r[y] + (x + 1)
    OBVIOUS
  <2>1. y + x \in 1 .. Len(r) - 1 /\ y + x <= Len(r) /\ (y + x) + 1 = y + (x + 1) BY <1>1
  <2>2. r[y + x] = r[y] + x BY <1>3, <2>1
  <2>3. r[(y + x) + 1] = r[y + x] + 1 BY <1>1, <2>1
  <2> QED BY <1>1, <2>1, <2>2, <2>3
<1> HIDE DEF S
<1>4. Nat \subseteq S BY <1>2, <1>3, InductionOnSets
<1>5. ASSUME NEW a \in 1 .. Len(r), NEW b \in 1 .. Len(r), a < b PROVE r[a] # r[b]
  <2>1. b - a \in Nat /\ b - a # 0 /\ a + (b - a) = b /\ b <= Len(r) BY <1>1, <1>5
  <2>2. b - a \in S BY <1>4, <2>1
  <2>3. r[a + (b - a)] = r[a] + (b - a) BY <2>1, <2>2 DEF S
  <2>4. r[a] \in Nat BY <1>1
  <2> QED BY <2>1, <2>3, <2>4
<1>6. j \in 1 .. Len(r) /\ k \in 1 .. Len(r) BY <1>1
<1>7. j < k \/ k < j \/ j = k BY <1>1, <1>6
<1> QED BY <1>5, <1>6, <1>7

-----------------------------------------------------------------------------
(* The server with its clients.                                            *)

\* A step of the server, its kernel or its signals, or of one client, is one of
\* the server's specification, and nobody but a client says anything.
LEMMA ServerSideSteps == ServerSide => Next /\ said' = said
<1>1. ServerSide => Next
  BY DEF ServerSide, Next, Environment
<1>2. ASSUME NEW c, ResetArrives(c) PROVE said' = said
  BY <1>2 DEF ResetArrives
<1>3. ASSUME \/ Sigint \/ SigintInSelect \/ BeginSelect \/ LeaveLoop \/ SelectReturns \/ SkipAccept
             \/ AcceptFails \/ NameHangUp \/ SkipSlot \/ EndOfSlots
      PROVE  said' = said
  BY <1>3 DEF Sigint, SigintInSelect, BeginSelect, LeaveLoop, SelectReturns, SkipAccept, AcceptFails,
     NameHangUp, SkipSlot, EndOfSlots, netVars
<1>4. ASSUME Refuse \/ Welcome \/ SayBye \/ CloseAll PROVE said' = said
  BY <1>4 DEF Refuse, Welcome, SayBye, CloseAll
<1>5. ASSUME NameReceived \/ NameReset \/ NameInterrupted PROVE said' = said
  BY <1>5 DEF NameReceived, NameReset, NameInterrupted, AddClient
<1>6. ASSUME ClientText \/ ClientBye \/ ClientClosed \/ ClientError PROVE said' = said
  BY <1>6 DEF ClientText, ClientBye, ClientClosed, ClientError, handlerUnchanged
<1>7. ServerSide => said' = said
  BY <1>2, <1>3, <1>4, <1>5, <1>6 DEF ServerSide, Server
<1> QED BY <1>1, <1>7

LEMMA PeerSteps ==
    ASSUME NEW c \in Conns, Connect(c) \/ Say(c) \/ HangUp(c) \/ UNCHANGED vars
    PROVE  [Next]_vars
BY DEF Next, Environment

LEMMA CloseSteps ==
    ASSUME NEW c \in Conns, NEW unread, Close(c, unread)
    PROVE  [Next]_vars /\ said' = said
<1>1. HangUp(c) => said' = said BY DEF HangUp
<1>2. UNCHANGED vars => said' = said BY DEF vars, netVars
<1> QED BY <1>1, <1>2, PeerSteps DEF Close

LEMMA SendSteps ==
    ASSUME NEW c \in Conns, NEW n, NEW bye, send(c, n, bye)
    PROVE  [Next]_vars
<1>1. Sent(c, n, bye) => Say(c) BY DEF Sent
<1>2. Lost(c) => UNCHANGED vars BY DEF Lost
<1> QED BY <1>1, <1>2, PeerSteps DEF send

LEMMA ChatStepsAreServers == [ChatNext]_chatVars => [Next]_vars
<1>1. ServerSide => [Next]_vars BY ServerSideSteps
<1>2. UNCHANGED chatVars => UNCHANGED vars BY DEF chatVars
<1>3. ASSUME NEW c \in Conns, Client(c) PROVE [Next]_vars
  <2>1. GetWelcome(c) \/ NoWelcome(c) \/ HandleMessage(c) \/ HandleLost(c) => UNCHANGED vars
    BY DEF GetWelcome, NoWelcome, HandleMessage, HandleLost
  <2>2. SendName(c) => [Next]_vars BY SendSteps DEF SendName
  <2>3. Leave(c) => [Next]_vars BY CloseSteps DEF Leave
  <2> QED BY <1>3, <2>1, <2>2, <2>3 DEF Client
<1>4. ASSUME NEW c \in Conns, User(c) PROVE [Next]_vars
  <2>1. EnterChat(c) => [Next]_vars BY PeerSteps DEF EnterChat
  <2>2. HandleLine(c) => [Next]_vars BY SendSteps DEF HandleLine
  <2>3. HandleEndOfInput(c) => [Next]_vars BY SendSteps DEF HandleEndOfInput
  <2>4. HandleEmptyLine(c) \/ BeginLine(c) \/ BrokenPipe(c) => UNCHANGED vars
    BY DEF HandleEmptyLine, BeginLine, BrokenPipe
  <2>5. Killed(c) => [Next]_vars BY CloseSteps DEF Killed
  <2>6. FinishLine(c) => [Next]_vars BY SendSteps DEF FinishLine
  <2> QED BY <1>4, <2>1, <2>2, <2>3, <2>4, <2>5, <2>6 DEF User
<1> QED BY <1>1, <1>2, <1>3, <1>4 DEF ChatNext

\* The server with its clients is the server: what holds of it whatever its
\* peers do holds here.
THEOREM ChatRefinesServer == ChatSpec => Spec
<1>1. ChatInit => Init BY DEF ChatInit
<1> QED BY <1>1, ChatStepsAreServers, PTL DEF Spec, ChatSpec

LEMMA RelayInitially == Init => RelayInv
<1> SUFFICES ASSUME Init PROVE RelayInv OBVIOUS
<1>1. Len(<<>>) = 0 /\ DOMAIN <<>> = {} OBVIOUS
<1>2. ChunksNumbered BY <1>1 DEF Init, ChunksNumbered, Received
<1>3. ASSUME NEW c \in Conns, NEW d \in Conns, NEW k \in 0 .. Len(s2c[c]) PROVE RelayedUpTo(c, k, d) = <<>>
  <2>1. s2c[c] = <<>> /\ k = 0 BY <1>1 DEF Init
  <2>2. SubSeq(s2c[c], 1, k) = <<>> BY <2>1
  <2> QED BY <2>2, RelayedEmpty DEF RelayedUpTo
<1>4. \A n : Steady(<<>>, n) BY <1>1 DEF Steady
<1>5. PrefixesSteady BY <1>3, <1>4 DEF PrefixesSteady
<1>6. UpToDate
  <2>1. Users = {} BY DEF Init, Users, Occupied
  <2> QED BY <2>1 DEF UpToDate
<1> QED BY <1>2, <1>5, <1>6 DEF RelayInv

\* What the server relays of a user continues what it relayed before, for every
\* stream: in every reachable state RelayInv holds.
THEOREM RelaysConsistent == Spec => []RelayInv
<1>1. Init => RelayInv BY RelayInitially
<1>2. TablesInv /\ ReadInv => RoomInv /\ OwnedOnce /\ NamesBySlot
  BY SlotNames DEF ReadInv, RoomInv
<1>3. RoomInv /\ StreamsInv /\ RelayInv /\ TablesInv' /\ OwnedOnce' /\ NamesBySlot' /\ [Next]_vars => RelayInv'
  BY RelayNext
<1> QED BY <1>1, <1>2, <1>3, TablesConsistent, ReadsConsistent, StreamsConsistent, PTL DEF Spec

\* A connection the server closed stays closed.
LEMMA ClosedStays ==
    ASSUME TablesInv, [Next]_vars, NEW c \in Conns, ServerClosed(c) PROVE ServerClosed(c)'
<1>1. TypeOK BY DEF TablesInv
<1>2. CASE Stopped BY <1>2, StoppedStays DEF ServerClosed
<1>3. CASE chan[c] = "closed"
  <2> SUFFICES chan'[c] = "closed" BY DEF ServerClosed
  <2>1. ASSUME NEW st, st[c] = "closed", NEW skip, NEW m, NEW then, broadcast_buffer(skip, m, st, then)
        PROVE  chan'[c] = "closed"
    BY <2>1 DEF broadcast_buffer, AfterSend
  <2>2. CASE NameReceived \/ NameInterrupted
    <3>1. PICK j : broadcast_buffer(j, [kind |-> "joined", from |-> fds[new_socket], user |-> inbuf'],
                                    chan, "clients")
      BY <2>2 DEF NameReceived, NameInterrupted, AddClient
    <3> QED BY <1>3, <2>1, <3>1
  <2>3. CASE NameReset
    <3> DEFINE st == [chan EXCEPT ![fds[new_socket]] = "reset"]
    <3>1. PICK j : broadcast_buffer(j, [kind |-> "joined", from |-> fds[new_socket], user |-> inbuf'],
                                    st, "clients")
      BY <2>3 DEF NameReset, AddClient
    <3>2. chan[fds[new_socket]] = "aborted" BY <2>3 DEF NameReset
    <3>3. st[c] = "closed" BY <1>1, <1>3, <3>2 DEF TypeOK
    <3> QED BY <2>1, <3>1, <3>3
  <2>4. CASE ClientBye \/ ClientClosed
    <3> DEFINE st == [chan EXCEPT ![Owner(idx)] = "closed"]
    <3>1. PICK m : broadcast_buffer(idx, m, st, "clients")
      BY <2>4 DEF ClientBye, ClientClosed, disconnect_client
    <3>2. st[c] = "closed" BY <1>1, <1>3 DEF TypeOK
    <3> QED BY <2>1, <3>1, <3>2
  <2>5. CASE ClientText
    BY <1>3, <2>1, <2>5 DEF ClientText
  <2>6. CASE SayBye
    BY <1>3, <2>1, <2>6 DEF SayBye
  <2>7. CASE Refuse \/ Welcome \/ ClientError \/ CloseAll
    BY <1>1, <1>3, <2>7 DEF TypeOK, Refuse, Welcome, ClientError, CloseAll, AfterSend
  <2>8. ASSUME NEW d \in Conns, Connect(d) \/ Say(d) \/ HangUp(d) \/ ResetArrives(d)
        PROVE  chan'[c] = "closed"
    BY <1>1, <1>3, <2>8 DEF TypeOK, Connect, Say, HangUp, ResetArrives
  <2>9. CASE Sigint \/ SigintInSelect \/ BeginSelect \/ LeaveLoop \/ SelectReturns \/ SkipAccept
             \/ AcceptFails \/ NameHangUp \/ SkipSlot \/ EndOfSlots \/ UNCHANGED vars
    BY <1>3, <2>9 DEF Sigint, SigintInSelect, BeginSelect, LeaveLoop, SelectReturns, SkipAccept,
       AcceptFails, NameHangUp, SkipSlot, EndOfSlots, vars, netVars
  <2> QED BY <2>2, <2>3, <2>4, <2>5, <2>6, <2>7, <2>8, <2>9 DEF Next, Server, Environment
<1> QED BY <1>2, <1>3 DEF ServerClosed

\* A stream never gets shorter.
LEMMA StreamsGrow ==
    ASSUME TablesInv, TypeOK', [Next]_vars, NEW c \in Conns
    PROVE  Len(s2c[c]) \in Nat /\ Len(s2c'[c]) \in Nat /\ Len(s2c[c]) <= Len(s2c'[c])
<1>1. s2c[c] \in Seq(Message) /\ s2c'[c] \in Seq(Message) BY DEF TablesInv, TypeOK
<1>2. Len(s2c[c]) \in Nat /\ Len(s2c'[c]) \in Nat BY <1>1
<1>3. ASSUME NEW m, s2c'[c] = Append(s2c[c], m) PROVE Len(s2c'[c]) = Len(s2c[c]) + 1
  BY <1>1, <1>3
<1> QED BY <1>2, <1>3, StepSends

\* Where a client has not sent its name yet.
Start == {"connect", "welcome", "name"}

\* What client d has sent are its lines in order, a line is repeated only where
\* its input ended, and outbuf holds the last one, unless that was lost, or the
\* one that is still to be ended.
LinesOf(d) ==
    /\ InOrder(lineOf[d]) /\ Len(lineOf[d]) = said[d]
    /\ Cardinality(RepeatedIn(lineOf[d])) <= repeats[d]
    /\ cpc[d] \in Start => lineOf[d] = <<>> /\ outbuf[d] = 0
    /\ Draining(d) => outbuf[d] = LastOf(lineOf[d]) + 1
    /\ Draining(d) \/ outbuf[d] = 0 \/ ServerClosed(d) \/ outbuf[d] = LastOf(lineOf[d])

ClientPoint == Start \cup {"select", "drain", "drainThenSocket", "socket", "leave", "ended"}

ClientTypes ==
    /\ lineOf \in [Conns -> Seq(Nat)] /\ seen \in [Conns -> Nat] /\ outbuf \in [Conns -> Nat]
    /\ repeats \in [Conns -> Nat] /\ cpc \in [Conns -> ClientPoint]

LinesInv == ClientTypes /\ \A d \in Conns : seen[d] <= Len(s2c[d]) /\ LinesOf(d)

LEMMA LinesInitially == ChatInit => LinesInv
<1> SUFFICES ASSUME ChatInit PROVE LinesInv OBVIOUS
<1>1. <<>> \in Seq(Nat) /\ Len(<<>>) = 0 /\ DOMAIN <<>> = {} /\ 0 \in Nat OBVIOUS
<1>2. InOrder(<<>>) /\ RepeatedIn(<<>>) = {}
  BY <1>1 DEF InOrder, RepeatedIn, LastOf
<1>3. Cardinality({}) = 0 BY FS_EmptySet
<1>4. /\ lineOf = [c \in Conns |-> <<>>] /\ seen = [c \in Conns |-> 0] /\ outbuf = [c \in Conns |-> 0]
      /\ repeats = [c \in Conns |-> 0] /\ cpc = [c \in Conns |-> "connect"]
      /\ said = [c \in Conns |-> 0] /\ s2c = [c \in Conns |-> <<>>]
  BY DEF ChatInit, Init
<1>5. ASSUME NEW d \in Conns PROVE seen[d] <= Len(s2c[d]) /\ LinesOf(d)
  <2>1. seen[d] <= Len(s2c[d]) BY <1>1, <1>4
  <2>2. Cardinality(RepeatedIn(lineOf[d])) <= repeats[d]
    <3>1. lineOf[d] = <<>> /\ repeats[d] = 0 BY <1>4
    <3>2. RepeatedIn(lineOf[d]) = {} BY <1>2, <3>1
    <3>3. Cardinality(RepeatedIn(lineOf[d])) = 0 BY <1>3, <3>2
    <3> QED BY <3>1, <3>3
  <2>3. ~Draining(d) BY <1>4 DEF Draining
  <2> QED BY <1>1, <1>2, <1>4, <2>1, <2>2, <2>3 DEF LinesOf
<1>6. lineOf \in [Conns -> Seq(Nat)] BY <1>1, <1>4
<1>7. cpc \in [Conns -> ClientPoint] BY <1>4 DEF ClientPoint, Start
<1> QED BY <1>4, <1>5, <1>6, <1>7 DEF LinesInv, ClientTypes

\* The lines entered so far are those up to the last one.
LEMMA EnteredCount ==
    ASSUME NEW c, InOrder(lineOf[c]), LastOf(lineOf[c]) \in Nat
    PROVE  Cardinality(Entered(c)) = LastOf(lineOf[c])
<1>1. Entered(c) = 1 .. LastOf(lineOf[c]) BY DEF Entered, InOrder
<1>2. LastOf(lineOf[c]) \in Int /\ 1 \in Int OBVIOUS
<1>3. Cardinality(1 .. LastOf(lineOf[c])) =
        IF 1 > LastOf(lineOf[c]) THEN 0 ELSE LastOf(lineOf[c]) - 1 + 1
  BY <1>2, FS_Interval
<1> QED BY <1>1, <1>3

LEMMA LastType == ASSUME NEW l \in Seq(Nat) PROVE LastOf(l) \in Nat
<1>1. CASE l = <<>> BY <1>1 DEF LastOf
<1>2. CASE l # <<>>
  <2>1. Len(l) \in 1 .. Len(l) BY <1>2
  <2> QED BY <1>2, <2>1 DEF LastOf
<1> QED BY <1>1, <1>2

\* A step that sends nothing of d leaves its lines.
LEMMA LinesKept ==
    ASSUME TablesInv, [Next]_vars, NEW d \in Conns, LinesOf(d),
           lineOf'[d] = lineOf[d], said'[d] = said[d], repeats'[d] = repeats[d],
           cpc'[d] \in Start => cpc[d] \in Start /\ outbuf'[d] = outbuf[d],
           \/ cpc'[d] = cpc[d] /\ outbuf'[d] = outbuf[d]
           \/ /\ ~Draining(d)'
              /\ outbuf'[d] = 0 \/ (outbuf'[d] = outbuf[d] /\ ~Draining(d)) \/ ServerClosed(d)
    PROVE  LinesOf(d)'
<1>1. ServerClosed(d) => ServerClosed(d)' BY ClosedStays
<1>2. cpc'[d] = cpc[d] => (Draining(d)' <=> Draining(d)) BY DEF Draining
<1> QED BY <1>1, <1>2 DEF LinesOf

\* A line that is sent is the last one again, or the next one.
LEMMA LineSent ==
    ASSUME TablesInv, NEW d \in Conns, NEW n \in Nat, ClientTypes, LinesOf(d),
           lineOf'[d] = Append(lineOf[d], n), said'[d] = said[d] + 1,
           n = LastOf(lineOf[d]) \/ n = LastOf(lineOf[d]) + 1,
           \/ repeats'[d] = repeats[d] /\ (lineOf[d] = <<>> \/ n # LastOf(lineOf[d]))
           \/ repeats'[d] = repeats[d] + 1,
           cpc'[d] \notin Start, ~Draining(d)', outbuf'[d] = n
    PROVE  LinesOf(d)'
<1> DEFINE l == lineOf[d]
           t == Append(l, n)
<1>1. InOrder(l) /\ Len(l) = said[d] /\ Cardinality(RepeatedIn(l)) <= repeats[d] BY DEF LinesOf
<1>2. repeats[d] \in Nat /\ said[d] \in Nat BY DEF ClientTypes, TablesInv, TypeOK
<1> HIDE DEF l, t
<1>3. l \in Seq(Nat) BY <1>1 DEF InOrder
<1>4. n = LastOf(l) \/ n = LastOf(l) + 1 BY DEF l
<1>5. /\ InOrder(t) /\ LastOf(t) = n /\ Len(t) = Len(l) + 1
      /\ l = <<>> \/ n # LastOf(l) => RepeatedIn(t) = RepeatedIn(l)
      /\ Cardinality(RepeatedIn(t)) <= Cardinality(RepeatedIn(l)) + 1
  BY <1>1, <1>4, AppendLine DEF t
<1>6. Cardinality(RepeatedIn(l)) \in Nat /\ Cardinality(RepeatedIn(t)) \in Nat
  <2>1. t \in Seq(Nat) BY <1>5 DEF InOrder
  <2> QED BY <1>3, <2>1, RepeatedType
<1>7. Cardinality(RepeatedIn(t)) <= repeats'[d]
  <2>1. CASE repeats'[d] = repeats[d] /\ (l = <<>> \/ n # LastOf(l)) BY <1>1, <1>5, <2>1
  <2>2. CASE repeats'[d] = repeats[d] + 1 BY <1>1, <1>2, <1>5, <1>6, <2>2
  <2> QED BY <2>1, <2>2 DEF l
<1>8. lineOf'[d] = t BY DEF l, t
<1>9. Len(t) = said'[d] BY <1>1, <1>5
<1> QED BY <1>5, <1>7, <1>8, <1>9 DEF LinesOf

LEMMA SayCounts ==
    ASSUME TablesInv, NEW c \in Conns, Say(c)
    PROVE  /\ said'[c] = said[c] + 1 /\ s2c' = s2c
           /\ \A d \in Conns : d # c => said'[d] = said[d]
<1>1. said \in [Conns -> Nat] BY DEF TablesInv, TypeOK
<1> QED BY <1>1 DEF Say

\* A step of client c leaves the streams and what is known of the others.
LEMMA ClientsApart ==
    ASSUME TablesInv, LinesInv, NEW c \in Conns, Client(c) \/ User(c)
    PROVE  /\ ClientTypes' /\ s2c' = s2c
           /\ seen'[c] = 0 \/ seen'[c] = seen[c] \/ seen'[c] \in seen[c] + 1 .. Len(s2c[c])
           /\ \A d \in Conns : d # c =>
                /\ said'[d] = said[d] /\ lineOf'[d] = lineOf[d] /\ repeats'[d] = repeats[d]
                /\ cpc'[d] = cpc[d] /\ outbuf'[d] = outbuf[d] /\ seen'[d] = seen[d]
<1>0. ClientTypes /\ Cardinality(Entered(c)) + 1 \in Nat
  <2>1. ClientTypes /\ InOrder(lineOf[c]) BY DEF LinesInv, LinesOf
  <2>2. lineOf[c] \in Seq(Nat) BY <2>1 DEF InOrder
  <2>3. LastOf(lineOf[c]) \in Nat BY <2>2, LastType
  <2>4. Cardinality(Entered(c)) = LastOf(lineOf[c]) BY <2>1, <2>3, EnteredCount
  <2> QED BY <2>1, <2>3, <2>4
<1> USE DEF ClientTypes, GoTo, ClientPoint
<1> DEFINE Apart ==
             /\ ClientTypes' /\ s2c' = s2c
             /\ seen'[c] = 0 \/ seen'[c] = seen[c] \/ seen'[c] \in seen[c] + 1 .. Len(s2c[c])
             /\ \A d \in Conns : d # c =>
                  /\ said'[d] = said[d] /\ lineOf'[d] = lineOf[d] /\ repeats'[d] = repeats[d]
                  /\ cpc'[d] = cpc[d] /\ outbuf'[d] = outbuf[d] /\ seen'[d] = seen[d]
<1>1. ASSUME UNCHANGED vars PROVE s2c' = s2c /\ said' = said BY <1>1 DEF vars, netVars
<1>2. ASSUME NEW unread, Close(c, unread) PROVE s2c' = s2c /\ said' = said
  <2>1. HangUp(c) => s2c' = s2c /\ said' = said BY DEF HangUp
  <2> QED BY <1>0, <1>1, <1>2, <2>1 DEF Close
<1>3. ASSUME s2c' = s2c, said' = said, Gone(c) PROVE Apart
  BY <1>0, <1>3 DEF Gone
<1>4. ASSUME NEW n \in Nat, NEW bye, send(c, n, bye)
      PROVE  /\ lineOf' \in [Conns -> Seq(Nat)] /\ s2c' = s2c
             /\ \A d \in Conns : d # c => said'[d] = said[d] /\ lineOf'[d] = lineOf[d]
  <2>1. CASE Sent(c, n, bye)
    <3>1. lineOf' = [lineOf EXCEPT ![c] = Append(@, n)] /\ Say(c) BY <2>1 DEF Sent
    <3>2. Append(lineOf[c], n) \in Seq(Nat) BY <1>0, AppendProperties
    <3> QED BY <1>0, <3>1, <3>2, SayCounts
  <2>2. CASE Lost(c) BY <1>0, <1>1, <2>2 DEF Lost
  <2> QED BY <1>0, <1>4, <2>1, <2>2 DEF send
<1>5. ASSUME Show(c)
      PROVE  /\ seen' \in [Conns -> Nat] /\ seen'[c] \in seen[c] + 1 .. Len(s2c[c])
             /\ \A d \in Conns : d # c => seen'[d] = seen[d]
  BY <1>0, <1>5 DEF Show
<1>6. CASE NoWelcome(c) \/ HandleLost(c) \/ BrokenPipe(c)
  BY <1>0, <1>1, <1>3, <1>6 DEF NoWelcome, HandleLost, BrokenPipe
<1>7. CASE Leave(c) \/ Killed(c)
  BY <1>0, <1>2, <1>3, <1>7 DEF Leave, Killed
<1>8. CASE GetWelcome(c) \/ HandleMessage(c)
  <2>1. /\ UNCHANGED <<vars, outbuf, late, lineOf, repeats>> /\ Show(c)
        /\ \E w \in {"name", "leave", "select"} : GoTo(c, w)
    BY <1>8 DEF GetWelcome, HandleMessage
  <2> QED BY <1>0, <1>1, <1>5, <2>1 DEF Start
<1>9. CASE EnterChat(c)
  <2>1. s2c' = s2c /\ said' = said BY <1>9 DEF EnterChat, Connect
  <2> QED BY <1>0, <1>9, <2>1 DEF EnterChat, localVars, Start
<1>10. CASE SendName(c)
  BY <1>0, <1>4, <1>10 DEF SendName
<1>11. CASE HandleEmptyLine(c)
  BY <1>0, <1>1, <1>11 DEF HandleEmptyLine, AfterInput
<1>12. CASE HandleEndOfInput(c)
  <2>1. outbuf[c] \in Nat BY <1>0
  <2>2. repeats' \in [Conns -> Nat] /\ \A d \in Conns : d # c => repeats'[d] = repeats[d]
    BY <1>0, <1>12 DEF HandleEndOfInput
  <2>3. cpc' \in [Conns -> ClientPoint] /\ \A d \in Conns : d # c => cpc'[d] = cpc[d]
    BY <1>0, <1>12 DEF HandleEndOfInput, AfterInput
  <2>4. send(c, outbuf[c], FALSE) /\ UNCHANGED <<seen, outbuf>> BY <1>0, <1>12 DEF HandleEndOfInput
  <2> QED BY <1>0, <1>4, <2>1, <2>2, <2>3, <2>4
<1>13. CASE HandleLine(c)
  BY <1>0, <1>4, <1>13 DEF HandleLine, NewLine, AfterInput
<1>14. CASE FinishLine(c)
  <2>1. outbuf[c] \in Nat BY <1>0
  <2>2. \E bye \in BOOLEAN : send(c, outbuf[c], bye) BY <1>14 DEF FinishLine
  <2>3. /\ UNCHANGED <<seen, outbuf, repeats>>
        /\ \E w \in {"leave", "select", "socket"} : GoTo(c, w)
    BY <1>14 DEF FinishLine
  <2> QED BY <1>0, <1>4, <2>1, <2>2, <2>3
<1>15. CASE BeginLine(c)
  <2> DEFINE n == Cardinality(Entered(c)) + 1
  <2>1. n \in Nat BY <1>0
  <2>2. outbuf' = [outbuf EXCEPT ![c] = n] /\ UNCHANGED <<vars, seen, lineOf, repeats>>
    BY <1>15 DEF BeginLine, NewLine
  <2>3. \E w \in {"drain", "drainThenSocket"} : GoTo(c, w) BY <1>15 DEF BeginLine
  <2> HIDE DEF n
  <2> QED BY <1>0, <1>1, <2>1, <2>2, <2>3
<1> QED BY <1>6, <1>7, <1>8, <1>9, <1>10, <1>11, <1>12, <1>13, <1>14, <1>15 DEF Client, User

\* What is sent of a client, if anything, is the last line again or the next.
LEMMA ClientSends ==
    ASSUME TablesInv, LinesInv, NEW c \in Conns, Client(c) \/ User(c)
    PROVE  LinesOf(c)'
<1>1. [Next]_vars
  <2>1. ChatNext BY DEF ChatNext
  <2> QED BY <2>1, ChatStepsAreServers
<1>2. ClientTypes /\ LinesOf(c) BY DEF LinesInv
<1>3. lineOf[c] \in Seq(Nat) /\ LastOf(lineOf[c]) \in Nat
  <2>1. lineOf[c] \in Seq(Nat) BY <1>2 DEF ClientTypes
  <2> QED BY <2>1, LastType
<1>4. NewLine(c) = LastOf(lineOf[c]) + 1
  <2>1. InOrder(lineOf[c]) BY <1>2 DEF LinesOf
  <2>2. Cardinality(Entered(c)) = LastOf(lineOf[c]) BY <1>3, <2>1, EnteredCount
  <2> QED BY <2>2 DEF NewLine
<1>5. UNCHANGED vars => said' = said BY DEF vars, netVars
<1>6. ASSUME NEW w, GoTo(c, w) PROVE cpc'[c] = w BY <1>2, <1>6 DEF GoTo, ClientTypes
<1>7. ASSUME Gone(c), said' = said PROVE LinesOf(c)'
  <2>1. cpc'[c] = "ended" /\ outbuf'[c] = 0 /\ lineOf' = lineOf /\ repeats' = repeats
    BY <1>2, <1>6, <1>7 DEF Gone, ClientTypes
  <2>2. cpc'[c] \notin Start /\ ~Draining(c)' BY <2>1 DEF Start, Draining
  <2> QED BY <1>1, <1>2, <1>7, <2>1, <2>2, LinesKept
<1>8. ASSUME NEW unread, Close(c, unread) PROVE said' = said BY <1>8, CloseSteps
<1>9. CASE NoWelcome(c) \/ HandleLost(c) \/ BrokenPipe(c)
  BY <1>5, <1>7, <1>9 DEF NoWelcome, HandleLost, BrokenPipe
<1>10. CASE Leave(c) \/ Killed(c)
  BY <1>7, <1>8, <1>10 DEF Leave, Killed
<1>11. CASE EnterChat(c)
  <2>1. said' = said BY <1>11 DEF EnterChat, Connect
  <2>2. UNCHANGED <<outbuf, lineOf, repeats>> /\ cpc[c] = "connect"
    BY <1>11 DEF EnterChat, localVars
  <2>3. ~Draining(c) /\ ~Draining(c)' BY <1>6, <1>11, <2>2 DEF EnterChat, Draining
  <2> QED BY <1>1, <1>2, <2>1, <2>2, <2>3, LinesKept DEF Start
<1>12. CASE GetWelcome(c)
  <2>1. UNCHANGED <<said, outbuf, lineOf, repeats>> /\ cpc[c] = "welcome"
    BY <1>5, <1>12 DEF GetWelcome
  <2>2. ~Draining(c) /\ ~Draining(c)' BY <1>6, <1>12, <2>1 DEF GetWelcome, Draining
  <2> QED BY <1>1, <1>2, <2>1, <2>2, LinesKept DEF Start
<1>13. CASE HandleMessage(c)
  <2>1. UNCHANGED <<said, outbuf, lineOf, repeats>> BY <1>5, <1>13 DEF HandleMessage
  <2>2. cpc'[c] \notin Start /\ ~Draining(c)' BY <1>6, <1>13 DEF HandleMessage, Start, Draining
  <2>3. ~Draining(c) BY <1>13 DEF HandleMessage, AtSocket, Draining
  <2> QED BY <1>1, <1>2, <2>1, <2>2, <2>3, LinesKept
<1>14. ASSUME AfterInput(c) PROVE cpc'[c] \notin Start /\ ~Draining(c)'
  BY <1>6, <1>14 DEF AfterInput, Start, Draining
<1>15. CASE HandleEmptyLine(c)
  <2>1. UNCHANGED <<said, lineOf, repeats>> /\ outbuf'[c] = 0 /\ cpc'[c] \notin Start /\ ~Draining(c)'
    BY <1>2, <1>5, <1>14, <1>15 DEF HandleEmptyLine, ClientTypes
  <2> QED BY <1>1, <1>2, <2>1, LinesKept
<1>16. ASSUME NEW n \in Nat, NEW bye, Sent(c, n, bye)
       PROVE  lineOf'[c] = Append(lineOf[c], n) /\ said'[c] = said[c] + 1
  BY <1>2, <1>16, SayCounts DEF Sent, ClientTypes
<1>17. ASSUME Lost(c) PROVE said' = said /\ lineOf' = lineOf /\ ServerClosed(c)
  BY <1>5, <1>17 DEF Lost
<1>18. CASE SendName(c)
  <2>1. /\ lineOf[c] = <<>> /\ outbuf[c] = 0 /\ LastOf(lineOf[c]) = 0
    BY <1>2, <1>18 DEF SendName, LinesOf, Start, LastOf
  <2>2. cpc'[c] \notin Start /\ ~Draining(c)' /\ outbuf' = outbuf /\ repeats' = repeats
    BY <1>6, <1>18 DEF SendName, Start, Draining
  <2>3. CASE Lost(c) BY <1>1, <1>2, <1>17, <2>2, <2>3, LinesKept
  <2>4. CASE Sent(c, 0, FALSE)
    <3>1. lineOf'[c] = Append(lineOf[c], 0) /\ said'[c] = said[c] + 1 BY <1>16, <2>4
    <3>2. outbuf'[c] = 0 /\ repeats'[c] = repeats[c] BY <2>1, <2>2
    <3> QED BY <1>2, <2>1, <2>2, <3>1, <3>2, LineSent
  <2> QED BY <1>18, <2>3, <2>4 DEF SendName, send
<1>19. CASE HandleLine(c)
  <2> DEFINE n == LastOf(lineOf[c]) + 1
  <2>1. /\ n \in Nat /\ n # LastOf(lineOf[c]) BY <1>3
  <2>2. /\ Lost(c) \/ \E b \in BOOLEAN : Sent(c, n, b)
        /\ GoTo(c, "leave") \/ AfterInput(c)
        /\ outbuf' = [outbuf EXCEPT ![c] = n] /\ repeats' = repeats
    BY <1>4, <1>19 DEF HandleLine, send
  <2> HIDE DEF n
  <2>3. cpc'[c] \notin Start /\ ~Draining(c)' /\ outbuf'[c] = n /\ repeats'[c] = repeats[c]
    BY <1>2, <1>6, <1>14, <2>2 DEF Start, Draining, ClientTypes
  <2>4. CASE Lost(c)
    <3>1. said' = said /\ lineOf' = lineOf /\ ServerClosed(c) BY <1>17, <2>4
    <3> QED BY <1>1, <1>2, <2>3, <3>1, LinesKept
  <2>5. ASSUME NEW b \in BOOLEAN, Sent(c, n, b) PROVE LinesOf(c)'
    <3>1. lineOf'[c] = Append(lineOf[c], n) /\ said'[c] = said[c] + 1 BY <1>16, <2>1, <2>5
    <3>2. n = LastOf(lineOf[c]) \/ n = LastOf(lineOf[c]) + 1 BY DEF n
    <3> QED BY <1>2, <2>1, <2>3, <3>1, <3>2, LineSent
  <2> QED BY <2>2, <2>4, <2>5
<1>20. CASE HandleEndOfInput(c)
  <2> DEFINE n == outbuf[c]
  <2>1. /\ n \in Nat /\ n # 0 /\ outbuf' = outbuf /\ AfterInput(c)
        /\ Lost(c) \/ Sent(c, n, FALSE)
        /\ repeats' = [repeats EXCEPT ![c] = IF ServerClosed(c) THEN @ ELSE @ + 1]
    BY <1>2, <1>20 DEF HandleEndOfInput, send, ClientTypes
  <2> HIDE DEF n
  <2>2. cpc'[c] \notin Start /\ ~Draining(c)' BY <1>14, <2>1
  <2>3. CASE Lost(c)
    <3>1. said' = said /\ lineOf' = lineOf /\ ServerClosed(c) BY <1>17, <2>3
    <3>2. repeats'[c] = repeats[c] BY <1>2, <2>1, <3>1 DEF ClientTypes
    <3> QED BY <1>1, <1>2, <2>1, <2>2, <3>1, <3>2, LinesKept
  <2>4. CASE Sent(c, n, FALSE)
    <3>1. lineOf'[c] = Append(lineOf[c], n) /\ said'[c] = said[c] + 1 BY <1>16, <2>1, <2>4
    <3>2. ~ServerClosed(c) BY <2>4 DEF Sent
    <3>3. repeats'[c] = repeats[c] + 1 BY <1>2, <2>1, <3>2 DEF ClientTypes
    <3>4. n = LastOf(lineOf[c])
      <4>1. ~Draining(c) BY <1>20 DEF HandleEndOfInput, Draining
      <4> QED BY <1>2, <2>1, <3>2, <4>1 DEF LinesOf, n
    <3>5. outbuf'[c] = n BY <2>1 DEF n
    <3> QED BY <1>2, <2>1, <2>2, <3>1, <3>3, <3>4, <3>5, LineSent
  <2> QED BY <2>1, <2>3, <2>4
<1>21. CASE BeginLine(c)
  <2>1. UNCHANGED <<said, lineOf, repeats>> BY <1>5, <1>21 DEF BeginLine
  <2>2. outbuf'[c] = LastOf(lineOf[c]) + 1 BY <1>2, <1>4, <1>21 DEF BeginLine, ClientTypes
  <2>3. cpc'[c] \notin Start /\ Draining(c)' BY <1>6, <1>21 DEF BeginLine, Start, Draining
  <2> QED BY <1>2, <2>1, <2>2, <2>3 DEF LinesOf
<1>22. CASE FinishLine(c)
  <2> DEFINE n == outbuf[c]
  <2>1. n = LastOf(lineOf[c]) + 1 BY <1>2, <1>22 DEF FinishLine, LinesOf
  <2>2. n \in Nat /\ n # LastOf(lineOf[c]) BY <1>3, <2>1
  <2>3. /\ Lost(c) \/ \E b \in BOOLEAN : Sent(c, n, b)
        /\ \E w \in {"leave", "select", "socket"} : GoTo(c, w)
        /\ outbuf'[c] = n /\ repeats' = repeats
    BY <1>22 DEF FinishLine, send
  <2> HIDE DEF n
  <2>4. cpc'[c] \notin Start /\ ~Draining(c)' /\ repeats'[c] = repeats[c]
    BY <1>6, <2>3 DEF Start, Draining
  <2>5. CASE Lost(c)
    <3>1. said' = said /\ lineOf' = lineOf /\ ServerClosed(c) BY <1>17, <2>5
    <3> QED BY <1>1, <1>2, <2>3, <2>4, <3>1, LinesKept
  <2>6. ASSUME NEW b \in BOOLEAN, Sent(c, n, b) PROVE LinesOf(c)'
    <3>1. lineOf'[c] = Append(lineOf[c], n) /\ said'[c] = said[c] + 1 BY <1>16, <2>2, <2>6
    <3> QED BY <1>2, <2>1, <2>2, <2>3, <2>4, <3>1, LineSent
  <2> QED BY <2>3, <2>5, <2>6
<1> QED BY <1>9, <1>10, <1>11, <1>12, <1>13, <1>15, <1>18, <1>19, <1>20, <1>21, <1>22 DEF Client, User

LEMMA LinesNext ==
    ASSUME TablesInv, TypeOK', LinesInv, [ChatNext]_chatVars PROVE LinesInv'
<1>1. [Next]_vars BY ChatStepsAreServers
<1>2. ClientTypes /\ \A d \in Conns : seen[d] \in Nat /\ seen[d] <= Len(s2c[d]) /\ LinesOf(d)
  BY DEF LinesInv, ClientTypes
<1>3. ASSUME NEW d \in Conns
      PROVE  Len(s2c[d]) \in Nat /\ Len(s2c'[d]) \in Nat /\ Len(s2c[d]) <= Len(s2c'[d])
  BY <1>1, StreamsGrow
<1>4. ASSUME UNCHANGED clientVars, said' = said PROVE LinesInv'
  <2>1. ClientTypes' BY <1>2, <1>4 DEF ClientTypes, clientVars, localVars
  <2>2. ASSUME NEW d \in Conns PROVE seen'[d] <= Len(s2c'[d])
    <3>1. seen'[d] = seen[d] BY <1>4 DEF clientVars, localVars
    <3> QED BY <1>2, <1>3, <3>1
  <2>3. ASSUME NEW d \in Conns PROVE LinesOf(d)'
    <3>1. cpc' = cpc /\ outbuf' = outbuf /\ lineOf' = lineOf /\ repeats' = repeats
      BY <1>4 DEF clientVars, localVars
    <3> QED BY <1>1, <1>2, <1>4, <3>1, LinesKept
  <2> QED BY <2>1, <2>2, <2>3 DEF LinesInv
<1>5. CASE ServerSide
  <2>1. UNCHANGED clientVars BY <1>5 DEF ServerSide
  <2> QED BY <1>4, <1>5, <2>1, ServerSideSteps
<1>6. CASE UNCHANGED chatVars
  BY <1>4, <1>6 DEF chatVars, vars, netVars
<1>7. ASSUME NEW c \in Conns, Client(c) \/ User(c) PROVE LinesInv'
  <2>1. /\ ClientTypes' /\ s2c' = s2c
        /\ seen'[c] = 0 \/ seen'[c] = seen[c] \/ seen'[c] \in seen[c] + 1 .. Len(s2c[c])
        /\ \A d \in Conns : d # c =>
             /\ said'[d] = said[d] /\ lineOf'[d] = lineOf[d] /\ repeats'[d] = repeats[d]
             /\ cpc'[d] = cpc[d] /\ outbuf'[d] = outbuf[d] /\ seen'[d] = seen[d]
    BY <1>7, ClientsApart
  <2>2. ASSUME NEW d \in Conns PROVE seen'[d] <= Len(s2c'[d])
    <3>1. CASE d = c BY <1>2, <1>3, <2>1, <3>1
    <3>2. CASE d # c BY <1>2, <2>1, <3>2
    <3> QED BY <3>1, <3>2
  <2>3. LinesOf(c)' BY <1>7, ClientSends
  <2>4. ASSUME NEW d \in Conns, d # c PROVE LinesOf(d)'
    BY <1>1, <1>2, <2>1, <2>4, LinesKept
  <2>5. ASSUME NEW d \in Conns PROVE LinesOf(d)'
    <3>1. CASE d = c BY <2>3, <3>1
    <3> QED BY <2>4, <3>1
  <2> QED BY <2>1, <2>2, <2>5 DEF LinesInv
<1> QED BY <1>5, <1>6, <1>7 DEF ChatNext

\* Received and shown of a user is what it sent, in order.
LEMMA RelayedInOrder ==
    ASSUME TypeOK, RelayInv, LinesInv PROVE EachLineOnce
<1> SUFFICES ASSUME NEW c \in Conns, NEW d \in Conns
             PROVE  LET r == RelayedFrom(Screen(c), d)
                        Again == {k \in 1 .. Len(r) - 1 : lineOf[d][r[k + 1]] = lineOf[d][r[k]]}
                    IN  /\ c = d => r = <<>>
                        /\ Cardinality(Again) <= repeats[d]
                        /\ \A k \in 1 .. Len(r) - 1 :
                              /\ r[k + 1] = r[k] + 1
                              /\ k \notin Again => lineOf[d][r[k + 1]] = lineOf[d][r[k]] + 1
  BY DEF EachLineOnce
<1> DEFINE r == RelayedFrom(Screen(c), d)
           l == lineOf[d]
           Again == {k \in 1 .. Len(r) - 1 : l[r[k + 1]] = l[r[k]]}
<1>1. /\ seen[c] \in Nat /\ seen[c] <= Len(s2c[c]) /\ repeats[d] \in Nat
      /\ InOrder(l) /\ Len(l) = said[d] /\ Cardinality(RepeatedIn(l)) <= repeats[d]
  BY DEF LinesInv, LinesOf, ClientTypes
<1>2. s2c[c] \in Seq(Message) /\ Len(s2c[c]) \in Nat /\ said[d] \in Nat /\ c2s[d] \in Seq(Chunk)
  BY DEF TypeOK, Text
<1>3. seen[c] \in 0 .. Len(s2c[c]) BY <1>1, <1>2
<1>4. r = RelayedUpTo(c, seen[c], d) BY DEF RelayedUpTo, Screen
<1>5. Screen(c) \in Seq(Message)
  <2>1. \A k \in 1 .. seen[c] : s2c[c][k] \in Message BY <1>2, <1>3
  <2>2. 1 \in Int /\ seen[c] \in Int BY <1>1
  <2>3. SubSeq(s2c[c], 1, seen[c]) \in Seq(Message) BY <2>1, <2>2, SubSeqProperties
  <2> QED BY <2>3 DEF Screen
<1>6. r \in Seq(Nat) BY <1>5, RelayedSeq
<1>7. Steady(r, Received(d)) /\ (c = d => r = <<>>)
  BY <1>3, <1>4 DEF RelayInv, PrefixesSteady
<1>8. Received(d) \in Nat /\ Received(d) <= Len(l)
  <2>1. Len(c2s[d]) \in Nat BY <1>2
  <2>2. Received(d) \in Nat BY DEF RelayInv, ChunksNumbered
  <2>3. Received(d) = said[d] - Len(c2s[d]) BY DEF Received
  <2> QED BY <1>1, <1>2, <2>1, <2>2, <2>3
<1>9. /\ Len(r) \in Nat /\ DOMAIN r = 1 .. Len(r)
      /\ \A k \in 1 .. Len(r) - 1 : r[k + 1] = r[k] + 1
      /\ \A k \in 1 .. Len(r) : r[k] \in 1 .. Received(d)
  BY <1>6, <1>7 DEF Steady
<1>10. l \in Seq(Nat) /\ Len(l) \in Nat
  <2>1. l \in Seq(Nat) BY <1>1 DEF InOrder
  <2> QED BY <2>1
<1>11. \A k \in 1 .. Len(l) - 1 : l[k + 1] = l[k] \/ l[k + 1] = l[k] + 1
  BY <1>1 DEF InOrder
<1> HIDE DEF l, r
<1>12. ASSUME NEW k \in 1 .. Len(r) - 1 PROVE r[k] \in 1 .. Len(l) - 1 /\ r[k + 1] = r[k] + 1
  <2>1. k \in 1 .. Len(r) /\ k + 1 \in 1 .. Len(r) BY <1>9
  <2>2. r[k] \in 1 .. Received(d) /\ r[k + 1] \in 1 .. Received(d) /\ r[k + 1] = r[k] + 1 BY <1>9, <2>1
  <2> QED BY <1>8, <1>10, <2>2
<1>13. ASSUME NEW k \in 1 .. Len(r) - 1, k \notin Again PROVE l[r[k + 1]] = l[r[k]] + 1
  BY <1>11, <1>12, <1>13
<1>14. Cardinality(Again) <= Cardinality(RepeatedIn(l))
  <2> DEFINE f == [k \in Again |-> r[k]]
  <2>1. ASSUME NEW k \in Again PROVE r[k] \in RepeatedIn(l)
    <3>1. k \in 1 .. Len(r) - 1 /\ l[r[k + 1]] = l[r[k]] OBVIOUS
    <3> QED BY <1>12, <3>1 DEF RepeatedIn
  <2>2. ASSUME NEW j \in Again, NEW k \in Again, f[j] = f[k] PROVE j = k
    <3>1. j \in DOMAIN r /\ k \in DOMAIN r /\ r[j] = r[k] BY <1>9, <2>2
    <3> QED BY <1>6, <1>7, <1>8, <3>1, SteadyApart
  <2>3. f \in Injection(Again, RepeatedIn(l))
    BY <2>1, <2>2 DEF Injection, IsInjective
  <2>4. IsFiniteSet(RepeatedIn(l)) BY <1>10, RepeatedType
  <2> HIDE DEF f
  <2> QED BY <2>3, <2>4, FS_Injection
<1>15. Cardinality(RepeatedIn(l)) \in Nat /\ IsFiniteSet(1 .. Len(r) - 1)
  <2>1. 1 \in Int /\ Len(r) - 1 \in Int BY <1>9
  <2> QED BY <1>10, <2>1, RepeatedType, FS_Interval
<1>16. Cardinality(Again) \in Nat
  <2>1. Again \in SUBSET (1 .. Len(r) - 1) OBVIOUS
  <2>2. IsFiniteSet(Again) BY <1>15, <2>1, FS_Subset
  <2> QED BY <2>2, FS_CardinalityType
<1>17. Cardinality(Again) <= repeats[d] BY <1>1, <1>14, <1>15, <1>16
<1> QED BY <1>7, <1>12, <1>13, <1>17 DEF l, r

\* What the clients have sent is in order: in every reachable state LinesInv holds.
THEOREM LinesConsistent == ChatSpec => []LinesInv
<1>1. ChatInit => LinesInv BY LinesInitially
<1>2. TablesInv => TypeOK BY DEF TablesInv
<1>3. TablesInv /\ TablesInv' /\ LinesInv /\ [ChatNext]_chatVars => LinesInv'
  <2>1. TablesInv' => TypeOK' BY DEF TablesInv
  <2> QED BY <2>1, LinesNext
<1> QED BY <1>1, <1>3, ChatRefinesServer, TablesConsistent, PTL DEF ChatSpec

\* What a user enters appears on every other screen line by line, without a gap,
\* and no line more often than its input ended: for any number of clients, slots
\* and lines, whatever is glued, lost or reset on the way.
THEOREM EachLineAlwaysOnce == ChatSpec => []EachLineOnce
<1>1. TablesInv /\ RelayInv /\ LinesInv => EachLineOnce
  BY RelayedInOrder DEF TablesInv
<1> QED BY <1>1, ChatRefinesServer, TablesConsistent, RelaysConsistent, LinesConsistent, PTL
=============================================================================
