-------------------------- MODULE DbpClientsProofs --------------------------
(* What the table of connections of the DBP server promises for any number *)
(* of clients, descriptors, slots and pushers, with clients that leave,    *)
(* close, stall or find no thread at any moment.                           *)
EXTENDS DbpClients, FiniteSetTheorems, WellFoundedInduction, TLAPS

Serving(c) == place[c] \in {"get", "recv", "remove"}

\* A thread that has read its argument has a slot of its own with its socket.
ThreadsFit ==
    \A c \in Clients :
        /\ client[c] = "out" => place[c] = "none"
        /\ Serving(c) => /\ sock_fd[index[c]] \in Sockets
                         /\ \A d \in Clients \ {c} : Serving(d) => index[d] # index[c]
        /\ place[c] = "get" => open[sock_fd[index[c]]] = c
        /\ place[c] \in {"recv", "remove"} => sock_fd[index[c]] = socket_fd[c]
        /\ place[c] = "recv" => open[socket_fd[c]] = c
        /\ place[c] = "start" => main.pc = "sleep" /\ open[main.new_fd] = c

Starting == main.pc = "create" \/ \E c \in Clients : place[c] = "start"

\* What the main thread has in its hands is nobody else's: the descriptor has no thread
\* yet, the slot is empty until the socket is entered and belongs to no thread after.
MainFits ==
    /\ main.pc \in {"index", "add", "create"} =>
          /\ main.new_fd \in Sockets /\ open[main.new_fd] \in Clients
          /\ place[open[main.new_fd]] = "none" /\ client[open[main.new_fd]] # "out"
    /\ main.pc = "add" => sock_fd[main.index] = 0
    /\ Starting => /\ main.new_fd \in Sockets /\ sock_fd[main.index] = main.new_fd
                   /\ \A d \in Clients : Serving(d) => index[d] # main.index

\* A pusher at work has the mutex, and has sent to every socket up to where it stands.
Pushing(p) == push[p].pc \in {"send", "slept", "unlock"}

PushFits ==
    \A p \in Pushers :
        /\ Pushing(p) => mutex = p
        /\ ~Pushing(p) => push[p].i = 0 /\ push[p].j = 0 /\ push[p].sent = {}
        /\ push[p].sent \subseteq Filled
        /\ Cardinality(push[p].sent) = push[p].j
        /\ \A k \in Filled : k < push[p].i => k \in push[p].sent
        /\ \A k \in push[p].sent : k < push[p].i

\* The inductive invariant.
IInv == TypeOK /\ SlotsAreCounted /\ ThreadsFit /\ MainFits /\ PushFits /\ PushReachesAll

-----------------------------------------------------------------------------
(* Lemmas                                                                  *)

\* A set of numbers that is not empty has a least element: the lowest free descriptor, the
\* first free slot, the next socket to push to.
LEMMA Least ==
  ASSUME NEW S \in SUBSET Nat, S # {}
  PROVE  Min(S) \in S /\ \A y \in S : Min(S) <= y
<1> DEFINE Less == OpToRel(<, Nat)
<1>1. IsWellFoundedOn(Less, Nat)
  BY NatLessThanWellFounded
<1>2. \A x, y \in Nat : y < x => <<y, x>> \in Less
  BY DEF OpToRel
<1> HIDE DEF Less
<1>3. PICK x \in S : \A y \in S : ~ (<<y, x>> \in Less)
  BY <1>1, WFMin
<1>4. ASSUME NEW y \in S PROVE x <= y
  <2>1. x \in Nat /\ y \in Nat
    OBVIOUS
  <2>2. ~ (y < x)
    BY <1>2, <1>3, <2>1
  <2> QED
    BY <2>1, <2>2
<1> QED
  BY <1>4 DEF Min

LEMMA Assumptions ==
  /\ MaxConn \in Nat /\ MaxConn # 0 /\ Sockets \subseteq Nat /\ 0 \notin Sockets
  /\ 0 \notin Clients /\ "none" \notin Pushers /\ Slots \subseteq Nat
  /\ \A i \in Slots : i + 1 \in 0 .. MaxConn
BY DbpAssumption DEF DbpAssumption, Slots

\* Sets of slots are finite and have at most MaxConn elements.
LEMMA SlotSets ==
  ASSUME NEW S \in SUBSET Slots
  PROVE  IsFiniteSet(S) /\ Cardinality(S) \in 0 .. MaxConn
<1>1. IsFiniteSet(Slots) /\ Cardinality(Slots) = MaxConn
  BY Assumptions, FS_Interval DEF Slots
<1>2. IsFiniteSet(S) /\ Cardinality(S) <= Cardinality(Slots)
  BY <1>1, FS_Subset
<1>3. Cardinality(S) \in Nat
  BY <1>2, FS_CardinalityType
<1> QED
  BY <1>1, <1>2, <1>3, Assumptions

\* A slot of the table in which there is a socket is filled.
LEMMA FilledSlots == Filled = {i \in Slots : sock_fd[i] # 0}
BY DEF Filled, Free

\* Steps that leave the table, the descriptors and what belongs to the threads alone.
LEMMA OnlyPush ==
  ASSUME IInv, UNCHANGED <<table, open, client, main, threads>>
  PROVE  SlotsAreCounted' /\ ThreadsFit' /\ MainFits' /\ Filled' = Filled
<1>1. UNCHANGED <<sock_fd, conn_number, connected, place, index, socket_fd>>
  BY DEF table, threads
<1> QED
  BY <1>1 DEF IInv, SlotsAreCounted, ThreadsFit, MainFits, Filled, Free, Serving, Starting

\* Steps that leave the table, the mutex and the pushers alone.
LEMMA TableStays ==
  ASSUME IInv, UNCHANGED <<table, mutex, push>>
  PROVE  SlotsAreCounted' /\ PushFits' /\ PushReachesAll' /\ Filled' = Filled
<1>1. UNCHANGED <<sock_fd, conn_number, connected>>
  BY DEF table
<1>2. Filled' = Filled
  BY <1>1 DEF Filled, Free
<1> QED
  BY <1>1, <1>2 DEF IInv, SlotsAreCounted, PushFits, PushReachesAll, Pushing

\* While nobody pushes the table may change.
LEMMA NobodyPushes ==
  ASSUME IInv, mutex = "none", UNCHANGED <<mutex, push>>
  PROVE  PushFits' /\ PushReachesAll'
<1>1. \A p \in Pushers : ~Pushing(p)
  BY Assumptions DEF IInv, PushFits
<1>2. ASSUME NEW p \in Pushers
      PROVE  /\ push[p].i = 0 /\ push[p].j = 0 /\ push[p].sent = {}
             /\ Cardinality(push[p].sent) = push[p].j
  BY <1>1 DEF IInv, PushFits
<1>3. \A k \in Filled' : ~ (k < 0)
  BY Assumptions DEF Filled, Slots
<1> QED
  BY <1>1, <1>2, <1>3 DEF PushFits, PushReachesAll, Pushing

-----------------------------------------------------------------------------
(* The invariant                                                           *)

LEMMA InitIInv == Init => IInv
<1> SUFFICES ASSUME Init PROVE IInv
  OBVIOUS
<1> USE Assumptions
<1>1. Filled = {}
  BY DEF Init, Filled, Free
<1>2. 0 \in Slots
  BY DEF Slots
<1>3. TypeOK
  <2>1. connected \in BOOLEAN
    BY DEF Init
  <2>2. main \in [pc : {"accept", "index", "add", "create", "sleep"},
                  new_fd : Sockets \cup {0}, index : Slots]
    BY <1>2 DEF Init, Ready
  <2>3. push \in [Pushers -> [pc : {"idle", "lock", "send", "slept", "unlock"}, i : 0 .. MaxConn,
                               j : 0 .. MaxConn, sent : SUBSET Slots]]
    BY DEF Init, Quiet
  <2>4. conn_number \in 0 .. MaxConn
    BY DEF Init
  <2> QED
    BY <1>2, <2>1, <2>2, <2>3, <2>4 DEF Init, TypeOK
<1>4. SlotsAreCounted
  BY <1>1, FS_EmptySet DEF Init, SlotsAreCounted
<1>5. ThreadsFit /\ MainFits
  BY DEF Init, ThreadsFit, MainFits, Serving, Starting, Ready
<1>6. PushFits /\ PushReachesAll
  BY <1>1, FS_EmptySet DEF Init, PushFits, PushReachesAll, Pushing, Quiet
<1> QED
  BY <1>3, <1>4, <1>5, <1>6 DEF IInv

\* The clients.
LEMMA ClientSteps ==
  ASSUME IInv, NEW c \in Clients, Leave(c) \/ Stall(c)
  PROVE  IInv'
<1>1. PICK to \in {"gone", "stalled"} :
         /\ client' = [client EXCEPT ![c] = to] /\ client[c] # "out"
         /\ UNCHANGED <<table, mutex, open, main, threads, push>>
  BY DEF Leave, Stall
<1>2. UNCHANGED <<sock_fd, conn_number, connected, place, index, socket_fd>>
  BY <1>1 DEF table, threads
<1>3. TypeOK'
  BY <1>1, <1>2 DEF IInv, TypeOK
<1>4. ThreadsFit' /\ MainFits'
  BY <1>1, <1>2 DEF IInv, TypeOK, ThreadsFit, MainFits, Serving, Starting
<1> QED
  BY <1>1, <1>3, <1>4, TableStays DEF IInv

\* The main thread.
LEMMA MainSteps ==
  ASSUME IInv, Main \/ \E c \in Clients : Accept(c)
  PROVE  IInv'
<1>1. ASSUME NEW c \in Clients, Accept(c) PROVE IInv'
  <2> DEFINE s == Min(Unused)
  <2>1. s \in Sockets /\ open[s] = 0
    <3>1. Unused \in SUBSET Nat /\ Unused # {}
      BY <1>1, Assumptions DEF Accept, Unused
    <3>2. Min(Unused) \in Unused
      BY <3>1, Least
    <3> QED
      BY <3>2 DEF Unused
  <2>2. /\ client' = [client EXCEPT ![c] = "in"] /\ client[c] = "out" /\ main.pc = "accept"
        /\ open' = [open EXCEPT ![s] = c]
        /\ main' = [pc |-> "index", new_fd |-> s, index |-> 0]
        /\ UNCHANGED <<table, mutex, threads, push>>
        /\ UNCHANGED <<sock_fd, conn_number, connected, place, index, socket_fd>>
    BY <1>1 DEF Accept, table, threads
  <2> HIDE DEF s
  <2>3. TypeOK'
    <3>1. main' \in [pc : {"accept", "index", "add", "create", "sleep"},
                     new_fd : Sockets \cup {0}, index : Slots]
      BY <2>1, <2>2, Assumptions DEF Slots
    <3> QED
      BY <2>1, <2>2, <3>1 DEF IInv, TypeOK
  <2>4. ThreadsFit'
    \* s was nobody's
    BY <2>1, <2>2, Assumptions DEF IInv, TypeOK, ThreadsFit, Serving
  <2>5. MainFits'
    BY <2>1, <2>2 DEF IInv, TypeOK, ThreadsFit, MainFits, Serving, Starting
  <2> QED
    BY <2>2, <2>3, <2>4, <2>5, TableStays DEF IInv
<1>2. CASE GetIndex
  <2>1. /\ main.pc = "index" /\ UNCHANGED <<table, mutex, open, client, threads, push>>
        /\ UNCHANGED <<sock_fd, conn_number, connected, place, index, socket_fd>>
        /\ \/ main' = Ready
           \/ /\ Free # {}
              /\ main' = [pc |-> "add", new_fd |-> main.new_fd, index |-> Min(Free)]
    BY <1>2 DEF GetIndex, table, threads
  <2>2. Free # {} => Min(Free) \in Slots /\ sock_fd[Min(Free)] = 0
    <3>1. Free \in SUBSET Nat
      BY Assumptions DEF Free
    <3>2. Free # {} => Min(Free) \in Free
      BY <3>1, Least
    <3> QED
      BY <3>2 DEF Free
  <2>3. main' \in [pc : {"accept", "index", "add", "create", "sleep"},
                   new_fd : Sockets \cup {0}, index : Slots]
    BY <2>1, <2>2, Assumptions DEF IInv, TypeOK, Ready, Slots
  <2>4. TypeOK'
    BY <2>1, <2>3 DEF IInv, TypeOK
  <2>5. ThreadsFit'
    BY <2>1 DEF IInv, ThreadsFit, Serving
  <2>6. MainFits'
    BY <2>1, <2>2 DEF IInv, ThreadsFit, MainFits, Serving, Starting, Ready
  <2> QED
    BY <2>1, <2>4, <2>5, <2>6, TableStays DEF IInv
<1>3. CASE AddSocket
  <2> DEFINE i == main.index
             s == main.new_fd
  <2>1. i \in Slots /\ sock_fd[i] = 0 /\ s \in Sockets /\ s # 0 /\ main.pc = "add"
    BY <1>3, Assumptions DEF AddSocket, IInv, TypeOK, MainFits
  <2>2. /\ sock_fd' = [sock_fd EXCEPT ![i] = s] /\ conn_number' = conn_number + 1
        /\ connected' = TRUE /\ main' = [main EXCEPT !.pc = "create"] /\ mutex = "none"
        /\ UNCHANGED <<mutex, open, client, threads, push>>
        /\ UNCHANGED <<place, index, socket_fd>>
    <3>1. conn_number <= MaxConn
      BY Assumptions DEF IInv, TypeOK
    <3> QED
      BY <1>3, <3>1 DEF AddSocket, Goto, threads
  <2> HIDE DEF i, s
  <2>3. Filled' = Filled \cup {i} /\ i \notin Filled
    BY <2>1, <2>2 DEF Filled, Free, IInv, TypeOK
  <2>4. SlotsAreCounted' /\ conn_number' \in 0 .. MaxConn
    <3>1. Filled \in SUBSET Slots /\ Filled' \in SUBSET Slots
      BY DEF Filled
    <3>2. Cardinality(Filled') = conn_number + 1
      BY <2>3, <3>1, SlotSets, FS_AddElement DEF IInv, SlotsAreCounted
    <3>3. Cardinality(Filled') \in 0 .. MaxConn
      BY <3>1, SlotSets
    <3> QED
      BY <2>2, <2>3, <3>2, <3>3 DEF SlotsAreCounted
  <2>5. main'.pc = "create" /\ main'.new_fd = s /\ main'.index = i
    BY <2>2 DEF IInv, TypeOK, i, s
  <2>6. TypeOK'
    <3>1. main' \in [pc : {"accept", "index", "add", "create", "sleep"},
                     new_fd : Sockets \cup {0}, index : Slots]
      BY <2>2 DEF IInv, TypeOK
    <3>2. connected' \in BOOLEAN
      BY <2>2
    <3> QED
      BY <2>1, <2>2, <2>4, <3>1, <3>2 DEF IInv, TypeOK
  <2>7. ThreadsFit'
    \* the slot was empty and therefore no thread's
    BY <2>1, <2>2, Assumptions DEF IInv, TypeOK, ThreadsFit, Serving
  <2>8. MainFits'
    <3>1. \A d \in Clients : Serving(d) => index[d] # i
      BY <2>1, Assumptions DEF IInv, ThreadsFit
    <3>2. sock_fd'[i] = s
      BY <2>1, <2>2 DEF IInv, TypeOK
    <3>3. open[s] \in Clients /\ place[open[s]] = "none" /\ client[open[s]] # "out"
      BY <2>1 DEF IInv, MainFits, s
    <3> QED
      BY <2>1, <2>2, <2>5, <3>1, <3>2, <3>3 DEF MainFits, Serving, Starting
  <2> QED
    BY <2>2, <2>4, <2>6, <2>7, <2>8, NobodyPushes DEF IInv
<1>4. CASE Create
  <2> DEFINE c == open[main.new_fd]
  <2>1. /\ main.pc = "create" /\ c \in Clients /\ place[c] = "none" /\ client[c] # "out"
        /\ main.new_fd \in Sockets /\ sock_fd[main.index] = main.new_fd
        /\ \A d \in Clients : Serving(d) => index[d] # main.index
    BY <1>4 DEF Create, IInv, MainFits, Starting
  <2>2. /\ place' = [place EXCEPT ![c] = "start"] /\ main' = [main EXCEPT !.pc = "sleep"]
        /\ UNCHANGED <<table, mutex, open, client, index, socket_fd, push>>
        /\ UNCHANGED <<sock_fd, conn_number, connected>>
    BY <1>4 DEF Create, Goto, table
  <2>3. main'.pc = "sleep" /\ main'.new_fd = main.new_fd /\ main'.index = main.index
    BY <2>2 DEF IInv, TypeOK
  <2>4. TypeOK'
    <3>1. main' \in [pc : {"accept", "index", "add", "create", "sleep"},
                     new_fd : Sockets \cup {0}, index : Slots]
      BY <2>2 DEF IInv, TypeOK
    <3> QED
      BY <2>1, <2>2, <3>1 DEF IInv, TypeOK
  <2>5. \A d \in Clients : place'[d] = (IF d = c THEN "start" ELSE place[d])
    BY <2>2 DEF IInv, TypeOK
  <2>6. \A d \in Clients : place[d] # "start"
    BY <2>1 DEF IInv, ThreadsFit
  <2> HIDE DEF c
  <2>7. ThreadsFit'
    <3>1. main'.pc = "sleep" /\ open'[main'.new_fd] = c
      BY <2>2, <2>3 DEF c
    <3> QED
      BY <2>1, <2>2, <2>5, <2>6, <3>1 DEF IInv, ThreadsFit, Serving
  <2>8. MainFits'
    BY <2>1, <2>2, <2>3, <2>5 DEF MainFits, Serving, Starting
  <2> QED
    BY <2>2, <2>4, <2>7, <2>8, TableStays DEF IInv
<1>5. CASE CreateFails \/ Return
  \* no thread is about to read the variables that go
  <2>1. /\ main' = Ready /\ UNCHANGED <<table, mutex, open, client, threads, push>>
        /\ UNCHANGED <<sock_fd, conn_number, connected, place, index, socket_fd>>
    BY <1>5 DEF CreateFails, Return, table, threads
  <2>2. \A c \in Clients : place[c] # "start"
    BY <1>5 DEF CreateFails, Return, IInv, ThreadsFit
  <2>3. main' \in [pc : {"accept", "index", "add", "create", "sleep"},
                   new_fd : Sockets \cup {0}, index : Slots]
    BY <2>1, Assumptions DEF Ready, Slots
  <2>4. TypeOK'
    BY <2>1, <2>3 DEF IInv, TypeOK
  <2>5. ThreadsFit' /\ MainFits'
    BY <2>1, <2>2 DEF IInv, ThreadsFit, MainFits, Serving, Starting, Ready
  <2> QED
    BY <2>1, <2>4, <2>5, TableStays DEF IInv
<1> QED
  BY <1>1, <1>2, <1>3, <1>4, <1>5 DEF Main

\* The thread of a client.
LEMMA ThreadSteps ==
  ASSUME IInv, NEW c \in Clients, Serve(c) \/ RecvClose(c)
  PROVE  IInv'
<1>1. CASE Start(c)
  <2>1. /\ place[c] = "start" /\ place' = [place EXCEPT ![c] = "get"]
        /\ index' = [index EXCEPT ![c] = main.index]
        /\ UNCHANGED <<table, mutex, open, client, main, socket_fd, push>>
        /\ UNCHANGED <<sock_fd, conn_number, connected>>
    BY <1>1 DEF Start, GoTo, table
  <2>2. /\ main.pc = "sleep" /\ open[main.new_fd] = c /\ main.new_fd \in Sockets
        /\ sock_fd[main.index] = main.new_fd
        /\ \A d \in Clients : Serving(d) => index[d] # main.index
    BY <2>1 DEF IInv, ThreadsFit, MainFits, Starting
  <2>3. TypeOK'
    BY <2>1 DEF IInv, TypeOK
  <2>4. \A d \in Clients : /\ place'[d] = (IF d = c THEN "get" ELSE place[d])
                           /\ index'[d] = (IF d = c THEN main.index ELSE index[d])
    BY <2>1 DEF IInv, TypeOK
  \* there is one thread that starts
  <2>5. \A d \in Clients \ {c} : place[d] # "start"
    BY <2>2 DEF IInv, ThreadsFit
  <2>6. ThreadsFit'
    BY <2>1, <2>2, <2>4 DEF IInv, ThreadsFit, Serving
  <2>7. MainFits'
    BY <2>1, <2>2, <2>4, <2>5 DEF IInv, MainFits, Serving, Starting
  <2> QED
    BY <2>1, <2>3, <2>6, <2>7, TableStays DEF IInv
<1>2. CASE GetSocket(c)
  <2>1. /\ place[c] = "get" /\ place' = [place EXCEPT ![c] = "recv"]
        /\ socket_fd' = [socket_fd EXCEPT ![c] = sock_fd[index[c]]]
        /\ UNCHANGED <<table, mutex, open, client, main, index, push>>
        /\ UNCHANGED <<sock_fd, conn_number, connected>>
    BY <1>2 DEF GetSocket, GoTo, table
  <2>2. TypeOK'
    BY <2>1 DEF IInv, TypeOK
  <2>3. \A d \in Clients :
           /\ place'[d] = (IF d = c THEN "recv" ELSE place[d])
           /\ socket_fd'[d] = (IF d = c THEN sock_fd[index[c]] ELSE socket_fd[d])
    BY <2>1 DEF IInv, TypeOK
  <2>4. ThreadsFit'
    BY <2>1, <2>3 DEF IInv, ThreadsFit, Serving
  <2>5. MainFits'
    BY <2>1, <2>3 DEF IInv, ThreadsFit, MainFits, Serving, Starting
  <2> QED
    BY <2>1, <2>2, <2>4, <2>5, TableStays DEF IInv
<1>3. CASE RecvFails(c) \/ RecvClose(c)
  <2>1. /\ place[c] = "recv" /\ place' = [place EXCEPT ![c] = "remove"]
        /\ UNCHANGED <<table, mutex, main, index, socket_fd, push>>
        /\ UNCHANGED <<sock_fd, conn_number, connected>>
        /\ \/ UNCHANGED <<open, client>>
           \/ /\ open' = [open EXCEPT ![socket_fd[c]] = 0]
              /\ client' = [client EXCEPT ![c] = "gone"]
    BY <1>3 DEF RecvFails, RecvClose, GoTo, table
  <2>2. open[socket_fd[c]] = c
    BY <2>1 DEF IInv, ThreadsFit
  <2>3. TypeOK'
    <3>1. open' \in [Sockets -> Clients \cup {0}]
      BY <2>1 DEF IInv, TypeOK
    <3>2. client' \in [Clients -> {"out", "in", "stalled", "gone"}]
      BY <2>1 DEF IInv, TypeOK
    <3> QED
      BY <2>1, <3>1, <3>2 DEF IInv, TypeOK
  \* only c's own descriptor is closed
  <2>4. \A s \in Sockets : open[s] # c => open'[s] = open[s]
    BY <2>1, <2>2 DEF IInv, TypeOK
  <2>5. /\ \A d \in Clients : place'[d] = (IF d = c THEN "remove" ELSE place[d])
        /\ \A d \in Clients : client'[d] = (IF d = c THEN client'[c] ELSE client[d])
        /\ client'[c] # "out"
    <3>1. client[c] # "out"
      BY <2>1 DEF IInv, ThreadsFit
    <3> QED
      BY <2>1, <3>1 DEF IInv, TypeOK
  <2>6. \A d \in Clients : socket_fd[d] \in Sockets \cup {0}
    BY DEF IInv, TypeOK
  <2>7. ThreadsFit'
    <3>1. ASSUME NEW d \in Clients, d # c
          PROVE  /\ place[d] = "get" => open'[sock_fd[index[d]]] = d
                 /\ place[d] = "recv" => open'[socket_fd[d]] = d
                 /\ place[d] = "start" => open'[main.new_fd] = d
      BY <3>1, <2>4 DEF IInv, ThreadsFit, MainFits, Starting, Serving
    <3> QED
      BY <2>1, <2>5, <3>1 DEF IInv, ThreadsFit, Serving
  <2>8. MainFits'
    <3>1. main.pc \in {"index", "add", "create"} => open'[main.new_fd] = open[main.new_fd]
      BY <2>1, <2>4 DEF IInv, MainFits
    <3> QED
      BY <2>1, <2>5, <3>1 DEF IInv, MainFits, Serving, Starting
  <2> QED
    BY <2>1, <2>3, <2>7, <2>8, TableStays DEF IInv
<1>4. CASE RemoveSocket(c)
  <2> DEFINE k == index[c]
  <2>1. /\ place[c] = "remove" /\ mutex = "none" /\ Emptied(c)
        /\ place' = [place EXCEPT ![c] = "exit"]
        /\ index' = [index EXCEPT ![c] = 0] /\ socket_fd' = [socket_fd EXCEPT ![c] = 0]
        /\ UNCHANGED <<mutex, open, client, main, push>>
    BY <1>4 DEF RemoveSocket, Exit, GoTo
  <2>2. k \in Slots /\ sock_fd[k] \in Sockets /\ sock_fd[k] # 0
    BY <2>1, Assumptions DEF IInv, TypeOK, ThreadsFit, Serving
  <2>3. sock_fd' = [sock_fd EXCEPT ![k] = 0]
    BY <2>1 DEF Emptied
  <2>4. \A d \in Clients \ {c} : Serving(d) => index[d] # k
    BY <2>1 DEF IInv, ThreadsFit, Serving
  <2>5. Starting => main.index # k
    BY <2>1 DEF IInv, MainFits, Serving
  <2> HIDE DEF k
  <2>6. Filled' = Filled \ {k} /\ k \in Filled
    BY <2>2, <2>3 DEF Filled, Free, IInv, TypeOK
  <2>7. Filled \in SUBSET Slots /\ Filled' \in SUBSET Slots
    BY DEF Filled
  <2>8. /\ Cardinality(Filled') = conn_number - 1 /\ conn_number \in Nat
        /\ Cardinality(Filled') \in 0 .. MaxConn
    BY <2>6, <2>7, SlotSets, FS_RemoveElement, Assumptions DEF IInv, SlotsAreCounted, TypeOK
  <2>9. conn_number' = conn_number - 1 /\ connected' = (connected /\ conn_number > 1)
    <3>1. conn_number > 0
      BY <2>8, Assumptions
    <3> QED
      BY <2>1, <3>1 DEF Emptied
  <2>10. SlotsAreCounted'
    <3>1. connected' <=> conn_number > 1
      <4>1. connected
        BY <2>6 DEF IInv, SlotsAreCounted
      <4> QED
        BY <2>9, <4>1
    <3>2. IsFiniteSet(Filled')
      BY <2>7, SlotSets
    <3>3. Cardinality(Filled') = 0 <=> Filled' = {}
      BY <3>2, FS_EmptySet
    <3>4. conn_number > 1 <=> conn_number - 1 # 0
      BY <2>8, Assumptions
    <3>5. connected' <=> Filled' # {}
      BY <3>1, <3>3, <3>4, <2>8
    <3> QED
      BY <2>8, <2>9, <3>5 DEF SlotsAreCounted
  <2>11. TypeOK'
    <3>1. sock_fd' \in [Slots -> Sockets \cup {0}]
      BY <2>3 DEF IInv, TypeOK
    <3>2. conn_number' \in 0 .. MaxConn
      BY <2>8, <2>9
    <3>3. connected' \in BOOLEAN
      BY <2>9
    <3>4. /\ place' \in [Clients -> {"none", "start", "get", "recv", "remove", "exit"}]
          /\ index' \in [Clients -> Slots] /\ socket_fd' \in [Clients -> Sockets \cup {0}]
      BY <2>1, Assumptions DEF IInv, TypeOK, Slots
    <3> QED
      BY <2>1, <3>1, <3>2, <3>3, <3>4 DEF IInv, TypeOK
  <2>12. /\ \A d \in Clients : place'[d] = (IF d = c THEN "exit" ELSE place[d])
         /\ \A d \in Clients \ {c} : index'[d] = index[d] /\ socket_fd'[d] = socket_fd[d]
         /\ \A i \in Slots : sock_fd'[i] = (IF i = k THEN 0 ELSE sock_fd[i])
    BY <2>1, <2>3 DEF IInv, TypeOK
  <2>13. client[c] # "out"
    BY <2>1 DEF IInv, ThreadsFit
  <2>14. /\ \A d \in Clients : index[d] \in Slots
         /\ main.index \in Slots
    BY DEF IInv, TypeOK
  <2>15. ThreadsFit'
    <3>1. ASSUME NEW d \in Clients, d # c, Serving(d)
          PROVE  sock_fd'[index'[d]] = sock_fd[index[d]]
      BY <3>1, <2>4, <2>12, <2>14
    <3> QED
      BY <2>1, <2>12, <2>13, <3>1 DEF IInv, ThreadsFit, Serving
  <2>16. MainFits'
    BY <2>1, <2>5, <2>12, <2>14 DEF IInv, MainFits, Serving, Starting
  <2> QED
    BY <2>1, <2>10, <2>11, <2>15, <2>16, NobodyPushes DEF IInv
<1> QED
  BY <1>1, <1>2, <1>3, <1>4 DEF Serve

PushStates == [pc : {"idle", "lock", "send", "slept", "unlock"}, i : 0 .. MaxConn,
               j : 0 .. MaxConn, sent : SUBSET Slots]

\* A step of pusher p that leaves it in a fitting state r and no other pusher without the mutex.
LEMMA PusherStep ==
  ASSUME IInv, NEW p \in Pushers, NEW r \in PushStates,
         push' = [push EXCEPT ![p] = r],
         UNCHANGED <<table, open, client, main, threads>>,
         mutex' \in Pushers \cup {"none"},
         r.pc \in {"send", "slept", "unlock"} => mutex' = p,
         r.pc \notin {"send", "slept", "unlock"} => r.i = 0 /\ r.j = 0 /\ r.sent = {},
         r.sent \subseteq Filled, Cardinality(r.sent) = r.j,
         \A k \in Filled : k < r.i => k \in r.sent,
         \A k \in r.sent : k < r.i,
         r.pc = "unlock" => Filled \subseteq r.sent,
         \A q \in Pushers \ {p} : Pushing(q) => mutex' = mutex
  PROVE  IInv'
<1>1. \A q \in Pushers : push'[q] = (IF q = p THEN r ELSE push[q])
  BY DEF IInv, TypeOK
<1>2. SlotsAreCounted' /\ ThreadsFit' /\ MainFits' /\ Filled' = Filled
  BY OnlyPush
<1>3. UNCHANGED <<sock_fd, conn_number, connected, place, index, socket_fd>>
  BY DEF table, threads
<1>4. TypeOK'
  <2>1. push' \in [Pushers -> PushStates]
    BY DEF IInv, TypeOK, PushStates
  <2> QED
    BY <1>3, <2>1 DEF IInv, TypeOK, PushStates
<1>5. PushFits'
  BY <1>1, <1>2 DEF IInv, PushFits, Pushing
<1>6. PushReachesAll'
  BY <1>1, <1>2 DEF IInv, PushReachesAll
<1> QED
  BY <1>2, <1>4, <1>5, <1>6 DEF IInv

LEMMA PcChanges ==
  ASSUME NEW r \in PushStates, NEW to \in {"idle", "lock", "send", "slept", "unlock"},
         NEW t, t = [r EXCEPT !.pc = to]
  PROVE  t \in PushStates /\ t.pc = to /\ t.i = r.i /\ t.j = r.j /\ t.sent = r.sent
BY DEF PushStates

\* The pushers.
LEMMA PusherSteps ==
  ASSUME IInv, NEW p \in Pushers, Push(p) \/ Pusher(p)
  PROVE  IInv'
<1> DEFINE r == push[p]
<1>1. /\ r \in PushStates
      /\ push[p].sent \subseteq Filled /\ Cardinality(r.sent) = r.j
      /\ \A k \in Filled : k < r.i => k \in r.sent
      /\ \A k \in r.sent : k < r.i
      /\ Pushing(p) => mutex = p
      /\ ~Pushing(p) => r.i = 0 /\ r.j = 0 /\ r.sent = {}
  BY DEF IInv, TypeOK, PushFits, PushStates
<1>2. \A q \in Pushers \ {p} : mutex = p \/ mutex = "none" => ~Pushing(q)
  BY Assumptions DEF IInv, PushFits
<1>3. mutex \in Pushers \cup {"none"}
  BY DEF IInv, TypeOK
<1>4. Filled \in SUBSET Slots
  BY DEF Filled
<1>5. CASE Push(p)
  <2> DEFINE t == [r EXCEPT !.pc = "lock"]
  <2>1. /\ push' = [push EXCEPT ![p] = t] /\ r.pc = "idle" /\ ~Pushing(p)
        /\ UNCHANGED <<table, mutex, open, client, main, threads>>
    BY <1>5 DEF Push, Pushing
  <2>2. t \in PushStates /\ t.pc = "lock" /\ t.i = r.i /\ t.j = r.j /\ t.sent = r.sent
    BY <1>1, PcChanges
  <2> HIDE DEF t, r
  <2> QED
    BY <1>1, <1>3, <2>1, <2>2, PusherStep DEF r
<1>6. CASE Lock(p)
  <2> DEFINE t == [r EXCEPT !.pc = "send"]
  <2>1. /\ push' = [push EXCEPT ![p] = t] /\ r.pc = "lock"
        /\ mutex = "none" /\ mutex' = p
        /\ UNCHANGED <<table, open, client, main, threads>>
    BY <1>6 DEF Lock
  <2>2. t \in PushStates /\ t.pc = "send" /\ t.i = r.i /\ t.j = r.j /\ t.sent = r.sent
    BY <1>1, PcChanges
  <2> HIDE DEF t, r
  <2> QED
    BY <1>1, <1>2, <2>1, <2>2, PusherStep DEF r
<1>7. CASE Send(p)
  <2> DEFINE i == Min(Rest(p))
             t == [pc |-> "slept", i |-> i + 1, j |-> r.j + 1, sent |-> r.sent \cup {i}]
  <2>1. /\ push' = [push EXCEPT ![p] = t] /\ r.pc = "send" /\ Rest(p) # {}
        /\ UNCHANGED <<table, mutex, open, client, main, threads>>
    BY <1>7 DEF Send
  <2>2. i \in Filled /\ i >= r.i /\ \A k \in Rest(p) : i <= k
    <3>1. Rest(p) \in SUBSET Nat /\ Rest(p) # {}
      BY <1>4, <2>1, Assumptions DEF Rest
    <3>2. Min(Rest(p)) \in Rest(p) /\ \A k \in Rest(p) : Min(Rest(p)) <= k
      BY <3>1, Least
    <3> QED
      BY <3>2 DEF Rest
  <2> HIDE DEF i
  <2>3. i \notin r.sent /\ i \in Slots /\ i \in Nat /\ i + 1 \in 0 .. MaxConn /\ r.i \in Nat
    BY <1>1, <1>4, <2>2, Assumptions DEF PushStates
  <2>4. /\ IsFiniteSet(r.sent) /\ Cardinality(r.sent \cup {i}) = r.j + 1
        /\ r.j + 1 \in 0 .. MaxConn
    <3>1. r.sent \in SUBSET Slots /\ r.sent \cup {i} \in SUBSET Slots
      BY <1>1, <1>4, <2>3
    <3>2. IsFiniteSet(r.sent) /\ Cardinality(r.sent \cup {i}) = r.j + 1
      BY <1>1, <2>3, <3>1, SlotSets, FS_AddElement
    <3> QED
      BY <3>1, <3>2, SlotSets
  <2>5. t \in PushStates
    BY <1>1, <2>3, <2>4 DEF PushStates
  \* what is before the next one has been sent to
  <2>6. /\ \A k \in Filled : k < i + 1 => k \in r.sent \cup {i}
        /\ \A k \in r.sent \cup {i} : k < i + 1
        /\ r.sent \cup {i} \subseteq Filled
    <3>1. Filled \subseteq Nat
      BY <1>4, Assumptions
    <3>2. ASSUME NEW k \in Filled, k < i + 1 PROVE k \in r.sent \cup {i}
      <4>1. CASE k < r.i
        BY <1>1, <4>1
      <4>2. CASE k >= r.i
        BY <2>2, <2>3, <3>1, <3>2, <4>2 DEF Rest
      <4> QED
        BY <2>3, <3>1, <4>1, <4>2
    <3>3. ASSUME NEW k \in r.sent \cup {i} PROVE k < i + 1
      <4>1. CASE k \in r.sent
        <5>1. k < r.i /\ k \in Nat
          BY <1>1, <3>1, <4>1
        <5> QED
          BY <2>2, <2>3, <5>1
      <4>2. CASE k = i
        BY <2>3, <4>2
      <4> QED
        BY <3>3, <4>1, <4>2
    <3> QED
      BY <1>1, <2>2, <3>2, <3>3
  <2>7. /\ t.pc = "slept" /\ t.i = i + 1 /\ t.j = r.j + 1 /\ t.sent = r.sent \cup {i}
    OBVIOUS
  <2>8. mutex = p
    BY <1>1, <2>1 DEF Pushing
  <2> HIDE DEF t
  <2> QED
    BY <1>3, <2>1, <2>4, <2>5, <2>6, <2>7, <2>8, PusherStep
<1>8. CASE Slept(p) \/ TableEnds(p)
  <2>1. /\ \E to \in {"send", "unlock"} : push' = [push EXCEPT ![p] = [r EXCEPT !.pc = to]]
        /\ Pushing(p)
        /\ UNCHANGED <<table, mutex, open, client, main, threads>>
    BY <1>8 DEF Slept, TableEnds, Pushing
  <2>2. PICK to \in {"send", "unlock"} : push' = [push EXCEPT ![p] = [r EXCEPT !.pc = to]]
    BY <2>1
  <2>3. push'[p].pc = to
    BY <2>2 DEF IInv, TypeOK
  <2>4. ASSUME to = "unlock" PROVE Filled \subseteq r.sent
    <3>1. CASE Slept(p)
      \* as many as there are were sent to
      <4>1. r.j >= conn_number
        BY <2>3, <2>4, <3>1 DEF Slept, IInv, TypeOK
      <4>2. IsFiniteSet(Filled) /\ Cardinality(Filled) = conn_number
        BY <1>4, SlotSets DEF IInv, SlotsAreCounted
      <4>3. Cardinality(r.sent) <= Cardinality(Filled)
            /\ (Cardinality(r.sent) = Cardinality(Filled) => r.sent = Filled)
        BY <1>1, <4>2, FS_Subset
      <4>4. Cardinality(r.sent) >= Cardinality(Filled)
        BY <1>1, <4>1, <4>2
      <4>5. Cardinality(r.sent) \in Nat /\ Cardinality(Filled) \in Nat
        BY <1>1, <1>4, SlotSets
      <4> QED
        BY <4>3, <4>4, <4>5
    <3>2. CASE TableEnds(p)
      <4>1. \A k \in Filled : ~ (k >= r.i)
        BY <3>2 DEF TableEnds, Rest
      <4> QED
        BY <1>1, <1>4, <4>1, Assumptions DEF PushStates
    <3> QED
      BY <1>8, <3>1, <3>2
  <2>5. mutex = p
    BY <1>1, <2>1
  <2> DEFINE t == [r EXCEPT !.pc = to]
  <2>6. t \in PushStates /\ t.pc = to /\ t.i = r.i /\ t.j = r.j /\ t.sent = r.sent
    BY <1>1, PcChanges
  <2>7. push' = [push EXCEPT ![p] = t]
    BY <2>2
  <2> HIDE DEF t, r
  <2> QED
    BY <1>1, <1>3, <2>1, <2>4, <2>5, <2>6, <2>7, PusherStep DEF r
<1>9. CASE Unlock(p)
  <2>1. /\ push' = [push EXCEPT ![p] = Quiet] /\ r.pc = "unlock" /\ mutex' = "none"
        /\ UNCHANGED <<table, open, client, main, threads>>
    BY <1>9 DEF Unlock
  <2>2. mutex = p
    BY <1>1, <2>1 DEF Pushing
  <2>3. Quiet \in PushStates
    BY Assumptions DEF Quiet, PushStates
  <2>4. Cardinality({}) = 0 /\ \A k \in Filled : ~ (k < 0)
    BY <1>4, FS_EmptySet, Assumptions DEF Slots
  <2>5. \A q \in Pushers \ {p} : ~Pushing(q)
    BY <1>2, <2>2
  <2>6. Quiet.pc = "idle" /\ Quiet.i = 0 /\ Quiet.j = 0 /\ Quiet.sent = {}
    BY DEF Quiet
  <2> QED
    BY <2>1, <2>3, <2>4, <2>5, <2>6, PusherStep
<1> QED
  BY <1>5, <1>6, <1>7, <1>8, <1>9 DEF Pusher

LEMMA NextIInv == IInv /\ [Next]_vars => IInv'
<1> SUFFICES ASSUME IInv, [Next]_vars PROVE IInv'
  OBVIOUS
<1>1. CASE Main
  BY <1>1, MainSteps
<1>2. ASSUME NEW c \in Clients, Accept(c) PROVE IInv'
  BY <1>2, MainSteps
<1>3. ASSUME NEW c \in Clients, Leave(c) \/ Stall(c) PROVE IInv'
  BY <1>3, ClientSteps
<1>4. ASSUME NEW c \in Clients, Serve(c) \/ RecvClose(c) PROVE IInv'
  BY <1>4, ThreadSteps
<1>5. ASSUME NEW p \in Pushers, Push(p) \/ Pusher(p) PROVE IInv'
  BY <1>5, PusherSteps
<1>6. CASE UNCHANGED vars
  BY <1>6, OnlyPush DEF vars, table, threads, IInv, TypeOK, PushFits, Pushing, PushReachesAll
<1> QED
  BY <1>1, <1>2, <1>3, <1>4, <1>5, <1>6 DEF Next

-----------------------------------------------------------------------------
(* Theorems                                                                *)

\* The variables keep their types: no slot number outside the table, no more connections
\* than slots, whatever the order in which clients come and go (dbp_main.c).
THEOREM DbpTypeCorrect == Spec => []TypeOK
<1>1. IInv => TypeOK
  BY DEF IInv
<1> QED
  BY <1>1, InitIInv, NextIInv, PTL DEF Spec

\* conn_number, which dbp_add_socket and dbp_remove_socket keep by hand, is the number of
\* sockets in the table.
THEOREM ConnectionsAreCounted == Spec => []SlotsAreCounted
<1>1. IInv => SlotsAreCounted
  BY DEF IInv
<1> QED
  BY <1>1, InitIInv, NextIInv, PTL DEF Spec

\* dbp_client_handler serves the client it was created for: the address of the one local
\* variable, the read without the mutex and the reuse of descriptors do no harm.
THEOREM ThreadsServeTheirOwn == Spec => []OwnConnection
<1>1. IInv => OwnConnection
  BY DEF IInv, ThreadsFit, OwnConnection, Serving
<1> QED
  BY <1>1, InitIInv, NextIInv, PTL DEF Spec

\* dbp_send_data_to_clients, which stops after conn_number sockets or at the end of the
\* table, has passed over nobody.
THEOREM PushesReachAll == Spec => []PushReachesAll
<1>1. IInv => PushReachesAll
  BY DEF IInv
<1> QED
  BY <1>1, InitIInv, NextIInv, PTL DEF Spec
=============================================================================
