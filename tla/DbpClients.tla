----------------------------- MODULE DbpClients -----------------------------
(***************************************************************************)
(* daemons/dbp/dbp_main.c: the main thread accepts clients and enters      *)
(* their sockets in a table, a thread per client waits for its commands    *)
(* and takes the socket out again, and the threads that receive messages   *)
(* push data to every socket of the table.  dbp_mutex protects the table;  *)
(* pushing keeps it from the first send to the last.                       *)
(*                                                                         *)
(* A client stands for one connection, and for the thread that serves it.  *)
(* place[c]: none, start (about to read its argument), get (about to read  *)
(* its socket), recv, remove (about to leave the table), exit.             *)
(***************************************************************************)
EXTENDS Integers, FiniteSets, FiniteSetsExt

CONSTANTS Clients,  \* the connections that come in
          Sockets,  \* the descriptors the process may have open for them
          MaxConn,  \* MAX_NUM_OF_CONN: 100
          Pushers   \* the threads that push: zigbee_msg_receiver, dbp_loc_receiver

ASSUME DbpAssumption ==
    /\ MaxConn \in Nat \ {0} /\ Sockets \subseteq Nat \ {0}
    /\ 0 \notin Clients /\ "none" \notin Pushers

VARIABLES sock_fd,      \* the table: a socket or 0
          conn_number, connected,
          mutex,        \* the pusher that has it; the other sections are one step each
          open,         \* the client behind each descriptor, or 0
          client,       \* out, in, stalled (reads no more), gone
          main,         \* the main thread: pc, new_fd, index
          place, index, \* of the threads that serve clients, with their socket
          socket_fd,
          push          \* the pushers: pc, i, j, and the slots that were sent to

vars    == <<sock_fd, conn_number, connected, mutex, open, client, main, place,
             index, socket_fd, push>>
table   == <<sock_fd, conn_number, connected>>
threads == <<place, index, socket_fd>>

Slots  == 0 .. MaxConn - 1
Free   == {i \in Slots : sock_fd[i] = 0}
Filled == Slots \ Free
Unused == {s \in Sockets : open[s] = 0}
Quiet  == [pc |-> "idle", i |-> 0, j |-> 0, sent |-> {}]
Ready  == [pc |-> "accept", new_fd |-> 0, index |-> 0]

\* dbp_init
Init ==
    /\ sock_fd = [i \in Slots |-> 0] /\ conn_number = 0 /\ connected = FALSE
    /\ mutex = "none"
    /\ open = [s \in Sockets |-> 0]
    /\ client = [c \in Clients |-> "out"]
    /\ main = Ready
    /\ place = [c \in Clients |-> "none"]
    /\ index = [c \in Clients |-> 0] /\ socket_fd = [c \in Clients |-> 0]
    /\ push = [p \in Pushers |-> Quiet]

-----------------------------------------------------------------------------
(* The clients                                                             *)

Leave(c) ==
    /\ client[c] \in {"in", "stalled"}
    /\ client' = [client EXCEPT ![c] = "gone"]
    /\ UNCHANGED <<table, mutex, open, main, threads, push>>

\* Its buffers fill up: a send to it does not come back.
Stall(c) ==
    /\ client[c] = "in"
    /\ client' = [client EXCEPT ![c] = "stalled"]
    /\ UNCHANGED <<table, mutex, open, main, threads, push>>

-----------------------------------------------------------------------------
(* The main thread: accept, and dbp_msg_receiver                           *)

Goto(next) == main' = [main EXCEPT !.pc = next]

\* The kernel gives the lowest descriptor; without one accept fails, again and again.
Accept(c) ==
    /\ main.pc = "accept" /\ client[c] = "out" /\ Unused # {}
    /\ client' = [client EXCEPT ![c] = "in"]
    /\ open' = [open EXCEPT ![Min(Unused)] = c]
    /\ main' = [pc |-> "index", new_fd |-> Min(Unused), index |-> 0]
    /\ UNCHANGED <<table, mutex, threads, push>>

\* Faulty variant: a full table is not noticed.
FullGoesOn ==
    /\ main.pc = "index" /\ mutex = "none"
    /\ main' = IF Free = {} THEN [main EXCEPT !.pc = "add"]
               ELSE [pc |-> "add", new_fd |-> main.new_fd, index |-> Min(Free)]
    /\ UNCHANGED <<table, mutex, open, client, threads, push>>

\* dbp_get_index_number.  A full table leaves the socket open, with nobody to serve it.
GetIndex ==
    /\ main.pc = "index" /\ mutex = "none"
    /\ main' = IF Free = {} THEN Ready
               ELSE [pc |-> "add", new_fd |-> main.new_fd, index |-> Min(Free)]
    /\ UNCHANGED <<table, mutex, open, client, threads, push>>

\* dbp_add_socket
AddSocket ==
    /\ main.pc = "add" /\ mutex = "none"
    /\ IF conn_number <= MaxConn
          THEN /\ sock_fd' = [sock_fd EXCEPT ![main.index] = main.new_fd]
               /\ conn_number' = conn_number + 1
               /\ connected' = TRUE
          ELSE UNCHANGED table
    /\ Goto("create")
    /\ UNCHANGED <<mutex, open, client, threads, push>>

\* The new thread gets the address of the local variable index.
Create ==
    /\ main.pc = "create"
    /\ place' = [place EXCEPT ![open[main.new_fd]] = "start"]
    /\ Goto("sleep")
    /\ UNCHANGED <<table, mutex, open, client, index, socket_fd, push>>

\* pthread_create fails: the socket stays in the table.
CreateFails ==
    /\ main.pc = "create"
    /\ main' = Ready
    /\ UNCHANGED <<table, mutex, open, client, threads, push>>

\* Faulty variant: dbp_msg_receiver returns at once.
ReturnAtOnce ==
    /\ main.pc = "sleep"
    /\ main' = Ready
    /\ UNCHANGED <<table, mutex, open, client, threads, push>>

\* The end of the sleep of 100 ms.  The thread is taken to have read its argument by then.
Return ==
    /\ main.pc = "sleep" /\ \A c \in Clients : place[c] # "start"
    /\ main' = Ready
    /\ UNCHANGED <<table, mutex, open, client, threads, push>>

-----------------------------------------------------------------------------
(* The thread of a client: dbp_client_handler                              *)

GoTo(c, to) == place' = [place EXCEPT ![c] = to]

\* index = *arg
Start(c) ==
    /\ place[c] = "start"
    /\ index' = [index EXCEPT ![c] = main.index]
    /\ GoTo(c, "get")
    /\ UNCHANGED <<table, mutex, open, client, main, socket_fd, push>>

\* dbp_get_socket, without the mutex
GetSocket(c) ==
    /\ place[c] = "get"
    /\ socket_fd' = [socket_fd EXCEPT ![c] = sock_fd[index[c]]]
    /\ GoTo(c, "recv")
    /\ UNCHANGED <<table, mutex, open, client, main, index, push>>

\* Faulty variant: the thread ends and leaves its socket in the table.
RecvEnds(c) ==
    /\ place[c] = "recv" /\ client[c] = "gone"
    /\ GoTo(c, "exit")
    /\ UNCHANGED <<table, mutex, open, client, main, index, socket_fd, push>>

\* recv returns nothing or fails.  The socket is never closed.
RecvFails(c) ==
    /\ place[c] = "recv" /\ client[c] = "gone"
    /\ GoTo(c, "remove")
    /\ UNCHANGED <<table, mutex, open, client, main, index, socket_fd, push>>

\* The command "dbp close": the socket is closed while it is in the table.
RecvClose(c) ==
    /\ place[c] = "recv"
    /\ open' = [open EXCEPT ![socket_fd[c]] = 0]
    /\ client' = [client EXCEPT ![c] = "gone"]
    /\ GoTo(c, "remove")
    /\ UNCHANGED <<table, mutex, main, index, socket_fd, push>>

Exit(c) ==
    /\ GoTo(c, "exit")
    /\ index' = [index EXCEPT ![c] = 0] /\ socket_fd' = [socket_fd EXCEPT ![c] = 0]

Emptied(c) ==
    /\ sock_fd' = [sock_fd EXCEPT ![index[c]] = 0]
    /\ IF conn_number > 0
          THEN conn_number' = conn_number - 1 /\ connected' = (connected /\ conn_number > 1)
          ELSE UNCHANGED <<conn_number, connected>>

\* Faulty variants: without the mutex; without the number.
RemoveUnlocked(c) ==
    /\ place[c] = "remove"
    /\ Emptied(c)
    /\ Exit(c)
    /\ UNCHANGED <<mutex, open, client, main, push>>

RemoveUncounted(c) ==
    /\ place[c] = "remove" /\ mutex = "none"
    /\ sock_fd' = [sock_fd EXCEPT ![index[c]] = 0]
    /\ Exit(c)
    /\ UNCHANGED <<conn_number, connected, mutex, open, client, main, push>>

\* dbp_remove_socket
RemoveSocket(c) ==
    /\ place[c] = "remove" /\ mutex = "none"
    /\ Emptied(c)
    /\ Exit(c)
    /\ UNCHANGED <<mutex, open, client, main, push>>

-----------------------------------------------------------------------------
(* The pushers: dbp_send_data_to_clients                                   *)

\* connected is read without the mutex.
Push(p) ==
    /\ push[p].pc = "idle" /\ connected
    /\ push' = [push EXCEPT ![p].pc = "lock"]
    /\ UNCHANGED <<table, mutex, open, client, main, threads>>

Lock(p) ==
    /\ push[p].pc = "lock" /\ mutex = "none"
    /\ mutex' = p
    /\ push' = [push EXCEPT ![p].pc = "send"]
    /\ UNCHANGED <<table, open, client, main, threads>>

Rest(p)    == {i \in Filled : i >= push[p].i}
Stalled(s) == open[s] # 0 /\ client[open[s]] = "stalled"
Blocked(p) == push[p].pc = "send" /\ Rest(p) # {} /\ Stalled(sock_fd[Min(Rest(p))])

\* The next socket of the table, and a sleep of 1 ms.
Send(p) ==
    /\ push[p].pc = "send" /\ Rest(p) # {} /\ ~Blocked(p)
    /\ LET i == Min(Rest(p)) IN
       push' = [push EXCEPT ![p] = [pc |-> "slept", i |-> i + 1, j |-> push[p].j + 1,
                                    sent |-> push[p].sent \cup {i}]]
    /\ UNCHANGED <<table, mutex, open, client, main, threads>>

\* The last one, when conn_number sockets were found.
Slept(p) ==
    /\ push[p].pc = "slept"
    /\ push' = [push EXCEPT ![p].pc = IF push[p].j >= conn_number THEN "unlock" ELSE "send"]
    /\ UNCHANGED <<table, mutex, open, client, main, threads>>

TableEnds(p) ==
    /\ push[p].pc = "send" /\ Rest(p) = {}
    /\ push' = [push EXCEPT ![p].pc = "unlock"]
    /\ UNCHANGED <<table, mutex, open, client, main, threads>>

Unlock(p) ==
    /\ push[p].pc = "unlock"
    /\ mutex' = "none"
    /\ push' = [push EXCEPT ![p] = Quiet]
    /\ UNCHANGED <<table, open, client, main, threads>>

-----------------------------------------------------------------------------

Main      == GetIndex \/ AddSocket \/ Create \/ CreateFails \/ Return
Serve(c)  == Start(c) \/ GetSocket(c) \/ RecvFails(c) \/ RemoveSocket(c)
Pusher(p) == Lock(p) \/ Send(p) \/ Slept(p) \/ TableEnds(p) \/ Unlock(p)

Next ==
    \/ Main
    \/ \E c \in Clients : Accept(c) \/ Leave(c) \/ Stall(c) \/ Serve(c) \/ RecvClose(c)
    \/ \E p \in Pushers : Push(p) \/ Pusher(p)

Spec == Init /\ [][Next]_vars

(* The threads run on, and get the mutex when it is free again and again. *)
FairSpec ==
    /\ Spec
    /\ \A c \in Clients : SF_vars(Serve(c))
    /\ \A p \in Pushers : WF_vars(Pusher(p))

-----------------------------------------------------------------------------
(* Properties                                                              *)

TypeOK ==
    /\ sock_fd \in [Slots -> Sockets \cup {0}]
    /\ conn_number \in 0 .. MaxConn /\ connected \in BOOLEAN
    /\ mutex \in Pushers \cup {"none"}
    /\ open \in [Sockets -> Clients \cup {0}]
    /\ client \in [Clients -> {"out", "in", "stalled", "gone"}]
    /\ main \in [pc : {"accept", "index", "add", "create", "sleep"},
                 new_fd : Sockets \cup {0}, index : Slots]
    /\ place \in [Clients -> {"none", "start", "get", "recv", "remove", "exit"}]
    /\ index \in [Clients -> Slots]
    /\ socket_fd \in [Clients -> Sockets \cup {0}]
    /\ push \in [Pushers -> [pc : {"idle", "lock", "send", "slept", "unlock"}, i : 0 .. MaxConn,
                             j : 0 .. MaxConn, sent : SUBSET Slots]]

\* The number of connections, at which pushing stops, is the number of sockets in the table.
SlotsAreCounted ==
    /\ conn_number = Cardinality(Filled)
    /\ connected <=> Filled # {}

\* A thread serves the client it was made for, and no other thread touches its slot,
\* although descriptors are used again before their old slots are empty.
OwnConnection ==
    \A c \in Clients :
        /\ place[c] = "recv" => socket_fd[c] \in Sockets /\ open[socket_fd[c]] = c
        /\ place[c] \in {"recv", "remove"} =>
              /\ sock_fd[index[c]] = socket_fd[c]
              /\ \A d \in Clients \ {c} : place[d] \in {"recv", "remove"} => index[d] # index[c]

\* Nobody in the table is passed over, whoever leaves while data is pushed.
PushReachesAll == \A p \in Pushers : push[p].pc = "unlock" => Filled \subseteq push[p].sent

\* A client that has gone is taken out of the table, unless a client that reads no more
\* keeps a pusher, and with it the mutex, for ever.
Listed(c) == \E i \in Filled : open[sock_fd[i]] = c

GoneAreForgotten ==
    []<>(\A p \in Pushers : ~Blocked(p)) =>
        \A c \in Clients : place[c] = "recv" /\ client[c] = "gone" ~> ~Listed(c)
=============================================================================
