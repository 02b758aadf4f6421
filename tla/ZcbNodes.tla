------------------------------ MODULE ZcbNodes ------------------------------
(***************************************************************************)
(* The table of ZigBee nodes (zcb in IotCommon/newDb.c) as the ZCB daemon  *)
(* keeps it (daemons/ZCB/zcb.c).  Three actors change it:                  *)
(*   main   polls the neighbour table of the coordinator and adds nodes    *)
(*   cb     the callback thread: handles announcements, leaves, simple     *)
(*          descriptors, attribute responses and the formed network        *)
(*   (another process) empties the table: the dbEdit command, ci -c        *)
(* Each newDb call holds NEWDB_SEMKEY, but what a thread does to a row is  *)
(* a get, a change of its copy and a set of the whole row.                 *)
(*                                                                         *)
(* pc[t]: idle; known, bySaddr, byMac, new, set (zcbAddNode and the test   *)
(* before it); request, check, deviceId, left, identify, read, store,      *)
(* again (what the handlers do besides).                                   *)
(* The type of a device is named by the device itself.                     *)
(***************************************************************************)
EXTENDS Integers, Sequences, FiniteSets, FiniteSetsExt

CONSTANTS Devices, Coordinator,  \* mac addresses
          Addrs,                 \* short addresses, the coordinator's not among them
          NRows,                 \* NEWDB_MAX_ZCB
          InboxMax,              \* bound on the messages on their way to cb
          MaxChanges,            \* bound on joins, leaves and resets
          Faults,                \* reset: the table is emptied.  reuse: an
                                 \* address goes to another device later
          NoMac

ASSUME NodesAssumption ==
    /\ Coordinator \notin Devices /\ NoMac \notin Devices \cup {Coordinator}
    /\ {"UNKNOWN", "ZERO"} \cap (Devices \cup {Coordinator}) = {}
    /\ {-1, 0} \cap Addrs = {}
    /\ NRows \in Nat \ {0} /\ InboxMax \in Nat \ {0} /\ MaxChanges \in Nat
    /\ Faults \subseteq {"reset", "reuse"}

VARIABLES zcb,         \* the table
          pc, job, my, \* where a thread stands, for which message, its copy of a row
          ext,         \* extendedAddress of the handlers
          inbox,       \* the messages on their way to the callback thread
          asked,       \* requests under way: kind and address
          addr,        \* the network: the address of each device, or Gone
          pairs,       \* every address a device ever had
          changes,
          stale, raced \* history: the threads whose job another actor has written
                       \* the table under; whether one of them wrote it then

threads == <<pc, job, my, ext>>
network == <<inbox, asked, addr, pairs, changes>>
history == <<stale, raced>>
vars    == <<zcb, threads, network, history>>

Threads == {"main", "cb"}
Macs    == Devices \cup {Coordinator}
Gone    == -1
Unknown == "UNKNOWN"                      \* SIMPLE_DESCR_UNKNOWN
Zero    == "ZERO"                         \* a cleared type, which names no known device
Rows    == 1 .. NRows

Row == [status : {"FREE", "USED", "JOINED", "LEFT"}, mac : Macs \cup {NoMac},
        saddr : Addrs \cup {0}, type : Macs \cup {Unknown, Zero}]
Cleared(st, m) == [status |-> st, mac |-> m, saddr |-> 0, type |-> Zero]
FreeRow        == Cleared("FREE", NoMac)

Msg(kind, s, d) == [kind |-> kind, s |-> s, d |-> d]
NoJob           == Msg("none", 0, NoMac)
NoCopy          == [id |-> 0, row |-> FreeRow]

Init ==
    /\ zcb = [i \in Rows |-> FreeRow]
    /\ pc = [t \in Threads |-> "idle"]
    /\ job = [t \in Threads |-> NoJob]
    /\ my = [t \in Threads |-> NoCopy]
    /\ ext = NoMac
    /\ inbox = <<Msg("formed", 0, Coordinator)>> /\ asked = {}
    /\ addr = [d \in Devices |-> Gone]
    /\ pairs = {<<0, Coordinator>>}
    /\ changes = 0
    /\ stale = {} /\ raced = FALSE

-----------------------------------------------------------------------------
(* newDb: each operator is one critical section                            *)

InUse(i)     == zcb[i].status # "FREE"
WithSaddr(s) == {i \in Rows : InUse(i) /\ zcb[i].saddr = s}
WithMac(m)   == {i \in Rows : InUse(i) /\ zcb[i].mac = m}
Copy(i)      == [id |-> i, row |-> zcb[i]]

\* The whole row is written back, wherever it came from; of a free row nothing is
\* ever read again.
SetZcb(c) == zcb' = [zcb EXCEPT ![c.id] = IF c.row.status = "FREE" THEN FreeRow ELSE c.row]

\* The first free row, or else the oldest: which one that is depends on the clock,
\* and none is when all were written this second.
Slots == LET free == {i \in Rows : ~InUse(i)}
         IN  IF free # {} THEN {Min(free)} ELSE Rows \cup {0}

-----------------------------------------------------------------------------
(* The two threads                                                         *)

\* Who writes the table while another job is under way.
Wrote(t) == /\ raced' = (raced \/ t \in stale)
            /\ stale' = stale \cup {u \in Threads \ {t} : pc[u] # "idle"}
Begin(t) == stale' = stale \ {t} /\ UNCHANGED raced

Goto(t, place) == pc' = [pc EXCEPT ![t] = place]
Keep(t, c)     == my' = [my EXCEPT ![t] = c]
Done(t) == /\ Goto(t, "idle")
           /\ job' = [job EXCEPT ![t] = NoJob]
           /\ Keep(t, NoCopy)

\* Where a thread goes on after zcbAddNode.
AfterAdd(t) == CASE job[t].kind = "poll"     -> "request"
                 [] job[t].kind = "announce" -> "check"
                 [] job[t].kind = "formed"   -> "deviceId"

\* An entry of the neighbour table: a device and its address when the coordinator
\* was asked.  At the start the main thread waits two seconds for the first messages.
Poll(d) ==
    /\ pc["main"] = "idle"
    /\ job["cb"].kind # "formed" /\ \A i \in DOMAIN inbox : inbox[i].kind # "formed"
    /\ addr[d] # Gone
    /\ job' = [job EXCEPT !["main"] = Msg("poll", addr[d], d)]
    /\ Goto("main", "known")
    /\ Begin("main")
    /\ UNCHANGED <<zcb, my, ext, network>>

Known ==
    /\ pc["main"] = "known"
    /\ IF WithSaddr(job["main"].s) # {} THEN Done("main")
                                        ELSE Goto("main", "bySaddr") /\ UNCHANGED <<job, my>>
    /\ UNCHANGED <<zcb, ext, network, history>>

Handle ==
    /\ pc["cb"] = "idle"
    /\ inbox # <<>>
    /\ inbox' = Tail(inbox)
    /\ job' = [job EXCEPT !["cb"] = Head(inbox)]
    /\ Goto("cb", CASE Head(inbox).kind \in {"formed", "announce"}      -> "bySaddr"
                    [] Head(inbox).kind \in {"leave", "rejoin"}         -> "left"
                    [] Head(inbox).kind \in {"descriptor", "attribute"} -> "identify")
    /\ Begin("cb")
    /\ UNCHANGED <<zcb, my, ext, asked, addr, pairs, changes>>

\* The copy of row i that zcbAddNode stores.
Joined(i, m, s, ty) ==
    [id |-> i, row |-> [status |-> "JOINED", mac |-> m, saddr |-> s, type |-> ty]]

\* zcbAddNode: a row with the short address gets the mac, ...
AddBySaddr(t) ==
    /\ pc[t] = "bySaddr"
    /\ LET found == WithSaddr(job[t].s)
       IN  IF found = {} THEN Goto(t, "byMac") /\ UNCHANGED my
           ELSE /\ LET i == Min(found) IN Keep(t, Joined(i, job[t].d, zcb[i].saddr, zcb[i].type))
                /\ Goto(t, "set")
    /\ UNCHANGED <<zcb, job, ext, network, history>>

\* Faulty variant: the address is not stored.
AddByMacKeepsSaddr(t) ==
    /\ pc[t] = "byMac"
    /\ LET found == WithMac(job[t].d)
       IN  IF found = {} THEN Goto(t, "new") /\ UNCHANGED my
           ELSE /\ LET i == Min(found) IN Keep(t, Joined(i, zcb[i].mac, zcb[i].saddr, zcb[i].type))
                /\ Goto(t, "set")
    /\ UNCHANGED <<zcb, job, ext, network, history>>

\* Faulty variant: nobody looks for the mac.
AddByMacSkipped(t) ==
    /\ pc[t] = "byMac"
    /\ Goto(t, "new")
    /\ UNCHANGED <<zcb, job, my, ext, network, history>>

\* ... or else a row with the mac gets the address, ...
AddByMac(t) ==
    /\ pc[t] = "byMac"
    /\ LET found == WithMac(job[t].d)
       IN  IF found = {} THEN Goto(t, "new") /\ UNCHANGED my
           ELSE /\ LET i == Min(found) IN Keep(t, Joined(i, zcb[i].mac, job[t].s, zcb[i].type))
                /\ Goto(t, "set")
    /\ UNCHANGED <<zcb, job, ext, network, history>>

\* Faulty variant: the overwritten row is not cleared.
AddNewKeepsType(t) ==
    /\ pc[t] = "new"
    /\ \E i \in Slots :
         /\ zcb' = IF i = 0 THEN zcb ELSE [zcb EXCEPT ![i] = [Cleared("USED", job[t].d) EXCEPT !.type = zcb[i].type]]
         /\ IF i # 0 /\ ~InUse(i)
               THEN /\ Keep(t, Joined(i, job[t].d, job[t].s, Unknown))
                    /\ Goto(t, "set")
               ELSE Goto(t, AfterAdd(t)) /\ UNCHANGED my
    /\ Wrote(t)
    /\ UNCHANGED <<job, ext, network>>

\* Faulty variant: the id of the new row is one too large.
AddNewIdPastEnd(t) ==
    /\ pc[t] = "new"
    /\ \E i \in Slots :
         /\ zcb' = IF i = 0 THEN zcb ELSE [zcb EXCEPT ![i] = Cleared("USED", job[t].d)]
         /\ IF i # 0 /\ ~InUse(i)
               THEN /\ Keep(t, Joined(i + 1, job[t].d, job[t].s, Unknown))
                    /\ Goto(t, "set")
               ELSE Goto(t, AfterAdd(t)) /\ UNCHANGED my
    /\ Wrote(t)
    /\ UNCHANGED <<job, ext, network>>

\* ... or else there is a new row.  newDbGetNewZcb says no when it overwrote the
\* oldest, which then keeps address and type 0.
AddNew(t) ==
    /\ pc[t] = "new"
    /\ \E i \in Slots :
         /\ zcb' = IF i = 0 THEN zcb ELSE [zcb EXCEPT ![i] = Cleared("USED", job[t].d)]
         /\ IF i # 0 /\ ~InUse(i)
               THEN /\ Keep(t, Joined(i, job[t].d, job[t].s, Unknown))
                    /\ Goto(t, "set")
               ELSE Goto(t, AfterAdd(t)) /\ UNCHANGED my
    /\ Wrote(t)
    /\ UNCHANGED <<job, ext, network>>

AddSet(t) ==
    /\ pc[t] = "set"
    /\ SetZcb(my[t]) /\ Wrote(t)
    /\ Goto(t, AfterAdd(t))
    /\ UNCHANGED <<job, my, ext, network>>

\* The main thread asks for the descriptor of each node it added.
Request ==
    /\ pc["main"] = "request"
    /\ asked' = asked \cup {<<"descriptor", job["main"].s>>}
    /\ Done("main")
    /\ UNCHANGED <<zcb, ext, inbox, addr, pairs, changes, history>>

\* ZCB_HandleDeviceAnnounce asks when the row has no type; when there is no row it
\* looks at an uninitialised one.
CheckType ==
    /\ pc["cb"] = "check"
    /\ LET found == WithSaddr(job["cb"].s)
           ask   == IF found = {} THEN BOOLEAN ELSE {zcb[Min(found)].type = Unknown}
       IN  \E b \in ask :
             asked' = IF b THEN asked \cup {<<"descriptor", job["cb"].s>>} ELSE asked
    /\ Done("cb")
    /\ UNCHANGED <<zcb, ext, inbox, addr, pairs, changes, history>>

\* zcbNodeSetDeviceID for the coordinator.
SetDeviceID ==
    /\ pc["cb"] = "deviceId"
    /\ LET found == WithSaddr(0)
       IN  IF found = {} \/ zcb[Min(found)].type = Coordinator THEN Done("cb")
           ELSE /\ Keep("cb", [Copy(Min(found)) EXCEPT !.row.type = Coordinator])
                /\ Goto("cb", "store") /\ UNCHANGED job
    /\ UNCHANGED <<zcb, ext, network, history>>

\* zcbNodeLeft: a node that will rejoin keeps its row.
NodeLeft ==
    /\ pc["cb"] = "left"
    /\ LET found == WithMac(job["cb"].d)
       IN  IF found = {} THEN Done("cb")
           ELSE /\ Keep("cb", [Copy(Min(found)) EXCEPT
                               !.row.status = IF job["cb"].kind = "rejoin" THEN "LEFT" ELSE "FREE"])
                /\ Goto("cb", "store") /\ UNCHANGED job
    /\ UNCHANGED <<zcb, ext, network, history>>

\* The descriptor and attribute handlers first read the mac of the sender ...
Identify ==
    /\ pc["cb"] = "identify"
    /\ LET found == WithSaddr(job["cb"].s)
       IN  ext' = IF found = {} THEN NoMac ELSE zcb[Min(found)].mac
    /\ Goto("cb", "read")
    /\ UNCHANGED <<zcb, job, my, network, history>>

\* ... and then, in another critical section, its row.  The response names its sender.
ReadRow ==
    /\ pc["cb"] = "read"
    /\ LET found == WithSaddr(job["cb"].s)
       IN  IF found = {} THEN Done("cb") /\ ext' = NoMac
           ELSE /\ Keep("cb", IF job["cb"].kind = "descriptor"
                                 THEN [Copy(Min(found)) EXCEPT !.row.type = job["cb"].d]
                                 ELSE Copy(Min(found)))
                /\ Goto("cb", "store") /\ UNCHANGED <<job, ext>>
    /\ UNCHANGED <<zcb, network, history>>

\* announceDevice is called with ext and the type of the copy; the attribute handler
\* only calls it when the sender had a mac.
Announces ==
    \/ pc["cb"] = "again"
    \/ pc["cb"] = "store" /\ job["cb"].kind = "attribute" /\ ext # NoMac

\* newDbSetZcb of a handler, which a failed attribute response skips.  The descriptor
\* handler asks for the attributes of the clusters it finds, and stores its row again
\* before it announces the device.
Store ==
    /\ pc["cb"] = "store"
    /\ \/ SetZcb(my["cb"]) /\ Wrote("cb")
       \/ job["cb"].kind = "attribute" /\ UNCHANGED <<zcb, history>>
    /\ IF job["cb"].kind = "descriptor"
          THEN /\ asked' = asked \cup {<<"attribute", job["cb"].s>>}
               /\ Goto("cb", "again")
               /\ UNCHANGED <<job, my, ext>>
          ELSE /\ ext' = NoMac /\ Done("cb")
               /\ UNCHANGED asked
    /\ UNCHANGED <<inbox, addr, pairs, changes>>

StoreAgain ==
    /\ pc["cb"] = "again"
    /\ SetZcb(my["cb"]) /\ Wrote("cb")
    /\ ext' = NoMac /\ Done("cb")
    /\ UNCHANGED network

-----------------------------------------------------------------------------
(* The network (external) and the other process                            *)

Change == changes < MaxChanges /\ changes' = changes + 1
Tell(m) == Len(inbox) < InboxMax /\ inbox' = Append(inbox, m)
Had(d)  == {p[1] : p \in {q \in pairs : q[2] = d}}

\* A device joins, or rejoins with another address, and announces itself.
Join(d, s) ==
    /\ \A e \in Devices : addr[e] # s
    /\ "reuse" \in Faults \/ \A e \in Devices \ {d} : s \notin Had(e)
    /\ Change /\ Tell(Msg("announce", s, d))
    /\ addr' = [addr EXCEPT ![d] = s]
    /\ pairs' = pairs \cup {<<s, d>>}
    /\ UNCHANGED <<zcb, threads, asked, history>>

Leave(d, kind) ==
    /\ addr[d] # Gone
    /\ Change /\ Tell(Msg(kind, 0, d))
    /\ addr' = [addr EXCEPT ![d] = Gone]
    /\ UNCHANGED <<zcb, threads, asked, pairs, history>>

\* A request reaches the device that has the address now, if any.
Answer(q) ==
    /\ q \in asked
    /\ asked' = asked \ {q}
    /\ LET at == {d \in Devices : addr[d] = q[2]}
       IN  IF at = {} THEN UNCHANGED inbox
                      ELSE Tell(Msg(q[1], q[2], CHOOSE d \in at : TRUE))
    /\ UNCHANGED <<zcb, threads, addr, pairs, changes, history>>

EmptyZcb ==
    /\ "reset" \in Faults
    /\ Change
    /\ zcb' = [i \in Rows |-> FreeRow]
    /\ stale' = {t \in Threads : pc[t] # "idle"} /\ UNCHANGED raced
    /\ UNCHANGED <<threads, inbox, asked, addr, pairs>>

AddNode(t) == AddBySaddr(t) \/ AddByMac(t) \/ AddNew(t) \/ AddSet(t)
Main       == AddNode("main") \/ Known \/ Request
Callback   == \/ AddNode("cb") \/ Handle \/ CheckType \/ SetDeviceID \/ NodeLeft
              \/ Identify \/ ReadRow \/ Store \/ StoreAgain

Next == \/ Main \/ Callback \/ EmptyZcb
        \/ \E d \in Devices : \/ Poll(d)
                              \/ \E s \in Addrs : Join(d, s)
                              \/ \E kind \in {"leave", "rejoin"} : Leave(d, kind)
        \/ \E q \in asked : Answer(q)

Spec == Init /\ [][Next]_vars

-----------------------------------------------------------------------------
(* Properties                                                              *)

Jobs == [kind : {"none", "poll", "formed", "announce", "leave", "rejoin", "descriptor",
                 "attribute"}, s : Addrs \cup {0}, d : Macs \cup {NoMac}]

\* Every variable has its type; above all a copy of a row only goes back to a row.
TypeOK ==
    /\ zcb \in [Rows -> Row]
    /\ pc \in [Threads -> {"idle", "known", "bySaddr", "byMac", "new", "set", "request",
                           "check", "deviceId", "left", "identify", "read", "store",
                           "again"}]
    /\ job \in [Threads -> Jobs]
    /\ my \in [Threads -> [id : Rows \cup {0}, row : Row]]
    /\ ext \in Macs \cup {NoMac}
    /\ inbox \in Seq(Jobs) /\ asked \subseteq {"descriptor", "attribute"} \X Addrs
    /\ addr \in [Devices -> Addrs \cup {Gone}]

\* The table never makes up an address: a joined row pairs a mac with a short address
\* that device really had, although rows are added in two critical sections, looked up
\* and written back by two threads, overwritten when the table is full and emptied by
\* another process at any moment.
JoinedPairWasTrue ==
    \A i \in Rows : zcb[i].status = "JOINED" => <<zcb[i].saddr, zcb[i].mac>> \in pairs

\* A joined row has the type its own device described, or none: no stale copy and no
\* overwritten row leaves the type of one device with the mac of another, as long as
\* the coordinator gives no address to a second device.
TypeIsOwn ==
    \A i \in Rows : zcb[i].status = "JOINED" /\ zcb[i].type \in Macs => zcb[i].type = zcb[i].mac

\* announceDevice never gives the type of one device to another, although the
\* handlers read the mac and the row of the sender one after the other, while the main
\* thread and the other process change the table in between.
AnnouncedIsOwn ==
    Announces /\ {ext, my["cb"].row.type} \subseteq Macs => ext = my["cb"].row.type

\* The mac is a key of the table, through rejoins with new addresses, full tables and
\* resets: until one thread writes a row after another actor has written the table
\* under its job.  (Then two threads that both find a new device missing add it twice.)
MacIsKey ==
    raced \/ \A i, j \in Rows : InUse(i) /\ InUse(j) /\ zcb[i].mac = zcb[j].mac => i = j
=============================================================================
