--------------------------- MODULE ZcbNodesProofs ---------------------------
(* What ZcbNodes promises for every number of devices, addresses and rows, *)
(* with resets: first with reused addresses, then without them.            *)
EXTENDS ZcbNodes, WellFoundedInduction, TLAPS

\* zcbAddNode is working on behalf of one of these.
Adding == {"poll", "announce", "formed"}

\* What a message says about a pair was true once.
MsgTrue(m) ==
    /\ m.kind \in Adding => <<m.s, m.d>> \in pairs
    /\ m.kind \in {"poll", "announce", "descriptor", "attribute"} => m.s \in Addrs /\ m.d \in Devices

RowTrue(r) == r.status = "JOINED" => <<r.saddr, r.mac>> \in pairs

\* Where a thread stands tells what it works on.
Fits(place, kind) ==
    /\ place \in {"bySaddr", "byMac", "new", "set"} => kind \in Adding
    /\ place \in {"known", "request"} => kind = "poll"
    /\ place = "check" => kind = "announce"
    /\ place \in {"identify", "read"} => kind \in {"descriptor", "attribute"}

ThreadsTrue  == \A t \in Threads : Fits(pc[t], job[t].kind) /\ MsgTrue(job[t]) /\ RowTrue(my[t].row)
InboxTrue    == \A i \in 1 .. Len(inbox) : MsgTrue(inbox[i]) /\ inbox[i].kind \notin {"none", "poll"}
AddressTrue  == \A d \in Devices : addr[d] # Gone => <<addr[d], d>> \in pairs

\* The inductive invariant: the pairs in the table, in the copies of the threads, in
\* their jobs and in the messages were all true once.
IInv == TypeOK /\ JoinedPairWasTrue /\ ThreadsTrue /\ InboxTrue /\ AddressTrue

-----------------------------------------------------------------------------
(* Lemmas about looking up rows                                            *)

\* A set of numbers that is not empty has a least element, as the first free row and
\* the first row with an address are found.
LEMMA Least ==
  ASSUME NEW S \in SUBSET Nat, S # {}
  PROVE  Min(S) \in S
<1> DEFINE Less == OpToRel(<, Nat)
<1>1. IsWellFoundedOn(Less, Nat)
  BY NatLessThanWellFounded
<1>2. \A x, y \in Nat : y < x => <<y, x>> \in Less
  BY DEF OpToRel
<1> HIDE DEF Less
<1>3. PICK x \in S : \A y \in S : ~ (<<y, x>> \in Less)
  BY <1>1, WFMin
<1>4. ASSUME NEW y \in S PROVE x <= y
  <2>1. x \in Nat /\ y \in Nat
    OBVIOUS
  <2>2. ~ (y < x)
    BY <1>2, <1>3, <2>1
  <2> QED
    BY <2>1, <2>2
<1> QED
  BY <1>4 DEF Min

\* newDbGetZcbSaddr finds a used row with the address, newDbGetZcb one with the mac,
\* newDbGetNewZcb a row of the table or none.
LEMMA Lookups ==
         /\ \A s : WithSaddr(s) # {} =>
                     /\ Min(WithSaddr(s)) \in Rows /\ zcb[Min(WithSaddr(s))].saddr = s
                     /\ InUse(Min(WithSaddr(s)))
         /\ \A m : WithMac(m) # {} =>
                     /\ Min(WithMac(m)) \in Rows /\ zcb[Min(WithMac(m))].mac = m
                     /\ InUse(Min(WithMac(m)))
         /\ Slots \subseteq Rows \cup {0}
<1>1. Rows \subseteq Nat
  BY NodesAssumption DEF Rows
<1>2. ASSUME NEW s, WithSaddr(s) # {}
      PROVE  /\ Min(WithSaddr(s)) \in Rows /\ zcb[Min(WithSaddr(s))].saddr = s
             /\ InUse(Min(WithSaddr(s)))
  <2>1. Min(WithSaddr(s)) \in WithSaddr(s)
    BY <1>1, <1>2, Least DEF WithSaddr
  <2> QED
    BY <2>1 DEF WithSaddr
<1>3. ASSUME NEW m, WithMac(m) # {}
      PROVE  /\ Min(WithMac(m)) \in Rows /\ zcb[Min(WithMac(m))].mac = m
             /\ InUse(Min(WithMac(m)))
  <2>1. Min(WithMac(m)) \in WithMac(m)
    BY <1>1, <1>3, Least DEF WithMac
  <2> QED
    BY <2>1 DEF WithMac
<1>4. Slots \subseteq Rows \cup {0}
  <2> DEFINE free == {i \in Rows : ~InUse(i)}
  <2>1. free # {} => Min(free) \in free
    BY <1>1, Least
  <2> QED
    BY <2>1 DEF Slots
<1> QED
  BY <1>2, <1>3, <1>4

-----------------------------------------------------------------------------
(* Every step keeps the invariant                                          *)

LEMMA InitInv == Init => IInv
<1> SUFFICES ASSUME Init PROVE IInv
  OBVIOUS
<1> USE DEF Init
<1>1. TypeOK
  BY NodesAssumption DEF TypeOK, Row, Jobs, Msg, NoJob, NoCopy, FreeRow, Cleared, Threads, Macs, Zero
<1>2. JoinedPairWasTrue /\ ThreadsTrue /\ AddressTrue
  BY DEF JoinedPairWasTrue, ThreadsTrue, AddressTrue, Fits, MsgTrue, RowTrue, Adding, NoJob, NoCopy,
         FreeRow, Cleared, Msg
<1>3. InboxTrue
  BY DEF InboxTrue, MsgTrue, Adding, Msg
<1> QED
  BY <1>1, <1>2, <1>3 DEF IInv

Places == {"idle", "known", "bySaddr", "byMac", "new", "set", "request", "check", "deviceId",
           "left", "identify", "read", "store", "again"}
Copies == [id : Rows \cup {0}, row : Row]

\* A step of a thread: where it goes, the job and the copy it then has and the rows it
\* writes decide whether the invariant holds.
LEMMA ThreadStep ==
  ASSUME IInv, NEW t \in Threads,
         NEW place \in Places, NEW j \in Jobs, NEW c \in Copies,
         Goto(t, place), job' = [job EXCEPT ![t] = j], Keep(t, c),
         Fits(place, j.kind), MsgTrue(j), RowTrue(c.row),
         zcb' \in [Rows -> Row], \A i \in Rows : RowTrue(zcb'[i]),
         ext' \in Macs \cup {NoMac}, asked' \subseteq {"descriptor", "attribute"} \X Addrs,
         UNCHANGED <<inbox, addr, pairs>>
  PROVE  IInv'
<1> USE DEF IInv
<1>1. TypeOK'
  BY DEF TypeOK, Goto, Keep, Places, Copies
<1>2. JoinedPairWasTrue'
  BY DEF JoinedPairWasTrue, RowTrue
<1>3. ThreadsTrue'
  <2> SUFFICES ASSUME NEW u \in Threads
               PROVE  (Fits(pc[u], job[u].kind) /\ MsgTrue(job[u]) /\ RowTrue(my[u].row))'
    BY DEF ThreadsTrue
  <2>1. CASE u = t
    <3>1. pc'[u] = place /\ job'[u] = j /\ my'[u] = c
      BY <2>1 DEF TypeOK, Goto, Keep
    <3> QED
      BY <3>1 DEF MsgTrue, RowTrue
  <2>2. CASE u # t
    <3>1. pc'[u] = pc[u] /\ job'[u] = job[u] /\ my'[u] = my[u]
      BY <2>2 DEF TypeOK, Goto, Keep
    <3> QED
      BY <3>1 DEF ThreadsTrue, MsgTrue, RowTrue
  <2> QED
    BY <2>1, <2>2
<1>4. InboxTrue' /\ AddressTrue'
  BY DEF InboxTrue, AddressTrue, MsgTrue
<1> QED
  BY <1>1, <1>2, <1>3, <1>4

\* A thread only goes on.
LEMMA GoOn ==
  ASSUME IInv, NEW t \in Threads, NEW place \in Places,
         Goto(t, place), Fits(place, job[t].kind),
         UNCHANGED <<zcb, job, my, ext, inbox, asked, addr, pairs>>
  PROVE  IInv'
<1>1. /\ job[t] \in Jobs /\ my[t] \in Copies
      /\ job' = [job EXCEPT ![t] = job[t]] /\ Keep(t, my[t])
  BY DEF IInv, TypeOK, Copies, Keep
<1>2. MsgTrue(job[t]) /\ RowTrue(my[t].row)
  BY DEF IInv, ThreadsTrue
<1>3. \A i \in Rows : RowTrue(zcb'[i])
  BY DEF IInv, JoinedPairWasTrue, RowTrue
<1> QED
  BY <1>1, <1>2, <1>3, ThreadStep DEF IInv, TypeOK

\* A thread takes a copy of a row, changed or not, and goes on.
LEMMA TakeCopy ==
  ASSUME IInv, NEW t \in Threads, NEW place \in Places, NEW c \in Copies, RowTrue(c.row),
         Goto(t, place), Keep(t, c), Fits(place, job[t].kind),
         UNCHANGED <<zcb, job, ext, inbox, asked, addr, pairs>>
  PROVE  IInv'
<1>1. job[t] \in Jobs /\ job' = [job EXCEPT ![t] = job[t]]
  BY DEF IInv, TypeOK
<1>2. MsgTrue(job[t])
  BY DEF IInv, ThreadsTrue
<1>3. \A i \in Rows : RowTrue(zcb'[i])
  BY DEF IInv, JoinedPairWasTrue, RowTrue
<1> QED
  BY <1>1, <1>2, <1>3, ThreadStep DEF IInv, TypeOK

\* A thread has done its job.
LEMMA Finish ==
  ASSUME IInv, NEW t \in Threads, Done(t),
         zcb' \in [Rows -> Row], \A i \in Rows : RowTrue(zcb'[i]),
         ext' \in Macs \cup {NoMac}, asked' \subseteq {"descriptor", "attribute"} \X Addrs,
         UNCHANGED <<inbox, addr, pairs>>
  PROVE  IInv'
<1>1. NoJob \in Jobs /\ NoCopy \in Copies
  BY DEF NoJob, NoCopy, Jobs, Copies, Msg, FreeRow, Cleared, Row
<1>2. Fits("idle", NoJob.kind) /\ MsgTrue(NoJob) /\ RowTrue(NoCopy.row)
  BY DEF Fits, MsgTrue, RowTrue, NoJob, NoCopy, Msg, FreeRow, Cleared, Adding
<1>3. "idle" \in Places
  BY DEF Places
<1> QED
  BY <1>1, <1>2, <1>3, ThreadStep DEF Done

\* Nothing is written.
LEMMA NoWrite ==
  ASSUME IInv, UNCHANGED <<zcb, pairs>>
  PROVE  zcb' \in [Rows -> Row] /\ \A i \in Rows : RowTrue(zcb'[i])
BY DEF IInv, TypeOK, JoinedPairWasTrue, RowTrue

\* newDbSetZcb writes the copy of the thread.
LEMMA SetKeeps ==
  ASSUME IInv, NEW t \in Threads, SetZcb(my[t]), UNCHANGED pairs
  PROVE  zcb' \in [Rows -> Row] /\ \A i \in Rows : RowTrue(zcb'[i])
<1>1. my[t].row \in Row /\ RowTrue(my[t].row) /\ FreeRow \in Row /\ RowTrue(FreeRow)
  BY DEF IInv, TypeOK, ThreadsTrue, FreeRow, Cleared, Row, RowTrue
<1>2. PICK r \in Row : RowTrue(r) /\ zcb' = [zcb EXCEPT ![my[t].id] = r]
  BY <1>1 DEF SetZcb
<1> QED
  BY <1>2 DEF IInv, TypeOK, JoinedPairWasTrue, RowTrue

\* A copy of a row of the table.
LEMMA CopyOf ==
  ASSUME IInv, NEW i \in Rows
  PROVE  /\ Copy(i) = [id |-> i, row |-> zcb[i]]
         /\ zcb[i] = [status |-> zcb[i].status, mac |-> zcb[i].mac, saddr |-> zcb[i].saddr,
                      type |-> zcb[i].type]
         /\ zcb[i] \in Row
         /\ Copy(i) \in Copies /\ RowTrue(Copy(i).row)
BY DEF IInv, TypeOK, JoinedPairWasTrue, RowTrue, Copy, Copies, Row

\* zcbAddNode, in either thread.
LEMMA AddNodeInv ==
  ASSUME IInv, NEW t \in Threads, AddNode(t)
  PROVE  IInv'
<1>1. job[t].d \in Macs \cup {NoMac} /\ job[t].s \in Addrs \cup {0}
  BY DEF IInv, TypeOK, Jobs
<1>2. pc[t] \in {"bySaddr", "byMac", "new", "set"} =>
        job[t].kind \in Adding /\ <<job[t].s, job[t].d>> \in pairs
  BY DEF IInv, ThreadsTrue, Fits, MsgTrue
<1>3. {"byMac", "new", "set"} \subseteq Places
  BY DEF Places
<1>4. CASE AddBySaddr(t)
  <2> DEFINE i == Min(WithSaddr(job[t].s))
             c == Joined(i, job[t].d, zcb[i].saddr, zcb[i].type)
  <2>1. CASE WithSaddr(job[t].s) = {}
    BY <1>2, <1>3, <1>4, <2>1, GoOn DEF AddBySaddr, network, Fits
  <2>2. CASE WithSaddr(job[t].s) # {}
    <3>1. i \in Rows /\ zcb[i].saddr = job[t].s
      BY <2>2, Lookups
    <3>2. c \in Copies /\ RowTrue(c.row)
      BY <1>1, <1>2, <1>4, <3>1, CopyOf DEF Joined, Copies, Row, RowTrue, AddBySaddr
    <3>3. Keep(t, c) /\ Goto(t, "set") /\ Fits("set", job[t].kind)
      BY <1>2, <1>4, <2>2 DEF AddBySaddr, Fits
    <3> HIDE DEF c
    <3> QED
      BY <1>3, <1>4, <3>2, <3>3, TakeCopy DEF AddBySaddr, network
  <2> QED
    BY <2>1, <2>2
<1>5. CASE AddByMac(t)
  <2> DEFINE i == Min(WithMac(job[t].d))
             c == Joined(i, zcb[i].mac, job[t].s, zcb[i].type)
  <2>1. CASE WithMac(job[t].d) = {}
    BY <1>2, <1>3, <1>5, <2>1, GoOn DEF AddByMac, network, Fits
  <2>2. CASE WithMac(job[t].d) # {}
    <3>1. i \in Rows /\ zcb[i].mac = job[t].d
      BY <2>2, Lookups
    <3>2. c \in Copies /\ RowTrue(c.row)
      BY <1>1, <1>2, <1>5, <3>1, CopyOf DEF Joined, Copies, Row, RowTrue, AddByMac
    <3>3. Keep(t, c) /\ Goto(t, "set") /\ Fits("set", job[t].kind)
      BY <1>2, <1>5, <2>2 DEF AddByMac, Fits
    <3> HIDE DEF c
    <3> QED
      BY <1>3, <1>5, <3>2, <3>3, TakeCopy DEF AddByMac, network
  <2> QED
    BY <2>1, <2>2
<1>6. job[t].kind \in Adding => AfterAdd(t) \in Places /\ Fits(AfterAdd(t), job[t].kind)
  BY DEF Adding, AfterAdd, Places, Fits
<1>7. CASE AddNew(t)
  <2>1. PICK i \in Slots :
          /\ zcb' = IF i = 0 THEN zcb ELSE [zcb EXCEPT ![i] = Cleared("USED", job[t].d)]
          /\ IF i # 0 /\ ~InUse(i)
                THEN Keep(t, Joined(i, job[t].d, job[t].s, Unknown)) /\ Goto(t, "set")
                ELSE Goto(t, AfterAdd(t)) /\ UNCHANGED my
    BY <1>7 DEF AddNew
  <2>2. i \in Rows \cup {0}
    BY Lookups
  <2>3. UNCHANGED <<job, ext, inbox, asked, addr, pairs>> /\ job[t].kind \in Adding
        /\ <<job[t].s, job[t].d>> \in pairs
    BY <1>2, <1>7 DEF AddNew, network
  <2>4. zcb' \in [Rows -> Row] /\ \A k \in Rows : RowTrue(zcb'[k])
    <3>1. Cleared("USED", job[t].d) \in Row /\ RowTrue(Cleared("USED", job[t].d))
      BY <1>1 DEF Cleared, Row, RowTrue
    <3> QED
      BY <2>1, <2>3, <3>1 DEF IInv, TypeOK, JoinedPairWasTrue, RowTrue
  <2>5. job[t] \in Jobs /\ job' = [job EXCEPT ![t] = job[t]] /\ MsgTrue(job[t])
        /\ ext \in Macs \cup {NoMac} /\ asked \subseteq {"descriptor", "attribute"} \X Addrs
    BY <2>3 DEF IInv, TypeOK, ThreadsTrue
  <2>6. PICK place \in Places, c \in Copies :
          Goto(t, place) /\ Keep(t, c) /\ Fits(place, job[t].kind) /\ RowTrue(c.row)
    <3>1. CASE i # 0 /\ ~InUse(i)
      <4> DEFINE c == Joined(i, job[t].d, job[t].s, Unknown)
      <4>1. c \in Copies /\ RowTrue(c.row)
        BY <1>1, <2>2, <2>3 DEF Joined, Copies, Row, RowTrue
      <4> HIDE DEF c
      <4>2. Goto(t, "set") /\ Keep(t, c) /\ Fits("set", job[t].kind)
        BY <2>1, <2>3, <3>1 DEF Fits, c
      <4> QED
        BY <1>3, <4>1, <4>2
    <3>2. CASE ~(i # 0 /\ ~InUse(i))
      <4>1. my[t] \in Copies /\ RowTrue(my[t].row) /\ my = [my EXCEPT ![t] = my[t]]
        BY DEF IInv, TypeOK, ThreadsTrue, Copies
      <4>2. Goto(t, AfterAdd(t)) /\ Keep(t, my[t])
        BY <2>1, <3>2, <4>1 DEF Keep
      <4> QED
        BY <1>6, <2>3, <4>1, <4>2
    <3> QED
      BY <3>1, <3>2
  <2> QED
    BY <2>3, <2>4, <2>5, <2>6, ThreadStep
<1>8. CASE AddSet(t)
  <2>1. UNCHANGED <<job, my, ext, inbox, asked, addr, pairs>> /\ job[t].kind \in Adding
        /\ SetZcb(my[t]) /\ Goto(t, AfterAdd(t))
    BY <1>2, <1>8 DEF AddSet, network
  <2>2. /\ job[t] \in Jobs /\ job' = [job EXCEPT ![t] = job[t]] /\ MsgTrue(job[t])
        /\ my[t] \in Copies /\ Keep(t, my[t]) /\ RowTrue(my[t].row)
        /\ ext \in Macs \cup {NoMac} /\ asked \subseteq {"descriptor", "attribute"} \X Addrs
    BY <2>1 DEF IInv, TypeOK, ThreadsTrue, Copies, Keep
  <2>3. zcb' \in [Rows -> Row] /\ \A k \in Rows : RowTrue(zcb'[k])
    BY <2>1, SetKeeps
  <2> QED
    BY <1>6, <2>1, <2>2, <2>3, ThreadStep
<1> QED
  BY <1>4, <1>5, <1>7, <1>8 DEF AddNode

\* The main thread: the neighbour table.
LEMMA PollInv ==
  ASSUME IInv, NEW d \in Devices, Poll(d)
  PROVE  IInv'
<1> DEFINE j == Msg("poll", addr[d], d)
<1>1. /\ Goto("main", "known") /\ job' = [job EXCEPT !["main"] = j] /\ addr[d] # Gone
      /\ UNCHANGED <<zcb, my, ext, inbox, asked, addr, pairs>>
  BY DEF Poll, network
<1>2. addr[d] \in Addrs /\ <<addr[d], d>> \in pairs
  BY <1>1 DEF IInv, TypeOK, AddressTrue
<1>3. j \in Jobs /\ MsgTrue(j) /\ Fits("known", j.kind)
  BY <1>2 DEF Msg, Jobs, MsgTrue, Fits, Adding, Macs
<1>4. /\ my["main"] \in Copies /\ Keep("main", my["main"]) /\ RowTrue(my["main"].row)
      /\ ext \in Macs \cup {NoMac} /\ asked \subseteq {"descriptor", "attribute"} \X Addrs
  BY <1>1 DEF IInv, TypeOK, ThreadsTrue, Copies, Keep, Threads
<1> HIDE DEF j
<1> QED
  BY <1>1, <1>3, <1>4, NoWrite, ThreadStep DEF Threads, Places

LEMMA MainInv ==
  ASSUME IInv, Main
  PROVE  IInv'
<1>1. "main" \in Threads /\ {"bySaddr", "idle"} \subseteq Places
  BY DEF Threads, Places
<1>2. job["main"] \in Jobs /\ Fits(pc["main"], job["main"].kind) /\ MsgTrue(job["main"])
      /\ ext \in Macs \cup {NoMac} /\ asked \subseteq {"descriptor", "attribute"} \X Addrs
  BY <1>1 DEF IInv, TypeOK, ThreadsTrue
<1>3. CASE AddNode("main")
  BY <1>1, <1>3, AddNodeInv
<1>4. CASE Known
  <2>1. UNCHANGED <<zcb, ext, inbox, asked, addr, pairs>> /\ job["main"].kind = "poll"
    BY <1>2, <1>4 DEF Known, network, Fits
  <2>2. CASE WithSaddr(job["main"].s) # {}
    BY <1>1, <1>2, <1>4, <2>1, <2>2, NoWrite, Finish DEF Known
  <2>3. CASE WithSaddr(job["main"].s) = {}
    <3>1. Fits("bySaddr", job["main"].kind)
      BY <2>1 DEF Fits, Adding
    <3> QED
      BY <1>1, <1>4, <2>1, <2>3, <3>1, GoOn DEF Known
  <2> QED
    BY <2>2, <2>3
<1>5. CASE Request
  <2>1. UNCHANGED <<zcb, ext, inbox, addr, pairs>> /\ job["main"].s \in Addrs
    BY <1>2, <1>5 DEF Request, Fits, MsgTrue
  <2>2. asked' \subseteq {"descriptor", "attribute"} \X Addrs
    BY <1>2, <1>5, <2>1 DEF Request
  <2> QED
    BY <1>1, <1>2, <1>5, <2>1, <2>2, NoWrite, Finish DEF Request
<1> QED
  BY <1>3, <1>4, <1>5 DEF Main

\* The callback thread takes the next message.
LEMMA HandleInv ==
  ASSUME IInv, Handle
  PROVE  IInv'
<1> DEFINE m == Head(inbox)
           place == CASE m.kind \in {"formed", "announce"}      -> "bySaddr"
                      [] m.kind \in {"leave", "rejoin"}         -> "left"
                      [] m.kind \in {"descriptor", "attribute"} -> "identify"
<1>1. /\ inbox # <<>> /\ inbox' = Tail(inbox)
      /\ job' = [job EXCEPT !["cb"] = m] /\ Goto("cb", place)
      /\ UNCHANGED <<zcb, my, ext, asked, addr, pairs>>
  BY DEF Handle
<1>2. inbox \in Seq(Jobs)
  BY DEF IInv, TypeOK
<1>3. m \in Jobs /\ MsgTrue(m) /\ m.kind \notin {"none", "poll"}
  <2>1. 1 \in 1 .. Len(inbox) /\ m = inbox[1] /\ inbox[1] \in Jobs
    BY <1>1, <1>2
  <2> HIDE DEF m
  <2> QED
    BY <2>1 DEF IInv, InboxTrue
<1> HIDE DEF m
<1>4. place \in Places /\ Fits(place, m.kind)
  BY <1>3 DEF Jobs, Places, Fits, Adding
<1> HIDE DEF place
<1>5. TypeOK'
  <2>1. inbox' \in Seq(Jobs)
    BY <1>1, <1>2
  <2> QED
    BY <1>1, <1>3, <1>4, <2>1 DEF IInv, TypeOK, Goto, Places
<1>6. InboxTrue'
  <2>1. \A i \in 1 .. Len(inbox') : i + 1 \in 1 .. Len(inbox) /\ inbox'[i] = inbox[i + 1]
    BY <1>1, <1>2
  <2> QED
    BY <1>1, <2>1 DEF IInv, InboxTrue, MsgTrue
<1>7. ThreadsTrue'
  <2> SUFFICES ASSUME NEW u \in Threads
               PROVE  (Fits(pc[u], job[u].kind) /\ MsgTrue(job[u]) /\ RowTrue(my[u].row))'
    BY DEF ThreadsTrue
  <2>1. Fits(pc[u], job[u].kind) /\ MsgTrue(job[u]) /\ RowTrue(my[u].row)
    BY DEF IInv, ThreadsTrue
  <2>2. UNCHANGED <<my, pairs>>
    BY <1>1
  <2>3. CASE u = "cb"
    <3>1. pc'[u] = place /\ job'[u] = m /\ my'[u] = my[u]
      BY <1>1, <2>3 DEF IInv, TypeOK, Goto
    <3>2. Fits(place, m.kind) /\ (MsgTrue(job[u]))'
      BY <1>3, <1>4, <2>2, <3>1 DEF MsgTrue
    <3>3. (RowTrue(my[u].row))'
      BY <2>1, <2>2, <3>1 DEF RowTrue
    <3> QED
      BY <3>1, <3>2, <3>3
  <2>4. CASE u # "cb"
    <3>1. pc'[u] = pc[u] /\ job'[u] = job[u] /\ my'[u] = my[u]
      BY <1>1, <2>4 DEF IInv, TypeOK, Goto
    <3>2. (MsgTrue(job[u]))'
      BY <2>1, <2>2, <3>1 DEF MsgTrue
    <3>3. (RowTrue(my[u].row))'
      BY <2>1, <2>2, <3>1 DEF RowTrue
    <3> QED
      BY <2>1, <3>1, <3>2, <3>3
  <2> QED
    BY <2>3, <2>4
<1>8. JoinedPairWasTrue' /\ AddressTrue'
  BY <1>1 DEF IInv, JoinedPairWasTrue, AddressTrue
<1> QED
  BY <1>5, <1>6, <1>7, <1>8 DEF IInv

\* The callback thread: its handlers.
LEMMA CallbackInv ==
  ASSUME IInv, Callback
  PROVE  IInv'
<1>1. "cb" \in Threads /\ {"deviceId", "store", "read", "again", "idle"} \subseteq Places
  BY DEF Threads, Places
<1>2. /\ job["cb"] \in Jobs /\ Fits(pc["cb"], job["cb"].kind) /\ MsgTrue(job["cb"])
      /\ my["cb"] \in Copies /\ RowTrue(my["cb"].row)
      /\ ext \in Macs \cup {NoMac} /\ asked \subseteq {"descriptor", "attribute"} \X Addrs
  BY <1>1 DEF IInv, TypeOK, ThreadsTrue, Copies
<1>3. \A kind : Fits("store", kind) /\ Fits("again", kind)
  BY DEF Fits
<1>4. CASE AddNode("cb")
  BY <1>1, <1>4, AddNodeInv
<1>5. CASE Handle
  BY <1>5, HandleInv
<1>6. CASE CheckType
  <2>1. job["cb"].s \in Addrs
    BY <1>2, <1>6 DEF CheckType, Fits, MsgTrue
  <2>2. asked' \subseteq {"descriptor", "attribute"} \X Addrs
    BY <1>2, <1>6, <2>1 DEF CheckType
  <2> QED
    BY <1>1, <1>2, <1>6, <2>2, NoWrite, Finish DEF CheckType
<1>7. CASE SetDeviceID
  <2> DEFINE i == Min(WithSaddr(0))
             c == [Copy(i) EXCEPT !.row.type = Coordinator]
  <2>1. UNCHANGED <<zcb, ext, inbox, asked, addr, pairs>>
    BY <1>7 DEF SetDeviceID, network
  <2>2. CASE Done("cb")
    BY <1>1, <1>2, <2>1, <2>2, NoWrite, Finish
  <2>3. CASE WithSaddr(0) # {} /\ Keep("cb", c) /\ Goto("cb", "store") /\ UNCHANGED job
    <3>1. i \in Rows
      BY <2>3, Lookups
    <3>2. c \in Copies /\ RowTrue(c.row)
      <4> HIDE DEF i
      <4> QED
        BY <3>1, CopyOf DEF Copies, Row, RowTrue, Macs
    <3> HIDE DEF c
    <3> QED
      BY <1>1, <1>3, <2>1, <2>3, <3>2, TakeCopy
  <2> QED
    BY <1>7, <2>2, <2>3 DEF SetDeviceID
<1>8. CASE NodeLeft
  <2> DEFINE i == Min(WithMac(job["cb"].d))
             st == IF job["cb"].kind = "rejoin" THEN "LEFT" ELSE "FREE"
             c == [Copy(i) EXCEPT !.row.status = st]
  <2>1. UNCHANGED <<zcb, ext, inbox, asked, addr, pairs>>
    BY <1>8 DEF NodeLeft, network
  <2>2. CASE Done("cb")
    BY <1>1, <1>2, <2>1, <2>2, NoWrite, Finish
  <2>3. CASE WithMac(job["cb"].d) # {} /\ Keep("cb", c) /\ Goto("cb", "store") /\ UNCHANGED job
    <3>1. i \in Rows
      BY <2>3, Lookups
    <3>2. st \in {"LEFT", "FREE"}
      OBVIOUS
    <3>3. c \in Copies /\ RowTrue(c.row)
      <4> HIDE DEF i, st
      <4> QED
        BY <3>1, <3>2, CopyOf DEF Copies, Row, RowTrue
    <3> HIDE DEF c
    <3> QED
      BY <1>1, <1>3, <2>1, <2>3, <3>3, TakeCopy
  <2> QED
    BY <1>8, <2>2, <2>3 DEF NodeLeft
<1>9. CASE Identify
  <2>1. UNCHANGED <<zcb, job, my, inbox, asked, addr, pairs>> /\ Goto("cb", "read")
        /\ job["cb"].kind \in {"descriptor", "attribute"}
    BY <1>2, <1>9 DEF Identify, network, Fits
  <2>2. ext' \in Macs \cup {NoMac}
    <3> DEFINE i == Min(WithSaddr(job["cb"].s))
    <3>1. WithSaddr(job["cb"].s) # {} => zcb[i].mac \in Macs \cup {NoMac}
      BY Lookups, CopyOf DEF Row
    <3> QED
      BY <1>9, <3>1 DEF Identify
  <2>3. /\ Fits("read", job["cb"].kind) /\ Keep("cb", my["cb"])
        /\ job' = [job EXCEPT !["cb"] = job["cb"]]
    BY <2>1 DEF Fits, Adding, Keep, IInv, TypeOK
  <2> QED
    BY <1>1, <1>2, <2>1, <2>2, <2>3, NoWrite, ThreadStep
<1>10. CASE ReadRow
  <2> DEFINE i == Min(WithSaddr(job["cb"].s))
             d == [Copy(i) EXCEPT !.row.type = job["cb"].d]
             c == IF job["cb"].kind = "descriptor" THEN d ELSE Copy(i)
  <2>1. UNCHANGED <<zcb, inbox, asked, addr, pairs>>
    BY <1>10 DEF ReadRow, network
  <2>2. CASE Done("cb") /\ ext' = NoMac
    BY <1>1, <1>2, <2>1, <2>2, NoWrite, Finish
  <2>3. CASE WithSaddr(job["cb"].s) # {} /\ Keep("cb", c) /\ Goto("cb", "store") /\ UNCHANGED <<job, ext>>
    <3>1. i \in Rows
      BY <2>3, Lookups
    <3>2. job["cb"].kind = "descriptor" => d \in Copies /\ RowTrue(d.row)
      <4> HIDE DEF i
      <4>1. job["cb"].kind = "descriptor" => job["cb"].d \in Macs
        BY <1>2 DEF MsgTrue, Macs
      <4> QED
        BY <3>1, <4>1, CopyOf DEF Copies, Row, RowTrue
    <3>3. c \in Copies /\ RowTrue(c.row)
      <4> HIDE DEF i, d
      <4> QED
        BY <3>1, <3>2, CopyOf
    <3> HIDE DEF c
    <3> QED
      BY <1>1, <1>3, <2>1, <2>3, <3>3, TakeCopy
  <2> QED
    BY <1>10, <2>2, <2>3 DEF ReadRow
<1>11. CASE Store
  <2>1. UNCHANGED <<inbox, addr, pairs>> /\ (SetZcb(my["cb"]) \/ UNCHANGED zcb)
    BY <1>11 DEF Store
  <2>2. zcb' \in [Rows -> Row] /\ \A k \in Rows : RowTrue(zcb'[k])
    BY <1>1, <2>1, SetKeeps, NoWrite
  <2>3. CASE job["cb"].kind = "descriptor"
    <3>1. /\ asked' = asked \cup {<<"attribute", job["cb"].s>>} /\ Goto("cb", "again")
          /\ UNCHANGED <<job, my, ext>>
      BY <1>11, <2>3 DEF Store
    <3>2. job["cb"].s \in Addrs
      BY <1>2, <2>3 DEF MsgTrue
    <3>3. asked' \subseteq {"descriptor", "attribute"} \X Addrs
      BY <1>2, <3>1, <3>2
    <3>4. Keep("cb", my["cb"]) /\ job' = [job EXCEPT !["cb"] = job["cb"]]
      BY <3>1 DEF Keep, IInv, TypeOK
    <3> QED
      BY <1>1, <1>2, <1>3, <2>1, <2>2, <3>1, <3>3, <3>4, ThreadStep
  <2>4. CASE job["cb"].kind # "descriptor"
    BY <1>1, <1>2, <1>11, <2>1, <2>2, <2>4, Finish DEF Store
  <2> QED
    BY <2>3, <2>4
<1>12. CASE StoreAgain
  <2>1. UNCHANGED <<inbox, asked, addr, pairs>> /\ SetZcb(my["cb"]) /\ Done("cb") /\ ext' = NoMac
    BY <1>12 DEF StoreAgain, network
  <2> QED
    BY <1>1, <1>2, <2>1, SetKeeps, Finish
<1> QED
  BY <1>4, <1>5, <1>6, <1>7, <1>8, <1>9, <1>10, <1>11, <1>12 DEF Callback

\* The network and the other process.
LEMMA NetworkInv ==
  ASSUME IInv, UNCHANGED <<pc, job, my, ext>>, pairs \subseteq pairs',
         zcb' \in [Rows -> Row], \A i \in Rows : RowTrue(zcb'[i]),
         inbox' \in Seq(Jobs), InboxTrue', asked' \subseteq asked,
         addr' \in [Devices -> Addrs \cup {Gone}], AddressTrue'
  PROVE  IInv'
<1>1. TypeOK'
  BY DEF IInv, TypeOK
<1>2. JoinedPairWasTrue'
  BY DEF JoinedPairWasTrue, RowTrue
<1>3. ThreadsTrue'
  BY DEF IInv, ThreadsTrue, MsgTrue, RowTrue
<1> QED
  BY <1>1, <1>2, <1>3 DEF IInv

\* A message whose content is true joins the others.
LEMMA TellTrue ==
  ASSUME IInv, NEW m \in Jobs, pairs \subseteq pairs', Tell(m),
         m.kind \notin {"none", "poll"}, MsgTrue(m)'
  PROVE  inbox' \in Seq(Jobs) /\ InboxTrue'
<1>1. inbox \in Seq(Jobs) /\ inbox' = Append(inbox, m)
  BY DEF IInv, TypeOK, Tell
<1>2. ASSUME NEW i \in 1 .. Len(inbox')
      PROVE  (MsgTrue(inbox[i]) /\ inbox[i].kind \notin {"none", "poll"})'
  <2>1. (i \in 1 .. Len(inbox) /\ inbox'[i] = inbox[i]) \/ inbox'[i] = m
    BY <1>1
  <2>2. CASE i \in 1 .. Len(inbox) /\ inbox'[i] = inbox[i]
    <3>1. MsgTrue(inbox[i]) /\ inbox[i].kind \notin {"none", "poll"}
      BY <2>2 DEF IInv, InboxTrue
    <3> QED
      BY <2>2, <3>1 DEF MsgTrue
  <2>3. CASE inbox'[i] = m
    BY <2>3 DEF MsgTrue
  <2> QED
    BY <2>1, <2>2, <2>3
<1> QED
  BY <1>1, <1>2 DEF InboxTrue

LEMMA JoinInv ==
  ASSUME IInv, NEW d \in Devices, NEW s \in Addrs, Join(d, s)
  PROVE  IInv'
<1> DEFINE m == Msg("announce", s, d)
<1>1. /\ Tell(m) /\ addr' = [addr EXCEPT ![d] = s] /\ pairs' = pairs \cup {<<s, d>>}
      /\ UNCHANGED <<zcb, pc, job, my, ext, asked>>
  BY DEF Join, threads
<1>2. m \in Jobs /\ m.kind \notin {"none", "poll"} /\ MsgTrue(m)'
  BY <1>1 DEF Msg, Jobs, MsgTrue, Macs, Adding
<1> HIDE DEF m
<1>3. inbox' \in Seq(Jobs) /\ InboxTrue'
  BY <1>1, <1>2, TellTrue
<1>4. addr' \in [Devices -> Addrs \cup {Gone}] /\ AddressTrue'
  BY <1>1 DEF IInv, TypeOK, AddressTrue
<1>5. zcb' \in [Rows -> Row] /\ \A i \in Rows : RowTrue(zcb'[i])
  BY <1>1 DEF IInv, TypeOK, JoinedPairWasTrue, RowTrue
<1> QED
  BY <1>1, <1>3, <1>4, <1>5, NetworkInv

LEMMA LeaveInv ==
  ASSUME IInv, NEW d \in Devices, NEW kind \in {"leave", "rejoin"}, Leave(d, kind)
  PROVE  IInv'
<1> DEFINE m == Msg(kind, 0, d)
<1>1. /\ Tell(m) /\ addr' = [addr EXCEPT ![d] = Gone]
      /\ UNCHANGED <<zcb, pc, job, my, ext, asked, pairs>>
  BY DEF Leave, threads
<1>2. m \in Jobs /\ m.kind \notin {"none", "poll"} /\ MsgTrue(m)'
  BY DEF Msg, Jobs, MsgTrue, Macs, Adding
<1> HIDE DEF m
<1>3. inbox' \in Seq(Jobs) /\ InboxTrue'
  BY <1>1, <1>2, TellTrue
<1>4. addr' \in [Devices -> Addrs \cup {Gone}] /\ AddressTrue'
  BY <1>1 DEF IInv, TypeOK, AddressTrue
<1> QED
  BY <1>1, <1>3, <1>4, NoWrite, NetworkInv

LEMMA AnswerInv ==
  ASSUME IInv, NEW q \in asked, Answer(q)
  PROVE  IInv'
<1>1. /\ asked' \subseteq asked
      /\ UNCHANGED inbox \/ \E d \in Devices : Tell(Msg(q[1], q[2], d))
      /\ UNCHANGED <<zcb, pc, job, my, ext, addr, pairs>>
  BY DEF Answer, threads
<1>2. q[1] \in {"descriptor", "attribute"} /\ q[2] \in Addrs
  BY DEF IInv, TypeOK
<1>3. inbox' \in Seq(Jobs) /\ InboxTrue'
  <2>1. CASE UNCHANGED inbox
    BY <1>1, <2>1 DEF IInv, TypeOK, InboxTrue, MsgTrue
  <2>2. ASSUME NEW d \in Devices, Tell(Msg(q[1], q[2], d))
        PROVE  inbox' \in Seq(Jobs) /\ InboxTrue'
    <3> DEFINE m == Msg(q[1], q[2], d)
    <3>1. m \in Jobs /\ m.kind \notin {"none", "poll"} /\ MsgTrue(m)'
      BY <1>2 DEF Msg, Jobs, MsgTrue, Macs, Adding
    <3> HIDE DEF m
    <3> QED
      BY <1>1, <2>2, <3>1, TellTrue DEF m
  <2> QED
    BY <1>1, <2>1, <2>2
<1>4. addr' \in [Devices -> Addrs \cup {Gone}] /\ AddressTrue'
  BY <1>1 DEF IInv, TypeOK, AddressTrue
<1> QED
  BY <1>1, <1>3, <1>4, NoWrite, NetworkInv

LEMMA EmptyInv ==
  ASSUME IInv, EmptyZcb
  PROVE  IInv'
<1>1. /\ zcb' = [i \in Rows |-> FreeRow]
      /\ UNCHANGED <<pc, job, my, ext, inbox, asked, addr, pairs>>
  BY DEF EmptyZcb, threads
<1>2. zcb' \in [Rows -> Row] /\ \A i \in Rows : RowTrue(zcb'[i])
  BY <1>1 DEF FreeRow, Cleared, Row, RowTrue
<1>3. inbox' \in Seq(Jobs) /\ InboxTrue' /\ addr' \in [Devices -> Addrs \cup {Gone}] /\ AddressTrue'
  BY <1>1 DEF IInv, TypeOK, InboxTrue, AddressTrue, MsgTrue
<1> QED
  BY <1>1, <1>2, <1>3, NetworkInv

LEMMA NextInv == IInv /\ [Next]_vars => IInv'
<1> SUFFICES ASSUME IInv, [Next]_vars PROVE IInv'
  OBVIOUS
<1>1. CASE UNCHANGED vars
  <2>1. UNCHANGED <<zcb, pc, job, my, ext, inbox, asked, addr, pairs>>
    BY <1>1 DEF vars, threads, network
  <2> QED
    BY <2>1 DEF IInv, TypeOK, JoinedPairWasTrue, ThreadsTrue, InboxTrue, AddressTrue, MsgTrue, RowTrue
<1> QED
  BY <1>1, MainInv, CallbackInv, PollInv, JoinInv, LeaveInv, AnswerInv, EmptyInv DEF Next

-----------------------------------------------------------------------------
(* While the coordinator gives no address to a second device: whose row is *)
(* whose                                                                   *)

\* Every address has one owner.
PairsOwn ==
    /\ pairs \subseteq (Addrs \X Devices) \cup {<<0, Coordinator>>}
    /\ \A s, d, e : <<s, d>> \in pairs /\ <<s, e>> \in pairs => d = e

\* A response names the device that has the address it comes from; the message of the
\* formed network names the coordinator.
MsgOwn(m) ==
    /\ m.kind = "descriptor" => <<m.s, m.d>> \in pairs
    /\ m.kind = "formed" => m.s = 0 /\ m.d = Coordinator
MsgsOwn == (\A t \in Threads : MsgOwn(job[t])) /\ \A i \in 1 .. Len(inbox) : MsgOwn(inbox[i])

\* The network is formed before anything else is entered into the table.
Forming == job["cb"].kind = "formed" \/ \E i \in 1 .. Len(inbox) : inbox[i].kind = "formed"
FormedFirst ==
    /\ \A i \in 1 .. Len(inbox) : inbox[i].kind = "formed" => i = 1 /\ pc["cb"] = "idle"
    /\ Forming => pc["main"] = "idle" /\ \A i \in Rows : InUse(i) => zcb[i].mac = Coordinator
    /\ job["main"].kind # "formed"

\* The address and the type of a row that is in use are those of its mac.
RowOwn(r) == r.status # "FREE" =>
    /\ r.saddr # 0 => <<r.saddr, r.mac>> \in pairs
    /\ r.type \in Macs => r.type = r.mac
RowsOwn == (\A i \in Rows : RowOwn(zcb[i])) /\ \A t \in Threads : RowOwn(my[t].row)

\* What the callback thread has read belongs to the one its job is about.
Reading(place, j, c, e) ==
    /\ j.kind \in {"descriptor", "attribute"} =>
         /\ place \in {"read", "store", "again"} /\ e \in Macs => <<j.s, e>> \in pairs
         /\ place \in {"store", "again"} =>
              /\ c.row.status # "FREE"
              /\ c.row.type \in Macs => <<j.s, c.row.type>> \in pairs
    /\ j.kind = "formed" /\ place \in {"set", "store", "again"} => c.row.mac = Coordinator
    /\ place = "again"    => j.kind = "descriptor"
    /\ place = "left"     => j.kind \in {"leave", "rejoin"}
    /\ place = "deviceId" => j.kind = "formed"
ReadOwn == Reading(pc["cb"], job["cb"], my["cb"], ext)

OInv == IInv /\ PairsOwn /\ MsgsOwn /\ FormedFirst /\ RowsOwn /\ ReadOwn

LEMMA Names == Unknown \notin Macs /\ Zero \notin Macs /\ NoMac \notin Macs
BY NodesAssumption DEF NodesAssumption, Unknown, Zero, Macs

LEMMA InitOInv == Init => OInv
<1> SUFFICES ASSUME Init PROVE OInv
  OBVIOUS
<1>1. IInv
  BY InitInv
<1>2. PairsOwn
  BY DEF Init, PairsOwn
<1>3. MsgsOwn /\ FormedFirst
  BY DEF Init, MsgsOwn, MsgOwn, FormedFirst, Forming, NoJob, Msg, InUse, FreeRow, Cleared, Threads
<1>4. RowsOwn /\ ReadOwn
  BY DEF Init, RowsOwn, RowOwn, ReadOwn, Reading, NoCopy, FreeRow, Cleared, NoJob, Msg, Threads
<1> QED
  BY <1>1, <1>2, <1>3, <1>4 DEF OInv

-----------------------------------------------------------------------------
(* What the steps do to the messages                                       *)

\* A message the network sends.
Sent(m) ==
    /\ m \in Jobs
    /\ \/ m.kind \in {"announce", "leave", "rejoin", "attribute"}
       \/ m.kind = "descriptor" /\ <<m.s, m.d>> \in pairs

LEMMA InboxSteps ==
  ASSUME IInv, [Next]_vars, ~Handle
  PROVE  inbox' = inbox \/ \E m : Sent(m) /\ inbox' = Append(inbox, m)
<1>1. CASE UNCHANGED inbox
  BY <1>1
<1>2. ASSUME NEW d \in Devices, NEW s \in Addrs, Join(d, s)
      PROVE  \E m : Sent(m) /\ inbox' = Append(inbox, m)
  BY <1>2 DEF Join, Tell, Msg, Sent, Jobs, Macs
<1>3. ASSUME NEW d \in Devices, NEW kind \in {"leave", "rejoin"}, Leave(d, kind)
      PROVE  \E m : Sent(m) /\ inbox' = Append(inbox, m)
  BY <1>3 DEF Leave, Tell, Msg, Sent, Jobs, Macs
<1>4. ASSUME NEW q \in asked, Answer(q), ~UNCHANGED inbox
      PROVE  \E m : Sent(m) /\ inbox' = Append(inbox, m)
  <2> DEFINE at == {d \in Devices : addr[d] = q[2]}
             d  == CHOOSE d \in at : TRUE
             m  == Msg(q[1], q[2], d)
  <2>1. at # {} /\ Tell(m)
    BY <1>4 DEF Answer
  <2>2. d \in Devices /\ addr[d] = q[2]
    BY <2>1
  <2> HIDE DEF d
  <2>3. q[1] \in {"descriptor", "attribute"} /\ q[2] \in Addrs
    BY DEF IInv, TypeOK
  <2>4. q[2] # Gone => <<q[2], d>> \in pairs
    BY <2>2 DEF IInv, AddressTrue
  <2>5. CASE q[2] # Gone
    BY <2>1, <2>2, <2>3, <2>4, <2>5 DEF Tell, Sent, Msg, Jobs, Macs
  <2>6. CASE q[2] = Gone
    BY <2>3, <2>6, NodesAssumption DEF Gone, NodesAssumption
  <2> QED
    BY <2>5, <2>6
<1>5. CASE UNCHANGED vars \/ EmptyZcb
  BY <1>5 DEF vars, network, EmptyZcb
<1>6. CASE Main \/ (Callback /\ ~Handle) \/ \E d \in Devices : Poll(d)
  BY <1>6 DEF Main, Callback, AddNode, AddBySaddr, AddByMac, AddNew, AddSet, Known, Request,
     CheckType, SetDeviceID, NodeLeft, Identify, ReadRow, Store, StoreAgain, Poll, network
<1> QED
  BY <1>1, <1>2, <1>3, <1>4, <1>5, <1>6 DEF Next


\* Only a thread that polls, or takes a message, begins: no other step leaves idle.
LEMMA MsgsOwnStep ==
  ASSUME OInv, IInv', [Next]_vars, pairs \subseteq pairs'
  PROVE  MsgsOwn'
<1> DEFINE Later(m) == m = NoJob \/ m.kind = "poll" \/ m \in {job["main"], job["cb"]}
                       \/ (inbox # <<>> /\ m = Head(inbox))
<1>1. \A t \in Threads : Later(job'[t])
  <2>1. CASE Handle
    BY <2>1 DEF Handle, OInv, IInv, TypeOK, Threads
  <2>2. CASE \E d \in Devices : Poll(d)
    BY <2>2 DEF Poll, Msg, OInv, IInv, TypeOK, Threads
  <2>3. CASE UNCHANGED job
    BY <2>3 DEF Threads
  <2>4. CASE \E t \in Threads : Done(t)
    BY <2>4 DEF Done, OInv, IInv, TypeOK, Threads
  <2>5. UNCHANGED job \/ Handle \/ (\E d \in Devices : Poll(d)) \/ \E t \in Threads : Done(t)
    BY DEF Next, Main, Callback, AddNode, AddBySaddr, AddByMac, AddNew, AddSet, Known, Request,
           CheckType, SetDeviceID, NodeLeft, Identify, ReadRow, Store, StoreAgain, Join, Leave,
           Answer, EmptyZcb, vars, threads, Threads
  <2> QED
    BY <2>1, <2>2, <2>3, <2>4, <2>5
<1>2. \A m : MsgOwn(m) => (MsgOwn(m))'
  BY DEF MsgOwn
<1>3. MsgOwn(NoJob) /\ \A m : m.kind = "poll" => MsgOwn(m)
  BY DEF MsgOwn, NoJob, Msg
<1>4. inbox \in Seq(Jobs)
  BY DEF OInv, IInv, TypeOK
<1>5. inbox # <<>> => MsgOwn(Head(inbox))
  <2>1. inbox # <<>> => 1 \in 1 .. Len(inbox) /\ Head(inbox) = inbox[1]
    BY <1>4
  <2> QED
    BY <2>1 DEF OInv, MsgsOwn
<1>6. \A t \in Threads : MsgOwn(job'[t])
  <2>1. MsgOwn(job["main"]) /\ MsgOwn(job["cb"])
    BY DEF OInv, MsgsOwn, Threads
  <2> QED
    BY <1>1, <1>3, <1>5, <2>1
<1>7. \A i \in 1 .. Len(inbox') : MsgOwn(inbox'[i])
  <2>1. CASE Handle
    <3>1. \A i \in 1 .. Len(inbox') : i + 1 \in 1 .. Len(inbox) /\ inbox'[i] = inbox[i + 1]
      BY <1>4, <2>1 DEF Handle
    <3> QED
      BY <3>1 DEF OInv, MsgsOwn
  <2>2. CASE inbox' = inbox
    BY <2>2 DEF OInv, MsgsOwn
  <2>3. ASSUME NEW m, Sent(m), inbox' = Append(inbox, m)
        PROVE  \A i \in 1 .. Len(inbox') : MsgOwn(inbox'[i])
    <3>1. MsgOwn(m)
      BY <2>3 DEF Sent, MsgOwn
    <3>2. \A i \in 1 .. Len(inbox') : inbox'[i] = m \/ (i \in 1 .. Len(inbox) /\ inbox'[i] = inbox[i])
      BY <1>4, <2>3 DEF Sent
    <3> QED
      BY <3>1, <3>2 DEF OInv, MsgsOwn
  <2> QED
    BY <2>1, <2>2, <2>3, InboxSteps DEF OInv
<1> QED
  BY <1>2, <1>6, <1>7 DEF MsgsOwn

LEMMA PairsOwnStep ==
  ASSUME OInv, [Next]_vars, "reuse" \notin Faults
  PROVE  PairsOwn' /\ pairs \subseteq pairs'
<1>1. CASE UNCHANGED pairs
  BY <1>1 DEF OInv, PairsOwn
<1>2. ASSUME NEW d \in Devices, NEW s \in Addrs, Join(d, s)
      PROVE  PairsOwn' /\ pairs \subseteq pairs'
  <2>1. pairs' = pairs \cup {<<s, d>>}
    BY <1>2 DEF Join
  <2>2. ASSUME NEW e, <<s, e>> \in pairs
        PROVE  e = d
    <3>1. e \in Devices
      BY <2>2, NodesAssumption DEF OInv, PairsOwn, NodesAssumption
    <3>2. s \in Had(e)
      BY <2>2 DEF Had
    <3> QED
      BY <1>2, <3>1, <3>2 DEF Join
  <2> QED
    BY <2>1, <2>2 DEF OInv, PairsOwn
<1>3. UNCHANGED pairs \/ \E d \in Devices, s \in Addrs : Join(d, s)
  BY DEF Next, Main, Callback, AddNode, AddBySaddr, AddByMac, AddNew, AddSet, Known, Request,
         Handle, CheckType, SetDeviceID, NodeLeft, Identify, ReadRow, Store, StoreAgain, Poll, Leave,
         Answer, EmptyZcb, vars, network
<1> QED
  BY <1>1, <1>2, <1>3


-----------------------------------------------------------------------------
(* What the steps of the threads do to the rows                            *)

\* A row may be stored.
RowFits(r) == RowOwn(r) /\ (Forming /\ r.status # "FREE" => r.mac = Coordinator)

\* The rows of the table fit, as do a free and a new row, and the copy of a thread
\* that stores it.
LEMMA RowsFit ==
  ASSUME OInv
  PROVE  /\ \A i \in Rows : RowFits(zcb[i])
         /\ RowFits(FreeRow)
         /\ \A t \in Threads : pc[t] = "new" => RowFits(Cleared("USED", job[t].d))
         /\ \A t \in Threads : pc[t] \in {"set", "store", "again"} => RowFits(my[t].row)
<1>1. \A i \in Rows : RowFits(zcb[i])
  BY DEF OInv, RowsOwn, FormedFirst, RowFits, InUse
<1>2. RowFits(FreeRow)
  BY DEF RowFits, RowOwn, FreeRow, Cleared
<1>3. ASSUME NEW t \in Threads, pc[t] # "idle", Forming
      PROVE  t = "cb" /\ job["cb"].kind = "formed"
  <2>1. t = "cb"
    BY <1>3 DEF OInv, FormedFirst, Threads
  <2> QED
    BY <1>3, <2>1 DEF OInv, FormedFirst, Forming
<1>4. ASSUME NEW t \in Threads, pc[t] = "new"
      PROVE  RowFits(Cleared("USED", job[t].d))
  <2>1. RowOwn(Cleared("USED", job[t].d))
    BY Names DEF RowOwn, Cleared
  <2>2. Forming => job[t].d = Coordinator
    BY <1>3, <1>4 DEF OInv, MsgsOwn, MsgOwn
  <2> QED
    BY <2>1, <2>2 DEF RowFits, Cleared
<1>5. ASSUME NEW t \in Threads, pc[t] \in {"set", "store", "again"}
      PROVE  RowFits(my[t].row)
  <2>1. RowOwn(my[t].row)
    BY DEF OInv, RowsOwn
  <2>2. Forming => my[t].row.mac = Coordinator
    BY <1>3, <1>5 DEF OInv, ReadOwn, Reading
  <2> QED
    BY <2>1, <2>2 DEF RowFits
<1> QED
  BY <1>1, <1>2, <1>4, <1>5

\* A thread that is busy makes a step: what it needs for the invariant.
LEMMA OwnStep ==
  ASSUME OInv, IInv', PairsOwn', MsgsOwn',
         NEW t \in Threads, NEW place \in Places, NEW j \in Jobs, NEW c \in Copies,
         pc[t] # "idle", Goto(t, place), job' = [job EXCEPT ![t] = j], Keep(t, c),
         j = job[t] \/ j = NoJob,
         RowOwn(c.row), \A i \in Rows : RowFits(zcb'[i]),
         IF t = "cb" THEN Reading(place, j, c, ext') ELSE UNCHANGED ext,
         UNCHANGED <<inbox, pairs>>
  PROVE  OInv'
<1>1. \A u \in Threads : IF u = t THEN pc'[u] = place /\ job'[u] = j /\ my'[u] = c
                                  ELSE pc'[u] = pc[u] /\ job'[u] = job[u] /\ my'[u] = my[u]
  BY DEF OInv, IInv, TypeOK, Goto, Keep
<1>2. t \in {"main", "cb"} /\ {"main", "cb"} \subseteq Threads /\ NoJob.kind = "none"
  BY DEF Threads, NoJob, Msg
<1>3. RowsOwn'
  BY <1>1 DEF OInv, RowsOwn, RowFits, RowOwn
<1>4. ReadOwn'
  BY <1>1, <1>2 DEF OInv, ReadOwn, Reading
<1>5. FormedFirst'
  <2>1. CASE t = "cb"
    <3>1. \A i \in 1 .. Len(inbox) : inbox[i].kind # "formed"
      BY <2>1 DEF OInv, FormedFirst
    <3>2. Forming' => Forming
      BY <1>1, <1>2, <2>1 DEF Forming
    <3> QED
      BY <1>1, <1>2, <2>1, <3>1, <3>2 DEF OInv, FormedFirst, RowFits, InUse
  <2>2. CASE t = "main"
    <3>1. ~Forming /\ ~Forming'
      BY <1>1, <1>2, <2>2 DEF OInv, FormedFirst, Forming
    <3> QED
      BY <1>1, <1>2, <2>2, <3>1 DEF OInv, FormedFirst, Forming
  <2> QED
    BY <1>2, <2>1, <2>2
<1> QED
  BY <1>3, <1>4, <1>5 DEF OInv

\* It goes on with a copy of a row, ...
LEMMA OwnTake ==
  ASSUME OInv, IInv', PairsOwn', MsgsOwn',
         NEW t \in Threads, NEW place \in Places, NEW c \in Copies,
         pc[t] # "idle", Goto(t, place), UNCHANGED job, Keep(t, c),
         RowOwn(c.row), \A i \in Rows : RowFits(zcb'[i]),
         IF t = "cb" THEN Reading(place, job[t], c, ext') ELSE UNCHANGED ext,
         UNCHANGED <<inbox, pairs>>
  PROVE  OInv'
<1>1. job[t] \in Jobs /\ job' = [job EXCEPT ![t] = job[t]]
  BY DEF OInv, IInv, TypeOK
<1> QED
  BY <1>1, OwnStep

\* ... or with the one it has, ...
LEMMA OwnGoOn ==
  ASSUME OInv, IInv', PairsOwn', MsgsOwn', NEW t \in Threads, NEW place \in Places,
         pc[t] # "idle", Goto(t, place), UNCHANGED <<job, my>>,
         \A i \in Rows : RowFits(zcb'[i]),
         IF t = "cb" THEN Reading(place, job[t], my[t], ext') ELSE UNCHANGED ext,
         UNCHANGED <<inbox, pairs>>
  PROVE  OInv'
<1>1. my[t] \in Copies /\ Keep(t, my[t]) /\ RowOwn(my[t].row)
  BY DEF OInv, IInv, TypeOK, Copies, Keep, RowsOwn
<1> QED
  BY <1>1, OwnTake

\* ... or has done its job.
LEMMA OwnFinish ==
  ASSUME OInv, IInv', PairsOwn', MsgsOwn', NEW t \in Threads,
         pc[t] # "idle", Done(t), \A i \in Rows : RowFits(zcb'[i]),
         t = "main" => UNCHANGED ext,
         UNCHANGED <<inbox, pairs>>
  PROVE  OInv'
<1>1. NoJob \in Jobs /\ NoCopy \in Copies
  BY DEF NoJob, NoCopy, Jobs, Copies, Msg, FreeRow, Cleared, Row
<1>2. RowOwn(NoCopy.row) /\ Reading("idle", NoJob, NoCopy, ext')
  BY DEF RowOwn, Reading, NoJob, NoCopy, Msg, FreeRow, Cleared
<1>3. "idle" \in Places /\ t \in {"main", "cb"}
  BY DEF Places, Threads
<1> QED
  BY <1>1, <1>2, <1>3, OwnStep DEF Done

\* newDbSetZcb keeps the rows as they should be.
LEMMA OwnSet ==
  ASSUME OInv, NEW t \in Threads, pc[t] \in {"set", "store", "again"}, SetZcb(my[t])
  PROVE  \A i \in Rows : RowFits(zcb'[i])
<1>1. PICK r : RowFits(r) /\ zcb' = [zcb EXCEPT ![my[t].id] = r]
  BY RowsFit DEF SetZcb
<1> QED
  BY <1>1, RowsFit DEF OInv, IInv, TypeOK

\* The row with the address of the job belongs to the device of the job.
LEMMA SameMac ==
  ASSUME OInv, NEW t \in Threads, NEW i \in Rows, InUse(i), zcb[i].saddr = job[t].s,
         pc[t] # "idle",
         job[t].kind \in Adding \cup {"descriptor"}
  PROVE  zcb[i].mac = job[t].d
<1>1. MsgOwn(job[t]) /\ MsgTrue(job[t])
  BY DEF OInv, MsgsOwn, IInv, ThreadsTrue
<1>2. CASE job[t].kind = "formed"
  <2>1. Forming
    BY <1>2 DEF OInv, FormedFirst, Forming, Threads
  <2> QED
    BY <1>1, <1>2, <2>1 DEF OInv, FormedFirst, MsgOwn
<1>3. CASE job[t].kind # "formed"
  <2>1. job[t].s \in Addrs /\ <<job[t].s, job[t].d>> \in pairs
    BY <1>1, <1>3 DEF MsgTrue, MsgOwn, Adding
  <2>2. job[t].s # 0
    BY <2>1, NodesAssumption DEF NodesAssumption
  <2>3. <<job[t].s, zcb[i].mac>> \in pairs
    BY <2>2 DEF OInv, RowsOwn, RowOwn, InUse
  <2> QED
    BY <2>1, <2>3 DEF OInv, PairsOwn
<1> QED
  BY <1>2, <1>3


\* zcbAddNode: the row found belongs to the device, and a new one has no type yet.
LEMMA AddNodeOwn ==
  ASSUME OInv, IInv', PairsOwn', MsgsOwn', NEW t \in Threads, AddNode(t)
  PROVE  OInv'
<1>1. pc[t] \in {"bySaddr", "byMac", "new", "set"} /\ pc[t] # "idle"
      /\ UNCHANGED <<job, ext, inbox, pairs>>
  BY DEF AddNode, AddBySaddr, AddByMac, AddNew, AddSet, network
<1>2. job[t].kind \in Adding /\ <<job[t].s, job[t].d>> \in pairs /\ job[t].d \in Macs
      /\ job[t].d \in Macs \cup {NoMac} /\ job[t].s \in Addrs \cup {0}
  <2>1. job[t].kind \in Adding /\ <<job[t].s, job[t].d>> \in pairs
    BY <1>1 DEF OInv, IInv, ThreadsTrue, Fits, MsgTrue
  <2>2. job[t] \in Jobs
    BY DEF OInv, IInv, TypeOK
  <2> QED
    BY <2>1, <2>2 DEF OInv, PairsOwn, Macs, Jobs
<1>3. {"byMac", "new", "set"} \subseteq Places
  BY DEF Places
<1>4. job[t].kind = "formed" => job[t].d = Coordinator
  BY DEF OInv, MsgsOwn, MsgOwn
<1>5. ASSUME NEW c, c.row.mac = job[t].d
      PROVE  Reading("set", job[t], c, ext')
  BY <1>2, <1>4, <1>5 DEF Reading, Adding
<1>6. Reading("byMac", job[t], my[t], ext') /\ Reading("new", job[t], my[t], ext')
  BY <1>2 DEF Reading, Adding
<1>7. IInv /\ \A i \in Rows : RowFits(zcb[i]) /\ RowOwn(zcb[i])
  BY RowsFit DEF OInv, RowFits
<1>8. t \in {"main", "cb"}
  BY DEF Threads
<1>9. CASE AddBySaddr(t)
  <2> DEFINE i == Min(WithSaddr(job[t].s))
             c == Joined(i, job[t].d, zcb[i].saddr, zcb[i].type)
  <2>1. UNCHANGED zcb
    BY <1>9 DEF AddBySaddr
  <2>2. CASE WithSaddr(job[t].s) = {}
    <3>1. Goto(t, "byMac") /\ UNCHANGED my
      BY <1>9, <2>2 DEF AddBySaddr
    <3> QED
      BY <1>1, <1>3, <1>6, <1>7, <2>1, <3>1, OwnGoOn
  <2>3. CASE WithSaddr(job[t].s) # {}
    <3>1. Keep(t, c) /\ Goto(t, "set")
      BY <1>9, <2>3 DEF AddBySaddr
    <3>2. i \in Rows /\ InUse(i) /\ zcb[i].saddr = job[t].s
      BY <2>3, Lookups
    <3>3. zcb[i].mac = job[t].d
      BY <1>1, <1>2, <3>2, SameMac
    <3>4. c \in Copies
      BY <1>2, <1>7, <3>2, CopyOf DEF Joined, Copies, Row
    <3>5. RowOwn(c.row) /\ c.row.mac = job[t].d
      BY <1>2, <1>7, <3>2, <3>3 DEF Joined, RowOwn, InUse
    <3> HIDE DEF c
    <3>6. Reading("set", job[t], c, ext')
      BY <1>5, <3>5
    <3> QED
      BY <1>1, <1>3, <1>7, <2>1, <3>1, <3>4, <3>5, <3>6, OwnTake
  <2> QED
    BY <2>2, <2>3
<1>10. CASE AddByMac(t)
  <2> DEFINE i == Min(WithMac(job[t].d))
             c == Joined(i, zcb[i].mac, job[t].s, zcb[i].type)
  <2>1. UNCHANGED zcb
    BY <1>10 DEF AddByMac
  <2>2. CASE WithMac(job[t].d) = {}
    <3>1. Goto(t, "new") /\ UNCHANGED my
      BY <1>10, <2>2 DEF AddByMac
    <3> QED
      BY <1>1, <1>3, <1>6, <1>7, <2>1, <3>1, OwnGoOn
  <2>3. CASE WithMac(job[t].d) # {}
    <3>1. Keep(t, c) /\ Goto(t, "set")
      BY <1>10, <2>3 DEF AddByMac
    <3>2. i \in Rows /\ InUse(i) /\ zcb[i].mac = job[t].d
      BY <2>3, Lookups
    <3>3. c \in Copies
      BY <1>2, <1>7, <3>2, CopyOf DEF Joined, Copies, Row
    <3>4. RowOwn(c.row) /\ c.row.mac = job[t].d
      BY <1>2, <1>7, <3>2 DEF Joined, RowOwn, InUse
    <3> HIDE DEF c
    <3>5. Reading("set", job[t], c, ext')
      BY <1>5, <3>4
    <3> QED
      BY <1>1, <1>3, <1>7, <2>1, <3>1, <3>3, <3>4, <3>5, OwnTake
  <2> QED
    BY <2>2, <2>3
<1>11. AfterAdd(t) \in Places /\ Reading(AfterAdd(t), job[t], my[t], ext')
  BY <1>2 DEF Adding, AfterAdd, Places, Reading
<1>12. CASE AddNew(t)
  <2>1. PICK i \in Slots :
          /\ zcb' = IF i = 0 THEN zcb ELSE [zcb EXCEPT ![i] = Cleared("USED", job[t].d)]
          /\ IF i # 0 /\ ~InUse(i)
                THEN Keep(t, Joined(i, job[t].d, job[t].s, Unknown)) /\ Goto(t, "set")
                ELSE Goto(t, AfterAdd(t)) /\ UNCHANGED my
    BY <1>12 DEF AddNew
  <2>2. i \in Rows \cup {0} /\ pc[t] = "new"
    BY <1>12, Lookups DEF AddNew
  <2>3. \A k \in Rows : RowFits(zcb'[k])
    <3>1. RowFits(Cleared("USED", job[t].d))
      BY <2>2, RowsFit
    <3> QED
      BY <1>7, <2>1, <3>1 DEF IInv, TypeOK
  <2>4. CASE i # 0 /\ ~InUse(i)
    <3> DEFINE c == Joined(i, job[t].d, job[t].s, Unknown)
    <3>1. Keep(t, c) /\ Goto(t, "set")
      BY <2>1, <2>4
    <3>2. c \in Copies
      BY <1>2, <2>2 DEF Joined, Copies, Row
    <3>3. RowOwn(c.row) /\ c.row.mac = job[t].d
      BY <1>2, Names DEF Joined, RowOwn
    <3> HIDE DEF c
    <3>4. Reading("set", job[t], c, ext')
      BY <1>5, <3>3
    <3> QED
      BY <1>1, <1>3, <2>3, <3>1, <3>2, <3>3, <3>4, OwnTake
  <2>5. CASE ~(i # 0 /\ ~InUse(i))
    BY <1>1, <1>11, <2>1, <2>3, <2>5, OwnGoOn
  <2> QED
    BY <2>4, <2>5
<1>13. CASE AddSet(t)
  <2>1. pc[t] = "set" /\ SetZcb(my[t]) /\ Goto(t, AfterAdd(t)) /\ UNCHANGED <<job, my>>
    BY <1>13 DEF AddSet
  <2>2. \A i \in Rows : RowFits(zcb'[i])
    BY <2>1, OwnSet
  <2> QED
    BY <1>1, <1>11, <2>1, <2>2, OwnGoOn
<1> QED
  BY <1>9, <1>10, <1>12, <1>13 DEF AddNode

\* The main thread begins only when no message of the formed network is left.
LEMMA MainOwn ==
  ASSUME OInv, IInv', PairsOwn', MsgsOwn', Main
  PROVE  OInv'
<1>1. "main" \in Threads /\ "bySaddr" \in Places /\ "main" # "cb"
  BY DEF Threads, Places
<1>2. \A i \in Rows : RowFits(zcb[i])
  BY RowsFit
<1>3. CASE AddNode("main")
  BY <1>1, <1>3, AddNodeOwn
<1>4. CASE Known
  <2>1. UNCHANGED <<zcb, ext, inbox, pairs>> /\ pc["main"] # "idle"
        /\ (Done("main") \/ (Goto("main", "bySaddr") /\ UNCHANGED <<job, my>>))
    BY <1>4 DEF Known, network
  <2> QED
    BY <1>1, <1>2, <2>1, OwnFinish, OwnGoOn
<1>5. CASE Request
  <2>1. UNCHANGED <<zcb, ext, inbox, pairs>> /\ pc["main"] # "idle" /\ Done("main")
    BY <1>5 DEF Request
  <2> QED
    BY <1>1, <1>2, <2>1, OwnFinish
<1> QED
  BY <1>3, <1>4, <1>5 DEF Main

LEMMA PollOwn ==
  ASSUME OInv, IInv', PairsOwn', MsgsOwn', NEW d \in Devices, Poll(d)
  PROVE  OInv'
<1>1. /\ ~Forming
      /\ pc' = [pc EXCEPT !["main"] = "known"]
      /\ job' = [job EXCEPT !["main"] = Msg("poll", addr[d], d)]
      /\ UNCHANGED <<zcb, my, ext, inbox, pairs>>
  <2>1. inbox \in Seq(Jobs)
    BY DEF OInv, IInv, TypeOK
  <2>2. DOMAIN inbox = 1 .. Len(inbox)
    BY <2>1
  <2> QED
    BY <2>2 DEF Poll, Forming, Goto, network
<1>2. /\ pc'["cb"] = pc["cb"] /\ job'["cb"] = job["cb"]
      /\ job'["main"].kind = "poll"
  BY <1>1 DEF OInv, IInv, TypeOK, Threads, Msg
<1>3. ~Forming'
  BY <1>1, <1>2 DEF Forming
<1>4. FormedFirst'
  BY <1>1, <1>2, <1>3 DEF OInv, FormedFirst, Forming
<1>5. RowsOwn' /\ ReadOwn'
  BY <1>1, <1>2 DEF OInv, RowsOwn, RowOwn, ReadOwn, Reading
<1> QED
  BY <1>4, <1>5 DEF OInv


\* The callback thread takes the message of the formed network before any other.
LEMMA HandleOwn ==
  ASSUME OInv, IInv', PairsOwn', MsgsOwn', Handle
  PROVE  OInv'
<1> DEFINE m == Head(inbox)
           place == CASE m.kind \in {"formed", "announce"}      -> "bySaddr"
                      [] m.kind \in {"leave", "rejoin"}         -> "left"
                      [] m.kind \in {"descriptor", "attribute"} -> "identify"
<1>1. /\ inbox # <<>> /\ inbox' = Tail(inbox) /\ Goto("cb", place)
      /\ job' = [job EXCEPT !["cb"] = m]
      /\ UNCHANGED <<zcb, my, ext, pairs>>
  BY DEF Handle
<1>2. inbox \in Seq(Jobs)
  BY DEF OInv, IInv, TypeOK
<1>3. 1 \in 1 .. Len(inbox) /\ m = inbox[1] /\ m \in Jobs
  BY <1>1, <1>2
<1>4. \A i \in 1 .. Len(inbox') : i + 1 \in 1 .. Len(inbox) /\ i + 1 # 1 /\ inbox'[i] = inbox[i + 1]
  BY <1>1, <1>2
<1> HIDE DEF m
<1>5. m.kind \notin {"none", "poll"}
  BY <1>3 DEF OInv, IInv, InboxTrue
<1>6. Reading(place, m, my["cb"], ext)
  BY <1>3, <1>5 DEF Reading, Jobs
<1> HIDE DEF place
<1>7. /\ pc'["cb"] = place /\ pc'["main"] = pc["main"]
      /\ job'["cb"] = m /\ job'["main"] = job["main"] /\ my'["cb"] = my["cb"]
  BY <1>1 DEF OInv, IInv, TypeOK, Goto, Threads
<1>8. ReadOwn' /\ RowsOwn'
  <2>1. ReadOwn'
    BY <1>1, <1>6, <1>7 DEF ReadOwn, Reading
  <2>2. RowsOwn'
    BY <1>1 DEF OInv, RowsOwn, RowOwn
  <2> QED
    BY <2>1, <2>2
<1>9. FormedFirst'
  <2>1. \A i \in 1 .. Len(inbox') : inbox'[i].kind # "formed"
    BY <1>4 DEF OInv, FormedFirst
  <2>2. Forming' => Forming
    BY <1>3, <1>7, <2>1 DEF Forming
  <2> QED
    BY <1>1, <1>7, <2>1, <2>2 DEF OInv, FormedFirst, InUse
<1> QED
  BY <1>8, <1>9 DEF OInv

\* A copy of a row with another type, or another status.
LEMMA CopyChanged ==
  ASSUME IInv, NEW i \in Rows, NEW v
  PROVE  /\ [Copy(i) EXCEPT !.row.type = v] =
              [id |-> i, row |-> [status |-> zcb[i].status, mac |-> zcb[i].mac,
                                  saddr |-> zcb[i].saddr, type |-> v]]
         /\ [Copy(i) EXCEPT !.row.status = v] =
              [id |-> i, row |-> [status |-> v, mac |-> zcb[i].mac,
                                  saddr |-> zcb[i].saddr, type |-> zcb[i].type]]
<1>1. zcb[i] \in Row
  BY DEF IInv, TypeOK
<1> QED
  BY <1>1 DEF Copy, Row

\* A handler of the callback thread stores what it has read of its sender.
LEMMA CallbackOwn ==
  ASSUME OInv, IInv', PairsOwn', MsgsOwn', Callback
  PROVE  OInv'
<1>1. "cb" \in Threads /\ {"deviceId", "store", "read", "again", "idle"} \subseteq Places
  BY DEF Threads, Places
<1>2. /\ IInv
      /\ job["cb"] \in Jobs /\ Fits(pc["cb"], job["cb"].kind) /\ MsgTrue(job["cb"]) /\ MsgOwn(job["cb"])
      /\ my["cb"] \in Copies /\ Reading(pc["cb"], job["cb"], my["cb"], ext)
      /\ \A k \in Rows : RowFits(zcb[k])
  BY <1>1, RowsFit DEF OInv, IInv, TypeOK, ThreadsTrue, Copies, ReadOwn, MsgsOwn
<1>3. CASE AddNode("cb")
  BY <1>1, <1>3, AddNodeOwn
<1>4. CASE Handle
  BY <1>4, HandleOwn
<1>5. CASE CheckType
  <2>1. UNCHANGED <<zcb, inbox, pairs>> /\ pc["cb"] # "idle" /\ Done("cb")
    BY <1>5 DEF CheckType
  <2> QED
    BY <1>1, <1>2, <2>1, OwnFinish
<1>6. CASE SetDeviceID
  <2> DEFINE i == Min(WithSaddr(0))
             c == [Copy(i) EXCEPT !.row.type = Coordinator]
  <2>1. UNCHANGED <<zcb, ext, inbox, pairs>> /\ pc["cb"] = "deviceId" /\ pc["cb"] # "idle"
    BY <1>6 DEF SetDeviceID, network
  <2>2. CASE Done("cb")
    BY <1>1, <1>2, <2>1, <2>2, OwnFinish
  <2>3. CASE WithSaddr(0) # {} /\ Keep("cb", c) /\ Goto("cb", "store") /\ UNCHANGED job
    <3>1. i \in Rows /\ InUse(i)
      BY <2>3, Lookups
    <3>2. job["cb"].kind = "formed"
      BY <1>2, <2>1 DEF Reading
    <3>3. zcb[i].mac = Coordinator
      BY <3>1, <3>2 DEF OInv, FormedFirst, Forming
    <3>4. c \in Copies /\ RowOwn(c.row) /\ Reading("store", job["cb"], c, ext')
      <4> HIDE DEF i
      <4>1. c \in Copies
        BY <1>2, <3>1, CopyOf DEF Copies, Row, Macs
      <4>2. RowOwn(zcb[i])
        BY <1>2, <3>1 DEF RowFits
      <4> DEFINE r == [id |-> i, row |-> [status |-> zcb[i].status, mac |-> zcb[i].mac,
                                          saddr |-> zcb[i].saddr, type |-> Coordinator]]
      <4>10. c = r
        BY <1>2, <3>1, CopyChanged, Zenon
      <4>3. /\ c.row.mac = Coordinator /\ c.row.type = Coordinator /\ c.row.saddr = zcb[i].saddr
        <5> HIDE DEF c
        <5> QED
          BY <3>3, <4>10
      <4>4. RowOwn(c.row)
        BY <3>1, <3>3, <4>2, <4>3 DEF RowOwn, InUse
      <4> QED
        BY <3>2, <4>1, <4>3, <4>4 DEF Reading
    <3> HIDE DEF c
    <3> QED
      BY <1>1, <1>2, <2>1, <2>3, <3>4, OwnTake
  <2> QED
    BY <1>6, <2>2, <2>3 DEF SetDeviceID
<1>7. CASE NodeLeft
  <2> DEFINE i == Min(WithMac(job["cb"].d))
             st == IF job["cb"].kind = "rejoin" THEN "LEFT" ELSE "FREE"
             c == [Copy(i) EXCEPT !.row.status = st]
  <2>1. UNCHANGED <<zcb, ext, inbox, pairs>> /\ pc["cb"] = "left" /\ pc["cb"] # "idle"
    BY <1>7 DEF NodeLeft, network
  <2>2. CASE Done("cb")
    BY <1>1, <1>2, <2>1, <2>2, OwnFinish
  <2>3. CASE WithMac(job["cb"].d) # {} /\ Keep("cb", c) /\ Goto("cb", "store") /\ UNCHANGED job
    <3>1. i \in Rows /\ InUse(i)
      BY <2>3, Lookups
    <3>2. st \in {"LEFT", "FREE"}
      OBVIOUS
    <3>3. c \in Copies /\ RowOwn(c.row) /\ Reading("store", job["cb"], c, ext')
      <4> HIDE DEF i, st
      <4>1. c \in Copies
        BY <1>2, <3>1, <3>2, CopyOf DEF Copies, Row
      <4>2. RowOwn(zcb[i]) /\ zcb[i].status # "FREE"
        BY <1>2, <3>1 DEF RowFits, InUse
      <4> DEFINE r == [id |-> i, row |-> [status |-> st, mac |-> zcb[i].mac,
                                          saddr |-> zcb[i].saddr, type |-> zcb[i].type]]
      <4>10. c = r
        BY <1>2, <3>1, CopyChanged, Zenon
      <4>3. c.row.mac = zcb[i].mac /\ c.row.type = zcb[i].type /\ c.row.saddr = zcb[i].saddr
        <5> HIDE DEF c
        <5> QED
          BY <4>10
      <4>4. RowOwn(c.row)
        BY <4>2, <4>3 DEF RowOwn
      <4>5. job["cb"].kind \in {"leave", "rejoin"}
        BY <1>2, <2>1 DEF Reading
      <4> QED
        BY <4>1, <4>4, <4>5 DEF Reading
    <3> HIDE DEF c
    <3> QED
      BY <1>1, <1>2, <2>1, <2>3, <3>3, OwnTake
  <2> QED
    BY <1>7, <2>2, <2>3 DEF NodeLeft
<1>8. job["cb"].kind \in {"descriptor", "attribute"} =>
        job["cb"].s # 0 /\ job["cb"].d \in Macs
  BY <1>2, NodesAssumption DEF MsgTrue, NodesAssumption, Macs
\* A row with the address of the sender has its mac.
<1>9. ASSUME NEW i \in Rows, InUse(i), zcb[i].saddr = job["cb"].s,
             job["cb"].kind \in {"descriptor", "attribute"}
      PROVE  <<job["cb"].s, zcb[i].mac>> \in pairs
  BY <1>2, <1>8, <1>9 DEF RowFits, RowOwn, InUse
<1>10. CASE Identify
  <2> DEFINE i == Min(WithSaddr(job["cb"].s))
  <2>1. UNCHANGED <<zcb, job, my, inbox, pairs>> /\ Goto("cb", "read") /\ pc["cb"] = "identify"
        /\ pc["cb"] # "idle" /\ job["cb"].kind \in {"descriptor", "attribute"}
    BY <1>2, <1>10 DEF Identify, network, Fits
  <2>2. ext' \in Macs => <<job["cb"].s, ext'>> \in pairs
    <3>1. CASE WithSaddr(job["cb"].s) = {}
      BY <1>10, <3>1, Names DEF Identify
    <3>2. CASE WithSaddr(job["cb"].s) # {}
      <4>1. i \in Rows /\ InUse(i) /\ zcb[i].saddr = job["cb"].s
        BY <3>2, Lookups
      <4>2. ext' = zcb[i].mac
        BY <1>10, <3>2 DEF Identify
      <4> QED
        BY <1>9, <2>1, <4>1, <4>2
    <3> QED
      BY <3>1, <3>2
  <2>3. Reading("read", job["cb"], my["cb"], ext')
    BY <2>1, <2>2 DEF Reading
  <2> QED
    BY <1>1, <1>2, <2>1, <2>3, OwnGoOn
<1>11. CASE ReadRow
  <2> DEFINE i == Min(WithSaddr(job["cb"].s))
             d == [Copy(i) EXCEPT !.row.type = job["cb"].d]
             c == IF job["cb"].kind = "descriptor" THEN d ELSE Copy(i)
  <2>1. UNCHANGED <<zcb, inbox, pairs>> /\ pc["cb"] = "read" /\ pc["cb"] # "idle"
        /\ job["cb"].kind \in {"descriptor", "attribute"}
    BY <1>2, <1>11 DEF ReadRow, network, Fits
  <2>2. CASE Done("cb")
    BY <1>1, <1>2, <2>1, <2>2, OwnFinish
  <2>3. CASE WithSaddr(job["cb"].s) # {} /\ Keep("cb", c) /\ Goto("cb", "store") /\ UNCHANGED <<job, ext>>
    <3>1. i \in Rows /\ InUse(i) /\ zcb[i].saddr = job["cb"].s
      BY <2>3, Lookups
    <3>2. <<job["cb"].s, zcb[i].mac>> \in pairs /\ RowOwn(zcb[i]) /\ zcb[i].status # "FREE"
      BY <1>2, <1>9, <2>1, <3>1 DEF RowFits, InUse
    <3>3. job["cb"].kind = "descriptor" => zcb[i].mac = job["cb"].d /\ <<job["cb"].s, job["cb"].d>> \in pairs
      BY <1>1, <1>2, <2>1, <3>1, SameMac DEF MsgOwn
    <3>4. /\ c \in Copies /\ c.row.mac = zcb[i].mac /\ c.row.saddr = zcb[i].saddr
          /\ c.row.status = zcb[i].status
          /\ c.row.type = IF job["cb"].kind = "descriptor" THEN job["cb"].d ELSE zcb[i].type
      <4> HIDE DEF i
      <4> DEFINE r == [id |-> i, row |-> [status |-> zcb[i].status, mac |-> zcb[i].mac,
                                          saddr |-> zcb[i].saddr, type |-> job["cb"].d]]
      <4>10. d = r
        BY <1>2, <3>1, CopyChanged, Zenon
      <4>11. r \in Copies
        BY <1>2, <1>8, <2>1, <3>1, CopyOf DEF Copies, Row, Macs
      <4>1. /\ d \in Copies /\ d.row.mac = zcb[i].mac /\ d.row.saddr = zcb[i].saddr
            /\ d.row.status = zcb[i].status /\ d.row.type = job["cb"].d
        <5> HIDE DEF d
        <5> QED
          BY <4>10, <4>11
      <4>2. Copy(i) \in Copies /\ Copy(i).row = zcb[i]
        BY <1>2, <3>1, CopyOf DEF Copy
      <4> HIDE DEF d
      <4> QED
        BY <4>1, <4>2
    <3> HIDE DEF c
    <3>5. RowOwn(c.row)
      BY <3>2, <3>3, <3>4 DEF RowOwn
    <3>6. Reading("store", job["cb"], c, ext')
      BY <1>2, <2>1, <2>3, <3>2, <3>3, <3>4 DEF Reading, RowOwn
    <3> QED
      BY <1>1, <1>2, <2>1, <2>3, <3>4, <3>5, <3>6, OwnTake
  <2> QED
    BY <1>11, <2>2, <2>3 DEF ReadRow
<1>12. CASE Store
  <2>1. UNCHANGED <<inbox, pairs>> /\ pc["cb"] = "store" /\ pc["cb"] # "idle"
        /\ (SetZcb(my["cb"]) \/ UNCHANGED zcb)
    BY <1>12 DEF Store
  <2>2. \A k \in Rows : RowFits(zcb'[k])
    BY <1>1, <1>2, <2>1, OwnSet
  <2>3. CASE job["cb"].kind = "descriptor"
    <3>1. Goto("cb", "again") /\ UNCHANGED <<job, my, ext>>
      BY <1>12, <2>3 DEF Store
    <3>2. Reading("again", job["cb"], my["cb"], ext')
      BY <1>2, <2>1, <2>3, <3>1 DEF Reading
    <3> QED
      BY <1>1, <2>1, <2>2, <3>1, <3>2, OwnGoOn
  <2>4. CASE job["cb"].kind # "descriptor"
    BY <1>1, <1>12, <2>1, <2>2, <2>4, OwnFinish DEF Store
  <2> QED
    BY <2>3, <2>4
<1>13. CASE StoreAgain
  <2>1. UNCHANGED <<inbox, pairs>> /\ pc["cb"] = "again" /\ pc["cb"] # "idle"
        /\ SetZcb(my["cb"]) /\ Done("cb")
    BY <1>13 DEF StoreAgain, network
  <2> QED
    BY <1>1, <2>1, OwnSet, OwnFinish
<1> QED
  BY <1>3, <1>4, <1>5, <1>6, <1>7, <1>10, <1>11, <1>12, <1>13 DEF Callback

\* The network and the other process leave the threads alone.
LEMMA NetworkOwn ==
  ASSUME OInv, IInv', PairsOwn', MsgsOwn', pairs \subseteq pairs', UNCHANGED threads,
         zcb' = zcb \/ zcb' = [k \in Rows |-> FreeRow],
         inbox' = inbox \/ \E m : Sent(m) /\ inbox' = Append(inbox, m)
  PROVE  OInv'
<1>1. UNCHANGED <<pc, job, my, ext>> /\ inbox \in Seq(Jobs)
  BY DEF threads, OInv, IInv, TypeOK
<1>2. \A i \in 1 .. Len(inbox') : inbox'[i].kind = "formed" =>
        i \in 1 .. Len(inbox) /\ inbox'[i] = inbox[i]
  <2>1. ASSUME NEW m, Sent(m), inbox' = Append(inbox, m), NEW i \in 1 .. Len(inbox'),
               inbox'[i].kind = "formed"
        PROVE  i \in 1 .. Len(inbox) /\ inbox'[i] = inbox[i]
    <3>1. inbox'[i] = m \/ (i \in 1 .. Len(inbox) /\ inbox'[i] = inbox[i])
      BY <1>1, <2>1 DEF Sent
    <3> QED
      BY <2>1, <3>1 DEF Sent
  <2> QED
    BY <2>1
<1>3. Forming' => Forming
  BY <1>1, <1>2 DEF Forming
<1>4. \A k \in Rows : zcb'[k] = zcb[k] \/ zcb'[k].status = "FREE"
  BY DEF FreeRow, Cleared
<1>5. FormedFirst'
  BY <1>1, <1>2, <1>3, <1>4 DEF OInv, FormedFirst, InUse
<1>6. RowsOwn' /\ ReadOwn'
  BY <1>1, <1>4 DEF OInv, RowsOwn, RowOwn, ReadOwn, Reading
<1> QED
  BY <1>5, <1>6 DEF OInv

LEMMA NextOwn == "reuse" \notin Faults => (OInv /\ [Next]_vars => OInv')
<1> SUFFICES ASSUME "reuse" \notin Faults, OInv, [Next]_vars PROVE OInv'
  OBVIOUS
<1>1. IInv'
  BY NextInv DEF OInv
<1>2. PairsOwn' /\ pairs \subseteq pairs'
  BY PairsOwnStep
<1>3. MsgsOwn'
  BY <1>1, <1>2, MsgsOwnStep
<1>4. ~Handle => inbox' = inbox \/ \E m : Sent(m) /\ inbox' = Append(inbox, m)
  BY InboxSteps DEF OInv
<1>5. CASE UNCHANGED vars
  <2>1. UNCHANGED <<zcb, inbox>> /\ UNCHANGED threads
    BY <1>5 DEF vars, network
  <2> QED
    BY <1>1, <1>2, <1>3, <2>1, NetworkOwn
<1>6. CASE EmptyZcb
  BY <1>1, <1>2, <1>3, <1>6, NetworkOwn DEF EmptyZcb
<1>7. ASSUME NEW d \in Devices, Poll(d) \/ (\E s \in Addrs : Join(d, s))
                                \/ \E kind \in {"leave", "rejoin"} : Leave(d, kind)
      PROVE  OInv'
  <2>1. CASE Poll(d)
    BY <1>1, <1>2, <1>3, <2>1, PollOwn
  <2>2. CASE ~Poll(d)
    <3>1. UNCHANGED zcb /\ UNCHANGED threads
          /\ (inbox' = inbox \/ \E m : Sent(m) /\ inbox' = Append(inbox, m))
      BY <1>7, <2>2 DEF Join, Leave, Tell, Msg, Sent, Jobs, Macs
    <3> QED
      BY <1>1, <1>2, <1>3, <3>1, NetworkOwn
  <2> QED
    BY <2>1, <2>2
<1>8. ASSUME NEW q \in asked, Answer(q)
      PROVE  OInv'
  <2>1. UNCHANGED zcb /\ UNCHANGED threads
    BY <1>8 DEF Answer
  <2>2. CASE Handle
    BY <1>1, <1>2, <1>3, <2>2, HandleOwn
  <2>3. CASE ~Handle
    BY <1>1, <1>2, <1>3, <1>4, <2>1, <2>3, NetworkOwn
  <2> QED
    BY <2>2, <2>3
<1> QED
  BY <1>1, <1>2, <1>3, <1>5, <1>6, <1>7, <1>8, MainOwn, CallbackOwn DEF Next


-----------------------------------------------------------------------------
(* The mac is a key, until a thread writes over what another actor wrote   *)

Unique == \A i, j \in Rows : InUse(i) /\ InUse(j) /\ zcb[i].mac = zcb[j].mac => i = j

\* What a thread knows of the table while nobody else has written it: no row has the
\* mac of its job, or the row of its copy still is that of the device.
Sure(place, j, c) ==
    /\ place = "new" => WithMac(j.d) = {}
    /\ place \in {"set", "store", "again"} =>
         c.id \in Rows /\ InUse(c.id) /\ zcb[c.id].mac = c.row.mac

KeyInv == raced \/ (Unique /\ \A t \in Threads \ stale : Sure(pc[t], job[t], my[t]))

\* Only thread t moves.
Only(t) == \A u \in Threads \ {t} : pc'[u] = pc[u] /\ job'[u] = job[u] /\ my'[u] = my[u]

LEMMA Moves ==
  ASSUME IInv, NEW t \in Threads
  PROVE  /\ \A place : Goto(t, place) => pc'[t] = place
         /\ \A c : Keep(t, c) => my'[t] = c
         /\ Done(t) => Only(t) /\ pc'[t] = "idle"
         /\ \A place : Goto(t, place) /\ UNCHANGED <<job, my>> => Only(t)
         /\ \A place, c : Goto(t, place) /\ UNCHANGED job /\ Keep(t, c) => Only(t)
BY DEF IInv, TypeOK, Goto, Keep, Done, Only

\* A step that does not write the table.
LEMMA KeyRead ==
  ASSUME KeyInv, NEW t \in Threads, Only(t), UNCHANGED <<zcb, raced>>,
         stale' = stale \/ stale' = stale \ {t},
         raced \/ t \in stale' \/ Sure(pc'[t], job'[t], my'[t])
  PROVE  KeyInv'
<1>1. CASE raced
  BY <1>1 DEF KeyInv
<1>2. CASE ~raced
  <2>1. Unique'
    BY <1>2 DEF KeyInv, Unique, InUse
  <2>2. ASSUME NEW u \in Threads \ stale'
        PROVE  (Sure(pc[u], job[u], my[u]))'
    <3>1. Sure(pc'[u], job'[u], my'[u])
      <4>1. CASE u = t
        BY <1>2, <2>2, <4>1
      <4>2. CASE u # t
        BY <1>2, <2>2, <4>2 DEF KeyInv, Only
      <4> QED
        BY <4>1, <4>2
    <3> QED
      BY <3>1 DEF Sure, WithMac, InUse
  <2> QED
    BY <2>1, <2>2 DEF KeyInv
<1> QED
  BY <1>1, <1>2

\* A step that writes it: the others know nothing any more.
LEMMA KeyWrite ==
  ASSUME IInv, KeyInv, NEW t \in Threads, Only(t), Wrote(t),
         raced \/ t \in stale \/ (Unique' /\ (Sure(pc[t], job[t], my[t]))')
  PROVE  KeyInv'
<1>1. CASE raced \/ t \in stale
  BY <1>1 DEF KeyInv, Wrote
<1>2. CASE ~raced /\ t \notin stale
  <2>1. ASSUME NEW u \in Threads \ stale'
        PROVE  (Sure(pc[u], job[u], my[u]))'
    <3>1. CASE u = t
      BY <1>2, <3>1
    <3>2. CASE u # t
      BY <2>1, <3>2 DEF Wrote, Only, Sure
    <3> QED
      BY <3>1, <3>2
  <2> QED
    BY <1>2, <2>1 DEF KeyInv
<1> QED
  BY <1>1, <1>2

\* A copy goes back to the row of its device.
LEMMA KeySet ==
  ASSUME IInv, KeyInv, NEW t \in Threads, pc[t] \in {"set", "store", "again"}, SetZcb(my[t]),
         ~raced, t \notin stale
  PROVE  /\ Unique'
         /\ my[t].row.status # "FREE" =>
              /\ my[t].id \in Rows
              /\ zcb'[my[t].id].status # "FREE" /\ zcb'[my[t].id].mac = my[t].row.mac
<1>1. my[t].id \in Rows /\ InUse(my[t].id) /\ zcb[my[t].id].mac = my[t].row.mac /\ Unique
  BY DEF KeyInv, Sure
<1>2. PICK r : /\ zcb' = [zcb EXCEPT ![my[t].id] = r]
               /\ r = IF my[t].row.status = "FREE" THEN FreeRow ELSE my[t].row
  BY DEF SetZcb
<1>3. zcb'[my[t].id] = r /\ \A i \in Rows : i # my[t].id => zcb'[i] = zcb[i]
  BY <1>1, <1>2 DEF IInv, TypeOK
<1>4. FreeRow.status = "FREE"
  BY DEF FreeRow, Cleared
<1>5. my[t].row.status # "FREE" =>
        zcb'[my[t].id].status # "FREE" /\ zcb'[my[t].id].mac = my[t].row.mac
  BY <1>2, <1>3
<1>6. Unique'
  BY <1>1, <1>2, <1>3, <1>4 DEF Unique, InUse
<1> QED
  BY <1>1, <1>5, <1>6


\* zcbAddNode looks for the mac before it enters it.
LEMMA AddNodeKey ==
  ASSUME OInv, KeyInv, NEW t \in Threads, AddNode(t)
  PROVE  KeyInv'
<1>1. IInv
  BY DEF OInv
<1>2. pc[t] # "idle" /\ UNCHANGED job
      /\ (pc[t] \in {"bySaddr", "byMac", "new", "set"} => job[t].kind \in Adding)
  BY <1>1 DEF AddNode, AddBySaddr, AddByMac, AddNew, AddSet, IInv, ThreadsTrue, Fits
<1>3. job[t].kind \in Adding => AfterAdd(t) \notin {"new", "set", "store", "again"}
  BY DEF Adding, AfterAdd
<1>4. CASE AddBySaddr(t)
  <2> DEFINE i == Min(WithSaddr(job[t].s))
             c == Joined(i, job[t].d, zcb[i].saddr, zcb[i].type)
  <2>1. UNCHANGED <<zcb, raced, stale>>
    BY <1>4 DEF AddBySaddr, history
  <2>2. CASE WithSaddr(job[t].s) = {}
    <3>1. Goto(t, "byMac") /\ UNCHANGED my
      BY <1>4, <2>2 DEF AddBySaddr
    <3>2. Only(t) /\ pc'[t] = "byMac"
      BY <1>1, <1>2, <3>1, Moves
    <3>3. Sure(pc'[t], job'[t], my'[t])
      BY <3>2 DEF Sure
    <3> QED
      BY <2>1, <3>2, <3>3, KeyRead
  <2>3. CASE WithSaddr(job[t].s) # {}
    <3>1. Keep(t, c) /\ Goto(t, "set")
      BY <1>4, <2>3 DEF AddBySaddr
    <3>2. i \in Rows /\ InUse(i) /\ zcb[i].saddr = job[t].s
      BY <2>3, Lookups
    <3>3. zcb[i].mac = job[t].d
      BY <1>2, <1>4, <3>2, SameMac DEF AddBySaddr
    <3>4. c.id = i /\ c.row.mac = job[t].d
      BY DEF Joined
    <3>5. Sure("set", job[t], c)
      <4> HIDE DEF i, c
      <4> QED
        BY <3>2, <3>3, <3>4 DEF Sure
    <3> HIDE DEF c
    <3>6. Only(t) /\ pc'[t] = "set" /\ job'[t] = job[t] /\ my'[t] = c
      BY <1>1, <1>2, <3>1, Moves
    <3> QED
      BY <2>1, <3>5, <3>6, KeyRead
  <2> QED
    BY <2>2, <2>3
<1>5. CASE AddByMac(t)
  <2> DEFINE i == Min(WithMac(job[t].d))
             c == Joined(i, zcb[i].mac, job[t].s, zcb[i].type)
  <2>1. UNCHANGED <<zcb, raced, stale>>
    BY <1>5 DEF AddByMac, history
  <2>2. CASE WithMac(job[t].d) = {}
    <3>1. Goto(t, "new") /\ UNCHANGED my
      BY <1>5, <2>2 DEF AddByMac
    <3>2. Only(t) /\ pc'[t] = "new" /\ job'[t] = job[t]
      BY <1>1, <1>2, <3>1, Moves
    <3>3. Sure(pc'[t], job'[t], my'[t])
      BY <2>2, <3>2 DEF Sure
    <3> QED
      BY <2>1, <3>2, <3>3, KeyRead
  <2>3. CASE WithMac(job[t].d) # {}
    <3>1. Keep(t, c) /\ Goto(t, "set")
      BY <1>5, <2>3 DEF AddByMac
    <3>2. i \in Rows /\ InUse(i)
      BY <2>3, Lookups
    <3>3. c.id = i /\ c.row.mac = zcb[i].mac
      BY DEF Joined
    <3>4. Sure("set", job[t], c)
      <4> HIDE DEF i, c
      <4> QED
        BY <3>2, <3>3 DEF Sure
    <3> HIDE DEF c
    <3>5. Only(t) /\ pc'[t] = "set" /\ job'[t] = job[t] /\ my'[t] = c
      BY <1>1, <1>2, <3>1, Moves
    <3> QED
      BY <2>1, <3>4, <3>5, KeyRead
  <2> QED
    BY <2>2, <2>3
<1>6. CASE AddNew(t)
  <2>1. PICK i \in Slots :
          /\ zcb' = IF i = 0 THEN zcb ELSE [zcb EXCEPT ![i] = Cleared("USED", job[t].d)]
          /\ IF i # 0 /\ ~InUse(i)
                THEN Keep(t, Joined(i, job[t].d, job[t].s, Unknown)) /\ Goto(t, "set")
                ELSE Goto(t, AfterAdd(t)) /\ UNCHANGED my
    BY <1>6 DEF AddNew
  <2>2. i \in Rows \cup {0} /\ pc[t] = "new" /\ Wrote(t)
    BY <1>6, Lookups DEF AddNew
  <2>3. zcb \in [Rows -> Row]
    BY <1>1 DEF IInv, TypeOK
  <2>4. i # 0 => /\ zcb'[i].status = "USED" /\ zcb'[i].mac = job[t].d
                 /\ \A k \in Rows : k # i => zcb'[k] = zcb[k]
    BY <2>1, <2>2, <2>3 DEF Cleared
  <2>5. ~raced /\ t \notin stale => Unique /\ \A k \in Rows : InUse(k) => zcb[k].mac # job[t].d
    BY <2>2 DEF KeyInv, Sure, WithMac
  <2>6. ~raced /\ t \notin stale => Unique'
    BY <2>1, <2>2, <2>4, <2>5 DEF Unique, InUse
  <2>7. CASE i # 0 /\ ~InUse(i)
    <3> DEFINE c == Joined(i, job[t].d, job[t].s, Unknown)
    <3>1. Keep(t, c) /\ Goto(t, "set")
      BY <2>1, <2>7
    <3>2. c.id = i /\ c.row.mac = job[t].d
      BY DEF Joined
    <3> HIDE DEF c
    <3>3. Only(t) /\ pc'[t] = "set" /\ job'[t] = job[t] /\ my'[t] = c
      BY <1>1, <1>2, <3>1, Moves
    <3>4. (Sure(pc[t], job[t], my[t]))'
      BY <2>2, <2>4, <2>7, <3>2, <3>3 DEF Sure, InUse
    <3> QED
      BY <1>1, <2>2, <2>6, <3>3, <3>4, KeyWrite
  <2>8. CASE ~(i # 0 /\ ~InUse(i))
    <3>1. Goto(t, AfterAdd(t)) /\ UNCHANGED <<job, my>>
      BY <1>2, <2>1, <2>8
    <3>2. Only(t) /\ pc'[t] \notin {"new", "set", "store", "again"}
      BY <1>1, <1>2, <1>3, <2>2, <3>1, Moves
    <3>3. (Sure(pc[t], job[t], my[t]))'
      BY <3>2 DEF Sure
    <3> QED
      BY <1>1, <2>2, <2>6, <3>2, <3>3, KeyWrite
  <2> QED
    BY <2>7, <2>8
<1>7. CASE AddSet(t)
  <2>1. pc[t] = "set" /\ SetZcb(my[t]) /\ Wrote(t) /\ Goto(t, AfterAdd(t)) /\ UNCHANGED <<job, my>>
    BY <1>7 DEF AddSet
  <2>2. Only(t) /\ pc'[t] \notin {"new", "set", "store", "again"}
    BY <1>1, <1>2, <1>3, <2>1, Moves
  <2>3. (Sure(pc[t], job[t], my[t]))'
    BY <2>2 DEF Sure
  <2>4. ~raced /\ t \notin stale => Unique'
    BY <1>1, <2>1, KeySet
  <2> QED
    BY <1>1, <2>1, <2>2, <2>3, <2>4, KeyWrite
<1> QED
  BY <1>4, <1>5, <1>6, <1>7 DEF AddNode

\* The handlers of the callback thread change the row of one device only.
LEMMA CallbackKey ==
  ASSUME OInv, KeyInv, Callback
  PROVE  KeyInv'
<1>1. IInv /\ "cb" \in Threads /\ Fits(pc["cb"], job["cb"].kind) /\ Reading(pc["cb"], job["cb"], my["cb"], ext)
  BY DEF OInv, Threads, IInv, ThreadsTrue, ReadOwn
<1>2. Sure("idle", job'["cb"], my'["cb"]) /\ Sure("read", job'["cb"], my'["cb"])
  BY DEF Sure
<1>3. (pc'["cb"] = "idle" => (Sure(pc["cb"], job["cb"], my["cb"]))')
  BY DEF Sure
\* A copy of a row that was looked up.
<1>4. ASSUME NEW i \in Rows, InUse(i), NEW c, c.id = i, c.row.mac = zcb[i].mac,
             Keep("cb", c), Goto("cb", "store"), UNCHANGED <<zcb, job, raced, stale>>
      PROVE  KeyInv'
  <2>1. Only("cb") /\ pc'["cb"] = "store" /\ my'["cb"] = c
    BY <1>1, <1>4, Moves
  <2>2. Sure("store", job'["cb"], c)
    BY <1>4 DEF Sure
  <2> QED
    BY <1>1, <1>4, <2>1, <2>2, KeyRead
\* Nothing was to be done.
<1>5. ASSUME Done("cb"), UNCHANGED <<zcb, raced, stale>>
      PROVE  KeyInv'
  BY <1>1, <1>2, <1>5, Moves, KeyRead
<1>6. CASE AddNode("cb")
  BY <1>1, <1>6, AddNodeKey
<1>7. CASE Handle
  <2> DEFINE m == Head(inbox)
             place == CASE m.kind \in {"formed", "announce"}      -> "bySaddr"
                        [] m.kind \in {"leave", "rejoin"}         -> "left"
                        [] m.kind \in {"descriptor", "attribute"} -> "identify"
  <2>1. /\ inbox # <<>> /\ job' = [job EXCEPT !["cb"] = m] /\ Goto("cb", place)
        /\ UNCHANGED <<zcb, my, raced>> /\ stale' = stale \ {"cb"}
    BY <1>7 DEF Handle, Begin
  <2>2. m \in Jobs /\ m.kind \notin {"none", "poll"}
    <3>1. inbox \in Seq(Jobs)
      BY <1>1 DEF IInv, TypeOK
    <3>2. 1 \in 1 .. Len(inbox) /\ m = inbox[1] /\ m \in Jobs
      BY <2>1, <3>1
    <3> HIDE DEF m
    <3> QED
      BY <1>1, <3>2 DEF IInv, InboxTrue
  <2> HIDE DEF m
  <2>3. place \in {"bySaddr", "left", "identify"}
    BY <2>2 DEF Jobs
  <2> HIDE DEF place
  <2>4. Only("cb") /\ pc'["cb"] = place
    BY <1>1, <2>1 DEF IInv, TypeOK, Goto, Only
  <2>5. Sure(pc'["cb"], job'["cb"], my'["cb"])
    BY <2>3, <2>4 DEF Sure
  <2> QED
    BY <1>1, <2>1, <2>4, <2>5, KeyRead
<1>8. CASE CheckType
  BY <1>5, <1>8 DEF CheckType, history
<1>9. CASE SetDeviceID
  <2> DEFINE i == Min(WithSaddr(0))
             c == [Copy(i) EXCEPT !.row.type = Coordinator]
  <2>1. UNCHANGED <<zcb, raced, stale>>
    BY <1>9 DEF SetDeviceID, history
  <2>2. CASE Done("cb")
    BY <1>5, <2>1, <2>2
  <2>3. CASE WithSaddr(0) # {} /\ Keep("cb", c) /\ Goto("cb", "store") /\ UNCHANGED job
    <3>1. i \in Rows /\ InUse(i)
      BY <2>3, Lookups
    <3>2. c = [id |-> i, row |-> [status |-> zcb[i].status, mac |-> zcb[i].mac,
                                  saddr |-> zcb[i].saddr, type |-> Coordinator]]
      <4> HIDE DEF i
      <4> QED
        BY <1>1, <3>1, CopyChanged, Zenon
    <3> HIDE DEF c
    <3>3. c.id = i /\ c.row.mac = zcb[i].mac
      BY <3>2
    <3> HIDE DEF i
    <3> QED
      BY <1>4, <2>1, <2>3, <3>1, <3>3
  <2> QED
    BY <1>9, <2>2, <2>3 DEF SetDeviceID
<1>10. CASE NodeLeft
  <2> DEFINE i == Min(WithMac(job["cb"].d))
             st == IF job["cb"].kind = "rejoin" THEN "LEFT" ELSE "FREE"
             c == [Copy(i) EXCEPT !.row.status = st]
  <2>1. UNCHANGED <<zcb, raced, stale>>
    BY <1>10 DEF NodeLeft, history
  <2>2. CASE Done("cb")
    BY <1>5, <2>1, <2>2
  <2>3. CASE WithMac(job["cb"].d) # {} /\ Keep("cb", c) /\ Goto("cb", "store") /\ UNCHANGED job
    <3>1. i \in Rows /\ InUse(i)
      BY <2>3, Lookups
    <3>2. c = [id |-> i, row |-> [status |-> st, mac |-> zcb[i].mac,
                                  saddr |-> zcb[i].saddr, type |-> zcb[i].type]]
      <4> HIDE DEF i, st
      <4> QED
        BY <1>1, <3>1, CopyChanged, Zenon
    <3> HIDE DEF c
    <3>3. c.id = i /\ c.row.mac = zcb[i].mac
      BY <3>2
    <3> HIDE DEF i
    <3> QED
      BY <1>4, <2>1, <2>3, <3>1, <3>3
  <2> QED
    BY <1>10, <2>2, <2>3 DEF NodeLeft
<1>11. CASE Identify
  <2>1. UNCHANGED <<zcb, job, my, raced, stale>> /\ Goto("cb", "read")
    BY <1>11 DEF Identify, history
  <2> QED
    BY <1>1, <1>2, <2>1, Moves, KeyRead
<1>12. CASE ReadRow
  <2> DEFINE i == Min(WithSaddr(job["cb"].s))
             d == [Copy(i) EXCEPT !.row.type = job["cb"].d]
             c == IF job["cb"].kind = "descriptor" THEN d ELSE Copy(i)
  <2>1. UNCHANGED <<zcb, raced, stale>>
    BY <1>12 DEF ReadRow, history
  <2>2. CASE Done("cb")
    BY <1>5, <2>1, <2>2
  <2>3. CASE WithSaddr(job["cb"].s) # {} /\ Keep("cb", c) /\ Goto("cb", "store") /\ UNCHANGED job
    <3>1. i \in Rows /\ InUse(i)
      BY <2>3, Lookups
    <3>2. d = [id |-> i, row |-> [status |-> zcb[i].status, mac |-> zcb[i].mac,
                                  saddr |-> zcb[i].saddr, type |-> job["cb"].d]]
      <4> HIDE DEF i
      <4> QED
        BY <1>1, <3>1, CopyChanged, Zenon
    <3> HIDE DEF d
    <3>3. d.id = i /\ d.row.mac = zcb[i].mac
      BY <3>2
    <3>4. c.id = i /\ c.row.mac = zcb[i].mac
      BY <3>3 DEF Copy
    <3> HIDE DEF i, c
    <3> QED
      BY <1>4, <2>1, <2>3, <3>1, <3>4
  <2> QED
    BY <1>12, <2>2, <2>3 DEF ReadRow
<1>13. CASE Store
  <2>1. pc["cb"] = "store"
    BY <1>13 DEF Store
  <2>2. CASE SetZcb(my["cb"]) /\ Wrote("cb") /\ job["cb"].kind = "descriptor"
    <3>1. Goto("cb", "again") /\ UNCHANGED <<job, my>>
      BY <1>13, <2>2 DEF Store
    <3>2. Only("cb") /\ pc'["cb"] = "again" /\ my'["cb"] = my["cb"]
      BY <1>1, <3>1, Moves
    <3>3. my["cb"].row.status # "FREE"
      BY <1>1, <2>1, <2>2 DEF Reading
    <3>4. ~raced /\ "cb" \notin stale =>
            Unique' /\ my["cb"].id \in Rows
            /\ zcb'[my["cb"].id].status # "FREE" /\ zcb'[my["cb"].id].mac = my["cb"].row.mac
      BY <1>1, <2>1, <2>2, <3>3, KeySet
    <3>5. ~raced /\ "cb" \notin stale => (Sure(pc["cb"], job["cb"], my["cb"]))'
      BY <3>2, <3>4 DEF Sure, InUse
    <3> QED
      BY <1>1, <2>2, <3>2, <3>4, <3>5, KeyWrite
  <2>3. CASE SetZcb(my["cb"]) /\ Wrote("cb") /\ job["cb"].kind # "descriptor"
    <3>1. Only("cb") /\ pc'["cb"] = "idle"
      BY <1>1, <1>13, <2>3, Moves DEF Store
    <3>2. ~raced /\ "cb" \notin stale => Unique'
      BY <1>1, <2>1, <2>3, KeySet
    <3> QED
      BY <1>1, <1>3, <2>3, <3>1, <3>2, KeyWrite
  <2>4. CASE job["cb"].kind = "attribute" /\ UNCHANGED <<zcb, history>>
    BY <1>5, <1>13, <2>4 DEF Store, history
  <2> QED
    BY <1>13, <2>2, <2>3, <2>4 DEF Store
<1>14. CASE StoreAgain
  <2>1. pc["cb"] = "again" /\ SetZcb(my["cb"]) /\ Wrote("cb") /\ Done("cb")
    BY <1>14 DEF StoreAgain
  <2>2. Only("cb") /\ pc'["cb"] = "idle"
    BY <1>1, <2>1, Moves
  <2>3. ~raced /\ "cb" \notin stale => Unique'
    BY <1>1, <2>1, KeySet
  <2> QED
    BY <1>1, <1>3, <2>1, <2>2, <2>3, KeyWrite
<1> QED
  BY <1>6, <1>7, <1>8, <1>9, <1>10, <1>11, <1>12, <1>13, <1>14 DEF Callback

LEMMA NextKey == OInv /\ KeyInv /\ [Next]_vars => KeyInv'
<1> SUFFICES ASSUME OInv, KeyInv, [Next]_vars PROVE KeyInv'
  OBVIOUS
<1>1. IInv /\ "main" \in Threads
  BY DEF OInv, Threads
<1>2. ASSUME UNCHANGED zcb, UNCHANGED threads, UNCHANGED history
      PROVE  KeyInv'
  BY <1>2 DEF KeyInv, Unique, Sure, WithMac, InUse, threads, history
<1>3. CASE UNCHANGED vars
  BY <1>2, <1>3 DEF vars
<1>4. CASE \E d \in Devices, s \in Addrs : Join(d, s)
  BY <1>2, <1>4 DEF Join
<1>5. CASE \E d \in Devices, kind \in {"leave", "rejoin"} : Leave(d, kind)
  BY <1>2, <1>5 DEF Leave
<1>6. CASE \E q \in asked : Answer(q)
  BY <1>2, <1>6 DEF Answer
<1>7. CASE EmptyZcb
  <2>1. /\ zcb' = [i \in Rows |-> FreeRow] /\ UNCHANGED <<pc, job, my>>
        /\ stale' = {t \in Threads : pc[t] # "idle"} /\ UNCHANGED raced
    BY <1>7 DEF EmptyZcb, threads
  <2>2. Unique'
    BY <2>1 DEF Unique, InUse, FreeRow, Cleared
  <2>3. \A t \in Threads \ stale' : (Sure(pc[t], job[t], my[t]))'
    BY <2>1 DEF Sure
  <2> QED
    BY <2>2, <2>3 DEF KeyInv
<1>8. CASE \E d \in Devices : Poll(d)
  <2>1. PICK d \in Devices : Poll(d)
    BY <1>8
  <2>2. /\ Goto("main", "known") /\ UNCHANGED <<zcb, my, raced>> /\ stale' = stale \ {"main"}
        /\ job' = [job EXCEPT !["main"] = Msg("poll", addr[d], d)]
    BY <2>1 DEF Poll, Begin
  <2>3. Only("main") /\ pc'["main"] = "known"
    BY <1>1, <2>2 DEF IInv, TypeOK, Goto, Only
  <2>4. Sure("known", job'["main"], my'["main"])
    BY DEF Sure
  <2> QED
    BY <1>1, <2>2, <2>3, <2>4, KeyRead
<1>9. CASE Main
  <2>1. CASE AddNode("main")
    BY <1>1, <2>1, AddNodeKey
  <2>2. Sure("idle", job'["main"], my'["main"]) /\ Sure("bySaddr", job'["main"], my'["main"])
    BY DEF Sure
  <2>3. CASE Known \/ Request
    <3>1. /\ UNCHANGED <<zcb, raced, stale>>
          /\ Done("main") \/ (Goto("main", "bySaddr") /\ UNCHANGED <<job, my>>)
      BY <2>3 DEF Known, Request, history
    <3> QED
      BY <1>1, <2>2, <3>1, Moves, KeyRead
  <2> QED
    BY <1>9, <2>1, <2>3 DEF Main
<1> QED
  BY <1>3, <1>4, <1>5, <1>6, <1>7, <1>8, <1>9, CallbackKey DEF Next


LEMMA InitKey == Init => KeyInv
<1> SUFFICES ASSUME Init PROVE KeyInv
  OBVIOUS
<1>1. Unique
  BY DEF Init, Unique, InUse, FreeRow, Cleared
<1>2. \A t \in Threads : Sure(pc[t], job[t], my[t])
  BY DEF Init, Sure
<1> QED
  BY <1>1, <1>2 DEF KeyInv

LEMMA Own ==
  ASSUME "reuse" \notin Faults
  PROVE  Spec => [](OInv /\ KeyInv)
<1>1. OInv /\ KeyInv /\ [Next]_vars => OInv' /\ KeyInv'
  BY NextOwn, NextKey
<1> QED
  BY InitOInv, InitKey, <1>1, PTL DEF Spec

-----------------------------------------------------------------------------
(* Theorems                                                                *)

\* Every variable has its type: a copy of a row only goes back to a row, and every
\* request has an address, whatever the number of rows of the table (NEWDB_MAX_ZCB).
THEOREM NodesTypeCorrect == Spec => []TypeOK
<1>1. IInv => TypeOK
  BY DEF IInv
<1> QED
  BY InitInv, NextInv, <1>1, PTL DEF Spec

\* zcbAddNode and the handlers never pair a mac with an address its device did not
\* have, for any number of devices, addresses and rows, with resets by another process
\* and with addresses that go from one device to another.
THEOREM PairsCorrect == Spec => []JoinedPairWasTrue
<1>1. IInv => JoinedPairWasTrue
  BY DEF IInv
<1> QED
  BY InitInv, NextInv, <1>1, PTL DEF Spec

\* As long as the coordinator gives no address to a second device, a joined row has
\* the type its own device described, or none: zcbAddNode and the handlers read and
\* write the rows in several critical sections, and with any number of devices, rows
\* and resets no type ends up with the mac of another device.
THEOREM TypesStayOwn ==
  ASSUME "reuse" \notin Faults
  PROVE  Spec => []TypeIsOwn
<1>1. OInv => TypeIsOwn
  BY DEF OInv, RowsOwn, RowOwn, TypeIsOwn
<1> QED
  BY Own, <1>1, PTL

\* Under the same condition announceDevice never gives the type of one device to
\* another, although the handlers read the mac and the row of the sender in two
\* critical sections.
THEOREM AnnouncedTypesStayOwn ==
  ASSUME "reuse" \notin Faults
  PROVE  Spec => []AnnouncedIsOwn
<1>1. OInv => AnnouncedIsOwn
  BY DEF OInv, PairsOwn, ReadOwn, Reading, AnnouncedIsOwn, Announces
<1> QED
  BY Own, <1>1, PTL

\* And two rows only ever get the same mac when a thread writes the table after
\* another actor has written it under its job: what a lock that each job of the
\* callback thread and the main thread holds from beginning to end would rule out.
THEOREM MacStaysKey ==
  ASSUME "reuse" \notin Faults
  PROVE  Spec => []MacIsKey
<1>1. KeyInv => MacIsKey
  BY DEF KeyInv, Unique, MacIsKey
<1> QED
  BY Own, <1>1, PTL
=============================================================================
