-------------------------- MODULE DeviceTableProofs --------------------------
(* What the table of devices promises for any number of devices, rows,     *)
(* planners and editors, at whatever steps their jobs interleave.          *)
EXTENDS DeviceTable, WellFoundedInduction, TLAPS

Macs     == Devices \cup {NoMac}
Refs     == [id : Ids, mac : Macs]
Memories == [man : Refs, ui : Refs]
JobKinds == {"none", "announce", "report", "name", "control", "add", "parent"}
Jobs     == [kind : JobKinds, d : Macs, role : Kinds \cup {"none"}, par : Ids]
Copies   == [id : Ids, row : Row]

\* What a job at some place works on.
Fits(t, place, j, c) ==
    /\ j.kind = "name" => t \in Planners /\ j.role \in Kinds
    /\ place = "missing" => j.kind \notin {"none", "parent"} /\ j.d \in Devices
    /\ place = "found" => /\ c.id \in Rows
                          /\ j.kind # "parent" => j.d \in Devices /\ c.row.mac = j.d
    /\ place = "created" => /\ c.id \in Rows /\ c.row = NewRow(j.d) /\ j.d \in Devices
                            /\ j.kind \in {"announce", "name", "add"}

JobsFit ==
    /\ job \in [Threads -> Jobs] /\ cur \in [Planners -> Memories]
    /\ \A t \in Threads : Fits(t, pc[t], job[t], my[t])

\* A device that is not lost has one row.
OneRow ==
    \A i, k \in Rows :
        InUse(i) /\ devices[i].mac = devices[k].mac /\ devices[i].mac \notin lost => i = k

\* The flags tell who was named since the last clearall.
FlagsFit ==
    /\ \A i \in Rows : /\ devices[i].mac \in named => ~devices[i].clear
                       /\ devices[i].mac \in marked => devices[i].clear
    /\ named \cup marked \subseteq Present \ lost

\* The inductive invariant.
IInv == TypeOK /\ JobsFit /\ OneRow /\ FlagsFit

-----------------------------------------------------------------------------
(* Lemmas                                                                  *)

LEMMA Least ==
  ASSUME NEW S \in SUBSET Nat, S # {}
  PROVE  Min(S) \in S
<1> DEFINE Less == OpToRel(<, Nat)
<1>1. IsWellFoundedOn(Less, Nat)
  BY NatLessThanWellFounded
<1>2. \A x, y \in Nat : y < x => <<y, x>> \in Less
  BY DEF OpToRel
<1> HIDE DEF Less
<1>3. PICK x \in S : \A y \in S : ~ (<<y, x>> \in Less)
  BY <1>1, WFMin
<1>4. ASSUME NEW y \in S PROVE x <= y
  <2>1. x \in Nat /\ y \in Nat
    OBVIOUS
  <2>2. ~ (y < x)
    BY <1>2, <1>3, <2>1
  <2> QED
    BY <2>1, <2>2
<1> QED
  BY <1>4 DEF Min

\* newDbGetDevice finds a row with the mac, newDbGetNewDevice a free one.
LEMMA Lookups ==
  /\ \A d : WithMac(d) # {} => Min(WithMac(d)) \in Rows /\ devices[Min(WithMac(d))].mac = d
  /\ FreeRows # {} => Min(FreeRows) \in Rows /\ devices[Min(FreeRows)].mac = NoMac
<1>1. Rows \subseteq Nat
  BY DevicesAssumption DEF DevicesAssumption, Rows
<1>2. ASSUME NEW d, WithMac(d) # {} PROVE Min(WithMac(d)) \in WithMac(d)
  BY <1>1, <1>2, Least DEF WithMac
<1>3. FreeRows # {} => Min(FreeRows) \in FreeRows
  BY <1>1, Least DEF FreeRows
<1> QED
  BY <1>2, <1>3 DEF WithMac, FreeRows, InUse

LEMMA Basics ==
  /\ NoMac \notin Devices /\ "zcb" \notin Planners /\ 0 \in Ids /\ None \in Ids
  /\ Kind \in [Devices -> Kinds] /\ Parents \subseteq Ids /\ Rows \subseteq Ids
  /\ \A m \in Macs : NewRow(m) \in Row
  /\ NoRef \in Refs /\ NoRefs \in Memories /\ NoJob \in Jobs /\ NoCopy \in Copies
  /\ \A t : Fits(t, "idle", NoJob, NoCopy)
<1>1. /\ NoMac \notin Devices /\ "zcb" \notin Planners /\ 0 \in Rows
      /\ Kind \in [Devices -> Kinds] /\ Parents \subseteq Rows
  BY DevicesAssumption DEF DevicesAssumption, Rows
<1>2. \A m \in Macs : NewRow(m) \in Row
  BY <1>1 DEF NewRow, Row, Ids, Macs
<1> QED
  BY <1>1, <1>2 DEF Ids, NoRef, NoRefs, Ref, Refs, Memories, NoJob, Job, Jobs, JobKinds,
     NoCopy, Copies, FreeRow, Macs, Fits

\* The copy a thread writes back: a row of the same device, unflagged by a name.
LEMMA Written ==
  ASSUME IInv, NEW t \in Threads, pc[t] \in {"found", "created"},
         NEW r, r = IF pc[t] = "found" THEN Changed(t) ELSE ChangedNew(t)
  PROVE  /\ r \in Row /\ r.mac = my[t].row.mac
         /\ job[t].kind = "name" => ~r.clear
         /\ job[t].kind # "name" => r.clear = my[t].row.clear
<1> DEFINE x == my[t].row
           j == job[t]
<1>1. x \in Row /\ j \in Jobs /\ Fits(t, pc[t], j, my[t])
  BY DEF IInv, TypeOK, JobsFit
<1>2. \A k \in Kinds : As(x, k) \in Row /\ As(x, k).mac = x.mac /\ As(x, k).clear = x.clear
  BY <1>1 DEF As, Row
<1>3. \A p \in Ids : LET y == [x EXCEPT !.par = p]
                     IN  y \in Row /\ y.mac = x.mac /\ y.clear = x.clear
  BY <1>1 DEF Row
<1>4. CASE j.kind = "name"
  <2>1. t \in Planners /\ j.role \in Kinds /\ cur[t] \in Memories
    BY <1>1, <1>4 DEF Fits, IInv, JobsFit
  <2>2. \A role \in {"ui", "sen"} : Parent(cur[t], role).id \in Ids
    BY <2>1 DEF Parent, Memories, Refs
  <2>3. \A y \in Row : \A p \in Refs :
           Under(y, p) \in Row /\ Under(y, p).mac = y.mac /\ Under(y, p).clear = y.clear
    BY DEF Under, Row, Refs
  <2>4. \A role \in {"ui", "sen"} : Parent(cur[t], role) \in Refs
    BY <2>1 DEF Parent, Memories
  <2>5. CASE pc[t] = "found"
    <3>1. Renamed(x, j.role) \in Row /\ Renamed(x, j.role).mac = x.mac
      BY <1>1, <1>2, <2>1 DEF Renamed, Kinds
    <3>2. \A y \in Row : /\ Unflagged(y) \in Row /\ Unflagged(y).mac = y.mac
                         /\ ~Unflagged(y).clear
      BY DEF Unflagged, Row
    <3>3. r = Named(x, j.role, cur[t])
      BY <1>4, <2>5 DEF Changed
    <3> DEFINE s == Unflagged(Renamed(x, j.role))
    <3>4. s \in Row /\ s.mac = x.mac /\ ~s.clear
      BY <3>1, <3>2
    <3>5. r = s \/ \E p \in Refs : r = Under(s, p)
      BY <2>4, <3>3 DEF Named, TakesParent, IsChild
    <3> HIDE DEF s
    <3>6. r \in Row /\ r.mac = s.mac /\ r.clear = s.clear
      BY <2>3, <3>4, <3>5
    <3> QED
      BY <1>4, <3>4, <3>6
  <2>6. CASE pc[t] = "created"
    <3>1. r = NamedNew(x, j.role, cur[t]) /\ ~x.clear
      BY <1>1, <1>4, <2>6 DEF ChangedNew, Fits, NewRow
    <3> QED
      BY <1>2, <1>4, <2>1, <2>3, <2>4, <3>1 DEF NamedNew, IsChild
  <2> QED
    BY <2>5, <2>6
<1>5. CASE j.kind # "name"
  <2>1. CASE pc[t] = "found"
    <3>1. j.kind = "announce" => Kind[j.d] \in Kinds
      BY <1>1, <2>1, Basics DEF Fits
    <3>2. j.par \in Ids
      BY <1>1 DEF Jobs
    <3> QED
      BY <1>1, <1>2, <1>3, <1>5, <2>1, <3>1, <3>2 DEF Changed
  <2>2. CASE pc[t] = "created"
    BY <1>1, <1>2, <1>5, <2>2, Basics DEF Fits, ChangedNew
  <2> QED
    BY <2>1, <2>2
<1> QED
  BY <1>4, <1>5

\* What a planner remembers keeps its type.
LEMMA Remembered ==
  ASSUME IInv, NEW t \in Threads, NEW ref \in Refs, Remember(t, ref)
  PROVE  cur' \in [Planners -> Memories]
<1>1. CASE job[t].kind = "name"
  <2>1. t \in Planners
    BY <1>1 DEF IInv, JobsFit, Fits
  <2>2. Remembers(cur[t], job[t].role, ref) \in Memories
    BY <2>1, Basics DEF Remembers, Memories, IInv, JobsFit
  <2> QED
    BY <1>1, <2>1, <2>2 DEF Remember, IInv, JobsFit
<1>2. CASE job[t].kind # "name"
  BY <1>2 DEF Remember, IInv, JobsFit
<1> QED
  BY <1>1, <1>2

-----------------------------------------------------------------------------
(* Every step keeps the invariant                                          *)

LEMMA InitIInv == Init => IInv
<1> SUFFICES ASSUME Init PROVE IInv
  OBVIOUS
<1>1. FreeRow \in Row /\ FreeRow.mac = NoMac
  BY Basics DEF FreeRow, NewRow, Macs
<1>2. TypeOK
  BY <1>1, Basics DEF Init, TypeOK, Copies
<1>3. JobsFit
  BY Basics DEF Init, JobsFit
<1>4. OneRow /\ FlagsFit
  BY <1>1 DEF Init, OneRow, FlagsFit, InUse
<1> QED
  BY <1>2, <1>3, <1>4 DEF IInv

\* Where a thread goes: its job and its copy fit, what the planners remember has its type.
LEMMA Moved ==
  ASSUME IInv, NEW t \in Threads, NEW j \in Jobs, NEW c \in Copies,
         NEW place \in {"idle", "found", "missing", "created"},
         Goto(t, place), SetJob(t, j), Keep(t, c), Fits(t, place, j, c),
         cur' \in [Planners -> Memories]
  PROVE  /\ JobsFit'
         /\ pc' \in [Threads -> {"idle", "found", "missing", "created"}]
         /\ my' \in [Threads -> [id : Ids, row : Row]]
         /\ \A u \in Threads : pc'[u] \in {"found", "created"} => my'[u].id \in Rows
<1>1. \A u \in Threads : /\ pc'[u] = (IF u = t THEN place ELSE pc[u])
                         /\ job'[u] = (IF u = t THEN j ELSE job[u])
                         /\ my'[u] = (IF u = t THEN c ELSE my[u])
  BY DEF Goto, SetJob, Keep, IInv, TypeOK, JobsFit
<1>2. /\ pc' \in [Threads -> {"idle", "found", "missing", "created"}]
      /\ my' \in [Threads -> Copies] /\ job' \in [Threads -> Jobs]
  BY DEF Goto, SetJob, Keep, IInv, TypeOK, JobsFit, Copies
<1>3. JobsFit'
  BY <1>1, <1>2 DEF IInv, JobsFit, Fits
<1>4. \A u \in Threads : pc'[u] \in {"found", "created"} => my'[u].id \in Rows
  BY <1>1 DEF IInv, TypeOK, Fits
<1> QED
  BY <1>2, <1>3, <1>4 DEF Copies

\* What is said of the table alone does not change with the threads.
LEMMA TableStays ==
  ASSUME IInv, UNCHANGED <<devices, history>>
  PROVE  OneRow' /\ FlagsFit'
BY DEF IInv, OneRow, FlagsFit, InUse, Present, WithMac, history

\* A job that ends without a write.
LEMMA Ended ==
  ASSUME IInv, NEW t \in Threads, Done(t), cur' \in [Planners -> Memories],
         UNCHANGED <<devices, history>>
  PROVE  IInv'
<1>1. Fits(t, "idle", NoJob, NoCopy) /\ NoJob \in Jobs /\ NoCopy \in Copies
  BY Basics
<1>2. /\ JobsFit'
      /\ pc' \in [Threads -> {"idle", "found", "missing", "created"}]
      /\ my' \in [Threads -> [id : Ids, row : Row]]
      /\ \A u \in Threads : pc'[u] \in {"found", "created"} => my'[u].id \in Rows
  BY <1>1, Moved DEF Done
<1> QED
  BY <1>2, TableStays DEF IInv, TypeOK, history

\* A job begins with a copy of a row, or without one.
LEMMA Begun ==
  ASSUME IInv, NEW t \in Threads, NEW j \in Jobs, j.kind # "none",
         j.kind = "name" => t \in Planners /\ j.role \in Kinds,
         \/ j.d \in Devices /\ j.kind # "parent" /\ Get(t, j)
         \/ /\ j.kind = "parent" /\ SetJob(t, j) /\ Goto(t, "found")
            /\ \E i \in Rows : Keep(t, Copy(i))
            /\ UNCHANGED <<devices, cur, history>>
  PROVE  IInv'
<1>1. UNCHANGED <<devices, cur, history>> /\ SetJob(t, j)
  BY DEF Get, Begin
<1>2. \A i \in Rows : Copy(i) \in Copies /\ Copy(i).id = i /\ Copy(i).row = devices[i]
  BY DEF Copy, Copies, Ids, IInv, TypeOK
<1>3. PICK place \in {"found", "missing"}, c \in Copies :
         Goto(t, place) /\ Keep(t, c) /\ Fits(t, place, j, c)
  <2>1. CASE j.kind = "parent"
    BY <1>2, <2>1 DEF Fits
  <2>2. CASE j.kind # "parent" /\ WithMac(j.d) = {}
    BY <2>2, Basics DEF Fits, Get
  <2>3. CASE j.kind # "parent" /\ WithMac(j.d) # {}
    <3>1. Min(WithMac(j.d)) \in Rows /\ devices[Min(WithMac(j.d))].mac = j.d
      BY <2>3, Lookups
    <3> QED
      BY <1>2, <2>3, <3>1 DEF Fits, Get
  <2> QED
    BY <2>1, <2>2, <2>3
<1>4. cur' \in [Planners -> Memories]
  BY <1>1 DEF IInv, JobsFit
<1>5. /\ JobsFit'
      /\ pc' \in [Threads -> {"idle", "found", "missing", "created"}]
      /\ my' \in [Threads -> [id : Ids, row : Row]]
      /\ \A u \in Threads : pc'[u] \in {"found", "created"} => my'[u].id \in Rows
  BY <1>1, <1>3, <1>4, Moved
<1> QED
  BY <1>1, <1>5, TableStays DEF IInv, TypeOK, history

LEMMA BeginSteps ==
  ASSUME IInv,
         \/ \E d \in Devices : Announce(d) \/ Report(d)
         \/ \E t \in Planners, d \in Devices : \E role \in Roles[d] : Name(t, d, role)
         \/ \E t \in Editors, d \in Edited : Control(t, d) \/ Add(t, d)
         \/ \E t \in Editors, i \in Rows, par \in Parents : EditParent(t, i, par)
  PROVE  IInv'
<1>1. ASSUME NEW k \in JobKinds, NEW d \in Macs, NEW role \in Kinds \cup {"none"}, NEW par \in Ids
      PROVE  /\ Job(k, d, role, par) \in Jobs /\ Job(k, d, role, par).kind = k
             /\ Job(k, d, role, par).d = d /\ Job(k, d, role, par).role = role
  BY DEF Job, Jobs
<1>2. /\ Edited \subseteq Devices /\ \A d \in Devices : Roles[d] \subseteq Kinds
      /\ {"zcb"} \cup Planners \cup Editors = Threads
  BY DevicesAssumption DEF DevicesAssumption, Threads
<1>3. ASSUME NEW d \in Devices, Announce(d) \/ Report(d) PROVE IInv'
  <2>1. PICK k \in {"announce", "report"} : Get("zcb", Job(k, d, "none", None))
    BY <1>3 DEF Announce, Report
  <2> DEFINE j == Job(k, d, "none", None)
  <2>2. j \in Jobs /\ j.kind = k /\ j.d = d
    <3>1. k \in JobKinds /\ d \in Macs /\ None \in Ids
      BY Basics DEF JobKinds, Macs
    <3> QED
      BY <1>1, <3>1
  <2> HIDE DEF j
  <2> QED
    BY <1>2, <2>1, <2>2, Begun DEF j
<1>4. ASSUME NEW t \in Planners, NEW d \in Devices, NEW role \in Roles[d], Name(t, d, role)
      PROVE  IInv'
  <2> DEFINE j == Job("name", d, role, None)
  <2>1. role \in Kinds
    BY <1>2
  <2>2. j \in Jobs /\ j.kind = "name" /\ j.d = d /\ j.role = role
    BY <1>1, <2>1, Basics DEF JobKinds, Macs
  <2>3. Get(t, j)
    BY <1>4 DEF Name
  <2> HIDE DEF j
  <2> QED
    BY <1>2, <2>1, <2>2, <2>3, Begun
<1>5. ASSUME NEW t \in Editors, NEW d \in Edited, Control(t, d) \/ Add(t, d)
      PROVE  IInv'
  <2>1. PICK k \in {"control", "add"} : Get(t, Job(k, d, "none", None))
    BY <1>5 DEF Control, Add
  <2> DEFINE j == Job(k, d, "none", None)
  <2>2. j \in Jobs /\ j.kind = k /\ j.d = d /\ d \in Devices
    <3>1. k \in JobKinds /\ d \in Macs /\ d \in Devices /\ None \in Ids
      BY <1>2, Basics DEF JobKinds, Macs
    <3> QED
      BY <1>1, <3>1
  <2> HIDE DEF j
  <2> QED
    BY <1>2, <2>1, <2>2, Begun DEF j
<1>6. ASSUME NEW t \in Editors, NEW i \in Rows, NEW par \in Parents, EditParent(t, i, par)
      PROVE  IInv'
  <2> DEFINE j == Job("parent", devices[i].mac, "none", par)
  <2>1. devices[i].mac \in Macs /\ par \in Ids
    BY Basics DEF IInv, TypeOK, Row, Macs
  <2>2. j \in Jobs /\ j.kind = "parent"
    BY <2>1 DEF Job, Jobs, JobKinds
  <2>3. /\ SetJob(t, j) /\ Goto(t, "found") /\ Keep(t, Copy(i))
        /\ UNCHANGED <<devices, cur, history>>
    BY <1>6 DEF EditParent, Begin
  <2> HIDE DEF j
  <2> QED
    BY <1>2, <2>2, <2>3, Begun
<1> QED
  BY <1>3, <1>4, <1>5, <1>6

\* A table that is written: what is left of the histories when a device is lost.
LEMMA GetNewStep ==
  ASSUME IInv, NEW t \in Threads, GetNew(t)
  PROVE  IInv'
<1> DEFINE d == job[t].d
           i == Min(FreeRows)
           r == NewRow(d)
           c == [id |-> i, row |-> r]
<1>1. /\ job[t] \in Jobs /\ d \in Devices /\ d # NoMac /\ r \in Row /\ r.mac = d /\ ~r.clear
      /\ Fits(t, "missing", job[t], my[t]) /\ job[t].kind \in {"announce", "name", "add"}
  BY Basics DEF GetNew, IInv, JobsFit, Fits, Macs, NewRow
<1>2. i \in Rows /\ devices[i].mac = NoMac
  BY Lookups DEF GetNew
<1>3. /\ devices' = [devices EXCEPT ![i] = r] /\ Keep(t, c) /\ Goto(t, "created")
      /\ job' = job /\ cur' = cur
      /\ Follow(named, marked, lost \cup (IF WithMac(d) = {} THEN {} ELSE {d}),
                [parentOf EXCEPT ![d] = NoMac])
  BY DEF GetNew
<1> HIDE DEF i
<1>4. c \in Copies /\ Fits(t, "created", job[t], c)
  <2>1. c \in Copies /\ c.id = i /\ c.row = r
    BY <1>1, <1>2, Basics DEF Copies
  <2> QED
    BY <1>1, <1>2, <2>1 DEF Fits
<1>5. SetJob(t, job[t]) /\ cur' \in [Planners -> Memories]
  BY <1>3 DEF SetJob, IInv, JobsFit
<1>6. /\ JobsFit'
      /\ pc' \in [Threads -> {"idle", "found", "missing", "created"}]
      /\ my' \in [Threads -> [id : Ids, row : Row]]
      /\ \A u \in Threads : pc'[u] \in {"found", "created"} => my'[u].id \in Rows
  BY <1>1, <1>3, <1>4, <1>5, Moved
<1>7. \A k \in Rows : devices'[k] = (IF k = i THEN r ELSE devices[k])
  BY <1>3 DEF IInv, TypeOK
<1>8. PICK ls : /\ named' = named \ ls /\ marked' = marked \ ls /\ lost' = ls
                /\ ls = lost \cup (IF WithMac(d) = {} THEN {} ELSE {d})
  BY <1>3 DEF Follow
<1>9. TypeOK'
  <2>1. devices' \in [Rows -> Row]
    BY <1>1, <1>3 DEF IInv, TypeOK
  <2>2. named' \subseteq Devices /\ marked' \subseteq Devices /\ lost' \subseteq Devices
    BY <1>1, <1>8 DEF IInv, TypeOK
  <2> QED
    BY <1>6, <2>1, <2>2 DEF TypeOK
<1>10. OneRow'
  <2>1. d \notin lost' => \A k \in Rows : devices[k].mac # d
    BY <1>8 DEF WithMac
  <2> QED
    BY <1>1, <1>2, <1>7, <1>8, <2>1 DEF IInv, OneRow, InUse
<1>11. FlagsFit'
  <2>1. d \notin named' /\ d \notin marked'
    BY <1>8 DEF IInv, FlagsFit, Present
  <2>2. Present \subseteq Present'
    BY <1>1, <1>2, <1>7, Basics DEF Present, WithMac
  <2> QED
    BY <1>1, <1>7, <1>8, <2>1, <2>2 DEF IInv, FlagsFit
<1> QED
  BY <1>6, <1>9, <1>10, <1>11 DEF IInv

LEMMA StoreStep ==
  ASSUME IInv, NEW t \in Threads, Store(t)
  PROVE  IInv'
<1> DEFINE r == IF pc[t] = "found" THEN Changed(t) ELSE ChangedNew(t)
           i == my[t].id
           d == r.mac
           old == devices[i]
           x == my[t].row
           named1 == IF job[t].kind = "name" THEN named \cup {d} ELSE named
           marked1 == IF job[t].kind = "name" THEN marked \ {d} ELSE marked
           overwritten == IF old = x THEN {} ELSE {d, old.mac} \ {NoMac}
<1>1. /\ pc[t] \in {"found", "created"} /\ i \in Rows /\ x \in Row /\ old \in Row
      /\ job[t] \in Jobs
  BY DEF Store, IInv, TypeOK, JobsFit
<1>2. /\ r \in Row /\ d = x.mac /\ (job[t].kind = "name" => ~r.clear)
      /\ (job[t].kind # "name" => r.clear = x.clear)
  BY <1>1, Written
<1>3. job[t].kind = "name" => d \in Devices
  <2>1. Fits(t, pc[t], job[t], my[t])
    BY DEF IInv, JobsFit
  <2>2. ASSUME job[t].kind = "name" PROVE x.mac = job[t].d /\ job[t].d \in Devices
    BY <1>1, <2>1, <2>2 DEF Fits, NewRow
  <2> QED
    BY <1>2, <2>2
<1>4. /\ devices' = [devices EXCEPT ![i] = IF d = NoMac THEN FreeRow ELSE r]
      /\ Remember(t, Ref(i, d)) /\ Done(t)
      /\ \E parents : Follow(named1, marked1, lost \cup overwritten, parents)
  <2>1. CASE job[t].kind = "name"
    BY <2>1 DEF Store
  <2>2. CASE job[t].kind # "name"
    <3>1. CASE job[t].kind = "parent" /\ d # NoMac
      BY <2>2, <3>1 DEF Store
    <3>2. CASE ~ (job[t].kind = "parent" /\ d # NoMac)
      BY <2>2, <3>2 DEF Store
    <3> QED
      BY <3>1, <3>2
  <2> QED
    BY <2>1, <2>2
<1> HIDE DEF r, i, x
<1>5. /\ named' = named1 \ lost' /\ marked' = marked1 \ lost'
      /\ lost' = lost \cup overwritten
  BY <1>4 DEF Follow
<1>6. /\ FreeRow \in Row /\ FreeRow.mac = NoMac /\ NoMac \notin Devices
      /\ d \in Macs /\ old.mac \in Macs
  BY <1>1, <1>2, Basics DEF FreeRow, NewRow, Macs, Row
<1>7. \A k \in Rows : devices'[k] = (IF k # i THEN devices[k] ELSE IF d = NoMac THEN FreeRow ELSE r)
  BY <1>4 DEF IInv, TypeOK
<1>8. devices'[i].mac = d
  BY <1>1, <1>6, <1>7
<1>9. JobsFit' /\ TypeOK'
  <2>1. Ref(i, d) \in Refs
    BY <1>1, <1>6, Basics DEF Ref, Refs
  <2>2. cur' \in [Planners -> Memories]
    BY <1>4, <2>1, Remembered
  <2>3. /\ JobsFit'
        /\ pc' \in [Threads -> {"idle", "found", "missing", "created"}]
        /\ my' \in [Threads -> [id : Ids, row : Row]]
        /\ \A u \in Threads : pc'[u] \in {"found", "created"} => my'[u].id \in Rows
    BY <1>4, <2>2, Moved, Basics DEF Done
  <2>4. devices' \in [Rows -> Row]
    BY <1>1, <1>2, <1>4, <1>6 DEF IInv, TypeOK
  <2>5. named' \subseteq Devices /\ marked' \subseteq Devices /\ lost' \subseteq Devices
    <3>1. overwritten \subseteq Devices
      BY <1>6 DEF Macs
    <3>2. named1 \subseteq Devices /\ marked1 \subseteq Devices
      BY <1>3 DEF IInv, TypeOK
    <3> QED
      BY <1>5, <3>1, <3>2 DEF IInv, TypeOK
  <2> QED
    BY <2>3, <2>4, <2>5 DEF TypeOK
<1>10. CASE old = x
  <2>1. \A k \in Rows : devices'[k].mac = devices[k].mac
    BY <1>2, <1>7, <1>8, <1>10
  <2>2. lost' = lost /\ Present' = Present
    BY <1>5, <1>10, <2>1 DEF Present, WithMac
  <2>3. OneRow'
    BY <2>1, <2>2 DEF IInv, OneRow, InUse
  <2>4. ASSUME NEW k \in Rows
        PROVE  /\ devices'[k].mac \in named' => ~devices'[k].clear
               /\ devices'[k].mac \in marked' => devices'[k].clear
    <3>1. CASE k = i
      <4>1. d \in named' \cup marked' => d # NoMac
        BY <1>9, Basics DEF TypeOK
      <4>2. d # NoMac => devices'[i] = r
        BY <1>1, <1>7
      <4>3. CASE job[t].kind = "name"
        BY <1>2, <1>5, <1>8, <3>1, <4>1, <4>2, <4>3
      <4>4. CASE job[t].kind # "name"
        BY <1>1, <1>2, <1>5, <1>8, <1>10, <2>2, <3>1, <4>1, <4>2, <4>4 DEF IInv, FlagsFit
      <4> QED
        BY <4>3, <4>4
    <3>2. CASE k # i
      \* the device of another row is another one, or lost
      <4>1. devices'[k] = devices[k]
        BY <1>7, <3>2
      <4>2. devices[k].mac = d /\ d # NoMac => d \in lost
        BY <1>1, <1>2, <1>10, <3>2 DEF IInv, OneRow, InUse
      <4>3. devices[k].mac \in named' \cup marked' => devices[k].mac # d
        BY <1>5, <1>9, <2>2, <4>2, Basics DEF TypeOK
      <4> QED
        BY <1>5, <4>1, <4>3 DEF IInv, FlagsFit
    <3> QED
      BY <3>1, <3>2
  <2>5. named' \cup marked' \subseteq Present' \ lost'
    <3>1. d \in Devices => d \in Present
      BY <1>1, <1>2, <1>10 DEF Present, WithMac
    <3> QED
      BY <1>3, <1>5, <2>2, <3>1 DEF IInv, FlagsFit
  <2> QED
    BY <1>9, <2>3, <2>4, <2>5 DEF IInv, FlagsFit
<1>11. CASE old # x
  <2>1. {d, old.mac} \ {NoMac} \subseteq lost' /\ lost \subseteq lost'
    BY <1>5, <1>11
  <2>2. named' \subseteq named \ {d, old.mac} /\ marked' \subseteq marked \ {d, old.mac}
    BY <1>5, <1>9, <2>1, Basics DEF TypeOK
  <2>3. OneRow'
    BY <1>7, <1>8, <2>1 DEF IInv, OneRow, InUse
  <2>4. \A k \in Rows : /\ devices'[k].mac \in named' => ~devices'[k].clear
                        /\ devices'[k].mac \in marked' => devices'[k].clear
    BY <1>7, <1>8, <2>2 DEF IInv, FlagsFit
  <2>5. named' \cup marked' \subseteq Present' \ lost'
    <3>1. \A e \in Present \ {old.mac} : e \in Present'
      BY <1>7 DEF Present, WithMac
    <3> QED
      BY <1>5, <2>2, <3>1 DEF IInv, FlagsFit
  <2> QED
    BY <1>9, <2>3, <2>4, <2>5 DEF IInv, FlagsFit
<1> QED
  BY <1>10, <1>11

\* The table loses rows, none of a device that was named.
LEMMA RowsRemoved ==
  ASSUME IInv, NEW rows \in SUBSET Rows, devices' = Cleared(rows),
         UNCHANGED <<pc, job, my>>, cur' \in [Planners -> Memories],
         named' \subseteq named, marked' \subseteq marked, lost' = lost,
         \A i \in rows : devices[i].mac \notin named' \cup marked'
  PROVE  IInv'
<1>1. FreeRow \in Row /\ FreeRow.mac = NoMac /\ NoMac \notin Devices
  BY Basics DEF FreeRow, NewRow, Macs
<1>2. \A i \in Rows : devices'[i] = (IF i \in rows THEN FreeRow ELSE devices[i])
  BY DEF Cleared
<1>3. TypeOK' /\ JobsFit'
  <2>1. devices' \in [Rows -> Row]
    BY <1>1 DEF Cleared, IInv, TypeOK
  <2> QED
    BY <2>1 DEF IInv, TypeOK, JobsFit, Fits
<1>4. OneRow'
  BY <1>1, <1>2 DEF IInv, OneRow, InUse
<1>5. \A i \in Rows : /\ devices'[i].mac \in named' => ~devices'[i].clear
                      /\ devices'[i].mac \in marked' => devices'[i].clear
  BY <1>1, <1>2 DEF IInv, FlagsFit, TypeOK
<1>6. named' \cup marked' \subseteq Present' \ lost'
  <2> SUFFICES ASSUME NEW d \in named' \cup marked' PROVE d \in Present' /\ d \notin lost'
    OBVIOUS
  <2>1. PICK i \in Rows : devices[i].mac = d /\ d \in Devices /\ d \notin lost
    BY DEF IInv, FlagsFit, Present, WithMac
  <2>2. devices'[i].mac = d
    BY <1>2, <2>1
  <2> QED
    BY <2>1, <2>2 DEF Present, WithMac
<1> QED
  BY <1>3, <1>4, <1>5, <1>6 DEF IInv, FlagsFit

LEMMA Doubts ==
  ASSUME IInv
  PROVE  /\ \A t, refs : Doubt(t, refs) /\ refs \in Memories => cur' \in [Planners -> Memories]
         /\ [p \in Planners |-> Doubtful(cur[p])] \in [Planners -> Memories]
<1>1. \A c \in Memories : Doubtful(c) \in Memories
  BY DEF Doubtful, Ref, Memories, Refs, Macs
<1> QED
  BY <1>1 DEF Doubt, IInv, JobsFit

\* The planners' messages that concern the whole table.
LEMMA PlannerSteps ==
  ASSUME IInv, NEW t \in Planners, ClearAll(t) \/ EndConf(t) \/ NewClient(t)
  PROVE  IInv'
<1>1. CASE ClearAll(t)
  <2>1. /\ devices' = Flagged /\ named' = {} /\ marked' = Present \ lost /\ lost' = lost
        /\ UNCHANGED <<pc, job, my>>
    BY <1>1 DEF ClearAll, Follow
  <2>2. cur' \in [Planners -> Memories]
    BY <1>1, Doubts, Basics DEF ClearAll
  <2>3. \A i \in Rows : /\ devices'[i].mac = devices[i].mac
                        /\ devices[i].mac \in Devices => devices'[i].clear
    BY <2>1, Basics DEF Flagged, InUse, IInv, TypeOK, Row
  <2>4. devices' \in [Rows -> Row]
    BY <2>1 DEF Flagged, IInv, TypeOK, Row
  <2>5. TypeOK' /\ JobsFit'
    BY <2>1, <2>2, <2>4 DEF IInv, TypeOK, JobsFit, Fits, Present
  <2>6. Present' = Present
    BY <2>3 DEF Present, WithMac
  <2>7. OneRow'
    BY <2>1, <2>3 DEF IInv, OneRow, InUse
  <2>8. FlagsFit'
    BY <2>1, <2>3, <2>6 DEF FlagsFit, Present
  <2> QED
    BY <2>5, <2>7, <2>8 DEF IInv
<1>2. CASE EndConf(t)
  <2> DEFINE rows == {i \in Rows : devices[i].clear}
  <2>1. /\ devices' = Cleared(rows) /\ named' = named \ lost /\ marked' = {} /\ lost' = lost
        /\ UNCHANGED <<pc, job, my>>
    BY <1>2 DEF EndConf, Follow
  <2>2. cur' \in [Planners -> Memories]
    BY <1>2, Doubts DEF EndConf, IInv, JobsFit
  <2>3. \A i \in rows : devices[i].mac \notin named'
    BY <2>1 DEF IInv, FlagsFit
  <2>4. rows \in SUBSET Rows
    OBVIOUS
  <2> HIDE DEF rows
  <2> QED
    BY <2>1, <2>2, <2>3, <2>4, RowsRemoved
<1>3. CASE NewClient(t)
  <2>1. cur' = [cur EXCEPT ![t] = NoRefs] /\ UNCHANGED <<devices, pc, job, my, history>>
    BY <1>3 DEF NewClient
  <2>2. cur' \in [Planners -> Memories]
    BY <2>1, Basics DEF IInv, JobsFit
  <2> QED
    BY <2>1, <2>2, TableStays DEF IInv, TypeOK, JobsFit, Fits, history
<1> QED
  BY <1>1, <1>2, <1>3

\* The editors' messages that concern the whole table, and the removal of one device.
LEMMA EditorSteps ==
  ASSUME IInv, NEW t \in Editors,
         (\E d \in Edited : Delete(t, d)) \/ (\E kinds \in EmptyModes : Empty(t, kinds))
  PROVE  IInv'
<1>1. ASSUME NEW d \in Edited, Delete(t, d) PROVE IInv'
  <2> DEFINE i == Min(WithMac(d))
  <2>1. i \in Rows /\ devices[i].mac = d
    BY <1>1, Lookups DEF Delete
  <2>2. /\ devices' = Cleared({i}) /\ named' = (named \ {d}) \ lost
        /\ marked' = (marked \ {d}) \ lost /\ lost' = lost
        /\ UNCHANGED <<pc, job, my>> /\ cur' = [p \in Planners |-> Doubtful(cur[p])]
    BY <1>1 DEF Delete, Removed, Follow
  <2> HIDE DEF i
  <2>3. cur' \in [Planners -> Memories]
    BY <2>2, Doubts
  <2>4. {i} \in SUBSET Rows /\ \A k \in {i} : devices[k].mac \notin named' \cup marked'
    BY <2>1, <2>2
  <2> QED
    BY <2>2, <2>3, <2>4, RowsRemoved
<1>2. ASSUME NEW kinds \in EmptyModes, Empty(t, kinds) PROVE IInv'
  <2> DEFINE rows == {i \in Rows : InUse(i) /\ devices[i].dev \in kinds}
             ds == {devices[i].mac : i \in rows}
  <2>1. /\ devices' = Cleared(rows) /\ named' = (named \ ds) \ lost
        /\ marked' = (marked \ ds) \ lost /\ lost' = lost
        /\ UNCHANGED <<pc, job, my>> /\ cur' = [p \in Planners |-> Doubtful(cur[p])]
    BY <1>2 DEF Empty, Removed, Follow
  <2>2. cur' \in [Planners -> Memories]
    BY <2>1, Doubts
  <2>3. rows \in SUBSET Rows /\ \A k \in rows : devices[k].mac \notin named' \cup marked'
    BY <2>1
  <2> HIDE DEF rows
  <2> QED
    BY <2>1, <2>2, <2>3, RowsRemoved
<1> QED
  BY <1>1, <1>2

LEMMA ThreadSteps ==
  ASSUME IInv, NEW t \in Threads, Step(t)
  PROVE  IInv'
<1>1. CASE GiveUp(t)
  <2>1. cur' \in [Planners -> Memories]
    BY <1>1 DEF GiveUp, IInv, JobsFit
  <2> QED
    BY <1>1, <2>1, Ended DEF GiveUp
<1>2. CASE TableFull(t)
  <2>1. cur' \in [Planners -> Memories]
    BY <1>2, Remembered, Basics DEF TableFull
  <2> QED
    BY <1>2, <2>1, Ended DEF TableFull
<1>3. CASE Skip(t)
  <2> DEFINE ref == Ref(my[t].id, IF devices[my[t].id] = my[t].row THEN job[t].d ELSE NoMac)
  <2>1. ref \in Refs
    <3>1. my[t].id \in Ids /\ job[t].d \in Macs /\ NoMac \in Macs
      BY DEF IInv, TypeOK, JobsFit, Jobs, Macs
    <3> QED
      BY <3>1 DEF Ref, Refs
  <2>2. Remember(t, ref)
    BY <1>3 DEF Skip
  <2> HIDE DEF ref
  <2>3. cur' \in [Planners -> Memories]
    BY <2>1, <2>2, Remembered
  <2> QED
    BY <1>3, <2>3, Ended DEF Skip
<1> QED
  BY <1>1, <1>2, <1>3, GetNewStep, StoreStep DEF Step

LEMMA NextIInv == IInv /\ [Next]_vars => IInv'
<1> SUFFICES ASSUME IInv, [Next]_vars PROVE IInv'
  OBVIOUS
<1>1. ASSUME NEW t \in Threads, Step(t) PROVE IInv'
  BY <1>1, ThreadSteps
<1>2. ASSUME NEW t \in Planners, ClearAll(t) \/ EndConf(t) \/ NewClient(t) PROVE IInv'
  BY <1>2, PlannerSteps
<1>3. ASSUME NEW t \in Editors,
             \/ \E d \in Edited : Delete(t, d)
             \/ \E kinds \in EmptyModes : Empty(t, kinds)
      PROVE  IInv'
  BY <1>3, EditorSteps
<1>4. CASE UNCHANGED vars
  BY <1>4, TableStays DEF vars, threads, history, IInv, TypeOK, JobsFit, Fits
<1> QED
  BY <1>1, <1>2, <1>3, <1>4, BeginSteps DEF Next

-----------------------------------------------------------------------------
(* Parents                                                                 *)

\* What a planner remembers is the row of a device that was named.
RefFits(ref) ==
    ref.mac \in Devices \ lost =>
        ref.id \in Rows /\ devices[ref.id].mac = ref.mac /\ ref.mac \in named

RefsFit == \A t \in Planners : RefFits(cur[t].man) /\ RefFits(cur[t].ui)

\* The parent of a device was named after the last clearall when the device was.
ParentFits(i, d) ==
    d \in Devices \ lost /\ parentOf[d] # NoMac =>
        /\ parentOf[d] \in Devices \ lost
        /\ devices[i].par \in Rows /\ devices[devices[i].par].mac = parentOf[d]
        /\ d \in marked \/ (d \in named /\ parentOf[d] \in named)

ParentsFit == \A i \in Rows : ParentFits(i, devices[i].mac)

PInv == IInv /\ parentOf \in [Devices -> Macs] /\ RefsFit /\ ParentsFit

\* The parents after a step, from those it leaves to the devices that are not lost.
LEMMA Followed ==
  ASSUME NEW ns, NEW ms, NEW ls, NEW parents \in [Devices -> Macs], Follow(ns, ms, ls, parents)
  PROVE  /\ parentOf' \in [Devices -> Macs]
         /\ named' = ns \ ls /\ marked' = ms \ ls /\ lost' = ls
         /\ \A d \in Devices : parentOf'[d] # NoMac =>
               parentOf'[d] = parents[d] /\ d \notin lost' /\ parents[d] \notin lost'
BY DEF Follow, Macs

RefFitsNext(ref) ==
    ref.mac \in Devices \ lost' =>
        ref.id \in Rows /\ devices'[ref.id].mac = ref.mac /\ ref.mac \in named'

\* A planner remembers the device it has named, and otherwise what it did before.
LEMMA RefsRemembered ==
  ASSUME PInv, NEW t \in Threads, NEW ref, Remember(t, ref),
         job[t].kind = "name" => RefFitsNext(ref) \/ job[t].role \notin {"man", "ui"},
         \A p \in Planners : RefFitsNext(cur[p].man) /\ RefFitsNext(cur[p].ui)
  PROVE  RefsFit'
<1>1. RefFitsNext(NoRef)
  BY Basics DEF RefFitsNext, NoRef, Ref
<1>2. \A p \in Planners : RefFitsNext(cur'[p].man) /\ RefFitsNext(cur'[p].ui)
  <2>1. CASE job[t].kind = "name"
    <3>1. t \in Planners /\ cur' = [cur EXCEPT ![t] = Remembers(cur[t], job[t].role, ref)]
      BY <2>1 DEF PInv, IInv, JobsFit, Fits, Remember
    <3>2. /\ RefFitsNext(Remembers(cur[t], job[t].role, ref).man)
          /\ RefFitsNext(Remembers(cur[t], job[t].role, ref).ui)
      BY <1>1, <2>1, <3>1 DEF Remembers
    <3> QED
      BY <3>1, <3>2 DEF PInv, IInv, JobsFit
  <2>2. CASE job[t].kind # "name"
    BY <2>2 DEF Remember
  <2> QED
    BY <2>1, <2>2
<1> QED
  BY <1>2 DEF RefsFit, RefFits, RefFitsNext

\* Rows of devices that are not lost stay where they are.
Stays == /\ \A i \in Rows : devices[i].mac \in Devices \ lost' => devices'[i].mac = devices[i].mac
         /\ lost \subseteq lost' /\ named \ lost' \subseteq named'

LEMMA RefsStay ==
  ASSUME PInv, Stays
  PROVE  \A p \in Planners : RefFitsNext(cur[p].man) /\ RefFitsNext(cur[p].ui)
BY DEF PInv, RefsFit, RefFits, RefFitsNext, Stays

LEMMA ParentStays ==
  ASSUME PInv, Stays, NEW i \in Rows, devices'[i].par = devices[i].par,
         NEW d \in Devices, devices[i].mac = d, d \in marked => d \in marked' \/ d \in lost',
         parentOf'[d] # NoMac => parentOf'[d] = parentOf[d] /\ d \notin lost' /\ parentOf[d] \notin lost'
  PROVE  /\ d \in Devices \ lost' /\ parentOf'[d] # NoMac =>
               /\ parentOf'[d] \in Devices \ lost'
               /\ devices'[i].par \in Rows /\ devices'[devices'[i].par].mac = parentOf'[d]
               /\ d \in marked' \/ (d \in named' /\ parentOf'[d] \in named')
BY DEF PInv, ParentsFit, ParentFits, Stays

\* Steps that write no row.
LEMMA NoWrite ==
  ASSUME PInv, IInv', UNCHANGED <<devices, history>>, RefsFit'
  PROVE  PInv'
BY DEF PInv, ParentsFit, ParentFits, history

LEMMA ParentsInit == Init => PInv
<1> SUFFICES ASSUME Init PROVE PInv
  OBVIOUS
<1>1. IInv
  BY InitIInv
<1>2. parentOf \in [Devices -> Macs] /\ ParentsFit
  BY Basics DEF Init, NoParents, Macs, ParentsFit, ParentFits
<1>3. RefsFit
  BY Basics DEF Init, RefsFit, RefFits, NoRefs, NoRef, Ref
<1> QED
  BY <1>1, <1>2, <1>3 DEF PInv

LEMMA GetNewParents ==
  ASSUME PInv, IInv', NEW t \in Threads, GetNew(t)
  PROVE  PInv'
<1> DEFINE d == job[t].d
           i == Min(FreeRows)
           ls == lost \cup (IF WithMac(d) = {} THEN {} ELSE {d})
           parents == [parentOf EXCEPT ![d] = NoMac]
<1>1. i \in Rows /\ devices[i].mac = NoMac
  BY Lookups DEF GetNew
<1>2. d \in Devices /\ NoMac \notin Devices
  BY Basics DEF GetNew, PInv, IInv, JobsFit, Fits
<1>3. /\ devices' = [devices EXCEPT ![i] = NewRow(d)] /\ cur' = cur
      /\ Follow(named, marked, ls, parents)
  BY DEF GetNew
<1>4. parents \in [Devices -> Macs]
  BY <1>2 DEF PInv, Macs
<1>5. /\ parentOf' \in [Devices -> Macs]
      /\ named' = named \ ls /\ marked' = marked \ ls /\ lost' = ls
      /\ \A e \in Devices : parentOf'[e] # NoMac =>
            parentOf'[e] = parents[e] /\ e \notin lost' /\ parents[e] \notin lost'
  <2> HIDE DEF ls, parents
  <2> QED
    BY <1>3, <1>4, Followed
<1>6. \A e \in Devices : parents[e] = (IF e = d THEN NoMac ELSE parentOf[e])
  BY <1>2 DEF PInv
<1> HIDE DEF i, parents
<1>7. \A k \in Rows : devices'[k] = (IF k = i THEN NewRow(d) ELSE devices[k])
  BY <1>1, <1>3 DEF PInv, IInv, TypeOK
<1>8. Stays
  BY <1>1, <1>2, <1>5, <1>7 DEF Stays
<1>9. RefsFit'
  BY <1>3, <1>8, RefsStay DEF RefsFit, RefFits, RefFitsNext
<1>10. ParentsFit'
  <2> SUFFICES ASSUME NEW k \in Rows PROVE ParentFits(k, devices[k].mac)'
    BY DEF ParentsFit
  <2>1. CASE k = i
    <3>1. devices'[k].mac = d /\ parentOf'[d] = NoMac
      BY <1>2, <1>5, <1>6, <1>7, <2>1 DEF NewRow
    <3> QED
      BY <3>1 DEF ParentFits
  <2>2. CASE k # i
    <3>1. devices'[k] = devices[k]
      BY <1>7, <2>2
    <3>2. ASSUME NEW e \in Devices, devices[k].mac = e
          PROVE  /\ e \in marked => e \in marked' \/ e \in lost'
                 /\ parentOf'[e] # NoMac =>
                      parentOf'[e] = parentOf[e] /\ e \notin lost' /\ parentOf[e] \notin lost'
      BY <1>5, <1>6, <3>2
    <3> QED
      BY <1>8, <3>1, <3>2, ParentStays DEF ParentFits
  <2> QED
    BY <2>1, <2>2
<1> QED
  BY <1>5, <1>9, <1>10 DEF PInv

\* A row is written: its own parent is the one that was named or stays; the others stay.
LEMMA StoreParents ==
  ASSUME PInv, IInv', NEW t \in Threads, Store(t)
  PROVE  PInv'
<1> DEFINE r == IF pc[t] = "found" THEN Changed(t) ELSE ChangedNew(t)
           i == my[t].id
           d == r.mac
           old == devices[i]
           x == my[t].row
           j == job[t]
           ls == lost \cup (IF old = x THEN {} ELSE {d, old.mac} \ {NoMac})
           parents == CASE j.kind = "name" -> [parentOf EXCEPT ![d] = NamedParent(t)]
                        [] j.kind = "parent" /\ d # NoMac -> [parentOf EXCEPT ![d] = NoMac]
                        [] OTHER -> parentOf
           ns == IF j.kind = "name" THEN named \cup {d} ELSE named
           ms == IF j.kind = "name" THEN marked \ {d} ELSE marked
<1>1. /\ pc[t] \in {"found", "created"} /\ i \in Rows /\ x \in Row /\ old \in Row
      /\ Fits(t, pc[t], j, my[t]) /\ NoMac \notin Devices
      /\ FreeRow \in Row /\ FreeRow.mac = NoMac
  BY Basics DEF Store, PInv, IInv, TypeOK, JobsFit, FreeRow, NewRow, Macs
<1>2. r \in Row /\ d = x.mac /\ d \in Macs
  BY <1>1, Written DEF PInv, Row, Macs
<1>3. j.kind = "name" => t \in Planners /\ d \in Devices /\ cur[t] \in Memories
  <2>1. ASSUME j.kind = "name" PROVE x.mac = j.d /\ j.d \in Devices
    BY <1>1, <2>1 DEF Fits, NewRow
  <2> QED
    BY <1>1, <1>2, <2>1 DEF Fits, PInv, IInv, JobsFit
<1>4. /\ devices' = [devices EXCEPT ![i] = IF d = NoMac THEN FreeRow ELSE r]
      /\ Remember(t, Ref(i, d))
      /\ Follow(ns, ms, ls, parents)
  <2>1. CASE j.kind = "name"
    BY <2>1 DEF Store
  <2>2. CASE j.kind # "name"
    <3>1. CASE j.kind = "parent" /\ d # NoMac
      BY <2>2, <3>1 DEF Store
    <3>2. CASE ~ (j.kind = "parent" /\ d # NoMac)
      BY <2>2, <3>2 DEF Store
    <3> QED
      BY <3>1, <3>2
  <2> QED
    BY <2>1, <2>2
\* The parent of the row that is written.
<1>5. /\ j.kind = "name" => \/ NamedParent(t) = NoMac
                            \/ \E ref \in {cur[t].man, cur[t].ui} :
                                  NamedParent(t) = ref.mac /\ r.par = ref.id
      /\ j.kind \notin {"name", "parent"} => r.par = x.par
  <2>1. CASE j.kind = "name"
    <3>1. CASE pc[t] = "created"
      BY <1>1, <2>1, <3>1 DEF NamedParent, Parent, ChangedNew, NamedNew, IsChild, Under, As, Row
    <3>2. CASE pc[t] = "found" /\ TakesParent(x, j.role)
      <4>1. IsChild(j.role)
        BY <3>2 DEF TakesParent
      <4>2. \A y \in Row : Unflagged(y) \in Row /\ \A k \in Kinds : As(y, k) \in Row
        BY DEF Unflagged, As, Row
      <4>3. Renamed(x, j.role) \in Row
        BY <1>1, <4>1, <4>2 DEF Renamed, IsChild, Kinds
      <4>4. r = Under(Unflagged(Renamed(x, j.role)), Parent(cur[t], j.role))
        BY <2>1, <3>2 DEF Changed, Named
      <4>5. \A y \in Row : \A ref : Under(y, ref).par = ref.id
        BY DEF Under, Row
      <4>6. r.par = Parent(cur[t], j.role).id
        BY <4>2, <4>3, <4>4, <4>5
      <4> QED
        BY <2>1, <3>2, <4>1, <4>6 DEF NamedParent, Parent, IsChild
    <3>3. CASE pc[t] = "found" /\ ~TakesParent(x, j.role)
      BY <2>1, <3>3 DEF NamedParent
    <3> QED
      BY <1>1, <3>1, <3>2, <3>3
  <2>2. CASE j.kind \notin {"name", "parent"}
    BY <1>1, <2>2 DEF Changed, ChangedNew, As, Row
  <2> QED
    BY <2>1, <2>2
<1> HIDE DEF r, i, x
<1>6. /\ d \in Devices => parents \in [Devices -> Macs]
      /\ d \notin Devices => parents = parentOf
      /\ \A e \in Devices : e # d => parents[e] = parentOf[e]
  <2>1. NamedParent(t) \in Macs \/ j.kind # "name"
    BY <1>3 DEF NamedParent, Parent, IsChild, Memories, Refs, Macs
  <2>2. d \notin Devices => d = NoMac
    BY <1>2 DEF Macs
  <2> QED
    BY <1>1, <1>3, <2>1, <2>2 DEF PInv, Macs
<1>7. /\ parentOf' \in [Devices -> Macs]
      /\ named' = ns \ ls /\ marked' = ms \ ls /\ lost' = ls
      /\ \A e \in Devices : parentOf'[e] # NoMac =>
            parentOf'[e] = parents[e] /\ e \notin lost' /\ parents[e] \notin lost'
  <2>1. parents \in [Devices -> Macs]
    BY <1>6 DEF PInv
  <2> HIDE DEF ns, ms, ls, parents
  <2> QED
    BY <1>4, <2>1, Followed
<1>8. /\ \A k \in Rows : devices'[k] = (IF k # i THEN devices[k] ELSE IF d = NoMac THEN FreeRow ELSE r)
      /\ devices'[i].mac = d
  BY <1>1, <1>4 DEF PInv, IInv, TypeOK
<1>9. Stays
  <2>1. old = x => old.mac = d
    BY <1>2
  <2>2. old # x => {d, old.mac} \ {NoMac} \subseteq lost'
    BY <1>7
  <2>3. \A k \in Rows : devices[k].mac \in Devices \ lost' => devices'[k].mac = devices[k].mac
    BY <1>1, <1>8, <2>1, <2>2
  <2>4. lost \subseteq lost' /\ named \ lost' \subseteq named'
    BY <1>7
  <2> QED
    BY <2>3, <2>4 DEF Stays
<1>10. \A p \in Planners : RefFitsNext(cur[p].man) /\ RefFitsNext(cur[p].ui)
  BY <1>9, RefsStay
<1>11. RefsFit'
  <2>1. j.kind = "name" => RefFitsNext(Ref(i, d))
    BY <1>1, <1>7, <1>8 DEF RefFitsNext, Ref
  <2> QED
    BY <1>4, <1>10, <2>1, RefsRemembered
<1>12. ParentsFit'
  <2> SUFFICES ASSUME NEW k \in Rows PROVE ParentFits(k, devices[k].mac)'
    BY DEF ParentsFit
  <2>1. CASE k # i
    <3>1. devices'[k] = devices[k]
      BY <1>8, <2>1
    <3>2. devices[k].mac = d /\ d \in Devices => d \in lost'
      \* d has one row, or is lost
      <4>1. CASE old = x
        BY <1>1, <1>2, <1>7, <2>1, <4>1 DEF PInv, IInv, OneRow, InUse
      <4>2. CASE old # x
        BY <1>1, <1>7, <4>2
      <4> QED
        BY <4>1, <4>2
    <3>3. ASSUME NEW e \in Devices, devices[k].mac = e
          PROVE  /\ e \in marked => e \in marked' \/ e \in lost'
                 /\ parentOf'[e] # NoMac =>
                      parentOf'[e] = parentOf[e] /\ e \notin lost' /\ parentOf[e] \notin lost'
      BY <1>6, <1>7, <3>2, <3>3
    <3> QED
      BY <1>9, <3>1, <3>3, ParentStays DEF ParentFits
  <2>2. CASE k = i
    <3> SUFFICES ASSUME d \in Devices \ lost', parentOf'[d] # NoMac
                 PROVE  /\ parentOf'[d] \in Devices \ lost'
                        /\ devices'[i].par \in Rows /\ devices'[devices'[i].par].mac = parentOf'[d]
                        /\ d \in marked' \/ (d \in named' /\ parentOf'[d] \in named')
      BY <1>8, <2>2 DEF ParentFits
    <3>1. devices'[i] = r /\ old = x /\ parentOf'[d] = parents[d] /\ parents[d] \notin lost'
      BY <1>1, <1>7, <1>8
    <3>2. CASE j.kind = "name"
      <4>1. parents[d] = NamedParent(t) /\ d \in named'
        BY <1>7, <3>2 DEF PInv
      <4>2. PICK ref \in {cur[t].man, cur[t].ui} : parents[d] = ref.mac /\ r.par = ref.id
        BY <1>5, <3>1, <3>2, <4>1
      <4>3. RefFitsNext(ref)
        BY <1>3, <1>10, <3>2
      <4>4. ref.mac \in Devices
        BY <1>3, <3>1, <3>2, <4>2 DEF Memories, Refs, Macs
      <4> QED
        BY <3>1, <4>1, <4>2, <4>3, <4>4 DEF RefFitsNext
    <3>3. CASE j.kind = "parent"
      BY <3>1, <3>3, <1>1 DEF PInv
    <3>4. CASE j.kind \notin {"name", "parent"}
      <4>1. devices'[i].par = devices[i].par /\ devices[i].mac = d
        BY <1>2, <1>5, <3>1, <3>4
      <4>2. parents = parentOf /\ (d \in marked => d \in marked')
        BY <1>7, <3>4
      <4> QED
        BY <1>1, <1>7, <1>9, <4>1, <4>2, ParentStays
    <3> QED
      BY <3>2, <3>3, <3>4
  <2> QED
    BY <2>1, <2>2
<1> QED
  BY <1>7, <1>11, <1>12 DEF PInv

LEMMA DoubtfulFits ==
  ASSUME NEW c PROVE RefFitsNext(Doubtful(c).man) /\ RefFitsNext(Doubtful(c).ui)
BY Basics DEF Doubtful, RefFitsNext, Ref

LEMMA ClearAllParents ==
  ASSUME PInv, IInv', NEW t \in Planners, ClearAll(t)
  PROVE  PInv'
<1>1. /\ devices' = Flagged
      /\ Follow({}, Present, lost, parentOf)
      /\ cur' = [p \in Planners |-> IF p = t THEN NoRefs ELSE Doubtful(cur[p])]
  BY DEF ClearAll, Doubt
<1>2. /\ parentOf' \in [Devices -> Macs]
      /\ marked' = Present \ lost /\ lost' = lost
      /\ \A d \in Devices : parentOf'[d] # NoMac =>
            parentOf'[d] = parentOf[d] /\ d \notin lost' /\ parentOf[d] \notin lost'
  BY <1>1, Followed DEF PInv
<1>3. \A i \in Rows : devices'[i].mac = devices[i].mac /\ devices'[i].par = devices[i].par
  BY <1>1 DEF Flagged, PInv, IInv, TypeOK, Row
<1>4. RefsFit'
  <2>1. RefFitsNext(NoRefs.man) /\ RefFitsNext(NoRefs.ui)
    BY Basics DEF RefFitsNext, NoRefs, NoRef, Ref
  <2>2. \A p \in Planners : RefFitsNext(cur'[p].man) /\ RefFitsNext(cur'[p].ui)
    BY <1>1, <2>1, DoubtfulFits
  <2> QED
    BY <2>2 DEF RefsFit, RefFits, RefFitsNext
<1>5. ParentsFit'
  BY <1>2, <1>3 DEF PInv, ParentsFit, ParentFits, Present, WithMac
<1> QED
  BY <1>2, <1>4, <1>5 DEF PInv

\* endconf removes no parent of a device that stays: both were named.
LEMMA EndConfParents ==
  ASSUME PInv, IInv', NEW t \in Planners, EndConf(t)
  PROVE  PInv'
<1>1. /\ devices' = Cleared({i \in Rows : devices[i].clear})
      /\ Follow(named, {}, lost, parentOf)
      /\ cur' = [p \in Planners |-> IF p = t THEN cur[t] ELSE Doubtful(cur[p])]
  BY DEF EndConf, Doubt
<1>2. /\ parentOf' \in [Devices -> Macs]
      /\ named' = named \ lost /\ lost' = lost
      /\ \A d \in Devices : parentOf'[d] # NoMac =>
            parentOf'[d] = parentOf[d] /\ d \notin lost' /\ parentOf[d] \notin lost'
  BY <1>1, Followed DEF PInv
<1>3. /\ \A i \in Rows : devices'[i] = (IF devices[i].clear THEN FreeRow ELSE devices[i])
      /\ FreeRow.mac = NoMac /\ NoMac \notin Devices
  BY <1>1, Basics DEF Cleared, FreeRow, NewRow
<1>4. \A i \in Rows : devices[i].mac \in named => devices'[i] = devices[i]
  BY <1>3 DEF PInv, IInv, FlagsFit
<1>5. named' = named
  BY <1>2 DEF PInv, IInv, FlagsFit
<1>6. RefsFit'
  <2>1. RefFitsNext(cur[t].man) /\ RefFitsNext(cur[t].ui)
    BY <1>2, <1>4, <1>5 DEF PInv, RefsFit, RefFits, RefFitsNext
  <2>2. \A p \in Planners : RefFitsNext(cur'[p].man) /\ RefFitsNext(cur'[p].ui)
    BY <1>1, <2>1, DoubtfulFits
  <2> QED
    BY <2>2 DEF RefsFit, RefFits, RefFitsNext
<1>7. ParentsFit'
  <2> SUFFICES ASSUME NEW i \in Rows PROVE ParentFits(i, devices[i].mac)'
    BY DEF ParentsFit
  <2>1. CASE devices[i].clear
    BY <1>3, <2>1 DEF ParentFits
  <2>2. CASE ~devices[i].clear
    <3>1. devices'[i] = devices[i] /\ devices[i].mac \notin marked
      BY <1>3, <2>2 DEF PInv, IInv, FlagsFit
    <3>2. ParentFits(i, devices[i].mac)
      BY DEF PInv, ParentsFit
    <3> QED
      BY <1>2, <1>4, <1>5, <3>1, <3>2 DEF ParentFits
  <2> QED
    BY <2>1, <2>2
<1> QED
  BY <1>2, <1>6, <1>7 DEF PInv

\* After a removal by hand no parent is claimed.
LEMMA RemovedParents ==
  ASSUME PInv, IInv', NEW ds, Removed(ds)
  PROVE  PInv'
<1>1. /\ Follow(named \ ds, marked \ ds, lost, NoParents)
      /\ cur' = [p \in Planners |-> Doubtful(cur[p])]
  BY DEF Removed
<1>2. NoParents \in [Devices -> Macs] /\ \A d \in Devices : NoParents[d] = NoMac
  BY DEF NoParents, Macs
<1>3. parentOf' \in [Devices -> Macs] /\ \A d \in Devices : parentOf'[d] = NoMac
  BY <1>1, <1>2, Followed
<1>4. \A p \in Planners : RefFitsNext(cur'[p].man) /\ RefFitsNext(cur'[p].ui)
  BY <1>1, DoubtfulFits
<1>5. RefsFit'
  BY <1>4 DEF RefsFit, RefFits, RefFitsNext
<1>6. ParentsFit'
  BY <1>3 DEF ParentsFit, ParentFits
<1> QED
  BY <1>3, <1>5, <1>6 DEF PInv

\* Jobs that begin leave what the planners remember.
LEMMA BeginSteady ==
  ASSUME \/ \E d \in Devices : Announce(d) \/ Report(d)
         \/ \E t \in Planners, d \in Devices : \E role \in Roles[d] : Name(t, d, role)
         \/ \E t \in Editors, d \in Edited : Control(t, d) \/ Add(t, d)
         \/ \E t \in Editors, i \in Rows, par \in Parents : EditParent(t, i, par)
  PROVE  UNCHANGED <<devices, cur, history>>
BY DEF Announce, Report, Name, Control, Add, EditParent, Get

LEMMA NextPInv == PInv /\ [Next]_vars => PInv'
<1> SUFFICES ASSUME PInv, [Next]_vars PROVE PInv'
  OBVIOUS
<1>1. IInv'
  BY NextIInv DEF PInv
<1>2. ASSUME UNCHANGED <<devices, cur, history>> PROVE PInv'
  <2>1. RefsFit'
    BY <1>2 DEF PInv, RefsFit, RefFits, history
  <2> QED
    BY <1>1, <1>2, <2>1, NoWrite
<1>3. ASSUME UNCHANGED <<devices, history>>
      PROVE  \A p \in Planners : RefFitsNext(cur[p].man) /\ RefFitsNext(cur[p].ui)
  BY <1>3, RefsStay DEF Stays, history
<1>4. ASSUME NEW t \in Threads, Step(t) PROVE PInv'
  <2>1. CASE GiveUp(t)
    BY <1>2, <2>1 DEF GiveUp
  <2>2. CASE TableFull(t)
    <3>1. UNCHANGED <<devices, history>> /\ Remember(t, NoRef)
      BY <2>2 DEF TableFull
    <3>2. RefFitsNext(NoRef)
      BY Basics DEF RefFitsNext, NoRef, Ref
    <3>3. RefsFit'
      BY <1>3, <3>1, <3>2, RefsRemembered
    <3> QED
      BY <1>1, <3>1, <3>3, NoWrite
  <2>3. CASE Skip(t)
    \* the only name that is not written is that of a sensor, which nobody remembers
    <3> DEFINE ref == Ref(my[t].id, IF devices[my[t].id] = my[t].row THEN job[t].d ELSE NoMac)
    <3>1. /\ UNCHANGED <<devices, history>> /\ Remember(t, ref)
          /\ job[t].kind = "name" => job[t].role = "sen"
      BY <2>3 DEF Skip, Writes
    <3> HIDE DEF ref
    <3>2. RefsFit'
      BY <1>3, <3>1, RefsRemembered
    <3> QED
      BY <1>1, <3>1, <3>2, NoWrite
  <2> QED
    BY <1>1, <1>4, <2>1, <2>2, <2>3, GetNewParents, StoreParents DEF Step
<1>5. ASSUME NEW t \in Planners, ClearAll(t) \/ EndConf(t) \/ NewClient(t) PROVE PInv'
  <2>1. CASE NewClient(t)
    <3>1. cur' = [cur EXCEPT ![t] = NoRefs] /\ UNCHANGED <<devices, history>>
      BY <2>1 DEF NewClient
    <3>2. RefFitsNext(NoRefs.man) /\ RefFitsNext(NoRefs.ui)
      BY Basics DEF RefFitsNext, NoRefs, NoRef, Ref
    <3>3. \A p \in Planners : RefFitsNext(cur'[p].man) /\ RefFitsNext(cur'[p].ui)
      BY <1>3, <3>1, <3>2 DEF PInv, IInv, JobsFit
    <3>4. RefsFit'
      BY <3>3 DEF RefsFit, RefFits, RefFitsNext
    <3> QED
      BY <1>1, <3>1, <3>4, NoWrite
  <2> QED
    BY <1>1, <1>5, <2>1, ClearAllParents, EndConfParents
<1>6. ASSUME NEW t \in Editors,
             \/ \E d \in Edited : Delete(t, d)
             \/ \E kinds \in EmptyModes : Empty(t, kinds)
      PROVE  PInv'
  <2>1. PICK ds : Removed(ds)
    BY <1>6 DEF Delete, Empty
  <2> QED
    BY <1>1, <2>1, RemovedParents
<1>7. CASE UNCHANGED vars
  BY <1>2, <1>7 DEF vars, threads
<1> QED
  BY <1>2, <1>4, <1>5, <1>6, <1>7, BeginSteady DEF Next

-----------------------------------------------------------------------------
(* Theorems                                                                *)

\* The rows and the copies keep their types, and what a thread writes back with
\* newDbSetDevice goes to a row of the table, although newDbGetNewDevice may have failed.
THEOREM DevicesTypeCorrect == Spec => []TypeOK
<1>1. IInv => TypeOK
  BY DEF IInv
<1> QED
  BY <1>1, InitIInv, NextIInv, PTL DEF Spec

\* newDbDevicesRemoveWithClearFlag leaves the topology that was named since
\* newDbDevicesSetClearFlag, unless a device came or went by another way or a write to its
\* row was lost.
THEOREM TopologyIsReplaced == Spec => TopologyReplaced
<1> DEFINE Replaced == \A t \in Planners : EndConf(t) =>
                          /\ named \ lost \subseteq Present'
                          /\ (marked \ lost) \cap Present' = {}
<1>1. IInv /\ [Next]_vars => [Replaced]_vars
  <2> SUFFICES ASSUME IInv, NEW t \in Planners, EndConf(t)
               PROVE  named \subseteq Present' /\ marked \cap Present' = {}
    OBVIOUS
  <2>1. \A i \in Rows : devices'[i] = (IF devices[i].clear THEN FreeRow ELSE devices[i])
    BY DEF EndConf, Cleared
  <2>2. FreeRow.mac = NoMac /\ NoMac \notin Devices
    BY Basics DEF FreeRow, NewRow
  <2>3. named \subseteq Present'
    <3> SUFFICES ASSUME NEW d \in named PROVE d \in Present'
      OBVIOUS
    <3>1. PICK i \in Rows : devices[i].mac = d /\ d \in Devices
      BY DEF IInv, FlagsFit, Present, WithMac
    <3>2. devices'[i].mac = d
      BY <2>1, <3>1 DEF IInv, FlagsFit
    <3> QED
      BY <3>1, <3>2 DEF Present, WithMac
  <2>4. ASSUME NEW d \in marked PROVE d \notin Present'
    <3>1. \A i \in Rows : devices[i].mac = d => devices[i].clear
      BY DEF IInv, FlagsFit
    <3>2. d \in Devices
      BY DEF IInv, TypeOK
    <3> QED
      BY <2>1, <2>2, <3>1, <3>2 DEF Present, WithMac
  <2> QED
    BY <2>3, <2>4
<1> QED
  BY <1>1, InitIInv, NextIInv, PTL DEF Spec, TopologyReplaced

\* A device's parent is the row of the manager, user interface or sensor that the topology
\* named for it (addUi, addSensor), and that row is still this one's.
THEOREM ParentsAreOwn == Spec => []ParentIsOwn
<1>1. PInv => ParentIsOwn
  <2> SUFFICES ASSUME PInv, NEW i \in Rows, InUse(i), devices[i].mac \notin lost,
                      parentOf[devices[i].mac] # NoMac
               PROVE  /\ devices[i].par # None
                      /\ devices[devices[i].par].mac = parentOf[devices[i].mac]
    BY DEF ParentIsOwn
  <2>1. devices[i].mac \in Devices
    BY DEF InUse, PInv, IInv, TypeOK, Row
  <2>2. None \notin Rows
    BY DevicesAssumption DEF DevicesAssumption, None, Rows
  <2> QED
    BY <2>1, <2>2 DEF PInv, ParentsFit, ParentFits
<1> QED
  BY <1>1, ParentsInit, NextPInv, PTL DEF Spec
=============================================================================
