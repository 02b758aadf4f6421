---------------------------- MODULE DeviceTable ----------------------------
(***************************************************************************)
(* The table of devices (devices in IotCommon/newDb.c) and what is written *)
(* to it: by the callback thread of the ZCB daemon (zcb), when a device    *)
(* announces itself or reports (zb_main.c); and by the processes of the    *)
(* control interface, one per client, which set a topology (topo.c),       *)
(* control a device (ctrl.c, sensor.c) or edit the table (dbEdit.c).       *)
(*                                                                         *)
(* Each newDb call holds NEWDB_SEMKEY; what is done to a device is a get   *)
(* of its row, a change of the copy, and a set of the whole row.  pc[t]:   *)
(* idle; found, missing (after the get); created (after newDbGetNewDevice) *)
(*                                                                         *)
(* A topology is sent as "clearall", which flags every device, one message *)
(* per device, which clears its flag, and "endconf", which removes the     *)
(* devices that are still flagged.  A device's parent is the row number of *)
(* the manager, user interface or sensor named before it.                  *)
(***************************************************************************)
EXTENDS Integers, FiniteSets, FiniteSetsExt

CONSTANTS Devices,      \* mac addresses
          Kind,         \* what each device announces itself as
          Roles,        \* what a topology may name each device as
          Edited,       \* the devices an editor controls, adds or deletes one by one
          Planners,     \* processes whose client sends topologies
          Editors,      \* processes whose client controls and edits devices
          Parents,      \* the row numbers somebody enters as a parent
          NRows,        \* NEWDB_MAX_DEVICES
          MaxJobs,      \* bound on jobs under way at the same time
          MaxLost,      \* bound on lost devices: above it no job begins
          NoMac

Kinds == {"man", "ui", "sen", "uisen", "lmp"}
None  == -1

ASSUME DevicesAssumption ==
    /\ NoMac \notin Devices /\ Edited \subseteq Devices
    /\ NRows \in Nat \ {0} /\ MaxJobs \in Nat /\ MaxLost \in Nat
    /\ Parents \subseteq 0 .. NRows - 1
    /\ Kind \in [Devices -> Kinds]
    /\ Roles \in [Devices -> SUBSET (Kinds \ {"uisen"})]
    /\ "zcb" \notin Planners \cup Editors

VARIABLES devices,       \* the table
          pc, job, my,   \* where a thread stands, what it does, its copy of a row
          cur,           \* currentManager, currentUI of a planner
          named, marked, \* history: the devices named since the last clearall, those
                         \* it flagged and nobody has named since
          lost,          \* history: the devices a write of whose row was overwritten, or
                         \* that were created twice
          parentOf       \* history: the parent a topology named for a device, until
                         \* somebody interferes

threads == <<pc, job, my, cur>>
history == <<named, marked, lost, parentOf>>
vars    == <<devices, threads, history>>

Threads == {"zcb"} \cup Planners \cup Editors
Rows    == 0 .. NRows - 1
Ids     == Rows \cup {None}

Row == [mac : Devices \cup {NoMac}, dev : Kinds \cup {"none"}, par : Ids,
        clear : BOOLEAN]

\* memset, and the mac: the parent is row 0, which is no parent but nothing tells so.
NewRow(m) == [mac |-> m, dev |-> "none", par |-> 0, clear |-> FALSE]
FreeRow   == NewRow(NoMac)

Job(kind, d, role, par) == [kind |-> kind, d |-> d, role |-> role, par |-> par]
NoJob  == Job("none", NoMac, "none", None)
NoCopy == [id |-> None, row |-> FreeRow]

NoParents == [d \in Devices |-> NoMac]

\* A row number a planner remembers, and (history) whose it was.
Ref(i, m) == [id |-> i, mac |-> m]
NoRef     == Ref(None, NoMac)
NoRefs    == [man |-> NoRef, ui |-> NoRef]

Init ==
    /\ devices = [i \in Rows |-> FreeRow]
    /\ pc = [t \in Threads |-> "idle"]
    /\ job = [t \in Threads |-> NoJob]
    /\ my = [t \in Threads |-> NoCopy]
    /\ cur = [t \in Planners |-> NoRefs]
    /\ named = {} /\ marked = {} /\ lost = {}
    /\ parentOf = NoParents

-----------------------------------------------------------------------------
(* newDb: what one call finds                                              *)

InUse(i)   == devices[i].mac # NoMac
WithMac(d) == {i \in Rows : devices[i].mac = d}
FreeRows   == {i \in Rows : ~InUse(i)}
Present    == {d \in Devices : WithMac(d) # {}}
Copy(i)    == [id |-> i, row |-> devices[i]]

Goto(t, place) == pc' = [pc EXCEPT ![t] = place]
Keep(t, c)     == my' = [my EXCEPT ![t] = c]
SetJob(t, j)   == job' = [job EXCEPT ![t] = j]
Done(t)        == Goto(t, "idle") /\ SetJob(t, NoJob) /\ Keep(t, NoCopy)

-----------------------------------------------------------------------------
(* The changes a thread makes to its copy                                  *)

Unflagged(r)    == [r EXCEPT !.clear = FALSE]
As(r, kind)     == [r EXCEPT !.dev = kind]
Under(r, ref)   == [r EXCEPT !.par = ref.id]

\* Whose child a device named as role becomes.
Parent(c, role) == CASE role = "ui"  -> c.man
                     [] role = "sen" -> c.ui

IsChild(role) == role \in {"ui", "sen"}

\* addUi and addSensor make one device of both kinds of a combined one.
Renamed(r, role) ==
    CASE role = "ui"  -> IF r.dev = "none" THEN As(r, "ui")
                         ELSE IF r.dev = "sen" THEN As(r, "uisen") ELSE r
      [] role = "sen" -> IF r.dev = "none" THEN As(r, "sen")
                         ELSE IF r.dev = "ui" THEN As(r, "uisen") ELSE r
      [] OTHER        -> As(r, role)

\* A sensor only gets the parent when it is not known as a user interface.
TakesParent(r, role) ==
    IsChild(role) /\ (role = "sen" => r.dev \in {"none", "sen"})

\* Faulty variant: the flag of the last clearall stays.
NamedFlagged(r, role, c) ==
    LET s == Renamed(r, role)
    IN  IF TakesParent(r, role) THEN Under(s, Parent(c, role)) ELSE s

\* addManager, addUi, addSensor, addLamp, addPlug for a device that exists ...
Named(r, role, c) ==
    LET s == Unflagged(Renamed(r, role))
    IN  IF TakesParent(r, role) THEN Under(s, Parent(c, role)) ELSE s

\* ... and for a new one.
NamedNew(r, role, c) ==
    IF IsChild(role) THEN Under(As(r, role), Parent(c, role)) ELSE As(r, role)

\* A device the table knows as something else is not written as a sensor, and only
\* devices with controls are controlled.
Writes(t) ==
    LET dev == my[t].row.dev
    IN  CASE job[t].kind = "name"    -> job[t].role # "sen" \/ dev \in {"none", "ui", "sen", "uisen"}
          [] job[t].kind = "control" -> dev \in {"ui", "uisen", "lmp"}
          [] job[t].kind = "add"     -> FALSE
          [] OTHER                   -> TRUE

Changed(t) ==
    LET r == my[t].row
        j == job[t]
    IN  CASE j.kind = "announce" -> As(r, Kind[j.d])
          [] j.kind = "name"     -> Named(r, j.role, cur[t])
          [] j.kind = "parent"   -> [r EXCEPT !.par = j.par]
          [] OTHER               -> r

ChangedNew(t) ==
    LET r == my[t].row
        j == job[t]
    IN  CASE j.kind = "name" -> NamedNew(r, j.role, cur[t])
          [] OTHER           -> As(r, Kind[j.d])

\* What a planner remembers of the device it has just named, or could not.
Remembers(c, role, ref) ==
    CASE role = "man" -> [man |-> ref, ui |-> NoRef]
      [] role = "ui"  -> [man |-> c.man, ui |-> ref]
      [] OTHER        -> c

Remember(t, ref) ==
    cur' = IF job[t].kind = "name"
              THEN [cur EXCEPT ![t] = Remembers(@, job[t].role, ref)] ELSE cur

-----------------------------------------------------------------------------
(* The steps                                                               *)

\* A lost device is followed no further.
Follow(ns, ms, ls, parents) ==
    /\ named' = ns \ ls /\ marked' = ms \ ls /\ lost' = ls
    /\ parentOf' = [d \in Devices |-> IF d \in ls \/ parents[d] \in ls THEN NoMac ELSE parents[d]]

Begin(t, j) ==
    /\ pc[t] = "idle" /\ Cardinality({u \in Threads : pc[u] # "idle"}) < MaxJobs
    /\ Cardinality(lost) <= MaxLost
    /\ SetJob(t, j)

\* A thread takes up a job with the get of the row: newDbGetDevice.
Get(t, j) ==
    /\ Begin(t, j)
    /\ IF WithMac(j.d) = {}
          THEN Goto(t, "missing") /\ Keep(t, NoCopy)
          ELSE Goto(t, "found") /\ Keep(t, Copy(Min(WithMac(j.d))))
    /\ UNCHANGED <<devices, cur, history>>

\* zcbHandleAnnounce; zcbHandleActuator, zcbHandleUI, zcbHandleSensor, sendOccupancy,
\* handlePlugData
Announce(d) == Get("zcb", Job("announce", d, "none", None))
Report(d)   == Get("zcb", Job("report", d, "none", None))

\* A topology message names d as role; a control message, an edit.
Name(t, d, role) == t \in Planners /\ Get(t, Job("name", d, role, None))
Control(t, d)    == t \in Editors /\ Get(t, Job("control", d, "none", None))
Add(t, d)        == t \in Editors /\ Get(t, Job("add", d, "none", None))

\* tableEdit gets the row by its number, whatever it holds.
EditParent(t, i, par) ==
    /\ t \in Editors
    /\ Begin(t, Job("parent", devices[i].mac, "none", par))
    /\ Goto(t, "found") /\ Keep(t, Copy(i))
    /\ UNCHANGED <<devices, cur, history>>

\* Nobody inserts a device for a report or a control message.
GiveUp(t) ==
    /\ pc[t] = "missing" /\ job[t].kind \in {"report", "control"}
    /\ Done(t)
    /\ UNCHANGED <<devices, cur, history>>

\* Faulty variant: the result of newDbGetNewDevice is not looked at.
TableFullGoOn(t) ==
    /\ pc[t] = "missing" /\ job[t].kind \in {"announce", "name", "add"}
    /\ FreeRows = {}
    /\ Goto(t, "created")
    /\ UNCHANGED <<devices, job, my, cur, history>>

\* newDbGetNewDevice fails: the id is -1.
TableFull(t) ==
    /\ pc[t] = "missing" /\ job[t].kind \in {"announce", "name", "add"}
    /\ FreeRows = {}
    /\ Remember(t, NoRef) /\ Done(t)
    /\ UNCHANGED <<devices, history>>

\* newDbGetNewDevice: the first free row.  The device may have got one meanwhile.
GetNew(t) ==
    /\ pc[t] = "missing" /\ job[t].kind \in {"announce", "name", "add"}
    /\ FreeRows # {}
    /\ LET i == Min(FreeRows)
           r == NewRow(job[t].d)
       IN  /\ devices' = [devices EXCEPT ![i] = r]
           /\ Keep(t, [id |-> i, row |-> r])
    /\ Goto(t, "created")
    /\ Follow(named, marked, lost \cup (IF WithMac(job[t].d) = {} THEN {} ELSE {job[t].d}),
              [parentOf EXCEPT ![job[t].d] = NoMac])
    /\ UNCHANGED <<job, cur>>

\* The parent that a topology names for the device, if any.
NamedParent(t) ==
    LET role == job[t].role
    IN  IF IsChild(role) /\ (pc[t] = "created" \/ TakesParent(my[t].row, role))
           THEN Parent(cur[t], role).mac ELSE NoMac

\* newDbSetDevice, over whatever has become of the row since the copy was made.
Store(t) ==
    LET r == IF pc[t] = "found" THEN Changed(t) ELSE ChangedNew(t)
        i == my[t].id
        d == r.mac
        overwritten == IF devices[i] = my[t].row THEN {} ELSE {d, devices[i].mac} \ {NoMac}
    IN  /\ pc[t] = "created" \/ (pc[t] = "found" /\ Writes(t))
        /\ devices' = [devices EXCEPT ![i] = IF d = NoMac THEN FreeRow ELSE r]
        /\ CASE job[t].kind = "name" ->
                  Follow(named \cup {d}, marked \ {d}, lost \cup overwritten,
                         [parentOf EXCEPT ![d] = NamedParent(t)])
             [] job[t].kind = "parent" /\ d # NoMac ->
                  Follow(named, marked, lost \cup overwritten, [parentOf EXCEPT ![d] = NoMac])
             [] OTHER -> Follow(named, marked, lost \cup overwritten, parentOf)
        /\ Remember(t, Ref(i, d))
        /\ Done(t)

\* The copy is not written; the message counts as handled.
Skip(t) ==
    /\ pc[t] = "found" /\ ~Writes(t)
    /\ Remember(t, Ref(my[t].id, IF devices[my[t].id] = my[t].row THEN job[t].d ELSE NoMac))
    /\ Done(t)
    /\ UNCHANGED <<devices, history>>

-----------------------------------------------------------------------------
(* Whole-table operations                                                  *)

Flagged == [i \in Rows |-> IF InUse(i) THEN [devices[i] EXCEPT !.clear = TRUE] ELSE devices[i]]

Cleared(rows) == [i \in Rows |-> IF i \in rows THEN FreeRow ELSE devices[i]]

\* What a planner remembers may no longer be so (history; the row numbers stay).
Doubtful(c) == [man |-> Ref(c.man.id, NoMac), ui |-> Ref(c.ui.id, NoMac)]

Doubt(t, refs) == cur' = [p \in Planners |-> IF p = t THEN refs ELSE Doubtful(cur[p])]

\* Faulty variant: the manager of the last topology is not forgotten.
ClearAllKeep(t) ==
    /\ t \in Planners /\ pc[t] = "idle"
    /\ devices' = Flagged
    /\ Doubt(t, cur[t])
    /\ Follow({}, Present, lost, parentOf)
    /\ UNCHANGED <<pc, job, my>>

\* clearall: newDbDevicesSetClearFlag
ClearAll(t) ==
    /\ t \in Planners /\ pc[t] = "idle"
    /\ devices' = Flagged
    /\ Doubt(t, NoRefs)
    /\ Follow({}, Present, lost, parentOf)
    /\ UNCHANGED <<pc, job, my>>

\* endconf: newDbDevicesRemoveWithClearFlag
EndConf(t) ==
    /\ t \in Planners /\ pc[t] = "idle"
    /\ devices' = Cleared({i \in Rows : devices[i].clear})
    /\ Doubt(t, cur[t])
    /\ Follow(named, {}, lost, parentOf)
    /\ UNCHANGED <<pc, job, my>>

\* The client goes; the next one has a process of its own.
NewClient(t) ==
    /\ t \in Planners /\ pc[t] = "idle" /\ cur[t] # NoRefs
    /\ cur' = [cur EXCEPT ![t] = NoRefs]
    /\ UNCHANGED <<devices, pc, job, my, history>>

\* newDbDeleteDevice, newDbEmptyDevices: devices are removed by hand.
Removed(ds) ==
    /\ Follow(named \ ds, marked \ ds, lost, NoParents)
    /\ cur' = [p \in Planners |-> Doubtful(cur[p])]
    /\ UNCHANGED <<pc, job, my>>

Delete(t, d) ==
    /\ t \in Editors /\ pc[t] = "idle"
    /\ WithMac(d) # {}
    /\ devices' = Cleared({Min(WithMac(d))})
    /\ Removed({d})

\* clr: all devices, or those known as one of some kinds.
Empty(t, kinds) ==
    /\ t \in Editors /\ pc[t] = "idle"
    /\ LET rows == {i \in Rows : InUse(i) /\ devices[i].dev \in kinds}
       IN  /\ devices' = Cleared(rows)
           /\ Removed({devices[i].mac : i \in rows})

EmptyModes == {Kinds \cup {"none"}, {"man", "ui", "sen", "uisen"}, {"lmp"}}

-----------------------------------------------------------------------------

Step(t) == GiveUp(t) \/ TableFull(t) \/ GetNew(t) \/ Store(t) \/ Skip(t)

Next ==
    \/ \E t \in Threads : Step(t)
    \/ \E d \in Devices : Announce(d) \/ Report(d)
    \/ \E t \in Planners : \/ ClearAll(t) \/ EndConf(t) \/ NewClient(t)
                           \/ \E d \in Devices : \E role \in Roles[d] : Name(t, d, role)
    \/ \E t \in Editors :
          \/ \E d \in Edited : Control(t, d) \/ Add(t, d) \/ Delete(t, d)
          \/ \E i \in Rows, par \in Parents : EditParent(t, i, par)
          \/ \E kinds \in EmptyModes : Empty(t, kinds)

Spec == Init /\ [][Next]_vars

-----------------------------------------------------------------------------
(* Properties                                                              *)

\* The table and the copies hold rows; a copy names a row whenever it can be written back.
TypeOK ==
    /\ devices \in [Rows -> Row]
    /\ pc \in [Threads -> {"idle", "found", "missing", "created"}]
    /\ my \in [Threads -> [id : Ids, row : Row]]
    /\ \A t \in Threads : pc[t] \in {"found", "created"} => my[t].id \in Rows
    /\ named \subseteq Devices /\ marked \subseteq Devices /\ lost \subseteq Devices

\* After endconf the table is the topology: the devices named since clearall are there and
\* the others that were there at clearall are not, unless they came or went by another
\* way or a write to their row was lost.
TopologyReplaced ==
    [][\A t \in Planners : EndConf(t) =>
          /\ named \ lost \subseteq Present'
          /\ (marked \ lost) \cap Present' = {}]_vars

\* The parent of a device is the row of the manager, user interface or sensor the topology
\* named for it, and that row is still this one's, although row numbers are reused:
\* until devices are removed or edited by hand, or a write to their row is lost.
ParentIsOwn ==
    \A i \in Rows : LET r == devices[i] IN
        InUse(i) /\ r.mac \notin lost /\ parentOf[r.mac] # NoMac
            => r.par # None /\ devices[r.par].mac = parentOf[r.mac]

\* The mac is the key of a row.  The code does not see to it: TLC refutes this, when two
\* threads find a new device missing and both create it.
MacIsKey == \A i, j \in Rows : InUse(i) /\ devices[i].mac = devices[j].mac => i = j
=============================================================================
