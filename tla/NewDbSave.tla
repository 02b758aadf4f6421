----------------------------- MODULE NewDbSave -----------------------------
(***************************************************************************)
(* IotCommon/newDb.c: how the shared-memory database reaches the disk and  *)
(* comes back.  Two savers run newDbSave under newDbFileLock: dbSaveThread *)
(* of the ControlInterface every ten seconds, and the process that         *)
(* handles a shutdown or reboot command, which keeps the lock and then     *)
(* takes the system down.  After a restart newDbOpen restores the file.    *)
(*                                                                         *)
(* pc[s]: idle, lock (waits for the save lock), copy, remove, rename,      *)
(* create, write (the steps of newDbSaveTable), unlock, halt.              *)
(* The contents of the database are a version number; a file is complete   *)
(* or not.  A step on the file system is durable when it is done, and the  *)
(* save lock is taken to exclude (IotSemaphore says when it does).         *)
(***************************************************************************)
EXTENDS Integers

CONSTANTS MaxUpdates, MaxTime,   \* bounds on updates and on seconds
          MaxFaults,             \* bound on power failures and failing calls
          Faults                 \* power: power failures; io: file calls fail
                                 \* samesecond: an update may share its second
                                 \* with an earlier copy

ASSUME SaveAssumption ==
    /\ MaxUpdates \in Nat /\ MaxTime \in Nat /\ MaxFaults \in Nat
    /\ Faults \subseteq {"power", "io", "samesecond"}

VARIABLES mem,        \* the database in shared memory: version and lastupdate
          db, bck,    \* iot_database.db and iot_database.bck
          pc, copy,   \* where a saver stands, and its dbCopy
          remembered, \* its static lastupdate
          holder,     \* who has the save lock
          clock, copiedAt, updates, faults, everSaved

saver == <<pc, copy, remembered, holder>>
vars  == <<mem, db, bck, saver, clock, copiedAt, updates, faults, everSaved>>

Savers == {"thread", "command"}
Nobody == "nobody"
Empty  == [val |-> 0, stamp |-> 0]        \* what newDbOpen initialises
Absent == [val |-> 0, stamp |-> 0, full |-> FALSE, exists |-> FALSE]
File(c, full) == [val |-> c.val, stamp |-> c.stamp, full |-> full, exists |-> TRUE]

Init ==
    /\ mem = Empty /\ db = Absent /\ bck = Absent
    /\ pc = [s \in Savers |-> "idle"]
    /\ copy = [s \in Savers |-> Empty]
    /\ remembered = [s \in Savers |-> 0]
    /\ holder = Nobody
    /\ clock = 1 /\ copiedAt = 0 /\ updates = 0 /\ faults = 0 /\ everSaved = FALSE

Goto(s, place) == pc' = [pc EXCEPT ![s] = place]

Tick ==
    /\ clock < MaxTime
    /\ clock' = clock + 1
    /\ UNCHANGED <<mem, db, bck, saver, copiedAt, updates, faults, everSaved>>

\* Any newDbSet..., newDbGetNew..., newDbDelete... of any process: the row is written
\* and the table's lastupdate becomes the current second.
Update ==
    /\ updates < MaxUpdates
    /\ "samesecond" \in Faults \/ clock > copiedAt
    /\ updates' = updates + 1
    /\ mem' = [val |-> updates + 1, stamp |-> clock]
    /\ UNCHANGED <<db, bck, saver, clock, copiedAt, faults, everSaved>>

-----------------------------------------------------------------------------
(* newDbFileLock, newDbSave, newDbFileUnlock                               *)

\* The process of a command was forked from the one the thread runs in, and knows
\* what that one remembered then.
StartSave(s) ==
    /\ pc[s] = "idle"
    /\ Goto(s, "lock")
    /\ \E r \in IF s = "command" THEN {0, remembered["thread"]} ELSE {remembered[s]} :
         remembered' = [remembered EXCEPT ![s] = r]
    /\ UNCHANGED <<mem, db, bck, copy, holder, clock, copiedAt, updates, faults, everSaved>>

Lock(s) ==
    /\ pc[s] = "lock"
    /\ holder = Nobody
    /\ holder' = s
    /\ Goto(s, "copy")
    /\ UNCHANGED <<mem, db, bck, copy, remembered, clock, copiedAt, updates, faults, everSaved>>

\* The database is copied inside NEWDB_SEMKEY; nothing is saved when its lastupdate
\* is the one of the last save.
Copy(s) ==
    /\ pc[s] = "copy"
    /\ copy' = [copy EXCEPT ![s] = mem]
    /\ copiedAt' = clock
    /\ Goto(s, IF mem.stamp = remembered[s] THEN "unlock" ELSE "remove")
    /\ UNCHANGED <<mem, db, bck, remembered, holder, clock, updates, faults, everSaved>>

\* The database file exists, so the backup goes.
RemoveBackup(s) ==
    /\ pc[s] = "remove"
    /\ bck' = IF db.exists THEN Absent ELSE bck
    /\ Goto(s, IF db.exists THEN "rename" ELSE "create")
    /\ UNCHANGED <<mem, db, copy, remembered, holder, clock, copiedAt, updates, faults, everSaved>>

\* Faulty variant: the file is not moved out of the way before it is written.
RenameSkipped(s) ==
    /\ pc[s] = "rename"
    /\ Goto(s, "create")
    /\ UNCHANGED <<mem, db, bck, copy, remembered, holder, clock, copiedAt, updates, faults, everSaved>>

Rename(s) ==
    /\ pc[s] = "rename"
    /\ bck' = db /\ db' = Absent
    /\ Goto(s, "create")
    /\ UNCHANGED <<mem, copy, remembered, holder, clock, copiedAt, updates, faults, everSaved>>

CreateFile(s) ==
    /\ pc[s] = "create"
    /\ db' = File(copy[s], FALSE)
    /\ Goto(s, "write")
    /\ UNCHANGED <<mem, bck, copy, remembered, holder, clock, copiedAt, updates, faults, everSaved>>

Write(s) ==
    /\ pc[s] = "write"
    /\ db' = File(copy[s], TRUE)
    /\ everSaved' = TRUE
    /\ remembered' = [remembered EXCEPT ![s] = copy[s].stamp]
    /\ Goto(s, "unlock")
    /\ UNCHANGED <<mem, bck, copy, holder, clock, copiedAt, updates, faults>>

Fault(f) ==
    /\ f \in Faults
    /\ faults < MaxFaults
    /\ faults' = faults + 1

\* Faulty variant: the outcome of newDbSaveTable is not looked at.
SaveFailsUnnoticed(s) ==
    /\ pc[s] \in {"remove", "rename", "create", "write"}
    /\ Fault("io")
    /\ remembered' = [remembered EXCEPT ![s] = copy[s].stamp]
    /\ Goto(s, "unlock")
    /\ UNCHANGED <<mem, db, bck, copy, holder, clock, copiedAt, updates, everSaved>>

\* remove, rename, the creation or a write fails: newDbSaveTable gives up there.
SaveFails(s) ==
    /\ pc[s] \in {"remove", "rename", "create", "write"}
    /\ Fault("io")
    /\ Goto(s, "unlock")
    /\ UNCHANGED <<mem, db, bck, copy, remembered, holder, clock, copiedAt, updates, everSaved>>

\* The thread unlocks; the command keeps the lock and takes the system down.
Unlock(s) ==
    /\ pc[s] = "unlock"
    /\ holder' = IF s = "thread" THEN Nobody ELSE holder
    /\ Goto(s, IF s = "thread" THEN "idle" ELSE "halt")
    /\ UNCHANGED <<mem, db, bck, copy, remembered, clock, copiedAt, updates, faults, everSaved>>

-----------------------------------------------------------------------------
(* Restart                                                                 *)

\* Faulty variant: the backup is tried first.
RestoredBackupFirst ==
    LET f == IF bck.exists THEN bck ELSE db
    IN  IF f.full THEN [val |-> f.val, stamp |-> f.stamp] ELSE Empty

\* newDbRestore: the backup is only tried when the database file cannot be opened;
\* a file that is too short restores nothing.
Restored ==
    LET f == IF db.exists THEN db ELSE bck
    IN  IF f.full THEN [val |-> f.val, stamp |-> f.stamp] ELSE Empty

\* newDbOpen in the first process after the restart; semaphores and statics are new.
Restart ==
    /\ mem' = Restored
    /\ pc' = [s \in Savers |-> "idle"]
    /\ remembered' = [s \in Savers |-> 0]
    /\ holder' = Nobody
    /\ UNCHANGED <<db, bck, copy, clock, copiedAt, updates, everSaved>>

Halt ==
    /\ pc["command"] = "halt"
    /\ Restart
    /\ UNCHANGED faults

PowerFailure ==
    /\ Fault("power")
    /\ Restart

SaverStep(s) == \/ Lock(s) \/ Copy(s) \/ RemoveBackup(s) \/ Rename(s)
                \/ CreateFile(s) \/ Write(s) \/ Unlock(s)

Next == \/ \E s \in Savers : StartSave(s) \/ SaverStep(s) \/ SaveFails(s)
        \/ Tick \/ Update \/ Halt \/ PowerFailure

Spec == Init /\ [][Next]_vars

\* The thread saves again and again, whoever runs goes on, and a command that has
\* saved takes the system down.
Fairness == /\ \A s \in Savers : WF_vars(SaverStep(s)) /\ SF_vars(Lock(s))
            /\ WF_vars(StartSave("thread")) /\ WF_vars(Halt)

FairSpec == Spec /\ Fairness

-----------------------------------------------------------------------------
(* Properties                                                              *)

\* Until the first failure there is always a complete copy of an earlier save on the
\* disk, at every step of the next one.
SomeCopyIsComplete == everSaved /\ faults = 0 => db.full \/ bck.full

\* A shutdown or reboot command whose save does not fail loses nothing: the system
\* comes up with the database the command copied, whatever the save thread was doing
\* meanwhile and whatever failed before.
ShutdownKeepsData ==
    [][Halt /\ remembered["command"] = copy["command"].stamp => mem' = copy["command"]]_vars

\* The disk catches up with the memory again and again: every update is saved.
DiskCatchesUp == []<>(Restored.val = mem.val)

\* The backup is only thrown away when the database file that takes its place is complete.
\* The code does not see to it: TLC refutes this with the faults power and io.
BackupNotNeeded == [][bck.full /\ ~bck'.full => db.full]_vars
=============================================================================
