-------------------------- MODULE NewDbSaveProofs --------------------------
(* A complete copy of the database survives every step of a save, and a    *)
(* shutdown brings the system up with what it saved, for any number of     *)
(* updates and seconds.  The lock they are saved under (IotSemaphore)      *)
(* excludes for any number of processes until trouble comes: the semaphore *)
(* did not exist at the start, a holder was killed, or a wait timed out    *)
(* under a live holder.  TLC finds two processes inside after a kill.      *)
EXTENDS NewDbSave, IotSemaphore, TLAPS

Places == {"idle", "lock", "copy", "remove", "rename", "create", "write", "unlock", "halt"}

Types == pc \in [Savers -> Places] /\ faults \in Nat

\* Who has begun a save holds newDbFileLock.
LockInv == \A s \in Savers : pc[s] \notin {"idle", "lock"} => holder = s

\* Between the rename and the end of the write.
Replacing == \E s \in Savers : pc[s] \in {"create", "write"}

\* While the database file is replaced the backup is complete, otherwise the database
\* file is.
DiskInv ==
    faults = 0 =>
        /\ db.full => db.exists
        /\ everSaved => IF Replacing THEN bck.full ELSE db.full

IInv == Types /\ LockInv /\ DiskInv

\* The invariant implies the property, and holds when the system is new.
LEMMA IInvSuffices == IInv => SomeCopyIsComplete
BY DEF IInv, DiskInv, SomeCopyIsComplete

LEMMA InitIInv == Init => IInv
BY DEF Init, IInv, Types, Places, Savers, LockInv, DiskInv, Replacing, Absent

\* Steps outside the save: the files stay as they are and nobody starts replacing them.
LEMMA BesideSave ==
  ASSUME IInv, NEW s \in Savers,
         StartSave(s) \/ Lock(s) \/ Copy(s) \/ Unlock(s) \/ Tick \/ Update
  PROVE  IInv'
<1> USE DEF IInv, Types, Places, LockInv, Savers, Nobody
<1>1. (Types /\ LockInv)' /\ UNCHANGED <<db, bck, everSaved, faults>>
  BY DEF StartSave, Lock, Copy, Unlock, Tick, Update, Goto, saver
<1>2. Replacing' <=> Replacing
  BY DEF StartSave, Lock, Copy, Unlock, Tick, Update, Goto, saver, Replacing
<1> QED
  BY <1>1, <1>2 DEF DiskInv

\* The steps of newDbSaveTable.  Its caller holds the lock, so the other saver stands
\* outside: only s can be replacing the file.
LEMMA SaveStep ==
  ASSUME IInv, NEW s \in Savers,
         RemoveBackup(s) \/ Rename(s) \/ CreateFile(s) \/ Write(s)
  PROVE  IInv'
<1> USE DEF IInv, Types, Places, LockInv
<1>1. (Types /\ LockInv)'
  BY DEF RemoveBackup, Rename, CreateFile, Write, Goto
<1>2. \A t \in Savers \ {s} : pc[t] \in {"idle", "lock"} /\ pc'[t] = pc[t]
  BY DEF RemoveBackup, Rename, CreateFile, Write, Goto
<1>3. /\ Replacing <=> pc[s] \in {"create", "write"}
      /\ Replacing' <=> pc'[s] \in {"create", "write"}
  BY <1>2 DEF Replacing
<1>4. DiskInv'
  <2> SUFFICES ASSUME faults' = 0
               PROVE  /\ db'.full => db'.exists
                      /\ everSaved' => IF Replacing' THEN bck'.full ELSE db'.full
    BY DEF DiskInv
  <2>0. faults = 0
    BY DEF RemoveBackup, Rename, CreateFile, Write
  <2>1. CASE RemoveBackup(s)
    \* without a database file nothing has been saved yet
    BY <2>0, <2>1, <1>3 DEF RemoveBackup, Goto, DiskInv
  <2>2. CASE Rename(s)
    \* the complete database file becomes the backup
    BY <2>0, <2>2, <1>3 DEF Rename, Goto, DiskInv, Absent
  <2>3. CASE CreateFile(s)
    BY <2>0, <2>3, <1>3 DEF CreateFile, Goto, DiskInv, File
  <2>4. CASE Write(s)
    BY <2>0, <2>4, <1>3 DEF Write, Goto, DiskInv, File
  <2> QED
    BY <2>1, <2>2, <2>3, <2>4
<1> QED
  BY <1>1, <1>4

\* A failure ends what the invariant says of the files.
LEMMA FailureStep ==
  ASSUME IInv, (\E s \in Savers : SaveFails(s)) \/ PowerFailure
  PROVE  IInv'
BY DEF IInv, Types, Places, LockInv, DiskInv, SaveFails, PowerFailure, Restart, Fault, Goto, Savers

\* The command holds the lock when it takes the system down, so the file is not being
\* replaced.
LEMMA HaltStep == ASSUME IInv, Halt PROVE IInv'
<1>1. ~Replacing /\ ~Replacing'
  BY DEF Halt, Restart, Replacing, IInv, LockInv, Savers
<1> QED
  BY <1>1 DEF IInv, Types, Places, LockInv, DiskInv, Halt, Restart, Savers

\* Every step keeps the inductive invariant.
LEMMA NextIInv == IInv /\ [Next]_vars => IInv'
<1> SUFFICES ASSUME IInv, [Next]_vars PROVE IInv'
  OBVIOUS
<1>1. CASE UNCHANGED vars
  BY <1>1 DEF vars, saver, IInv, Types, LockInv, DiskInv, Replacing
<1>2. ASSUME NEW s \in Savers, StartSave(s) \/ Lock(s) \/ Copy(s) \/ Unlock(s) PROVE IInv'
  BY <1>2, BesideSave
<1>3. ASSUME NEW s \in Savers, RemoveBackup(s) \/ Rename(s) \/ CreateFile(s) \/ Write(s)
      PROVE  IInv'
  BY <1>3, SaveStep
<1>4. CASE (\E s \in Savers : SaveFails(s)) \/ PowerFailure
  BY <1>4, FailureStep
<1>5. CASE Tick \/ Update
  BY <1>5, BesideSave DEF Savers
<1>6. CASE Halt
  BY <1>6, HaltStep
<1> QED
  BY <1>1, <1>2, <1>3, <1>4, <1>5, <1>6 DEF Next, SaverStep

\* Until the first failure a complete copy of the database is on the disk after every
\* step of newDbSaveTable, whoever saves and whenever the system is shut down.
THEOREM CopySurvives == Spec => []SomeCopyIsComplete
BY InitIInv, NextIInv, IInvSuffices, PTL DEF Spec

-----------------------------------------------------------------------------
(* A shutdown keeps the data                                               *)

Contents == [val : Nat, stamp : Nat]
Files    == [val : Nat, stamp : Nat, full : BOOLEAN, exists : BOOLEAN]
Saving(s) == pc[s] \in {"remove", "rename", "create", "write"}

KeepTypes ==
    /\ mem \in Contents /\ db \in Files /\ bck \in Files
    /\ copy \in [Savers -> Contents] /\ remembered \in [Savers -> Nat]
    /\ clock \in Nat \ {0} /\ copiedAt \in Nat /\ updates \in Nat

\* Nothing is dated later than now, and nobody remembers a save of a later database than
\* the one in memory, or one that was copied after the last copy.
Past ==
    /\ copiedAt <= clock /\ mem.stamp <= clock /\ db.stamp <= clock /\ bck.stamp <= clock
    /\ \A s \in Savers : remembered[s] <= copiedAt /\ remembered[s] <= mem.stamp

\* Who saves has something new to save, and its copy is the memory unless the memory is
\* dated later.
Fresh == \A s \in Savers : Saving(s) =>
    /\ copy[s].stamp <= copiedAt /\ copy[s].stamp <= mem.stamp
    /\ copy[s].stamp # remembered[s] /\ remembered[s] # mem.stamp
    /\ copy[s].stamp = mem.stamp => copy[s] = mem

\* Before the command begins to save: when the thread remembers the date of the memory,
\* the memory is what is on the disk, and the command remembers no more than the thread.
BeforeCommand ==
    /\ pc["command"] \in {"idle", "lock", "copy"} /\ remembered["thread"] = mem.stamp => Restored = mem
    /\ pc["command"] = "idle" => remembered["command"] = 0
    /\ pc["command"] \in {"lock", "copy"} /\ remembered["command"] = mem.stamp =>
         remembered["thread"] = mem.stamp

\* After it saved, or found that it need not: what it copied is on the disk.
AfterCommand ==
    pc["command"] \in {"unlock", "halt"} /\ remembered["command"] = copy["command"].stamp =>
        Restored = copy["command"]

KInv == IInv /\ KeepTypes /\ Past /\ Fresh /\ BeforeCommand /\ AfterCommand

LEMMA InitKInv == Init => KInv
<1> SUFFICES ASSUME Init PROVE KInv
  OBVIOUS
<1>1. IInv
  BY InitIInv
<1>2. KeepTypes /\ Past /\ Fresh
  BY DEF Init, KeepTypes, Contents, Files, Past, Fresh, Saving, Savers, Empty, Absent
<1>3. BeforeCommand /\ AfterCommand
  BY DEF Init, BeforeCommand, AfterCommand, Restored, Savers, Empty, Absent
<1> QED
  BY <1>1, <1>2, <1>3 DEF KInv

\* What the next newDbOpen restores is some contents, and dated no later than the files.
LEMMA RestoredType == KInv => Restored \in Contents /\ Restored.stamp <= clock
<1> SUFFICES ASSUME KInv PROVE Restored \in Contents /\ Restored.stamp <= clock
  OBVIOUS
<1> DEFINE f == IF db.exists THEN db ELSE bck
<1>1. f \in Files /\ f.stamp <= clock
  BY DEF KInv, KeepTypes, Past
<1>2. Restored = IF f.full THEN [val |-> f.val, stamp |-> f.stamp] ELSE Empty
  BY DEF Restored
<1> HIDE DEF f
<1> QED
  BY <1>1, <1>2 DEF KInv, KeepTypes, Files, Contents, Empty

\* While one saver holds the lock past "lock" the other one is outside.
LEMMA SaverAlone ==
  ASSUME IInv, NEW s \in Savers, NEW t \in Savers \ {s}, pc[s] \notin {"idle", "lock"}
  PROVE  pc[t] \in {"idle", "lock"}
BY DEF IInv, LockInv, Savers

\* The memory changes in a later second than every copy was made in.
LEMMA UpdateKeeps ==
  ASSUME KInv, "samesecond" \notin Faults, Update, IInv'
  PROVE  KInv'
<1> USE DEF KInv
<1>1. /\ mem' = [val |-> updates + 1, stamp |-> clock] /\ clock > copiedAt /\ updates' = updates + 1
      /\ UNCHANGED <<db, bck, pc, copy, remembered, clock, copiedAt>>
  BY DEF Update, saver
<1>2. KeepTypes' /\ Past'
  BY <1>1 DEF KeepTypes, Past, Contents
<1>3. \A s \in Savers : remembered[s] # mem'.stamp /\ (Saving(s) => copy[s].stamp < mem'.stamp)
  BY <1>1 DEF KeepTypes, Contents, Past, Fresh
<1>4. Fresh'
  BY <1>1, <1>3 DEF KeepTypes, Contents, Fresh, Saving
<1>5. BeforeCommand' /\ AfterCommand'
  BY <1>1, <1>3 DEF BeforeCommand, AfterCommand, Restored, Savers
<1> QED
  BY <1>2, <1>4, <1>5

\* A saver that does not touch the files goes on outside the save, or the clock does.
LEMMA OutsideKeeps ==
  ASSUME KInv, IInv', NEW s \in Savers, StartSave(s) \/ Lock(s) \/ Unlock(s) \/ SaveFails(s) \/ Tick
  PROVE  KInv'
<1> USE DEF KInv
<1>1. /\ UNCHANGED <<mem, db, bck, copy, copiedAt, updates>>
      /\ clock' = clock \/ clock' = clock + 1
  BY DEF StartSave, Lock, Unlock, SaveFails, Tick, saver
<1>2. /\ \A t \in Savers : Saving(t)' => Saving(t) /\ remembered'[t] = remembered[t]
      /\ remembered'["thread"] = remembered["thread"]
      /\ remembered' \in [Savers -> Nat]
      /\ \A t \in Savers : remembered'[t] \in {0, remembered[t], remembered["thread"]}
  <2>1. CASE StartSave(s)
    BY <2>1 DEF StartSave, Goto, Saving, Savers, IInv, Types, KeepTypes
  <2>2. CASE Lock(s) \/ Unlock(s) \/ SaveFails(s) \/ Tick
    BY <2>2 DEF Lock, Unlock, SaveFails, Tick, Goto, Saving, saver, Savers, IInv, Types, Places, KeepTypes
  <2> QED
    BY <2>1, <2>2
<1>3. KeepTypes'
  BY <1>1, <1>2 DEF KeepTypes
<1>4. Past'
  BY <1>1, <1>2 DEF KeepTypes, Contents, Files, Past, Savers
<1>5. Fresh'
  BY <1>1, <1>2 DEF Fresh
<1>6. Restored' = Restored
  BY <1>1 DEF Restored
<1>7. BeforeCommand' /\ AfterCommand'
  <2>1. CASE StartSave("command")
    <3>1. /\ pc["command"] = "idle" /\ pc'["command"] = "lock"
          /\ remembered'["command"] \in {0, remembered["thread"]}
      BY <2>1 DEF StartSave, Goto, Savers, IInv, Types, KeepTypes
    <3>2. mem.stamp = 0 => remembered["thread"] = 0
      BY DEF KeepTypes, Past, Contents, Savers
    <3> QED
      BY <1>1, <1>2, <1>6, <3>1, <3>2 DEF BeforeCommand, AfterCommand
  <2>2. CASE Lock("command")
    BY <1>1, <1>6, <2>2 DEF Lock, Goto, Savers, IInv, Types, BeforeCommand, AfterCommand
  <2>3. CASE Unlock("command")
    BY <1>1, <1>6, <2>3 DEF Unlock, Goto, Savers, IInv, Types, BeforeCommand, AfterCommand
  <2>4. CASE SaveFails("command")
    BY <1>1, <1>6, <2>4 DEF SaveFails, Goto, Savers, Saving, Fresh, IInv, Types, BeforeCommand, AfterCommand
  <2>5. CASE Tick \/ s = "thread"
    <3>1. pc'["command"] = pc["command"] /\ remembered'["command"] = remembered["command"]
      BY <2>5 DEF StartSave, Lock, Unlock, SaveFails, Tick, Goto, saver, Savers, IInv, Types, KeepTypes
    <3> QED
      BY <1>1, <1>2, <1>6, <3>1 DEF BeforeCommand, AfterCommand
  <2> QED
    BY <2>1, <2>2, <2>3, <2>4, <2>5 DEF Savers
<1> QED
  BY <1>3, <1>4, <1>5, <1>7

\* The copy is the memory, and whoever need not save it finds it on the disk.
LEMMA CopyKeeps ==
  ASSUME KInv, IInv', NEW s \in Savers, Copy(s)
  PROVE  KInv'
<1> USE DEF KInv
<1>1. /\ pc[s] = "copy" /\ pc' = [pc EXCEPT ![s] = IF mem.stamp = remembered[s] THEN "unlock" ELSE "remove"]
      /\ copy' = [copy EXCEPT ![s] = mem] /\ copiedAt' = clock
      /\ UNCHANGED <<mem, db, bck, remembered, clock, updates>>
  BY DEF Copy, Goto
<1>2. KeepTypes' /\ Past'
  BY <1>1 DEF KeepTypes, Past, Contents, Savers
<1>3. Fresh'
  <2> SUFFICES ASSUME NEW t \in Savers, Saving(t)'
               PROVE  /\ copy'[t].stamp <= copiedAt' /\ copy'[t].stamp <= mem.stamp
                      /\ copy'[t].stamp # remembered[t] /\ remembered[t] # mem.stamp
                      /\ copy'[t].stamp = mem.stamp => copy'[t] = mem
    BY <1>1 DEF Fresh
  <2>1. CASE t = s
    BY <1>1, <2>1 DEF KeepTypes, Contents, Past, Saving, IInv, Types
  <2>2. CASE t # s
    BY <1>1, <2>2, SaverAlone DEF Saving, IInv, Types
  <2> QED
    BY <2>1, <2>2
<1>4. Restored' = Restored
  BY <1>1 DEF Restored
<1>5. BeforeCommand' /\ AfterCommand'
  <2>1. CASE s = "command"
    BY <1>1, <1>4, <2>1 DEF BeforeCommand, AfterCommand, IInv, Types, KeepTypes, Savers
  <2>2. CASE s = "thread"
    BY <1>1, <1>4, <2>2 DEF BeforeCommand, AfterCommand, IInv, Types, KeepTypes, Savers
  <2> QED
    BY <2>1, <2>2 DEF Savers
<1> QED
  BY <1>2, <1>3, <1>5

\* A saver works on the files: nobody may rely on them but those who remember the
\* database that is being replaced, and the memory is newer than that.
LEMMA FilesKeep ==
  ASSUME KInv, IInv', NEW s \in Savers, RemoveBackup(s) \/ Rename(s) \/ CreateFile(s)
  PROVE  KInv'
<1> USE DEF KInv
<1>1. /\ Saving(s) /\ Saving(s)' /\ \A t \in Savers \ {s} : pc'[t] = pc[t] /\ pc[t] \in {"idle", "lock"}
      /\ UNCHANGED <<mem, copy, remembered, clock, copiedAt, updates>>
  BY SaverAlone DEF RemoveBackup, Rename, CreateFile, Goto, Saving, IInv, Types
<1>2. /\ db' \in Files /\ bck' \in Files
      /\ db'.stamp \in {0, db.stamp, copy[s].stamp} /\ bck'.stamp \in {0, db.stamp, bck.stamp}
  <2>1. copy[s] \in Contents /\ db \in Files /\ bck \in Files /\ Absent \in Files /\ Absent.stamp = 0
    BY DEF KeepTypes, Files, Absent
  <2>2. CASE RemoveBackup(s)
    BY <2>1, <2>2 DEF RemoveBackup
  <2>3. CASE Rename(s)
    BY <2>1, <2>3 DEF Rename
  <2>4. CASE CreateFile(s)
    BY <2>1, <2>4 DEF CreateFile, File, Files, Contents
  <2> QED
    BY <2>2, <2>3, <2>4
<1>3. KeepTypes'
  BY <1>1, <1>2 DEF KeepTypes
<1>4. copy[s].stamp <= clock
  BY <1>1 DEF Fresh, Past, KeepTypes, Contents
<1>5. Past'
  BY <1>1, <1>2, <1>4 DEF KeepTypes, Contents, Files, Past
<1>6. Fresh'
  BY <1>1 DEF Fresh, Saving
<1>7. BeforeCommand' /\ AfterCommand'
  <2>1. CASE s = "command"
    BY <1>1, <2>1 DEF BeforeCommand, AfterCommand, Saving, Savers
  <2>2. CASE s = "thread"
    BY <1>1, <2>2 DEF BeforeCommand, AfterCommand, Fresh, Savers
  <2> QED
    BY <2>1, <2>2 DEF Savers
<1> QED
  BY <1>3, <1>5, <1>6, <1>7

\* The file is complete, and its date is remembered.
LEMMA WriteKeeps ==
  ASSUME KInv, IInv', NEW s \in Savers, Write(s)
  PROVE  KInv'
<1> USE DEF KInv
<1>1. /\ Saving(s) /\ pc' = [pc EXCEPT ![s] = "unlock"]
      /\ \A t \in Savers \ {s} : pc[t] \in {"idle", "lock"}
      /\ db' = File(copy[s], TRUE) /\ remembered' = [remembered EXCEPT ![s] = copy[s].stamp]
      /\ UNCHANGED <<mem, bck, copy, clock, copiedAt, updates>>
  BY SaverAlone DEF Write, Goto, Saving
<1>2. Restored' = copy[s] /\ copy[s] \in Contents
  BY <1>1 DEF Restored, File, KeepTypes, Contents
<1>3. KeepTypes'
  BY <1>1, <1>2 DEF KeepTypes, Files, Contents, File
<1>4. copy[s].stamp <= copiedAt /\ copy[s].stamp <= mem.stamp
  BY <1>1 DEF Fresh
<1>5. Past'
  BY <1>1, <1>2, <1>4 DEF KeepTypes, Contents, Files, File, Past
<1>6. Fresh'
  BY <1>1 DEF Fresh, Saving, IInv, Types
<1>7. BeforeCommand' /\ AfterCommand'
  <2>1. CASE s = "command"
    BY <1>1, <1>2, <2>1 DEF BeforeCommand, AfterCommand, IInv, Types, KeepTypes, Savers
  <2>2. CASE s = "thread"
    BY <1>1, <1>2, <2>2 DEF BeforeCommand, AfterCommand, Fresh, IInv, Types, KeepTypes, Savers
  <2> QED
    BY <2>1, <2>2 DEF Savers
<1> QED
  BY <1>3, <1>5, <1>6, <1>7

\* The system comes up again with what the files hold.
LEMMA RestartKeeps ==
  ASSUME KInv, IInv', Restart
  PROVE  KInv'
<1> USE DEF KInv
<1>1. /\ mem' = Restored /\ pc' = [s \in Savers |-> "idle"] /\ remembered' = [s \in Savers |-> 0]
      /\ Restored' = Restored /\ UNCHANGED <<db, bck, copy, clock, copiedAt, updates>>
  BY DEF Restart, Restored
<1>2. Restored \in Contents /\ Restored.stamp <= clock
  BY RestoredType
<1>3. KeepTypes' /\ Past'
  BY <1>1, <1>2 DEF KeepTypes, Past, Contents
<1>4. Fresh' /\ BeforeCommand' /\ AfterCommand'
  BY <1>1 DEF Fresh, Saving, BeforeCommand, AfterCommand, Savers
<1> QED
  BY <1>3, <1>4

LEMMA NextKInv ==
  ASSUME "samesecond" \notin Faults
  PROVE  KInv /\ [Next]_vars => KInv'
<1> SUFFICES ASSUME KInv, [Next]_vars PROVE KInv'
  OBVIOUS
<1>1. IInv'
  BY NextIInv DEF KInv
<1>2. CASE UNCHANGED vars
  <2>1. UNCHANGED <<mem, db, bck, pc, copy, remembered, clock, copiedAt, updates>>
    BY <1>2 DEF vars, saver
  <2> QED
    BY <1>1, <2>1 DEF KInv, KeepTypes, Past, Fresh, Saving, BeforeCommand, AfterCommand, Restored
<1>3. CASE Tick
  BY <1>1, <1>3, OutsideKeeps DEF Savers
<1>4. CASE Halt \/ PowerFailure
  BY <1>1, <1>4, RestartKeeps DEF Halt, PowerFailure
<1> QED
  BY <1>1, <1>2, <1>3, <1>4, UpdateKeeps, OutsideKeeps, CopyKeeps, FilesKeep, WriteKeeps
     DEF Next, SaverStep

\* A shutdown or reboot command whose save did not fail brings the system up with the
\* database it copied, for any number of updates, saves, failures and restarts, as long as no
\* update shares its second with an earlier copy: newDbSave compares dates in seconds.
THEOREM ShutdownsKeepData ==
  ASSUME "samesecond" \notin Faults
  PROVE  Spec => ShutdownKeepsData
<1>1. KInv /\ [Next]_vars =>
        [Halt /\ remembered["command"] = copy["command"].stamp => mem' = copy["command"]]_vars
  BY DEF KInv, AfterCommand, Halt, Restart
<1> QED
  BY <1>1, InitKInv, NextKInv, PTL DEF Spec, ShutdownKeepsData

-----------------------------------------------------------------------------
(* The lock                                                                *)

\* The token is in the semaphore at the start.
LEMMA InitOneToken == SemInit => OneToken
BY DEF SemInit, OneToken, Alone

\* Trouble never ends.
LEMMA TroubleStays == [SemNext]_semVars /\ trouble' = {} => trouble = {}
BY DEF SemNext, Step, semVars, Enter, Lookup, Create, SetVal, Take, TimeOut, AutoUnlock, Leave, Crash

\* Without trouble every step keeps the token in one place.
LEMMA NextOneToken == OneToken /\ [SemNext]_semVars => OneToken'
<1> SUFFICES ASSUME OneToken, [SemNext]_semVars, trouble' = {}
             PROVE  OneToken'
  BY DEF OneToken
<1>0. trouble = {}
  BY TroubleStays
<1> USE <1>0 DEF OneToken, Alone
<1>1. CASE UNCHANGED semVars
  BY <1>1 DEF semVars
<1>2. ASSUME NEW p \in Procs, Enter(p) PROVE OneToken'
  BY <1>2 DEF Enter, MoveTo
<1>3. ASSUME NEW p \in Procs, Lookup(p) PROVE OneToken'
  BY <1>3 DEF Lookup, MoveTo, NoSemaphore
<1>4. ASSUME NEW p \in Procs, Create(p) PROVE FALSE
  BY <1>4 DEF Create
<1>5. ASSUME NEW p \in Procs, SetVal(p) PROVE FALSE
  BY <1>5 DEF SetVal
<1>6. ASSUME NEW p \in Procs, Take(p) PROVE OneToken'
  \* the token was in the semaphore, so nobody was in
  BY <1>6 DEF Take, MoveTo
<1>7. ASSUME NEW p \in Procs, TimeOut(p) PROVE FALSE
  \* the token is with somebody who is in, so the timeout came too early
  BY <1>7 DEF TimeOut
<1>8. ASSUME NEW p \in Procs, AutoUnlock(p) PROVE FALSE
  BY <1>8 DEF AutoUnlock
<1>9. ASSUME NEW p \in Procs, Leave(p) PROVE OneToken'
  BY <1>9 DEF Leave, MoveTo
<1>10. ASSUME NEW p \in Procs, Crash(p) PROVE FALSE
  BY <1>10 DEF Crash
<1> QED
  BY <1>1, <1>2, <1>3, <1>4, <1>5, <1>6, <1>7, <1>8, <1>9, <1>10 DEF SemNext, Step

\* For any number of processes, with semP and semPautounlock in any mixture, at most
\* one is between its P and its V until trouble comes: what newDbFileLock and the
\* NEWDB_SEMKEY sections of newDb.c rely on.
THEOREM LockExcludes == SemSpec => []MutualExclusion
<1>1. OneToken => MutualExclusion
  BY DEF OneToken, MutualExclusion
<1> QED
  BY InitOneToken, NextOneToken, <1>1, PTL DEF SemSpec
=============================================================================
