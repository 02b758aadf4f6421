---------------------------- MODULE IotSemaphore ----------------------------
(***************************************************************************)
(* IotCommon/iotSemaphore.c: one System V semaphore used as a lock by the  *)
(* processes of the gateway (NEWDB_SEMKEY around every access to the       *)
(* shared-memory database, NEWDB_SEMSAVEKEY around a save).                *)
(*                                                                         *)
(* Processes in AutoProcs enter with semPautounlock, which after a        *)
(* timeout sets the semaphore to 1 and goes on; the others enter with      *)
(* semP, which waits for ever.  All leave with semV.  Nothing in the       *)
(* program removes a semaphore (semClear has no caller).                   *)
(*                                                                         *)
(* stage[p]: idle, get (about to look the semaphore up), create and setval *)
(* (inside semInit, the semaphore having been absent), wait (in semop or   *)
(* semtimedop), unlock (timed out, about to reset), in (between P and V).  *)
(***************************************************************************)
EXTENDS Integers

CONSTANTS Procs, AutoProcs,
          MaxCrashes      \* bound on processes killed between P and V

ASSUME SemAssumption == AutoProcs \subseteq Procs /\ MaxCrashes \in Nat

VARIABLES sem,       \* the value of the semaphore, or NoSemaphore
          stage,
          crashes,   \* how many processes were killed in the critical section
          trouble    \* what has happened that the lock is not made for: absent (it did
                     \* not exist at the start), killed (a holder was), slow (a wait
                     \* timed out although the holder is alive)

semVars == <<sem, stage, crashes, trouble>>

NoSemaphore == -1

SemInit ==
    /\ \/ sem = 1 /\ trouble = {}
       \/ sem = NoSemaphore /\ trouble = {"absent"}
    /\ stage = [p \in Procs |-> "idle"]
    /\ crashes = 0

MoveTo(p, place) == stage' = [stage EXCEPT ![p] = place]

Enter(p) ==
    /\ stage[p] = "idle"
    /\ MoveTo(p, "get")
    /\ UNCHANGED <<sem, crashes, trouble>>

\* semget without IPC_CREAT
Lookup(p) ==
    /\ stage[p] = "get"
    /\ MoveTo(p, IF sem = NoSemaphore THEN "create" ELSE "wait")
    /\ UNCHANGED <<sem, crashes, trouble>>

\* semInit: semget with IPC_CREAT; a new semaphore has the value 0 ...
Create(p) ==
    /\ stage[p] = "create"
    /\ sem' = IF sem = NoSemaphore THEN 0 ELSE sem
    /\ MoveTo(p, "setval")
    /\ UNCHANGED <<crashes, trouble>>

\* ... and semctl SETVAL sets it to 1, whoever created it.
SetVal(p) ==
    /\ stage[p] = "setval"
    /\ sem' = 1
    /\ MoveTo(p, "wait")
    /\ UNCHANGED <<crashes, trouble>>

\* Faulty variant: off by one in the test of the value.
TakeAtZero(p) ==
    /\ stage[p] = "wait"
    /\ sem >= 0
    /\ sem' = sem - 1
    /\ MoveTo(p, "in")
    /\ UNCHANGED <<crashes, trouble>>

Take(p) ==
    /\ stage[p] = "wait"
    /\ sem > 0
    /\ sem' = sem - 1
    /\ MoveTo(p, "in")
    /\ UNCHANGED <<crashes, trouble>>

\* semtimedop returns EAGAIN after the timeout, whether the holder was killed or is slow.
TimeOut(p) ==
    /\ stage[p] = "wait" /\ p \in AutoProcs
    /\ sem = 0
    /\ trouble' = IF \E q \in Procs : stage[q] \in {"in", "setval", "unlock"}
                     THEN trouble \cup {"slow"} ELSE trouble
    /\ MoveTo(p, "unlock")
    /\ UNCHANGED <<sem, crashes>>

\* Faulty variant: the timeout is reported but the semaphore is not reset.
AutoUnlockNothing(p) ==
    /\ stage[p] = "unlock"
    /\ MoveTo(p, "get")
    /\ UNCHANGED <<sem, crashes, trouble>>

\* semPautounlock sets the semaphore to 1 and returns to its caller without taking it.
AutoUnlock(p) ==
    /\ stage[p] = "unlock"
    /\ sem' = 1
    /\ MoveTo(p, "in")
    /\ UNCHANGED <<crashes, trouble>>

\* semV
Leave(p) ==
    /\ stage[p] = "in"
    /\ sem' = sem + 1
    /\ MoveTo(p, "idle")
    /\ UNCHANGED <<crashes, trouble>>

\* The process is killed between P and V (killOldest, a signal, a bug): there is no
\* SEM_UNDO, so the semaphore keeps its value.
Crash(p) ==
    /\ stage[p] = "in"
    /\ crashes < MaxCrashes
    /\ crashes' = crashes + 1
    /\ trouble' = trouble \cup {"killed"}
    /\ MoveTo(p, "idle")
    /\ UNCHANGED sem

Step(p) == \/ Lookup(p) \/ Create(p) \/ SetVal(p) \/ Take(p)
           \/ TimeOut(p) \/ AutoUnlock(p) \/ Leave(p)

SemNext == \E p \in Procs : Enter(p) \/ Step(p) \/ Crash(p)

SemSpec == SemInit /\ [][SemNext]_semVars

(* Every running process goes on, a waiter is not passed over for ever     *)
(* while the semaphore keeps becoming free (the kernel queues waiters),    *)
(* and the auto-unlocking callers keep coming back, as dbSaveThread does.  *)
SemFairness == \A p \in Procs : /\ WF_semVars(Step(p)) /\ SF_semVars(Take(p))
                                /\ p \in AutoProcs => WF_semVars(Enter(p))

FairSemSpec == SemSpec /\ SemFairness

-----------------------------------------------------------------------------
(* Properties                                                              *)

Alone == \A p, q \in Procs : stage[p] = "in" /\ stage[q] = "in" => p = q

\* At most one process is between its P and its V, whichever of semP and
\* semPautounlock the processes use: while the semaphore exists from the start,
\* nobody is killed inside and no timeout is shorter than a critical section.
MutualExclusion == trouble = {} => Alone

\* Its strengthening: the one token is either in the semaphore or with the one
\* process that is in.
OneToken ==
    trouble = {} =>
        /\ sem \in {0, 1}
        /\ stage \in [Procs -> {"idle", "get", "wait", "in"}]
        /\ sem = 1 => \A p \in Procs : stage[p] # "in"
        /\ sem = 0 => \E p \in Procs : stage[p] = "in"
        /\ Alone

\* A process that waits gets in, even after others were killed in the critical
\* section and even if it waits in semP, which has no timeout of its own.
WaitersEnter == \A p \in Procs : stage[p] = "wait" ~> stage[p] = "in"

\* The auto-unlock that follows the death of a holder restores the lock: no two
\* processes are inside.  The code does not see to it: TLC refutes this.
ExclusionRestored == trouble \subseteq {"killed"} => Alone
=============================================================================
