----------------------------- MODULE UtilsQueue -----------------------------
(***************************************************************************)
(* The bounded queue of daemons/ZCB/Utils.c: a ring of pointers guarded by *)
(* a mutex and two condition variables, used by any number of producer and *)
(* consumer threads.  pc[t] is where thread t stands in eUtils_QueueQueue  *)
(* (a producer) or in eUtils_QueueDequeue / eUtils_QueueDequeueTimed (a    *)
(* consumer):                                                              *)
(*                                                                         *)
(*   idle      outside the queue                                           *)
(*   lock      about to lock mMutex                                        *)
(*   test      owns mMutex, about to compare u32Size                       *)
(*   move      owns mMutex, about to move its element and update the ring  *)
(*   signal    has unlocked mMutex, about to broadcast                     *)
(*   wait      sleeps on its condition variable (mMutex released)          *)
(*   wake      woken up, has to lock mMutex again before it re-tests       *)
(*   expired   its timed wait ended, has to lock mMutex before it returns  *)
(*                                                                         *)
(* A condition variable may wake a thread spuriously.                      *)
(***************************************************************************)
EXTENDS Integers, Sequences

CONSTANTS Producers, Consumers,  \* the threads
          Data, NoData,          \* the queued pointers; "nothing stored yet"
          NoThread,              \* the owner of a free mutex
          u32Capacity,           \* u32MaxCapacity of eUtils_QueueCreate
          u32WaitMs              \* the timeout given to eUtils_QueueDequeueTimed

ASSUME QueueAssumption ==
    /\ u32Capacity \in Nat \ {0}
    /\ u32WaitMs \in Nat
    /\ Producers \cap Consumers = {}
    /\ NoThread \notin Producers \cup Consumers
    /\ NoData \notin Data

VARIABLES apvBuffer, u32Size, u32In, u32Out, iFlags,  \* tsQueuePrivate
          mMutex,                                     \* the owner of its mutex
          pc,                                         \* see above
          timed,      \* timed[c]: c is in eUtils_QueueDequeueTimed
          pvData      \* pvData[t]: the element to queue, or *ppvData

ring == <<apvBuffer, u32Size, u32In, u32Out>>
vars == <<ring, iFlags, mMutex, pc, timed, pvData>>

Threads == Producers \cup Consumers
Slots   == 0 .. u32Capacity - 1
Flags   == {"NONBLOCK_INPUT", "NONBLOCK_OUTPUT"}
Places  == {"idle", "lock", "test", "move", "signal", "wait", "wake", "expired"}

\* eUtils_QueueCreate; the flags are the caller's choice.
Init ==
    /\ apvBuffer = [i \in Slots |-> NoData]
    /\ u32Size = 0 /\ u32In = 0 /\ u32Out = 0
    /\ iFlags \in SUBSET Flags
    /\ mMutex = NoThread
    /\ pc = [t \in Threads |-> "idle"]
    /\ timed = [c \in Consumers |-> FALSE]
    /\ pvData = [t \in Threads |-> NoData]

-----------------------------------------------------------------------------
(* The condition variables: producers sleep on cond_space_available,       *)
(* consumers on cond_data_available.                                       *)

\* pthread_cond_broadcast by t: every sleeper of the set S starts to wake up.
Broadcast(t, S) ==
    pc' = [u \in Threads |-> IF u = t THEN "idle"
                             ELSE IF u \in S /\ pc[u] = "wait" THEN "wake"
                             ELSE pc[u]]

Return(t) == pc' = [pc EXCEPT ![t] = "idle"]

\* Faulty variant: a woken thread does not test u32Size again (if for while).
LockNoRetest(t) ==
    /\ pc[t] \in {"lock", "wake"}
    /\ mMutex = NoThread
    /\ mMutex' = t
    /\ pc' = [pc EXCEPT ![t] = IF pc[t] = "wake" THEN "move" ELSE "test"]
    /\ UNCHANGED <<ring, iFlags, timed, pvData>>

\* The mutex is free: lock it, to enter the function or to re-test after a wait.
Lock(t) ==
    /\ pc[t] \in {"lock", "wake"}
    /\ mMutex = NoThread
    /\ mMutex' = t
    /\ pc' = [pc EXCEPT ![t] = "test"]
    /\ UNCHANGED <<ring, iFlags, timed, pvData>>

\* pthread_cond_(timed)wait releases the mutex and sleeps in one step.
Sleep(t) ==
    /\ mMutex' = NoThread
    /\ pc' = [pc EXCEPT ![t] = "wait"]

\* The call fails (E_UTILS_ERROR_BLOCK, E_UTILS_ERROR_FAILED) while t owns the mutex.
UnlockAndReturn(t) ==
    /\ mMutex' = NoThread
    /\ Return(t)

SpuriousWakeup(t) ==
    /\ pc[t] = "wait"
    /\ pc' = [pc EXCEPT ![t] = "wake"]
    /\ UNCHANGED <<ring, iFlags, mMutex, timed, pvData>>

-----------------------------------------------------------------------------
(* eUtils_QueueQueue                                                       *)

CallQueue(p, d) ==
    /\ pc[p] = "idle"
    /\ pc' = [pc EXCEPT ![p] = "lock"]
    /\ pvData' = [pvData EXCEPT ![p] = d]
    /\ UNCHANGED <<ring, iFlags, mMutex, timed>>

\* The buffer is full: refuse the element or wait for space.
QueueFull(p) ==
    /\ pc[p] = "test"
    /\ u32Size = u32Capacity
    /\ IF "NONBLOCK_INPUT" \in iFlags THEN UnlockAndReturn(p) ELSE Sleep(p)
    /\ UNCHANGED <<ring, iFlags, timed, pvData>>

\* Faulty variant: the mutex is released between the test and the store.
QueueSpaceUnlocks(p) ==
    /\ pc[p] = "test"
    /\ u32Size # u32Capacity
    /\ mMutex' = NoThread
    /\ pc' = [pc EXCEPT ![p] = "move"]
    /\ UNCHANGED <<ring, iFlags, timed, pvData>>


QueueSpace(p) ==
    /\ pc[p] = "test"
    /\ u32Size # u32Capacity
    /\ pc' = [pc EXCEPT ![p] = "move"]
    /\ UNCHANGED <<ring, iFlags, mMutex, timed, pvData>>

QueueStore(p) ==
    /\ pc[p] = "move"
    /\ apvBuffer' = [apvBuffer EXCEPT ![u32In] = pvData[p]]
    /\ u32Size' = u32Size + 1
    /\ u32In' = (u32In + 1) % u32Capacity
    /\ mMutex' = NoThread
    /\ pc' = [pc EXCEPT ![p] = "signal"]
    /\ UNCHANGED <<u32Out, iFlags, timed, pvData>>

\* Faulty variant: the wrong condition variable is signalled.
QueueSignalsSpace(p) ==
    /\ pc[p] = "signal"
    /\ Broadcast(p, Producers)
    /\ UNCHANGED <<ring, iFlags, mMutex, timed, pvData>>


QueueSignal(p) ==
    /\ pc[p] = "signal"
    /\ Broadcast(p, Consumers)
    /\ UNCHANGED <<ring, iFlags, mMutex, timed, pvData>>

-----------------------------------------------------------------------------
(* eUtils_QueueDequeue and eUtils_QueueDequeueTimed                        *)

CallDequeue(c, b) ==
    /\ pc[c] = "idle"
    /\ pc' = [pc EXCEPT ![c] = "lock"]
    /\ timed' = [timed EXCEPT ![c] = b]
    /\ UNCHANGED <<ring, iFlags, mMutex, pvData>>

\* The buffer is empty.  Only the untimed call looks at the flags.
DequeueEmpty(c) ==
    /\ pc[c] = "test"
    /\ u32Size = 0
    /\ IF "NONBLOCK_OUTPUT" \in iFlags /\ ~timed[c]
          THEN UnlockAndReturn(c) ELSE Sleep(c)
    /\ UNCHANGED <<ring, iFlags, timed, pvData>>

\* The deadline is normalised with tv_nsec > 1000000000: when the sum is exactly
\* one second, which needs a timeout that is not a whole number of seconds,
\* pthread_cond_timedwait refuses it (EINVAL) and the call fails.
DequeueBadDeadline(c) ==
    /\ pc[c] = "test"
    /\ u32Size = 0
    /\ timed[c]
    /\ u32WaitMs % 1000 # 0
    /\ UnlockAndReturn(c)
    /\ UNCHANGED <<ring, iFlags, timed, pvData>>

DequeueData(c) ==
    /\ pc[c] = "test"
    /\ u32Size # 0
    /\ pc' = [pc EXCEPT ![c] = "move"]
    /\ UNCHANGED <<ring, iFlags, mMutex, timed, pvData>>

DequeueFetch(c) ==
    /\ pc[c] = "move"
    /\ pvData' = [pvData EXCEPT ![c] = apvBuffer[u32Out]]
    /\ u32Size' = u32Size - 1
    /\ u32Out' = (u32Out + 1) % u32Capacity
    /\ mMutex' = NoThread
    /\ pc' = [pc EXCEPT ![c] = "signal"]
    /\ UNCHANGED <<apvBuffer, u32In, iFlags, timed>>

\* Faulty variant: the broadcast is forgotten.
DequeueNoSignal(c) ==
    /\ pc[c] = "signal"
    /\ Return(c)
    /\ UNCHANGED <<ring, iFlags, mMutex, timed, pvData>>


DequeueSignal(c) ==
    /\ pc[c] = "signal"
    /\ Broadcast(c, Producers)
    /\ UNCHANGED <<ring, iFlags, mMutex, timed, pvData>>

\* The deadline passes while c sleeps ...
Expire(c) ==
    /\ pc[c] = "wait"
    /\ timed[c]
    /\ pc' = [pc EXCEPT ![c] = "expired"]
    /\ UNCHANGED <<ring, iFlags, mMutex, timed, pvData>>

\* ... and once it owns the mutex again it returns E_UTILS_ERROR_TIMEOUT, even if
\* data has arrived meanwhile.
DequeueTimeout(c) ==
    /\ pc[c] = "expired"
    /\ mMutex = NoThread
    /\ Return(c)
    /\ UNCHANGED <<ring, iFlags, mMutex, timed, pvData>>

-----------------------------------------------------------------------------
Producer(p) == \/ Lock(p) \/ QueueFull(p) \/ QueueSpace(p)
               \/ QueueStore(p) \/ QueueSignal(p)

Consumer(c) == \/ Lock(c) \/ DequeueEmpty(c) \/ DequeueBadDeadline(c)
               \/ DequeueData(c) \/ DequeueFetch(c) \/ DequeueSignal(c)
               \/ DequeueTimeout(c)

Next == \/ \E p \in Producers : Producer(p) \/ \E d \in Data : CallQueue(p, d)
        \/ \E c \in Consumers : \/ Consumer(c) \/ Expire(c)
                                \/ \E b \in BOOLEAN : CallDequeue(c, b)
        \/ \E t \in Threads : SpuriousWakeup(t)

Spec == Init /\ [][Next]_vars

(* Fairness.  A thread that can run eventually does, and a thread that     *)
(* competes for the mutex is not passed over for ever.  Consumers keep     *)
(* calling eUtils_QueueDequeueTimed, as pvCallbackHandlerThread does.      *)
(* Nobody has to call eUtils_QueueQueue.                                   *)
Fairness ==
    /\ \A p \in Producers : WF_vars(Producer(p)) /\ SF_vars(Lock(p))
    /\ \A c \in Consumers : /\ WF_vars(Consumer(c)) /\ SF_vars(Lock(c))
                            /\ SF_vars(DequeueTimeout(c)) /\ WF_vars(CallDequeue(c, TRUE))

FairSpec == Spec /\ Fairness

-----------------------------------------------------------------------------
(* Properties                                                              *)

TypeOK ==
    /\ apvBuffer \in [Slots -> Data \cup {NoData}]
    /\ u32Size \in 0 .. u32Capacity
    /\ u32In \in Slots
    /\ u32Out \in Slots
    /\ iFlags \in SUBSET Flags
    /\ mMutex \in Threads \cup {NoThread}
    /\ pc \in [Threads -> Places]
    /\ timed \in [Consumers -> BOOLEAN]
    /\ pvData \in [Threads -> Data \cup {NoData}]

\* The position that lies n places after slot i of the ring.
Wrap(n) == IF n >= u32Capacity THEN n - u32Capacity ELSE n

\* The elements in the ring, oldest first.
Contents == [i \in 1 .. u32Size |-> apvBuffer[Wrap(u32Out + i - 1)]]

\* The queue implements a bounded FIFO: whatever the threads interleave, no
\* element is lost, duplicated, reordered or made up, not even when a timed
\* dequeue gives up or a producer is refused.
Fifo == INSTANCE BoundedFifo
            WITH q <- Contents, got <- [c \in Consumers |-> pvData[c]],
                 Capacity <- u32Capacity
ImplementsFifo == Fifo!Spec

\* No wake-up is lost although both broadcasts come after the unlock: when there
\* is data and a consumer sleeps, a producer is still about to broadcast; when
\* there is space and a producer sleeps, a consumer is still about to broadcast.
NoLostWakeup ==
    /\ u32Size > 0 /\ (\E c \in Consumers : pc[c] = "wait")
          => \E p \in Producers : pc[p] = "signal"
    /\ u32Size < u32Capacity /\ (\E p \in Producers : pc[p] = "wait")
          => \E c \in Consumers : pc[c] = "signal"

\* A producer that blocks on the full queue gets its element in while the callback
\* thread keeps dequeuing: eUtils_QueueQueue only fails to return for ever if other
\* producers get theirs in again and again.
QueueReturns ==
    \A p \in Producers :
        <>[](pc[p] # "idle") => []<>(\E q \in Producers : pc[q] = "signal")
=============================================================================
