-------------------------- MODULE UtilsQueueProofs --------------------------
(***************************************************************************)
(* Proofs about the bounded queue of daemons/ZCB/Utils.c, for any number   *)
(* of threads, any capacity and any timeout.                               *)
(***************************************************************************)
EXTENDS UtilsQueue, SequenceTheorems, TLAPS

\* Only the owner of mMutex is between the lock and the unlock of a call.
MutexInv == \A t \in Threads : pc[t] \in {"test", "move"} <=> mMutex = t

\* What a thread tested under the mutex still holds when it moves its element.
MoveInv ==
    /\ \A p \in Producers : pc[p] = "move" => u32Size < u32Capacity
    /\ \A c \in Consumers : pc[c] = "move" => u32Size > 0

\* A producer inside the queue carries an element.
ArgInv == \A p \in Producers : pc[p] # "idle" => pvData[p] \in Data

\* The write position lies u32Size places after the read position.
RingInv == u32In = Wrap(u32Out + u32Size)

IInv == TypeOK /\ MutexInv /\ MoveInv /\ ArgInv /\ RingInv

-----------------------------------------------------------------------------
\* (u32In + 1) % u32Capacity steps to the next slot and wraps at the end.
LEMMA NextSlot ==
    ASSUME NEW x \in Slots
    PROVE  /\ (x + 1) % u32Capacity = Wrap(x + 1)
           /\ Wrap(x + 1) \in Slots
  BY QueueAssumption DEF Slots, Wrap

\* Where the write position lies, seen from the slot after the read position.
LEMMA WrapShift ==
    ASSUME NEW x \in Slots, NEW n \in 1 .. u32Capacity
    PROVE  Wrap(x + n) = Wrap(Wrap(x + 1) + (n - 1))
  BY QueueAssumption DEF Slots, Wrap

LEMMA InitIInv == Init => IInv
  BY QueueAssumption DEF Init, IInv, TypeOK, MutexInv, MoveInv, ArgInv, RingInv,
     Wrap, Threads, Slots, Places

\* Every step preserves the inductive invariant.
LEMMA NextIInv == IInv /\ [Next]_vars => IInv'
  <1> SUFFICES ASSUME IInv, [Next]_vars PROVE IInv'
    OBVIOUS
  <1> USE QueueAssumption DEF IInv, TypeOK, MutexInv, MoveInv, ArgInv, RingInv,
          Threads, Slots, Places, Flags, ring
  <1>1. ASSUME NEW t \in Threads, Lock(t) PROVE IInv'
    BY <1>1 DEF Lock
  <1>2. ASSUME NEW t \in Threads, SpuriousWakeup(t) PROVE IInv'
    BY <1>2 DEF SpuriousWakeup
  <1>3. ASSUME NEW p \in Producers, NEW d \in Data, CallQueue(p, d) PROVE IInv'
    BY <1>3 DEF CallQueue
  <1>4. ASSUME NEW p \in Producers, QueueFull(p) PROVE IInv'
    BY <1>4 DEF QueueFull, UnlockAndReturn, Return, Sleep
  <1>5. ASSUME NEW p \in Producers, QueueSpace(p) PROVE IInv'
    BY <1>5 DEF QueueSpace
  <1>6. ASSUME NEW p \in Producers, QueueStore(p) PROVE IInv'
    <2>1. u32In' = Wrap(u32In + 1) /\ u32In' \in Slots
      BY <1>6, NextSlot DEF QueueStore
    <2>2. u32Size < u32Capacity /\ u32Size' = u32Size + 1
      BY <1>6 DEF QueueStore
    <2>3. TypeOK'
      BY <1>6, <2>1, <2>2 DEF QueueStore
    <2>4. RingInv'
      BY <1>6, <2>1, <2>2 DEF QueueStore, Wrap
    <2>5. MutexInv' /\ MoveInv' /\ ArgInv'
      BY <1>6, <2>2 DEF QueueStore
    <2> QED
      BY <2>3, <2>4, <2>5
  <1>7. ASSUME NEW p \in Producers, QueueSignal(p) PROVE IInv'
    BY <1>7 DEF QueueSignal, Broadcast
  <1>8. ASSUME NEW c \in Consumers, NEW b \in BOOLEAN, CallDequeue(c, b) PROVE IInv'
    BY <1>8 DEF CallDequeue
  <1>9. ASSUME NEW c \in Consumers, DequeueEmpty(c) PROVE IInv'
    BY <1>9 DEF DequeueEmpty, UnlockAndReturn, Return, Sleep
  <1>10. ASSUME NEW c \in Consumers, DequeueBadDeadline(c) PROVE IInv'
    BY <1>10 DEF DequeueBadDeadline, UnlockAndReturn, Return
  <1>11. ASSUME NEW c \in Consumers, DequeueData(c) PROVE IInv'
    BY <1>11 DEF DequeueData
  <1>12. ASSUME NEW c \in Consumers, DequeueFetch(c) PROVE IInv'
    <2>1. u32Out' = Wrap(u32Out + 1) /\ u32Out' \in Slots
      BY <1>12, NextSlot DEF DequeueFetch
    <2>2. u32Size > 0 /\ u32Size' = u32Size - 1
      BY <1>12 DEF DequeueFetch
    <2>3. TypeOK'
      BY <1>12, <2>1, <2>2 DEF DequeueFetch
    <2>4. RingInv'
      <3>1. Wrap(u32Out + u32Size) = Wrap(Wrap(u32Out + 1) + (u32Size - 1))
        BY <2>2, WrapShift
      <3>2. u32In' = u32In
        BY <1>12 DEF DequeueFetch
      <3> QED
        BY <2>1, <2>2, <3>1, <3>2
    <2>5. MutexInv' /\ MoveInv' /\ ArgInv'
      BY <1>12, <2>2 DEF DequeueFetch
    <2> QED
      BY <2>3, <2>4, <2>5
  <1>13. ASSUME NEW c \in Consumers, DequeueSignal(c) PROVE IInv'
    BY <1>13 DEF DequeueSignal, Broadcast
  <1>14. ASSUME NEW c \in Consumers, Expire(c) PROVE IInv'
    BY <1>14 DEF Expire
  <1>15. ASSUME NEW c \in Consumers, DequeueTimeout(c) PROVE IInv'
    BY <1>15 DEF DequeueTimeout, Return
  <1>16. CASE UNCHANGED vars
    BY <1>16 DEF vars
  <1> QED
    BY <1>1, <1>2, <1>3, <1>4, <1>5, <1>6, <1>7, <1>8, <1>9, <1>10, <1>11, <1>12,
       <1>13, <1>14, <1>15, <1>16 DEF Next, Producer, Consumer

LEMMA Invariance == Spec => []IInv
  BY InitIInv, NextIInv, PTL DEF Spec

\* The variables of a tsUtilsQueue and of its users keep their types: the indices
\* stay inside the ring and u32Size never exceeds the capacity or drops below 0.
THEOREM TypeCorrect == Spec => []TypeOK
  <1>1. IInv => TypeOK
    BY DEF IInv
  <1> QED
    BY <1>1, Invariance, PTL

-----------------------------------------------------------------------------
\* Unlocking before the broadcast loses no wake-up: the sleeper is woken by the
\* thread that is still between its unlock and its broadcast.
THEOREM WakeupsArrive == Spec => []NoLostWakeup
  <1>1. Init => NoLostWakeup
    BY QueueAssumption DEF Init, NoLostWakeup, Threads
  <1>2. IInv /\ NoLostWakeup /\ [Next]_vars => NoLostWakeup'
    <2> SUFFICES ASSUME IInv, NoLostWakeup, [Next]_vars PROVE NoLostWakeup'
      OBVIOUS
    <2> USE QueueAssumption DEF IInv, TypeOK, MoveInv, NoLostWakeup, Threads, ring
    <2>1. ASSUME NEW t \in Threads, Lock(t) PROVE NoLostWakeup'
      BY <2>1 DEF Lock
    <2>2. ASSUME NEW t \in Threads, SpuriousWakeup(t) PROVE NoLostWakeup'
      BY <2>2 DEF SpuriousWakeup
    <2>3. ASSUME NEW p \in Producers, NEW d \in Data, CallQueue(p, d)
          PROVE  NoLostWakeup'
      BY <2>3 DEF CallQueue
    <2>4. ASSUME NEW p \in Producers, QueueFull(p) PROVE NoLostWakeup'
      BY <2>4 DEF QueueFull, UnlockAndReturn, Return, Sleep
    <2>5. ASSUME NEW p \in Producers, QueueSpace(p) PROVE NoLostWakeup'
      BY <2>5 DEF QueueSpace
    <2>6. ASSUME NEW p \in Producers, QueueStore(p) PROVE NoLostWakeup'
      BY <2>6 DEF QueueStore
    <2>7. ASSUME NEW p \in Producers, QueueSignal(p) PROVE NoLostWakeup'
      BY <2>7 DEF QueueSignal, Broadcast
    <2>8. ASSUME NEW c \in Consumers, NEW b \in BOOLEAN, CallDequeue(c, b)
          PROVE  NoLostWakeup'
      BY <2>8 DEF CallDequeue
    <2>9. ASSUME NEW c \in Consumers, DequeueEmpty(c) PROVE NoLostWakeup'
      BY <2>9 DEF DequeueEmpty, UnlockAndReturn, Return, Sleep
    <2>10. ASSUME NEW c \in Consumers, DequeueBadDeadline(c) PROVE NoLostWakeup'
      BY <2>10 DEF DequeueBadDeadline, UnlockAndReturn, Return
    <2>11. ASSUME NEW c \in Consumers, DequeueData(c) PROVE NoLostWakeup'
      BY <2>11 DEF DequeueData
    <2>12. ASSUME NEW c \in Consumers, DequeueFetch(c) PROVE NoLostWakeup'
      BY <2>12 DEF DequeueFetch
    <2>13. ASSUME NEW c \in Consumers, DequeueSignal(c) PROVE NoLostWakeup'
      BY <2>13 DEF DequeueSignal, Broadcast
    <2>14. ASSUME NEW c \in Consumers, Expire(c) PROVE NoLostWakeup'
      BY <2>14 DEF Expire
    <2>15. ASSUME NEW c \in Consumers, DequeueTimeout(c) PROVE NoLostWakeup'
      BY <2>15 DEF DequeueTimeout, Return
    <2>16. CASE UNCHANGED vars
      BY <2>16 DEF vars
    <2> QED
      BY <2>1, <2>2, <2>3, <2>4, <2>5, <2>6, <2>7, <2>8, <2>9, <2>10, <2>11,
         <2>12, <2>13, <2>14, <2>15, <2>16 DEF Next, Producer, Consumer
  <1> QED
    BY <1>1, <1>2, Invariance, PTL DEF Spec

-----------------------------------------------------------------------------
(* The queue implements BoundedFifo.                                       *)

Handed == [c \in Consumers |-> pvData[c]]

LEMMA ContentsSeq == IInv => /\ Contents \in Seq(Data \cup {NoData})
                             /\ Len(Contents) = u32Size
  BY QueueAssumption DEF IInv, TypeOK, Contents, Wrap, Slots

\* Storing at u32In appends to the contents: the slot is none of the occupied ones.
LEMMA StorePuts ==
    ASSUME IInv, NEW p \in Producers, QueueStore(p)
    PROVE  Fifo!Put
  <1> USE QueueAssumption DEF IInv, TypeOK
  <1>1. u32Size < u32Capacity /\ u32Size' = u32Size + 1 /\ u32Out' = u32Out
    BY DEF QueueStore, MoveInv
  <1>2. pvData[p] \in Data /\ u32In = Wrap(u32Out + u32Size)
    BY DEF QueueStore, ArgInv, RingInv
  <1>3. apvBuffer' = [apvBuffer EXCEPT ![u32In] = pvData[p]]
    BY DEF QueueStore
  <1>4. ASSUME NEW i \in 1 .. u32Size
        PROVE  /\ Wrap(u32Out + i - 1) \in Slots
               /\ Wrap(u32Out + i - 1) # u32In
    BY <1>1, <1>2 DEF Wrap, Slots
  <1>5. Contents' = Append(Contents, pvData[p])
    <2>1. Contents' = [i \in 1 .. u32Size + 1 |-> apvBuffer'[Wrap(u32Out + i - 1)]]
      BY <1>1 DEF Contents, Wrap
    <2>2. ASSUME NEW i \in 1 .. u32Size
          PROVE  apvBuffer'[Wrap(u32Out + i - 1)] = Contents[i]
      BY <1>3, <1>4 DEF Contents
    <2>3. apvBuffer'[Wrap(u32Out + (u32Size + 1) - 1)] = pvData[p]
      BY <1>2, <1>3 DEF Slots, Wrap
    <2>4. Append(Contents, pvData[p]) =
            [i \in 1 .. u32Size + 1 |-> IF i <= u32Size THEN Contents[i] ELSE pvData[p]]
      BY ContentsSeq
    <2> QED
      BY <2>1, <2>2, <2>3, <2>4
  <1>6. Len(Contents) < u32Capacity
    BY <1>1, ContentsSeq
  <1>7. Handed' = Handed
    BY DEF QueueStore, Handed
  <1> QED
    BY <1>2, <1>5, <1>6, <1>7 DEF Fifo!Put, Handed

\* Fetching at u32Out hands out the oldest element and removes it.
LEMMA FetchGets ==
    ASSUME IInv, NEW c \in Consumers, DequeueFetch(c)
    PROVE  Fifo!Get(c)
  <1> USE QueueAssumption DEF IInv, TypeOK
  <1>1. u32Size > 0 /\ u32Size' = u32Size - 1 /\ apvBuffer' = apvBuffer
    BY DEF DequeueFetch, MoveInv
  <1>2. u32Out' = Wrap(u32Out + 1)
    BY NextSlot DEF DequeueFetch
  <1>3. Contents # <<>> /\ Head(Contents) = apvBuffer[u32Out]
    <2>1. Head(Contents) = Contents[1]
      BY ContentsSeq, <1>1
    <2>2. Contents[1] = apvBuffer[Wrap(u32Out + 1 - 1)]
      BY <1>1 DEF Contents
    <2>3. Wrap(u32Out + 1 - 1) = u32Out
      BY DEF Wrap, Slots
    <2> QED
      BY <1>1, <2>1, <2>2, <2>3, ContentsSeq
  <1>4. Contents' = Tail(Contents)
    <2> DEFINE S == Data \cup {NoData}
               later(i) == apvBuffer[Wrap(Wrap(u32Out + 1) + i - 1)]
    <2>1. Contents' = [i \in 1 .. u32Size - 1 |-> later(i)]
      BY <1>1, <1>2 DEF Contents, Wrap
    <2>2. Contents \in Seq(S) /\ Contents # <<>> /\ Len(Contents) = u32Size
      BY ContentsSeq, <1>3
    <2>3. /\ Tail(Contents) \in Seq(S)
          /\ Len(Tail(Contents)) = u32Size - 1
          /\ \A i \in 1 .. Len(Tail(Contents)) : Tail(Contents)[i] = Contents[i + 1]
      BY <2>2, HeadTailProperties, Zenon
    <2>4. ASSUME NEW i \in 1 .. u32Size - 1
          PROVE  later(i) \in S /\ Contents[i + 1] = later(i)
      <3>1. Contents[i + 1] = apvBuffer[Wrap(u32Out + (i + 1) - 1)]
        BY DEF Contents
      <3>2. /\ Wrap(u32Out + (i + 1) - 1) = Wrap(Wrap(u32Out + 1) + i - 1)
            /\ Wrap(Wrap(u32Out + 1) + i - 1) \in Slots
        BY DEF Wrap, Slots
      <3> QED
        BY <3>1, <3>2
    <2> HIDE DEF later
    <2>5. Contents' \in Seq(S) /\ Len(Contents') = u32Size - 1
      BY <1>1, <2>1, <2>4
    <2>6. \A i \in 1 .. Len(Contents') : Contents'[i] = Tail(Contents)[i]
      BY <2>1, <2>3, <2>4, <2>5
    <2> QED
      BY <2>3, <2>5, <2>6, SeqEqual
  <1>5. Handed' = [Handed EXCEPT ![c] = apvBuffer[u32Out]]
    BY DEF DequeueFetch, Handed, Threads
  <1> QED
    BY <1>3, <1>4, <1>5 DEF Fifo!Get, Handed

\* Every other step leaves the ring and what was handed out alone.
LEMMA OtherStutters ==
    ASSUME IInv, UNCHANGED ring,
           \A c \in Consumers : pvData'[c] = pvData[c]
    PROVE  UNCHANGED <<Contents, Handed>>
  <1>1. /\ apvBuffer' = apvBuffer /\ u32Size' = u32Size /\ u32Out' = u32Out
    BY DEF ring
  <1> QED
    BY <1>1 DEF Contents, Handed, Wrap

\* A tsUtilsQueue is a bounded FIFO, for every number of threads and every capacity:
\* nothing that was queued is lost, duplicated, reordered or invented, whichever
\* calls block, time out or are refused.
THEOREM QueueImplementsFifo == Spec => ImplementsFifo
  <1>1. Init => Fifo!Init
    <2> SUFFICES ASSUME Init PROVE Fifo!Init
      OBVIOUS
    <2>1. Contents = <<>>
      BY DEF Init, Contents
    <2>2. [c \in Consumers |-> pvData[c]] = [c \in Consumers |-> NoData]
      BY DEF Init, Threads
    <2> QED
      BY <2>1, <2>2 DEF Fifo!Init
  <1>2. IInv /\ [Next]_vars => [Fifo!Next]_(Fifo!fifoVars)
    <2> SUFFICES ASSUME IInv, [Next]_vars PROVE [Fifo!Next]_(Fifo!fifoVars)
      OBVIOUS
    <2>1. ASSUME NEW p \in Producers, QueueStore(p) PROVE Fifo!Next
      BY <2>1, StorePuts DEF Fifo!Next
    <2>2. ASSUME NEW c \in Consumers, DequeueFetch(c) PROVE Fifo!Next
      BY <2>2, FetchGets DEF Fifo!Next
    <2>3. ASSUME UNCHANGED ring, \A c \in Consumers : pvData'[c] = pvData[c]
          PROVE  UNCHANGED Fifo!fifoVars
      BY <2>3, OtherStutters DEF Fifo!fifoVars, Handed
    <2>4. CASE UNCHANGED vars
      BY <2>4, <2>3 DEF vars
    <2>5. ASSUME NEW p \in Producers, NEW d \in Data, CallQueue(p, d)
          PROVE  UNCHANGED Fifo!fifoVars
      <3>1. \A c \in Consumers : pvData'[c] = pvData[c]
        BY <2>5, QueueAssumption DEF CallQueue, IInv, TypeOK, Threads
      <3> QED
        BY <2>5, <3>1, <2>3 DEF CallQueue
    <2>6. ASSUME NEW t \in Threads, Lock(t) \/ SpuriousWakeup(t)
          PROVE  UNCHANGED Fifo!fifoVars
      BY <2>6, <2>3 DEF Lock, SpuriousWakeup
    <2>7. ASSUME NEW p \in Producers, QueueFull(p) \/ QueueSpace(p) \/ QueueSignal(p)
          PROVE  UNCHANGED Fifo!fifoVars
      BY <2>7, <2>3 DEF QueueFull, QueueSpace, QueueSignal
    <2>8. ASSUME NEW c \in Consumers,
                 \/ DequeueEmpty(c) \/ DequeueBadDeadline(c) \/ DequeueData(c)
                 \/ DequeueSignal(c) \/ Expire(c) \/ DequeueTimeout(c)
                 \/ \E b \in BOOLEAN : CallDequeue(c, b)
          PROVE  UNCHANGED Fifo!fifoVars
      BY <2>8, <2>3 DEF DequeueEmpty, DequeueBadDeadline, DequeueData, DequeueSignal,
         Expire, DequeueTimeout, CallDequeue
    <2> QED
      BY <2>1, <2>2, <2>4, <2>5, <2>6, <2>7, <2>8
         DEF Next, Producer, Consumer, Threads
  <1> QED
    BY <1>1, <1>2, Invariance, PTL DEF Spec, ImplementsFifo, Fifo!Spec
=============================================================================
