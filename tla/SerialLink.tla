----------------------------- MODULE SerialLink -----------------------------
(***************************************************************************)
(* daemons/ZCB/SerialLink.c: how the threads of the ZCB daemon share the   *)
(* serial line to the control bridge ("the node").                         *)
(*                                                                         *)
(*   clients   call eSL_SendMessage, eSL_SendMessageNoWait and             *)
(*             eSL_MessageWait; one of them is the callback thread, which  *)
(*             sends from inside callbacks                                 *)
(*   reader    pvReaderThread: hands a message to a waiting client through *)
(*             asReaderMessageQueue and to the listeners through the       *)
(*             bounded callback queue                                      *)
(*   node      external: answers commands and reports events               *)
(*                                                                         *)
(* pc[t] of a client t:                                                    *)
(*   idle      outside SerialLink                                          *)
(*   send      about to lock sSerialLink.mutex                             *)
(*   write     owns it, about to write its command                         *)
(*   scan      in eSL_MessageWait, about to look at slot at[t]             *)
(*   wait      sleeps on the condition variable of slot at[t]              *)
(*   woken     the condition variable was broadcast                        *)
(*   expired   the timeout passed                                          *)
(* A slot's mutex is only held inside one step, except where the code      *)
(* returns without unlocking it (locked).  The callback queue is the       *)
(* bounded FIFO that UtilsQueue implements.                                *)
(***************************************************************************)
EXTENDS Integers, Sequences, FiniteSets

CONSTANTS Clients,             \* the client threads, among them:
          CbThread, MainThread,
          Commands,            \* commands answered by a status only
          Requests,            \* commands answered by a status and a response
          NoWaits,             \* commands sent by eSL_SendMessageNoWait
          Erases,              \* commands whose status is awaited a second time
          Reports,             \* the types of message the node sends unasked
          Listeners,           \* the message types with a listener, in list order
          NSlots,              \* SL_MAX_MESSAGE_QUEUES
          QueueCapacity,       \* SL_MAX_CALLBACK_QUEUES
          LineLength,          \* bound on the messages under way on the line
          MaxEvents,           \* bound on the events the node reports
          Faults,              \* the faults of this run, a subset of AllFaults
          Nobody, None

\* spurious: condition variables wake spuriously.  nomem: malloc fails.  stop: the
\* link is destroyed.  impatient: a timeout may beat an answer that is under way.
\* loss: the node may answer nothing.  prompt: the node may answer before the sender
\* has come as far as waiting for the answer.  deadline: a deadline may come out as
\* a whole second.
AllFaults == {"spurious", "nomem", "stop", "impatient", "loss", "prompt", "deadline"}

AllCommands == Commands \cup Requests \cup NoWaits \cup Erases

ASSUME LinkAssumption ==
    /\ CbThread \in Clients /\ MainThread \in Clients \ {CbThread}
    /\ Nobody \notin Clients
    /\ None \notin AllCommands
    /\ NSlots \in Nat \ {0} /\ QueueCapacity \in Nat \ {0}
    /\ LineLength \in Nat \ {0} /\ MaxEvents \in Nat
    /\ Reports \subseteq {"EVENT", "LOG"}
    /\ Listeners \in Seq({"EVENT", "RESPONSE", "LOG", "STATUS"})
    /\ Faults \subseteq AllFaults

VARIABLES mutex,      \* the owner of sSerialLink.mutex
          slots,      \* asReaderMessageQueue
          pc, op, cmd, at, want,   \* where client t stands in its call
          ret, got,   \* what the last call returned, and in which buffer
          answered,   \* what the node has answered to the call of client t so far
          toNode, fromNode,        \* the two directions of the line
          events,     \* how many events the node has reported
          rpc, rmsg, rk,           \* the reader, its message, its slot or listener
          readerState,             \* eState of the reader thread
          cbQueue, cbMsg,          \* sCallbackQueue; the message being called back
          called      \* the number of the last event that was called back

client == <<mutex, pc, op, cmd, at, want, ret, got, answered>>
line   == <<toNode, fromNode, events>>
reader == <<rpc, rmsg, rk, readerState>>
cb     == <<cbQueue, cbMsg, called>>
vars   == <<client, slots, line, reader, cb>>

Free  == "FREE"                       \* u16Type = 0: nobody waits in the slot
Types == {"STATUS", "RESPONSE", "EVENT", "LOG"}

\* A received message: for a status the command it answers, and the client whose
\* command caused it (Nobody once that client has made another call); events are numbered.
Message == [type : Types, of : AllCommands \cup {None},
            req : Clients \cup {Nobody}, seq : 0 .. MaxEvents]
\* What pu8Message can point to besides a message: nothing, a buffer its receiver has
\* taken and frees, or the sender's own tsSL_Msg_Status on its stack.
Pointer(kind, c) == [type |-> kind, of |-> c, req |-> Nobody, seq |-> 0]
Null     == Pointer("NULL", None)
Dangling == Pointer("DANGLING", None)
Stack(c) == Pointer("STACK", c)
Buffer   == Message \cup {Null, Dangling} \cup {Stack(c) : c \in AllCommands}

Init ==
    /\ mutex = Nobody
    /\ slots = [i \in 1 .. NSlots |-> [u16Type |-> Free, pu8Message |-> Null, locked |-> FALSE]]
    /\ pc = [t \in Clients |-> "idle"]
    /\ op = [t \in Clients |-> "send"]
    /\ cmd = [t \in Clients |-> None]
    /\ at = [t \in Clients |-> 1]
    /\ want = [t \in Clients |-> "STATUS"]
    /\ ret = [t \in Clients |-> "NONE"]
    /\ got = [t \in Clients |-> Null]
    /\ answered = [t \in Clients |-> {}]
    /\ toNode = <<>> /\ fromNode = <<>> /\ events = 0
    /\ rpc = "read" /\ rmsg = Null /\ rk = 1 /\ readerState = "RUNNING"
    /\ cbQueue = <<>> /\ cbMsg = Null /\ called = 0

-----------------------------------------------------------------------------
(* The clients                                                             *)

\* The callback thread only runs application code inside a callback.
MayCall(t) == pc[t] = "idle" /\ (t = CbThread => cbMsg # Null)

\* "send": eSL_SendMessage.  "nowait": eSL_SendMessageNoWait.  "request":
\* eSL_SendMessage followed, if the status is good, by eSL_MessageWait for the
\* response, as in eZCB_EstablishComms.  "erase": eSL_SendMessage followed, if no
\* status came, by eSL_MessageWait for any status, as in the factory reset of cmd.c.
\* A type of response is only awaited by one thread of the daemon, here the main one.
Calls(t) == ({"send"} \X Commands) \cup ({"nowait"} \X NoWaits)
            \cup IF t = MainThread THEN ({"request"} \X Requests) \cup ({"erase"} \X Erases)
                                   ELSE {}

\* What an earlier call of t left behind answers nobody any more.
Orphan(m, t) == IF m.req = t THEN [m EXCEPT !.req = Nobody] ELSE m
Disown(t) ==
    /\ slots' = [i \in DOMAIN slots |-> [slots[i] EXCEPT !.pu8Message = Orphan(@, t)]]
    /\ toNode' = [i \in DOMAIN toNode |-> Orphan(toNode[i], t)]
    /\ fromNode' = [i \in DOMAIN fromNode |-> Orphan(fromNode[i], t)]
    /\ rmsg' = Orphan(rmsg, t)

Call(t, o, c) ==
    /\ MayCall(t)
    /\ pc' = [pc EXCEPT ![t] = "send"]
    /\ op' = [op EXCEPT ![t] = o]
    /\ cmd' = [cmd EXCEPT ![t] = c]
    /\ want' = [want EXCEPT ![t] = "STATUS"]
    /\ ret' = [ret EXCEPT ![t] = "NONE"]
    /\ got' = [got EXCEPT ![t] = Null]
    /\ answered' = [answered EXCEPT ![t] = {}]
    /\ Disown(t)
    /\ UNCHANGED <<mutex, at, events, rpc, rk, readerState, cb>>

\* Faulty variant: commands are not serialised.
LockLinkNot(t) ==
    /\ pc[t] = "send"
    /\ mutex' = t
    /\ pc' = [pc EXCEPT ![t] = "write"]
    /\ UNCHANGED <<op, cmd, at, want, ret, got, answered, slots, line, reader, cb>>

LockLink(t) ==
    /\ pc[t] = "send"
    /\ mutex = Nobody
    /\ mutex' = t
    /\ pc' = [pc EXCEPT ![t] = "write"]
    /\ UNCHANGED <<op, cmd, at, want, ret, got, answered, slots, line, reader, cb>>

\* eSL_WriteMessage.  eSerial_Write retries or ends the process, so it cannot fail.
WriteMessage(t) ==
    /\ pc[t] = "write"
    /\ Len(toNode) < LineLength
    /\ toNode' = Append(toNode, [type |-> cmd[t], req |-> IF op[t] = "nowait" THEN Nobody ELSE t])
    /\ IF op[t] = "nowait"
          THEN /\ pc' = [pc EXCEPT ![t] = "idle"]
               /\ ret' = [ret EXCEPT ![t] = "OK"]
               /\ mutex' = Nobody
          ELSE /\ pc' = [pc EXCEPT ![t] = "scan"]
               /\ UNCHANGED <<ret, mutex>>
    /\ UNCHANGED <<op, cmd, at, want, got, answered, slots, fromNode, events, reader, cb>>

\* The next wait of the call when a wait ended with r, if there is one.  The value
\* of the status is abstract: a request may also end with its status.
Follows(t, r) ==
    CASE op[t] = "request" /\ want[t] = "STATUS" /\ r = "OK"        -> {"RESPONSE", None}
      [] op[t] = "erase"   /\ want[t] = "STATUS" /\ r = "NOMESSAGE" -> {"ANYSTATUS"}
      [] OTHER                                                      -> {None}

\* Faulty variant: the link is only unlocked when a status came.
EndWaitKeepsLink(t, r, b) ==
    /\ mutex' = IF want[t] = "STATUS" /\ r = "OK" THEN Nobody ELSE mutex
    /\ \E w \in Follows(t, r) :
         IF w # None
            THEN /\ pc' = [pc EXCEPT ![t] = "scan"]
                 /\ want' = [want EXCEPT ![t] = w]
                 /\ UNCHANGED <<ret, got>>
            ELSE /\ pc' = [pc EXCEPT ![t] = "idle"]
                 /\ ret' = [ret EXCEPT ![t] = r]
                 /\ got' = [got EXCEPT ![t] = b]
                 /\ UNCHANGED want
    /\ at' = [at EXCEPT ![t] = 1]
    /\ UNCHANGED <<op, cmd, answered>>

\* eSL_MessageWait returns r with buffer b, and eSL_SendMessage unlocks the link.
EndWait(t, r, b) ==
    /\ mutex' = IF want[t] = "STATUS" THEN Nobody ELSE mutex
    /\ \E w \in Follows(t, r) :
         IF w # None
            THEN /\ pc' = [pc EXCEPT ![t] = "scan"]
                 /\ want' = [want EXCEPT ![t] = w]
                 /\ UNCHANGED <<ret, got>>
            ELSE /\ pc' = [pc EXCEPT ![t] = "idle"]
                 /\ ret' = [ret EXCEPT ![t] = r]
                 /\ got' = [got EXCEPT ![t] = b]
                 /\ UNCHANGED want
    /\ at' = [at EXCEPT ![t] = 1]
    /\ UNCHANGED <<op, cmd, answered>>

\* A status waiter stores *ppvMessage in the slot: its own status structure, to be
\* compared by the reader, or NULL when any status will do.
Registered(t, old) == CASE want[t] = "STATUS"    -> Stack(cmd[t])
                        [] want[t] = "ANYSTATUS" -> Null
                        [] want[t] = "RESPONSE"  -> old

SlotType(t) == IF want[t] = "ANYSTATUS" THEN "STATUS" ELSE want[t]

\* The first free slot is taken and the client sleeps.
TakeSlot(t) ==
    /\ pc[t] = "scan"
    /\ at[t] \in 1 .. NSlots /\ ~slots[at[t]].locked
    /\ slots[at[t]].u16Type = Free
    /\ slots' = [slots EXCEPT ![at[t]].u16Type = SlotType(t),
                              ![at[t]].pu8Message = Registered(t, @)]
    /\ pc' = [pc EXCEPT ![t] = "wait"]
    /\ UNCHANGED <<mutex, op, cmd, at, want, ret, got, answered, line, reader, cb>>

\* The deadline can come out as exactly 1000000000 ns, which the normalisation lets
\* through and pthread_cond_timedwait refuses: the slot is freed in the same step.
BadDeadline(t) ==
    /\ "deadline" \in Faults
    /\ pc[t] = "scan"
    /\ at[t] \in 1 .. NSlots /\ ~slots[at[t]].locked
    /\ slots[at[t]].u16Type = Free
    /\ slots' = [slots EXCEPT ![at[t]].pu8Message = Registered(t, @)]
    /\ EndWait(t, "ERROR", Null)
    /\ UNCHANGED <<line, reader, cb>>

NextSlot(t) ==
    /\ pc[t] = "scan"
    /\ at[t] \in 1 .. NSlots /\ ~slots[at[t]].locked
    /\ slots[at[t]].u16Type # Free
    /\ at' = [at EXCEPT ![t] = @ + 1]
    /\ UNCHANGED <<mutex, pc, op, cmd, want, ret, got, answered, slots, line, reader, cb>>

NoFreeSlot(t) ==
    /\ pc[t] = "scan"
    /\ at[t] > NSlots
    /\ EndWait(t, "ERROR", Null)
    /\ UNCHANGED <<slots, line, reader, cb>>

\* pthread_cond_timedwait returned 0.  There is no predicate to test: whatever
\* pu8Message holds is the answer.
Woken(t) ==
    /\ pc[t] = "woken"
    /\ ~slots[at[t]].locked
    /\ slots' = [slots EXCEPT ![at[t]].u16Type = Free, ![at[t]].pu8Message = Dangling]
    /\ EndWait(t, "OK", slots[at[t]].pu8Message)
    /\ UNCHANGED <<line, reader, cb>>

\* The reader is blocked on the full callback queue, and the callback that would
\* empty it is itself inside SerialLink.
ReaderBlocked ==
    /\ rpc = "callbacks"
    /\ Len(cbQueue) = QueueCapacity
    /\ cbMsg # Null
    /\ pc[CbThread] \in {"send", "wait"}

\* A patient timeout ends a wait in one step, when nothing that could still end it
\* is under way; an impatient one expires at any time, and the client comes to lock
\* the slot's mutex some time later.
Overdue == \/ toNode = <<>> /\ fromNode = <<>> /\ rpc \in {"read", "stopped"}
           \/ ReaderBlocked

Expire(t) ==
    /\ "impatient" \in Faults
    /\ pc[t] = "wait"
    /\ pc' = [pc EXCEPT ![t] = "expired"]
    /\ UNCHANGED <<mutex, op, cmd, at, want, ret, got, answered, slots, line, reader, cb>>

Expired(t) == pc[t] = "expired" \/ (pc[t] = "wait" /\ "impatient" \notin Faults /\ Overdue)

\* Faulty variant: the slot is not reset for the next user.
TimedOutKeepsSlot(t) ==
    /\ Expired(t)
    /\ ~slots[at[t]].locked
    /\ EndWait(t, "NOMESSAGE", Null)
    /\ UNCHANGED <<slots, line, reader, cb>>

\* ETIMEDOUT: the slot is freed; a message delivered in between is dropped with it.
TimedOut(t) ==
    /\ Expired(t)
    /\ ~slots[at[t]].locked
    /\ slots' = [slots EXCEPT ![at[t]].u16Type = Free]
    /\ EndWait(t, "NOMESSAGE", Null)
    /\ UNCHANGED <<line, reader, cb>>

SpuriousWakeup(t) ==
    /\ "spurious" \in Faults
    /\ pc[t] = "wait"
    /\ pc' = [pc EXCEPT ![t] = "woken"]
    /\ UNCHANGED <<mutex, op, cmd, at, want, ret, got, answered, slots, line, reader, cb>>

-----------------------------------------------------------------------------
(* The node and the line (external)                                        *)

Status(c)   == [type |-> "STATUS", of |-> c.type, req |-> c.req, seq |-> 0]
Response(c) == [type |-> "RESPONSE", of |-> None, req |-> c.req, seq |-> 0]

\* What the node may answer to command c; with losses also nothing.
Answers(c) ==
    {<<Status(c)>>}
    \cup (IF c.type \in Requests THEN {<<Status(c), Response(c)>>} ELSE {})
    \cup (IF "loss" \in Faults THEN {<<>>} ELSE {})

\* The node takes the next command and answers it.  There is no flow control: what
\* does not fit on the line is lost.
NodeAnswer ==
    /\ toNode # <<>>
    /\ "prompt" \in Faults \/ \A t \in Clients : pc[t] = "scan" => Head(toNode).req # t
    /\ toNode' = Tail(toNode)
    /\ \E a \in Answers(Head(toNode)) :
         LET fits == SubSeq(a, 1, IF Len(a) <= LineLength - Len(fromNode)
                                  THEN Len(a) ELSE LineLength - Len(fromNode))
         IN  /\ fromNode' = fromNode \o fits
             /\ answered' = [t \in Clients |->
                  answered[t] \cup {fits[i].type : i \in {j \in DOMAIN fits :
                                                            fits[j].req = t /\ pc[t] # "idle"}}]
    /\ UNCHANGED <<mutex, pc, op, cmd, at, want, ret, got, slots, events, reader, cb>>

\* The node reports something nobody asked for.
NodeEvent ==
    /\ events < MaxEvents
    /\ Len(fromNode) < LineLength
    /\ events' = events + 1
    /\ \E ty \in Reports :
         fromNode' = Append(fromNode, [type |-> ty, of |-> None, req |-> Nobody, seq |-> events + 1])
    /\ UNCHANGED <<client, slots, toNode, reader, cb>>

-----------------------------------------------------------------------------
(* The reader thread                                                       *)

\* A log message is not offered to waiting clients.
ReadMessage ==
    /\ rpc = "read" /\ readerState = "RUNNING"
    /\ fromNode # <<>>
    /\ rmsg' = Head(fromNode)
    /\ fromNode' = Tail(fromNode)
    /\ rpc' = IF rmsg'.type = "LOG" THEN "callbacks" ELSE "queue1"
    /\ rk' = 1
    /\ UNCHANGED <<client, slots, toNode, events, readerState, cb>>

\* Faulty variant: the command a status answers is not looked at.
MatchesTypeOnly(s) == s.u16Type = rmsg.type

\* The test of eSL_MessageQueue.  A status must also answer the command the slot
\* waits for.  Once a status was stored in the slot the comparison is with that
\* copy, which is in network byte order, and fails.
Matches(s) ==
    /\ s.u16Type = rmsg.type
    /\ rmsg.type = "STATUS" => s.pu8Message \in {Null, Stack(rmsg.of)}

Offering == rpc \in {"queue1", "queue2"} /\ rk <= NSlots /\ ~slots[rk].locked

Deliver ==
    /\ Offering
    /\ Matches(slots[rk])
    /\ slots' = [slots EXCEPT ![rk].pu8Message = rmsg]
    /\ rpc' = "bcast"
    /\ UNCHANGED <<client, line, rmsg, rk, readerState, cb>>

\* Faulty variant: the search ends at the first slot that does not match.
StopAtMismatch ==
    /\ Offering
    /\ ~Matches(slots[rk])
    /\ rk' = NSlots + 1
    /\ UNCHANGED <<client, slots, line, rpc, rmsg, readerState, cb>>

TryNextSlot ==
    /\ Offering
    /\ ~Matches(slots[rk])
    /\ rk' = rk + 1
    /\ UNCHANGED <<client, slots, line, rpc, rmsg, readerState, cb>>

NoListener ==
    /\ rpc \in {"queue1", "queue2"}
    /\ rk > NSlots
    /\ rpc' = "callbacks" /\ rk' = 1
    /\ UNCHANGED <<client, slots, line, rmsg, readerState, cb>>

\* malloc fails: eSL_MessageQueue returns without unlocking the slot.
DeliverNoMem ==
    /\ "nomem" \in Faults
    /\ Offering
    /\ Matches(slots[rk])
    /\ slots' = [slots EXCEPT ![rk].locked = TRUE]
    /\ rpc' = IF rpc = "queue1" THEN "retry" ELSE "callbacks"
    /\ rk' = 1
    /\ UNCHANGED <<client, line, rmsg, readerState, cb>>

Resubmit ==
    /\ rpc = "retry"
    /\ rpc' = "queue2"
    /\ UNCHANGED <<client, slots, line, rmsg, rk, readerState, cb>>

\* Faulty variant: one condition variable for all the slots.
WakeAll(k) == pc' = [t \in Clients |-> IF pc[t] = "wait" THEN "woken" ELSE pc[t]]

Wake(k) == pc' = [t \in Clients |-> IF pc[t] = "wait" /\ at[t] = k THEN "woken" ELSE pc[t]]

\* The broadcast comes after the slot was unlocked.
BroadcastSlot ==
    /\ rpc = "bcast"
    /\ Wake(rk)
    /\ rpc' = "callbacks" /\ rk' = 1
    /\ UNCHANGED <<mutex, op, cmd, at, want, ret, got, answered, slots, line, rmsg, readerState, cb>>

\* Faulty variant: the callback queue is created with a non-blocking input.
QueueCallbackOrDrop ==
    /\ rpc = "callbacks" /\ rk <= Len(Listeners)
    /\ Listeners[rk] = rmsg.type
    /\ cbQueue' = IF Len(cbQueue) < QueueCapacity THEN Append(cbQueue, rmsg) ELSE cbQueue
    /\ rk' = rk + 1
    /\ UNCHANGED <<client, slots, line, rpc, rmsg, readerState, cbMsg, called>>

\* For each listener of the type a copy of the message is queued.  The reader
\* blocks while the queue is full.
QueueCallback ==
    /\ rpc = "callbacks" /\ rk <= Len(Listeners)
    /\ Listeners[rk] = rmsg.type
    /\ Len(cbQueue) < QueueCapacity
    /\ cbQueue' = Append(cbQueue, rmsg)
    /\ rk' = rk + 1
    /\ UNCHANGED <<client, slots, line, rpc, rmsg, readerState, cbMsg, called>>

SkipListener ==
    /\ rpc = "callbacks" /\ rk <= Len(Listeners)
    /\ Listeners[rk] # rmsg.type \/ "nomem" \in Faults
    /\ rk' = rk + 1
    /\ UNCHANGED <<client, slots, line, rpc, rmsg, readerState, cb>>

ListenersDone ==
    /\ rpc = "callbacks" /\ rk > Len(Listeners)
    /\ rpc' = "read" /\ rk' = 1 /\ rmsg' = Null
    /\ UNCHANGED <<client, slots, line, readerState, cb>>

\* eSL_Destroy: the reader leaves its loop and clears every slot without its mutex.
Destroy ==
    /\ "stop" \in Faults
    /\ readerState = "RUNNING"
    /\ readerState' = "STOPPING"
    /\ UNCHANGED <<client, slots, line, rpc, rmsg, rk, cb>>

ReaderExit ==
    /\ rpc = "read" /\ readerState = "STOPPING"
    /\ rpc' = "exit"
    /\ UNCHANGED <<client, slots, line, rmsg, rk, readerState, cb>>

\* Faulty variant: <= for < in the loop over the slots.
ClearSlotPastEnd ==
    /\ rpc = "exit"
    /\ slots' = [slots EXCEPT ![rk].pu8Message = Null]
    /\ Wake(rk)
    /\ IF rk <= NSlots THEN rk' = rk + 1 /\ UNCHANGED rpc
                       ELSE rpc' = "stopped" /\ UNCHANGED rk
    /\ UNCHANGED <<mutex, op, cmd, at, want, ret, got, answered, line, rmsg, readerState, cb>>

ClearSlot ==
    /\ rpc = "exit"
    /\ slots' = [slots EXCEPT ![rk].pu8Message = Null]
    /\ Wake(rk)
    /\ IF rk < NSlots THEN rk' = rk + 1 /\ UNCHANGED rpc
                      ELSE rpc' = "stopped" /\ UNCHANGED rk
    /\ UNCHANGED <<mutex, op, cmd, at, want, ret, got, answered, line, rmsg, readerState, cb>>

-----------------------------------------------------------------------------
(* The callback thread                                                     *)

StartCallback ==
    /\ cbMsg = Null
    /\ cbQueue # <<>>
    /\ cbMsg' = Head(cbQueue)
    /\ cbQueue' = Tail(cbQueue)
    /\ called' = IF cbMsg'.seq > 0 THEN cbMsg'.seq ELSE called
    /\ UNCHANGED <<client, slots, line, reader>>

EndCallback ==
    /\ cbMsg # Null
    /\ pc[CbThread] = "idle"
    /\ cbMsg' = Null
    /\ UNCHANGED <<client, slots, line, reader, cbQueue, called>>

-----------------------------------------------------------------------------
Client(t) == \/ LockLink(t) \/ WriteMessage(t) \/ TakeSlot(t) \/ BadDeadline(t)
             \/ NextSlot(t) \/ NoFreeSlot(t) \/ Woken(t) \/ TimedOut(t)

Reader == \/ ReadMessage \/ Deliver \/ TryNextSlot \/ NoListener \/ DeliverNoMem
          \/ Resubmit \/ BroadcastSlot \/ QueueCallback \/ SkipListener
          \/ ListenersDone \/ ReaderExit \/ ClearSlot

Next == \/ \E t \in Clients : \/ \E k \in Calls(t) : Call(t, k[1], k[2])
                              \/ Client(t) \/ Expire(t) \/ SpuriousWakeup(t)
        \/ Reader \/ Destroy
        \/ StartCallback \/ EndCallback
        \/ NodeAnswer \/ NodeEvent

Spec == Init /\ [][Next]_vars

(* Every thread that can run does, nobody is passed over for ever when     *)
(* sSerialLink.mutex is free, a timed wait that is overdue ends, callbacks *)
(* return and the line is drained.  Nobody has to call or to report.       *)
Fairness ==
    /\ \A t \in Clients : WF_vars(Client(t)) /\ SF_vars(LockLink(t)) /\ WF_vars(Expire(t))
    /\ WF_vars(Reader) /\ WF_vars(StartCallback) /\ WF_vars(EndCallback)
    /\ WF_vars(NodeAnswer)

FairSpec == Spec /\ Fairness

-----------------------------------------------------------------------------
(* Properties                                                              *)

ClientPlaces == {"idle", "send", "write", "scan", "wait", "woken", "expired"}
ReaderPlaces == {"read", "queue1", "retry", "queue2", "bcast", "callbacks", "exit", "stopped"}
InSlot(t)    == pc[t] \in {"wait", "woken", "expired"}

\* Every variable has its type; above all no array of slots is indexed outside its
\* bounds, neither by a client in its slot, nor by a delivery, nor by the reader
\* when it clears the slots on exit.
TypeOK ==
    /\ mutex \in Clients \cup {Nobody}
    /\ slots \in [1 .. NSlots -> [u16Type : Types \cup {Free}, pu8Message : Buffer,
                                 locked : BOOLEAN]]
    /\ pc \in [Clients -> ClientPlaces]
    /\ op \in [Clients -> {"send", "nowait", "request", "erase"}]
    /\ cmd \in [Clients -> AllCommands \cup {None}]
    /\ want \in [Clients -> {"STATUS", "ANYSTATUS", "RESPONSE"}]
    /\ ret \in [Clients -> {"NONE", "OK", "ERROR", "NOMESSAGE"}]
    /\ got \in [Clients -> Buffer]
    /\ \A t \in Clients : at[t] \in 1 .. NSlots + 1 /\ (InSlot(t) => at[t] <= NSlots)
    /\ events \in 0 .. MaxEvents /\ called \in 0 .. events
    /\ rpc \in ReaderPlaces /\ readerState \in {"RUNNING", "STOPPING"}
    /\ rmsg \in Message \cup {Null} /\ cbMsg \in Message \cup {Null}
    /\ Len(cbQueue) <= QueueCapacity
    /\ rpc \in {"bcast", "exit"} => rk \in 1 .. NSlots

\* A slot of asReaderMessageQueue is taken exactly while one client waits in it, for
\* the type that client wants: none leaks when a wait times out, fails, is woken
\* for nothing or is cut short by eSL_Destroy, and no two clients share one.
SlotOwnership ==
    /\ \A t \in Clients : InSlot(t) => slots[at[t]].u16Type = SlotType(t)
    /\ \A t, u \in Clients : InSlot(t) /\ InSlot(u) /\ at[t] = at[u] => t = u
    /\ \A i \in 1 .. NSlots : slots[i].u16Type # Free => \E t \in Clients : InSlot(t) /\ at[t] = i

\* eSL_SendMessage never takes the status of another kind of command for its own,
\* although late statuses and those of eSL_SendMessageNoWait pass through the same slots.
StatusMatchesCommand ==
    \A t \in Clients :
        ret[t] = "OK" /\ op[t] # "erase" /\ got[t].type = "STATUS" => got[t].of = cmd[t]

\* A wait that ends well hands its caller a received message, not the caller's own
\* status structure, no stale buffer and not NULL.
WaitReturnsMessage ==
    \A t \in Clients : ret[t] = "OK" /\ op[t] # "nowait" => got[t] \in Message

\* The status eSL_SendMessage returns was caused by the message it sent, also when
\* others send the same command: while none of them leaves a status of this type
\* behind by not waiting for it, by giving up too early or for want of a slot.
StatusIsForThisMessage ==
    \A t \in Clients : ret[t] = "OK" /\ op[t] = "send" => got[t].req = t

\* When eSL_SendMessage gives up for want of a status, the node has sent none: while
\* the answer is not faster than the sender, timeouts are patient, nobody waits for
\* the status of any command and the callback queue does not block the reader.
StatusArrives ==
    \A t \in Clients : ret[t] = "NOMESSAGE" /\ want[t] = "STATUS" => "STATUS" \notin answered[t]

Reported(m) == m.type \in {"EVENT", "LOG"}
\* The message in the reader's hands, while its listener has not been served.
InHand == IF Reported(rmsg) /\ (rpc = "callbacks" =>
                                   \E k \in rk .. Len(Listeners) : Listeners[k] = rmsg.type)
             THEN <<rmsg>> ELSE <<>>

\* The reported messages of q are those numbered lo + 1 to hi, in this order.
Holds(q, lo, hi) ==
    LET reports == {i \in DOMAIN q : Reported(q[i])}
    IN  /\ {q[i].seq : i \in reports} = lo + 1 .. hi
        /\ \A i, j \in reports : i < j => q[i].seq < q[j].seq

\* Every event the node reports is called back once and in order, however full the
\* callback queue runs: what is under way is exactly what was not called back yet.
\* For one listener per type, as ZCB registers them, and while malloc succeeds.
EventsInOrder == Holds(cbQueue \o InHand \o fromNode, called, events)

\* Every call into SerialLink returns, callbacks that send included, even when the
\* node loses messages, waits time out at any moment or the link is destroyed.
ClientReturns == \A t \in Clients : pc[t] # "idle" ~> pc[t] = "idle"
=============================================================================
