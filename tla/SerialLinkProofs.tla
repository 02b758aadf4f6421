-------------------------- MODULE SerialLinkProofs --------------------------
(* For any number of threads, slots, listeners and events: the slots of    *)
(* waiting threads belong to the threads that wait in them, every variable *)
(* has its type, a call takes no status of another command or of another   *)
(* call for its own and does not miss its own, a wait ends with a received *)
(* message, and the events the node reports are called back once and in    *)
(* order.  The invariants are IInv (slots), which TInv (types) strengthens;*)
(* TInv is strengthened by MInv (statuses) and EInv (events), and MInv by  *)
(* AInv (arrivals) and PInv (whose status comes, what a wait takes).       *)
EXTENDS SerialLink, SequenceTheorems, TLAPS

Wants == {"STATUS", "ANYSTATUS", "RESPONSE"}

Slots(B) == [1 .. NSlots -> [u16Type : Types \cup {Free}, pu8Message : B, locked : BOOLEAN]]

\* The slots are records, whatever their pointers point to; a client stands at a slot, or
\* behind the last one while it still looks for one.
Shape ==
    /\ \E B : slots \in Slots(B)
    /\ pc \in [Clients -> ClientPlaces] /\ want \in [Clients -> Wants]
    /\ at \in [Clients -> 1 .. NSlots + 1]
    /\ \A t \in Clients : InSlot(t) => at[t] \in 1 .. NSlots

\* The inductive invariant.
IInv == Shape /\ SlotOwnership

LEMMA Basics == NSlots \in Nat /\ 1 \in 1 .. NSlots /\ 1 \in 1 .. NSlots + 1
BY LinkAssumption DEF LinkAssumption

LEMMA TypesOfSlots == \A t \in Clients : IInv => SlotType(t) # Free
BY DEF IInv, Shape, SlotType, Free, Wants

\* A step writes the type of slot k, and perhaps its pointer; or only a pointer.
TypeWritten(k, ty) ==
    \/ slots' = [slots EXCEPT ![k].u16Type = ty]
    \/ \E m : slots' = [slots EXCEPT ![k].u16Type = ty, ![k].pu8Message = m]
PointerWritten(k) == \E m : slots' = [slots EXCEPT ![k].pu8Message = m]

LEMMA OnePointerWritten ==
  ASSUME IInv, NEW k, PointerWritten(k)
  PROVE  /\ \E C : slots' \in Slots(C)
         /\ \A i \in 1 .. NSlots : slots'[i].u16Type = slots[i].u16Type
<1>1. PICK B : slots \in Slots(B)
  BY DEF IInv, Shape
<1>2. PICK m : slots' = [slots EXCEPT ![k].pu8Message = m]
  BY DEF PointerWritten
<1>3. slots' \in Slots(B \cup {m})
  BY <1>1, <1>2 DEF Slots
<1> QED
  BY <1>1, <1>2, <1>3 DEF Slots

LEMMA OneTypeWritten ==
  ASSUME IInv, NEW k \in 1 .. NSlots, NEW ty \in Types \cup {Free}, TypeWritten(k, ty)
  PROVE  /\ \E C : slots' \in Slots(C)
         /\ \A i \in 1 .. NSlots :
              slots'[i].u16Type = IF i = k THEN ty ELSE slots[i].u16Type
<1>1. PICK B : slots \in Slots(B)
  BY DEF IInv, Shape
<1>2. CASE slots' = [slots EXCEPT ![k].u16Type = ty]
  <2>1. slots' \in Slots(B)
    BY <1>1, <1>2 DEF Slots
  <2> QED
    BY <1>1, <1>2, <2>1 DEF Slots
<1>3. CASE \E m : slots' = [slots EXCEPT ![k].u16Type = ty, ![k].pu8Message = m]
  <2>1. PICK m : slots' = [slots EXCEPT ![k].u16Type = ty, ![k].pu8Message = m]
    BY <1>3
  <2>2. slots' \in Slots(B \cup {m})
    BY <1>1, <2>1 DEF Slots
  <2> QED
    BY <1>1, <2>1, <2>2 DEF Slots
<1> QED
  BY <1>2, <1>3 DEF TypeWritten

-----------------------------------------------------------------------------
(* Steps of one kind                                                       *)

\* The types of the slots stay, and who is in a slot stays there.
LEMMA NobodyMoves ==
  ASSUME IInv,
         \E C : slots' \in Slots(C),
         \A i \in 1 .. NSlots : slots'[i].u16Type = slots[i].u16Type,
         pc' \in [Clients -> ClientPlaces], want' \in [Clients -> Wants],
         at' \in [Clients -> 1 .. NSlots + 1],
         \A t \in Clients : InSlot(t)' <=> InSlot(t),
         \A t \in Clients : InSlot(t) => at'[t] = at[t] /\ want'[t] = want[t]
  PROVE  IInv'
<1>1. Shape'
  BY DEF IInv, Shape, Slots
<1>2. SlotOwnership'
  BY DEF IInv, Shape, SlotOwnership, SlotType
<1> QED
  BY <1>1, <1>2 DEF IInv

\* The clients stay where they are, or are woken in their slots.
LEMMA OnlyWoken ==
  ASSUME IInv,
         slots' = slots \/ \E k : PointerWritten(k)
                        \/ \E i : slots' = [slots EXCEPT ![i].locked = TRUE],
         pc' = pc \/ \E j : Wake(j), UNCHANGED <<at, want>>
  PROVE  IInv'
<1>1. /\ \E C : slots' \in Slots(C)
      /\ \A i \in 1 .. NSlots : slots'[i].u16Type = slots[i].u16Type
  <2>1. CASE slots' = slots
    BY <2>1 DEF IInv, Shape
  <2>2. CASE \E i : slots' = [slots EXCEPT ![i].locked = TRUE]
    <3>1. PICK i : slots' = [slots EXCEPT ![i].locked = TRUE]
      BY <2>2
    <3>2. PICK B : slots \in Slots(B)
      BY DEF IInv, Shape
    <3>3. slots' \in Slots(B)
      BY <3>1, <3>2 DEF Slots
    <3> QED
      BY <3>1, <3>2, <3>3 DEF Slots
  <2>3. CASE \E k : PointerWritten(k)
    BY <2>3, OnePointerWritten
  <2> QED
    BY <2>1, <2>2, <2>3
<1>2. pc' \in [Clients -> ClientPlaces] /\ \A t \in Clients : InSlot(t)' <=> InSlot(t)
  BY DEF IInv, Shape, Wake, InSlot, ClientPlaces
<1> QED
  BY <1>1, <1>2, NobodyMoves DEF IInv, Shape

\* One client moves outside the slots, or within its own.
LEMMA OneMoves ==
  ASSUME IInv, NEW t \in Clients, NEW place \in ClientPlaces, UNCHANGED slots,
         pc' = [pc EXCEPT ![t] = place],
         InSlot(t) <=> place \in {"wait", "woken", "expired"},
         UNCHANGED want,
         at' = at \/ (~InSlot(t) /\ \E k \in 1 .. NSlots + 1 : at' = [at EXCEPT ![t] = k])
  PROVE  IInv'
<1>1. /\ \E C : slots' \in Slots(C)
      /\ \A i \in 1 .. NSlots : slots'[i].u16Type = slots[i].u16Type
  BY DEF IInv, Shape, Slots
<1>2. /\ pc' \in [Clients -> ClientPlaces] /\ \A u \in Clients : InSlot(u)' <=> InSlot(u)
      /\ at' \in [Clients -> 1 .. NSlots + 1]
      /\ \A u \in Clients : InSlot(u) => at'[u] = at[u]
  BY DEF IInv, Shape, InSlot
<1> QED
  BY <1>1, <1>2, NobodyMoves DEF IInv, Shape

\* What the end of a wait does to the clients.
LEMMA WaitEnds ==
  ASSUME IInv, NEW t \in Clients, NEW r, NEW b, EndWait(t, r, b)
  PROVE  /\ pc' \in [Clients -> ClientPlaces] /\ want' \in [Clients -> Wants]
         /\ at' \in [Clients -> 1 .. NSlots + 1]
         /\ pc'[t] \in {"scan", "idle"}
         /\ \A u \in Clients \ {t} : pc'[u] = pc[u] /\ want'[u] = want[u] /\ at'[u] = at[u]
<1>1. PICK w \in Follows(t, r) :
        IF w # None
           THEN pc' = [pc EXCEPT ![t] = "scan"] /\ want' = [want EXCEPT ![t] = w]
           ELSE pc' = [pc EXCEPT ![t] = "idle"] /\ want' = want
  BY DEF EndWait
<1>2. w # None => w \in Wants
  BY DEF Follows, Wants
<1>3. at' = [at EXCEPT ![t] = 1]
  BY DEF EndWait
<1> QED
  BY <1>1, <1>2, <1>3, Basics DEF IInv, Shape, ClientPlaces

\* A wait ends and its slot, if it has one, is freed.
LEMMA SlotFreed ==
  ASSUME IInv, NEW t \in Clients, NEW r, NEW b, EndWait(t, r, b),
         \/ InSlot(t) /\ TypeWritten(at[t], Free)
         \/ ~InSlot(t) /\ \E k : PointerWritten(k)
         \/ ~InSlot(t) /\ slots' = slots
  PROVE  IInv'
<1>1. /\ pc' \in [Clients -> ClientPlaces] /\ want' \in [Clients -> Wants]
      /\ at' \in [Clients -> 1 .. NSlots + 1]
      /\ pc'[t] \in {"scan", "idle"}
      /\ \A u \in Clients \ {t} : pc'[u] = pc[u] /\ want'[u] = want[u] /\ at'[u] = at[u]
  BY WaitEnds
<1>2. /\ \E C : slots' \in Slots(C)
      /\ \A i \in 1 .. NSlots :
           slots'[i].u16Type = IF InSlot(t) /\ i = at[t] THEN Free ELSE slots[i].u16Type
  <2>1. CASE InSlot(t)
    <3>1. at[t] \in 1 .. NSlots /\ Free \in Types \cup {Free}
      BY <2>1 DEF IInv, Shape
    <3>2. TypeWritten(at[t], Free)
      BY <2>1
    <3> QED
      BY <2>1, <3>1, <3>2, OneTypeWritten
  <2>2. CASE ~InSlot(t)
    <3>1. CASE slots' = slots
      BY <2>2, <3>1 DEF IInv, Shape
    <3>2. ASSUME NEW k, PointerWritten(k)
          PROVE  /\ \E C : slots' \in Slots(C)
                 /\ \A i \in 1 .. NSlots : slots'[i].u16Type = slots[i].u16Type
      BY <3>2, OnePointerWritten
    <3> QED
      BY <2>2, <3>1, <3>2
  <2> QED
    BY <2>1, <2>2
<1>4. ~InSlot(t)' /\ \A u \in Clients \ {t} : InSlot(u)' <=> InSlot(u)
  BY <1>1 DEF InSlot
<1>5. Shape'
  BY <1>1, <1>2, <1>4 DEF IInv, Shape, InSlot
<1>6. SlotOwnership'
  <2>1. \A u \in Clients \ {t} : InSlot(u) /\ InSlot(t) => at[u] # at[t]
    BY DEF IInv, SlotOwnership
  <2>2. \A u \in Clients : InSlot(u)' => slots'[at'[u]].u16Type = SlotType(u)'
    <3> SUFFICES ASSUME NEW u \in Clients, InSlot(u)'
                 PROVE  slots'[at'[u]].u16Type = SlotType(u)'
      OBVIOUS
    <3>1. u # t /\ InSlot(u) /\ at'[u] = at[u] /\ want'[u] = want[u]
      BY <1>1, <1>4
    <3>2. at[u] \in 1 .. NSlots /\ slots[at[u]].u16Type = SlotType(u)
      BY <3>1 DEF IInv, Shape, SlotOwnership
    <3>3. slots'[at[u]].u16Type = slots[at[u]].u16Type
      BY <1>2, <2>1, <3>1, <3>2
    <3> QED
      BY <3>1, <3>2, <3>3 DEF SlotType
  <2>3. \A u, v \in Clients : InSlot(u)' /\ InSlot(v)' /\ at'[u] = at'[v] => u = v
    BY <1>1, <1>4 DEF IInv, SlotOwnership
  <2>4. ASSUME NEW i \in 1 .. NSlots, slots'[i].u16Type # Free
        PROVE  \E u \in Clients : InSlot(u)' /\ at'[u] = i
    <3>1. slots[i].u16Type # Free /\ ~(InSlot(t) /\ i = at[t])
      BY <1>2, <2>4
    <3>2. PICK u \in Clients : InSlot(u) /\ at[u] = i
      BY <3>1 DEF IInv, SlotOwnership
    <3> QED
      BY <1>1, <1>4, <3>1, <3>2
  <2> QED
    BY <2>2, <2>3, <2>4 DEF SlotOwnership
<1> QED
  BY <1>5, <1>6 DEF IInv

-----------------------------------------------------------------------------
(* The invariant                                                           *)

LEMMA InitIInv == Init => IInv
<1> SUFFICES ASSUME Init PROVE IInv
  OBVIOUS
<1>1. slots \in Slots({Null})
  BY DEF Init, Slots
<1>2. \A i \in 1 .. NSlots : slots[i].u16Type = Free
  BY DEF Init
<1> QED
  BY <1>1, <1>2, Basics DEF Init, IInv, Shape, SlotOwnership, InSlot, ClientPlaces, Wants

\* A client calls: nothing of its earlier calls is in the slots.
LEMMA CallStep ==
  ASSUME IInv, NEW t \in Clients, NEW o, NEW c, Call(t, o, c)
  PROVE  IInv'
<1>1. /\ slots' = [i \in DOMAIN slots |-> [slots[i] EXCEPT !.pu8Message = Orphan(@, t)]]
      /\ pc' = [pc EXCEPT ![t] = "send"] /\ want' = [want EXCEPT ![t] = "STATUS"]
      /\ at' = at /\ pc[t] = "idle"
  BY DEF Call, Disown, MayCall
<1>2. DOMAIN slots = 1 .. NSlots
  BY DEF IInv, Shape, Slots
<1>3. /\ \E C : slots' \in Slots(C)
      /\ \A i \in 1 .. NSlots : slots'[i].u16Type = slots[i].u16Type
  <2>1. PICK B : slots \in Slots(B)
    BY DEF IInv, Shape
  <2> DEFINE C == {Orphan(m, t) : m \in B}
  <2>2. \A i \in 1 .. NSlots :
           /\ slots'[i] = [slots[i] EXCEPT !.pu8Message = Orphan(slots[i].pu8Message, t)]
           /\ Orphan(slots[i].pu8Message, t) \in C
    BY <1>1, <1>2, <2>1 DEF Slots
  <2> HIDE DEF C
  <2>3. \A i \in 1 .. NSlots :
           /\ slots'[i] \in [u16Type : Types \cup {Free}, pu8Message : C, locked : BOOLEAN]
           /\ slots'[i].u16Type = slots[i].u16Type
    BY <2>1, <2>2 DEF Slots
  <2>4. slots' \in Slots(C)
    BY <1>1, <1>2, <2>3 DEF Slots
  <2> QED
    BY <2>3, <2>4
<1>4. /\ pc' \in [Clients -> ClientPlaces] /\ \A u \in Clients : InSlot(u)' <=> InSlot(u)
      /\ want' \in [Clients -> Wants]
      /\ \A u \in Clients : InSlot(u) => want'[u] = want[u]
  BY <1>1 DEF IInv, Shape, InSlot, ClientPlaces, Wants
<1> QED
  BY <1>1, <1>3, <1>4, NobodyMoves DEF IInv, Shape

\* The slot was free, and therefore nobody was in it.
LEMMA TakeSlotStep ==
  ASSUME IInv, NEW t \in Clients, TakeSlot(t)
  PROVE  IInv'
<1> DEFINE k == at[t]
<1>1. /\ pc[t] = "scan" /\ k \in 1 .. NSlots /\ slots[k].u16Type = Free
      /\ slots' = [slots EXCEPT ![k].u16Type = SlotType(t), ![k].pu8Message = Registered(t, @)]
      /\ pc' = [pc EXCEPT ![t] = "wait"] /\ at' = at /\ want' = want
  BY DEF TakeSlot
<1>2. /\ \E C : slots' \in Slots(C)
      /\ \A i \in 1 .. NSlots :
           slots'[i].u16Type = IF i = k THEN SlotType(t) ELSE slots[i].u16Type
  <2>1. SlotType(t) \in Types \cup {Free}
    BY DEF IInv, Shape, SlotType, Types, Wants
  <2>2. TypeWritten(k, SlotType(t))
    BY <1>1 DEF TypeWritten
  <2> QED
    BY <1>1, <2>1, <2>2, OneTypeWritten
<1>4. /\ pc' \in [Clients -> ClientPlaces] /\ InSlot(t)' /\ ~InSlot(t)
      /\ \A u \in Clients \ {t} : InSlot(u)' <=> InSlot(u)
  BY <1>1 DEF IInv, Shape, InSlot, ClientPlaces
<1>5. \A u \in Clients : InSlot(u) => at[u] # k
  BY <1>1, TypesOfSlots DEF IInv, SlotOwnership
<1>6. Shape'
  BY <1>1, <1>2, <1>4 DEF IInv, Shape, InSlot
<1>7. SlotOwnership'
  <2>1. \A u \in Clients : SlotType(u)' = SlotType(u)
    BY <1>1 DEF SlotType
  <2>2. \A u \in Clients : InSlot(u)' => u = t \/ (InSlot(u) /\ at[u] # k)
    BY <1>4, <1>5
  <2>3. \A u \in Clients : InSlot(u)' => slots'[at'[u]].u16Type = SlotType(u)'
    <3> SUFFICES ASSUME NEW u \in Clients, InSlot(u)'
                 PROVE  slots'[at'[u]].u16Type = SlotType(u)'
      OBVIOUS
    <3>1. CASE u = t
      BY <1>1, <1>2, <2>1, <3>1
    <3>2. CASE u # t
      <4>1. InSlot(u) /\ at[u] # k
        BY <2>2, <3>2
      <4>2. at[u] \in 1 .. NSlots /\ slots[at[u]].u16Type = SlotType(u)
        BY <4>1 DEF IInv, Shape, SlotOwnership
      <4>3. slots'[at[u]].u16Type = slots[at[u]].u16Type
        BY <1>2, <4>1, <4>2
      <4> QED
        BY <1>1, <2>1, <4>2, <4>3
    <3> QED
      BY <3>1, <3>2
  <2>4. \A u, v \in Clients : InSlot(u)' /\ InSlot(v)' /\ at'[u] = at'[v] => u = v
    BY <1>1, <2>2 DEF IInv, SlotOwnership
  <2>5. \A i \in 1 .. NSlots :
           slots'[i].u16Type # Free => \E u \in Clients : InSlot(u)' /\ at'[u] = i
    BY <1>1, <1>2, <1>4 DEF IInv, SlotOwnership
  <2> QED
    BY <2>3, <2>4, <2>5 DEF SlotOwnership
<1> QED
  BY <1>6, <1>7 DEF IInv

LEMMA ClientSteps ==
  ASSUME IInv, NEW t \in Clients, Client(t) \/ Expire(t) \/ SpuriousWakeup(t)
  PROVE  IInv'
<1>1. CASE LockLink(t) \/ WriteMessage(t)
  <2>1. PICK place \in {"write", "idle", "scan"} : pc' = [pc EXCEPT ![t] = place]
    BY <1>1 DEF LockLink, WriteMessage
  <2>2. pc[t] \in {"send", "write"} /\ UNCHANGED <<slots, at, want>>
    BY <1>1 DEF LockLink, WriteMessage
  <2>3. place \in ClientPlaces /\ ~InSlot(t) /\ place \notin {"wait", "woken", "expired"}
    BY <2>1, <2>2 DEF InSlot, ClientPlaces
  <2> QED
    BY <2>1, <2>2, <2>3, OneMoves
<1>2. CASE NextSlot(t)
  <2>1. /\ pc[t] = "scan" /\ at' = [at EXCEPT ![t] = at[t] + 1] /\ at[t] \in 1 .. NSlots
        /\ UNCHANGED <<pc, want, slots>>
    BY <1>2 DEF NextSlot
  <2>2. pc' = [pc EXCEPT ![t] = "scan"] /\ "scan" \in ClientPlaces /\ ~InSlot(t)
    BY <2>1 DEF IInv, Shape, InSlot, ClientPlaces
  <2>3. at[t] + 1 \in 1 .. NSlots + 1
    BY <2>1, Basics
  <2> QED
    BY <2>1, <2>2, <2>3, OneMoves
<1>3. CASE Expire(t) \/ SpuriousWakeup(t)
  <2>1. PICK place \in {"expired", "woken"} : pc' = [pc EXCEPT ![t] = place]
    BY <1>3 DEF Expire, SpuriousWakeup
  <2>2. pc[t] = "wait" /\ UNCHANGED <<slots, at, want>>
    BY <1>3 DEF Expire, SpuriousWakeup
  <2>3. place \in ClientPlaces /\ InSlot(t) /\ place \in {"wait", "woken", "expired"}
    BY <2>1, <2>2 DEF InSlot, ClientPlaces
  <2> QED
    BY <2>1, <2>2, <2>3, OneMoves
<1>4. CASE BadDeadline(t) \/ NoFreeSlot(t)
  <2>1. ~InSlot(t) /\ EndWait(t, "ERROR", Null)
    BY <1>4 DEF BadDeadline, NoFreeSlot, InSlot
  <2>2. slots' = slots \/ \E k : PointerWritten(k)
    BY <1>4 DEF BadDeadline, NoFreeSlot, PointerWritten
  <2> QED
    BY <2>1, <2>2, SlotFreed
<1>5. CASE Woken(t)
  <2>1. /\ InSlot(t)
        /\ TypeWritten(at[t], Free) /\ \E b : EndWait(t, "OK", b)
    BY <1>5 DEF Woken, InSlot, TypeWritten
  <2> QED
    BY <2>1, SlotFreed
<1>6. CASE TimedOut(t)
  <2>1. /\ InSlot(t) /\ TypeWritten(at[t], Free)
        /\ EndWait(t, "NOMESSAGE", Null)
    BY <1>6 DEF TimedOut, Expired, InSlot, TypeWritten
  <2> QED
    BY <2>1, SlotFreed
<1> QED
  BY <1>1, <1>2, <1>3, <1>4, <1>5, <1>6, TakeSlotStep DEF Client

\* The reader, the callback thread and the node write messages and wake clients.
LEMMA OtherSteps ==
  ASSUME IInv, Reader \/ Destroy \/ StartCallback \/ EndCallback \/ NodeAnswer \/ NodeEvent
  PROVE  IInv'
<1>1. CASE Deliver
  BY <1>1, OnlyWoken DEF Deliver, client, PointerWritten
<1>2. CASE DeliverNoMem
  BY <1>2, OnlyWoken DEF DeliverNoMem, client
<1>3. CASE BroadcastSlot
  BY <1>3, OnlyWoken DEF BroadcastSlot
<1>4. CASE ClearSlot
  BY <1>4, OnlyWoken DEF ClearSlot, PointerWritten
<1>5. CASE NodeAnswer
  BY <1>5, OnlyWoken DEF NodeAnswer
<1>6. ASSUME UNCHANGED <<client, slots>> PROVE IInv'
  BY <1>6, OnlyWoken DEF client
<1>7. CASE \/ ReadMessage \/ TryNextSlot \/ NoListener \/ Resubmit \/ QueueCallback
           \/ SkipListener \/ ListenersDone \/ ReaderExit
  BY <1>6, <1>7 DEF ReadMessage, TryNextSlot, NoListener, Resubmit, QueueCallback, SkipListener,
     ListenersDone, ReaderExit
<1>8. CASE Destroy \/ StartCallback \/ EndCallback \/ NodeEvent
  BY <1>6, <1>8 DEF Destroy, StartCallback, EndCallback, NodeEvent
<1> QED
  BY <1>1, <1>2, <1>3, <1>4, <1>5, <1>7, <1>8 DEF Reader

LEMMA NextIInv == IInv /\ [Next]_vars => IInv'
<1> SUFFICES ASSUME IInv, [Next]_vars PROVE IInv'
  OBVIOUS
<1>1. ASSUME NEW t \in Clients, NEW k \in Calls(t), Call(t, k[1], k[2]) PROVE IInv'
  BY <1>1, CallStep
<1>2. ASSUME NEW t \in Clients, Client(t) \/ Expire(t) \/ SpuriousWakeup(t) PROVE IInv'
  BY <1>2, ClientSteps
<1>3. CASE UNCHANGED vars
  BY <1>3, OnlyWoken DEF vars, client
<1> QED
  BY <1>1, <1>2, <1>3, OtherSteps DEF Next

-----------------------------------------------------------------------------
(* The types of the messages                                               *)

\* The messages received so far, and the commands on the line.
Received == [type : Types, of : AllCommands \cup {None}, req : Clients \cup {Nobody},
             seq : 0 .. events]
Written  == [type : AllCommands, req : Clients \cup {Nobody}]

\* A busy client has a command.
CallsTyped ==
    /\ mutex \in Clients \cup {Nobody}
    /\ op \in [Clients -> {"send", "nowait", "request", "erase"}]
    /\ cmd \in [Clients -> AllCommands \cup {None}]
    /\ \A t \in Clients : pc[t] # "idle" => cmd[t] \in AllCommands
    /\ ret \in [Clients -> {"NONE", "OK", "ERROR", "NOMESSAGE"}]
    /\ got \in [Clients -> Buffer]

SlotsTyped == slots \in Slots(Buffer)

LineTyped ==
    /\ events \in 0 .. MaxEvents
    /\ toNode \in Seq(Written)
    /\ fromNode \in Seq(Received) /\ Len(fromNode) <= LineLength

\* The reader has a message while it looks for slots and listeners, and nothing else in
\* its hands when it reads.
ReaderTyped ==
    /\ rpc \in ReaderPlaces /\ readerState \in {"RUNNING", "STOPPING"}
    /\ rmsg \in Received \cup {Null}
    /\ rpc \in {"queue1", "retry", "queue2", "bcast", "callbacks"} => rmsg \in Received
    /\ rpc \in {"read", "exit", "stopped"} => rmsg = Null
    /\ rk \in Nat \ {0}
    /\ rpc = "read" => rk = 1
    /\ rpc \in {"bcast", "exit"} => rk \in 1 .. NSlots

CbTyped ==
    /\ cbQueue \in Seq(Received) /\ Len(cbQueue) <= QueueCapacity
    /\ cbMsg \in Message \cup {Null}
    /\ called \in 0 .. events

TInv == IInv /\ CallsTyped /\ SlotsTyped /\ LineTyped /\ ReaderTyped /\ CbTyped

LEMMA ReceivedAreMessages == TInv => Received \subseteq Message
<1> SUFFICES ASSUME TInv PROVE Received \subseteq Message
  OBVIOUS
<1>1. 0 .. events \subseteq 0 .. MaxEvents
  BY LinkAssumption DEF TInv, LineTyped, LinkAssumption
<1> QED
  BY <1>1 DEF Received, Message

LEMMA TypesImply == TInv => TypeOK
<1> SUFFICES ASSUME TInv PROVE TypeOK
  OBVIOUS
<1>1. Received \subseteq Message
  BY ReceivedAreMessages
<1>2. \A t \in Clients : at[t] \in 1 .. NSlots + 1 /\ (InSlot(t) => at[t] <= NSlots)
  BY DEF TInv, IInv, Shape
<1> QED
  BY <1>1, <1>2 DEF TInv, IInv, Shape, Wants, Slots, CallsTyped, SlotsTyped, LineTyped, ReaderTyped,
                    CbTyped, TypeOK

\* Later more messages may have been received.
LEMMA MoreReceived ==
  ASSUME TInv, events' \in 0 .. MaxEvents, events <= events'
  PROVE  Received \subseteq Received' /\ Received' \subseteq Message /\ Seq(Received) \subseteq Seq(Received')
<1>1. Received \subseteq Received' /\ Received' \subseteq Message
  <2>1. 0 .. events \subseteq 0 .. events' /\ 0 .. events' \subseteq 0 .. MaxEvents
    BY LinkAssumption DEF TInv, LineTyped, LinkAssumption
  <2> QED
    BY <2>1 DEF Received, Message
<1> QED
  BY <1>1

LEMMA InitTInv == Init => TInv
<1> SUFFICES ASSUME Init PROVE TInv
  OBVIOUS
<1>1. CallsTyped
  BY DEF Init, CallsTyped, Buffer
<1>2. SlotsTyped
  BY DEF Init, SlotsTyped, Slots, Buffer
<1>3. LineTyped /\ ReaderTyped /\ CbTyped
  BY LinkAssumption DEF Init, LineTyped, ReaderTyped, CbTyped, LinkAssumption, ReaderPlaces
<1> QED
  BY <1>1, <1>2, <1>3, InitIInv DEF TInv

\* An earlier call's mark on a message is taken away.
LEMMA Orphans ==
  ASSUME NEW t \in Clients
  PROVE  /\ \A m \in Buffer : Orphan(m, t) \in Buffer
         /\ \A m \in Received : Orphan(m, t) \in Received
         /\ \A m \in Written : Orphan(m, t) \in Written
         /\ \A m \in Buffer \cup Received :
              /\ Orphan(m, t).type = m.type /\ Orphan(m, t).of = m.of /\ Orphan(m, t).seq = m.seq
              /\ m.req = Nobody => Orphan(m, t) = m
<1>1. Nobody # t
  BY LinkAssumption DEF LinkAssumption
<1>2. \A m \in Received : Orphan(m, t) \in Received
  BY DEF Orphan, Received
<1>3. \A m \in Message : Orphan(m, t) \in Message
  BY DEF Orphan, Message
<1>4. \A m \in Written : Orphan(m, t) \in Written
  BY DEF Orphan, Written
<1>5. \A m : m.req = Nobody => Orphan(m, t) = m
  BY <1>1 DEF Orphan
<1>6. \A m \in Buffer \ Message : m.req = Nobody
  BY DEF Buffer, Null, Dangling, Stack, Pointer
<1>7. \A m \in Message \cup Received :
        Orphan(m, t).type = m.type /\ Orphan(m, t).of = m.of /\ Orphan(m, t).seq = m.seq
  BY DEF Orphan, Message, Received
<1>8. Message \subseteq Buffer
  BY DEF Buffer
<1> QED
  BY <1>2, <1>3, <1>4, <1>5, <1>6, <1>7, <1>8

\* A wait ends.
LEMMA EndTyped ==
  ASSUME TInv, NEW t \in Clients, NEW r \in {"OK", "ERROR", "NOMESSAGE"}, NEW b \in Buffer,
         EndWait(t, r, b), pc[t] # "idle"
  PROVE  CallsTyped'
<1>1. PICK w \in Follows(t, r) :
        IF w # None
           THEN pc' = [pc EXCEPT ![t] = "scan"] /\ UNCHANGED <<ret, got>>
           ELSE /\ pc' = [pc EXCEPT ![t] = "idle"]
                /\ ret' = [ret EXCEPT ![t] = r] /\ got' = [got EXCEPT ![t] = b]
  BY DEF EndWait
<1>2. UNCHANGED <<op, cmd>> /\ mutex' \in {mutex, Nobody}
  BY DEF EndWait
<1>3. pc \in [Clients -> ClientPlaces]
  BY DEF TInv, IInv, Shape
<1>4. \A u \in Clients : pc'[u] # "idle" => pc[u] # "idle"
  BY <1>1, <1>3
<1> QED
  BY <1>1, <1>2, <1>4 DEF TInv, CallsTyped

LEMMA CallsTypedStep ==
  ASSUME TInv, [Next]_vars
  PROVE  CallsTyped'
<1>1. pc \in [Clients -> ClientPlaces] /\ SlotsTyped /\ {Null} \subseteq Buffer
  BY DEF TInv, IInv, Shape, Buffer
\* Nobody begins.
<1>2. ASSUME UNCHANGED <<op, cmd, ret, got>>, mutex' \in Clients \cup {Nobody},
             \A t \in Clients : pc'[t] # "idle" => pc[t] # "idle"
      PROVE  CallsTyped'
  BY <1>2 DEF TInv, CallsTyped
<1>3. CallsTyped
  BY DEF TInv
<1>4. ASSUME NEW t \in Clients, NEW k \in Calls(t), Call(t, k[1], k[2]) PROVE CallsTyped'
  <2>1. k[1] \in {"send", "nowait", "request", "erase"} /\ k[2] \in AllCommands
    BY DEF Calls, AllCommands
  <2>2. /\ pc' = [pc EXCEPT ![t] = "send"] /\ op' = [op EXCEPT ![t] = k[1]]
        /\ cmd' = [cmd EXCEPT ![t] = k[2]] /\ ret' = [ret EXCEPT ![t] = "NONE"]
        /\ got' = [got EXCEPT ![t] = Null] /\ UNCHANGED mutex
    BY <1>4 DEF Call
  <2> QED
    BY <1>1, <1>3, <2>1, <2>2 DEF CallsTyped
<1>5. ASSUME NEW t \in Clients, LockLink(t) \/ NextSlot(t) \/ TakeSlot(t) \/ Expire(t) \/ SpuriousWakeup(t)
      PROVE  CallsTyped'
  BY <1>1, <1>2, <1>3, <1>5 DEF LockLink, NextSlot, TakeSlot, Expire, SpuriousWakeup, CallsTyped
<1>6. ASSUME NEW t \in Clients, WriteMessage(t) PROVE CallsTyped'
  BY <1>1, <1>3, <1>6 DEF WriteMessage, CallsTyped
<1>7. ASSUME NEW t \in Clients, BadDeadline(t) \/ NoFreeSlot(t) \/ TimedOut(t) PROVE CallsTyped'
  BY <1>1, <1>7, EndTyped DEF BadDeadline, NoFreeSlot, TimedOut, Expired
<1>8. ASSUME NEW t \in Clients, Woken(t) PROVE CallsTyped'
  <2>1. pc[t] = "woken" /\ EndWait(t, "OK", slots[at[t]].pu8Message)
    BY <1>8 DEF Woken
  <2>2. at[t] \in 1 .. NSlots
    BY <2>1 DEF TInv, IInv, Shape, InSlot
  <2>3. slots[at[t]].pu8Message \in Buffer
    BY <1>1, <2>2 DEF SlotsTyped, Slots
  <2> QED
    BY <2>1, <2>3, EndTyped
<1>9. ASSUME UNCHANGED <<mutex, pc, op, cmd, ret, got>> PROVE CallsTyped'
  BY <1>3, <1>9 DEF CallsTyped
<1>10. CASE BroadcastSlot \/ ClearSlot
  BY <1>1, <1>2, <1>3, <1>10 DEF BroadcastSlot, ClearSlot, Wake, CallsTyped
<1>11. CASE UNCHANGED vars \/ NodeAnswer \/ NodeEvent \/ StartCallback \/ EndCallback \/ Destroy
  BY <1>9, <1>11 DEF vars, client, NodeAnswer, NodeEvent, StartCallback, EndCallback, Destroy
<1>12. CASE Reader /\ ~BroadcastSlot /\ ~ClearSlot
  BY <1>9, <1>12 DEF Reader, client, ReadMessage, Deliver, TryNextSlot, NoListener, DeliverNoMem,
     Resubmit, QueueCallback, SkipListener, ListenersDone, ReaderExit
<1> QED
  BY <1>4, <1>5, <1>6, <1>7, <1>8, <1>10, <1>11, <1>12 DEF Next, Client


LEMMA SlotsTypedStep ==
  ASSUME TInv, [Next]_vars
  PROVE  SlotsTyped'
<1>1. /\ SlotsTyped /\ pc \in [Clients -> ClientPlaces]
      /\ {Null, Dangling} \subseteq Buffer /\ Message \subseteq Buffer
  BY DEF TInv, IInv, Shape, Buffer
\* A pointer, a type or a lock is written.
<1>2. ASSUME NEW k, NEW m \in Buffer, slots' = [slots EXCEPT ![k].pu8Message = m]
      PROVE  SlotsTyped'
  BY <1>1, <1>2 DEF SlotsTyped, Slots
<1>3. ASSUME NEW k, NEW ty \in Types \cup {Free}, NEW m \in Buffer,
             slots' = [slots EXCEPT ![k].u16Type = ty, ![k].pu8Message = m]
      PROVE  SlotsTyped'
  BY <1>1, <1>3 DEF SlotsTyped, Slots
<1>4. ASSUME NEW k, slots' = [slots EXCEPT ![k].u16Type = Free]
      PROVE  SlotsTyped'
  BY <1>1, <1>4 DEF SlotsTyped, Slots
<1>5. ASSUME NEW k, slots' = [slots EXCEPT ![k].locked = TRUE]
      PROVE  SlotsTyped'
  BY <1>1, <1>5 DEF SlotsTyped, Slots
<1>6. ASSUME NEW t \in Clients, pc[t] = "scan", at[t] \in 1 .. NSlots
      PROVE  /\ Registered(t, slots[at[t]].pu8Message) \in Buffer
             /\ SlotType(t) \in Types \cup {Free}
  <2>1. cmd[t] \in AllCommands /\ want[t] \in Wants /\ slots[at[t]].pu8Message \in Buffer
    BY <1>6 DEF TInv, CallsTyped, IInv, Shape, SlotsTyped, Slots
  <2>2. Stack(cmd[t]) \in Buffer
    BY <2>1 DEF Buffer
  <2> QED
    BY <1>1, <2>1, <2>2 DEF Registered, SlotType, Wants, Types
<1>7. ASSUME NEW t \in Clients, NEW k \in Calls(t), Call(t, k[1], k[2]) PROVE SlotsTyped'
  <2>1. slots' = [i \in DOMAIN slots |-> [slots[i] EXCEPT !.pu8Message = Orphan(@, t)]]
    BY <1>7 DEF Call, Disown
  <2>2. \A i \in 1 .. NSlots : Orphan(slots[i].pu8Message, t) \in Buffer
    BY <1>1, Orphans DEF SlotsTyped, Slots
  <2> QED
    BY <1>1, <2>1, <2>2 DEF SlotsTyped, Slots
<1>8. ASSUME NEW t \in Clients, LockLink(t) \/ WriteMessage(t) \/ NextSlot(t) \/ NoFreeSlot(t)
                                \/ Expire(t) \/ SpuriousWakeup(t)
      PROVE  SlotsTyped'
  BY <1>1, <1>8 DEF LockLink, WriteMessage, NextSlot, NoFreeSlot, Expire, SpuriousWakeup, SlotsTyped
<1>9. ASSUME NEW t \in Clients, TakeSlot(t) PROVE SlotsTyped'
  <2>1. /\ pc[t] = "scan" /\ at[t] \in 1 .. NSlots
        /\ slots' = [slots EXCEPT ![at[t]].u16Type = SlotType(t),
                                  ![at[t]].pu8Message = Registered(t, slots[at[t]].pu8Message)]
    BY <1>1, <1>9 DEF TakeSlot, SlotsTyped, Slots
  <2> QED
    BY <1>3, <1>6, <2>1
<1>10. ASSUME NEW t \in Clients, BadDeadline(t) PROVE SlotsTyped'
  <2>1. /\ pc[t] = "scan" /\ at[t] \in 1 .. NSlots
        /\ slots' = [slots EXCEPT ![at[t]].pu8Message = Registered(t, slots[at[t]].pu8Message)]
    BY <1>1, <1>10 DEF BadDeadline, SlotsTyped, Slots
  <2> QED
    BY <1>2, <1>6, <2>1
<1>11. ASSUME NEW t \in Clients, Woken(t) PROVE SlotsTyped'
  BY <1>1, <1>3, <1>11 DEF Woken
<1>12. ASSUME NEW t \in Clients, TimedOut(t) PROVE SlotsTyped'
  BY <1>4, <1>12 DEF TimedOut
<1>13. CASE Deliver
  <2>1. rmsg \in Received /\ slots' = [slots EXCEPT ![rk].pu8Message = rmsg]
    BY <1>13 DEF Deliver, Offering, TInv, ReaderTyped
  <2>2. rmsg \in Buffer
    BY <1>1, <2>1, ReceivedAreMessages
  <2> QED
    BY <1>2, <2>1, <2>2
<1>14. CASE DeliverNoMem
  BY <1>5, <1>14 DEF DeliverNoMem
<1>15. CASE ClearSlot
  BY <1>1, <1>2, <1>15 DEF ClearSlot
<1>16. ASSUME UNCHANGED slots PROVE SlotsTyped'
  BY <1>1, <1>16 DEF SlotsTyped
<1>17. CASE UNCHANGED vars \/ NodeAnswer \/ NodeEvent \/ StartCallback \/ EndCallback \/ Destroy
  BY <1>16, <1>17 DEF vars, NodeAnswer, NodeEvent, StartCallback, EndCallback, Destroy
<1>18. CASE Reader /\ ~Deliver /\ ~DeliverNoMem /\ ~ClearSlot
  BY <1>16, <1>18 DEF Reader, ReadMessage, TryNextSlot, NoListener, BroadcastSlot,
     Resubmit, QueueCallback, SkipListener, ListenersDone, ReaderExit
<1> QED
  BY <1>7, <1>8, <1>9, <1>10, <1>11, <1>12, <1>13, <1>14, <1>15, <1>17, <1>18 DEF Next, Client

\* Marks are taken from all the messages of a sequence.
LEMMA OrphanedSeq ==
  ASSUME NEW t \in Clients, NEW S, \A m \in S : Orphan(m, t) \in S, NEW q \in Seq(S),
         NEW r, r = [i \in DOMAIN q |-> Orphan(q[i], t)]
  PROVE  /\ r \in Seq(S) /\ Len(r) = Len(q)
         /\ \A i \in 1 .. Len(q) : r[i] = Orphan(q[i], t)
<1>1. DOMAIN q = 1 .. Len(q) /\ Len(q) \in Nat /\ \A i \in 1 .. Len(q) : q[i] \in S
  OBVIOUS
<1>2. r \in [1 .. Len(q) -> S]
  BY <1>1
<1>3. r \in Seq(S)
  BY <1>1, <1>2
<1> QED
  BY <1>1, <1>2, <1>3

LEMMA LineTypedStep ==
  ASSUME TInv, [Next]_vars
  PROVE  LineTyped' /\ events <= events'
<1>1. LineTyped /\ events \in Nat /\ Received \subseteq Message /\ LineLength \in Nat
  BY LinkAssumption, ReceivedAreMessages DEF TInv, LineTyped, LinkAssumption
<1>2. UNCHANGED events => Received' = Received
  BY DEF Received
<1>3. Written' = Written
  BY DEF Written
<1>4. ASSUME UNCHANGED <<toNode, fromNode, events>> PROVE LineTyped' /\ events <= events'
  BY <1>1, <1>2, <1>3, <1>4 DEF LineTyped
<1>5. ASSUME NEW t \in Clients, NEW k \in Calls(t), Call(t, k[1], k[2])
      PROVE  LineTyped' /\ events <= events'
  <2>1. /\ toNode' = [i \in DOMAIN toNode |-> Orphan(toNode[i], t)]
        /\ fromNode' = [i \in DOMAIN fromNode |-> Orphan(fromNode[i], t)]
        /\ UNCHANGED events
    BY <1>5 DEF Call, Disown
  <2>2. toNode' \in Seq(Written)
    BY <1>1, <2>1, Orphans, OrphanedSeq DEF LineTyped
  <2>3. fromNode' \in Seq(Received) /\ Len(fromNode') = Len(fromNode)
    BY <1>1, <2>1, Orphans, OrphanedSeq DEF LineTyped
  <2> QED
    BY <1>1, <1>2, <1>3, <2>1, <2>2, <2>3 DEF LineTyped
<1>6. ASSUME NEW t \in Clients, WriteMessage(t) PROVE LineTyped' /\ events <= events'
  <2> DEFINE m == [type |-> cmd[t], req |-> IF op[t] = "nowait" THEN Nobody ELSE t]
  <2>1. pc[t] = "write" /\ toNode' = Append(toNode, m) /\ UNCHANGED <<fromNode, events>>
    BY <1>6 DEF WriteMessage
  <2>2. m \in Written
    BY <2>1 DEF TInv, CallsTyped, Written
  <2> HIDE DEF m
  <2> QED
    BY <1>1, <1>2, <1>3, <2>1, <2>2 DEF LineTyped
<1>7. CASE NodeAnswer
  <2> DEFINE k(a) == IF Len(a) <= LineLength - Len(fromNode) THEN Len(a) ELSE LineLength - Len(fromNode)
  <2>1. PICK a \in Answers(Head(toNode)) : fromNode' = fromNode \o SubSeq(a, 1, k(a))
    BY <1>7 DEF NodeAnswer
  <2>2. toNode # <<>> /\ toNode' = Tail(toNode) /\ UNCHANGED events
    BY <1>7 DEF NodeAnswer
  <2>3. Head(toNode) \in Written /\ toNode' \in Seq(Written)
    BY <1>1, <2>2 DEF LineTyped
  <2>4. Status(Head(toNode)) \in Received /\ Response(Head(toNode)) \in Received
    BY <1>1, <2>3 DEF Status, Response, Written, Received, Types
  <2>5. a \in Seq(Received)
    <3> DEFINE s == Status(Head(toNode))
               r == Response(Head(toNode))
    <3>1. a = <<s>> \/ a = <<s, r>> \/ a = <<>>
      BY DEF Answers
    <3> HIDE DEF s, r
    <3>2. s \in Received /\ r \in Received
      BY <2>4 DEF s, r
    <3>3. <<s>> \in Seq(Received) /\ <<s, r>> \in Seq(Received) /\ <<>> \in Seq(Received)
      BY <3>2
    <3> QED
      BY <3>1, <3>3
  <2>6. k(a) \in Int /\ Len(a) \in Nat /\ Len(fromNode) \in Nat /\ k(a) <= Len(a)
        /\ k(a) <= LineLength - Len(fromNode)
    BY <1>1, <2>5 DEF LineTyped
  <2>7. \A i \in 1 .. k(a) : a[i] \in Received
    BY <2>5, <2>6
  <2> HIDE DEF k
  <2>8. SubSeq(a, 1, k(a)) \in Seq(Received)
        /\ Len(SubSeq(a, 1, k(a))) = IF 1 <= k(a) THEN k(a) - 1 + 1 ELSE 0
    BY <2>6, <2>7, SubSeqProperties
  <2>9. fromNode' \in Seq(Received) /\ Len(fromNode') = Len(fromNode) + Len(SubSeq(a, 1, k(a)))
    BY <1>1, <2>1, <2>8, ConcatProperties DEF LineTyped
  <2>10. Len(fromNode') <= LineLength
    BY <1>1, <2>6, <2>8, <2>9 DEF LineTyped
  <2> QED
    <3>1. Received' = Received /\ events' \in 0 .. MaxEvents /\ events <= events'
      BY <1>1, <1>2, <2>2 DEF LineTyped
    <3> QED
      BY <1>3, <2>3, <2>9, <2>10, <3>1 DEF LineTyped
<1>8. CASE NodeEvent
  <2>1. PICK ty \in Reports :
          fromNode' = Append(fromNode, [type |-> ty, of |-> None, req |-> Nobody, seq |-> events + 1])
    BY <1>8 DEF NodeEvent
  <2>2. events < MaxEvents /\ events' = events + 1 /\ Len(fromNode) < LineLength /\ UNCHANGED toNode
    BY <1>8 DEF NodeEvent
  <2>3. events' \in 0 .. MaxEvents /\ events <= events'
    BY <1>1, <2>2, LinkAssumption DEF LinkAssumption
  <2>4. fromNode \in Seq(Received')
    BY <1>1, <2>3, MoreReceived DEF LineTyped
  <2>5. [type |-> ty, of |-> None, req |-> Nobody, seq |-> events + 1] \in Received'
    BY <1>1, <2>2, <2>3, LinkAssumption DEF Received, Types, LinkAssumption
  <2>6. fromNode' \in Seq(Received') /\ Len(fromNode') = Len(fromNode) + 1
    BY <2>1, <2>4, <2>5, AppendProperties
  <2>7. Len(fromNode') <= LineLength
    BY <1>1, <2>2, <2>6 DEF LineTyped
  <2> QED
    BY <1>1, <1>3, <2>2, <2>3, <2>6, <2>7 DEF LineTyped
<1>9. CASE ReadMessage
  <2>1. fromNode # <<>> /\ fromNode' = Tail(fromNode) /\ UNCHANGED <<toNode, events>>
    BY <1>9 DEF ReadMessage
  <2>2. fromNode' \in Seq(Received) /\ Len(fromNode') = Len(fromNode) - 1
    BY <1>1, <2>1, HeadTailProperties DEF LineTyped
  <2>3. Len(fromNode') <= LineLength
    BY <1>1, <2>2 DEF LineTyped
  <2> QED
    BY <1>1, <1>2, <1>3, <2>1, <2>2, <2>3 DEF LineTyped
<1>10. ASSUME NEW t \in Clients, Client(t) \/ Expire(t) \/ SpuriousWakeup(t), ~WriteMessage(t)
       PROVE  LineTyped' /\ events <= events'
  BY <1>4, <1>10 DEF Client, LockLink, TakeSlot, BadDeadline, NextSlot, NoFreeSlot, Woken, TimedOut,
     Expire, SpuriousWakeup, line
<1>11. CASE UNCHANGED vars \/ StartCallback \/ EndCallback \/ Destroy
  BY <1>4, <1>11 DEF vars, line, StartCallback, EndCallback, Destroy
<1>12. CASE Reader /\ ~ReadMessage
  BY <1>4, <1>12 DEF Reader, line, Deliver, TryNextSlot, NoListener, DeliverNoMem, BroadcastSlot,
     Resubmit, QueueCallback, SkipListener, ListenersDone, ReaderExit, ClearSlot
<1> QED
  BY <1>5, <1>6, <1>7, <1>8, <1>9, <1>10, <1>11, <1>12 DEF Next


LEMMA ReaderTypedStep ==
  ASSUME TInv, [Next]_vars
  PROVE  ReaderTyped'
<1>1. /\ LineTyped /\ ReaderTyped /\ CbTyped /\ Received \subseteq Received'
      /\ Len(Listeners) \in Nat /\ NSlots \in Nat \ {0} /\ Null \in Buffer
  BY LinkAssumption, LineTypedStep, MoreReceived
     DEF TInv, LineTyped, LinkAssumption, Buffer
<1>2. ASSUME UNCHANGED reader PROVE ReaderTyped'
  BY <1>1, <1>2 DEF ReaderTyped, reader
<1>3. ASSUME NEW t \in Clients, NEW k \in Calls(t), Call(t, k[1], k[2]) PROVE ReaderTyped'
  <2>1. rmsg' = Orphan(rmsg, t) /\ UNCHANGED <<rpc, rk, readerState>>
    BY <1>3 DEF Call, Disown
  <2>2. Orphan(Null, t) = Null
    BY <1>1, Orphans DEF Null, Pointer
  <2>3. \A m \in Received : Orphan(m, t) \in Received
    BY Orphans
  <2> QED
    BY <1>1, <2>1, <2>2, <2>3 DEF ReaderTyped
<1>4. CASE ReadMessage
  <2>1. rmsg' \in Received
    BY <1>1, <1>4, HeadTailProperties DEF ReadMessage, LineTyped
  <2> QED
    BY <1>1, <1>4, <2>1 DEF ReadMessage, ReaderTyped, ReaderPlaces
<1>5. CASE Deliver \/ TryNextSlot
  <2>1. rpc \in {"queue1", "queue2"} /\ rk <= NSlots /\ rk \in 1 .. NSlots
    BY <1>1, <1>5 DEF Deliver, TryNextSlot, Offering, ReaderTyped
  <2> QED
    BY <1>1, <1>5, <2>1 DEF Deliver, TryNextSlot, ReaderTyped, ReaderPlaces
<1>6. CASE NoListener \/ DeliverNoMem \/ Resubmit
  BY <1>1, <1>6 DEF NoListener, DeliverNoMem, Offering, Resubmit, ReaderTyped, ReaderPlaces
<1>7. CASE BroadcastSlot \/ QueueCallback \/ SkipListener \/ ListenersDone
  BY <1>1, <1>7 DEF BroadcastSlot, QueueCallback, SkipListener, ListenersDone, ReaderTyped, ReaderPlaces
<1>8. CASE ReaderExit \/ ClearSlot
  BY <1>1, <1>8 DEF ReaderExit, ClearSlot, ReaderTyped, ReaderPlaces
<1>9. CASE Destroy
  BY <1>1, <1>9 DEF Destroy, ReaderTyped
<1>10. ASSUME NEW t \in Clients, Client(t) \/ Expire(t) \/ SpuriousWakeup(t)
       PROVE  ReaderTyped'
  BY <1>2, <1>10 DEF Client, LockLink, WriteMessage, TakeSlot, BadDeadline, NextSlot, NoFreeSlot, Woken,
     TimedOut, Expire, SpuriousWakeup
<1>11. CASE UNCHANGED vars \/ StartCallback \/ EndCallback \/ NodeAnswer \/ NodeEvent
  BY <1>2, <1>11 DEF vars, StartCallback, EndCallback, NodeAnswer, NodeEvent
<1> QED
  BY <1>3, <1>4, <1>5, <1>6, <1>7, <1>8, <1>9, <1>10, <1>11 DEF Next, Reader

LEMMA CbTypedStep ==
  ASSUME TInv, [Next]_vars
  PROVE  CbTyped'
<1>1. /\ CbTyped /\ Received \subseteq Received' /\ Seq(Received) \subseteq Seq(Received')
      /\ Received \subseteq Message /\ events <= events' /\ events \in Nat /\ events' \in Nat
  BY LinkAssumption, LineTypedStep, MoreReceived, ReceivedAreMessages
     DEF TInv, LineTyped, LinkAssumption
<1>2. ASSUME UNCHANGED cb PROVE CbTyped'
  BY <1>1, <1>2 DEF CbTyped, cb
<1>3. CASE QueueCallback
  <2>1. rmsg \in Received /\ cbQueue' = Append(cbQueue, rmsg) /\ Len(cbQueue) < QueueCapacity
        /\ UNCHANGED <<cbMsg, called>> /\ QueueCapacity \in Nat
    BY <1>3, LinkAssumption DEF QueueCallback, TInv, ReaderTyped, LinkAssumption
  <2>2. cbQueue' \in Seq(Received) /\ Len(cbQueue') = Len(cbQueue) + 1
    BY <1>1, <2>1, AppendProperties DEF CbTyped
  <2>3. Len(cbQueue') <= QueueCapacity
    BY <1>1, <2>1, <2>2 DEF CbTyped
  <2> QED
    BY <1>1, <2>1, <2>2, <2>3 DEF CbTyped
<1>4. CASE StartCallback
  <2>1. /\ cbQueue # <<>> /\ cbMsg' = Head(cbQueue) /\ cbQueue' = Tail(cbQueue)
        /\ called' = IF cbMsg'.seq > 0 THEN cbMsg'.seq ELSE called
    BY <1>4 DEF StartCallback
  <2>2. cbMsg' \in Received /\ cbQueue' \in Seq(Received) /\ Len(cbQueue') = Len(cbQueue) - 1
    BY <1>1, <2>1, HeadTailProperties DEF CbTyped
  <2>3. cbMsg'.seq \in 0 .. events
    BY <2>2 DEF Received
  <2>4. called' \in 0 .. events'
    BY <1>1, <2>1, <2>3 DEF CbTyped
  <2>5. Len(cbQueue') <= QueueCapacity
    BY <1>1, <2>2, LinkAssumption DEF CbTyped, LinkAssumption
  <2> QED
    BY <1>1, <2>2, <2>4, <2>5 DEF CbTyped
<1>5. CASE EndCallback
  BY <1>1, <1>5 DEF EndCallback, CbTyped
<1>6. CASE Reader /\ ~QueueCallback
  BY <1>2, <1>6 DEF Reader, ReadMessage, Deliver, TryNextSlot, NoListener, DeliverNoMem, BroadcastSlot,
     Resubmit, SkipListener, ListenersDone, ReaderExit, ClearSlot
<1>7. ASSUME NEW t \in Clients, Client(t) \/ Expire(t) \/ SpuriousWakeup(t)
      PROVE  CbTyped'
  BY <1>2, <1>7 DEF Client, LockLink, WriteMessage, TakeSlot, BadDeadline, NextSlot, NoFreeSlot, Woken,
     TimedOut, Expire, SpuriousWakeup
<1>8. CASE UNCHANGED vars \/ NodeAnswer \/ NodeEvent \/ Destroy
  BY <1>2, <1>8 DEF vars, NodeAnswer, NodeEvent, Destroy
<1>9. ASSUME NEW t \in Clients, NEW k \in Calls(t), Call(t, k[1], k[2]) PROVE CbTyped'
  BY <1>2, <1>9 DEF Call
<1> QED
  BY <1>3, <1>4, <1>5, <1>6, <1>7, <1>8, <1>9 DEF Next

LEMMA NextTInv == TInv /\ [Next]_vars => TInv'
<1> SUFFICES ASSUME TInv, [Next]_vars PROVE TInv'
  OBVIOUS
<1>1. IInv'
  BY NextIInv DEF TInv
<1> QED
  BY <1>1, CallsTypedStep, SlotsTypedStep, LineTypedStep, ReaderTypedStep, CbTypedStep DEF TInv


-----------------------------------------------------------------------------
(* While timeouts are patient: the status in a slot is the one its waiter  *)
(* waits for                                                               *)

\* A client that waits for its status finds its own status structure in its slot, or a
\* status of its command; nothing only when the reader has cleared the slots.
OwnStatus(t) ==
    LET m == slots[at[t]].pu8Message
    IN  \/ m = Stack(cmd[t])
        \/ m.type = "STATUS" /\ m.of = cmd[t]
        \/ m = Null /\ rpc \in {"exit", "stopped"}
WaitersMatch == \A t \in Clients : InSlot(t) /\ want[t] = "STATUS" => OwnStatus(t)

\* A status is only in a slot for statuses, and until its waiter has taken it: the waiter
\* is woken or about to be.
Announced(i) == \/ rpc = "bcast" /\ rk = i
                \/ \A t \in Clients : InSlot(t) /\ at[t] = i => pc[t] = "woken"
NoStaleStatus ==
    \A i \in 1 .. NSlots :
        slots[i].pu8Message.type = "STATUS" => slots[i].u16Type = "STATUS" /\ Announced(i)

Patient == \A t \in Clients : pc[t] # "expired"

\* What a call has got so far, and what it returned.
CallsMatch ==
    /\ \A t \in Clients : /\ want[t] = "ANYSTATUS" => op[t] = "erase"
                          /\ pc[t] # "idle" => got[t] = Null
    /\ StatusMatchesCommand

MInv == TInv /\ WaitersMatch /\ NoStaleStatus /\ Patient /\ CallsMatch

LEMMA PointersDiffer ==
  /\ \A c : Stack(c).type = "STACK" /\ Stack(c) # Null /\ Stack(c).req = Nobody
  /\ \A c, d : Stack(c) = Stack(d) => c = d
  /\ Null.type = "NULL" /\ Dangling.type = "DANGLING" /\ Null.req = Nobody /\ Dangling.req = Nobody
BY DEF Stack, Null, Dangling, Pointer

LEMMA InitMInv == Init => MInv
<1> SUFFICES ASSUME Init PROVE MInv
  OBVIOUS
<1>1. WaitersMatch /\ Patient
  BY DEF Init, WaitersMatch, Patient, InSlot
<1>2. NoStaleStatus
  BY PointersDiffer DEF Init, NoStaleStatus
<1>3. CallsMatch
  BY PointersDiffer DEF Init, CallsMatch, StatusMatchesCommand
<1> QED
  BY <1>1, <1>2, <1>3, InitTInv DEF MInv

-----------------------------------------------------------------------------
(* The calls                                                               *)

LEMMA CallsMatchKept ==
  ASSUME CallsMatch, UNCHANGED <<op, cmd, want, ret, got>>,
         \A t \in Clients : pc'[t] # "idle" => pc[t] # "idle"
  PROVE  CallsMatch'
BY DEF CallsMatch, StatusMatchesCommand

\* A wait ends, not well or with a buffer the caller may take for its status.
LEMMA CallsMatchEnd ==
  ASSUME TInv, CallsMatch, NEW t \in Clients, NEW r, NEW b, EndWait(t, r, b), pc[t] # "idle",
         r = "OK" /\ op[t] # "erase" /\ b.type = "STATUS" => b.of = cmd[t]
  PROVE  CallsMatch'
<1>1. PICK w \in Follows(t, r) :
        IF w # None
           THEN /\ pc' = [pc EXCEPT ![t] = "scan"] /\ want' = [want EXCEPT ![t] = w]
                /\ UNCHANGED <<ret, got>>
           ELSE /\ pc' = [pc EXCEPT ![t] = "idle"] /\ UNCHANGED want
                /\ ret' = [ret EXCEPT ![t] = r] /\ got' = [got EXCEPT ![t] = b]
  BY DEF EndWait
<1>2. UNCHANGED <<op, cmd>>
  BY DEF EndWait
<1>3. w # None /\ w = "ANYSTATUS" => op[t] = "erase"
  BY DEF Follows
<1>4. /\ pc \in [Clients -> ClientPlaces] /\ want \in [Clients -> Wants]
      /\ ret \in [Clients -> {"NONE", "OK", "ERROR", "NOMESSAGE"}] /\ got \in [Clients -> Buffer]
  BY DEF TInv, IInv, Shape, CallsTyped
<1>5. CASE w # None
  <2>1. UNCHANGED <<ret, got>> /\ \A u \in Clients : u # t => pc'[u] = pc[u] /\ want'[u] = want[u]
    BY <1>1, <1>4, <1>5
  <2>2. want'[t] = w
    BY <1>1, <1>4, <1>5
  <2> QED
    BY <1>2, <1>3, <1>5, <2>1, <2>2 DEF CallsMatch, StatusMatchesCommand
<1>6. CASE w = None
  <2>1. /\ UNCHANGED want /\ pc'[t] = "idle" /\ ret'[t] = r /\ got'[t] = b
        /\ \A u \in Clients : u # t => pc'[u] = pc[u] /\ ret'[u] = ret[u] /\ got'[u] = got[u]
    BY <1>1, <1>4, <1>6
  <2> QED
    BY <1>2, <2>1 DEF CallsMatch, StatusMatchesCommand
<1> QED
  BY <1>5, <1>6

LEMMA CallsMatchStep ==
  ASSUME MInv, [Next]_vars
  PROVE  CallsMatch'
<1>1. /\ TInv /\ CallsMatch /\ pc \in [Clients -> ClientPlaces] /\ CallsTyped /\ want \in [Clients -> Wants]
  BY DEF MInv, TInv, IInv, Shape
<1>2. ASSUME NEW t \in Clients, NEW k \in Calls(t), Call(t, k[1], k[2]) PROVE CallsMatch'
  <2>1. /\ pc' = [pc EXCEPT ![t] = "send"] /\ op' = [op EXCEPT ![t] = k[1]]
        /\ cmd' = [cmd EXCEPT ![t] = k[2]] /\ ret' = [ret EXCEPT ![t] = "NONE"]
        /\ want' = [want EXCEPT ![t] = "STATUS"] /\ got' = [got EXCEPT ![t] = Null]
    BY <1>2 DEF Call
  <2>2. /\ want'[t] = "STATUS" /\ ret'[t] = "NONE" /\ got'[t] = Null
        /\ \A u \in Clients : u # t => /\ pc'[u] = pc[u] /\ op'[u] = op[u] /\ cmd'[u] = cmd[u]
                                       /\ ret'[u] = ret[u] /\ want'[u] = want[u] /\ got'[u] = got[u]
    BY <1>1, <2>1 DEF CallsTyped
  <2> QED
    BY <1>1, <2>2 DEF CallsMatch, StatusMatchesCommand
<1>3. ASSUME NEW t \in Clients, WriteMessage(t) PROVE CallsMatch'
  <2>1. /\ pc[t] = "write" /\ pc' \in {[pc EXCEPT ![t] = "idle"], [pc EXCEPT ![t] = "scan"]}
        /\ UNCHANGED <<op, cmd, want, got>>
        /\ ret' = ret \/ ret' = [ret EXCEPT ![t] = "OK"]
    BY <1>3 DEF WriteMessage
  <2>2. got[t] = Null /\ \A u \in Clients : u # t => pc'[u] = pc[u] /\ ret'[u] = ret[u]
    BY <1>1, <2>1 DEF CallsMatch, CallsTyped
  <2> QED
    BY <1>1, <2>1, <2>2, PointersDiffer DEF CallsMatch, StatusMatchesCommand
<1>4. ASSUME NEW t \in Clients, BadDeadline(t) \/ NoFreeSlot(t) \/ TimedOut(t) PROVE CallsMatch'
  <2>1. pc[t] # "idle" /\ (EndWait(t, "ERROR", Null) \/ EndWait(t, "NOMESSAGE", Null))
    BY <1>4 DEF BadDeadline, NoFreeSlot, TimedOut, Expired
  <2> QED
    BY <1>1, <2>1, CallsMatchEnd
<1>5. ASSUME NEW t \in Clients, Woken(t) PROVE CallsMatch'
  <2> DEFINE b == slots[at[t]].pu8Message
  <2>1. pc[t] = "woken" /\ InSlot(t) /\ EndWait(t, "OK", b)
    BY <1>5 DEF Woken, InSlot
  <2>2. at[t] \in 1 .. NSlots /\ slots[at[t]].u16Type = SlotType(t)
    BY <2>1 DEF MInv, TInv, IInv, Shape, SlotOwnership
  <2>3. op[t] # "erase" /\ b.type = "STATUS" => b.of = cmd[t]
    <3>1. CASE want[t] = "STATUS"
      BY <2>1, <3>1, PointersDiffer DEF MInv, WaitersMatch, OwnStatus
    <3>2. CASE want[t] = "RESPONSE"
      BY <2>2, <3>2 DEF MInv, NoStaleStatus, SlotType
    <3>3. CASE want[t] = "ANYSTATUS"
      BY <3>3 DEF MInv, CallsMatch
    <3> QED
      BY <1>1, <3>1, <3>2, <3>3 DEF Wants
  <2> HIDE DEF b
  <2> QED
    BY <1>1, <2>1, <2>3, CallsMatchEnd
<1>6. ASSUME NEW t \in Clients, LockLink(t) \/ NextSlot(t) \/ TakeSlot(t) \/ Expire(t) \/ SpuriousWakeup(t)
      PROVE  CallsMatch'
  <2>1. UNCHANGED <<op, cmd, want, ret, got>> /\ \A u \in Clients : pc'[u] # "idle" => pc[u] # "idle"
    BY <1>1, <1>6 DEF LockLink, NextSlot, TakeSlot, Expire, SpuriousWakeup
  <2> QED
    BY <1>1, <2>1, CallsMatchKept
<1>7. CASE BroadcastSlot \/ ClearSlot
  <2>1. UNCHANGED <<op, cmd, want, ret, got>> /\ \A u \in Clients : pc'[u] # "idle" => pc[u] # "idle"
    BY <1>1, <1>7 DEF BroadcastSlot, ClearSlot, Wake
  <2> QED
    BY <1>1, <2>1, CallsMatchKept
<1>8. ASSUME UNCHANGED <<pc, op, cmd, want, ret, got>> PROVE CallsMatch'
  BY <1>1, <1>8, CallsMatchKept
<1>9. CASE UNCHANGED vars \/ NodeAnswer \/ NodeEvent \/ StartCallback \/ EndCallback \/ Destroy
  BY <1>8, <1>9 DEF vars, client, NodeAnswer, NodeEvent, StartCallback, EndCallback, Destroy
<1>10. CASE Reader /\ ~BroadcastSlot /\ ~ClearSlot
  BY <1>8, <1>10 DEF Reader, client, ReadMessage, Deliver, TryNextSlot, NoListener, DeliverNoMem,
     Resubmit, QueueCallback, SkipListener, ListenersDone, ReaderExit
<1> QED
  BY <1>2, <1>3, <1>4, <1>5, <1>6, <1>7, <1>9, <1>10 DEF Next, Client


-----------------------------------------------------------------------------
(* The slots                                                               *)

\* The same buffer, up to the mark of an earlier call.
Alike(m, n) == n.type = m.type /\ n.of = m.of /\ (m.type \notin Types => n = m)

\* A step touches the slots in K and who comes to wait in them, and nobody loses patience.
LEMMA OthersKeepTheirs ==
  ASSUME MInv, [Next]_vars, NEW K \in SUBSET (1 .. NSlots),
         \A i \in (1 .. NSlots) \ K : /\ slots'[i].u16Type = slots[i].u16Type
                                      /\ Alike(slots[i].pu8Message, slots'[i].pu8Message)
                                      /\ rpc = "bcast" /\ rk = i => rpc' = "bcast" /\ rk' = i,
         \A t \in Clients : /\ pc'[t] # "expired"
                            /\ InSlot(t)' =>
                                 \/ at'[t] \in K
                                 \/ /\ InSlot(t) /\ at'[t] = at[t] /\ want'[t] = want[t]
                                    /\ cmd'[t] = cmd[t] /\ (pc[t] = "woken" => pc'[t] = "woken"),
         rpc \in {"exit", "stopped"} => rpc' \in {"exit", "stopped"},
         \A i \in K : slots'[i].pu8Message.type = "STATUS" =>
                        slots'[i].u16Type = "STATUS" /\ Announced(i)',
         \A t \in Clients : InSlot(t)' /\ at'[t] \in K /\ want'[t] = "STATUS" => OwnStatus(t)'
  PROVE  WaitersMatch' /\ NoStaleStatus' /\ Patient'
<1>1. \A t \in Clients : InSlot(t)' => at'[t] \in 1 .. NSlots
  BY NextTInv DEF MInv, TInv, IInv, Shape
<1>2. ASSUME NEW t \in Clients, InSlot(t)', want'[t] = "STATUS", at'[t] \notin K PROVE OwnStatus(t)'
  <2>1. /\ InSlot(t) /\ at'[t] = at[t] /\ want[t] = "STATUS" /\ cmd'[t] = cmd[t]
        /\ at[t] \in (1 .. NSlots) \ K
    BY <1>1, <1>2
  <2>2. OwnStatus(t)
    BY <2>1 DEF MInv, WaitersMatch
  <2>3. Alike(slots[at[t]].pu8Message, slots'[at[t]].pu8Message)
    BY <2>1
  <2> QED
    BY <2>1, <2>2, <2>3, PointersDiffer DEF OwnStatus, Alike, Types
<1>3. WaitersMatch'
  BY <1>2 DEF WaitersMatch
<1>4. ASSUME NEW i \in (1 .. NSlots) \ K, slots'[i].pu8Message.type = "STATUS"
      PROVE  slots'[i].u16Type = "STATUS" /\ Announced(i)'
  <2>1. slots[i].pu8Message.type = "STATUS" /\ slots'[i].u16Type = slots[i].u16Type
    BY <1>4 DEF Alike
  <2>2. slots[i].u16Type = "STATUS" /\ Announced(i)
    BY <2>1 DEF MInv, NoStaleStatus
  <2>3. Announced(i)'
    BY <2>2 DEF Announced
  <2> QED
    BY <2>1, <2>2, <2>3
<1>5. NoStaleStatus'
  BY <1>4 DEF NoStaleStatus
<1> QED
  BY <1>3, <1>5 DEF Patient

LEMMA SameAreAlike == \A m : Alike(m, m)
BY DEF Alike

\* A pointer alone of slot k is written, or with its type.
LEMMA OneSlotWritten ==
  ASSUME TInv, NEW k, NEW ty, NEW m,
         \/ slots' = [slots EXCEPT ![k].pu8Message = m] /\ ty = slots[k].u16Type
         \/ slots' = [slots EXCEPT ![k].u16Type = ty] /\ m = slots[k].pu8Message
         \/ slots' = [slots EXCEPT ![k].u16Type = ty, ![k].pu8Message = m]
  PROVE  /\ \A i \in (1 .. NSlots) \ {k} : slots'[i] = slots[i]
         /\ k \in 1 .. NSlots => slots'[k].u16Type = ty /\ slots'[k].pu8Message = m
BY DEF TInv, SlotsTyped, Slots

\* The clients' own steps outside the slots.
LEMMA OutsideSlots ==
  ASSUME MInv, [Next]_vars, NEW t \in Clients, UNCHANGED slots, UNCHANGED reader,
         ~InSlot(t)' \/ (InSlot(t) /\ pc'[t] = "woken" /\ at'[t] = at[t] /\ want'[t] = want[t]),
         pc'[t] # "expired", cmd' = cmd,
         \A u \in Clients \ {t} : pc'[u] = pc[u] /\ at'[u] = at[u] /\ want'[u] = want[u]
  PROVE  WaitersMatch' /\ NoStaleStatus' /\ Patient'
<1>1. \A u \in Clients : /\ pc'[u] # "expired"
                         /\ InSlot(u)' => /\ InSlot(u) /\ at'[u] = at[u] /\ want'[u] = want[u]
                                          /\ cmd'[u] = cmd[u] /\ (pc[u] = "woken" => pc'[u] = "woken")
  BY DEF MInv, Patient, InSlot
<1>2. \A i \in 1 .. NSlots : slots'[i].u16Type = slots[i].u16Type
                             /\ Alike(slots[i].pu8Message, slots'[i].pu8Message)
  BY SameAreAlike
<1>3. UNCHANGED <<rpc, rk>>
  BY DEF reader
<1>4. {} \in SUBSET (1 .. NSlots) /\ (1 .. NSlots) \ {} = 1 .. NSlots
  OBVIOUS
<1> DEFINE K == {}
<1>5. /\ K \in SUBSET (1 .. NSlots) /\ \A i : i \notin K
      /\ \A i \in (1 .. NSlots) \ K : i \in 1 .. NSlots
  BY <1>4
<1> HIDE DEF K
<1> QED
  BY <1>1, <1>2, <1>3, <1>5, OthersKeepTheirs

\* A client leaves slot k, which no longer holds a status, or takes it.
LEMMA OwnSlotWritten ==
  ASSUME MInv, [Next]_vars, NEW t \in Clients, NEW k \in 1 .. NSlots, UNCHANGED reader,
         \A i \in (1 .. NSlots) \ {k} : slots'[i] = slots[i],
         slots'[k].pu8Message.type # "STATUS",
         ~InSlot(t)' \/ (at'[t] = k /\ (want'[t] = "STATUS" => OwnStatus(t)')),
         \A u \in Clients \ {t} : InSlot(u) => at[u] # k,
         \A u \in Clients \ {t} : pc'[u] = pc[u] /\ at'[u] = at[u] /\ want'[u] = want[u],
         pc'[t] # "expired", cmd' = cmd
  PROVE  WaitersMatch' /\ NoStaleStatus' /\ Patient'
<1> DEFINE K == {k}
<1>1. \A u \in Clients : /\ pc'[u] # "expired"
                         /\ InSlot(u)' =>
                              \/ at'[u] \in K
                              \/ /\ InSlot(u) /\ at'[u] = at[u] /\ want'[u] = want[u]
                                 /\ cmd'[u] = cmd[u] /\ (pc[u] = "woken" => pc'[u] = "woken")
  BY DEF MInv, Patient, InSlot
<1>2. UNCHANGED <<rpc, rk>>
  BY DEF reader
<1>3. \A i \in (1 .. NSlots) \ K : slots'[i].u16Type = slots[i].u16Type
                                   /\ Alike(slots[i].pu8Message, slots'[i].pu8Message)
  BY SameAreAlike
<1>4. \A u \in Clients : InSlot(u)' /\ at'[u] \in K => u = t
  BY DEF InSlot
<1>5. K \in SUBSET (1 .. NSlots) /\ \A i \in K : slots'[i].pu8Message.type # "STATUS"
  OBVIOUS
<1>6. \A u \in Clients : InSlot(u)' /\ at'[u] \in K /\ want'[u] = "STATUS" => OwnStatus(u)'
  BY <1>4
<1> HIDE DEF K
<1> QED
  BY <1>1, <1>2, <1>3, <1>5, <1>6, OthersKeepTheirs


\* The reader clears a slot on exit; the clients in it are at most woken.
LEMMA SlotCleared ==
  ASSUME MInv, [Next]_vars, UNCHANGED <<at, want, cmd>>, UNCHANGED rpc \/ rpc' \in {"exit", "stopped"},
         rpc # "bcast",
         NEW k \in 1 .. NSlots, \A i \in (1 .. NSlots) \ {k} : slots'[i] = slots[i],
         pc' = pc \/ Wake(k),
         slots'[k].pu8Message = Null /\ rpc' \in {"exit", "stopped"}
  PROVE  WaitersMatch' /\ NoStaleStatus' /\ Patient'
<1> DEFINE K == {k}
<1>1. pc \in [Clients -> ClientPlaces] /\ \A u \in Clients : pc[u] # "expired"
  BY DEF MInv, TInv, IInv, Shape, Patient
<1>2. \A u \in Clients : /\ pc'[u] # "expired"
                         /\ InSlot(u)' =>
                              \/ at'[u] \in K
                              \/ /\ InSlot(u) /\ at'[u] = at[u] /\ want'[u] = want[u]
                                 /\ cmd'[u] = cmd[u] /\ (pc[u] = "woken" => pc'[u] = "woken")
  BY <1>1 DEF Wake, InSlot
<1>3. \A i \in (1 .. NSlots) \ K : slots'[i].u16Type = slots[i].u16Type
                                   /\ Alike(slots[i].pu8Message, slots'[i].pu8Message)
  BY SameAreAlike
<1>4. K \in SUBSET (1 .. NSlots) /\ \A i \in K : slots'[i].pu8Message.type # "STATUS"
  BY PointersDiffer
<1>5. \A u \in Clients : InSlot(u)' /\ at'[u] \in K => OwnStatus(u)'
  BY DEF OwnStatus
<1> HIDE DEF K
<1> QED
  BY <1>2, <1>3, <1>4, <1>5, OthersKeepTheirs

LEMMA DeliverMatches ==
  ASSUME MInv, [Next]_vars, Deliver
  PROVE  WaitersMatch' /\ NoStaleStatus' /\ Patient'
<1> DEFINE K == {rk}
<1>1. /\ rpc \in {"queue1", "queue2"} /\ rk \in 1 .. NSlots /\ Matches(slots[rk])
      /\ slots' = [slots EXCEPT ![rk].pu8Message = rmsg] /\ rpc' = "bcast" /\ rk' = rk
      /\ UNCHANGED <<pc, at, want, cmd>>
  BY DEF Deliver, Offering, client, MInv, TInv, ReaderTyped
<1>2. /\ \A i \in (1 .. NSlots) \ {rk} : slots'[i] = slots[i]
      /\ slots'[rk].u16Type = slots[rk].u16Type /\ slots'[rk].pu8Message = rmsg
  BY <1>1, OneSlotWritten DEF MInv
<1>3. \A u \in Clients : /\ pc'[u] # "expired"
                         /\ InSlot(u)' => /\ InSlot(u) /\ at'[u] = at[u] /\ want'[u] = want[u]
                                          /\ cmd'[u] = cmd[u] /\ (pc[u] = "woken" => pc'[u] = "woken")
  BY <1>1 DEF MInv, Patient, InSlot
<1>4. \A i \in (1 .. NSlots) \ K : slots'[i].u16Type = slots[i].u16Type
                                   /\ Alike(slots[i].pu8Message, slots'[i].pu8Message)
  BY <1>2, SameAreAlike
<1>5. \A i \in K : slots'[i].pu8Message.type = "STATUS" => slots'[i].u16Type = "STATUS" /\ Announced(i)'
  BY <1>1, <1>2 DEF Matches, Announced
<1>6. ASSUME NEW t \in Clients, InSlot(t)', at'[t] \in K, want'[t] = "STATUS" PROVE OwnStatus(t)'
  <2>1. InSlot(t) /\ at[t] = rk /\ want[t] = "STATUS" /\ cmd'[t] = cmd[t]
    BY <1>1, <1>3, <1>6
  <2>2. slots[rk].u16Type = "STATUS"
    BY <2>1 DEF MInv, TInv, IInv, SlotOwnership, SlotType
  <2>3. rmsg.type = "STATUS" /\ slots[rk].pu8Message \in {Null, Stack(rmsg.of)}
    BY <1>1, <2>2 DEF Matches
  <2>4. OwnStatus(t)
    BY <2>1 DEF MInv, WaitersMatch
  <2>5. rmsg.of = cmd[t]
    BY <1>1, <2>1, <2>3, <2>4, PointersDiffer DEF OwnStatus
  <2> QED
    BY <1>1, <1>2, <2>1, <2>3, <2>5 DEF OwnStatus
<1>7. K \in SUBSET (1 .. NSlots)
  BY <1>1
<1> HIDE DEF K
<1> QED
  BY <1>1, <1>3, <1>4, <1>5, <1>6, <1>7, OthersKeepTheirs

LEMMA BroadcastMatches ==
  ASSUME MInv, [Next]_vars, BroadcastSlot
  PROVE  WaitersMatch' /\ NoStaleStatus' /\ Patient'
<1> DEFINE K == {rk}
<1>1. /\ rpc = "bcast" /\ rk \in 1 .. NSlots /\ Wake(rk) /\ rpc' = "callbacks"
      /\ UNCHANGED <<slots, at, want, cmd>>
      /\ pc \in [Clients -> ClientPlaces] /\ \A u \in Clients : pc[u] # "expired"
  BY DEF BroadcastSlot, MInv, TInv, ReaderTyped, IInv, Shape, Patient
<1>2. \A u \in Clients : /\ pc'[u] # "expired"
                         /\ InSlot(u)' => /\ InSlot(u) /\ at'[u] = at[u] /\ want'[u] = want[u]
                                          /\ cmd'[u] = cmd[u] /\ (pc[u] = "woken" => pc'[u] = "woken")
                                          /\ (at[u] = rk => pc'[u] = "woken")
  BY <1>1 DEF Wake, InSlot
<1>3. \A i \in (1 .. NSlots) \ K : /\ slots'[i].u16Type = slots[i].u16Type
                                   /\ Alike(slots[i].pu8Message, slots'[i].pu8Message)
                                   /\ rk # i
  BY <1>1, SameAreAlike
<1>4. \A i \in K : slots'[i].pu8Message.type = "STATUS" => slots'[i].u16Type = "STATUS" /\ Announced(i)'
  BY <1>1, <1>2 DEF MInv, NoStaleStatus, Announced
<1>5. ASSUME NEW t \in Clients, InSlot(t)', at'[t] \in K, want'[t] = "STATUS" PROVE OwnStatus(t)'
  <2>1. InSlot(t) /\ want[t] = "STATUS"
    BY <1>2, <1>5
  <2>2. OwnStatus(t)
    BY <2>1 DEF MInv, WaitersMatch
  <2> QED
    BY <1>1, <2>2 DEF OwnStatus
<1>6. K \in SUBSET (1 .. NSlots)
  BY <1>1
<1> HIDE DEF K
<1> QED
  BY <1>1, <1>2, <1>3, <1>4, <1>5, <1>6, OthersKeepTheirs

\* The types and pointers in the slots stay, up to the marks of earlier calls, and so do
\* the clients in them.
LEMMA NobodyMatched ==
  ASSUME MInv, [Next]_vars,
         \A i \in 1 .. NSlots : /\ slots'[i].u16Type = slots[i].u16Type
                                /\ Alike(slots[i].pu8Message, slots'[i].pu8Message),
         \A u \in Clients : /\ pc'[u] # "expired"
                            /\ InSlot(u)' => /\ InSlot(u) /\ pc'[u] = pc[u] /\ at'[u] = at[u]
                                             /\ want'[u] = want[u] /\ cmd'[u] = cmd[u],
         rpc = "bcast" => rpc' = "bcast" /\ rk' = rk,
         rpc \in {"exit", "stopped"} => rpc' \in {"exit", "stopped"}
  PROVE  WaitersMatch' /\ NoStaleStatus' /\ Patient'
<1> DEFINE K == {}
<1>1. /\ K \in SUBSET (1 .. NSlots) /\ \A i : i \notin K
      /\ \A i \in (1 .. NSlots) \ K : i \in 1 .. NSlots
  OBVIOUS
<1> HIDE DEF K
<1> QED
  BY <1>1, OthersKeepTheirs


LEMMA ClientMatches ==
  ASSUME MInv, [Next]_vars, "impatient" \notin Faults, NEW t \in Clients,
         Client(t) \/ Expire(t) \/ SpuriousWakeup(t)
  PROVE  WaitersMatch' /\ NoStaleStatus' /\ Patient'
<1> DEFINE R == WaitersMatch' /\ NoStaleStatus' /\ Patient'
           k == at[t]
<1>1. /\ TInv /\ IInv /\ pc \in [Clients -> ClientPlaces] /\ want \in [Clients -> Wants]
      /\ at \in [Clients -> 1 .. NSlots + 1]
  BY DEF MInv, TInv, IInv, Shape
<1>2. CASE LockLink(t) \/ WriteMessage(t) \/ NextSlot(t)
  <2>1. /\ pc[t] \in {"send", "write", "scan"} /\ UNCHANGED <<slots, want, cmd>> /\ UNCHANGED reader
        /\ \E p \in {"write", "idle", "scan"} : pc' = pc \/ pc' = [pc EXCEPT ![t] = p]
        /\ \E j : at' = at \/ at' = [at EXCEPT ![t] = j]
    BY <1>2 DEF LockLink, WriteMessage, NextSlot
  <2>2. /\ pc'[t] \in {"send", "write", "scan", "idle"}
        /\ \A u \in Clients \ {t} : pc'[u] = pc[u] /\ at'[u] = at[u] /\ want'[u] = want[u]
    BY <1>1, <2>1
  <2>3. ~InSlot(t)' /\ pc'[t] # "expired"
    BY <2>2 DEF InSlot
  <2> QED
    BY <2>1, <2>2, <2>3, OutsideSlots
<1>3. CASE SpuriousWakeup(t)
  <2>1. /\ pc[t] = "wait" /\ pc' = [pc EXCEPT ![t] = "woken"] /\ UNCHANGED <<slots, want, cmd, at>>
        /\ UNCHANGED reader
    BY <1>3 DEF SpuriousWakeup
  <2>2. /\ pc'[t] = "woken" /\ InSlot(t)
        /\ \A u \in Clients \ {t} : pc'[u] = pc[u] /\ at'[u] = at[u] /\ want'[u] = want[u]
    BY <1>1, <2>1 DEF InSlot
  <2> QED
    BY <2>1, <2>2, OutsideSlots
<1>4. ASSUME NEW r, NEW b, EndWait(t, r, b)
      PROVE  /\ ~InSlot(t)' /\ pc'[t] # "expired" /\ cmd' = cmd
             /\ \A u \in Clients \ {t} : pc'[u] = pc[u] /\ at'[u] = at[u] /\ want'[u] = want[u]
  <2>1. /\ pc'[t] \in {"scan", "idle"}
        /\ \A u \in Clients \ {t} : pc'[u] = pc[u] /\ want'[u] = want[u] /\ at'[u] = at[u]
    BY <1>1, <1>4, WaitEnds
  <2> QED
    BY <1>4, <2>1 DEF EndWait, InSlot
<1>5. CASE NoFreeSlot(t)
  <2>1. EndWait(t, "ERROR", Null) /\ UNCHANGED slots /\ UNCHANGED reader
    BY <1>5 DEF NoFreeSlot
  <2>2. /\ ~InSlot(t)' /\ pc'[t] # "expired" /\ cmd' = cmd
        /\ \A u \in Clients \ {t} : pc'[u] = pc[u] /\ at'[u] = at[u] /\ want'[u] = want[u]
    BY <1>4, <2>1
  <2> QED
    BY <2>1, <2>2, OutsideSlots
\* A free slot holds no status and nobody is in it.
<1>6. ASSUME k \in 1 .. NSlots, slots[k].u16Type = Free
      PROVE  /\ slots[k].pu8Message.type # "STATUS"
             /\ \A u \in Clients : InSlot(u) => at[u] # k
             /\ Registered(t, slots[k].pu8Message).type # "STATUS"
  <2>1. slots[k].pu8Message.type # "STATUS"
    BY <1>6 DEF MInv, NoStaleStatus, Free
  <2>2. Registered(t, slots[k].pu8Message).type # "STATUS"
    BY <1>1, <2>1, PointersDiffer DEF Registered, Wants
  <2> QED
    BY <1>1, <1>6, <2>1, <2>2, TypesOfSlots DEF IInv, SlotOwnership
<1>7. CASE TakeSlot(t)
  <2> DEFINE m == Registered(t, slots[k].pu8Message)
             ty == SlotType(t)
  <2>1. /\ k \in 1 .. NSlots /\ slots[k].u16Type = Free
        /\ slots' = [slots EXCEPT ![k].u16Type = ty, ![k].pu8Message = m]
        /\ pc' = [pc EXCEPT ![t] = "wait"] /\ UNCHANGED <<at, want, cmd>> /\ UNCHANGED reader
    BY <1>1, <1>7 DEF TakeSlot, TInv, SlotsTyped, Slots
  <2>2. \A u \in Clients \ {t} : pc'[u] = pc[u] /\ at'[u] = at[u] /\ want'[u] = want[u]
    BY <1>1, <2>1
  <2>3. m.type # "STATUS" /\ \A u \in Clients : InSlot(u) => at[u] # k
    BY <1>6, <2>1
  <2>4. want[t] = "STATUS" => m = Stack(cmd[t])
    BY DEF Registered
  <2> HIDE DEF m, ty
  <2>5. (\A i \in (1 .. NSlots) \ {k} : slots'[i] = slots[i]) /\ slots'[k].pu8Message = m
    BY <1>1, <2>1, OneSlotWritten
  <2>6. want'[t] = "STATUS" => OwnStatus(t)'
    BY <2>1, <2>4, <2>5 DEF OwnStatus
  <2>7. pc'[t] # "expired"
    BY <1>1, <2>1
  <2> QED
    BY <2>1, <2>2, <2>3, <2>5, <2>6, <2>7, OwnSlotWritten
<1>8. CASE BadDeadline(t)
  <2> DEFINE m == Registered(t, slots[k].pu8Message)
             ty == slots[k].u16Type
  <2>1. /\ k \in 1 .. NSlots /\ ty = Free
        /\ slots' = [slots EXCEPT ![k].pu8Message = m]
        /\ EndWait(t, "ERROR", Null) /\ UNCHANGED reader
    BY <1>1, <1>8 DEF BadDeadline, TInv, SlotsTyped, Slots
  <2>2. m.type # "STATUS" /\ \A u \in Clients : InSlot(u) => at[u] # k
    BY <1>6, <2>1
  <2>3. /\ ~InSlot(t)' /\ pc'[t] # "expired" /\ cmd' = cmd
        /\ \A u \in Clients \ {t} : pc'[u] = pc[u] /\ at'[u] = at[u] /\ want'[u] = want[u]
    BY <1>4, <2>1
  <2> HIDE DEF m
  <2>4. (\A i \in (1 .. NSlots) \ {k} : slots'[i] = slots[i]) /\ slots'[k].pu8Message = m
    BY <1>1, <2>1, OneSlotWritten
  <2> QED
    BY <2>1, <2>2, <2>3, <2>4, OwnSlotWritten
\* The slot a client is in is its own.
<1>9. ASSUME InSlot(t) PROVE k \in 1 .. NSlots /\ \A u \in Clients \ {t} : InSlot(u) => at[u] # k
  BY <1>1, <1>9 DEF IInv, Shape, SlotOwnership
<1>10. CASE Woken(t)
  <2>1. /\ InSlot(t) /\ EndWait(t, "OK", slots[k].pu8Message) /\ UNCHANGED reader
        /\ slots' = [slots EXCEPT ![k].u16Type = Free, ![k].pu8Message = Dangling]
    BY <1>10 DEF Woken, InSlot
  <2>2. (\A i \in (1 .. NSlots) \ {k} : slots'[i] = slots[i]) /\ slots'[k].pu8Message = Dangling
    BY <1>1, <1>9, <2>1, OneSlotWritten
  <2>3. /\ ~InSlot(t)' /\ pc'[t] # "expired" /\ cmd' = cmd
        /\ \A u \in Clients \ {t} : pc'[u] = pc[u] /\ at'[u] = at[u] /\ want'[u] = want[u]
    BY <1>4, <2>1
  <2> QED
    BY <1>9, <2>1, <2>2, <2>3, PointersDiffer, OwnSlotWritten
\* A status on its way to the client would still be announced, and is not overdue.
<1>11. CASE TimedOut(t)
  <2> DEFINE m == slots[k].pu8Message
  <2>1. /\ pc[t] = "wait" /\ rpc # "bcast" /\ EndWait(t, "NOMESSAGE", Null) /\ UNCHANGED reader
        /\ slots' = [slots EXCEPT ![k].u16Type = Free]
    BY <1>11 DEF TimedOut, Expired, Overdue, ReaderBlocked, MInv, Patient
  <2>2. InSlot(t)
    BY <2>1 DEF InSlot
  <2>3. m.type # "STATUS"
    BY <1>9, <2>1, <2>2 DEF MInv, NoStaleStatus, Announced
  <2>4. m = slots[k].pu8Message
    OBVIOUS
  <2> HIDE DEF m
  <2>5. (\A i \in (1 .. NSlots) \ {k} : slots'[i] = slots[i]) /\ slots'[k].pu8Message = m
    BY <1>1, <1>9, <2>1, <2>2, <2>4, OneSlotWritten
  <2>6. /\ ~InSlot(t)' /\ pc'[t] # "expired" /\ cmd' = cmd
        /\ \A u \in Clients \ {t} : pc'[u] = pc[u] /\ at'[u] = at[u] /\ want'[u] = want[u]
    BY <1>4, <2>1
  <2> QED
    BY <1>9, <2>1, <2>2, <2>3, <2>5, <2>6, OwnSlotWritten
<1> QED
  BY <1>2, <1>3, <1>5, <1>7, <1>8, <1>10, <1>11 DEF Client, Expire

LEMMA NextMInv == "impatient" \notin Faults => (MInv /\ [Next]_vars => MInv')
<1> SUFFICES ASSUME "impatient" \notin Faults, MInv, [Next]_vars
             PROVE  WaitersMatch' /\ NoStaleStatus' /\ Patient'
  BY NextTInv, CallsMatchStep DEF MInv
<1> DEFINE R == WaitersMatch' /\ NoStaleStatus' /\ Patient'
<1>1. /\ TInv /\ IInv /\ pc \in [Clients -> ClientPlaces] /\ SlotsTyped /\ ReaderTyped
      /\ \A u \in Clients : pc[u] # "expired"
  BY DEF MInv, TInv, IInv, Shape, Patient
<1>2. ASSUME NEW t \in Clients, NEW c \in Calls(t), Call(t, c[1], c[2]) PROVE R
  <2>1. /\ slots' = [i \in DOMAIN slots |-> [slots[i] EXCEPT !.pu8Message = Orphan(@, t)]]
        /\ pc' = [pc EXCEPT ![t] = "send"] /\ UNCHANGED <<at, rpc, rk>>
        /\ cmd' = [cmd EXCEPT ![t] = c[2]] /\ want' = [want EXCEPT ![t] = "STATUS"]
    BY <1>2 DEF Call, Disown
  <2>2. ASSUME NEW m \in Buffer PROVE Alike(m, Orphan(m, t))
    <3>1. m.type \notin Types => m.req = Nobody
      BY DEF Buffer, Message, Null, Dangling, Stack, Pointer
    <3> QED
      BY <2>2, <3>1, Orphans DEF Alike
  <2>3. \A i \in 1 .. NSlots : /\ slots'[i].u16Type = slots[i].u16Type
                               /\ Alike(slots[i].pu8Message, slots'[i].pu8Message)
    BY <1>1, <2>1, <2>2 DEF SlotsTyped, Slots
  <2>4. \A u \in Clients : /\ pc'[u] # "expired"
                           /\ InSlot(u)' => /\ InSlot(u) /\ pc'[u] = pc[u] /\ at'[u] = at[u]
                                            /\ want'[u] = want[u] /\ cmd'[u] = cmd[u]
    BY <1>1, <2>1 DEF InSlot, MInv, TInv, CallsTyped, Shape, IInv
  <2> QED
    BY <2>1, <2>3, <2>4, NobodyMatched
<1>3. ASSUME UNCHANGED <<pc, at, want, cmd>>, UNCHANGED slots,
             rpc = "bcast" => rpc' = "bcast" /\ rk' = rk,
             rpc \in {"exit", "stopped"} => rpc' \in {"exit", "stopped"}
      PROVE  R
  <2>1. \A i \in 1 .. NSlots : /\ slots'[i].u16Type = slots[i].u16Type
                               /\ Alike(slots[i].pu8Message, slots'[i].pu8Message)
    BY <1>3, SameAreAlike
  <2>2. \A u \in Clients : /\ pc'[u] # "expired"
                           /\ InSlot(u)' => /\ InSlot(u) /\ pc'[u] = pc[u] /\ at'[u] = at[u]
                                            /\ want'[u] = want[u] /\ cmd'[u] = cmd[u]
    BY <1>1, <1>3 DEF InSlot
  <2> QED
    BY <1>3, <2>1, <2>2, NobodyMatched
<1>4. CASE UNCHANGED vars \/ NodeAnswer \/ NodeEvent \/ StartCallback \/ EndCallback \/ Destroy
  BY <1>3, <1>4 DEF vars, client, reader, NodeAnswer, NodeEvent, StartCallback, EndCallback, Destroy
<1>5. CASE ReadMessage \/ TryNextSlot \/ NoListener \/ Resubmit \/ QueueCallback \/ SkipListener
           \/ ListenersDone \/ ReaderExit
  BY <1>3, <1>5 DEF client, ReadMessage, TryNextSlot, Offering, NoListener, Resubmit, QueueCallback,
     SkipListener, ListenersDone, ReaderExit
<1>6. CASE DeliverNoMem
  <2>1. /\ slots' = [slots EXCEPT ![rk].locked = TRUE] /\ rpc \in {"queue1", "queue2"}
        /\ UNCHANGED <<pc, at, want, cmd>>
    BY <1>6 DEF DeliverNoMem, Offering, client
  <2>2. \A i \in 1 .. NSlots : /\ slots'[i].u16Type = slots[i].u16Type
                               /\ slots'[i].pu8Message = slots[i].pu8Message
    BY <1>1, <2>1 DEF SlotsTyped, Slots
  <2>3. \A u \in Clients : /\ pc'[u] # "expired"
                           /\ InSlot(u)' => /\ InSlot(u) /\ pc'[u] = pc[u] /\ at'[u] = at[u]
                                            /\ want'[u] = want[u] /\ cmd'[u] = cmd[u]
    BY <1>1, <2>1 DEF InSlot
  <2>4. \A i \in 1 .. NSlots : /\ slots'[i].u16Type = slots[i].u16Type
                               /\ Alike(slots[i].pu8Message, slots'[i].pu8Message)
    BY <2>2, SameAreAlike
  <2> QED
    BY <2>1, <2>3, <2>4, NobodyMatched
<1>7. CASE ClearSlot
  <2>1. /\ rpc = "exit" /\ rk \in 1 .. NSlots /\ slots' = [slots EXCEPT ![rk].pu8Message = Null]
        /\ Wake(rk) /\ UNCHANGED <<at, want, cmd>> /\ rpc' \in {"exit", "stopped"}
    BY <1>1, <1>7 DEF ClearSlot, ReaderTyped
  <2>2. (\A i \in (1 .. NSlots) \ {rk} : slots'[i] = slots[i]) /\ slots'[rk].pu8Message = Null
    BY <1>1, <2>1, OneSlotWritten
  <2> QED
    BY <2>1, <2>2, SlotCleared
<1> QED
  BY <1>2, <1>4, <1>5, <1>6, <1>7, ClientMatches, DeliverMatches, BroadcastMatches DEF Next, Reader


-----------------------------------------------------------------------------
(* Sequences that hold numbered reports                                    *)

\* Two sequences hold the reports that follow each other.
LEMMA HoldsConcat ==
  ASSUME NEW S, NEW p \in Seq(S), NEW q \in Seq(S), NEW lo \in Nat, NEW mid \in Nat, NEW hi \in Nat,
         lo <= mid, mid <= hi, Holds(p, lo, mid), Holds(q, mid, hi)
  PROVE  Holds(p \o q, lo, hi)
<1> DEFINE R(s) == {i \in DOMAIN s : Reported(s[i])}
           n == Len(p)
           r == p \o q
<1>1. /\ n \in Nat /\ Len(q) \in Nat /\ DOMAIN p = 1 .. n /\ DOMAIN q = 1 .. Len(q)
      /\ DOMAIN r = 1 .. n + Len(q)
      /\ \A i \in 1 .. n : r[i] = p[i]
      /\ \A i \in 1 .. Len(q) : r[n + i] = q[i]
  BY ConcatProperties
<1>2. /\ {p[i].seq : i \in R(p)} = lo + 1 .. mid /\ {q[i].seq : i \in R(q)} = mid + 1 .. hi
      /\ \A i, j \in R(p) : i < j => p[i].seq < p[j].seq
      /\ \A i, j \in R(q) : i < j => q[i].seq < q[j].seq
  BY DEF Holds
<1>3. \A i \in R(r) : (i \in R(p) /\ i <= n) \/ (i - n \in R(q) /\ i > n)
  <2> SUFFICES ASSUME NEW i \in R(r) PROVE (i \in R(p) /\ i <= n) \/ (i - n \in R(q) /\ i > n)
    OBVIOUS
  <2>1. CASE i <= n
    BY <1>1, <2>1
  <2>2. CASE i > n
    <3>1. i - n \in 1 .. Len(q) /\ n + (i - n) = i
      BY <1>1, <2>2
    <3> QED
      BY <1>1, <2>2, <3>1
  <2> QED
    BY <1>1, <2>1, <2>2
<1>4. /\ \A i \in R(p) : i \in R(r) /\ r[i] = p[i]
      /\ \A i \in R(q) : n + i \in R(r) /\ r[n + i] = q[i]
  BY <1>1
<1>5. \A i \in R(r) : i \in Nat /\ (i <= n => r[i] = p[i]) /\ (i > n => r[i] = q[i - n])
  <2> SUFFICES ASSUME NEW i \in R(r) PROVE (i <= n => r[i] = p[i]) /\ (i > n => r[i] = q[i - n])
    BY <1>1
  <2>1. CASE i <= n
    BY <1>1, <2>1
  <2>2. CASE i > n
    <3>1. i - n \in 1 .. Len(q) /\ n + (i - n) = i
      BY <1>1, <2>2
    <3> QED
      BY <1>1, <2>2, <3>1
  <2> QED
    BY <1>1, <2>1, <2>2
<1>6. /\ \A i \in R(p) : p[i].seq \in lo + 1 .. mid
      /\ \A i \in R(q) : q[i].seq \in mid + 1 .. hi
  BY <1>2
<1>7. {r[i].seq : i \in R(r)} \subseteq lo + 1 .. hi
  <2> SUFFICES ASSUME NEW i \in R(r) PROVE r[i].seq \in lo + 1 .. hi
    OBVIOUS
  <2>1. CASE i \in R(p) /\ i <= n
    BY <1>4, <1>6, <2>1
  <2>2. CASE i - n \in R(q) /\ i > n
    <3>1. r[i].seq \in mid + 1 .. hi
      BY <1>5, <1>6, <2>2
    <3> QED
      BY <3>1
  <2> QED
    BY <1>3, <2>1, <2>2
<1>8. lo + 1 .. hi \subseteq {r[i].seq : i \in R(r)}
  <2> SUFFICES ASSUME NEW x \in lo + 1 .. hi PROVE \E i \in R(r) : r[i].seq = x
    OBVIOUS
  <2>1. CASE x <= mid
    <3>1. x \in lo + 1 .. mid
      BY <2>1
    <3>2. PICK i \in R(p) : p[i].seq = x
      BY <1>2, <3>1
    <3> QED
      BY <1>4, <3>2
  <2>2. CASE x > mid
    <3>1. x \in mid + 1 .. hi
      BY <2>2
    <3>2. PICK i \in R(q) : q[i].seq = x
      BY <1>2, <3>1
    <3> QED
      BY <1>4, <3>2
  <2> QED
    BY <2>1, <2>2
<1>9. ASSUME NEW i \in R(r), NEW j \in R(r), i < j PROVE r[i].seq < r[j].seq
  <2>1. CASE j <= n
    <3>1. i \in R(p) /\ j \in R(p) /\ r[i] = p[i] /\ r[j] = p[j]
      BY <1>1, <1>3, <1>5, <1>9, <2>1
    <3> QED
      BY <1>2, <1>9, <3>1
  <2>2. CASE i > n
    <3>1. i - n \in R(q) /\ j - n \in R(q) /\ r[i] = q[i - n] /\ r[j] = q[j - n] /\ i - n < j - n
      BY <1>1, <1>3, <1>5, <1>9, <2>2
    <3> QED
      BY <1>2, <3>1
  <2>3. CASE i <= n /\ j > n
    <3>1. i \in R(p) /\ j - n \in R(q) /\ r[i] = p[i] /\ r[j] = q[j - n]
      BY <1>1, <1>3, <1>5, <2>3
    <3>2. r[i].seq \in lo + 1 .. mid /\ r[j].seq \in mid + 1 .. hi
      BY <1>6, <3>1
    <3>3. \A u \in lo + 1 .. mid, v \in mid + 1 .. hi : u < v
      OBVIOUS
    <3> QED
      BY <3>2, <3>3
  <2> QED
    BY <1>1, <1>5, <2>1, <2>2, <2>3
<1> HIDE DEF r
<1>10. {r[i].seq : i \in R(r)} = lo + 1 .. hi
  BY <1>7, <1>8
<1>11. Holds(r, lo, hi)
  BY <1>9, <1>10 DEF Holds
<1> QED
  BY <1>11 DEF r

\* A single message is a report, the next one, or none.
LEMMA HoldsOne ==
  ASSUME NEW m, NEW lo \in Nat, NEW hi \in Nat, lo <= hi
  PROVE  Holds(<<m>>, lo, hi) <=> IF Reported(m) THEN hi = lo + 1 /\ m.seq = hi ELSE hi = lo
<1> DEFINE q == <<m>>
           R == {i \in DOMAIN q : Reported(q[i])}
<1>1. DOMAIN q = {1} /\ q[1] = m
  OBVIOUS
<1>2. ASSUME Reported(m) PROVE Holds(q, lo, hi) <=> hi = lo + 1 /\ m.seq = hi
  <2>1. R = {1} /\ {q[i].seq : i \in R} = {m.seq}
    BY <1>1, <1>2
  <2>2. {m.seq} = lo + 1 .. hi <=> hi = lo + 1 /\ m.seq = hi
    <3>1. hi = lo + 1 => lo + 1 .. hi = {hi}
      OBVIOUS
    <3>2. hi > lo + 1 => lo + 1 \in lo + 1 .. hi /\ hi \in lo + 1 .. hi
      OBVIOUS
    <3>3. hi = lo => lo + 1 .. hi = {}
      OBVIOUS
    <3> QED
      BY <3>1, <3>2, <3>3
  <2>3. \A i, j \in R : i < j => q[i].seq < q[j].seq
    BY <2>1
  <2> QED
    BY <2>1, <2>2, <2>3 DEF Holds
<1>3. ASSUME ~Reported(m) PROVE Holds(q, lo, hi) <=> hi = lo
  <2>1. R = {} /\ {q[i].seq : i \in R} = {}
    BY <1>1, <1>3
  <2>2. {} = lo + 1 .. hi <=> hi = lo
    <3>1. hi > lo => hi \in lo + 1 .. hi
      OBVIOUS
    <3>2. hi = lo => lo + 1 .. hi = {}
      OBVIOUS
    <3> QED
      BY <3>1, <3>2
  <2> QED
    BY <2>1, <2>2 DEF Holds
<1> QED
  BY <1>2, <1>3

\* Messages that are no reports.
LEMMA HoldsNone ==
  ASSUME NEW q, \A i \in DOMAIN q : ~Reported(q[i]), NEW lo \in Nat
  PROVE  \A hi \in Nat : lo <= hi => (Holds(q, lo, hi) <=> hi = lo)
<1> DEFINE R == {i \in DOMAIN q : Reported(q[i])}
<1>1. R = {} /\ {q[i].seq : i \in R} = {}
  OBVIOUS
<1>2. \A hi \in Nat : lo <= hi => ({} = lo + 1 .. hi <=> hi = lo)
  <2>1. \A hi \in Nat : hi > lo => hi \in lo + 1 .. hi
    OBVIOUS
  <2>2. lo + 1 .. lo = {}
    OBVIOUS
  <2> QED
    BY <2>1, <2>2
<1> QED
  BY <1>1, <1>2 DEF Holds


\* The first message and the rest of a sequence.
LEMMA HoldsSplit ==
  ASSUME NEW S, NEW q \in Seq(S), q # <<>>, NEW lo \in Nat, NEW hi \in Nat, lo <= hi,
         Holds(q, lo, hi)
  PROVE  \E mid \in lo .. hi : Holds(<<Head(q)>>, lo, mid) /\ Holds(Tail(q), mid, hi)
<1> DEFINE R == {i \in DOMAIN q : Reported(q[i])}
           r == Tail(q)
           Q == {i \in DOMAIN r : Reported(r[i])}
           mid == IF Reported(q[1]) THEN lo + 1 ELSE lo
<1>1. /\ Len(q) \in Nat \ {0} /\ DOMAIN q = 1 .. Len(q) /\ DOMAIN r = 1 .. Len(q) - 1
      /\ Head(q) = q[1] /\ \A i \in 1 .. Len(q) - 1 : r[i] = q[i + 1]
  BY HeadTailProperties
<1>2. /\ {q[i].seq : i \in R} = lo + 1 .. hi
      /\ \A i, j \in R : i < j => q[i].seq < q[j].seq
  BY DEF Holds
<1>3. \A i \in R : q[i].seq \in lo + 1 .. hi
  BY <1>2
<1>4. 1 \in R <=> Reported(q[1])
  BY <1>1
\* The first report has the first number.
<1>5. ASSUME Reported(q[1]) PROVE q[1].seq = lo + 1 /\ lo + 1 <= hi
  <2>1. q[1].seq \in lo + 1 .. hi
    BY <1>3, <1>4, <1>5
  <2>2. lo + 1 \in lo + 1 .. hi
    BY <2>1
  <2>3. PICK i \in R : q[i].seq = lo + 1
    BY <1>2, <2>2
  <2>4. i # 1 => q[1].seq < q[i].seq
    <3>1. i \in Nat /\ (i # 1 => 1 < i)
      BY <1>1
    <3> QED
      BY <1>2, <1>4, <1>5, <3>1
  <2> QED
    BY <2>1, <2>3, <2>4
<1>6. mid \in lo .. hi
  BY <1>5
<1>7. Holds(<<Head(q)>>, lo, mid)
  <2>1. lo <= mid /\ mid \in Nat
    OBVIOUS
  <2> QED
    BY <1>1, <1>5, <2>1, HoldsOne
<1>8. /\ \A i \in Q : i + 1 \in R /\ i + 1 # 1 /\ r[i] = q[i + 1] /\ i \in Nat
      /\ \A i \in R : i # 1 => i - 1 \in Q /\ r[i - 1] = q[i]
  <2>1. \A i \in 1 .. Len(q) - 1 : i + 1 \in 1 .. Len(q) /\ i + 1 # 1 /\ i \in Nat
    BY <1>1
  <2>2. \A i \in 1 .. Len(q) : i # 1 => i - 1 \in 1 .. Len(q) - 1 /\ (i - 1) + 1 = i
    BY <1>1
  <2> QED
    BY <1>1, <2>1, <2>2
\* Of the reports all but the first have the other numbers.
<1>9. \A i \in R : i # 1 <=> q[i].seq \in mid + 1 .. hi
  <2> SUFFICES ASSUME NEW i \in R PROVE i # 1 <=> q[i].seq \in mid + 1 .. hi
    OBVIOUS
  <2>1. CASE Reported(q[1])
    <3>1. i # 1 => q[1].seq < q[i].seq
      <4>1. i \in Nat /\ (i # 1 => 1 < i)
        BY <1>1
      <4> QED
        BY <1>2, <1>4, <2>1, <4>1
    <3> QED
      BY <1>3, <1>5, <2>1, <3>1
  <2>2. CASE ~Reported(q[1])
    BY <1>3, <1>4, <2>2
  <2> QED
    BY <2>1, <2>2
<1> HIDE DEF r, mid
<1>10. {r[i].seq : i \in Q} = mid + 1 .. hi
  <2>1. \A i \in Q : r[i].seq \in mid + 1 .. hi
    BY <1>8, <1>9
  <2>2. ASSUME NEW x \in mid + 1 .. hi PROVE \E i \in Q : r[i].seq = x
    <3>1. x \in lo + 1 .. hi
      BY <1>6
    <3>2. PICK i \in R : q[i].seq = x
      BY <1>2, <3>1
    <3> QED
      BY <1>8, <1>9, <3>2
  <2> QED
    BY <2>1, <2>2
<1>11. \A i, j \in Q : i < j => r[i].seq < r[j].seq
  <2> SUFFICES ASSUME NEW i \in Q, NEW j \in Q, i < j PROVE r[i].seq < r[j].seq
    OBVIOUS
  <2>1. i + 1 \in R /\ j + 1 \in R /\ i + 1 < j + 1 /\ r[i] = q[i + 1] /\ r[j] = q[j + 1]
    BY <1>8
  <2> QED
    BY <1>2, <2>1
<1>12. Holds(r, mid, hi)
  BY <1>10, <1>11 DEF Holds
<1> QED
  BY <1>6, <1>7, <1>12 DEF r

\* The marks of earlier calls do not matter.
LEMMA HoldsSame ==
  ASSUME NEW q, NEW r, NEW lo, NEW hi, Holds(q, lo, hi),
         DOMAIN r = DOMAIN q, \A i \in DOMAIN q : r[i].type = q[i].type /\ r[i].seq = q[i].seq
  PROVE  Holds(r, lo, hi)
<1> DEFINE R == {i \in DOMAIN q : Reported(q[i])}
<1>1. {i \in DOMAIN r : Reported(r[i])} = R
  BY DEF Reported
<1>2. /\ {q[i].seq : i \in R} = lo + 1 .. hi
      /\ \A i, j \in R : i < j => q[i].seq < q[j].seq
  BY DEF Holds
<1>3. {r[i].seq : i \in R} = {q[i].seq : i \in R}
  OBVIOUS
<1> QED
  BY <1>1, <1>2, <1>3 DEF Holds


-----------------------------------------------------------------------------
(* The events are called back in order, while malloc succeeds              *)

\* Exactly one listener for each type the node reports.
OneListenerEach ==
    \A ty \in Reports : \E k \in 1 .. Len(Listeners) :
        /\ Listeners[k] = ty
        /\ \A j \in 1 .. Len(Listeners) : Listeners[j] = ty => j = k

\* Reports are of the types there are, and nothing else has a number.
Quiet  == {m \in Message : ~Reported(m) /\ m.seq = 0}
Tagged == {m \in Message : IF Reported(m) THEN m.type \in Reports ELSE m.seq = 0}
Tags   == fromNode \in Seq(Tagged) /\ cbQueue \in Seq(Tagged) /\ rmsg \in Tagged \cup {Null}

\* The events up to b wait for their callbacks, the one up to c is in the reader's hands.
InOrder ==
    \E b \in called .. events : \E c \in b .. events :
        Holds(cbQueue, called, b) /\ Holds(InHand, b, c) /\ Holds(fromNode, c, events)

EInv == TInv /\ Tags /\ InOrder

LEMMA QuietAreTagged == Quiet \subseteq Tagged /\ Seq(Quiet) \subseteq Seq(Tagged) /\ ~Reported(Null)
<1>1. Quiet \subseteq Tagged
  BY DEF Quiet, Tagged
<1> QED
  BY <1>1 DEF Reported, Null, Pointer

\* The node answers with statuses and responses.
LEMMA AnswersAreQuiet ==
  ASSUME TInv, NodeAnswer
  PROVE  \E f \in Seq(Quiet) : fromNode' = fromNode \o f
<1> DEFINE k(a) == IF Len(a) <= LineLength - Len(fromNode) THEN Len(a) ELSE LineLength - Len(fromNode)
           s == Status(Head(toNode))
           r == Response(Head(toNode))
<1>1. PICK a \in Answers(Head(toNode)) : fromNode' = fromNode \o SubSeq(a, 1, k(a))
  BY DEF NodeAnswer
<1>2. Head(toNode) \in Written /\ Len(fromNode) \in Nat /\ LineLength \in Nat
  BY LinkAssumption DEF TInv, LineTyped, NodeAnswer, LinkAssumption
<1>3. s \in Quiet /\ r \in Quiet
  BY <1>2, LinkAssumption DEF Status, Response, Written, Quiet, Message, Types, Reported, LinkAssumption
<1>4. a = <<s>> \/ a = <<s, r>> \/ a = <<>>
  BY DEF Answers
<1> HIDE DEF s, r
<1>5. a \in Seq(Quiet)
  <2>1. <<s>> \in Seq(Quiet) /\ <<s, r>> \in Seq(Quiet) /\ <<>> \in Seq(Quiet)
    BY <1>3
  <2> QED
    BY <1>4, <2>1
<1>6. k(a) \in Int /\ Len(a) \in Nat /\ k(a) <= Len(a)
  BY <1>2, <1>5
<1>7. \A i \in 1 .. k(a) : a[i] \in Quiet
  BY <1>5, <1>6
<1> HIDE DEF k
<1>8. SubSeq(a, 1, k(a)) \in Seq(Quiet)
  BY <1>6, <1>7, SubSeqProperties
<1> QED
  BY <1>1, <1>8

\* The node reports the next event.
LEMMA EventIsNext ==
  ASSUME TInv, NodeEvent
  PROVE  \E m \in Tagged : /\ fromNode' = Append(fromNode, m)
                           /\ Reported(m) /\ m.seq = events + 1 /\ events' = events + 1
<1>1. PICK ty \in Reports :
        fromNode' = Append(fromNode, [type |-> ty, of |-> None, req |-> Nobody, seq |-> events + 1])
  BY DEF NodeEvent
<1>2. events < MaxEvents /\ events' = events + 1
  BY DEF NodeEvent
<1>3. events + 1 \in 0 .. MaxEvents /\ ty \in {"EVENT", "LOG"}
  BY <1>2, LinkAssumption DEF TInv, LineTyped, LinkAssumption
<1> DEFINE m == [type |-> ty, of |-> None, req |-> Nobody, seq |-> events + 1]
<1>4. m \in Tagged /\ Reported(m)
  BY <1>3 DEF Tagged, Message, Types, Reported
<1> QED
  BY <1>1, <1>2, <1>4

LEMMA OrphansAreTagged ==
  ASSUME NEW t \in Clients
  PROVE  \A m \in Tagged \cup {Null} : /\ Orphan(m, t) \in Tagged \cup {Null}
                                       /\ Orphan(m, t).type = m.type /\ Orphan(m, t).seq = m.seq
                                       /\ m \in Tagged => Orphan(m, t) \in Tagged
<1>1. Nobody # t
  BY LinkAssumption DEF LinkAssumption
<1> QED
  BY <1>1 DEF Orphan, Tagged, Message, Reported, Null, Pointer

LEMMA TagsStep ==
  ASSUME TInv, Tags, [Next]_vars
  PROVE  Tags'
<1>1. fromNode \in Seq(Tagged) /\ cbQueue \in Seq(Tagged) /\ rmsg \in Tagged \cup {Null}
  BY DEF Tags
<1>2. ASSUME UNCHANGED <<fromNode, cbQueue, rmsg>> PROVE Tags'
  BY <1>1, <1>2 DEF Tags
<1>3. ASSUME NEW t \in Clients, NEW k \in Calls(t), Call(t, k[1], k[2]) PROVE Tags'
  <2>1. /\ fromNode' = [i \in DOMAIN fromNode |-> Orphan(fromNode[i], t)]
        /\ rmsg' = Orphan(rmsg, t) /\ UNCHANGED cbQueue
    BY <1>3 DEF Call, Disown, cb
  <2>2. fromNode' \in Seq(Tagged)
    BY <1>1, <2>1, OrphansAreTagged, OrphanedSeq
  <2> QED
    BY <1>1, <2>1, <2>2, OrphansAreTagged DEF Tags
<1>4. CASE NodeAnswer
  <2>1. PICK f \in Seq(Quiet) : fromNode' = fromNode \o f
    BY <1>4, AnswersAreQuiet
  <2>2. fromNode' \in Seq(Tagged)
    BY <1>1, <2>1, QuietAreTagged, ConcatProperties
  <2> QED
    BY <1>1, <1>4, <2>2 DEF NodeAnswer, reader, cb, Tags
<1>5. CASE NodeEvent
  <2>1. fromNode' \in Seq(Tagged)
    BY <1>1, <1>5, EventIsNext, AppendProperties
  <2> QED
    BY <1>1, <1>5, <2>1 DEF NodeEvent, reader, cb, Tags
<1>6. CASE ReadMessage
  <2>1. rmsg' = Head(fromNode) /\ fromNode' = Tail(fromNode) /\ fromNode # <<>> /\ UNCHANGED cbQueue
    BY <1>6 DEF ReadMessage, cb
  <2>2. rmsg' \in Tagged /\ fromNode' \in Seq(Tagged)
    BY <1>1, <2>1, HeadTailProperties
  <2> QED
    BY <1>1, <2>1, <2>2 DEF Tags
<1>7. CASE QueueCallback
  <2>1. rmsg \in Received /\ cbQueue' = Append(cbQueue, rmsg) /\ UNCHANGED <<fromNode, rmsg>>
    BY <1>7 DEF QueueCallback, line, TInv, ReaderTyped
  <2>2. rmsg \in Tagged
    BY <1>1, <2>1 DEF Received, Types, Null, Pointer
  <2>3. cbQueue' \in Seq(Tagged)
    BY <1>1, <2>1, <2>2, AppendProperties
  <2> QED
    BY <1>1, <2>1, <2>3 DEF Tags
<1>8. CASE ListenersDone
  BY <1>1, <1>8 DEF ListenersDone, line, cb, Tags
<1>9. CASE StartCallback
  <2>1. cbQueue # <<>> /\ cbQueue' = Tail(cbQueue) /\ UNCHANGED <<fromNode, rmsg>>
    BY <1>9 DEF StartCallback, line, reader
  <2>2. cbQueue' \in Seq(Tagged)
    BY <1>1, <2>1, HeadTailProperties
  <2> QED
    BY <1>1, <2>1, <2>2 DEF Tags
<1>10. ASSUME NEW t \in Clients, Client(t) \/ Expire(t) \/ SpuriousWakeup(t) PROVE Tags'
  BY <1>2, <1>10 DEF Client, LockLink, WriteMessage, TakeSlot, BadDeadline, NextSlot, NoFreeSlot, Woken,
     TimedOut, Expire, SpuriousWakeup, line, reader, cb
<1>11. CASE UNCHANGED vars \/ EndCallback \/ Destroy
  BY <1>2, <1>11 DEF vars, line, reader, cb, EndCallback, Destroy
<1>12. CASE Reader /\ ~ReadMessage /\ ~QueueCallback /\ ~ListenersDone
  BY <1>2, <1>12 DEF Reader, line, cb, Deliver, TryNextSlot, NoListener, DeliverNoMem, BroadcastSlot,
     Resubmit, SkipListener, ReaderExit, ClearSlot
<1> QED
  BY <1>3, <1>4, <1>5, <1>6, <1>7, <1>8, <1>9, <1>10, <1>11, <1>12 DEF Next


LEMMA InitEInv == Init => EInv
<1> SUFFICES ASSUME Init PROVE Tags /\ InOrder
  BY InitTInv DEF EInv
<1>1. Tags
  BY DEF Init, Tags
<1>2. InHand = <<>> /\ cbQueue = <<>> /\ fromNode = <<>> /\ called = 0 /\ events = 0
  BY QuietAreTagged DEF Init, InHand
<1>3. Holds(<<>>, 0, 0)
  BY HoldsNone
<1> QED
  BY <1>1, <1>2, <1>3 DEF InOrder

\* Every report has a listener ahead while the reader has not come to the listeners.
LEMMA ListenerAhead ==
  ASSUME Tags, OneListenerEach, Reported(rmsg)
  PROVE  \E k \in 1 .. Len(Listeners) : Listeners[k] = rmsg.type
BY QuietAreTagged DEF Tags, Tagged, OneListenerEach

\* The reader looks for slots and listeners and has not found one yet.
LEMMA StillInHand ==
  ASSUME EInv, OneListenerEach, "nomem" \notin Faults,
         \/ Deliver \/ TryNextSlot \/ NoListener \/ DeliverNoMem \/ Resubmit \/ BroadcastSlot
         \/ SkipListener \/ ListenersDone \/ ReaderExit \/ ClearSlot
  PROVE  InHand' = InHand /\ UNCHANGED <<cbQueue, called, fromNode, events>>
<1>1. UNCHANGED <<cbQueue, called, fromNode, events>>
  BY DEF line, cb, Deliver, TryNextSlot, NoListener, DeliverNoMem, Resubmit, BroadcastSlot, SkipListener,
     ListenersDone, ReaderExit, ClearSlot
<1>2. CASE Deliver \/ TryNextSlot \/ Resubmit
  <2>1. rmsg' = rmsg /\ rpc # "callbacks" /\ rpc' # "callbacks"
    BY <1>2 DEF Deliver, TryNextSlot, Resubmit, Offering
  <2> QED
    BY <1>1, <2>1 DEF InHand
<1>3. CASE NoListener \/ BroadcastSlot
  <2>1. rmsg' = rmsg /\ rpc # "callbacks" /\ rpc' = "callbacks" /\ rk' = 1
    BY <1>3 DEF NoListener, BroadcastSlot
  <2>2. Reported(rmsg) => \E k \in 1 .. Len(Listeners) : Listeners[k] = rmsg.type
    BY ListenerAhead DEF EInv
  <2> QED
    BY <1>1, <2>1, <2>2 DEF InHand
<1>4. CASE SkipListener
  <2>1. /\ rmsg' = rmsg /\ rpc' = rpc /\ rk' = rk + 1 /\ Listeners[rk] # rmsg.type /\ rk \in Nat
        /\ Len(Listeners) \in Nat
    BY <1>4, LinkAssumption DEF SkipListener, EInv, TInv, ReaderTyped, LinkAssumption
  <2>2. \A k : k \in rk .. Len(Listeners) /\ k # rk <=> k \in rk + 1 .. Len(Listeners)
    BY <2>1
  <2>3. (\E k \in rk .. Len(Listeners) : Listeners[k] = rmsg.type)
        <=> \E k \in rk + 1 .. Len(Listeners) : Listeners[k] = rmsg.type
    BY <2>1, <2>2
  <2> QED
    BY <1>1, <2>1, <2>3 DEF InHand
<1>5. CASE ListenersDone
  <2>1. rpc = "callbacks" /\ rk > Len(Listeners) /\ rmsg' = Null /\ rk \in Nat /\ Len(Listeners) \in Nat
    BY <1>5, LinkAssumption DEF ListenersDone, EInv, TInv, ReaderTyped, LinkAssumption
  <2>2. rk .. Len(Listeners) = {}
    BY <2>1
  <2> QED
    BY <1>1, <2>1, <2>2, QuietAreTagged DEF InHand
<1>6. CASE ReaderExit \/ ClearSlot
  <2>1. rmsg = Null /\ rmsg' = Null
    BY <1>6 DEF ReaderExit, ClearSlot, EInv, TInv, ReaderTyped
  <2> QED
    BY <1>1, <2>1, QuietAreTagged DEF InHand
<1> QED
  BY <1>1, <1>2, <1>3, <1>4, <1>5, <1>6 DEF DeliverNoMem

LEMMA InOrderStep ==
  ASSUME EInv, [Next]_vars, OneListenerEach, "nomem" \notin Faults
  PROVE  InOrder'
<1>0. PICK b \in called .. events : \E c \in b .. events :
        Holds(cbQueue, called, b) /\ Holds(InHand, b, c) /\ Holds(fromNode, c, events)
  BY DEF EInv, InOrder
<1>1. PICK c \in b .. events :
        Holds(cbQueue, called, b) /\ Holds(InHand, b, c) /\ Holds(fromNode, c, events)
  BY <1>0
<1>2. /\ events \in Nat /\ called \in Nat /\ b \in Nat /\ c \in Nat /\ called <= b /\ b <= c /\ c <= events
      /\ fromNode \in Seq(Tagged) /\ cbQueue \in Seq(Tagged) /\ rmsg \in Tagged \cup {Null}
  BY LinkAssumption DEF EInv, TInv, LineTyped, CbTyped, LinkAssumption, Tags
\* What is under way moves on.
<1>3. ASSUME NEW x \in called' .. events', NEW y \in x .. events',
             Holds(cbQueue', called', x), Holds(InHand', x, y), Holds(fromNode', y, events')
      PROVE  InOrder'
  BY <1>3 DEF InOrder
<1>4. ASSUME UNCHANGED <<cbQueue, called, fromNode, events>>, InHand' = InHand PROVE InOrder'
  BY <1>1, <1>3, <1>4
<1>5. ASSUME UNCHANGED <<rmsg, rpc, rk>> PROVE InHand' = InHand
  BY <1>5 DEF InHand
<1>6. Holds(<<>>, b, c) => b = c
  BY <1>2, HoldsNone
<1>7. ASSUME NEW x \in Nat PROVE Holds(<<>>, x, x)
  BY <1>7, HoldsNone
<1>8. ASSUME NEW t \in Clients, NEW k \in Calls(t), Call(t, k[1], k[2]) PROVE InOrder'
  <2>1. /\ fromNode' = [i \in DOMAIN fromNode |-> Orphan(fromNode[i], t)]
        /\ rmsg' = Orphan(rmsg, t) /\ UNCHANGED <<rpc, rk, cbQueue, called, events>>
    BY <1>8 DEF Call, Disown, cb
  <2>2. Holds(fromNode', c, events')
    <3>1. DOMAIN fromNode' = DOMAIN fromNode
          /\ \A i \in DOMAIN fromNode : /\ fromNode'[i].type = fromNode[i].type
                                        /\ fromNode'[i].seq = fromNode[i].seq
      BY <1>2, <2>1, OrphansAreTagged
    <3> QED
      BY <1>1, <2>1, <3>1, HoldsSame
  <2>3. rmsg'.type = rmsg.type /\ rmsg'.seq = rmsg.seq
    BY <1>2, <2>1, OrphansAreTagged
  <2>4. (InHand = <<rmsg>> /\ InHand' = <<rmsg'>>) \/ (InHand = <<>> /\ InHand' = <<>>)
    BY <2>1, <2>3 DEF InHand, Reported
  <2>5. Holds(InHand', b, c)
    <3>1. CASE InHand = <<rmsg>> /\ InHand' = <<rmsg'>>
      BY <1>1, <1>2, <2>3, <3>1, HoldsOne DEF Reported
    <3>2. CASE InHand = <<>> /\ InHand' = <<>>
      BY <1>1, <3>2
    <3> QED
      BY <2>4, <3>1, <3>2
  <2> QED
    BY <1>1, <1>3, <2>1, <2>2, <2>5
<1>9. CASE NodeAnswer
  <2>1. PICK f \in Seq(Quiet) : fromNode' = fromNode \o f
    BY <1>9, AnswersAreQuiet DEF EInv
  <2>2. UNCHANGED <<rmsg, rpc, rk, cbQueue, called, events>>
    BY <1>9 DEF NodeAnswer, reader, cb
  <2>3. Holds(f, events, events)
    BY <1>2, HoldsNone DEF Quiet
  <2>4. Holds(fromNode', c, events')
    BY <1>1, <1>2, <2>1, <2>2, <2>3, QuietAreTagged, HoldsConcat
  <2> QED
    BY <1>1, <1>3, <1>5, <2>2, <2>4
<1>10. CASE NodeEvent
  <2>1. PICK m \in Tagged : /\ fromNode' = Append(fromNode, m)
                            /\ Reported(m) /\ m.seq = events + 1 /\ events' = events + 1
    BY <1>10, EventIsNext DEF EInv
  <2>2. UNCHANGED <<rmsg, rpc, rk, cbQueue, called>>
    BY <1>10 DEF NodeEvent, reader, cb
  <2>3. fromNode' = fromNode \o <<m>> /\ <<m>> \in Seq(Tagged)
    BY <1>2, <2>1
  <2>4. Holds(<<m>>, events, events + 1)
    BY <1>2, <2>1, HoldsOne
  <2>5. Holds(fromNode', c, events')
    <3>1. events + 1 \in Nat /\ events <= events + 1
      BY <1>2
    <3>2. Holds(fromNode \o <<m>>, c, events + 1)
      BY <1>1, <1>2, <2>3, <2>4, <3>1, HoldsConcat
    <3> QED
      BY <2>1, <2>3, <3>2
  <2>6. b \in called' .. events' /\ c \in b .. events'
    BY <1>2, <2>1, <2>2
  <2> QED
    BY <1>1, <1>3, <1>5, <2>2, <2>5, <2>6
<1>11. CASE ReadMessage
  <2>1. /\ fromNode # <<>> /\ rmsg' = Head(fromNode) /\ fromNode' = Tail(fromNode)
        /\ rk' = 1 /\ rpc = "read" /\ UNCHANGED <<cbQueue, called, events>>
    BY <1>11 DEF ReadMessage, cb
  <2>2. rmsg = Null
    BY <2>1 DEF EInv, TInv, ReaderTyped
  <2>3. b = c
    BY <1>1, <1>6, <2>2, QuietAreTagged DEF InHand
  <2>4. PICK mid \in c .. events : Holds(<<rmsg'>>, c, mid) /\ Holds(fromNode', mid, events)
    BY <1>1, <1>2, <2>1, HoldsSplit
  <2>5. Holds(InHand', c, mid)
    <3>1. CASE Reported(rmsg')
      <4>1. rmsg' \in Tagged
        BY <1>2, <2>1, HeadTailProperties
      <4>2. \E k \in 1 .. Len(Listeners) : Listeners[k] = rmsg'.type
        BY <3>1, <4>1 DEF Tagged, OneListenerEach
      <4>3. InHand' = <<rmsg'>>
        BY <2>1, <3>1, <4>2 DEF InHand
      <4> QED
        BY <2>4, <4>3
    <3>2. CASE ~Reported(rmsg')
      <4>1. InHand' = <<>>
        BY <3>2 DEF InHand
      <4>2. mid \in Nat /\ c <= mid
        BY <1>2
      <4>3. mid = c
        BY <1>2, <2>4, <3>2, <4>2, HoldsOne
      <4> QED
        BY <1>2, <1>7, <4>1, <4>3
    <3> QED
      BY <3>1, <3>2
  <2>6. b \in called' .. events' /\ mid \in b .. events'
    BY <1>2, <2>1, <2>3
  <2> QED
    BY <1>1, <1>3, <2>1, <2>3, <2>4, <2>5, <2>6
<1>12. CASE QueueCallback
  <2>1. /\ rpc = "callbacks" /\ rk <= Len(Listeners) /\ Listeners[rk] = rmsg.type
        /\ cbQueue' = Append(cbQueue, rmsg) /\ rk' = rk + 1
        /\ UNCHANGED <<rpc, rmsg, called, fromNode, events>>
    BY <1>12 DEF QueueCallback, line
  <2>2. rk \in 1 .. Len(Listeners) /\ rmsg \in Tagged /\ Len(Listeners) \in Nat
    <3>1. rk \in Nat \ {0} /\ rmsg \in Received /\ Len(Listeners) \in Nat
      BY <2>1, LinkAssumption DEF EInv, TInv, ReaderTyped, LinkAssumption
    <3>2. rmsg # Null
      BY <3>1 DEF Received, Types, Null, Pointer
    <3> QED
      BY <1>2, <2>1, <3>1, <3>2
  <2>3. Holds(<<rmsg>>, b, c)
    <3>1. CASE Reported(rmsg)
      <4>1. rk \in rk .. Len(Listeners)
        BY <2>2
      <4>2. InHand = <<rmsg>>
        BY <2>1, <3>1, <4>1 DEF InHand
      <4> QED
        BY <1>1, <4>2
    <3>2. CASE ~Reported(rmsg)
      <4>1. b = c
        BY <1>1, <1>6, <3>2 DEF InHand
      <4> QED
        BY <1>2, <3>2, <4>1, HoldsOne
    <3> QED
      BY <3>1, <3>2
  <2>4. cbQueue' = cbQueue \o <<rmsg>> /\ <<rmsg>> \in Seq(Tagged)
    <3>1. rmsg \in Tagged /\ cbQueue \in Seq(Tagged)
      BY <1>2, <2>2
    <3>2. cbQueue' = Append(cbQueue, rmsg)
      BY <2>1
    <3> QED
      BY <3>1, <3>2
  <2>5. Holds(cbQueue', called', c)
    BY <1>1, <1>2, <2>1, <2>3, <2>4, HoldsConcat
  \* No other listener is served with the message.
  <2>6. InHand' = <<>>
    <3>1. ASSUME Reported(rmsg), NEW k \in rk + 1 .. Len(Listeners), Listeners[k] = rmsg.type PROVE FALSE
      <4>1. rmsg.type \in Reports /\ k \in 1 .. Len(Listeners) /\ k # rk
        BY <2>2, <3>1 DEF Tagged
      <4> QED
        BY <2>1, <2>2, <3>1, <4>1 DEF OneListenerEach
    <3> QED
      BY <2>1, <3>1 DEF InHand
  <2>7. c \in called' .. events' /\ c \in c .. events'
    BY <1>2, <2>1
  <2> QED
    BY <1>1, <1>2, <1>3, <1>7, <2>1, <2>5, <2>6, <2>7
<1>13. CASE StartCallback
  <2>1. /\ cbQueue # <<>> /\ cbMsg' = Head(cbQueue) /\ cbQueue' = Tail(cbQueue)
        /\ called' = (IF cbMsg'.seq > 0 THEN cbMsg'.seq ELSE called)
        /\ UNCHANGED <<fromNode, events, rmsg, rpc, rk>>
    BY <1>13 DEF StartCallback, line, reader
  <2>2. PICK mid \in called .. b : Holds(<<cbMsg'>>, called, mid) /\ Holds(cbQueue', mid, b)
    BY <1>1, <1>2, <2>1, HoldsSplit
  <2>3. cbMsg' \in Tagged
    BY <1>2, <2>1, HeadTailProperties
  <2>4. mid \in Nat /\ called <= mid
    BY <1>2
  <2>5. IF Reported(cbMsg') THEN mid = called + 1 /\ cbMsg'.seq = mid ELSE mid = called
    BY <1>2, <2>2, <2>4, HoldsOne
  <2>6. called' = mid
    <3>1. CASE Reported(cbMsg')
      BY <1>2, <2>1, <2>4, <2>5, <3>1
    <3>2. CASE ~Reported(cbMsg')
      <4>1. cbMsg'.seq = 0
        BY <2>3, <3>2 DEF Tagged
      <4> QED
        BY <2>1, <2>5, <3>2, <4>1
    <3> QED
      BY <3>1, <3>2
  <2>7. b \in called' .. events'
    BY <1>2, <2>1, <2>2, <2>6
  <2> QED
    BY <1>1, <1>3, <1>5, <2>1, <2>2, <2>6, <2>7
<1>14. CASE Reader /\ ~ReadMessage /\ ~QueueCallback
  BY <1>4, <1>14, StillInHand DEF Reader
<1>15. ASSUME NEW t \in Clients, Client(t) \/ Expire(t) \/ SpuriousWakeup(t) PROVE InOrder'
  <2>1. UNCHANGED <<rmsg, rpc, rk, cbQueue, called, fromNode, events>>
    BY <1>15 DEF Client, LockLink, WriteMessage, TakeSlot, BadDeadline, NextSlot, NoFreeSlot, Woken,
       TimedOut, Expire, SpuriousWakeup, line, reader, cb
  <2> QED
    BY <1>4, <1>5, <2>1
<1>16. CASE UNCHANGED vars \/ EndCallback \/ Destroy
  <2>1. UNCHANGED <<rmsg, rpc, rk, cbQueue, called, fromNode, events>>
    BY <1>16 DEF vars, line, reader, cb, EndCallback, Destroy
  <2> QED
    BY <1>4, <1>5, <2>1
<1> QED
  BY <1>8, <1>9, <1>10, <1>11, <1>12, <1>13, <1>14, <1>15, <1>16 DEF Next

LEMMA NextEInv == OneListenerEach /\ "nomem" \notin Faults => (EInv /\ [Next]_vars => EInv')
<1> SUFFICES ASSUME OneListenerEach, "nomem" \notin Faults, EInv, [Next]_vars PROVE EInv'
  OBVIOUS
<1>1. TInv' /\ Tags'
  BY NextTInv, TagsStep DEF EInv
<1> QED
  BY <1>1, InOrderStep DEF EInv

LEMMA InOrderImplies == EInv => EventsInOrder
<1> SUFFICES ASSUME EInv PROVE EventsInOrder
  OBVIOUS
<1>0. PICK b \in called .. events : \E c \in b .. events :
        Holds(cbQueue, called, b) /\ Holds(InHand, b, c) /\ Holds(fromNode, c, events)
  BY DEF EInv, InOrder
<1>1. PICK c \in b .. events :
        Holds(cbQueue, called, b) /\ Holds(InHand, b, c) /\ Holds(fromNode, c, events)
  BY <1>0
<1>2. /\ events \in Nat /\ called \in Nat /\ b \in Nat /\ c \in Nat /\ called <= b /\ b <= c /\ c <= events
      /\ fromNode \in Seq(Tagged) /\ cbQueue \in Seq(Tagged)
  BY LinkAssumption DEF EInv, TInv, LineTyped, CbTyped, LinkAssumption, Tags
<1>3. InHand \in Seq(Tagged)
  BY QuietAreTagged DEF InHand, EInv, Tags
<1>4. cbQueue \o InHand \in Seq(Tagged) /\ Holds(cbQueue \o InHand, called, c)
  BY <1>1, <1>2, <1>3, HoldsConcat, ConcatProperties
<1>5. Holds((cbQueue \o InHand) \o fromNode, called, events)
  <2>1. called <= c
    BY <1>2
  <2> QED
    BY <1>1, <1>2, <1>4, <2>1, HoldsConcat
<1> QED
  BY <1>5 DEF EventsInOrder


-----------------------------------------------------------------------------
(* A status that was sent finds its waiter                                 *)

\* Between the write of its command and the end of the wait for its status a client has
\* the link for itself.
Sending(t) == \/ pc[t] = "write"
              \/ pc[t] \in {"scan", "wait", "woken", "expired"} /\ want[t] = "STATUS"
Exclusive == \A t \in Clients : Sending(t) => mutex = t

\* A command on the line is the one its client waits for.
CommandsOwn ==
    \A i \in 1 .. Len(toNode) : \A t \in Clients :
        toNode[i].req = t => toNode[i].type = cmd[t] /\ pc[t] \notin {"send", "write"}

\* A status for t is on the line, in the reader's hands before the slot of t, or delivered;
\* or the slot is locked for good.
Owns(m, t) == m.type = "STATUS" /\ m.of = cmd[t]
Arriving(t) ==
    \/ slots[at[t]].locked
    \/ pc[t] = "woken"
    \/ rpc = "bcast" /\ rk = at[t]
    \/ \E i \in 1 .. Len(fromNode) : Owns(fromNode[i], t)
    \/ rpc \in {"queue1", "queue2"} /\ Owns(rmsg, t) /\ rk <= at[t]
ArrivesFor(t) ==
    "STATUS" \in answered[t] /\ pc[t] # "idle" /\ want[t] = "STATUS" => InSlot(t) /\ Arriving(t)

\* Only a call that is over has returned something.
Returned ==
    \A t \in Clients :
        /\ op[t] # "erase"
        /\ pc[t] # "idle" => ret[t] = "NONE"
        /\ pc[t] = "idle" /\ ret[t] = "NOMESSAGE" /\ want[t] = "STATUS" => "STATUS" \notin answered[t]

AInv == /\ MInv /\ Exclusive /\ CommandsOwn /\ Returned
        /\ answered \in [Clients -> SUBSET Types]
        /\ \A t \in Clients : ArrivesFor(t)

LEMMA InitAInv == Init => AInv
<1> SUFFICES ASSUME Init PROVE AInv
  OBVIOUS
<1>1. Exclusive /\ CommandsOwn /\ Returned /\ \A t \in Clients : ArrivesFor(t)
  BY DEF Init, Exclusive, Sending, CommandsOwn, Returned, ArrivesFor
<1> QED
  BY <1>1, InitMInv DEF AInv, Init

\* Who ends a wait is no longer sending, and gives the link back if it had it.
LEMMA SendingEnds ==
  ASSUME TInv, NEW t \in Clients, NEW r, NEW b, EndWait(t, r, b),
         pc[t] \in {"scan", "wait", "woken", "expired"}
  PROVE  /\ pc'[t] = "idle" \/ (pc'[t] = "scan" /\ want'[t] # "STATUS")
         /\ mutex' = IF want[t] = "STATUS" THEN Nobody ELSE mutex
         /\ \A u \in Clients \ {t} : pc'[u] = pc[u] /\ want'[u] = want[u] /\ at'[u] = at[u]
         /\ UNCHANGED <<op, cmd, answered>>
<1>1. PICK w \in Follows(t, r) :
        IF w # None
           THEN pc' = [pc EXCEPT ![t] = "scan"] /\ want' = [want EXCEPT ![t] = w]
           ELSE pc' = [pc EXCEPT ![t] = "idle"] /\ UNCHANGED want
  BY DEF EndWait
<1>2. w # None => w \in {"RESPONSE", "ANYSTATUS"}
  BY DEF Follows
<1>3. /\ mutex' = (IF want[t] = "STATUS" THEN Nobody ELSE mutex)
      /\ at' = [at EXCEPT ![t] = 1] /\ UNCHANGED <<op, cmd, answered>>
  BY DEF EndWait
<1> QED
  BY <1>1, <1>2, <1>3 DEF TInv, IInv, Shape

LEMMA ExclusiveStep ==
  ASSUME TInv, Exclusive, [Next]_vars
  PROVE  Exclusive'
<1>1. /\ pc \in [Clients -> ClientPlaces] /\ want \in [Clients -> Wants] /\ Nobody \notin Clients
  BY LinkAssumption DEF TInv, IInv, Shape, LinkAssumption
<1>2. ASSUME UNCHANGED mutex, \A u \in Clients : Sending(u)' => Sending(u) PROVE Exclusive'
  BY <1>2 DEF Exclusive
<1>3. ASSUME NEW t \in Clients, NEW k \in Calls(t), Call(t, k[1], k[2]) PROVE Exclusive'
  <2>1. /\ pc' = [pc EXCEPT ![t] = "send"] /\ want' = [want EXCEPT ![t] = "STATUS"] /\ UNCHANGED mutex
    BY <1>3 DEF Call
  <2>2. \A u \in Clients : Sending(u)' => Sending(u)
    BY <1>1, <2>1 DEF Sending
  <2> QED
    BY <1>2, <2>1, <2>2
<1>4. ASSUME NEW t \in Clients, LockLink(t) PROVE Exclusive'
  <2>1. /\ mutex = Nobody /\ mutex' = t /\ pc' = [pc EXCEPT ![t] = "write"] /\ UNCHANGED want
    BY <1>4 DEF LockLink
  <2>2. \A u \in Clients : ~Sending(u)
    BY <1>1, <2>1 DEF Exclusive
  <2>3. \A u \in Clients : Sending(u)' => u = t
    BY <1>1, <2>1, <2>2 DEF Sending
  <2> QED
    BY <2>1, <2>3 DEF Exclusive
<1>5. ASSUME NEW t \in Clients, WriteMessage(t) PROVE Exclusive'
  <2>1. /\ pc[t] = "write" /\ UNCHANGED want
        /\ \/ pc' = [pc EXCEPT ![t] = "idle"] /\ mutex' = Nobody
           \/ pc' = [pc EXCEPT ![t] = "scan"] /\ UNCHANGED mutex
    BY <1>5 DEF WriteMessage
  <2>2. mutex = t /\ \A u \in Clients : Sending(u) => u = t
    BY <2>1 DEF Exclusive, Sending
  <2>3. \A u \in Clients : Sending(u)' => u = t /\ pc'[t] = "scan"
    BY <1>1, <2>1, <2>2 DEF Sending
  <2> QED
    BY <1>1, <2>1, <2>2, <2>3 DEF Exclusive
<1>6. ASSUME NEW t \in Clients, NEW r, NEW b, EndWait(t, r, b),
             pc[t] \in {"scan", "wait", "woken", "expired"}
      PROVE  Exclusive'
  <2>1. /\ pc'[t] = "idle" \/ (pc'[t] = "scan" /\ want'[t] # "STATUS")
        /\ mutex' = IF want[t] = "STATUS" THEN Nobody ELSE mutex
        /\ \A u \in Clients \ {t} : pc'[u] = pc[u] /\ want'[u] = want[u]
    BY <1>6, SendingEnds
  <2>2. \A u \in Clients : Sending(u)' => u # t /\ Sending(u)
    BY <2>1 DEF Sending
  <2>3. want[t] = "STATUS" => mutex = t
    BY <1>6 DEF Exclusive, Sending
  <2> QED
    BY <2>1, <2>2, <2>3 DEF Exclusive
<1>7. ASSUME NEW t \in Clients, BadDeadline(t) \/ NoFreeSlot(t) \/ Woken(t) \/ TimedOut(t)
      PROVE  Exclusive'
  BY <1>6, <1>7 DEF BadDeadline, NoFreeSlot, Woken, TimedOut, Expired
<1>8. ASSUME NEW t \in Clients, TakeSlot(t) \/ NextSlot(t) \/ Expire(t) \/ SpuriousWakeup(t)
      PROVE  Exclusive'
  <2>1. /\ UNCHANGED <<mutex, want>> /\ pc[t] \in {"scan", "wait"}
        /\ pc' = pc \/ \E p \in {"wait", "expired", "woken"} : pc' = [pc EXCEPT ![t] = p]
    BY <1>8 DEF TakeSlot, NextSlot, Expire, SpuriousWakeup
  <2>2. \A u \in Clients : Sending(u)' => Sending(u)
    BY <1>1, <2>1 DEF Sending
  <2> QED
    BY <1>2, <2>1, <2>2
<1>9. CASE BroadcastSlot \/ ClearSlot
  <2>1. UNCHANGED <<mutex, want>> /\ \E k : Wake(k)
    BY <1>9 DEF BroadcastSlot, ClearSlot
  <2>2. \A u \in Clients : Sending(u)' => Sending(u)
    BY <1>1, <2>1 DEF Sending, Wake
  <2> QED
    BY <1>2, <2>1, <2>2
<1>10. ASSUME UNCHANGED <<mutex, pc, want>> PROVE Exclusive'
  BY <1>10 DEF Exclusive, Sending
<1>11. CASE UNCHANGED vars \/ NodeAnswer \/ NodeEvent \/ StartCallback \/ EndCallback \/ Destroy
  BY <1>10, <1>11 DEF vars, client, NodeAnswer, NodeEvent, StartCallback, EndCallback, Destroy
<1>12. CASE Reader /\ ~BroadcastSlot /\ ~ClearSlot
  BY <1>10, <1>12 DEF Reader, client, ReadMessage, Deliver, TryNextSlot, NoListener, DeliverNoMem,
     Resubmit, QueueCallback, SkipListener, ListenersDone, ReaderExit
<1> QED
  BY <1>3, <1>4, <1>5, <1>7, <1>8, <1>9, <1>11, <1>12 DEF Next, Client

LEMMA CommandsOwnStep ==
  ASSUME TInv, CommandsOwn, [Next]_vars
  PROVE  CommandsOwn'
<1>1. /\ pc \in [Clients -> ClientPlaces] /\ CallsTyped /\ toNode \in Seq(Written)
      /\ Nobody \notin Clients
  BY LinkAssumption DEF TInv, IInv, Shape, LineTyped, LinkAssumption
<1>2. ASSUME UNCHANGED <<toNode, cmd>>,
             \A u \in Clients : pc'[u] \in {"send", "write"} => pc[u] \in {"send", "write"}
      PROVE  CommandsOwn'
  BY <1>2 DEF CommandsOwn
<1>3. ASSUME NEW t \in Clients, NEW k \in Calls(t), Call(t, k[1], k[2]) PROVE CommandsOwn'
  <2>1. /\ toNode' = [i \in DOMAIN toNode |-> Orphan(toNode[i], t)]
        /\ pc' = [pc EXCEPT ![t] = "send"] /\ cmd' = [cmd EXCEPT ![t] = k[2]]
    BY <1>3 DEF Call, Disown
  <2>2. Len(toNode') = Len(toNode) /\ \A i \in 1 .. Len(toNode) : toNode'[i] = Orphan(toNode[i], t)
    BY <1>1, <2>1, Orphans, OrphanedSeq
  <2>3. \A m \in Written : /\ Orphan(m, t).req # t
                           /\ \A u \in Clients : Orphan(m, t).req = u => Orphan(m, t) = m
    BY <1>1 DEF Orphan, Written
  <2> QED
    BY <1>1, <2>1, <2>2, <2>3 DEF CommandsOwn, CallsTyped
<1>4. ASSUME NEW t \in Clients, WriteMessage(t) PROVE CommandsOwn'
  <2> DEFINE m == [type |-> cmd[t], req |-> IF op[t] = "nowait" THEN Nobody ELSE t]
  <2>1. /\ pc[t] = "write" /\ toNode' = Append(toNode, m) /\ UNCHANGED cmd
        /\ pc' = [pc EXCEPT ![t] = "idle"] \/ pc' = [pc EXCEPT ![t] = "scan"]
    BY <1>4 DEF WriteMessage
  <2>2. m.type = cmd[t] /\ \A u \in Clients : m.req = u => u = t
    BY <1>1
  <2> HIDE DEF m
  <2>3. /\ Len(toNode') = Len(toNode) + 1 /\ Len(toNode) \in Nat
        /\ \A i \in 1 .. Len(toNode') : (i \in 1 .. Len(toNode) /\ toNode'[i] = toNode[i]) \/ toNode'[i] = m
    BY <1>1, <2>1
  <2>4. pc'[t] \notin {"send", "write"} /\ \A u \in Clients \ {t} : pc'[u] = pc[u]
    BY <1>1, <2>1
  <2> QED
    BY <2>1, <2>2, <2>3, <2>4 DEF CommandsOwn
<1>5. ASSUME NEW t \in Clients, LockLink(t) PROVE CommandsOwn'
  <2>1. pc[t] = "send" /\ pc' = [pc EXCEPT ![t] = "write"] /\ UNCHANGED <<toNode, cmd>>
    BY <1>5 DEF LockLink, line
  <2> QED
    BY <1>1, <1>2, <2>1
<1>6. CASE NodeAnswer
  <2>1. toNode # <<>> /\ toNode' = Tail(toNode) /\ UNCHANGED <<pc, cmd>>
    BY <1>6 DEF NodeAnswer
  <2>2. /\ Len(toNode') = Len(toNode) - 1 /\ Len(toNode) \in Nat
        /\ \A i \in 1 .. Len(toNode') : toNode'[i] = toNode[i + 1]
    BY <1>1, <2>1, HeadTailProperties
  <2>3. \A i \in 1 .. Len(toNode') : i + 1 \in 1 .. Len(toNode)
    BY <2>2
  <2> QED
    BY <2>1, <2>2, <2>3 DEF CommandsOwn
<1>7. ASSUME NEW t \in Clients, BadDeadline(t) \/ NoFreeSlot(t) \/ Woken(t) \/ TimedOut(t)
      PROVE  CommandsOwn'
  <2>1. /\ pc[t] \in {"scan", "wait", "woken", "expired"} /\ \E r, b : EndWait(t, r, b)
        /\ UNCHANGED toNode
    BY <1>7 DEF BadDeadline, NoFreeSlot, Woken, TimedOut, Expired, line
  <2>2. /\ pc'[t] \in {"idle", "scan"} /\ UNCHANGED cmd
        /\ \A u \in Clients \ {t} : pc'[u] = pc[u]
    BY <2>1, SendingEnds
  <2> QED
    BY <1>2, <2>1, <2>2
<1>8. ASSUME NEW t \in Clients, TakeSlot(t) \/ NextSlot(t) \/ Expire(t) \/ SpuriousWakeup(t)
      PROVE  CommandsOwn'
  <2>1. /\ UNCHANGED <<cmd, toNode>>
        /\ pc' = pc \/ \E p \in {"wait", "expired", "woken"} : pc' = [pc EXCEPT ![t] = p]
    BY <1>8 DEF TakeSlot, NextSlot, Expire, SpuriousWakeup, line
  <2>2. \A u \in Clients : pc'[u] \in {"send", "write"} => pc[u] \in {"send", "write"}
    BY <1>1, <2>1
  <2> QED
    BY <1>2, <2>1, <2>2
<1>9. CASE BroadcastSlot \/ ClearSlot
  <2>1. UNCHANGED <<cmd, toNode>> /\ \E k : Wake(k)
    BY <1>9 DEF BroadcastSlot, ClearSlot, line
  <2>2. \A u \in Clients : pc'[u] \in {"send", "write"} => pc[u] \in {"send", "write"}
    BY <1>1, <2>1 DEF Wake
  <2> QED
    BY <1>2, <2>1, <2>2
<1>10. ASSUME UNCHANGED <<toNode, pc, cmd>> PROVE CommandsOwn'
  BY <1>10 DEF CommandsOwn
<1>11. CASE UNCHANGED vars \/ NodeEvent \/ StartCallback \/ EndCallback \/ Destroy
  BY <1>10, <1>11 DEF vars, client, line, NodeEvent, StartCallback, EndCallback, Destroy
<1>12. CASE Reader /\ ~BroadcastSlot /\ ~ClearSlot
  BY <1>10, <1>12 DEF Reader, client, line, ReadMessage, Deliver, TryNextSlot, NoListener, DeliverNoMem,
     Resubmit, QueueCallback, SkipListener, ListenersDone, ReaderExit
<1> QED
  BY <1>3, <1>4, <1>5, <1>6, <1>7, <1>8, <1>9, <1>11, <1>12 DEF Next, Client


\* A locked slot stays locked.
LEMMA LocksStay ==
  ASSUME TInv, [Next]_vars, NEW i \in 1 .. NSlots, slots[i].locked
  PROVE  slots'[i].locked
<1>1. SlotsTyped /\ DOMAIN slots = 1 .. NSlots
  BY DEF TInv, SlotsTyped, Slots
<1>2. ASSUME UNCHANGED slots PROVE slots'[i].locked
  BY <1>2
<1>3. ASSUME NEW k, NEW ty, NEW m,
             \/ slots' = [slots EXCEPT ![k].pu8Message = m]
             \/ slots' = [slots EXCEPT ![k].u16Type = ty]
             \/ slots' = [slots EXCEPT ![k].locked = TRUE]
             \/ slots' = [slots EXCEPT ![k].u16Type = ty, ![k].pu8Message = m]
      PROVE  slots'[i].locked
  BY <1>1, <1>3 DEF SlotsTyped, Slots
<1>4. ASSUME NEW t \in Clients, NEW c \in Calls(t), Call(t, c[1], c[2]) PROVE slots'[i].locked
  <2>1. slots' = [j \in DOMAIN slots |-> [slots[j] EXCEPT !.pu8Message = Orphan(@, t)]]
    BY <1>4 DEF Call, Disown
  <2> QED
    BY <1>1, <2>1 DEF SlotsTyped, Slots
<1>5. ASSUME NEW t \in Clients, Client(t) \/ Expire(t) \/ SpuriousWakeup(t) PROVE slots'[i].locked
  <2>1. CASE LockLink(t) \/ WriteMessage(t) \/ NextSlot(t) \/ NoFreeSlot(t) \/ Expire(t) \/ SpuriousWakeup(t)
    BY <1>2, <2>1 DEF LockLink, WriteMessage, NextSlot, NoFreeSlot, Expire, SpuriousWakeup
  <2>2. CASE TakeSlot(t) \/ BadDeadline(t) \/ Woken(t) \/ TimedOut(t)
    <3> DEFINE k == at[t]
    <3>1. \/ \E m : slots' = [slots EXCEPT ![k].pu8Message = m]
          \/ \E ty : slots' = [slots EXCEPT ![k].u16Type = ty]
          \/ \E ty, m : slots' = [slots EXCEPT ![k].u16Type = ty, ![k].pu8Message = m]
      <4>1. CASE TakeSlot(t)
        BY <4>1 DEF TakeSlot
      <4>2. CASE BadDeadline(t)
        BY <4>2 DEF BadDeadline
      <4>3. CASE Woken(t)
        BY <4>3 DEF Woken
      <4>4. CASE TimedOut(t)
        BY <4>4 DEF TimedOut
      <4> QED
        BY <2>2, <4>1, <4>2, <4>3, <4>4
    <3> HIDE DEF k
    <3> QED
      BY <1>3, <3>1
  <2> QED
    BY <1>5, <2>1, <2>2 DEF Client
<1>6. CASE Deliver \/ DeliverNoMem \/ ClearSlot
  BY <1>3, <1>6 DEF Deliver, DeliverNoMem, ClearSlot
<1>7. CASE Reader /\ ~Deliver /\ ~DeliverNoMem /\ ~ClearSlot
  BY <1>2, <1>7 DEF Reader, ReadMessage, TryNextSlot, NoListener, Resubmit, BroadcastSlot,
     QueueCallback, SkipListener, ListenersDone, ReaderExit
<1>8. CASE UNCHANGED vars \/ NodeAnswer \/ NodeEvent \/ StartCallback \/ EndCallback \/ Destroy
  BY <1>2, <1>8 DEF vars, NodeAnswer, NodeEvent, StartCallback, EndCallback, Destroy
<1> QED
  BY <1>4, <1>5, <1>6, <1>7, <1>8 DEF Next

\* A status in the reader's hands that u waits for matches no slot but that of u: no other
\* client waits for a status.
LEMMA OnlyOneMatches ==
  ASSUME AInv, NEW u \in Clients, InSlot(u), want[u] = "STATUS", Owns(rmsg, u),
         rk \in 1 .. NSlots, Matches(slots[rk])
  PROVE  rk = at[u]
<1>1. slots[rk].u16Type = "STATUS"
  BY DEF Matches, Owns
<1>2. PICK v \in Clients : InSlot(v) /\ at[v] = rk
  BY <1>1 DEF AInv, MInv, TInv, IInv, SlotOwnership, Free
<1>3. SlotType(v) = "STATUS"
  BY <1>1, <1>2 DEF AInv, MInv, TInv, IInv, SlotOwnership
<1>4. want[v] # "ANYSTATUS"
  BY DEF AInv, MInv, CallsMatch, Returned
<1>5. want[v] = "STATUS"
  BY <1>3, <1>4 DEF SlotType
<1>6. Sending(u) /\ Sending(v)
  BY <1>2, <1>5 DEF Sending, InSlot
<1> QED
  BY <1>2, <1>6 DEF AInv, Exclusive

\* What the node answers: statuses and responses to the first command on the line.
LEMMA AnswersToHead ==
  ASSUME TInv, NodeAnswer
  PROVE  \E f \in Seq({Status(Head(toNode)), Response(Head(toNode))}) :
           /\ fromNode' = fromNode \o f
           /\ answered' = [t \in Clients |->
                answered[t] \cup {f[i].type : i \in {j \in DOMAIN f : f[j].req = t /\ pc[t] # "idle"}}]
           /\ Len(f) \in {0, 1, 2}
           /\ Len(f) >= 1 => f[1] = Status(Head(toNode))
           /\ Len(f) = 2 => f[2] = Response(Head(toNode)) /\ Head(toNode).type \in Requests
<1> DEFINE k(a) == IF Len(a) <= LineLength - Len(fromNode) THEN Len(a) ELSE LineLength - Len(fromNode)
           s == Status(Head(toNode))
           r == Response(Head(toNode))
           S == {s, r}
           fits(a) == SubSeq(a, 1, k(a))
<1>1. PICK a \in Answers(Head(toNode)) :
        /\ fromNode' = fromNode \o fits(a)
        /\ answered' = [t \in Clients |->
             answered[t] \cup {fits(a)[i].type : i \in {j \in DOMAIN fits(a) :
                                                  fits(a)[j].req = t /\ pc[t] # "idle"}}]
  BY DEF NodeAnswer
<1>2. Len(fromNode) \in Nat /\ LineLength \in Nat
  BY LinkAssumption DEF TInv, LineTyped, LinkAssumption
<1>3. a = <<s>> \/ (a = <<s, r>> /\ Head(toNode).type \in Requests) \/ a = <<>>
  BY DEF Answers
<1> HIDE DEF s, r
<1>4. a \in Seq(S)
  <2>1. s \in S /\ r \in S
    OBVIOUS
  <2> HIDE DEF S
  <2>2. <<s>> \in Seq(S) /\ <<s, r>> \in Seq(S) /\ <<>> \in Seq(S)
    BY <2>1
  <2> QED
    BY <1>3, <2>2
<1>5. k(a) \in Int /\ Len(a) \in Nat /\ k(a) <= Len(a)
  BY <1>2, <1>4
<1>6. /\ \A i \in 1 .. k(a) : a[i] \in S
      /\ Len(a) \in {0, 1, 2} /\ (Len(a) >= 1 => a[1] = s)
      /\ Len(a) = 2 => a[2] = r /\ Head(toNode).type \in Requests
  BY <1>3, <1>4, <1>5
<1> HIDE DEF k, S
<1>7. /\ fits(a) \in Seq(S) /\ Len(fits(a)) = (IF 1 <= k(a) THEN k(a) - 1 + 1 ELSE 0)
      /\ \A i \in 1 .. k(a) : fits(a)[i] = a[i]
  BY <1>5, <1>6, SubSeqProperties
<1> HIDE DEF fits
<1>8. /\ Len(fits(a)) \in {0, 1, 2} /\ (Len(fits(a)) >= 1 => fits(a)[1] = s)
      /\ Len(fits(a)) = 2 => fits(a)[2] = r /\ Head(toNode).type \in Requests
  <2>1. CASE k(a) <= 0
    <3>1. Len(fits(a)) = 0
      BY <1>5, <1>7, <2>1
    <3> QED
      BY <3>1
  <2>2. CASE k(a) = 1
    <3>1. Len(fits(a)) = 1 /\ fits(a)[1] = a[1] /\ Len(a) >= 1
      BY <1>5, <1>7, <2>2
    <3> QED
      BY <1>6, <3>1
  <2>3. CASE k(a) >= 2
    <3>1. k(a) = 2 /\ Len(a) = 2
      BY <1>5, <1>6, <2>3
    <3>2. Len(fits(a)) = 2 /\ fits(a)[1] = a[1] /\ fits(a)[2] = a[2]
      BY <1>7, <3>1
    <3> QED
      BY <1>6, <3>1, <3>2
  <2> QED
    BY <1>5, <2>1, <2>2, <2>3
<1> QED
  BY <1>1, <1>7, <1>8 DEF S, s, r


\* The node's answers to a client that stands idle are not counted.
LEMMA AnsweredStep ==
  ASSUME AInv, [Next]_vars
  PROVE  /\ answered' \in [Clients -> SUBSET Types]
         /\ \A t \in Clients : pc[t] = "idle" /\ pc'[t] = "idle" => answered'[t] = answered[t]
<1>1. answered \in [Clients -> SUBSET Types] /\ TInv /\ pc \in [Clients -> ClientPlaces]
  BY DEF AInv, MInv, TInv, IInv, Shape
<1> DEFINE R == /\ answered' \in [Clients -> SUBSET Types]
                /\ \A t \in Clients : pc[t] = "idle" /\ pc'[t] = "idle" => answered'[t] = answered[t]
<1>2. ASSUME UNCHANGED answered PROVE R
  BY <1>1, <1>2
<1>3. ASSUME NEW t \in Clients, NEW c \in Calls(t), Call(t, c[1], c[2]) PROVE R
  <2>1. answered' = [answered EXCEPT ![t] = {}] /\ pc' = [pc EXCEPT ![t] = "send"]
    BY <1>3 DEF Call
  <2> QED
    BY <1>1, <2>1
<1>4. CASE NodeAnswer
  <2> DEFINE S == {Status(Head(toNode)), Response(Head(toNode))}
  <2>1. PICK f \in Seq(S) :
          answered' = [t \in Clients |->
            answered[t] \cup {f[i].type : i \in {j \in DOMAIN f : f[j].req = t /\ pc[t] # "idle"}}]
    BY <1>1, <1>4, AnswersToHead
  <2>2. \A m \in S : m.type \in Types
    BY DEF Status, Response, Types
  <2> HIDE DEF S
  <2>3. \A i \in DOMAIN f : f[i].type \in Types
    BY <2>2
  <2>4. \A t \in Clients : answered'[t] =
          answered[t] \cup {f[i].type : i \in {j \in DOMAIN f : f[j].req = t /\ pc[t] # "idle"}}
    BY <2>1
  <2>5. \A t \in Clients : answered'[t] \in SUBSET Types /\ (pc[t] = "idle" => answered'[t] = answered[t])
    <3> SUFFICES ASSUME NEW t \in Clients
                 PROVE  answered'[t] \in SUBSET Types /\ (pc[t] = "idle" => answered'[t] = answered[t])
      OBVIOUS
    <3> DEFINE I == {j \in DOMAIN f : f[j].req = t /\ pc[t] # "idle"}
    <3>1. I \subseteq DOMAIN f /\ (pc[t] = "idle" => I = {})
      OBVIOUS
    <3>2. answered'[t] = answered[t] \cup {f[i].type : i \in I}
      BY <2>4
    <3> HIDE DEF I
    <3> QED
      BY <1>1, <2>3, <3>1, <3>2
  <2>6. answered' \in [Clients -> SUBSET Types]
    BY <2>1, <2>5
  <2> QED
    BY <2>5, <2>6
<1>5. ASSUME NEW t \in Clients, Client(t) \/ Expire(t) \/ SpuriousWakeup(t) PROVE R
  BY <1>2, <1>5 DEF Client, LockLink, WriteMessage, TakeSlot, BadDeadline, NextSlot, NoFreeSlot,
     Woken, TimedOut, EndWait, Expire, SpuriousWakeup
<1>6. CASE Reader
  BY <1>2, <1>6 DEF Reader, client, ReadMessage, Deliver, TryNextSlot, NoListener, DeliverNoMem,
     Resubmit, BroadcastSlot, QueueCallback, SkipListener, ListenersDone, ReaderExit, ClearSlot
<1>7. CASE UNCHANGED vars \/ NodeEvent \/ StartCallback \/ EndCallback \/ Destroy
  BY <1>2, <1>7 DEF vars, client, NodeEvent, StartCallback, EndCallback, Destroy
<1> QED
  BY <1>3, <1>4, <1>5, <1>6, <1>7 DEF Next

\* A patient timeout, while the reader is not blocked, finds no status under way.
LEMMA NothingArrives ==
  ASSUME AInv, ~ReaderBlocked, NEW t \in Clients, TimedOut(t), want[t] = "STATUS"
  PROVE  "STATUS" \notin answered[t]
<1>1. /\ pc[t] = "wait" /\ fromNode = <<>> /\ rpc \in {"read", "stopped"} /\ ~slots[at[t]].locked
  BY DEF TimedOut, Expired, Overdue, AInv, MInv, Patient
<1>2. ~Arriving(t)
  BY <1>1 DEF Arriving
<1> QED
  BY <1>1, <1>2 DEF AInv, ArrivesFor

\* Nobody returns without a status that the node has sent.
LEMMA ReturnedStep ==
  ASSUME AInv, ~ReaderBlocked, [Next]_vars, Erases = {}
  PROVE  Returned'
<1>1. /\ Returned /\ TInv /\ CallsTyped /\ pc \in [Clients -> ClientPlaces] /\ want \in [Clients -> Wants]
      /\ \A t \in Clients : pc[t] = "idle" /\ pc'[t] = "idle" => answered'[t] = answered[t]
  BY AnsweredStep DEF AInv, MInv, TInv, IInv, Shape
<1>2. ASSUME UNCHANGED <<op, ret, want>>,
             \A u \in Clients : pc[u] = "idle" <=> pc'[u] = "idle"
      PROVE  Returned'
  BY <1>1, <1>2 DEF Returned
<1>3. ASSUME NEW t \in Clients, NEW c \in Calls(t), Call(t, c[1], c[2]) PROVE Returned'
  <2>1. /\ op' = [op EXCEPT ![t] = c[1]] /\ pc' = [pc EXCEPT ![t] = "send"]
        /\ ret' = [ret EXCEPT ![t] = "NONE"] /\ want' = [want EXCEPT ![t] = "STATUS"]
    BY <1>3 DEF Call
  <2>2. c[1] # "erase"
    BY <1>3 DEF Calls
  <2>3. \A u \in Clients \ {t} : pc'[u] = pc[u] /\ op'[u] = op[u] /\ ret'[u] = ret[u] /\ want'[u] = want[u]
    BY <1>1, <2>1 DEF CallsTyped
  <2>4. op'[t] # "erase" /\ pc'[t] = "send" /\ ret'[t] = "NONE"
    BY <1>1, <2>1, <2>2 DEF CallsTyped
  <2> QED
    BY <1>1, <2>3, <2>4 DEF Returned
<1>4. ASSUME NEW t \in Clients, WriteMessage(t) PROVE Returned'
  <2>1. /\ UNCHANGED <<op, want>> /\ pc[t] = "write"
        /\ \/ pc' = [pc EXCEPT ![t] = "idle"] /\ ret' = [ret EXCEPT ![t] = "OK"]
           \/ pc' = [pc EXCEPT ![t] = "scan"] /\ UNCHANGED ret
    BY <1>4 DEF WriteMessage
  <2>2. \A u \in Clients \ {t} : pc'[u] = pc[u] /\ ret'[u] = ret[u]
    BY <1>1, <2>1 DEF CallsTyped
  <2>3. (pc'[t] = "idle" /\ ret'[t] = "OK") \/ (pc'[t] = "scan" /\ ret'[t] = ret[t])
    BY <1>1, <2>1 DEF CallsTyped
  <2> QED
    BY <1>1, <2>1, <2>2, <2>3 DEF Returned
<1>5. ASSUME NEW t \in Clients, NEW r, NEW b, EndWait(t, r, b), pc[t] # "idle",
             r = "NOMESSAGE" /\ want[t] = "STATUS" => "STATUS" \notin answered[t]
      PROVE  Returned'
  <2>1. PICK w \in Follows(t, r) :
          IF w # None
             THEN pc' = [pc EXCEPT ![t] = "scan"] /\ want' = [want EXCEPT ![t] = w] /\ UNCHANGED ret
             ELSE pc' = [pc EXCEPT ![t] = "idle"] /\ ret' = [ret EXCEPT ![t] = r] /\ UNCHANGED want
    BY <1>5 DEF EndWait
  <2>2. UNCHANGED <<op, answered>>
    BY <1>5 DEF EndWait
  <2>3. \A u \in Clients \ {t} : pc'[u] = pc[u] /\ ret'[u] = ret[u] /\ want'[u] = want[u]
    BY <1>1, <2>1 DEF CallsTyped
  <2>4. \/ pc'[t] = "scan" /\ ret'[t] = ret[t]
        \/ pc'[t] = "idle" /\ ret'[t] = r /\ want'[t] = want[t]
    BY <1>1, <2>1 DEF CallsTyped
  <2> QED
    BY <1>1, <1>5, <2>2, <2>3, <2>4 DEF Returned
<1>6. ASSUME NEW t \in Clients, BadDeadline(t) \/ NoFreeSlot(t) \/ Woken(t) \/ TimedOut(t)
      PROVE  Returned'
  <2>1. CASE TimedOut(t)
    <3>1. EndWait(t, "NOMESSAGE", Null) /\ pc[t] # "idle"
      BY <2>1 DEF TimedOut, Expired
    <3>2. want[t] = "STATUS" => "STATUS" \notin answered[t]
      BY <2>1, NothingArrives
    <3> QED
      BY <1>5, <3>1, <3>2
  <2>2. CASE BadDeadline(t) \/ NoFreeSlot(t) \/ Woken(t)
    <3>1. pc[t] # "idle" /\ \E r \in {"ERROR", "OK"} : \E b : EndWait(t, r, b)
      BY <2>2 DEF BadDeadline, NoFreeSlot, Woken
    <3> QED
      BY <1>5, <3>1
  <2> QED
    BY <1>6, <2>1, <2>2
<1>7. ASSUME NEW t \in Clients, LockLink(t) \/ TakeSlot(t) \/ NextSlot(t) \/ Expire(t) \/ SpuriousWakeup(t)
      PROVE  Returned'
  <2>1. /\ UNCHANGED <<op, ret, want>> /\ pc[t] # "idle"
        /\ pc' = pc \/ \E p \in {"write", "wait", "expired", "woken"} : pc' = [pc EXCEPT ![t] = p]
    BY <1>7 DEF LockLink, TakeSlot, NextSlot, Expire, SpuriousWakeup
  <2>2. \A u \in Clients : pc[u] = "idle" <=> pc'[u] = "idle"
    BY <1>1, <2>1
  <2> QED
    BY <1>2, <2>1, <2>2
<1>8. CASE BroadcastSlot \/ ClearSlot
  <2>1. UNCHANGED <<op, ret, want>> /\ \E k : Wake(k)
    BY <1>8 DEF BroadcastSlot, ClearSlot
  <2>2. \A u \in Clients : pc[u] = "idle" <=> pc'[u] = "idle"
    BY <1>1, <2>1 DEF Wake
  <2> QED
    BY <1>2, <2>1, <2>2
<1>9. ASSUME UNCHANGED <<op, ret, want, pc>> PROVE Returned'
  BY <1>2, <1>9
<1>10. CASE UNCHANGED vars \/ NodeAnswer \/ NodeEvent \/ StartCallback \/ EndCallback \/ Destroy
  BY <1>9, <1>10 DEF vars, client, NodeAnswer, NodeEvent, StartCallback, EndCallback, Destroy
<1>11. CASE Reader /\ ~BroadcastSlot /\ ~ClearSlot
  BY <1>9, <1>11 DEF Reader, client, ReadMessage, Deliver, TryNextSlot, NoListener, DeliverNoMem,
     Resubmit, QueueCallback, SkipListener, ListenersDone, ReaderExit
<1> QED
  BY <1>3, <1>4, <1>6, <1>7, <1>8, <1>10, <1>11 DEF Next, Client


\* What can keep a status from arriving: the reader moves with it.  Everything else stays.
LEMMA ArrivingKept ==
  ASSUME NEW u \in Clients, at'[u] = at[u], cmd'[u] = cmd[u],
         slots[at[u]].locked => slots'[at[u]].locked,
         pc[u] = "woken" => pc'[u] = "woken",
         \A i \in 1 .. Len(fromNode) : Owns(fromNode[i], u) => Arriving(u)',
         rpc = "bcast" /\ rk = at[u] => Arriving(u)',
         rpc \in {"queue1", "queue2"} /\ Owns(rmsg, u) /\ rk <= at[u] => Arriving(u)',
         Arriving(u)
  PROVE  Arriving(u)'
BY DEF Arriving

\* A step that neither answers u nor moves it, but perhaps wakes it.
LEMMA ArrivesStays ==
  ASSUME NEW u \in Clients, ArrivesFor(u), answered'[u] = answered[u], want'[u] = want[u],
         pc'[u] = pc[u] \/ (pc[u] = "wait" /\ pc'[u] = "woken"),
         InSlot(u) /\ want[u] = "STATUS" /\ Arriving(u) => Arriving(u)'
  PROVE  ArrivesFor(u)'
BY DEF ArrivesFor, InSlot

\* The reader does not carry a status; the line keeps what it holds.
LEMMA LineArrives ==
  ASSUME NEW u \in Clients, at'[u] = at[u], cmd'[u] = cmd[u],
         \A i \in 1 .. Len(fromNode) :
            Owns(fromNode[i], u) => \E j \in 1 .. Len(fromNode') :
                                       /\ fromNode'[j].type = fromNode[i].type
                                       /\ fromNode'[j].of = fromNode[i].of
  PROVE  \A i \in 1 .. Len(fromNode) : Owns(fromNode[i], u) => Arriving(u)'
BY DEF Owns, Arriving

\* The reader and the line stay, up to the marks of earlier calls and to what is added.
LEMMA ReaderStays ==
  ASSUME TInv, [Next]_vars, NEW u \in Clients, ArrivesFor(u),
         answered'[u] = answered[u], want'[u] = want[u], at'[u] = at[u], cmd'[u] = cmd[u],
         pc'[u] = pc[u] \/ (pc[u] = "wait" /\ pc'[u] = "woken"),
         UNCHANGED <<rpc, rk>>, rmsg'.type = rmsg.type, rmsg'.of = rmsg.of,
         \A i \in 1 .. Len(fromNode) :
            \E j \in 1 .. Len(fromNode') : /\ fromNode'[j].type = fromNode[i].type
                                           /\ fromNode'[j].of = fromNode[i].of
  PROVE  ArrivesFor(u)'
<1> SUFFICES ASSUME InSlot(u), Arriving(u) PROVE Arriving(u)'
  BY ArrivesStays
<1>1. slots[at[u]].locked => slots'[at[u]].locked
  BY LocksStay DEF TInv, IInv, Shape
<1>2. \A i \in 1 .. Len(fromNode) : Owns(fromNode[i], u) => Arriving(u)'
  BY LineArrives
<1>3. rpc = "bcast" /\ rk = at[u] => Arriving(u)'
  BY DEF Arriving
<1>4. rpc \in {"queue1", "queue2"} /\ Owns(rmsg, u) /\ rk <= at[u] => Arriving(u)'
  BY DEF Arriving, Owns
<1>5. pc[u] = "woken" => pc'[u] = "woken"
  OBVIOUS
<1> QED
  BY <1>1, <1>2, <1>3, <1>4, <1>5, ArrivingKept

\* A client that has moved and still wants a status has not been answered; nor has one whose
\* wait is over.
LEMMA ActorArrives ==
  ASSUME AInv, NEW t \in Clients, pc[t] \in {"send", "write", "scan"},
         answered'[t] = answered[t], want'[t] = want[t]
  PROVE  ArrivesFor(t)'
BY DEF AInv, ArrivesFor, InSlot


LEMMA CallArrives ==
  ASSUME AInv, [Next]_vars, NEW t \in Clients, NEW c, Call(t, c[1], c[2]), NEW u \in Clients
  PROVE  ArrivesFor(u)'
<1>1. /\ TInv /\ pc \in [Clients -> ClientPlaces] /\ CallsTyped /\ want \in [Clients -> Wants]
      /\ answered \in [Clients -> SUBSET Types] /\ fromNode \in Seq(Received) /\ rmsg \in Received \cup {Null}
  BY DEF AInv, MInv, TInv, IInv, Shape, LineTyped, ReaderTyped
<1>2. /\ pc' = [pc EXCEPT ![t] = "send"] /\ cmd' = [cmd EXCEPT ![t] = c[2]]
      /\ want' = [want EXCEPT ![t] = "STATUS"] /\ answered' = [answered EXCEPT ![t] = {}]
      /\ rmsg' = Orphan(rmsg, t) /\ fromNode' = [i \in DOMAIN fromNode |-> Orphan(fromNode[i], t)]
      /\ UNCHANGED <<at, rpc, rk>>
  BY DEF Call, Disown
<1>3. CASE u = t
  BY <1>1, <1>2, <1>3 DEF ArrivesFor
<1>4. CASE u # t
  <2>1. /\ answered'[u] = answered[u] /\ want'[u] = want[u] /\ at'[u] = at[u] /\ cmd'[u] = cmd[u]
        /\ pc'[u] = pc[u]
    BY <1>1, <1>2, <1>4 DEF CallsTyped
  <2>2. rmsg'.type = rmsg.type /\ rmsg'.of = rmsg.of
    BY <1>1, <1>2, Orphans DEF Buffer
  <2>3. /\ Len(fromNode') = Len(fromNode)
        /\ \A i \in 1 .. Len(fromNode) : fromNode[i] \in Received /\ fromNode'[i] = Orphan(fromNode[i], t)
    <3>1. \A m \in Received : Orphan(m, t) \in Received
      BY Orphans
    <3>2. \A i \in 1 .. Len(fromNode) : fromNode[i] \in Received
      BY <1>1
    <3> QED
      BY <1>1, <1>2, <3>1, <3>2, OrphanedSeq
  <2>4. \A i \in 1 .. Len(fromNode) : /\ fromNode'[i].type = fromNode[i].type
                                      /\ fromNode'[i].of = fromNode[i].of
    BY <2>3, Orphans
  <2>5. ArrivesFor(u)
    BY DEF AInv
  <2> QED
    BY <1>1, <1>2, <2>1, <2>2, <2>3, <2>4, <2>5, ReaderStays
<1> QED
  BY <1>3, <1>4

LEMMA ClientArrives ==
  ASSUME AInv, [Next]_vars, "impatient" \notin Faults, NEW t \in Clients,
         Client(t) \/ Expire(t) \/ SpuriousWakeup(t), NEW u \in Clients
  PROVE  ArrivesFor(u)'
<1>1. /\ TInv /\ pc \in [Clients -> ClientPlaces] /\ want \in [Clients -> Wants]
      /\ at \in [Clients -> 1 .. NSlots + 1] /\ ArrivesFor(u)
  BY DEF AInv, MInv, TInv, IInv, Shape
<1>2. UNCHANGED <<fromNode, cmd, answered>> /\ UNCHANGED reader
  BY DEF Client, LockLink, WriteMessage, TakeSlot, BadDeadline, NextSlot, NoFreeSlot,
     Woken, TimedOut, EndWait, Expire, SpuriousWakeup, line
<1>3. ASSUME pc'[u] = pc[u] \/ (pc[u] = "wait" /\ pc'[u] = "woken"), at'[u] = at[u], want'[u] = want[u]
      PROVE  ArrivesFor(u)'
  BY <1>1, <1>2, <1>3, ReaderStays DEF reader
<1>4. CASE LockLink(t) \/ WriteMessage(t) \/ TakeSlot(t) \/ NextSlot(t)
  <2>1. /\ pc[t] \in {"send", "write", "scan"} /\ UNCHANGED want
        /\ \E p \in {"write", "idle", "scan", "wait"} : pc' = pc \/ pc' = [pc EXCEPT ![t] = p]
        /\ \E j : at' = at \/ at' = [at EXCEPT ![t] = j]
    BY <1>4 DEF LockLink, WriteMessage, TakeSlot, NextSlot
  <2>2. u # t => pc'[u] = pc[u] /\ at'[u] = at[u] /\ want'[u] = want[u]
    BY <1>1, <2>1
  <2>3. CASE u = t
    BY <1>2, <2>1, <2>3, ActorArrives
  <2> QED
    BY <1>3, <2>2, <2>3
<1>5. CASE BadDeadline(t) \/ NoFreeSlot(t) \/ Woken(t) \/ TimedOut(t)
  <2>1. pc[t] \in {"scan", "wait", "woken", "expired"} /\ \E r, b : EndWait(t, r, b)
    BY <1>5 DEF BadDeadline, NoFreeSlot, Woken, TimedOut, Expired
  <2>2. /\ pc'[t] = "idle" \/ (pc'[t] = "scan" /\ want'[t] # "STATUS")
        /\ \A v \in Clients \ {t} : pc'[v] = pc[v] /\ want'[v] = want[v] /\ at'[v] = at[v]
    BY <1>1, <2>1, SendingEnds
  <2>3. CASE u = t
    BY <2>2, <2>3 DEF ArrivesFor
  <2> QED
    BY <1>3, <2>2, <2>3
<1>6. CASE SpuriousWakeup(t)
  <2>1. pc[t] = "wait" /\ pc' = [pc EXCEPT ![t] = "woken"] /\ UNCHANGED <<at, want>>
    BY <1>6 DEF SpuriousWakeup
  <2>2. pc'[u] = pc[u] \/ (pc[u] = "wait" /\ pc'[u] = "woken")
    BY <1>1, <2>1
  <2> QED
    BY <1>3, <2>1, <2>2
<1> QED
  BY <1>4, <1>5, <1>6 DEF Client, Expire

\* An answer to u finds it waiting, for it is not faster than its sender.
LEMMA AnswerArrives ==
  ASSUME AInv, [Next]_vars, "prompt" \notin Faults, NodeAnswer, NEW u \in Clients
  PROVE  ArrivesFor(u)'
<1> DEFINE S == {Status(Head(toNode)), Response(Head(toNode))}
<1>1. /\ TInv /\ pc \in [Clients -> ClientPlaces] /\ fromNode \in Seq(Received) /\ toNode \in Seq(Written)
      /\ ArrivesFor(u)
  BY DEF AInv, MInv, TInv, IInv, Shape, LineTyped
<1>2. PICK f \in Seq(S) :
        /\ fromNode' = fromNode \o f
        /\ answered' = [t \in Clients |->
             answered[t] \cup {f[i].type : i \in {j \in DOMAIN f : f[j].req = t /\ pc[t] # "idle"}}]
  BY <1>1, AnswersToHead
<1>3. /\ toNode # <<>> /\ UNCHANGED <<pc, at, want, cmd, slots>> /\ UNCHANGED reader
      /\ pc[u] = "scan" => Head(toNode).req # u
  BY DEF NodeAnswer
<1>4. /\ \A m \in S : /\ m.req = Head(toNode).req
                      /\ m.type = "STATUS" => m.of = Head(toNode).type
  BY DEF Status, Response
<1> HIDE DEF S
<1>5. /\ Len(fromNode) \in Nat /\ Len(f) \in Nat /\ Len(fromNode') = Len(fromNode) + Len(f)
      /\ DOMAIN f = 1 .. Len(f)
      /\ \A i \in 1 .. Len(fromNode) : fromNode'[i] = fromNode[i]
      /\ \A i \in 1 .. Len(f) : f[i] \in S /\ fromNode'[Len(fromNode) + i] = f[i]
  <2>1. fromNode \in Seq(Received \cup S) /\ f \in Seq(Received \cup S)
    BY <1>1
  <2> QED
    BY <1>2, <2>1, ConcatProperties
<1>6. CASE ~ \E i \in 1 .. Len(f) : f[i].req = u /\ pc[u] # "idle" /\ f[i].type = "STATUS"
  <2>1. "STATUS" \in answered'[u] => "STATUS" \in answered[u]
    BY <1>2, <1>5, <1>6
  <2>2. \A i \in 1 .. Len(fromNode) : i \in 1 .. Len(fromNode')
    BY <1>5
  <2>3. \A i \in 1 .. Len(fromNode) : Owns(fromNode[i], u) => Arriving(u)'
    <3> SUFFICES ASSUME NEW i \in 1 .. Len(fromNode), Owns(fromNode[i], u) PROVE Arriving(u)'
      OBVIOUS
    <3>1. i \in 1 .. Len(fromNode') /\ fromNode'[i] = fromNode[i]
      BY <1>5, <2>2
    <3>2. Owns(fromNode[i], u)'
      BY <1>3, <3>1 DEF Owns
    <3> QED
      BY <3>1, <3>2 DEF Arriving
  <2>4. Arriving(u) => Arriving(u)'
    <3>1. Owns(rmsg, u) => Owns(rmsg, u)'
      BY <1>3 DEF Owns, reader
    <3> QED
      BY <1>3, <2>3, <3>1 DEF Arriving, reader
  <2> QED
    BY <1>1, <1>3, <2>1, <2>4 DEF ArrivesFor, InSlot
<1>7. ASSUME NEW i \in 1 .. Len(f), f[i].req = u, pc[u] # "idle", f[i].type = "STATUS"
      PROVE  ArrivesFor(u)'
  <2>1. Head(toNode).req = u /\ f[i].of = Head(toNode).type
    BY <1>4, <1>5, <1>7
  <2>2. 1 \in 1 .. Len(toNode) /\ Head(toNode) = toNode[1]
    BY <1>1, <1>3
  <2>3. f[i].of = cmd[u] /\ pc[u] \notin {"send", "write"}
    BY <2>1, <2>2 DEF AInv, CommandsOwn
  <2>4. InSlot(u)
    BY <1>1, <1>3, <1>7, <2>1, <2>3 DEF InSlot, ClientPlaces
  <2>5. Len(fromNode) + i \in 1 .. Len(fromNode') /\ fromNode'[Len(fromNode) + i] = f[i]
    BY <1>5
  <2>6. Arriving(u)'
    BY <1>3, <1>7, <2>3, <2>5 DEF Arriving, Owns
  <2> QED
    BY <1>3, <2>4, <2>6 DEF ArrivesFor, InSlot
<1> QED
  BY <1>6, <1>7


\* A status is read, offered to each slot in turn, stored in the slot of its waiter and
\* announced to it.
LEMMA ReaderArrives ==
  ASSUME AInv, [Next]_vars, Reader, NEW u \in Clients
  PROVE  ArrivesFor(u)'
<1>1. /\ TInv /\ pc \in [Clients -> ClientPlaces] /\ fromNode \in Seq(Received)
      /\ ArrivesFor(u) /\ rk \in Nat /\ NSlots \in Nat
  BY LinkAssumption DEF AInv, MInv, TInv, IInv, Shape, LineTyped, ReaderTyped, LinkAssumption
<1>2. /\ UNCHANGED <<at, want, cmd, answered>>
      /\ pc'[u] = pc[u] \/ (pc[u] = "wait" /\ pc'[u] = "woken")
  <2>1. UNCHANGED <<at, want, cmd, answered>> /\ (pc' = pc \/ \E k : Wake(k))
    BY DEF Reader, client, ReadMessage, Deliver, TryNextSlot, NoListener, DeliverNoMem,
       Resubmit, BroadcastSlot, QueueCallback, SkipListener, ListenersDone, ReaderExit, ClearSlot
  <2> QED
    BY <1>1, <2>1 DEF Wake
<1> SUFFICES ASSUME InSlot(u), want[u] = "STATUS", Arriving(u) PROVE Arriving(u)'
  BY <1>1, <1>2, ArrivesStays
<1>3. at[u] \in 1 .. NSlots /\ slots[at[u]].u16Type = "STATUS"
  BY <1>1 DEF TInv, IInv, Shape, SlotOwnership, SlotType
<1>4. /\ slots[at[u]].locked => slots'[at[u]].locked
      /\ pc[u] = "woken" => pc'[u] = "woken"
      /\ at'[u] = at[u] /\ cmd'[u] = cmd[u]
  BY <1>1, <1>2, <1>3, LocksStay
\* The message in the reader's hands stays there and so does the line.
<1>5. ASSUME rpc = "bcast" /\ rk = at[u] => Arriving(u)',
             rpc \in {"queue1", "queue2"} /\ Owns(rmsg, u) /\ rk <= at[u] => Arriving(u)',
             UNCHANGED fromNode
      PROVE  Arriving(u)'
  <2>1. \A i \in 1 .. Len(fromNode) : Owns(fromNode[i], u) => Arriving(u)'
    BY <1>4, <1>5 DEF Owns, Arriving
  <2> QED
    BY <1>4, <1>5, <2>1, ArrivingKept
<1>6. CASE ReadMessage
  <2>1. /\ rpc = "read" /\ fromNode # <<>> /\ rmsg' = Head(fromNode) /\ fromNode' = Tail(fromNode)
        /\ rpc' = (IF rmsg'.type = "LOG" THEN "callbacks" ELSE "queue1") /\ rk' = 1
    BY <1>6 DEF ReadMessage
  <2>2. ASSUME NEW i \in 1 .. Len(fromNode), Owns(fromNode[i], u) PROVE Arriving(u)'
    <3>1. CASE i = 1
      <4>1. rmsg' = fromNode[i]
        BY <1>1, <2>1, <3>1
      <4>2. Owns(rmsg, u)' /\ rpc' = "queue1" /\ rk' <= at'[u]
        BY <1>2, <1>3, <2>1, <2>2, <4>1 DEF Owns
      <4> QED
        BY <4>2 DEF Arriving
    <3>2. CASE i # 1
      <4>1. i - 1 \in 1 .. Len(fromNode') /\ fromNode'[i - 1] = fromNode[i]
        BY <1>1, <2>1, <2>2, <3>2, HeadTailProperties
      <4> QED
        BY <1>4, <2>2, <4>1 DEF Arriving, Owns
    <3> QED
      BY <3>1, <3>2
  <2> QED
    BY <1>4, <2>1, <2>2, ArrivingKept
<1>7. CASE Deliver \/ DeliverNoMem
  <2>1. /\ rpc \in {"queue1", "queue2"} /\ rk \in 1 .. NSlots /\ Matches(slots[rk]) /\ UNCHANGED line
        /\ \/ rpc' = "bcast" /\ UNCHANGED rk
           \/ slots' = [slots EXCEPT ![rk].locked = TRUE]
    BY <1>1, <1>7 DEF Deliver, DeliverNoMem, Offering, TInv, ReaderTyped
  <2>2. ASSUME Owns(rmsg, u) PROVE Arriving(u)'
    <3>1. rk = at[u]
      BY <2>1, <2>2, OnlyOneMatches
    <3>2. slots' = [slots EXCEPT ![rk].locked = TRUE] => slots'[at[u]].locked
      BY <1>1, <1>3, <3>1 DEF TInv, SlotsTyped, Slots
    <3> QED
      BY <1>4, <2>1, <3>1, <3>2 DEF Arriving
  <2> QED
    BY <1>5, <2>1, <2>2 DEF line
<1>8. CASE TryNextSlot
  <2>1. /\ rpc \in {"queue1", "queue2"} /\ rk \in 1 .. NSlots /\ ~Matches(slots[rk]) /\ rk' = rk + 1
        /\ UNCHANGED line /\ UNCHANGED <<rpc, rmsg>>
    BY <1>1, <1>8 DEF TryNextSlot, Offering, TInv, ReaderTyped
  <2>2. ASSUME Owns(rmsg, u), rk <= at[u] PROVE Arriving(u)'
    <3>1. CASE rk = at[u]
      <4>1. slots[rk].pu8Message \notin {Null, Stack(cmd[u])}
        BY <1>3, <2>1, <2>2, <3>1 DEF Matches, Owns
      <4>2. slots[rk].pu8Message.type = "STATUS"
        BY <3>1, <4>1 DEF AInv, MInv, WaitersMatch, OwnStatus
      <4>3. pc[u] = "woken"
        BY <1>3, <2>1, <3>1, <4>2 DEF AInv, MInv, NoStaleStatus, Announced
      <4> QED
        BY <1>4, <4>3 DEF Arriving
    <3>2. CASE rk # at[u]
      <4>1. rk' <= at'[u] /\ Owns(rmsg, u)'
        BY <1>1, <1>3, <1>4, <2>1, <2>2, <3>2 DEF Owns
      <4> QED
        BY <2>1, <4>1 DEF Arriving
    <3> QED
      BY <3>1, <3>2
  <2> QED
    BY <1>5, <2>1, <2>2 DEF line
<1>9. CASE BroadcastSlot
  <2>1. rpc = "bcast" /\ Wake(rk) /\ UNCHANGED line
    BY <1>9 DEF BroadcastSlot
  <2>2. rk = at[u] => pc'[u] = "woken"
    BY <2>1 DEF Wake, InSlot, AInv, MInv, Patient
  <2> QED
    BY <1>5, <2>1, <2>2 DEF Arriving, line
<1>10. CASE NoListener
  <2>1. rpc \in {"queue1", "queue2"} /\ rk > NSlots /\ UNCHANGED line
    BY <1>10 DEF NoListener
  <2>2. ~(rk <= at[u])
    BY <1>1, <1>3, <2>1
  <2> QED
    BY <1>5, <2>1, <2>2 DEF line
<1>11. CASE Resubmit \/ QueueCallback \/ SkipListener \/ ListenersDone \/ ReaderExit \/ ClearSlot
  <2>1. rpc \notin {"queue1", "queue2", "bcast"} /\ UNCHANGED line
    BY <1>11 DEF Resubmit, QueueCallback, SkipListener, ListenersDone, ReaderExit, ClearSlot
  <2> QED
    BY <1>5, <2>1 DEF line
<1> QED
  BY <1>6, <1>7, <1>8, <1>9, <1>10, <1>11 DEF Reader

LEMMA NextAInv ==
  {"impatient", "prompt"} \cap Faults = {} /\ Erases = {} =>
    (AInv /\ ~ReaderBlocked /\ [Next]_vars => AInv')
<1> SUFFICES ASSUME {"impatient", "prompt"} \cap Faults = {}, Erases = {},
                    AInv, ~ReaderBlocked, [Next]_vars
             PROVE  AInv'
  OBVIOUS
<1>1. "impatient" \notin Faults /\ "prompt" \notin Faults /\ MInv /\ TInv
  BY DEF AInv, MInv
<1>2. MInv'
  BY <1>1, NextMInv
<1>3. Exclusive' /\ CommandsOwn'
  BY <1>1, ExclusiveStep, CommandsOwnStep DEF AInv
<1>4. Returned' /\ answered' \in [Clients -> SUBSET Types]
  BY ReturnedStep, AnsweredStep
<1>5. ASSUME NEW u \in Clients PROVE ArrivesFor(u)'
  <2>1. ASSUME UNCHANGED client, UNCHANGED reader,
               \A i \in 1 .. Len(fromNode) :
                  i \in 1 .. Len(fromNode') /\ fromNode'[i] = fromNode[i]
        PROVE  ArrivesFor(u)'
    BY <1>1, <2>1, ReaderStays DEF client, reader, AInv
  <2>2. CASE NodeEvent
    <3>1. /\ UNCHANGED client /\ UNCHANGED reader /\ \E m : fromNode' = Append(fromNode, m)
      BY <2>2 DEF NodeEvent
    <3>2. \A i \in 1 .. Len(fromNode) :
             i \in 1 .. Len(fromNode') /\ fromNode'[i] = fromNode[i]
      BY <1>1, <3>1 DEF TInv, LineTyped
    <3> QED
      BY <2>1, <3>1, <3>2
  <2>3. CASE UNCHANGED vars \/ StartCallback \/ EndCallback
    BY <2>1, <2>3 DEF vars, line, StartCallback, EndCallback
  <2>4. CASE Destroy
    <3>1. UNCHANGED <<rpc, rk, rmsg>> /\ UNCHANGED client /\ UNCHANGED fromNode
      BY <2>4 DEF Destroy, line
    <3> QED
      BY <1>1, <3>1, ReaderStays DEF client, AInv
  <2> QED
    BY <1>1, <2>2, <2>3, <2>4, CallArrives, ClientArrives, AnswerArrives, ReaderArrives DEF Next
<1> QED
  BY <1>2, <1>3, <1>4, <1>5 DEF AInv


-----------------------------------------------------------------------------
(* What a call returns was sent for it                                     *)

\* The kinds of commands are different ones, and one slot more than the longest wait takes.
Kinds == /\ Commands \cap Requests = {} /\ Commands \cap NoWaits = {} /\ Requests \cap NoWaits = {}
         /\ Erases = {} /\ NSlots >= 2
NoneMisled == {"impatient", "spurious", "stop", "deadline"} \cap Faults = {}

\* What the reader has not offered to every slot yet.
Offered == rpc \in {"queue1", "retry", "queue2"}
Coming  == (IF Offered THEN <<rmsg>> ELSE <<>>) \o fromNode

\* The status of such a command is waited for.
Ordered(c) == c.type \notin NoWaits
Awaited(m) == m.type = "STATUS" /\ m.of \notin NoWaits
\* t waits for a status, or is about to, and none is announced to it.
Due(t) == /\ t \in Clients /\ pc[t] \in {"scan", "wait"} /\ want[t] = "STATUS"
          /\ ~(rpc = "bcast" /\ InSlot(t) /\ rk = at[t])

CallsFit ==
    /\ readerState = "RUNNING" /\ rpc \notin {"exit", "stopped"}
    /\ \A t \in Clients :
         /\ op[t] # "erase"
         /\ pc[t] # "idle" /\ op[t] = "send" => cmd[t] \in Commands
         /\ op[t] = "request" => cmd[t] \in Requests /\ t = MainThread
         /\ op[t] = "nowait" => cmd[t] \in NoWaits
         /\ pc[t] \in {"send", "write"} => want[t] = "STATUS"
         /\ want[t] = "RESPONSE" => op[t] = "request"
         /\ pc[t] \notin {"idle", "send", "write"} => op[t] # "nowait"

\* Who looks for a slot for its status passes at most that of the main thread, which waits
\* for a response there.
ScansEarly ==
    \A t \in Clients :
        /\ pc[t] \in {"idle", "send", "write"} => at[t] = 1
        /\ pc[t] = "scan" /\ want[t] = "STATUS" /\ at[t] # 1 =>
             /\ at[t] = 2
             /\ \/ InSlot(MainThread) /\ at[MainThread] = 1
                \/ pc[MainThread] \in {"idle", "send"}

\* At most one status that is waited for is under way or will be, and its client still waits.
OneUnderWay ==
    /\ \A i \in 1 .. Len(toNode) : Ordered(toNode[i]) => Due(toNode[i].req)
    /\ \A i \in 1 .. Len(Coming) :
          Awaited(Coming[i]) => Due(Coming[i].req) /\ Coming[i].of = cmd[Coming[i].req]
    /\ \A i, j \in 1 .. Len(toNode) : Ordered(toNode[i]) /\ Ordered(toNode[j]) => i = j
    /\ \A i, j \in 1 .. Len(Coming) : Awaited(Coming[i]) /\ Awaited(Coming[j]) => i = j
    /\ \A i \in 1 .. Len(toNode) : \A j \in 1 .. Len(Coming) :
          ~(Ordered(toNode[i]) /\ Awaited(Coming[j]))

\* Between two responses is the status of the request that caused the second.
ResponsesApart ==
    \A i, j \in 1 .. Len(Coming) :
        i < j /\ Coming[i].type = "RESPONSE" /\ Coming[j].type = "RESPONSE" =>
            \E k \in i .. j : Awaited(Coming[k]) /\ Coming[k].of \in Requests

NoResponse == \A i \in 1 .. Len(Coming) : Coming[i].type # "RESPONSE"

\* The slot of t holds the answer t waits for, and no other one comes.
Answered(t) ==
    /\ slots[at[t]].pu8Message \in Message
    /\ want[t] = "STATUS" => /\ slots[at[t]].pu8Message.type = "STATUS"
                             /\ slots[at[t]].pu8Message.req = t
    /\ want[t] = "RESPONSE" => NoResponse
AnsweredIn(k) == \E t \in Clients : pc[t] = "wait" /\ at[t] = k /\ Answered(t)
WakesAreAnswered == /\ rpc = "bcast" => AnsweredIn(rk)
                    /\ \A t \in Clients : pc[t] = "woken" => Answered(t)

PInv == /\ MInv /\ Exclusive /\ CommandsOwn
        /\ CallsFit /\ ScansEarly /\ OneUnderWay /\ ResponsesApart /\ WakesAreAnswered
        /\ StatusIsForThisMessage /\ WaitReturnsMessage

LEMMA InitPInv == Init => PInv
<1> SUFFICES ASSUME Init PROVE PInv
  OBVIOUS
<1>1. Exclusive /\ CommandsOwn
  BY InitAInv DEF AInv
<1>2. CallsFit /\ ScansEarly /\ WakesAreAnswered
  BY DEF Init, CallsFit, ScansEarly, WakesAreAnswered
<1>3. Coming = <<>> /\ toNode = <<>>
  BY DEF Init, Coming, Offered
<1>4. OneUnderWay /\ ResponsesApart
  BY <1>3 DEF OneUnderWay, ResponsesApart
<1>5. StatusIsForThisMessage /\ WaitReturnsMessage
  BY DEF Init, StatusIsForThisMessage, WaitReturnsMessage
<1> QED
  BY <1>1, <1>2, <1>4, <1>5, InitMInv DEF PInv

LEMMA CallsFitStep ==
  ASSUME PInv, Kinds, NoneMisled, [Next]_vars
  PROVE  CallsFit'
<1>1. /\ CallsFit /\ TInv /\ CallsTyped /\ pc \in [Clients -> ClientPlaces] /\ want \in [Clients -> Wants]
      /\ "stop" \notin Faults
  BY DEF PInv, MInv, TInv, IInv, Shape, NoneMisled
<1>2. readerState' = "RUNNING" /\ rpc' \notin {"exit", "stopped"}
  <2>1. CASE Reader
    BY <1>1, <2>1 DEF CallsFit, Reader, ReadMessage, Deliver, TryNextSlot, NoListener, DeliverNoMem,
       Resubmit, BroadcastSlot, QueueCallback, SkipListener, ListenersDone, ReaderExit, ClearSlot
  <2>2. CASE ~Reader
    <3>1. UNCHANGED <<rpc, readerState>>
      BY <1>1, <2>2 DEF Next, vars, reader, Call, Client, LockLink, WriteMessage, TakeSlot, BadDeadline,
         NextSlot, NoFreeSlot, Woken, TimedOut, Expire, SpuriousWakeup, NodeAnswer, NodeEvent, Destroy,
         StartCallback, EndCallback
    <3> QED
      BY <1>1, <3>1 DEF CallsFit
  <2> QED
    BY <2>1, <2>2
<1> DEFINE Fit(t) == /\ op[t] # "erase"
                     /\ pc[t] # "idle" /\ op[t] = "send" => cmd[t] \in Commands
                     /\ op[t] = "request" => cmd[t] \in Requests /\ t = MainThread
                     /\ op[t] = "nowait" => cmd[t] \in NoWaits
                     /\ pc[t] \in {"send", "write"} => want[t] = "STATUS"
                     /\ want[t] = "RESPONSE" => op[t] = "request"
                     /\ pc[t] \notin {"idle", "send", "write"} => op[t] # "nowait"
<1> SUFFICES ASSUME NEW u \in Clients PROVE Fit(u)'
  BY <1>2 DEF CallsFit
<1>3. Fit(u)
  BY <1>1 DEF CallsFit
<1>4. ASSUME op'[u] = op[u], cmd'[u] = cmd[u], want'[u] = want[u], pc'[u] = pc[u] PROVE Fit(u)'
  BY <1>3, <1>4
<1>5. ASSUME NEW t \in Clients, NEW c \in Calls(t), Call(t, c[1], c[2]) PROVE Fit(u)'
  <2>1. /\ op' = [op EXCEPT ![t] = c[1]] /\ cmd' = [cmd EXCEPT ![t] = c[2]]
        /\ want' = [want EXCEPT ![t] = "STATUS"] /\ pc' = [pc EXCEPT ![t] = "send"]
    BY <1>5 DEF Call
  <2>2. CASE u = t
    <3>1. \/ c[1] = "send" /\ c[2] \in Commands
          \/ c[1] = "nowait" /\ c[2] \in NoWaits
          \/ c[1] = "request" /\ c[2] \in Requests /\ t = MainThread
      BY <1>5 DEF Calls, Kinds
    <3>2. op'[u] = c[1] /\ cmd'[u] = c[2] /\ want'[u] = "STATUS" /\ pc'[u] = "send"
      BY <1>1, <2>1, <2>2 DEF CallsTyped
    <3> QED
      BY <2>2, <3>1, <3>2
  <2>3. CASE u # t
    BY <1>1, <1>4, <2>1, <2>3 DEF CallsTyped
  <2> QED
    BY <2>2, <2>3
<1>6. ASSUME NEW t \in Clients, LockLink(t) \/ WriteMessage(t) \/ TakeSlot(t) \/ NextSlot(t)
                                \/ Expire(t) \/ SpuriousWakeup(t)
      PROVE  Fit(u)'
  <2>1. /\ UNCHANGED <<op, cmd, want>> /\ pc[t] # "idle"
        /\ \/ pc' = pc
           \/ pc[t] = "send" /\ pc' = [pc EXCEPT ![t] = "write"]
           \/ op[t] = "nowait" /\ pc' = [pc EXCEPT ![t] = "idle"]
           \/ op[t] # "nowait" /\ pc' = [pc EXCEPT ![t] = "scan"]
           \/ pc[t] \in {"scan", "wait"}
              /\ \E p \in {"wait", "expired", "woken"} : pc' = [pc EXCEPT ![t] = p]
    BY <1>6 DEF LockLink, WriteMessage, TakeSlot, NextSlot, Expire, SpuriousWakeup
  <2>2. pc'[u] = pc[u] \/ (u = t /\ pc[u] # "idle" /\
          \/ pc[u] = "send" /\ pc'[u] = "write"
          \/ op[u] = "nowait" /\ pc'[u] = "idle"
          \/ op[u] # "nowait" /\ pc'[u] = "scan"
          \/ pc[u] \in {"scan", "wait"} /\ pc'[u] \in {"wait", "expired", "woken"})
    BY <1>1, <2>1
  <2> QED
    BY <1>3, <1>4, <2>1, <2>2
<1>7. ASSUME NEW t \in Clients, BadDeadline(t) \/ NoFreeSlot(t) \/ Woken(t) \/ TimedOut(t)
      PROVE  Fit(u)'
  <2>1. pc[t] \in {"scan", "wait", "woken", "expired"} /\ \E r, b : EndWait(t, r, b)
    BY <1>7 DEF BadDeadline, NoFreeSlot, Woken, TimedOut, Expired
  <2>2. PICK r, b : EndWait(t, r, b)
    BY <2>1
  <2>3. PICK w \in Follows(t, r) :
          IF w # None
             THEN pc' = [pc EXCEPT ![t] = "scan"] /\ want' = [want EXCEPT ![t] = w]
             ELSE pc' = [pc EXCEPT ![t] = "idle"] /\ UNCHANGED want
    BY <2>2 DEF EndWait
  <2>4. UNCHANGED <<op, cmd>> /\ (u # t => pc'[u] = pc[u] /\ want'[u] = want[u])
    BY <1>1, <2>2, <2>3 DEF EndWait
  <2>5. CASE u = t /\ w # None
    <3>1. op[t] = "request"
      BY <1>3, <2>3, <2>5 DEF Follows
    <3>2. pc'[u] = "scan" /\ want'[u] = w
      BY <1>1, <2>3, <2>5
    <3> QED
      BY <1>3, <2>4, <2>5, <3>1, <3>2
  <2>6. CASE u = t /\ w = None
    <3>1. pc'[u] = "idle" /\ want'[u] = want[u]
      BY <1>1, <2>3, <2>6
    <3> QED
      BY <1>3, <2>4, <3>1
  <2> QED
    BY <1>4, <2>4, <2>5, <2>6
<1>8. CASE BroadcastSlot \/ ClearSlot
  <2>1. UNCHANGED <<op, cmd, want>> /\ \E k : Wake(k)
    BY <1>8 DEF BroadcastSlot, ClearSlot
  <2>2. pc'[u] = pc[u] \/ (pc[u] = "wait" /\ pc'[u] = "woken")
    BY <2>1 DEF Wake
  <2> QED
    BY <1>3, <2>1, <2>2
<1>9. CASE UNCHANGED vars \/ NodeAnswer \/ NodeEvent \/ StartCallback \/ EndCallback \/ Destroy
  BY <1>4, <1>9 DEF vars, client, NodeAnswer, NodeEvent, StartCallback, EndCallback, Destroy
<1>10. CASE Reader /\ ~BroadcastSlot /\ ~ClearSlot
  BY <1>4, <1>10 DEF Reader, client, ReadMessage, Deliver, TryNextSlot, NoListener, DeliverNoMem,
     Resubmit, QueueCallback, SkipListener, ListenersDone, ReaderExit
<1> HIDE DEF Fit
<1> QED
  BY <1>5, <1>6, <1>7, <1>8, <1>9, <1>10 DEF Next, Client


\* While t sends, only the main thread can be in a slot besides t, for a response.
LEMMA OnlyMainBesides ==
  ASSUME PInv, NEW t \in Clients, Sending(t), NEW v \in Clients \ {t}, InSlot(v)
  PROVE  v = MainThread /\ want[v] = "RESPONSE"
<1>1. want[v] \in Wants /\ want[v] # "ANYSTATUS"
  BY DEF PInv, MInv, TInv, IInv, Shape, CallsMatch, CallsFit
<1>2. want[v] # "STATUS"
  BY DEF PInv, Exclusive, Sending, InSlot
<1> QED
  BY <1>1, <1>2 DEF PInv, CallsFit, Wants

LEMMA ScansEarlyStep ==
  ASSUME PInv, [Next]_vars
  PROVE  ScansEarly'
<1>1. /\ ScansEarly /\ TInv /\ pc \in [Clients -> ClientPlaces] /\ want \in [Clients -> Wants]
      /\ at \in [Clients -> 1 .. NSlots + 1] /\ MainThread \in Clients /\ NSlots \in Nat
  BY LinkAssumption DEF PInv, MInv, TInv, IInv, Shape, LinkAssumption
<1> DEFINE Early(t) == /\ pc[t] \in {"idle", "send", "write"} => at[t] = 1
                       /\ pc[t] = "scan" /\ want[t] = "STATUS" /\ at[t] # 1 =>
                            /\ at[t] = 2
                            /\ \/ InSlot(MainThread) /\ at[MainThread] = 1
                               \/ pc[MainThread] \in {"idle", "send"}
<1> SUFFICES ASSUME NEW u \in Clients PROVE Early(u)'
  BY DEF ScansEarly
<1>2. Early(u)
  BY <1>1 DEF ScansEarly
\* Who stays where it is, while the main thread stays in its slot or does not enter one.
<1>3. ASSUME pc'[u] = pc[u], want'[u] = want[u], at'[u] = at[u],
             \/ ~(pc[u] = "scan" /\ want[u] = "STATUS" /\ at[u] # 1)
             \/ InSlot(MainThread) /\ InSlot(MainThread)' /\ at'[MainThread] = at[MainThread]
             \/ pc'[MainThread] \in {"idle", "send"}
             \/ UNCHANGED <<pc, at>>
      PROVE  Early(u)'
  BY <1>2, <1>3 DEF InSlot
<1>4. ASSUME NEW t \in Clients, NEW c \in Calls(t), Call(t, c[1], c[2]) PROVE Early(u)'
  <2>1. /\ pc[t] = "idle" /\ pc' = [pc EXCEPT ![t] = "send"] /\ want' = [want EXCEPT ![t] = "STATUS"]
        /\ UNCHANGED at
    BY <1>4 DEF Call, MayCall
  <2>2. CASE u = t
    BY <1>1, <1>2, <2>1, <2>2
  <2>3. CASE u # t
    <3>1. pc'[u] = pc[u] /\ want'[u] = want[u] /\ at'[u] = at[u]
      BY <1>1, <2>1, <2>3
    <3>2. \/ pc'[MainThread] = "send"
          \/ pc'[MainThread] = pc[MainThread]
      BY <1>1, <2>1
    <3> QED
      BY <1>2, <2>1, <3>1, <3>2 DEF InSlot
  <2> QED
    BY <2>2, <2>3
\* The link has one owner: who sends sees no other client send.
<1>5. ASSUME NEW t \in Clients, pc[t] = "write" \/ (pc[t] # "idle" /\ pc[t] # "send" /\ want[t] = "STATUS"),
             u # t
      PROVE  ~(pc[u] = "scan" /\ want[u] = "STATUS")
  BY <1>1, <1>5 DEF PInv, Exclusive, Sending, ClientPlaces
<1>6. ASSUME NEW t \in Clients, LockLink(t) PROVE Early(u)'
  <2>1. pc[t] = "send" /\ pc' = [pc EXCEPT ![t] = "write"] /\ mutex = Nobody /\ UNCHANGED <<at, want>>
    BY <1>6 DEF LockLink
  <2>2. ~(pc[u] = "scan" /\ want[u] = "STATUS")
    BY <2>1, LinkAssumption DEF PInv, Exclusive, Sending, LinkAssumption
  <2>3. CASE u = t
    BY <1>1, <1>2, <2>1, <2>3
  <2>4. CASE u # t
    <3>1. pc'[u] = pc[u] /\ want'[u] = want[u] /\ at'[u] = at[u]
      BY <1>1, <2>1, <2>4
    <3> QED
      BY <1>3, <2>2, <3>1
  <2> QED
    BY <2>3, <2>4
<1>7. ASSUME NEW t \in Clients, WriteMessage(t) PROVE Early(u)'
  <2>1. /\ pc[t] = "write" /\ UNCHANGED <<at, want>>
        /\ \E p \in {"idle", "scan"} : pc' = [pc EXCEPT ![t] = p]
    BY <1>7 DEF WriteMessage
  <2>2. CASE u = t
    <3>1. at'[u] = 1
      BY <1>2, <2>1, <2>2
    <3> QED
      BY <3>1
  <2>3. CASE u # t
    <3>1. pc'[u] = pc[u] /\ want'[u] = want[u] /\ at'[u] = at[u]
      BY <1>1, <2>1, <2>3
    <3>2. ~(pc[u] = "scan" /\ want[u] = "STATUS")
      BY <1>5, <2>1, <2>3
    <3> QED
      BY <1>3, <3>1, <3>2
  <2> QED
    BY <2>2, <2>3
<1>8. ASSUME NEW t \in Clients, TakeSlot(t) PROVE Early(u)'
  <2>1. pc[t] = "scan" /\ UNCHANGED <<at, want>> /\ pc' = [pc EXCEPT ![t] = "wait"]
    BY <1>8 DEF TakeSlot
  <2>2. CASE u = t
    BY <1>1, <2>1, <2>2
  <2>3. CASE u # t
    <3>1. pc'[u] = pc[u] /\ want'[u] = want[u] /\ at'[u] = at[u]
      BY <1>1, <2>1, <2>3
    <3>2. InSlot(MainThread) => InSlot(MainThread)'
      BY <1>1, <2>1 DEF InSlot
    <3>3. pc[MainThread] \in {"idle", "send"} => pc'[MainThread] = pc[MainThread]
      BY <1>1, <2>1
    <3> QED
      BY <1>2, <1>3, <2>1, <3>1, <3>2, <3>3
  <2> QED
    BY <2>2, <2>3
<1>9. ASSUME NEW t \in Clients, NextSlot(t) PROVE Early(u)'
  <2>1. /\ pc[t] = "scan" /\ at[t] \in 1 .. NSlots /\ slots[at[t]].u16Type # Free
        /\ at' = [at EXCEPT ![t] = at[t] + 1] /\ UNCHANGED <<pc, want>>
    BY <1>9 DEF NextSlot
  <2>2. CASE u = t /\ want[t] = "STATUS"
    <3>1. PICK v \in Clients : InSlot(v) /\ at[v] = at[t]
      BY <1>1, <2>1 DEF TInv, IInv, SlotOwnership
    <3>2. Sending(t) /\ v # t
      BY <2>1, <2>2, <3>1 DEF Sending, InSlot
    <3>3. v = MainThread
      BY <3>1, <3>2, OnlyMainBesides
    <3>4. at[t] = 1
      BY <1>2, <2>1, <2>2, <3>1, <3>3 DEF InSlot
    <3>5. at'[t] = 2 /\ InSlot(MainThread)' /\ at'[MainThread] = 1
      BY <1>1, <2>1, <3>1, <3>2, <3>3, <3>4 DEF InSlot
    <3> QED
      BY <2>1, <2>2, <3>5
  <2>3. CASE u = t /\ want[t] # "STATUS"
    BY <2>1, <2>3
  <2>4. CASE u # t
    <3>1. at'[u] = at[u]
      BY <1>1, <2>1, <2>4
    <3>2. InSlot(MainThread) => InSlot(MainThread)' /\ at'[MainThread] = at[MainThread]
      BY <1>1, <2>1 DEF InSlot
    <3> QED
      BY <1>2, <2>1, <3>1, <3>2
  <2> QED
    BY <2>2, <2>3, <2>4
<1>10. ASSUME NEW t \in Clients, BadDeadline(t) \/ NoFreeSlot(t) \/ Woken(t) \/ TimedOut(t)
       PROVE  Early(u)'
  <2>1. pc[t] \in {"scan", "wait", "woken", "expired"} /\ \E r, b : EndWait(t, r, b)
    BY <1>10 DEF BadDeadline, NoFreeSlot, Woken, TimedOut, Expired
  <2>2. PICK r, b : EndWait(t, r, b)
    BY <2>1
  <2>3. /\ pc'[t] = "idle" \/ (pc'[t] = "scan" /\ want'[t] # "STATUS")
        /\ \A v \in Clients \ {t} : pc'[v] = pc[v] /\ want'[v] = want[v] /\ at'[v] = at[v]
    BY <1>1, <2>1, <2>2, SendingEnds
  <2>4. at' = [at EXCEPT ![t] = 1]
    BY <2>2 DEF EndWait
  <2>5. CASE u = t
    BY <1>1, <2>3, <2>4, <2>5
  <2>6. CASE u # t /\ want[t] = "STATUS"
    <3>1. ~(pc[u] = "scan" /\ want[u] = "STATUS")
      BY <1>5, <2>1, <2>6
    <3> QED
      BY <1>3, <2>3, <2>6, <3>1
  <2>7. CASE u # t /\ want[t] # "STATUS"
    <3>1. Follows(t, r) = {None} \/ (op[t] = "erase" /\ want[t] = "STATUS")
      BY <2>7 DEF Follows
    <3>2. pc'[t] = "idle"
      BY <1>1, <2>2, <2>7, <3>1 DEF EndWait
    <3>3. MainThread = t \/ (MainThread # t /\ pc'[MainThread] = pc[MainThread] /\ at'[MainThread] = at[MainThread])
      BY <1>1, <2>3
    <3> QED
      BY <1>2, <2>3, <2>7, <3>2, <3>3 DEF InSlot
  <2> QED
    BY <2>5, <2>6, <2>7
<1>11. ASSUME UNCHANGED <<at, want>>,
              \A v \in Clients : pc'[v] = pc[v] \/ (pc[v] = "wait" /\ pc'[v] \in {"woken", "expired"})
       PROVE  Early(u)'
  <2>1. /\ pc'[u] = pc[u] \/ (pc[u] = "wait" /\ pc'[u] \in {"woken", "expired"})
        /\ InSlot(MainThread) => InSlot(MainThread)'
        /\ pc[MainThread] \in {"idle", "send"} => pc'[MainThread] = pc[MainThread]
    BY <1>1, <1>11 DEF InSlot
  <2> QED
    BY <1>2, <1>11, <2>1
<1>12. ASSUME NEW t \in Clients, Expire(t) \/ SpuriousWakeup(t) PROVE Early(u)'
  <2>1. /\ UNCHANGED <<at, want>> /\ pc[t] = "wait"
        /\ \E p \in {"woken", "expired"} : pc' = [pc EXCEPT ![t] = p]
    BY <1>12 DEF Expire, SpuriousWakeup
  <2>2. \A v \in Clients : pc'[v] = pc[v] \/ (pc[v] = "wait" /\ pc'[v] \in {"woken", "expired"})
    BY <1>1, <2>1
  <2> QED
    BY <1>11, <2>1, <2>2
<1>13. CASE BroadcastSlot \/ ClearSlot
  <2>1. UNCHANGED <<at, want>> /\ \E k : Wake(k)
    BY <1>13 DEF BroadcastSlot, ClearSlot
  <2>2. \A v \in Clients : pc'[v] = pc[v] \/ (pc[v] = "wait" /\ pc'[v] \in {"woken", "expired"})
    BY <1>1, <2>1 DEF Wake
  <2> QED
    BY <1>11, <2>1, <2>2
<1>14. CASE UNCHANGED vars \/ NodeAnswer \/ NodeEvent \/ StartCallback \/ EndCallback \/ Destroy
  <2>1. UNCHANGED <<pc, at, want>>
    BY <1>14 DEF vars, client, NodeAnswer, NodeEvent, StartCallback, EndCallback, Destroy
  <2> QED
    BY <1>11, <2>1
<1>15. CASE Reader /\ ~BroadcastSlot /\ ~ClearSlot
  <2>1. UNCHANGED <<pc, at, want>>
    BY <1>15 DEF Reader, client, ReadMessage, Deliver, TryNextSlot, NoListener, DeliverNoMem,
       Resubmit, QueueCallback, SkipListener, ListenersDone, ReaderExit
  <2> QED
    BY <1>11, <2>1
<1> HIDE DEF Early
<1> QED
  BY <1>4, <1>6, <1>7, <1>8, <1>9, <1>10, <1>12, <1>13, <1>14, <1>15 DEF Next, Client


LEMMA Prefixed ==
  ASSUME NEW S, NEW q \in Seq(S), NEW m
  PROVE  /\ Len(q) \in Nat /\ <<>> \o q = q
         /\ Len(<<m>> \o q) = Len(q) + 1 /\ (<<m>> \o q)[1] = m
         /\ \A i \in 1 .. Len(q) : (<<m>> \o q)[i + 1] = q[i]
         /\ m \in S => <<m>> \o q \in Seq(S)
<1>1. q \in Seq(S \cup {m}) /\ <<m>> \in Seq(S \cup {m}) /\ Len(<<m>>) = 1 /\ <<m>>[1] = m
  OBVIOUS
<1>2. <<>> \o q = q
  BY ConcatEmptySeq
<1>3. Len(<<m>> \o q) = Len(q) + 1 /\ (<<m>> \o q)[1] = m
  BY <1>1, ConcatProperties
<1>4. \A i \in 1 .. Len(q) : (<<m>> \o q)[i + 1] = q[i]
  BY <1>1, ConcatProperties
<1> QED
  BY <1>1, <1>2, <1>3, <1>4, ConcatProperties

ComingFits ==
    /\ fromNode \in Seq(Received) /\ Coming \in Seq(Received) /\ Len(fromNode) \in Nat
    /\ ~Offered => Coming = fromNode
    /\ Offered => /\ Len(Coming) = Len(fromNode) + 1 /\ Coming[1] = rmsg
                  /\ \A i \in 1 .. Len(fromNode) : Coming[i + 1] = fromNode[i]

LEMMA ComingIs == TInv => ComingFits
<1> SUFFICES ASSUME TInv PROVE ComingFits
  OBVIOUS
<1>1. fromNode \in Seq(Received) /\ (Offered => rmsg \in Received)
  BY DEF TInv, LineTyped, ReaderTyped, Offered
<1> QED
  BY <1>1, Prefixed DEF Coming, ComingFits

LEMMA ComingWillBe == (TInv => ComingFits)'
BY ComingIs, PTL

\* q is what p was, or what is left of it without its head.
Left(p, q) == \E d \in {0, 1} : /\ Len(q) = Len(p) - d
                                /\ \A i \in 1 .. Len(q) : i + d \in 1 .. Len(p) /\ q[i] = p[i + d]

LEMMA LeftSame == \A p, q : Len(p) \in Nat /\ q = p => Left(p, q)
BY DEF Left

\* The reader takes nothing but the head of what comes.
LEMMA ReaderTakes ==
  ASSUME TInv, TInv', UNCHANGED fromNode, Offered' => Offered /\ rmsg' = rmsg
  PROVE  Left(Coming, Coming') /\ (Offered /\ ~Offered' => Coming' = fromNode)
<1>1. ComingFits /\ ComingFits'
  BY ComingIs, ComingWillBe
<1>3. CASE Offered' = Offered
  <2>1. Coming' = Coming
    BY <1>3 DEF Coming
  <2> QED
    BY <1>1, <1>3, <2>1, LeftSame DEF ComingFits
<1>4. CASE Offered /\ ~Offered'
  <2>1. Coming' = fromNode
    BY <1>1, <1>4 DEF ComingFits
  <2>2. /\ Len(Coming') = Len(Coming) - 1
        /\ \A i \in 1 .. Len(Coming') : i + 1 \in 1 .. Len(Coming) /\ Coming'[i] = Coming[i + 1]
    BY <1>1, <1>4, <2>1 DEF ComingFits
  <2> QED
    BY <2>1, <2>2 DEF Left
<1> QED
  BY <1>3, <1>4 DEF Offered

LEMMA ReaderLeaves ==
  ASSUME TInv, TInv', Reader
  PROVE  Left(Coming, Coming')
<1>1. CASE ReadMessage
  <2>1. /\ rpc = "read" /\ fromNode # <<>> /\ rmsg' = Head(fromNode) /\ fromNode' = Tail(fromNode)
        /\ rpc' = (IF rmsg'.type = "LOG" THEN "callbacks" ELSE "queue1")
    BY <1>1 DEF ReadMessage
  <2>2. /\ fromNode \in Seq(Received) /\ Len(fromNode) \in Nat /\ Coming = fromNode
        /\ fromNode' \in Seq(Received)
    BY <2>1, ComingIs, HeadTailProperties DEF Offered, ComingFits
  <2>3. /\ Len(fromNode') = Len(fromNode) - 1 /\ Head(fromNode) = fromNode[1]
        /\ \A i \in 1 .. Len(fromNode') : fromNode'[i] = fromNode[i + 1]
    BY <2>1, <2>2, HeadTailProperties
  <2>4. CASE rpc' = "callbacks"
    <3>1. Coming' = fromNode'
      BY <2>2, <2>4, Prefixed DEF Coming, Offered
    <3>2. /\ Len(Coming') = Len(Coming) - 1
          /\ \A i \in 1 .. Len(Coming') : i + 1 \in 1 .. Len(Coming) /\ Coming'[i] = Coming[i + 1]
      BY <2>2, <2>3, <3>1
    <3> QED
      BY <3>2 DEF Left
  <2>5. CASE rpc' = "queue1"
    <3>1. Coming' = <<rmsg'>> \o fromNode'
      BY <2>5 DEF Coming, Offered
    <3>2. /\ Len(Coming') = Len(fromNode') + 1 /\ Coming'[1] = rmsg' /\ Len(fromNode') \in Nat
          /\ \A i \in 1 .. Len(fromNode') : Coming'[i + 1] = fromNode'[i]
      BY <2>2, <3>1, Prefixed
    <3>3. Len(Coming') = Len(Coming) /\ \A i \in 1 .. Len(Coming') : Coming'[i] = Coming[i]
      <4>1. Len(Coming') = Len(Coming)
        BY <2>2, <2>3, <3>2
      <4>2. ASSUME NEW i \in 1 .. Len(Coming') PROVE Coming'[i] = Coming[i]
        <5>1. CASE i = 1
          BY <2>1, <2>2, <2>3, <3>2, <5>1
        <5>2. CASE i # 1
          <6>1. i - 1 \in 1 .. Len(fromNode') /\ (i - 1) + 1 = i
            BY <3>2, <5>2
          <6>2. Coming'[(i - 1) + 1] = fromNode'[i - 1] /\ fromNode'[i - 1] = fromNode[(i - 1) + 1]
            BY <2>3, <3>2, <6>1
          <6> QED
            BY <2>2, <6>1, <6>2
        <5> QED
          BY <5>1, <5>2
      <4> QED
        BY <4>1, <4>2
    <3>4. /\ Len(Coming') = Len(Coming) - 0
          /\ \A i \in 1 .. Len(Coming') : i + 0 \in 1 .. Len(Coming) /\ Coming'[i] = Coming[i + 0]
      BY <2>2, <3>3
    <3> QED
      BY <3>4 DEF Left
  <2> QED
    BY <2>1, <2>4, <2>5
<1>2. CASE Deliver \/ TryNextSlot \/ NoListener \/ DeliverNoMem \/ Resubmit \/ BroadcastSlot
           \/ QueueCallback \/ SkipListener \/ ListenersDone \/ ReaderExit \/ ClearSlot
  <2>1. UNCHANGED fromNode /\ (Offered' => Offered /\ rmsg' = rmsg)
    BY <1>2 DEF Deliver, TryNextSlot, Offering, NoListener, DeliverNoMem, Resubmit, BroadcastSlot,
       QueueCallback, SkipListener, ListenersDone, ReaderExit, ClearSlot, line, Offered
  <2> QED
    BY <2>1, ReaderTakes
<1> QED
  BY <1>1, <1>2 DEF Reader

\* What is under way stays or gets less, and nobody stops waiting for what is under way.
LEMMA LessUnderWay ==
  ASSUME OneUnderWay, ResponsesApart, Left(Coming, Coming'), Len(Coming) \in Nat, Len(Coming') \in Nat,
         UNCHANGED toNode,
         \A u \in Clients : cmd'[u] = cmd[u] \/ ~Due(u),
         \A u \in Clients : Due(u) =>
            \/ Due(u)'
            \/ /\ \A i \in 1 .. Len(toNode) : Ordered(toNode[i]) => toNode[i].req # u
               /\ \A i \in 1 .. Len(Coming') : Awaited(Coming'[i]) => Coming'[i].req # u
  PROVE  OneUnderWay' /\ ResponsesApart'
<1>1. PICK d \in {0, 1} :
        /\ Len(Coming') = Len(Coming) - d
        /\ \A i \in 1 .. Len(Coming') : i + d \in 1 .. Len(Coming) /\ Coming'[i] = Coming[i + d]
  BY DEF Left
<1> DEFINE p == Coming
           q == Coming'
<1>2. ASSUME NEW i \in 1 .. Len(toNode), Ordered(toNode[i]) PROVE Due(toNode[i].req)'
  <2>1. Due(toNode[i].req) /\ toNode[i].req \in Clients
    BY <1>2 DEF OneUnderWay, Due
  <2>2. toNode'[i].req = toNode[i].req
    OBVIOUS
  <2> QED
    BY <1>2, <2>1, <2>2
<1>3. ASSUME NEW i \in 1 .. Len(q), Awaited(q[i]) PROVE (Due(Coming[i].req) /\ Coming[i].of = cmd[Coming[i].req])'
  <2>1. Due(q[i].req) /\ q[i].of = cmd[q[i].req]
    BY <1>1, <1>3 DEF OneUnderWay
  <2>2. q[i].req \in Clients
    BY <2>1 DEF Due
  <2> QED
    BY <1>3, <2>1, <2>2
<1>4. \A i, j \in 1 .. Len(q) : Awaited(q[i]) /\ Awaited(q[j]) => i = j
  <2> SUFFICES ASSUME NEW i \in 1 .. Len(q), NEW j \in 1 .. Len(q), Awaited(q[i]), Awaited(q[j])
               PROVE  i = j
    OBVIOUS
  <2>1. i + d = j + d
    BY <1>1 DEF OneUnderWay
  <2> QED
    BY <2>1
<1>5. \A i \in 1 .. Len(toNode) : \A j \in 1 .. Len(q) : ~(Ordered(toNode[i]) /\ Awaited(q[j]))
  BY <1>1 DEF OneUnderWay
<1>6. OneUnderWay'
  BY <1>2, <1>3, <1>4, <1>5 DEF OneUnderWay, Ordered, Awaited
<1>7. ASSUME NEW i \in 1 .. Len(q), NEW j \in 1 .. Len(q), i < j, q[i].type = "RESPONSE",
             q[j].type = "RESPONSE"
      PROVE  \E k \in i .. j : Awaited(q[k]) /\ q[k].of \in Requests
  <2>1. i + d \in 1 .. Len(p) /\ j + d \in 1 .. Len(p) /\ i + d < j + d /\ q[i] = p[i + d] /\ q[j] = p[j + d]
    BY <1>1, <1>7
  <2>2. PICK k \in i + d .. j + d : Awaited(p[k]) /\ p[k].of \in Requests
    BY <1>7, <2>1 DEF ResponsesApart
  <2>3. k - d \in i .. j /\ k - d \in 1 .. Len(q) /\ (k - d) + d = k
    BY <1>1, <2>2
  <2>4. q[k - d] = p[k]
    BY <1>1, <2>3
  <2> QED
    BY <2>2, <2>3, <2>4
<1>8. ResponsesApart'
  BY <1>7 DEF ResponsesApart, Awaited
<1> QED
  BY <1>6, <1>8


LEMMA SameUnderWay ==
  ASSUME PInv, UNCHANGED toNode, Coming' = Coming,
         \A u \in Clients : cmd'[u] = cmd[u] \/ ~Due(u),
         \A u \in Clients : Due(u) => Due(u)'
  PROVE  OneUnderWay' /\ ResponsesApart'
<1>1. Len(Coming) \in Nat
  BY ComingIs DEF PInv, MInv, ComingFits
<1> QED
  BY <1>1, LeftSame, LessUnderWay DEF PInv

\* Who is due a status is sending.
LEMMA DueAreSending == \A t : Due(t) => t \in Clients /\ Sending(t) /\ pc[t] \in {"scan", "wait"}
BY DEF Due, Sending

\* An earlier call's mark is not on anything that is waited for.
LEMMA CallUnderWay ==
  ASSUME PInv, [Next]_vars, NEW t \in Clients, NEW c, Call(t, c[1], c[2])
  PROVE  OneUnderWay' /\ ResponsesApart'
<1>1. /\ TInv /\ pc \in [Clients -> ClientPlaces] /\ want \in [Clients -> Wants] /\ CallsTyped
      /\ toNode \in Seq(Written) /\ rmsg \in Received \cup {Null}
      /\ OneUnderWay /\ ResponsesApart /\ Nobody # t
  BY LinkAssumption DEF PInv, MInv, TInv, IInv, Shape, LineTyped, ReaderTyped, LinkAssumption
<1>2. ComingFits /\ ComingFits'
  BY <1>1, NextTInv, ComingIs, ComingWillBe
<1>3. /\ pc[t] = "idle" /\ pc' = [pc EXCEPT ![t] = "send"] /\ cmd' = [cmd EXCEPT ![t] = c[2]]
      /\ want' = [want EXCEPT ![t] = "STATUS"] /\ UNCHANGED <<at, rpc, rk>>
      /\ toNode' = [i \in DOMAIN toNode |-> Orphan(toNode[i], t)] /\ rmsg' = Orphan(rmsg, t)
      /\ fromNode' = [i \in DOMAIN fromNode |-> Orphan(fromNode[i], t)]
  BY DEF Call, Disown, MayCall
<1>4. Len(toNode') = Len(toNode) /\ \A i \in 1 .. Len(toNode) : toNode'[i] = Orphan(toNode[i], t)
  BY <1>1, <1>3, Orphans, OrphanedSeq
<1>5. Len(Coming') = Len(Coming) /\ \A i \in 1 .. Len(Coming) : Coming'[i] = Orphan(Coming[i], t)
  <2>1. /\ Len(fromNode') = Len(fromNode)
        /\ \A i \in 1 .. Len(fromNode) : fromNode'[i] = Orphan(fromNode[i], t)
    <3>1. \A m \in Received : Orphan(m, t) \in Received
      BY Orphans
    <3> QED
      BY <1>2, <1>3, <3>1, OrphanedSeq DEF ComingFits
  <2>2. CASE ~Offered
    BY <1>2, <1>3, <2>1, <2>2 DEF ComingFits, Offered
  <2>3. CASE Offered
    <3>1. /\ Len(Coming) = Len(fromNode) + 1 /\ Len(Coming') = Len(fromNode') + 1
          /\ Len(fromNode) \in Nat /\ Coming[1] = rmsg /\ Coming'[1] = rmsg'
          /\ \A i \in 1 .. Len(fromNode) : Coming[i + 1] = fromNode[i]
          /\ \A i \in 1 .. Len(fromNode') : Coming'[i + 1] = fromNode'[i]
      BY <1>2, <1>3, <2>3 DEF ComingFits, Offered
    <3>2. ASSUME NEW i \in 1 .. Len(Coming), i # 1 PROVE Coming'[i] = Orphan(Coming[i], t)
      <4>1. i - 1 \in 1 .. Len(fromNode) /\ (i - 1) + 1 = i
        BY <3>1, <3>2
      <4>2. Coming[(i - 1) + 1] = fromNode[i - 1] /\ Coming'[(i - 1) + 1] = fromNode'[i - 1]
        BY <2>1, <3>1, <4>1
      <4> QED
        BY <2>1, <4>1, <4>2
    <3> QED
      BY <1>3, <2>1, <3>1, <3>2
  <2> QED
    BY <2>2, <2>3
<1>6. \A m : m.req # t => Orphan(m, t) = m
  BY DEF Orphan
<1>7. \A i \in 1 .. Len(Coming) : /\ Orphan(Coming[i], t).type = Coming[i].type
                                  /\ Orphan(Coming[i], t).of = Coming[i].of
  BY <1>2, Orphans DEF ComingFits
<1>8. \A i \in 1 .. Len(toNode) : Orphan(toNode[i], t).type = toNode[i].type
  BY <1>1 DEF Orphan, Written
<1>9. \A u \in Clients \ {t} : (Due(u) <=> Due(u)') /\ cmd'[u] = cmd[u]
  BY <1>1, <1>3 DEF Due, InSlot, CallsTyped
<1>10. \A u : Due(u) => u \in Clients \ {t}
  BY <1>3 DEF Due
<1>11. \A i \in 1 .. Len(toNode) :
         Ordered(toNode'[i]) => Ordered(toNode[i]) /\ toNode'[i] = toNode[i] /\ Due(toNode[i].req)
  BY <1>1, <1>4, <1>6, <1>8, <1>10 DEF OneUnderWay, Ordered
<1>12. \A i \in 1 .. Len(Coming) :
         Awaited(Coming'[i]) => /\ Awaited(Coming[i]) /\ Coming'[i] = Coming[i] /\ Due(Coming[i].req)
                                /\ Coming[i].of = cmd[Coming[i].req]
  BY <1>1, <1>5, <1>6, <1>7, <1>10 DEF OneUnderWay, Awaited
<1>13. OneUnderWay'
  <2>1. ASSUME NEW i \in 1 .. Len(toNode), Ordered(toNode[i])' PROVE Due(toNode[i].req)'
    <3>1. toNode'[i] = toNode[i] /\ Due(toNode[i].req)
      BY <1>11, <2>1 DEF Ordered
    <3> QED
      BY <1>9, <1>10, <3>1
  <2>2. ASSUME NEW i \in 1 .. Len(Coming), Awaited(Coming[i])'
        PROVE  (Due(Coming[i].req) /\ Coming[i].of = cmd[Coming[i].req])'
    <3>1. Coming'[i] = Coming[i] /\ Due(Coming[i].req) /\ Coming[i].of = cmd[Coming[i].req]
      BY <1>12, <2>2 DEF Awaited
    <3> QED
      BY <1>9, <1>10, <3>1
  <2>3. /\ \A i, j \in 1 .. Len(toNode) : Ordered(toNode'[i]) /\ Ordered(toNode'[j]) => i = j
        /\ \A i, j \in 1 .. Len(Coming) : Awaited(Coming'[i]) /\ Awaited(Coming'[j]) => i = j
        /\ \A i \in 1 .. Len(toNode) : \A j \in 1 .. Len(Coming) :
              ~(Ordered(toNode'[i]) /\ Awaited(Coming'[j]))
    BY <1>1, <1>11, <1>12 DEF OneUnderWay
  <2> QED
    BY <1>4, <1>5, <2>1, <2>2, <2>3 DEF OneUnderWay, Ordered, Awaited
<1>14. ResponsesApart'
  BY <1>1, <1>5, <1>7 DEF ResponsesApart, Awaited
<1> QED
  BY <1>13, <1>14

LEMMA WriteUnderWay ==
  ASSUME PInv, Kinds, NEW t \in Clients, WriteMessage(t)
  PROVE  OneUnderWay' /\ ResponsesApart'
<1> DEFINE m == [type |-> cmd[t], req |-> IF op[t] = "nowait" THEN Nobody ELSE t]
<1>1. /\ pc \in [Clients -> ClientPlaces] /\ toNode \in Seq(Written) /\ OneUnderWay /\ ResponsesApart
      /\ CallsTyped /\ CallsFit
  BY DEF PInv, MInv, TInv, IInv, Shape, LineTyped
<1>2. /\ pc[t] = "write" /\ toNode' = Append(toNode, m)
      /\ UNCHANGED <<cmd, want, at, fromNode, rpc, rk, rmsg>>
      /\ pc' = [pc EXCEPT ![t] = IF op[t] = "nowait" THEN "idle" ELSE "scan"]
  BY DEF WriteMessage, reader
<1>3. Coming' = Coming
  BY <1>2 DEF Coming, Offered
<1>4. Ordered(m) => op[t] # "nowait" /\ m.req = t
  BY <1>1 DEF CallsFit, Ordered
<1>5. m.type = cmd[t]
  OBVIOUS
<1> HIDE DEF m
<1>6. /\ Len(toNode') = Len(toNode) + 1 /\ Len(toNode) \in Nat /\ toNode'[Len(toNode) + 1] = m
      /\ \A i \in 1 .. Len(toNode) : toNode'[i] = toNode[i]
  BY <1>1, <1>2
<1>7. \A u : ~Due(u)
  <2>1. Sending(t)
    BY <1>2 DEF Sending
  <2> QED
    BY <1>2, <2>1, DueAreSending DEF PInv, Exclusive
<1>8. (\A i \in 1 .. Len(toNode) : ~Ordered(toNode[i])) /\ \A i \in 1 .. Len(Coming) : ~Awaited(Coming[i])
  BY <1>1, <1>7 DEF OneUnderWay
<1>9. op[t] # "nowait" => Due(t)'
  BY <1>1, <1>2 DEF Due, InSlot, CallsFit
<1>10. \A i \in 1 .. Len(toNode') : Ordered(toNode'[i]) => i = Len(toNode) + 1 /\ toNode'[i].req = t /\ op[t] # "nowait"
  <2>1. \A i \in 1 .. Len(toNode') : i \in 1 .. Len(toNode) \/ i = Len(toNode) + 1
    BY <1>6
  <2> QED
    BY <1>4, <1>6, <1>8, <2>1 DEF Ordered
<1>11. ASSUME NEW i \in 1 .. Len(toNode'), Ordered(toNode'[i]) PROVE Due(toNode[i].req)'
  BY <1>9, <1>10, <1>11
<1>12. OneUnderWay'
  BY <1>3, <1>8, <1>10, <1>11 DEF OneUnderWay, Ordered, Awaited
<1> QED
  BY <1>1, <1>3, <1>12 DEF ResponsesApart, Awaited


LEMMA Behind ==
  ASSUME NEW n \in Nat, NEW k \in {0, 1, 2}, NEW i \in 1 .. n + k, i \notin 1 .. n
  PROVE  (i = n + 1 /\ k >= 1) \/ (i = n + 2 /\ k = 2)
OBVIOUS

\* The node answers the one command whose status is waited for, or another one.
LEMMA AnswerUnderWay ==
  ASSUME PInv, Kinds, [Next]_vars, NodeAnswer
  PROVE  /\ OneUnderWay' /\ ResponsesApart'
         /\ \A v \in Clients : want[v] = "RESPONSE" =>
              \A i \in 1 .. Len(Coming') : Coming'[i].type = "RESPONSE" =>
                 i \in 1 .. Len(Coming) /\ Coming[i].type = "RESPONSE"
<1> DEFINE c == Head(toNode)
           n == Len(Coming)
<1>1. /\ TInv /\ toNode \in Seq(Written) /\ OneUnderWay /\ ResponsesApart /\ CallsFit /\ CommandsOwn
      /\ ComingFits /\ ComingFits'
  BY NextTInv, ComingIs, ComingWillBe DEF PInv, MInv, TInv, LineTyped
<1>2. PICK f \in Seq({Status(c), Response(c)}) :
        /\ fromNode' = fromNode \o f
        /\ Len(f) \in {0, 1, 2} /\ (Len(f) >= 1 => f[1] = Status(c))
        /\ Len(f) = 2 => f[2] = Response(c) /\ c.type \in Requests
  BY <1>1, AnswersToHead
<1>3. toNode # <<>> /\ toNode' = Tail(toNode) /\ UNCHANGED <<pc, at, want, cmd, rpc, rk, rmsg>>
  BY DEF NodeAnswer, reader
<1>4. /\ Len(toNode') = Len(toNode) - 1 /\ Len(toNode) \in Nat /\ 1 \in 1 .. Len(toNode) /\ c = toNode[1]
      /\ \A i \in 1 .. Len(toNode') : i + 1 \in 1 .. Len(toNode) /\ toNode'[i] = toNode[i + 1]
  <2>1. Len(toNode') = Len(toNode) - 1 /\ \A i \in 1 .. Len(toNode') : toNode'[i] = toNode[i + 1]
    BY <1>1, <1>3, HeadTailProperties
  <2> QED
    BY <1>1, <1>3, <2>1
<1>5. Status(c).type = "STATUS" /\ Status(c).of = c.type /\ Status(c).req = c.req /\ Response(c).type = "RESPONSE"
  BY DEF Status, Response
<1> HIDE DEF c
<1>6. /\ n \in Nat /\ Len(Coming') = n + Len(f) /\ \A i \in 1 .. n : Coming'[i] = Coming[i]
      /\ Len(f) >= 1 => Coming'[n + 1] = Status(c)
      /\ Len(f) = 2 => Coming'[n + 2] = Response(c) /\ c.type \in Requests
  <2> DEFINE S == Received \cup {Status(c), Response(c)}
  <2>1. fromNode \in Seq(S) /\ f \in Seq(S) /\ Coming \in Seq(S)
    BY <1>1 DEF ComingFits
  <2>2. Coming' = Coming \o f
    <3>1. CASE Offered
      <4>1. <<rmsg>> \in Seq(S \cup {rmsg}) /\ fromNode \in Seq(S \cup {rmsg}) /\ f \in Seq(S \cup {rmsg})
        BY <2>1
      <4>2. Coming' = <<rmsg>> \o (fromNode \o f) /\ Coming = <<rmsg>> \o fromNode
        BY <1>2, <1>3, <3>1 DEF Coming, Offered
      <4> QED
        BY <4>1, <4>2, ConcatAssociative
    <3>2. CASE ~Offered
      <4>1. Coming' = fromNode' /\ Coming = fromNode
        BY <1>1, <1>3, <3>2 DEF ComingFits, Offered
      <4> QED
        BY <1>2, <4>1
    <3> QED
      BY <3>1, <3>2
  <2> HIDE DEF S
  <2>3. /\ Len(Coming) \in Nat /\ Len(Coming') = Len(Coming) + Len(f)
        /\ \A i \in 1 .. Len(Coming) : Coming'[i] = Coming[i]
        /\ \A i \in 1 .. Len(f) : Coming'[Len(Coming) + i] = f[i]
    BY <2>1, <2>2, ConcatProperties
  <2> QED
    BY <1>2, <2>3
<1> HIDE DEF n
<1>7. \A u : Due(u)' <=> Due(u)
  BY <1>3 DEF Due, InSlot
\* What is new and waited for is the answer to an ordered command.
<1>8. ASSUME NEW i \in 1 .. Len(Coming'), i \notin 1 .. n, Awaited(Coming'[i])
      PROVE  i = n + 1 /\ Ordered(c) /\ Coming'[i] = Status(c)
  <2>1. (i = n + 1 /\ Len(f) >= 1) \/ (i = n + 2 /\ Len(f) = 2)
    BY <1>2, <1>6, <1>8, Behind
  <2> QED
    BY <1>5, <1>6, <1>8, <2>1 DEF Awaited, Ordered
<1>9. Ordered(c) => /\ Due(c.req) /\ c.type = cmd[c.req]
                    /\ \A i \in 1 .. n : ~Awaited(Coming[i])
                    /\ \A i \in 1 .. Len(toNode') : ~Ordered(toNode'[i])
  <2> SUFFICES ASSUME Ordered(c)
               PROVE  /\ Due(c.req) /\ c.type = cmd[c.req]
                      /\ \A i \in 1 .. n : ~Awaited(Coming[i])
                      /\ \A i \in 1 .. Len(toNode') : ~Ordered(toNode'[i])
    OBVIOUS
  <2>1. Due(c.req) /\ \A i \in 1 .. n : ~Awaited(Coming[i])
    BY <1>1, <1>4 DEF OneUnderWay, n
  <2>2. c.type = cmd[c.req]
    BY <1>1, <1>4, <2>1 DEF CommandsOwn, Due
  <2>3. ASSUME NEW i \in 1 .. Len(toNode'), Ordered(toNode'[i]) PROVE FALSE
    <3>1. i + 1 \in 1 .. Len(toNode) /\ Ordered(toNode[i + 1]) /\ i + 1 # 1
      BY <1>4, <2>3
    <3> QED
      BY <1>1, <1>4, <3>1 DEF OneUnderWay
  <2> QED
    BY <2>1, <2>2, <2>3
<1>10. ASSUME NEW i \in 1 .. Len(toNode'), Ordered(toNode'[i]) PROVE Due(toNode[i].req)'
  <2>1. Due(toNode[i + 1].req) /\ toNode'[i] = toNode[i + 1]
    BY <1>1, <1>4, <1>10 DEF OneUnderWay
  <2> QED
    BY <1>7, <2>1
<1>11. ASSUME NEW i \in 1 .. Len(Coming'), Awaited(Coming'[i])
       PROVE  (Due(Coming[i].req) /\ Coming[i].of = cmd[Coming[i].req])'
  <2>1. CASE i \in 1 .. n
    <3>1. Coming'[i] = Coming[i] /\ Due(Coming[i].req) /\ Coming[i].of = cmd[Coming[i].req]
      BY <1>1, <1>6, <1>11, <2>1 DEF OneUnderWay, n
    <3> QED
      BY <1>3, <1>7, <3>1
  <2>2. CASE i \notin 1 .. n
    <3>1. Coming'[i] = Status(c) /\ Ordered(c)
      BY <1>8, <1>11, <2>2
    <3> QED
      BY <1>3, <1>5, <1>7, <1>9, <3>1
  <2> QED
    BY <2>1, <2>2
<1>12. OneUnderWay'
  <2>1. \A i, j \in 1 .. Len(toNode') : Ordered(toNode'[i]) /\ Ordered(toNode'[j]) => i = j
    <3> SUFFICES ASSUME NEW i \in 1 .. Len(toNode'), NEW j \in 1 .. Len(toNode'), Ordered(toNode'[i]),
                        Ordered(toNode'[j])
                 PROVE  i = j
      OBVIOUS
    <3>1. i + 1 = j + 1
      BY <1>1, <1>4 DEF OneUnderWay
    <3> QED
      BY <3>1
  <2>2. \A i, j \in 1 .. Len(Coming') : Awaited(Coming'[i]) /\ Awaited(Coming'[j]) => i = j
    <3> SUFFICES ASSUME NEW i \in 1 .. Len(Coming'), NEW j \in 1 .. Len(Coming'), Awaited(Coming'[i]),
                        Awaited(Coming'[j])
                 PROVE  i = j
      OBVIOUS
    <3>1. CASE Ordered(c)
      <4>1. i \notin 1 .. n /\ j \notin 1 .. n
        BY <1>6, <1>9, <3>1
      <4> QED
        BY <1>8, <4>1
    <3>2. CASE ~Ordered(c)
      <4>1. i \in 1 .. n /\ j \in 1 .. n
        BY <1>8, <3>2
      <4> QED
        BY <1>1, <1>6, <4>1 DEF OneUnderWay, n
    <3> QED
      BY <3>1, <3>2
  <2>3. ASSUME NEW i \in 1 .. Len(toNode'), NEW j \in 1 .. Len(Coming'), Ordered(toNode'[i]), Awaited(Coming'[j])
        PROVE  FALSE
    <3>1. ~Ordered(c)
      BY <1>9, <2>3
    <3>2. j \in 1 .. n
      BY <1>8, <2>3, <3>1
    <3>3. Ordered(toNode[i + 1]) /\ i + 1 \in 1 .. Len(toNode) /\ Awaited(Coming[j])
      BY <1>4, <1>6, <2>3, <3>2
    <3> QED
      BY <1>1, <3>2, <3>3 DEF OneUnderWay, n
  <2> QED
    BY <1>10, <1>11, <2>1, <2>2, <2>3 DEF OneUnderWay, Ordered, Awaited
\* A new response follows its own status, whose request is waited for.
<1>13. ASSUME NEW i \in 1 .. Len(Coming'), i \notin 1 .. n, Coming'[i].type = "RESPONSE"
       PROVE  /\ i = n + 2 /\ n + 1 \in 1 .. Len(Coming') /\ Awaited(Coming'[n + 1])
              /\ Coming'[n + 1].of \in Requests /\ Coming'[n + 1].type # "RESPONSE"
              /\ Ordered(c) /\ c.type \in Requests
  <2>1. (i = n + 1 /\ Len(f) >= 1) \/ (i = n + 2 /\ Len(f) = 2)
    BY <1>2, <1>6, <1>13, Behind
  <2>2. i = n + 2 /\ Len(f) = 2 /\ Coming'[n + 1] = Status(c) /\ c.type \in Requests
    BY <1>5, <1>6, <1>13, <2>1
  <2> QED
    BY <1>5, <1>6, <2>2 DEF Awaited, Ordered, Kinds
<1>14. ASSUME NEW i \in 1 .. Len(Coming'), NEW j \in 1 .. Len(Coming'), i < j,
              Coming'[i].type = "RESPONSE", Coming'[j].type = "RESPONSE"
       PROVE  \E k \in i .. j : Awaited(Coming'[k]) /\ Coming'[k].of \in Requests
  <2>1. CASE j \in 1 .. n
    <3>1. i \in 1 .. n
      BY <1>6, <1>14, <2>1
    <3>2. PICK k \in i .. j : Awaited(Coming[k]) /\ Coming[k].of \in Requests
      BY <1>1, <1>6, <1>14, <2>1, <3>1 DEF ResponsesApart, n
    <3>3. k \in 1 .. n
      BY <1>6, <2>1, <3>1, <3>2
    <3> QED
      BY <1>6, <3>2, <3>3
  <2>2. CASE j \notin 1 .. n
    <3>1. j = n + 2 /\ Awaited(Coming'[n + 1]) /\ Coming'[n + 1].of \in Requests /\ Coming'[n + 1].type # "RESPONSE"
      BY <1>13, <1>14, <2>2
    <3>2. n + 1 \in i .. j
      BY <1>6, <1>14, <3>1
    <3> QED
      BY <3>1, <3>2
  <2> QED
    BY <2>1, <2>2
<1>15. ResponsesApart'
  BY <1>14 DEF ResponsesApart, Awaited
<1>16. ASSUME NEW v \in Clients, want[v] = "RESPONSE", NEW i \in 1 .. Len(Coming'), Coming'[i].type = "RESPONSE"
       PROVE  i \in 1 .. Len(Coming) /\ Coming[i].type = "RESPONSE"
  <2>1. CASE i \in 1 .. n
    BY <1>6, <1>16, <2>1 DEF n
  <2>2. CASE i \notin 1 .. n
    <3>1. Ordered(c) /\ c.type \in Requests
      BY <1>13, <1>16, <2>2
    <3>2. Due(c.req) /\ cmd[c.req] = c.type
      BY <1>9, <3>1
    <3>3. c.req = MainThread /\ v = MainThread
      <4>1. op[c.req] \in {"send", "nowait", "request", "erase"}
        BY <1>1, <3>2 DEF Due, TInv, CallsTyped
      <4>2. op[c.req] = "request"
        BY <1>1, <3>1, <3>2, <4>1 DEF CallsFit, Due, Kinds
      <4> QED
        BY <1>1, <1>16, <3>2, <4>2 DEF CallsFit, Due
    <3> QED
      BY <1>16, <3>2, <3>3 DEF Due
  <2> QED
    BY <2>1, <2>2
<1> QED
  BY <1>12, <1>15, <1>16


\* What the node reports is no answer.
LEMMA EventUnderWay ==
  ASSUME PInv, [Next]_vars, NodeEvent
  PROVE  /\ OneUnderWay' /\ ResponsesApart'
         /\ \A i \in 1 .. Len(Coming') : Coming'[i].type = "RESPONSE" =>
              i \in 1 .. Len(Coming) /\ Coming[i].type = "RESPONSE"
<1> DEFINE n == Len(Coming)
<1>1. TInv /\ OneUnderWay /\ ResponsesApart /\ ComingFits /\ ComingFits'
  BY NextTInv, ComingIs, ComingWillBe DEF PInv, MInv
<1>2. PICK m : m.type \in {"EVENT", "LOG"} /\ fromNode' = Append(fromNode, m)
  <2>1. PICK ty \in Reports :
          fromNode' = Append(fromNode, [type |-> ty, of |-> None, req |-> Nobody, seq |-> events + 1])
    BY DEF NodeEvent
  <2>2. Reports \subseteq {"EVENT", "LOG"}
    BY LinkAssumption DEF LinkAssumption
  <2> QED
    BY <2>1, <2>2
<1>3. UNCHANGED <<pc, at, want, cmd, rpc, rk, rmsg, toNode>>
  BY DEF NodeEvent, client, reader
<1>4. n \in Nat /\ Len(Coming') = n + 1 /\ Coming'[n + 1] = m /\ \A i \in 1 .. n : Coming'[i] = Coming[i]
  <2>1. /\ Len(fromNode') = Len(fromNode) + 1 /\ fromNode'[Len(fromNode) + 1] = m /\ Len(fromNode) \in Nat
        /\ \A i \in 1 .. Len(fromNode) : fromNode'[i] = fromNode[i]
    BY <1>1, <1>2 DEF ComingFits
  <2>2. CASE ~Offered
    <3>1. Coming' = fromNode' /\ Coming = fromNode
      BY <1>1, <1>3, <2>2 DEF ComingFits, Offered
    <3> QED
      BY <2>1, <3>1
  <2>3. CASE Offered
    <3>1. /\ Len(Coming) = Len(fromNode) + 1 /\ Coming[1] = rmsg
          /\ \A i \in 1 .. Len(fromNode) : Coming[i + 1] = fromNode[i]
          /\ Len(Coming') = Len(fromNode') + 1 /\ Coming'[1] = rmsg'
          /\ \A i \in 1 .. Len(fromNode') : Coming'[i + 1] = fromNode'[i]
      BY <1>1, <1>3, <2>3 DEF ComingFits, Offered
    <3>2. n \in Nat /\ Len(Coming') = n + 1 /\ n = Len(fromNode')
      BY <2>1, <3>1
    <3>3. Coming'[n + 1] = m
      <4>1. n \in 1 .. Len(fromNode')
        BY <2>1, <3>2
      <4> QED
        BY <2>1, <3>1, <3>2, <4>1
    <3>4. ASSUME NEW i \in 1 .. n PROVE Coming'[i] = Coming[i]
      <4>1. CASE i = 1
        BY <1>3, <3>1, <4>1
      <4>2. CASE i # 1
        <5>1. i - 1 \in 1 .. Len(fromNode) /\ (i - 1) + 1 = i /\ i - 1 \in 1 .. Len(fromNode')
          BY <2>1, <3>1, <4>2
        <5>2. Coming'[(i - 1) + 1] = fromNode'[i - 1] /\ Coming[(i - 1) + 1] = fromNode[i - 1]
          BY <3>1, <5>1
        <5> QED
          BY <2>1, <5>1, <5>2
      <4> QED
        BY <4>1, <4>2
    <3> QED
      BY <3>2, <3>3, <3>4
  <2> QED
    BY <2>2, <2>3
<1> HIDE DEF n
<1>5. ASSUME NEW i \in 1 .. Len(Coming'), Awaited(Coming'[i]) \/ Coming'[i].type = "RESPONSE"
      PROVE  i \in 1 .. n /\ Coming'[i] = Coming[i]
  <2>1. i \in 1 .. n \/ i = n + 1
    BY <1>4
  <2> QED
    BY <1>2, <1>4, <1>5, <2>1 DEF Awaited
<1>6. \A u : Due(u)' <=> Due(u)
  BY <1>3 DEF Due, InSlot
<1>7. ASSUME NEW i \in 1 .. Len(toNode), Ordered(toNode[i]) PROVE Due(toNode[i].req)'
  BY <1>1, <1>3, <1>6, <1>7 DEF OneUnderWay
<1>8. ASSUME NEW i \in 1 .. Len(Coming'), Awaited(Coming'[i])
      PROVE  (Due(Coming[i].req) /\ Coming[i].of = cmd[Coming[i].req])'
  <2>1. Coming'[i] = Coming[i] /\ Due(Coming[i].req) /\ Coming[i].of = cmd[Coming[i].req]
    BY <1>1, <1>5, <1>8 DEF OneUnderWay, n
  <2> QED
    BY <1>3, <1>6, <2>1
<1>9. OneUnderWay'
  <2>1. \A i, j \in 1 .. Len(Coming') : Awaited(Coming'[i]) /\ Awaited(Coming'[j]) => i = j
    BY <1>1, <1>5 DEF OneUnderWay, n
  <2>2. \A i \in 1 .. Len(toNode) : \A j \in 1 .. Len(Coming') : ~(Ordered(toNode[i]) /\ Awaited(Coming'[j]))
    BY <1>1, <1>5 DEF OneUnderWay, n
  <2>3. \A i, j \in 1 .. Len(toNode) : Ordered(toNode[i]) /\ Ordered(toNode[j]) => i = j
    BY <1>1 DEF OneUnderWay
  <2> QED
    BY <1>3, <1>7, <1>8, <2>1, <2>2, <2>3 DEF OneUnderWay, Ordered, Awaited
<1>10. ASSUME NEW i \in 1 .. Len(Coming'), NEW j \in 1 .. Len(Coming'), i < j,
              Coming'[i].type = "RESPONSE", Coming'[j].type = "RESPONSE"
       PROVE  \E k \in i .. j : Awaited(Coming'[k]) /\ Coming'[k].of \in Requests
  <2>1. i \in 1 .. n /\ j \in 1 .. n /\ Coming[i].type = "RESPONSE" /\ Coming[j].type = "RESPONSE"
    BY <1>5, <1>10
  <2>2. PICK k \in i .. j : Awaited(Coming[k]) /\ Coming[k].of \in Requests
    BY <1>1, <1>10, <2>1 DEF ResponsesApart, n
  <2>3. k \in 1 .. n
    BY <1>4, <2>1, <2>2
  <2> QED
    BY <1>4, <2>2, <2>3
<1>11. ResponsesApart'
  BY <1>10 DEF ResponsesApart, Awaited
<1> QED
  BY <1>5, <1>9, <1>11 DEF n

\* What the reader offers is the first of what comes.
LEMMA OfferedIsFirst ==
  ASSUME TInv, Offered
  PROVE  1 \in 1 .. Len(Coming) /\ rmsg = Coming[1] /\ rmsg \in Received
<1>1. ComingFits /\ Len(fromNode) \in Nat
  BY ComingIs DEF ComingFits
<1>2. rmsg \in Received
  BY DEF TInv, ReaderTyped, Offered
<1> QED
  BY <1>1, <1>2 DEF ComingFits

\* A slot a message matches is that of a client asleep; for a status, of the one client whose
\* status is under way.
LEMMA MatchesOne ==
  ASSUME PInv, Kinds, Offering, Matches(slots[rk]), rk \in 1 .. NSlots
  PROVE  \E v \in Clients :
           /\ pc[v] = "wait" /\ at[v] = rk
           /\ want[v] = "STATUS" => rmsg.type = "STATUS" /\ rmsg.req = v /\ Awaited(rmsg)
           /\ want[v] = "RESPONSE" => rmsg.type = "RESPONSE"
           /\ want[v] \in {"STATUS", "RESPONSE"}
<1>1. /\ TInv /\ CallsFit /\ OneUnderWay /\ Exclusive /\ rpc \in {"queue1", "queue2"}
      /\ pc \in [Clients -> ClientPlaces] /\ want \in [Clients -> Wants] /\ CallsTyped
      /\ slots[rk].u16Type = rmsg.type
  BY DEF PInv, MInv, TInv, IInv, Shape, Offering, Matches
<1>2. Offered /\ 1 \in 1 .. Len(Coming) /\ rmsg = Coming[1] /\ rmsg \in Received
  BY <1>1, OfferedIsFirst DEF Offered
<1>3. PICK v \in Clients : InSlot(v) /\ at[v] = rk
  <2>1. slots[rk].u16Type # Free
    BY <1>1, <1>2 DEF Received, Types, Free
  <2> QED
    BY <1>1, <2>1 DEF TInv, IInv, SlotOwnership
<1>4. SlotType(v) = rmsg.type /\ want[v] \in {"STATUS", "RESPONSE"}
  BY <1>1, <1>3 DEF TInv, IInv, SlotOwnership, Wants, PInv, MInv, CallsMatch, CallsFit
<1>5. ASSUME want[v] = "STATUS" PROVE pc[v] = "wait" /\ rmsg.req = v /\ Awaited(rmsg) /\ rmsg.type = "STATUS"
  <2>1. rmsg.type = "STATUS"
    BY <1>4, <1>5 DEF SlotType
  <2>2. slots[rk].pu8Message \in {Null, Stack(rmsg.of)}
    BY <2>1 DEF Matches
  <2>3. OwnStatus(v)
    BY <1>3, <1>5 DEF PInv, MInv, WaitersMatch
  <2>4. rmsg.of = cmd[v]
    BY <1>1, <1>3, <2>2, <2>3, PointersDiffer DEF OwnStatus, CallsFit
  <2>5. pc[v] = "wait"
    <3>1. pc[v] # "woken"
      <4>1. ASSUME pc[v] = "woken" PROVE FALSE
        <5>1. slots[rk].pu8Message.type = "STATUS"
          BY <1>3, <1>5, <4>1 DEF PInv, WakesAreAnswered, Answered
        <5> QED
          BY <2>2, <5>1, PointersDiffer
      <4> QED
        BY <4>1
    <3>2. pc[v] # "expired"
      BY DEF PInv, MInv, Patient
    <3> QED
      BY <1>3, <3>1, <3>2 DEF InSlot
  <2>6. cmd[v] \notin NoWaits
    <3>1. op[v] \in {"send", "nowait", "request", "erase"}
      BY <1>1 DEF CallsTyped
    <3>2. cmd[v] \in Commands \/ cmd[v] \in Requests
      BY <1>1, <2>5, <3>1 DEF CallsFit
    <3> QED
      BY <3>2 DEF Kinds
  <2>7. Awaited(rmsg)
    BY <2>1, <2>4, <2>6 DEF Awaited
  <2>8. Due(rmsg.req)
    BY <1>1, <1>2, <2>7 DEF OneUnderWay
  <2>9. Sending(v) /\ Sending(rmsg.req) /\ rmsg.req \in Clients
    BY <1>5, <2>5, <2>8, DueAreSending DEF Sending
  <2>10. rmsg.req = v
    BY <1>1, <2>9 DEF Exclusive
  <2> QED
    BY <2>1, <2>5, <2>7, <2>10
<1>6. ASSUME want[v] = "RESPONSE" PROVE pc[v] = "wait" /\ rmsg.type = "RESPONSE"
  <2>1. rmsg.type = "RESPONSE"
    BY <1>4, <1>6 DEF SlotType
  <2>2. pc[v] # "woken"
    BY <1>2, <1>6, <2>1 DEF PInv, WakesAreAnswered, Answered, NoResponse
  <2>3. pc[v] # "expired"
    BY DEF PInv, MInv, Patient
  <2> QED
    BY <1>3, <2>1, <2>2, <2>3 DEF InSlot
<1> QED
  BY <1>3, <1>4, <1>5, <1>6


LEMMA PInvBasics ==
  PInv => /\ TInv /\ CallsTyped /\ pc \in [Clients -> ClientPlaces] /\ want \in [Clients -> Wants]
          /\ at \in [Clients -> 1 .. NSlots + 1] /\ NSlots \in Nat /\ SlotOwnership
          /\ OneUnderWay /\ ResponsesApart /\ WakesAreAnswered /\ CallsFit /\ ScansEarly /\ Exclusive
          /\ \A t \in Clients : pc[t] # "expired" /\ (InSlot(t) => at[t] \in 1 .. NSlots)
BY LinkAssumption DEF LinkAssumption, PInv, MInv, TInv, IInv, Shape, Patient

\* The slot the reader is about to announce is not free.
LEMMA AnnouncedIsTaken ==
  ASSUME PInv, rpc = "bcast"
  PROVE  slots[rk].u16Type # Free
<1>1. PICK v \in Clients : pc[v] = "wait" /\ at[v] = rk
  BY PInvBasics DEF WakesAreAnswered, AnsweredIn
<1>2. InSlot(v) /\ slots[rk].u16Type = SlotType(v) /\ IInv
  BY <1>1, PInvBasics DEF InSlot, SlotOwnership, PInv, MInv, TInv
<1> QED
  BY <1>2, TypesOfSlots

\* Who gives up waits for nothing that is under way.
LEMMA NothingIsComing ==
  ASSUME PInv, NoneMisled, ~ReaderBlocked, NEW t \in Clients, TimedOut(t)
  PROVE  toNode = <<>> /\ Coming = <<>> /\ rpc = "read"
<1>1. pc[t] = "wait" /\ Overdue
  BY PInvBasics DEF TimedOut, Expired
<1>2. toNode = <<>> /\ fromNode = <<>> /\ rpc \in {"read", "stopped"}
  BY <1>1 DEF Overdue
<1>3. rpc = "read"
  BY <1>2, PInvBasics DEF CallsFit
<1>4. ComingFits
  BY PInvBasics, ComingIs
<1> QED
  BY <1>2, <1>3, <1>4 DEF ComingFits, Offered

\* Who looks for a slot for its status finds one.
LEMMA FindsASlot ==
  ASSUME PInv, Kinds, NEW t \in Clients, NoFreeSlot(t)
  PROVE  want[t] # "STATUS"
<1>1. pc[t] = "scan" /\ at[t] > NSlots /\ NSlots \in Nat /\ NSlots >= 2 /\ ScansEarly
  BY PInvBasics DEF NoFreeSlot, Kinds
<1> QED
  BY <1>1 DEF ScansEarly

LEMMA ClientUnderWay ==
  ASSUME PInv, Kinds, NoneMisled, ~ReaderBlocked, [Next]_vars, NEW t \in Clients,
         Client(t) \/ Expire(t) \/ SpuriousWakeup(t)
  PROVE  OneUnderWay' /\ ResponsesApart'
<1>1. /\ pc \in [Clients -> ClientPlaces] /\ want \in [Clients -> Wants]
      /\ at \in [Clients -> 1 .. NSlots + 1]
  BY PInvBasics
<1>2. CASE WriteMessage(t)
  BY <1>2, WriteUnderWay
<1>3. CASE LockLink(t) \/ TakeSlot(t) \/ NextSlot(t)
  <2>1. /\ UNCHANGED <<cmd, want, toNode, fromNode, rpc, rmsg, rk>> /\ pc[t] \in {"send", "scan"}
        /\ \/ pc[t] = "send" /\ pc' = [pc EXCEPT ![t] = "write"] /\ UNCHANGED at
           \/ /\ pc[t] = "scan" /\ pc' = [pc EXCEPT ![t] = "wait"] /\ UNCHANGED at
              /\ slots[at[t]].u16Type = Free
           \/ pc[t] = "scan" /\ UNCHANGED pc /\ at' = [at EXCEPT ![t] = at[t] + 1]
    BY <1>3 DEF LockLink, TakeSlot, NextSlot, line, reader
  <2>2. Coming' = Coming
    BY <2>1 DEF Coming, Offered
  <2>3. ASSUME NEW u \in Clients, Due(u) PROVE Due(u)'
    <3>1. CASE u # t
      <4>1. pc'[u] = pc[u] /\ at'[u] = at[u]
        BY <1>1, <2>1, <3>1
      <4> QED
        BY <2>1, <2>3, <4>1 DEF Due, InSlot
    <3>2. CASE u = t
      <4>1. pc[t] = "scan" /\ want'[t] = "STATUS"
        BY <2>1, <2>3, <3>2 DEF Due
      <4>2. CASE pc' = [pc EXCEPT ![t] = "wait"] /\ UNCHANGED at /\ slots[at[t]].u16Type = Free
        <5>1. ~(rpc = "bcast" /\ rk = at[t])
          BY <4>2, AnnouncedIsTaken
        <5> QED
          BY <1>1, <2>1, <3>2, <4>1, <4>2, <5>1 DEF Due
      <4>3. CASE UNCHANGED pc
        BY <3>2, <4>1, <4>3 DEF Due, InSlot
      <4> QED
        BY <2>1, <4>1, <4>2, <4>3
    <3> QED
      BY <3>1, <3>2
  <2> QED
    BY <2>1, <2>2, <2>3, SameUnderWay
<1>4. CASE NoFreeSlot(t) \/ Woken(t) \/ TimedOut(t)
  <2>1. pc[t] \in {"scan", "wait", "woken", "expired"} /\ \E r, b : EndWait(t, r, b)
    BY <1>4 DEF NoFreeSlot, Woken, TimedOut, Expired
  <2>2. /\ \A v \in Clients \ {t} : pc'[v] = pc[v] /\ want'[v] = want[v] /\ at'[v] = at[v]
        /\ UNCHANGED cmd
    BY <2>1, SendingEnds, PInvBasics
  <2>3. UNCHANGED <<toNode, fromNode, rpc, rmsg, rk>>
    BY <1>4 DEF NoFreeSlot, Woken, TimedOut, line, reader
  <2>4. Coming' = Coming
    BY <2>3 DEF Coming, Offered
  <2>5. \A u \in Clients \ {t} : Due(u) => Due(u)'
    BY <2>2, <2>3 DEF Due, InSlot
  <2>6. CASE ~Due(t)
    BY <2>2, <2>3, <2>4, <2>5, <2>6, SameUnderWay
  <2>7. CASE TimedOut(t)
    <3>1. toNode = <<>> /\ Coming = <<>>
      BY <2>7, NothingIsComing
    <3>2. Len(Coming) = 0 /\ Len(toNode) = 0
      BY <3>1
    <3> QED
      BY <2>3, <2>4, <3>2 DEF OneUnderWay, ResponsesApart
  <2>8. NoFreeSlot(t) \/ Woken(t) => ~Due(t)
    BY FindsASlot DEF Woken, Due
  <2> QED
    BY <1>4, <2>6, <2>7, <2>8
<1>5. ~BadDeadline(t) /\ ~Expire(t) /\ ~SpuriousWakeup(t)
  BY DEF BadDeadline, Expire, SpuriousWakeup, NoneMisled
<1> QED
  BY <1>2, <1>3, <1>4, <1>5 DEF Client

\* A client stops waiting for what is under way when it is delivered.
LEMMA ReaderUnderWay ==
  ASSUME PInv, Kinds, NoneMisled, [Next]_vars, Reader
  PROVE  OneUnderWay' /\ ResponsesApart'
<1>1. /\ TInv /\ TInv' /\ pc \in [Clients -> ClientPlaces] /\ OneUnderWay /\ ResponsesApart
      /\ Len(Coming) \in Nat /\ Len(Coming') \in Nat
  BY PInvBasics, NextTInv, ComingIs, ComingWillBe DEF ComingFits
<1>2. Left(Coming, Coming')
  BY <1>1, ReaderLeaves
<1>3. UNCHANGED <<cmd, toNode, at, want>>
  BY DEF Reader, client, line, ReadMessage, Deliver, TryNextSlot, NoListener, DeliverNoMem, Resubmit,
     BroadcastSlot, QueueCallback, SkipListener, ListenersDone, ReaderExit, ClearSlot
<1>4. ASSUME \A u \in Clients : Due(u) => Due(u)' PROVE OneUnderWay' /\ ResponsesApart'
  BY <1>1, <1>2, <1>3, <1>4, LessUnderWay
<1>5. CASE Deliver
  <2>1. /\ Offering /\ Matches(slots[rk]) /\ rk \in 1 .. NSlots /\ rpc' = "bcast"
        /\ UNCHANGED <<pc, rmsg, rk, fromNode>>
    BY <1>1, <1>5 DEF Deliver, Offering, TInv, ReaderTyped, client, line
  <2>2. PICK v \in Clients :
          /\ pc[v] = "wait" /\ at[v] = rk
          /\ want[v] = "STATUS" => rmsg.type = "STATUS" /\ rmsg.req = v /\ Awaited(rmsg)
    BY <2>1, MatchesOne
  <2>3. Offered /\ ~Offered' /\ 1 \in 1 .. Len(Coming) /\ rmsg = Coming[1]
    BY <1>1, <2>1, OfferedIsFirst DEF Offering, Offered
  <2>4. ASSUME NEW u \in Clients, Due(u)
        PROVE  \/ Due(u)'
               \/ /\ \A i \in 1 .. Len(toNode) : Ordered(toNode[i]) => toNode[i].req # u
                  /\ \A i \in 1 .. Len(Coming') : Awaited(Coming'[i]) => Coming'[i].req # u
    <3>1. CASE InSlot(u) /\ rk = at[u]
      <4>1. u = v
        BY <2>2, <3>1, PInvBasics DEF SlotOwnership, InSlot
      <4>2. Awaited(Coming[1])
        BY <2>2, <2>3, <2>4, <4>1 DEF Due
      <4>3. \A i \in 1 .. Len(toNode) : ~Ordered(toNode[i])
        BY <1>1, <2>3, <4>2 DEF OneUnderWay
      <4>4. ASSUME NEW i \in 1 .. Len(Coming'), Awaited(Coming'[i]) PROVE FALSE
        <5>1. Coming' = fromNode
          BY <1>1, <2>1, <2>3, ReaderTakes
        <5>2. Coming'[i] = Coming[i + 1] /\ i + 1 \in 1 .. Len(Coming)
          BY <1>1, <2>3, <4>4, <5>1, ComingIs DEF ComingFits
        <5>3. i + 1 = 1
          BY <1>1, <2>3, <4>2, <4>4, <5>2 DEF OneUnderWay
        <5> QED
          BY <4>4, <5>3
      <4> QED
        BY <4>3, <4>4
    <3>2. CASE ~(InSlot(u) /\ rk = at[u])
      BY <1>3, <2>1, <2>4, <3>2 DEF Due, InSlot
    <3> QED
      BY <3>1, <3>2
  <2> QED
    BY <1>1, <1>2, <1>3, <2>4, LessUnderWay
<1>6. CASE BroadcastSlot
  <2>1. rpc = "bcast" /\ Wake(rk) /\ rpc' = "callbacks"
    BY <1>6 DEF BroadcastSlot
  <2>2. ASSUME NEW u \in Clients, Due(u) PROVE Due(u)'
    <3>1. pc'[u] = pc[u]
      BY <2>1, <2>2 DEF Wake, Due, InSlot
    <3> QED
      BY <1>3, <2>1, <2>2, <3>1 DEF Due
  <2> QED
    BY <1>4, <2>2
<1>7. CASE ReadMessage \/ TryNextSlot \/ NoListener \/ DeliverNoMem \/ Resubmit \/ QueueCallback
           \/ SkipListener \/ ListenersDone \/ ReaderExit
  <2>1. rpc' # "bcast" /\ UNCHANGED pc
    BY <1>7 DEF ReadMessage, TryNextSlot, Offering, NoListener, DeliverNoMem, Resubmit, QueueCallback,
       SkipListener, ListenersDone, ReaderExit, client
  <2>2. \A u \in Clients : Due(u) => Due(u)'
    BY <1>3, <2>1 DEF Due
  <2> QED
    BY <1>4, <2>2
<1>8. ~ClearSlot
  BY PInvBasics DEF ClearSlot, CallsFit
<1> QED
  BY <1>5, <1>6, <1>7, <1>8 DEF Reader

LEMMA UnderWayStep ==
  ASSUME PInv, Kinds, NoneMisled, ~ReaderBlocked, [Next]_vars
  PROVE  OneUnderWay' /\ ResponsesApart'
<1>1. CASE UNCHANGED vars \/ Destroy \/ StartCallback \/ EndCallback
  <2>1. UNCHANGED <<toNode, fromNode, pc, at, want, cmd, rpc, rk, rmsg>>
    BY <1>1 DEF vars, client, line, reader, Destroy, StartCallback, EndCallback
  <2>2. Coming' = Coming /\ \A u \in Clients : Due(u) => Due(u)'
    BY <2>1 DEF Coming, Offered, Due, InSlot
  <2> QED
    BY <2>1, <2>2, SameUnderWay
<1> QED
  BY <1>1, CallUnderWay, ClientUnderWay, ReaderUnderWay, AnswerUnderWay, EventUnderWay DEF Next


LEMMA LeftNoResponse == Left(Coming, Coming') /\ NoResponse => NoResponse'
BY DEF Left, NoResponse

\* Who waits or was woken keeps its answer.
LEMMA AnsweredKept ==
  ASSUME NEW u \in Clients, Answered(u), at'[u] = at[u], want'[u] = want[u],
         slots'[at[u]].pu8Message = slots[at[u]].pu8Message,
         want[u] = "RESPONSE" /\ NoResponse => NoResponse'
  PROVE  Answered(u)'
BY DEF Answered

LEMMA WakesKept ==
  ASSUME PInv,
         \A u \in Clients : pc'[u] = "woken" => pc[u] = "woken" \/ (pc[u] = "wait" /\ Answered(u)),
         rpc' = "bcast" => /\ rpc = "bcast" /\ rk' = rk
                           /\ \A u \in Clients : pc[u] = "wait" /\ at[u] = rk =>
                                                   pc'[u] = "wait" /\ at'[u] = at[u],
         \A u \in Clients : /\ pc[u] \in {"wait", "woken"} /\ pc'[u] \in {"wait", "woken"}
                            /\ Answered(u)
                            => Answered(u)'
  PROVE  WakesAreAnswered'
<1>1. ASSUME NEW u \in Clients, pc'[u] = "woken" PROVE Answered(u)'
  BY <1>1 DEF PInv, WakesAreAnswered
<1>2. ASSUME rpc' = "bcast" PROVE AnsweredIn(rk)'
  <2>1. rpc = "bcast" /\ rk' = rk
    BY <1>2
  <2>2. PICK v \in Clients : pc[v] = "wait" /\ at[v] = rk /\ Answered(v)
    BY <2>1 DEF PInv, WakesAreAnswered, AnsweredIn
  <2>3. pc'[v] = "wait" /\ at'[v] = rk' /\ Answered(v)'
    BY <1>2, <2>1, <2>2
  <2> QED
    BY <2>3 DEF AnsweredIn
<1> QED
  BY <1>1, <1>2 DEF WakesAreAnswered

\* No client moves.
LEMMA WakesStand ==
  ASSUME PInv, UNCHANGED <<pc, at, want>>,
         rpc' = "bcast" => rpc = "bcast" /\ rk' = rk,
         \A i \in 1 .. NSlots : slots'[i].pu8Message = slots[i].pu8Message,
         \A u \in Clients : want[u] = "RESPONSE" /\ NoResponse => NoResponse'
  PROVE  WakesAreAnswered'
<1>1. ASSUME NEW u \in Clients, pc[u] \in {"wait", "woken"}, Answered(u) PROVE Answered(u)'
  <2>1. at[u] \in 1 .. NSlots
    BY <1>1, PInvBasics DEF InSlot
  <2>2. slots'[at[u]].pu8Message = slots[at[u]].pu8Message
    BY <2>1
  <2>3. want[u] = "RESPONSE" /\ NoResponse => NoResponse'
    OBVIOUS
  <2> QED
    BY <1>1, <2>2, <2>3, AnsweredKept
<1>2. \A u \in Clients : pc'[u] = pc[u] /\ at'[u] = at[u]
  OBVIOUS
<1> QED
  BY <1>1, <1>2, WakesKept

LEMMA CallWakes ==
  ASSUME PInv, [Next]_vars, NEW t \in Clients, NEW c, Call(t, c[1], c[2])
  PROVE  WakesAreAnswered'
<1>1. /\ pc \in [Clients -> ClientPlaces] /\ want \in [Clients -> Wants] /\ TInv /\ TInv'
      /\ ComingFits /\ ComingFits'
  BY PInvBasics, NextTInv, ComingIs, ComingWillBe
<1>2. /\ pc[t] = "idle" /\ pc' = [pc EXCEPT ![t] = "send"] /\ want' = [want EXCEPT ![t] = "STATUS"]
      /\ UNCHANGED <<at, rpc, rk>> /\ rmsg' = Orphan(rmsg, t)
      /\ fromNode' = [i \in DOMAIN fromNode |-> Orphan(fromNode[i], t)]
      /\ slots' = [i \in DOMAIN slots |-> [slots[i] EXCEPT !.pu8Message = Orphan(@, t)]]
  BY DEF Call, Disown, MayCall
<1>3. \A i \in 1 .. NSlots : slots'[i].pu8Message = Orphan(slots[i].pu8Message, t)
  BY <1>1, <1>2 DEF TInv, SlotsTyped, Slots
<1>4. \A m \in Received : Orphan(m, t) \in Received /\ Orphan(m, t).type = m.type
  BY Orphans
<1>5. NoResponse => NoResponse'
  <2> SUFFICES ASSUME NoResponse, NEW i \in 1 .. Len(Coming') PROVE Coming'[i].type # "RESPONSE"
    BY DEF NoResponse
  <2>1. /\ Len(fromNode') = Len(fromNode)
        /\ \A j \in 1 .. Len(fromNode) : /\ fromNode'[j] = Orphan(fromNode[j], t)
                                         /\ fromNode'[j].type = fromNode[j].type
    <3>1. /\ Len(fromNode') = Len(fromNode)
          /\ \A j \in 1 .. Len(fromNode) : fromNode'[j] = Orphan(fromNode[j], t)
      BY <1>1, <1>2, <1>4, OrphanedSeq DEF ComingFits
    <3>2. \A j \in 1 .. Len(fromNode) : fromNode[j] \in Received
      BY <1>1 DEF ComingFits
    <3> QED
      BY <1>4, <3>1, <3>2
  <2>2. CASE ~Offered
    <3>1. Coming' = fromNode' /\ Coming = fromNode
      BY <1>1, <1>2, <2>2 DEF ComingFits, Offered
    <3> QED
      BY <2>1, <3>1 DEF NoResponse
  <2>3. CASE Offered
    <3>1. /\ Len(Coming) = Len(fromNode) + 1 /\ Coming[1] = rmsg /\ Len(fromNode) \in Nat
          /\ \A j \in 1 .. Len(fromNode) : Coming[j + 1] = fromNode[j]
          /\ Len(Coming') = Len(fromNode') + 1 /\ Coming'[1] = rmsg'
          /\ \A j \in 1 .. Len(fromNode') : Coming'[j + 1] = fromNode'[j]
      BY <1>1, <1>2, <2>3 DEF ComingFits, Offered
    <3>2. CASE i = 1
      <4>1. rmsg \in Received /\ 1 \in 1 .. Len(Coming) /\ rmsg = Coming[1]
        BY <1>1, <2>3, OfferedIsFirst
      <4>2. rmsg.type # "RESPONSE"
        BY <4>1 DEF NoResponse
      <4> QED
        BY <1>2, <1>4, <3>1, <3>2, <4>1, <4>2
    <3>3. CASE i # 1
      <4>1. i - 1 \in 1 .. Len(fromNode') /\ (i - 1) + 1 = i /\ i \in 1 .. Len(Coming)
        BY <2>1, <3>1, <3>3
      <4>2. Coming'[(i - 1) + 1] = fromNode'[i - 1] /\ Coming[(i - 1) + 1] = fromNode[i - 1]
        BY <2>1, <3>1, <4>1
      <4> QED
        BY <2>1, <4>1, <4>2 DEF NoResponse
    <3> QED
      BY <3>2, <3>3
  <2> QED
    BY <2>2, <2>3
<1>6. ASSUME NEW u \in Clients, pc[u] \in {"wait", "woken"}, Answered(u) PROVE Answered(u)'
  <2>1. u # t /\ at'[u] = at[u] /\ want'[u] = want[u] /\ at[u] \in 1 .. NSlots
    BY <1>1, <1>2, <1>6, PInvBasics DEF InSlot
  <2> DEFINE m == slots[at[u]].pu8Message
  <2>2. m \in Message /\ slots'[at[u]].pu8Message = Orphan(m, t)
    BY <1>3, <1>6, <2>1 DEF Answered
  <2>3. Orphan(m, t) \in Message /\ (m.req # t => Orphan(m, t) = m)
    BY <2>2 DEF Orphan, Message
  <2>4. want[u] = "STATUS" => m.type = "STATUS" /\ m.req = u
    BY <1>6 DEF Answered
  <2>5. want[u] = "RESPONSE" => NoResponse'
    BY <1>5, <1>6 DEF Answered
  <2> QED
    BY <2>1, <2>2, <2>3, <2>4, <2>5 DEF Answered
<1>7. \A u \in Clients : u = t \/ (pc'[u] = pc[u] /\ at'[u] = at[u])
  BY <1>1, <1>2
<1>8. pc'[t] = "send"
  BY <1>1, <1>2
<1> QED
  BY <1>2, <1>6, <1>7, <1>8, WakesKept


LEMMA ClientWakes ==
  ASSUME PInv, Kinds, NoneMisled, ~ReaderBlocked, [Next]_vars, NEW t \in Clients,
         Client(t) \/ Expire(t) \/ SpuriousWakeup(t)
  PROVE  WakesAreAnswered'
<1>1. /\ pc \in [Clients -> ClientPlaces] /\ want \in [Clients -> Wants] /\ TInv
      /\ at \in [Clients -> 1 .. NSlots + 1]
  BY PInvBasics
<1>2. UNCHANGED <<fromNode, rpc, rmsg, rk>>
  BY DEF Client, LockLink, WriteMessage, TakeSlot, BadDeadline, NextSlot, NoFreeSlot,
     Woken, TimedOut, EndWait, Expire, SpuriousWakeup, line, reader
<1>3. NoResponse => NoResponse'
  BY <1>2 DEF NoResponse, Coming, Offered
\* t moves, not to be woken, and nobody else does; at most the pointer of a slot that nobody
\* else is in is written.
<1>4. ASSUME pc[t] # "wait" \/ rpc # "bcast", pc'[t] # "woken",
             ~(pc[t] \in {"wait", "woken"} /\ pc'[t] \in {"wait", "woken"}),
             \A u \in Clients \ {t} :
                /\ pc'[u] = pc[u] /\ want'[u] = want[u] /\ at'[u] = at[u]
                /\ InSlot(u) => slots'[at[u]].pu8Message = slots[at[u]].pu8Message
      PROVE  WakesAreAnswered'
  <2>1. ASSUME NEW u \in Clients, pc[u] \in {"wait", "woken"}, pc'[u] \in {"wait", "woken"}, Answered(u)
        PROVE  Answered(u)'
    <3>1. u # t /\ InSlot(u)
      BY <1>4, <2>1 DEF InSlot
    <3>2. /\ at'[u] = at[u] /\ want'[u] = want[u]
          /\ slots'[at[u]].pu8Message = slots[at[u]].pu8Message
      BY <1>4, <3>1
    <3> QED
      BY <1>3, <2>1, <3>2, AnsweredKept
  <2> QED
    BY <1>2, <1>4, <2>1, WakesKept
<1>5. CASE LockLink(t) \/ WriteMessage(t) \/ NextSlot(t)
  <2>1. /\ pc[t] \in {"send", "write", "scan"} /\ UNCHANGED <<slots, want>>
        /\ \E p \in {"write", "idle", "scan"} : pc' = [pc EXCEPT ![t] = p] \/ (pc' = pc /\ p = pc[t])
        /\ \E j : at' = at \/ at' = [at EXCEPT ![t] = j]
    BY <1>5 DEF LockLink, WriteMessage, NextSlot
  <2>2. pc'[t] \in {"write", "idle", "scan"}
    BY <1>1, <2>1
  <2>3. \A u \in Clients \ {t} : pc'[u] = pc[u] /\ want'[u] = want[u] /\ at'[u] = at[u]
    BY <1>1, <2>1
  <2> QED
    BY <1>4, <2>1, <2>2, <2>3
<1>6. CASE TakeSlot(t)
  <2>1. /\ pc[t] = "scan" /\ at[t] \in 1 .. NSlots /\ slots[at[t]].u16Type = Free
        /\ pc' = [pc EXCEPT ![t] = "wait"] /\ UNCHANGED <<at, want>>
        /\ \E ty, m : slots' = [slots EXCEPT ![at[t]].u16Type = ty, ![at[t]].pu8Message = m]
    BY <1>6 DEF TakeSlot
  <2>2. \A i \in (1 .. NSlots) \ {at[t]} : slots'[i] = slots[i]
    <3>1. PICK ty, m : slots' = [slots EXCEPT ![at[t]].u16Type = ty, ![at[t]].pu8Message = m]
      BY <2>1
    <3> QED
      BY <1>1, <3>1, OneSlotWritten
  <2>3. ASSUME NEW u \in Clients, InSlot(u) PROVE slots'[at[u]].pu8Message = slots[at[u]].pu8Message
    <3>1. slots[at[u]].u16Type = SlotType(u) /\ at[u] \in 1 .. NSlots /\ IInv
      BY <2>3, PInvBasics DEF SlotOwnership, PInv, MInv, TInv
    <3>2. at[u] # at[t]
      BY <2>1, <3>1, TypesOfSlots
    <3> QED
      BY <2>2, <3>1, <3>2
  <2>4. pc'[t] = "wait" /\ \A u \in Clients \ {t} : pc'[u] = pc[u]
    BY <1>1, <2>1
  <2> QED
    BY <1>4, <2>1, <2>3, <2>4
<1>7. CASE NoFreeSlot(t) \/ Woken(t) \/ TimedOut(t)
  <2>1. pc[t] \in {"scan", "wait", "woken", "expired"} /\ \E r, b : EndWait(t, r, b)
    BY <1>7 DEF NoFreeSlot, Woken, TimedOut, Expired
  <2>2. /\ pc'[t] \in {"idle", "scan"}
        /\ \A v \in Clients \ {t} : pc'[v] = pc[v] /\ want'[v] = want[v] /\ at'[v] = at[v]
    BY <1>1, <2>1, SendingEnds
  <2>3. pc[t] # "wait" \/ rpc # "bcast"
    <3>1. TimedOut(t) => rpc = "read"
      BY NothingIsComing
    <3> QED
      BY <1>7, <3>1 DEF NoFreeSlot, Woken
  <2>4. ASSUME NEW u \in Clients \ {t}, InSlot(u)
        PROVE  slots'[at[u]].pu8Message = slots[at[u]].pu8Message
    <3>1. CASE NoFreeSlot(t)
      BY <3>1 DEF NoFreeSlot
    <3>2. CASE Woken(t) \/ TimedOut(t)
      <4>1. InSlot(t)
        BY <3>2, PInvBasics DEF InSlot, Woken, TimedOut, Expired
      <4>2. at[u] # at[t] /\ at[u] \in 1 .. NSlots
        BY <2>4, <4>1, PInvBasics DEF SlotOwnership
      <4>3. \/ \E ty : slots' = [slots EXCEPT ![at[t]].u16Type = ty]
            \/ \E ty, m : slots' = [slots EXCEPT ![at[t]].u16Type = ty, ![at[t]].pu8Message = m]
        BY <3>2 DEF Woken, TimedOut
      <4>4. \A i \in (1 .. NSlots) \ {at[t]} : slots'[i] = slots[i]
        <5>1. CASE \E ty : slots' = [slots EXCEPT ![at[t]].u16Type = ty]
          <6>1. PICK ty : slots' = [slots EXCEPT ![at[t]].u16Type = ty]
            BY <5>1
          <6> QED
            BY <1>1, <6>1, OneSlotWritten
        <5>2. CASE \E ty, m : slots' = [slots EXCEPT ![at[t]].u16Type = ty, ![at[t]].pu8Message = m]
          <6>1. PICK ty, m : slots' = [slots EXCEPT ![at[t]].u16Type = ty, ![at[t]].pu8Message = m]
            BY <5>2
          <6> QED
            BY <1>1, <6>1, OneSlotWritten
        <5> QED
          BY <4>3, <5>1, <5>2
      <4> QED
        BY <4>2, <4>4
    <3> QED
      BY <1>7, <3>1, <3>2
  <2> QED
    BY <1>4, <2>2, <2>3, <2>4
<1>8. ~BadDeadline(t) /\ ~Expire(t) /\ ~SpuriousWakeup(t)
  BY DEF BadDeadline, Expire, SpuriousWakeup, NoneMisled
<1> QED
  BY <1>5, <1>6, <1>7, <1>8 DEF Client

\* A message is delivered to the client that waits for it, which it answers.
LEMMA DeliverWakes ==
  ASSUME PInv, Kinds, [Next]_vars, Deliver
  PROVE  WakesAreAnswered'
<1>1. /\ Offering /\ Matches(slots[rk]) /\ rk \in 1 .. NSlots /\ rpc' = "bcast" /\ TInv /\ TInv'
      /\ UNCHANGED <<pc, at, want, rmsg, rk, fromNode>>
      /\ slots' = [slots EXCEPT ![rk].pu8Message = rmsg]
      /\ OneUnderWay /\ ResponsesApart /\ CallsFit
  BY PInvBasics, NextTInv DEF Deliver, Offering, TInv, ReaderTyped, client, line
<1>2. PICK v \in Clients :
        /\ pc[v] = "wait" /\ at[v] = rk
        /\ want[v] = "STATUS" => rmsg.type = "STATUS" /\ rmsg.req = v
        /\ want[v] = "RESPONSE" => rmsg.type = "RESPONSE"
        /\ want[v] \in {"STATUS", "RESPONSE"}
  BY <1>1, MatchesOne
<1>3. /\ slots'[rk].pu8Message = rmsg
      /\ \A i \in (1 .. NSlots) \ {rk} : slots'[i] = slots[i]
  BY <1>1, OneSlotWritten
<1>4. Offered /\ ~Offered' /\ 1 \in 1 .. Len(Coming) /\ rmsg = Coming[1] /\ rmsg \in Message
  BY <1>1, OfferedIsFirst, ReceivedAreMessages DEF Offering, Offered
<1>5. Left(Coming, Coming') /\ Coming' = fromNode /\ ComingFits
  BY <1>1, <1>4, ReaderTakes, ComingIs
<1>6. ASSUME want[v] = "RESPONSE" PROVE NoResponse'
  <2> SUFFICES ASSUME NEW i \in 1 .. Len(Coming'), Coming'[i].type = "RESPONSE" PROVE FALSE
    BY DEF NoResponse
  <2>1. i + 1 \in 1 .. Len(Coming) /\ Coming[i + 1].type = "RESPONSE" /\ 1 < i + 1
    BY <1>4, <1>5 DEF ComingFits
  <2>2. PICK k \in 1 .. i + 1 : Awaited(Coming[k]) /\ Coming[k].of \in Requests
    BY <1>1, <1>2, <1>4, <1>6, <2>1 DEF ResponsesApart
  <2>3. k \in 1 .. Len(Coming)
    BY <2>1, <2>2
  <2>4. Due(Coming[k].req) /\ cmd[Coming[k].req] \in Requests
    BY <1>1, <2>2, <2>3 DEF OneUnderWay
  <2> DEFINE w == Coming[k].req
  <2>5. w \in Clients /\ pc[w] \in {"scan", "wait"} /\ want[w] = "STATUS"
    BY <2>4 DEF Due
  <2>6. op[w] \in {"send", "nowait", "request", "erase"}
    BY <2>5, PInvBasics DEF CallsTyped
  <2>7. op[w] = "request"
    BY <1>1, <2>4, <2>5, <2>6 DEF CallsFit, Kinds
  <2>8. w = MainThread /\ v = MainThread
    BY <1>1, <1>2, <1>6, <2>5, <2>7 DEF CallsFit
  <2> QED
    BY <1>6, <2>5, <2>8
<1>7. Answered(v)'
  BY <1>1, <1>2, <1>3, <1>4, <1>6 DEF Answered
<1>8. ASSUME NEW u \in Clients, pc[u] = "woken" PROVE Answered(u)'
  <2>1. InSlot(u) /\ InSlot(v) /\ u # v
    BY <1>2, <1>8 DEF InSlot
  <2>2. at[u] # rk /\ at[u] \in 1 .. NSlots
    BY <1>2, <2>1, PInvBasics DEF SlotOwnership
  <2>3. Answered(u)
    BY <1>8 DEF PInv, WakesAreAnswered
  <2>4. NoResponse => NoResponse'
    BY <1>5, LeftNoResponse
  <2> QED
    BY <1>1, <1>3, <2>2, <2>3, <2>4, AnsweredKept
<1> QED
  BY <1>1, <1>2, <1>7, <1>8 DEF WakesAreAnswered, AnsweredIn

LEMMA ReaderWakes ==
  ASSUME PInv, Kinds, NoneMisled, [Next]_vars, Reader
  PROVE  WakesAreAnswered'
<1>1. TInv /\ TInv' /\ DOMAIN slots = 1 .. NSlots
  BY PInvBasics, NextTInv DEF TInv, SlotsTyped, Slots
<1>2. NoResponse => NoResponse'
  BY <1>1, ReaderLeaves, LeftNoResponse
<1>3. CASE Deliver
  BY <1>3, DeliverWakes
<1>4. CASE BroadcastSlot
  <2>1. rpc = "bcast" /\ Wake(rk) /\ rpc' = "callbacks" /\ UNCHANGED <<at, want, slots>>
    BY <1>4 DEF BroadcastSlot
  <2>2. PICK v \in Clients : pc[v] = "wait" /\ at[v] = rk /\ Answered(v)
    BY <2>1 DEF PInv, WakesAreAnswered, AnsweredIn
  <2>3. ASSUME NEW u \in Clients, pc'[u] = "woken" PROVE pc[u] = "woken" \/ (pc[u] = "wait" /\ Answered(u))
    <3>1. pc[u] = "woken" \/ (pc[u] = "wait" /\ at[u] = rk)
      BY <2>1, <2>3 DEF Wake
    <3>2. pc[u] = "wait" /\ at[u] = rk => u = v
      BY <2>2, PInvBasics DEF SlotOwnership, InSlot
    <3> QED
      BY <2>2, <3>1, <3>2
  <2>4. ASSUME NEW u \in Clients, Answered(u) PROVE Answered(u)'
    BY <1>2, <2>1, <2>4, AnsweredKept
  <2> QED
    BY <2>1, <2>3, <2>4, WakesKept
<1>5. CASE ReadMessage \/ TryNextSlot \/ NoListener \/ DeliverNoMem \/ Resubmit \/ QueueCallback
           \/ SkipListener \/ ListenersDone \/ ReaderExit
  <2>1. /\ rpc' # "bcast" /\ UNCHANGED <<pc, at, want>>
        /\ slots' = slots \/ slots' = [slots EXCEPT ![rk].locked = TRUE]
    BY <1>5 DEF ReadMessage, TryNextSlot, Offering, NoListener, DeliverNoMem, Resubmit, QueueCallback,
       SkipListener, ListenersDone, ReaderExit, client
  <2>2. \A i \in 1 .. NSlots : slots'[i].pu8Message = slots[i].pu8Message
    BY <1>1, <2>1 DEF TInv, SlotsTyped, Slots
  <2> QED
    BY <1>2, <2>1, <2>2, WakesStand
<1>6. ~ClearSlot
  BY PInvBasics DEF ClearSlot, CallsFit
<1> QED
  BY <1>3, <1>4, <1>5, <1>6 DEF Reader

LEMMA WakesStep ==
  ASSUME PInv, Kinds, NoneMisled, ~ReaderBlocked, [Next]_vars
  PROVE  WakesAreAnswered'
<1>1. ASSUME UNCHANGED <<pc, at, want, slots, rpc, rk>>,
             \A u \in Clients : want[u] = "RESPONSE" /\ NoResponse => NoResponse'
      PROVE  WakesAreAnswered'
  BY <1>1, WakesStand
<1>2. CASE UNCHANGED vars \/ Destroy \/ StartCallback \/ EndCallback
  <2>1. UNCHANGED <<pc, at, want, slots, rpc, rk, rmsg, fromNode>>
    BY <1>2 DEF vars, client, line, reader, Destroy, StartCallback, EndCallback
  <2>2. NoResponse => NoResponse'
    BY <2>1 DEF NoResponse, Coming, Offered
  <2> QED
    BY <1>1, <2>1, <2>2
<1>3. CASE NodeAnswer \/ NodeEvent
  <2>1. UNCHANGED <<pc, at, want, slots, rpc, rk>>
    BY <1>3 DEF NodeAnswer, NodeEvent, client, reader
  <2>2. \A v \in Clients : want[v] = "RESPONSE" =>
           \A i \in 1 .. Len(Coming') : Coming'[i].type = "RESPONSE" =>
              i \in 1 .. Len(Coming) /\ Coming[i].type = "RESPONSE"
    BY <1>3, AnswerUnderWay, EventUnderWay
  <2>3. \A v \in Clients : want[v] = "RESPONSE" /\ NoResponse => NoResponse'
    BY <2>2 DEF NoResponse
  <2> QED
    BY <1>1, <2>1, <2>3
<1> QED
  BY <1>2, <1>3, CallWakes, ClientWakes, ReaderWakes DEF Next


\* Only who was woken returns well with a buffer.
LEMMA ReturnsStep ==
  ASSUME PInv, NoneMisled, [Next]_vars
  PROVE  StatusIsForThisMessage' /\ WaitReturnsMessage'
<1> DEFINE Right(t) == /\ ret[t] = "OK" /\ op[t] = "send" => got[t].req = t
                       /\ ret[t] = "OK" /\ op[t] # "nowait" => got[t] \in Message
<1> SUFFICES ASSUME NEW u \in Clients PROVE Right(u)'
  BY DEF StatusIsForThisMessage, WaitReturnsMessage
<1>1. /\ TInv /\ CallsTyped /\ CallsFit /\ pc \in [Clients -> ClientPlaces] /\ want \in [Clients -> Wants]
      /\ Right(u)
  BY PInvBasics DEF PInv, StatusIsForThisMessage, WaitReturnsMessage
<1>2. ASSUME ret'[u] = ret[u], got'[u] = got[u], op'[u] = op[u] PROVE Right(u)'
  BY <1>1, <1>2
<1>3. ASSUME UNCHANGED <<ret, got, op>> PROVE Right(u)'
  BY <1>2, <1>3
<1>4. ASSUME NEW t \in Clients, NEW c, Call(t, c[1], c[2]) PROVE Right(u)'
  <2>1. /\ ret' = [ret EXCEPT ![t] = "NONE"] /\ got' = [got EXCEPT ![t] = Null]
        /\ op' = [op EXCEPT ![t] = c[1]]
    BY <1>4 DEF Call
  <2>2. CASE u = t
    BY <1>1, <2>1, <2>2 DEF CallsTyped
  <2>3. CASE u # t
    BY <1>1, <1>2, <2>1, <2>3 DEF CallsTyped
  <2> QED
    BY <2>2, <2>3
<1>5. ASSUME NEW t \in Clients, NEW r, NEW b, EndWait(t, r, b),
             r = "OK" => /\ b \in Message
                         /\ op[t] = "send" => b.req = t
      PROVE  Right(u)'
  <2>1. /\ UNCHANGED op
        /\ \/ UNCHANGED <<ret, got>>
           \/ ret' = [ret EXCEPT ![t] = r] /\ got' = [got EXCEPT ![t] = b]
    BY <1>5 DEF EndWait
  <2>2. CASE UNCHANGED <<ret, got>>
    BY <1>3, <2>1, <2>2
  <2>3. CASE ret' = [ret EXCEPT ![t] = r] /\ got' = [got EXCEPT ![t] = b]
    <3>1. CASE u = t
      BY <1>1, <1>5, <2>1, <2>3, <3>1 DEF CallsTyped
    <3>2. CASE u # t
      BY <1>1, <1>2, <2>1, <2>3, <3>2 DEF CallsTyped
    <3> QED
      BY <3>1, <3>2
  <2> QED
    BY <2>1, <2>2, <2>3
<1>6. ASSUME NEW t \in Clients, Woken(t) PROVE Right(u)'
  <2> DEFINE b == slots[at[t]].pu8Message
  <2>1. pc[t] = "woken" /\ EndWait(t, "OK", b)
    BY <1>6 DEF Woken
  <2>2. Answered(t)
    BY <2>1 DEF PInv, WakesAreAnswered
  <2>3. op[t] = "send" => want[t] = "STATUS"
    BY <1>1 DEF PInv, MInv, CallsMatch, CallsFit, Wants
  <2>4. b \in Message /\ (op[t] = "send" => b.req = t)
    BY <2>2, <2>3 DEF Answered
  <2> HIDE DEF b
  <2> QED
    BY <1>5, <2>1, <2>4
<1>7. ASSUME NEW t \in Clients, NoFreeSlot(t) \/ TimedOut(t) PROVE Right(u)'
  <2>1. EndWait(t, "ERROR", Null) \/ EndWait(t, "NOMESSAGE", Null)
    BY <1>7 DEF NoFreeSlot, TimedOut
  <2> QED
    BY <1>5, <2>1
<1>8. ASSUME NEW t \in Clients, WriteMessage(t) PROVE Right(u)'
  <2>1. /\ UNCHANGED <<got, op>>
        /\ \/ op[t] = "nowait" /\ ret' = [ret EXCEPT ![t] = "OK"]
           \/ UNCHANGED ret
    BY <1>8 DEF WriteMessage
  <2>2. CASE UNCHANGED ret
    BY <1>3, <2>1, <2>2
  <2>3. CASE op[t] = "nowait" /\ ret' = [ret EXCEPT ![t] = "OK"]
    <3>1. CASE u = t
      BY <2>1, <2>3, <3>1
    <3>2. CASE u # t
      BY <1>1, <1>2, <2>1, <2>3, <3>2 DEF CallsTyped
    <3> QED
      BY <3>1, <3>2
  <2> QED
    BY <2>1, <2>2, <2>3
<1>9. ASSUME NEW t \in Clients, LockLink(t) \/ TakeSlot(t) \/ NextSlot(t) PROVE Right(u)'
  BY <1>3, <1>9 DEF LockLink, TakeSlot, NextSlot
<1>10. \A t \in Clients : ~BadDeadline(t) /\ ~Expire(t) /\ ~SpuriousWakeup(t)
  BY DEF BadDeadline, Expire, SpuriousWakeup, NoneMisled
<1>11. CASE Reader
  BY <1>3, <1>11 DEF Reader, client, ReadMessage, Deliver, TryNextSlot, NoListener, DeliverNoMem,
     Resubmit, BroadcastSlot, QueueCallback, SkipListener, ListenersDone, ReaderExit, ClearSlot
<1>12. CASE UNCHANGED vars \/ NodeAnswer \/ NodeEvent \/ StartCallback \/ EndCallback \/ Destroy
  BY <1>3, <1>12 DEF vars, client, NodeAnswer, NodeEvent, StartCallback, EndCallback, Destroy
<1> HIDE DEF Right
<1> QED
  BY <1>4, <1>6, <1>7, <1>8, <1>9, <1>10, <1>11, <1>12 DEF Next, Client

LEMMA NextPInv ==
  Kinds /\ NoneMisled => (PInv /\ ~ReaderBlocked /\ [Next]_vars => PInv')
<1> SUFFICES ASSUME Kinds, NoneMisled, PInv, ~ReaderBlocked, [Next]_vars PROVE PInv'
  OBVIOUS
<1>1. "impatient" \notin Faults /\ MInv /\ TInv /\ Exclusive /\ CommandsOwn
  BY PInvBasics DEF NoneMisled, PInv
<1>2. MInv' /\ Exclusive' /\ CommandsOwn'
  BY <1>1, NextMInv, ExclusiveStep, CommandsOwnStep
<1>3. CallsFit' /\ ScansEarly'
  BY CallsFitStep, ScansEarlyStep
<1>4. OneUnderWay' /\ ResponsesApart'
  BY UnderWayStep
<1>5. WakesAreAnswered'
  BY WakesStep
<1>6. StatusIsForThisMessage' /\ WaitReturnsMessage'
  BY ReturnsStep
<1> QED
  BY <1>2, <1>3, <1>4, <1>5, <1>6 DEF PInv

-----------------------------------------------------------------------------
(* Theorems                                                                *)

\* A slot of asReaderMessageQueue is taken exactly while one thread waits in it, for the
\* type that thread wants, however eSL_MessageWait ends: woken, for nothing or not, timed
\* out, with a refused deadline, or by eSL_Destroy.
THEOREM SlotsAreOwned == Spec => []SlotOwnership
<1>1. IInv => SlotOwnership
  BY DEF IInv
<1> QED
  BY <1>1, InitIInv, NextIInv, PTL DEF Spec

\* Every variable has its type: for any number of threads, slots, listeners and events
\* and with every fault no array of slots is indexed outside its bounds, by a client, by a
\* delivery or by the reader when it clears the slots on exit, and the callback queue
\* keeps its bound.
THEOREM LinkTypeCorrect == Spec => []TypeOK
<1> QED
  BY InitTInv, NextTInv, TypesImply, PTL DEF Spec

\* eSL_SendMessage never takes the status of another kind of command for its own: while a
\* timeout does not beat an answer that is under way.  A client that waits finds its own
\* structure or a status of its command in its slot, and a status leaves a slot before the
\* next client takes it.
THEOREM StatusesMatch ==
  ASSUME "impatient" \notin Faults
  PROVE  Spec => []StatusMatchesCommand
<1>1. MInv => StatusMatchesCommand
  BY DEF MInv, CallsMatch
<1>2. MInv /\ [Next]_vars => MInv'
  BY NextMInv
<1> QED
  BY <1>1, <1>2, InitMInv, PTL DEF Spec

\* Every event the node reports is called back once and in order, however often the
\* callback queue runs full and the reader blocks on it: with one listener for each type
\* the node reports, as ZCB registers them, and while malloc succeeds.
THEOREM EventsStayInOrder ==
  ASSUME OneListenerEach, "nomem" \notin Faults
  PROVE  Spec => []EventsInOrder
<1>1. EInv /\ [Next]_vars => EInv'
  BY NextEInv
<1> QED
  BY <1>1, InitEInv, InOrderImplies, PTL DEF Spec

\* When eSL_SendMessage gives up for want of a status, the node has sent none: for any number
\* of threads, slots, listeners and events, with lost answers, full lines, failing mallocs,
\* spurious wake-ups, refused deadlines and eSL_Destroy.  From the line the status moves into
\* the reader's hands, past slots it does not match, into the slot of its one waiter and to
\* its wake-up.  It holds while no timeout beats an answer under way, no answer beats the
\* sender to its slot, nobody waits for the status of any command, and the reader does not
\* block on callbacks that send.
THEOREM StatusesArrive ==
  ASSUME {"impatient", "prompt"} \cap Faults = {}, Erases = {}
  PROVE  Spec /\ []~ReaderBlocked => []StatusArrives
<1>1. AInv => StatusArrives
  BY DEF AInv, Returned, StatusArrives
<1>2. AInv /\ ~ReaderBlocked /\ [Next]_vars => AInv'
  BY NextAInv
<1> QED
  BY <1>1, <1>2, InitAInv, PTL DEF Spec

\* The status eSL_SendMessage returns was caused by the message it sent, also when others send
\* the same command: for any number of threads, two or more slots, any listeners and events,
\* with lost answers, full lines, failing mallocs and answers that beat the sender to its slot.
\* Of the commands and statuses under way at most one is waited for, its client still waits,
\* and the reader announces a slot only with that client asleep in it.  It holds while timeouts
\* and wake-ups are not early, deadlines not refused and the link not destroyed, no command is
\* sent both with and without waiting, nobody waits for the status of any command, and the
\* reader does not block on callbacks that send.
THEOREM StatusesAreOwn ==
  ASSUME Kinds, NoneMisled
  PROVE  Spec /\ []~ReaderBlocked => []StatusIsForThisMessage
<1>1. PInv => StatusIsForThisMessage
  BY DEF PInv
<1>2. PInv /\ ~ReaderBlocked /\ [Next]_vars => PInv'
  BY NextPInv
<1> QED
  BY <1>1, <1>2, InitPInv, PTL DEF Spec

\* Under the same assumptions a wait that ends well hands its caller a received message, never
\* the caller's own structure, a stale buffer or NULL, although eSL_MessageWait tests nothing
\* when it wakes: whoever is woken finds in its slot the message that was delivered to it.
THEOREM WaitsReturnMessages ==
  ASSUME Kinds, NoneMisled
  PROVE  Spec /\ []~ReaderBlocked => []WaitReturnsMessage
<1>1. PInv => WaitReturnsMessage
  BY DEF PInv
<1>2. PInv /\ ~ReaderBlocked /\ [Next]_vars => PInv'
  BY NextPInv
<1> QED
  BY <1>1, <1>2, InitPInv, PTL DEF Spec
=============================================================================
