---------------------------- MODULE BoundedFifo ----------------------------
(***************************************************************************)
(* What a tsUtilsQueue promises its users: a first-in first-out buffer of  *)
(* at most Capacity elements.  An element that was accepted is handed out  *)
(* exactly once, in the order of acceptance, and nothing else is ever      *)
(* handed out.  Detailed queues are shown to implement this module.        *)
(***************************************************************************)
EXTENDS Naturals, Sequences

CONSTANTS Consumers,   \* the threads that take elements out
          Data,        \* the elements
          NoData,      \* the content of an output parameter nothing was stored in
          Capacity     \* the number of elements the queue holds at most

VARIABLES q,           \* the accepted elements, oldest first
          got          \* got[c]: the element consumer c was handed last

fifoVars == <<q, got>>

Init == /\ q = <<>>
        /\ got = [c \in Consumers |-> NoData]

Put == /\ Len(q) < Capacity
       /\ \E d \in Data : q' = Append(q, d)
       /\ UNCHANGED got

Get(c) == /\ q # <<>>
          /\ got' = [got EXCEPT ![c] = Head(q)]
          /\ q' = Tail(q)

Next == Put \/ \E c \in Consumers : Get(c)

Spec == Init /\ [][Next]_fifoVars
=============================================================================
