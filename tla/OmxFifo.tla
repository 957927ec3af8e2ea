------------------------------- MODULE OmxFifo -------------------------------
(***************************************************************************)
(* What utils/Queue.cpp promises to its callers: a bounded sequence of     *)
(* messages.  Add appends at the tail, Get takes the head and Get(nIndex)  *)
(* takes the message at a position counted from 1.  Nothing is lost,       *)
(* duplicated or reordered, and there are never more than nMaxQSize        *)
(* messages.  OmxQueue implements it with a linked list, a mutex and two   *)
(* counting semaphores.                                                    *)
(***************************************************************************)
EXTENDS Integers, Sequences

CONSTANTS
    Msgs,       \* the messages callers put in the queue
    nMaxQSize   \* the capacity given to Create

VARIABLE items  \* the messages in the queue, head first

Init == items = <<>>

\* Queue.h: "Add a msg to the queue tail".
Put(m) ==
    /\ Len(items) < nMaxQSize
    /\ items' = Append(items, m)

\* Queue.h: "Get a msg from the queue head" (i = 1) and "Get the nIndex node".
TakeAt(i) ==
    /\ i \in 1..Len(items)
    /\ items' = SubSeq(items, 1, i - 1) \o SubSeq(items, i + 1, Len(items))

Next == (\E m \in Msgs : Put(m)) \/ (\E i \in 1..nMaxQSize : TakeAt(i))

Spec == Init /\ [][Next]_items
=============================================================================
