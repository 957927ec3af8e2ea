------------------------------ MODULE OmxQueue -------------------------------
(***************************************************************************)
(* fsl_imx_omx/utils/Queue.cpp: the message queue of the OpenMAX           *)
(* framework.  Command queues, port buffer queues and the event queues of  *)
(* the clients are all instances of it, with bBlocking TRUE but for the    *)
(* command queues of the players and the queue of timestamps.              *)
(*                                                                         *)
(* A pool of nMaxQSize nodes is threaded on two lists, pFreeNodes and      *)
(* pHead..pTail.  freeNodesSem and usedNodesSem count what a caller may    *)
(* still take and are waited on BEFORE the mutex, so between the wait and  *)
(* the lock a thread owns a permit for a node that it has not chosen yet.  *)
(* Everything between lock and unlock is one action.  Access and the bound *)
(* check of Get(nIndex) do not take the mutex: each read is an action.     *)
(***************************************************************************)
EXTENDS Integers, Sequences, FiniteSets

CONSTANTS
    Producers,  \* threads that call Add
    Consumers,  \* threads that call Get, Get(nIndex) and Access
    Msgs,       \* the messages, copied by value
    nMaxQSize,  \* capacity
    bBlocking,  \* Create's block argument
    Indexes,    \* the nIndex arguments used with Get(nIndex)
    Peeks       \* the nIndex arguments used with Access

ASSUME QueueAssumption ==
    /\ nMaxQSize \in Nat \ {0}
    /\ bBlocking \in BOOLEAN
    /\ Indexes \subseteq Nat \ {0} /\ Peeks \subseteq Nat \ {0}
    /\ IsFiniteSet(Producers) /\ IsFiniteSet(Consumers)
    /\ Producers \cap Consumers = {}

Nodes == 1..nMaxQSize
NULL == 0
Threads == Producers \cup Consumers
Labels == {"idle", "add", "checked", "get", "head", "walk",
           "overflow", "fault", "badread"}

VARIABLES
    NextNode,               \* QNODE.NextNode
    pMsg,                   \* QNODE.pMsg
    pFreeNodes, pHead, pTail,
    nQSize,
    usedNodesSem, freeNodesSem,
    pc,                     \* where each thread stands
    nIndex,                 \* the nIndex argument of a thread's call
    cursor,                 \* pQNode of a thread that walks in Access
    left,                   \* NextNode steps Access still has to make
    overtaken               \* a ghost: another thread took a message after a
                            \* thread's unlocked check of its index

lists == <<NextNode, pMsg, pFreeNodes, pHead, pTail, nQSize>>
vars == <<lists, usedNodesSem, freeNodesSem, pc, nIndex, cursor, left, overtaken>>

\* The node k places behind the head, NULL beyond the end of the list.
Follow(next, first) ==
    LET f[k \in Nat] == IF k = 0 THEN first
                        ELSE IF f[k - 1] = NULL THEN NULL ELSE next[f[k - 1]]
    IN  f

Init ==
    /\ NextNode = [n \in Nodes |-> IF n = nMaxQSize THEN NULL ELSE n + 1]
    /\ pMsg \in [Nodes -> Msgs]      \* malloc'ed and not initialised
    /\ pFreeNodes = 1
    /\ pHead = NULL
    /\ pTail = NULL
    /\ nQSize = 0
    /\ usedNodesSem = 0
    /\ freeNodesSem = nMaxQSize
    /\ pc = [t \in Threads |-> "idle"]
    /\ nIndex = [t \in Threads |-> 1]
    /\ cursor = [t \in Threads |-> NULL]
    /\ left = [t \in Threads |-> 0]
    /\ overtaken = [t \in Threads |-> FALSE]

Goto(t, label) == pc' = [pc EXCEPT ![t] = label]

-----------------------------------------------------------------------------
(* Add *)

\* sem_wait, or sem_trywait that succeeds.
AddPermit(p) ==
    /\ pc[p] = "idle"
    /\ freeNodesSem > 0
    /\ freeNodesSem' = freeNodesSem - 1
    /\ Goto(p, "add")
    /\ UNCHANGED <<lists, usedNodesSem, nIndex, cursor, left, overtaken>>

\* Mutation: the new node becomes the head.
LinkHead(node) ==
    /\ NextNode' = [NextNode EXCEPT ![node] = pHead]
    /\ pHead' = node
    /\ pTail' = IF pTail = NULL THEN node ELSE pTail

\* The node becomes the tail, and the head of an empty list.
LinkTail(node) ==
    LET empty == pHead = NULL /\ pTail = NULL
    IN  /\ NextNode' = [n \in Nodes |-> IF n = node THEN NULL
                                      ELSE IF n = pTail /\ ~empty THEN node
                                      ELSE NextNode[n]]
        /\ pHead' = IF empty THEN node ELSE pHead
        /\ pTail' = node

\* Mutation: the message is not announced.
PostNothing == UNCHANGED usedNodesSem

PostUsed == usedNodesSem' = usedNodesSem + 1

\* The critical section of Add.  QUEUE_OVERFLOW is the outcome "overflow".
AddLocked(p, m) ==
    /\ pc[p] = "add"
    /\ IF pFreeNodes = NULL
       THEN /\ Goto(p, "overflow")
            /\ UNCHANGED <<lists, usedNodesSem>>
       ELSE /\ pFreeNodes' = NextNode[pFreeNodes]
            /\ pMsg' = [pMsg EXCEPT ![pFreeNodes] = m]
            /\ LinkTail(pFreeNodes)
            /\ nQSize' = nQSize + 1
            /\ PostUsed
            /\ Goto(p, "idle")
    /\ UNCHANGED <<freeNodesSem, nIndex, cursor, left, overtaken>>

-----------------------------------------------------------------------------
(* Get and Get(nIndex) *)

\* Mutation: off by one.
InBoundsPlusOne(i) == i <= nQSize + 1

\* nIndex > nQSize, which Get(nIndex) and Access read without the lock.
InBounds(i) == i <= nQSize

\* nIndex == 1 is a plain Get.
GetIndexCheck(c, i) ==
    /\ pc[c] = "idle"
    /\ InBounds(i)
    /\ nIndex' = [nIndex EXCEPT ![c] = i]
    /\ Goto(c, "checked")
    /\ overtaken' = [overtaken EXCEPT ![c] = FALSE]
    /\ UNCHANGED <<lists, usedNodesSem, freeNodesSem, cursor, left>>

GetPermit(c) ==
    /\ pc[c] \in {"idle", "checked"}
    /\ usedNodesSem > 0
    /\ usedNodesSem' = usedNodesSem - 1
    /\ nIndex' = IF pc[c] = "idle" THEN [nIndex EXCEPT ![c] = 1] ELSE nIndex
    /\ Goto(c, "get")
    /\ UNCHANGED <<lists, freeNodesSem, cursor, left, overtaken>>

\* sem_trywait of a non-blocking queue fails after the bound check: the call
\* returns QUEUE_NOT_READY.
GetNotReady(c) ==
    /\ ~bBlocking
    /\ pc[c] = "checked"
    /\ usedNodesSem = 0
    /\ Goto(c, "idle")
    /\ UNCHANGED <<lists, usedNodesSem, freeNodesSem, nIndex, cursor, left, overtaken>>

\* Give pQNode back to the free list and post freeNodesSem.
Recycle(node, relinked) ==
    /\ NextNode' = [relinked EXCEPT ![node] = pFreeNodes]
    /\ pFreeNodes' = node
    /\ nQSize' = nQSize - 1
    /\ freeNodesSem' = freeNodesSem + 1
    /\ UNCHANGED pMsg

\* Mutation: the tail is not reset when the last message leaves.
UnlinkHeadOnly == pHead' = NextNode[pHead] /\ UNCHANGED pTail

UnlinkHead ==
    /\ pHead' = NextNode[pHead]
    /\ pTail' = IF pHead' = NULL THEN NULL ELSE pTail

\* The critical section of both Get's.  "fault" is a NULL node dereferenced.
GetLocked(c) ==
    /\ pc[c] = "get"
    /\ LET at == Follow(NextNode, pHead)
           node == at[nIndex[c] - 1]
           prev == at[nIndex[c] - 2]
       IN  IF pHead = NULL \/ (nIndex[c] > 1 /\ node = NULL)
           THEN /\ Goto(c, IF pHead = NULL THEN "overflow" ELSE "fault")
                /\ UNCHANGED <<lists, freeNodesSem, overtaken>>
           ELSE /\ Goto(c, "idle")
                /\ overtaken' = [t \in Threads |-> t # c \/ overtaken[t]]
                /\ \/ /\ nIndex[c] = 1
                      /\ UnlinkHead
                      /\ Recycle(pHead, NextNode)
                   \/ /\ nIndex[c] > 1
                      /\ pTail' = IF pTail = node THEN prev ELSE pTail
                      /\ Recycle(node, [NextNode EXCEPT ![prev] = NextNode[node]])
                      /\ UNCHANGED pHead
    /\ UNCHANGED <<usedNodesSem, nIndex, cursor, left>>

-----------------------------------------------------------------------------
(* Access *)

\* The bound check and pQNode = pHead, then one NextNode read at a time.
AccessCheck(c, i) ==
    /\ pc[c] = "idle"
    /\ InBounds(i)
    /\ nIndex' = [nIndex EXCEPT ![c] = i]
    /\ Goto(c, "head")
    /\ overtaken' = [overtaken EXCEPT ![c] = FALSE]
    /\ UNCHANGED <<lists, usedNodesSem, freeNodesSem, cursor, left>>

AccessHead(c) ==
    /\ pc[c] = "head"
    /\ cursor' = [cursor EXCEPT ![c] = pHead]
    /\ left' = [left EXCEPT ![c] = nIndex[c] - 1]
    /\ Goto(c, "walk")
    /\ UNCHANGED <<lists, usedNodesSem, freeNodesSem, nIndex, overtaken>>

AccessWalk(c) ==
    /\ pc[c] = "walk"
    /\ left[c] > 0
    /\ cursor[c] # NULL
    /\ cursor' = [cursor EXCEPT ![c] = NextNode[cursor[c]]]
    /\ left' = [left EXCEPT ![c] = @ - 1]
    /\ UNCHANGED <<lists, usedNodesSem, freeNodesSem, pc, nIndex, overtaken>>

\* Reading pQNode->NextNode or pQNode->pMsg of a NULL node is "badread".
AccessCopy(c) ==
    /\ pc[c] = "walk"
    /\ left[c] = 0 \/ cursor[c] = NULL
    /\ IF cursor[c] = NULL THEN Goto(c, "badread") ELSE Goto(c, "idle")
    /\ cursor' = [cursor EXCEPT ![c] = NULL]
    /\ left' = [left EXCEPT ![c] = 0]
    /\ UNCHANGED <<lists, usedNodesSem, freeNodesSem, nIndex, overtaken>>

-----------------------------------------------------------------------------
Add(p) == AddPermit(p) \/ \E m \in Msgs : AddLocked(p, m)
Get(c) == GetPermit(c) \/ GetNotReady(c) \/ GetLocked(c)
Access(c) ==
    \/ \E i \in Peeks : AccessCheck(c, i)
    \/ AccessHead(c)
    \/ AccessWalk(c)
    \/ AccessCopy(c)

Next ==
    \/ \E p \in Producers : Add(p)
    \/ \E c \in Consumers :
         \/ Get(c)
         \/ \E i \in Indexes : GetIndexCheck(c, i)
         \/ Access(c)

Spec == Init /\ [][Next]_vars

\* pthread mutexes and semaphores let a runnable thread go on, but choose
\* freely among several waiters: fairness is per set of threads, not per thread.
\* Consumers come back for the oldest message, as the loops around Get do,
\* whatever they take by index in between.
Fairness ==
    /\ WF_vars(\E p \in Producers : Add(p))
    /\ WF_vars(\E c \in Consumers : GetPermit(c))
    /\ SF_vars(\E c \in Consumers : pc[c] = "idle" /\ GetPermit(c))
    /\ WF_vars(\E c \in Consumers : GetLocked(c))
    /\ WF_vars(\E c \in Consumers : AccessHead(c) \/ AccessWalk(c) \/ AccessCopy(c))

FairSpec == Spec /\ Fairness

-----------------------------------------------------------------------------
(* Properties *)

TypeOK ==
    /\ NextNode \in [Nodes -> Nodes \cup {NULL}]
    /\ pMsg \in [Nodes -> Msgs]
    /\ {pFreeNodes, pHead, pTail} \subseteq Nodes \cup {NULL}
    /\ nQSize \in 0..nMaxQSize
    /\ usedNodesSem \in 0..nMaxQSize
    /\ freeNodesSem \in 0..nMaxQSize
    /\ pc \in [Threads -> Labels]
    /\ nIndex \in [Threads -> Indexes \cup Peeks \cup {1}]
    /\ cursor \in [Threads -> Nodes \cup {NULL}]
    /\ left \in [Threads -> Nat]
    /\ overtaken \in [Threads -> BOOLEAN]

\* The threads that took a permit of freeNodesSem (usedNodesSem) and have not
\* passed it on.
Adding == {p \in Producers : pc[p] \in {"add", "overflow"}}
Getting == {c \in Consumers : pc[c] \in {"get", "overflow", "fault"}}

\* Both semaphores account for every node: a permit is in the semaphore, with a
\* thread between its wait and its critical section, or spent on a message.
SemaphoresExact ==
    /\ freeNodesSem + Cardinality(Adding) + nQSize = nMaxQSize
    /\ usedNodesSem + Cardinality(Getting) = nQSize

Chain(first) ==
    {Follow(NextNode, first)[k] : k \in 0..nMaxQSize} \ {NULL}

\* The two lists stay a partition of the pool, end in NULL, and nQSize and
\* pTail describe the used one: no node is lost, shared or linked in a cycle by
\* any order of Add, Get and Get(nIndex).
ListsWellFormed ==
    /\ Chain(pHead) \cap Chain(pFreeNodes) = {}
    /\ Chain(pHead) \cup Chain(pFreeNodes) = Nodes
    /\ Cardinality(Chain(pHead)) = nQSize
    /\ Follow(NextNode, pHead)[nMaxQSize] = NULL
    /\ Follow(NextNode, pFreeNodes)[nMaxQSize] = NULL
    /\ IF pHead = NULL THEN pTail = NULL
       ELSE pTail \in Chain(pHead) /\ NextNode[pTail] = NULL

\* A thread that got past the semaphore finds a node under the lock, so that the
\* QUEUE_OVERFLOW returns of Add and Get are unreachable.  The unlocked reads of
\* Access and of the bound check of Get(nIndex) lead to a NULL node only where
\* another thread took a message since: the framework is safe because one
\* thread takes from each queue that is used with indexes.
NoFault ==
    \A t \in Threads : /\ pc[t] # "overflow"
                       /\ pc[t] \in {"fault", "badread"} => overtaken[t]

\* The linked list implements the bounded sequence.
messages ==
    [k \in 1..nQSize |-> pMsg[Follow(NextNode, pHead)[k - 1]]]

Fifo == INSTANCE OmxFifo WITH items <- messages

ImplementsFifo == Fifo!Spec

\* Every message put in the queue leaves it, whoever waits on the semaphores,
\* unless a thread dereferences NULL first.
Delivered ==
    \A n \in Nodes :
        n \in Chain(pHead) ~> \/ n \notin Chain(pHead)
                             \/ \E t \in Threads : pc[t] \in {"fault", "badread"}
=============================================================================
