--------------------------- MODULE OmxQueue_proofs ---------------------------
(***************************************************************************)
(* The two semaphores of the queue are exact for any number of threads, any *)
(* capacity and any mix of Add, Get, Get(nIndex) and Access.  The argument *)
(* counts permits only; OmxQueueLists_proofs is about the linked lists.    *)
(***************************************************************************)
EXTENDS OmxQueue, FiniteSetTheorems, TLAPS

\* What the count needs besides SemaphoresExact: the types of the counters and
\* of the program counters.
CounterTypes ==
    /\ nQSize \in Int
    /\ usedNodesSem \in Nat
    /\ freeNodesSem \in Nat
    /\ pc \in [Threads -> Labels]

IInv == CounterTypes /\ SemaphoresExact

\* A thread that moves to another label joins or leaves a set of threads that
\* is given by labels; the size of the set changes by one or not at all.
LEMMA AddingSize ==
    ASSUME CounterTypes, NEW p \in Threads, NEW l \in Labels,
           pc' = [pc EXCEPT ![p] = l]
    PROVE  /\ Cardinality(Adding) \in Nat
           /\ Cardinality(Adding') \in Nat
           /\ p \in Producers /\ pc[p] \notin {"add", "overflow"}
                /\ l \in {"add", "overflow"}
                => Cardinality(Adding') = Cardinality(Adding) + 1
           /\ p \in Producers /\ pc[p] \in {"add", "overflow"}
                /\ l \notin {"add", "overflow"}
                => Cardinality(Adding') = Cardinality(Adding) - 1
           /\ p \notin Producers \/ (pc[p] \in {"add", "overflow"} <=> l \in {"add", "overflow"})
                => Cardinality(Adding') = Cardinality(Adding)
<1>1. IsFiniteSet(Adding) /\ IsFiniteSet(Adding')
  BY QueueAssumption, FS_Subset DEF Adding
<1>2. Cardinality(Adding) \in Nat /\ Cardinality(Adding') \in Nat
  BY <1>1, FS_CardinalityType
<1>3. ASSUME p \in Producers, pc[p] \notin {"add", "overflow"}, l \in {"add", "overflow"}
      PROVE  Cardinality(Adding') = Cardinality(Adding) + 1
  <2>1. Adding' = Adding \cup {p} /\ p \notin Adding
    BY <1>3 DEF Adding, CounterTypes, Threads
  <2>2. QED BY <2>1, <1>1, FS_AddElement
<1>4. ASSUME p \in Producers, pc[p] \in {"add", "overflow"}, l \notin {"add", "overflow"}
      PROVE  Cardinality(Adding') = Cardinality(Adding) - 1
  <2>1. Adding' = Adding \ {p} /\ p \in Adding
    BY <1>4 DEF Adding, CounterTypes, Threads
  <2>2. QED BY <2>1, <1>1, FS_RemoveElement
<1>5. ASSUME p \notin Producers \/ (pc[p] \in {"add", "overflow"} <=> l \in {"add", "overflow"})
      PROVE  Cardinality(Adding') = Cardinality(Adding)
  <2>1. Adding' = Adding
    BY <1>5 DEF Adding, CounterTypes, Threads
  <2>2. QED BY <2>1
<1>6. QED BY <1>2, <1>3, <1>4, <1>5

LEMMA GettingSize ==
    ASSUME CounterTypes, NEW c \in Threads, NEW l \in Labels,
           pc' = [pc EXCEPT ![c] = l]
    PROVE  /\ Cardinality(Getting) \in Nat
           /\ Cardinality(Getting') \in Nat
           /\ c \in Consumers /\ pc[c] \notin {"get", "overflow", "fault"}
                /\ l \in {"get", "overflow", "fault"}
                => Cardinality(Getting') = Cardinality(Getting) + 1
           /\ c \in Consumers /\ pc[c] \in {"get", "overflow", "fault"}
                /\ l \notin {"get", "overflow", "fault"}
                => Cardinality(Getting') = Cardinality(Getting) - 1
           /\ c \notin Consumers
                \/ (pc[c] \in {"get", "overflow", "fault"}
                      <=> l \in {"get", "overflow", "fault"})
                => Cardinality(Getting') = Cardinality(Getting)
<1>1. IsFiniteSet(Getting) /\ IsFiniteSet(Getting')
  BY QueueAssumption, FS_Subset DEF Getting
<1>2. Cardinality(Getting) \in Nat /\ Cardinality(Getting') \in Nat
  BY <1>1, FS_CardinalityType
<1>3. ASSUME c \in Consumers, pc[c] \notin {"get", "overflow", "fault"},
             l \in {"get", "overflow", "fault"}
      PROVE  Cardinality(Getting') = Cardinality(Getting) + 1
  <2>1. Getting' = Getting \cup {c} /\ c \notin Getting
    BY <1>3 DEF Getting, CounterTypes, Threads
  <2>2. QED BY <2>1, <1>1, FS_AddElement
<1>4. ASSUME c \in Consumers, pc[c] \in {"get", "overflow", "fault"},
             l \notin {"get", "overflow", "fault"}
      PROVE  Cardinality(Getting') = Cardinality(Getting) - 1
  <2>1. Getting' = Getting \ {c} /\ c \in Getting
    BY <1>4 DEF Getting, CounterTypes, Threads
  <2>2. QED BY <2>1, <1>1, FS_RemoveElement
<1>5. ASSUME c \notin Consumers
               \/ (pc[c] \in {"get", "overflow", "fault"}
                     <=> l \in {"get", "overflow", "fault"})
      PROVE  Cardinality(Getting') = Cardinality(Getting)
  <2>1. Getting' = Getting
    BY <1>5 DEF Getting, CounterTypes, Threads
  <2>2. QED BY <2>1
<1>6. QED BY <1>2, <1>3, <1>4, <1>5

LEMMA InitInv == Init => IInv
<1> SUFFICES ASSUME Init PROVE IInv
  OBVIOUS
<1>1. Adding = {} /\ Getting = {}
  BY DEF Init, Adding, Getting, Threads
<1>2. Cardinality(Adding) = 0 /\ Cardinality(Getting) = 0
  BY <1>1, FS_EmptySet
<1>3. QED
  BY <1>2, QueueAssumption DEF Init, IInv, CounterTypes, SemaphoresExact, Labels

LEMMA NextInv == IInv /\ [Next]_vars => IInv'
<1> SUFFICES ASSUME IInv, [Next]_vars PROVE IInv'
  OBVIOUS
<1> USE DEF IInv, Goto
<1>1. ASSUME NEW p \in Producers, AddPermit(p) PROVE IInv'
  <2>1. p \in Threads /\ "add" \in Labels /\ p \notin Consumers
    BY QueueAssumption DEF Threads, Labels
  <2>2. /\ pc' = [pc EXCEPT ![p] = "add"]
        /\ pc[p] = "idle"
        /\ freeNodesSem > 0
        /\ freeNodesSem' = freeNodesSem - 1
        /\ UNCHANGED <<nQSize, usedNodesSem>>
    BY <1>1 DEF AddPermit, lists
  <2>3. /\ Cardinality(Adding') = Cardinality(Adding) + 1
        /\ Cardinality(Getting') = Cardinality(Getting)
        /\ Cardinality(Adding) \in Nat
    BY <2>1, <2>2, AddingSize, GettingSize
  <2>4. CounterTypes'
    BY <2>1, <2>2 DEF CounterTypes
  <2>5. SemaphoresExact'
    BY <2>2, <2>3, QueueAssumption DEF CounterTypes, SemaphoresExact
  <2>6. QED BY <2>4, <2>5
<1>2. ASSUME NEW p \in Producers, NEW m \in Msgs, AddLocked(p, m) PROVE IInv'
  <2>1. p \in Threads /\ "overflow" \in Labels /\ "idle" \in Labels /\ p \notin Consumers
    BY QueueAssumption DEF Threads, Labels
  <2>2. CASE pFreeNodes = NULL
    BY <1>2, <2>1, <2>2, AddingSize, GettingSize
    DEF AddLocked, CounterTypes, SemaphoresExact, lists
  <2>3. CASE pFreeNodes # NULL
    BY <1>2, <2>1, <2>3, AddingSize, GettingSize, SMTT(30)
    DEF AddLocked, PostUsed, CounterTypes, SemaphoresExact
  <2>4. QED BY <2>2, <2>3
<1>3. ASSUME NEW c \in Consumers, GetPermit(c) PROVE IInv'
  <2>1. c \in Threads /\ "get" \in Labels /\ c \notin Producers
    BY QueueAssumption DEF Threads, Labels
  <2>2. /\ pc' = [pc EXCEPT ![c] = "get"]
        /\ pc[c] \in {"idle", "checked"}
        /\ usedNodesSem > 0
        /\ usedNodesSem' = usedNodesSem - 1
        /\ UNCHANGED <<nQSize, freeNodesSem>>
    BY <1>3 DEF GetPermit, lists
  <2>3. /\ Cardinality(Getting') = Cardinality(Getting) + 1
        /\ Cardinality(Adding') = Cardinality(Adding)
        /\ Cardinality(Getting) \in Nat
    BY <2>1, <2>2, AddingSize, GettingSize
  <2>4. CounterTypes'
    BY <2>1, <2>2 DEF CounterTypes
  <2>5. SemaphoresExact'
    BY <2>2, <2>3, QueueAssumption DEF CounterTypes, SemaphoresExact
  <2>6. QED BY <2>4, <2>5
<1>4. ASSUME NEW c \in Consumers, GetLocked(c) PROVE IInv'
  <2>1. /\ c \in Threads /\ c \notin Producers
        /\ {"overflow", "fault", "idle"} \subseteq Labels
    BY QueueAssumption DEF Threads, Labels
  <2>2. \/ /\ pc' = [pc EXCEPT ![c] = "idle"]
           /\ nQSize' = nQSize - 1
           /\ freeNodesSem' = freeNodesSem + 1
        \/ /\ \/ pc' = [pc EXCEPT ![c] = "overflow"]
              \/ pc' = [pc EXCEPT ![c] = "fault"]
           /\ UNCHANGED <<nQSize, freeNodesSem>>
    BY <1>4 DEF GetLocked, Recycle, lists
  <2>3. pc[c] = "get" /\ usedNodesSem' = usedNodesSem
    BY <1>4 DEF GetLocked
  <2>4. QED
    BY <2>1, <2>2, <2>3, AddingSize, GettingSize DEF CounterTypes, SemaphoresExact
<1>5. ASSUME NEW c \in Consumers,
             \/ GetNotReady(c)
             \/ \E i \in Indexes : GetIndexCheck(c, i)
             \/ Access(c)
      PROVE  IInv'
  <2>1. c \in Threads /\ c \notin Producers
    BY QueueAssumption DEF Threads
  <2>2. /\ UNCHANGED <<nQSize, usedNodesSem, freeNodesSem>>
        /\ pc[c] \in {"idle", "checked", "head", "walk"}
        /\ \E l \in {"idle", "checked", "head", "walk", "badread"} :
              pc' = [pc EXCEPT ![c] = l]
    <3>1. CASE GetNotReady(c)
      BY <3>1 DEF GetNotReady, lists
    <3>2. CASE \E i \in Indexes : GetIndexCheck(c, i)
      BY <3>2 DEF GetIndexCheck, lists
    <3>3. CASE \E i \in Peeks : AccessCheck(c, i)
      BY <3>3 DEF AccessCheck, lists
    <3>4. CASE AccessHead(c)
      BY <3>4 DEF AccessHead, lists
    <3>5. CASE AccessWalk(c)
      <4>1. pc' = [pc EXCEPT ![c] = "walk"]
        BY <3>5, <2>1 DEF AccessWalk, CounterTypes
      <4>2. QED BY <3>5, <4>1 DEF AccessWalk, lists
    <3>6. CASE AccessCopy(c)
      BY <3>6 DEF AccessCopy, lists
    <3>7. QED BY <1>5, <3>1, <3>2, <3>3, <3>4, <3>5, <3>6 DEF Access
  <2>3. PICK l \in {"idle", "checked", "head", "walk", "badread"} :
           pc' = [pc EXCEPT ![c] = l]
    BY <2>2
  <2>4. l \in Labels
    BY <2>3 DEF Labels
  <2>5. QED
    BY <2>1, <2>2, <2>3, <2>4, AddingSize, GettingSize
    DEF CounterTypes, SemaphoresExact
<1>6. CASE UNCHANGED vars
  BY <1>6 DEF vars, lists, CounterTypes, SemaphoresExact, Adding, Getting
<1>7. QED
  BY <1>1, <1>2, <1>3, <1>4, <1>5, <1>6 DEF Next, Add, Get

\* Every node of the pool is accounted for by a semaphore, a thread between its
\* wait and its critical section, or a message.
THEOREM SemaphoresAlwaysExact == Spec => []SemaphoresExact
<1>1. IInv => SemaphoresExact
  BY DEF IInv
<1>2. QED
  BY <1>1, InitInv, NextInv, PTL DEF Spec

\* The queue never holds more messages than Create was asked for, nor a
\* negative number of them: nQSize, a fsl_osal_u32, never wraps around.
THEOREM CapacityRespected == Spec => [](nQSize \in 0..nMaxQSize)
<1>1. IInv => nQSize \in 0..nMaxQSize
  <2> SUFFICES ASSUME IInv PROVE nQSize \in 0..nMaxQSize
    OBVIOUS
  <2>1. Cardinality(Adding) \in Nat /\ Cardinality(Getting) \in Nat
    <3>1. IsFiniteSet(Adding) /\ IsFiniteSet(Getting)
      BY QueueAssumption, FS_Subset DEF Adding, Getting
    <3>2. QED BY <3>1, FS_CardinalityType
  <2>2. QED
    BY <2>1, QueueAssumption DEF IInv, CounterTypes, SemaphoresExact
<1>2. QED
  BY <1>1, InitInv, NextInv, PTL DEF Spec
=============================================================================
