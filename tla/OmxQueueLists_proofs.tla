------------------------ MODULE OmxQueueLists_proofs -------------------------
(***************************************************************************)
(* The linked lists of the queue, for any capacity and any number of        *)
(* threads.  The state of the two lists is described by two sequences of    *)
(* nodes, the used and the free ones; every critical section turns these    *)
(* sequences into others, and the pointers with them.                       *)
(***************************************************************************)
EXTENDS OmxQueue_proofs, FunctionTheorems, SequenceTheorems, NatSetInduction

\* The list of the n nodes s[1], ..., s[n] that starts at first.
Linked(s, n, next, first) ==
    /\ s \in [1..n -> Nodes]
    /\ \A i, j \in 1..n : s[i] = s[j] => i = j
    /\ first = IF n = 0 THEN NULL ELSE s[1]
    /\ \A i \in 1..n : next[s[i]] = IF i = n THEN NULL ELSE s[i + 1]

nFree == nMaxQSize - nQSize

\* The pool is threaded on the lists of used and of free nodes.
Pool(used, free) ==
    /\ Linked(used, nQSize, NextNode, pHead)
    /\ Linked(free, nFree, NextNode, pFreeNodes)
    /\ \A i \in 1..nQSize, j \in 1..nFree : used[i] # free[j]
    /\ \A x \in Nodes : \/ \E i \in 1..nQSize : used[i] = x
                        \/ \E j \in 1..nFree : free[j] = x
    /\ pTail = IF nQSize = 0 THEN NULL ELSE used[nQSize]

\* Where a thread stands in the used list, as long as nobody has taken a
\* message since it looked at nQSize.
Place(t, used) ==
    /\ pc[t] # "overflow"
    /\ pc[t] \in {"fault", "badread"} => overtaken[t]
    /\ pc[t] \in {"checked", "get", "head", "walk"} /\ ~overtaken[t]
         => nIndex[t] <= nQSize
    /\ pc[t] = "walk" /\ ~overtaken[t]
         => left[t] < nIndex[t] /\ cursor[t] = used[nIndex[t] - left[t]]

ListInv ==
    /\ TypeOK
    /\ SemaphoresExact
    /\ \E used, free : /\ Pool(used, free)
                       /\ \A t \in Threads : Place(t, used)

-----------------------------------------------------------------------------
(* Walking along a list *)

\* Follow is defined by recursion on the number of steps; it is the walk.
LEMMA FollowWalks ==
    ASSUME NEW next \in [Nodes -> Nodes \cup {NULL}],
           NEW first \in Nodes \cup {NULL}
    PROVE  /\ Follow(next, first)[0] = first
           /\ \A k \in Nat : Follow(next, first)[k + 1] =
                IF Follow(next, first)[k] = NULL THEN NULL
                ELSE next[Follow(next, first)[k]]
<1> DEFINE V == Nodes \cup {NULL}
           Walk(f) == [k \in Nat |-> IF k = 0 THEN first
                                    ELSE IF f[k - 1] = NULL THEN NULL ELSE next[f[k - 1]]]
           step == [k \in Nat |-> [v \in V |-> IF v = NULL THEN NULL ELSE next[v]]]
<1>1. step \in [Nat -> [V -> V]]
  OBVIOUS
<1>2. PICK f : IsRecursion(f, V, first, step)
  <2> HIDE DEF step, V
  <2>1. first \in V
    BY DEF V
  <2>2. QED BY <1>1, <2>1, RecursionExists
<1>3. \A k \in Nat : f[k + 1] = IF f[k] = NULL THEN NULL ELSE next[f[k]]
  BY <1>2 DEF IsRecursion
<1>4. f = Walk(f)
  <2>1. ASSUME NEW k \in Nat PROVE f[k] = Walk(f)[k]
    <3>1. CASE k = 0
      BY <1>2, <3>1 DEF IsRecursion
    <3>2. CASE k # 0
      <4>1. k - 1 \in Nat /\ (k - 1) + 1 = k
        BY <3>2
      <4>2. QED BY <1>3, <3>2, <4>1
    <3>3. QED BY <3>1, <3>2
  <2>2. QED BY <1>2, <2>1 DEF IsRecursion
<1> DEFINE g == Follow(next, first)
<1>5. g = Walk(g)
  <2>1. g = CHOOSE h : h = Walk(h)
    BY DEF Follow
  <2> HIDE DEF g, Walk
  <2>2. QED BY <1>4, <2>1
<1> HIDE DEF g
<1>6. g[0] = first
  BY <1>5
<1>7. \A k \in Nat : g[k + 1] = IF g[k] = NULL THEN NULL ELSE next[g[k]]
  BY <1>5
<1>8. QED BY <1>6, <1>7 DEF g

\* The node k places behind the first of a list is s[k + 1].
LEMMA LinkedWalk ==
    ASSUME NEW next \in [Nodes -> Nodes \cup {NULL}], NEW first \in Nodes \cup {NULL},
           NEW n \in Nat, NEW s, Linked(s, n, next, first), NEW k \in Nat
    PROVE  Follow(next, first)[k] = IF k < n THEN s[k + 1] ELSE NULL
<1> DEFINE f == Follow(next, first)
           S == {j \in Nat : f[j] = IF j < n THEN s[j + 1] ELSE NULL}
<1>1. f[0] = first /\ \A j \in Nat : f[j + 1] = IF f[j] = NULL THEN NULL ELSE next[f[j]]
  BY FollowWalks
<1> HIDE DEF f
<1>2. 0 \in S
  BY <1>1 DEF Linked
<1>3. ASSUME NEW j \in S PROVE j + 1 \in S
  <2>1. CASE j < n
    <3>1. f[j] = s[j + 1] /\ j + 1 \in 1..n
      BY <2>1
    <3>2. f[j] \in Nodes /\ f[j] # NULL
      BY <3>1 DEF Linked, Nodes, NULL
    <3>3. f[j + 1] = next[s[j + 1]]
      BY <1>1, <3>1, <3>2
    <3>4. next[s[j + 1]] = IF j + 1 = n THEN NULL ELSE s[j + 2]
      BY <3>1 DEF Linked
    <3>5. QED BY <2>1, <3>3, <3>4
  <2>2. CASE ~(j < n)
    BY <1>1, <2>2
  <2>3. QED BY <2>1, <2>2
<1>4. S = Nat
  <2> HIDE DEF S
  <2>1. S \in SUBSET Nat
    BY DEF S
  <2>2. QED BY <1>2, <1>3, <2>1, SetInduction
<1>5. QED BY <1>4 DEF f

\* The nodes that can be reached are those of the list.
LEMMA LinkedChain ==
    ASSUME NextNode \in [Nodes -> Nodes \cup {NULL}], NEW first \in Nodes \cup {NULL},
           NEW n \in 0..nMaxQSize, NEW s, Linked(s, n, NextNode, first)
    PROVE  /\ \A x : x \in Chain(first) <=> \E i \in 1..n : x = s[i]
           /\ Cardinality(Chain(first)) = n
<1>0. n \in Nat /\ nMaxQSize \in Nat
  BY QueueAssumption
<1>1. \A k \in Nat : Follow(NextNode, first)[k] = IF k < n THEN s[k + 1] ELSE NULL
  BY <1>0, LinkedWalk
<1>2. ASSUME NEW x, x \in Chain(first) PROVE \E i \in 1..n : x = s[i]
  <2>1. PICK k \in 0..nMaxQSize : x = Follow(NextNode, first)[k] /\ x # NULL
    BY <1>2 DEF Chain
  <2>2. k < n /\ x = s[k + 1]
    BY <1>1, <2>1
  <2>3. k + 1 \in 1..n
    BY <2>2, <1>0
  <2>4. QED BY <2>2, <2>3
<1>3. ASSUME NEW i \in 1..n PROVE s[i] \in Chain(first)
  <2>1. i - 1 \in 0..nMaxQSize /\ i - 1 \in Nat /\ i - 1 < n /\ (i - 1) + 1 = i
    BY <1>0
  <2>2. s[i] = Follow(NextNode, first)[i - 1]
    BY <1>1, <2>1
  <2>3. s[i] # NULL
    BY DEF Linked, Nodes, NULL
  <2>4. QED BY <2>1, <2>2, <2>3 DEF Chain
<1>4. \A x : x \in Chain(first) <=> \E i \in 1..n : x = s[i]
  BY <1>2, <1>3
<1>5. Cardinality(Chain(first)) = n
  <2>1. s \in [1..n -> Chain(first)]
    BY <1>3 DEF Linked
  <2>2. s \in Bijection(1..n, Chain(first))
    BY <1>4, <2>1, Fun_IsBij DEF Linked
  <2>3. ExistsBijection(1..n, Chain(first))
    BY <2>2, Fun_ExistsBij
  <2>4. IsFiniteSet(1..n) /\ Cardinality(1..n) = n
    BY <1>0, FS_Interval
  <2>5. QED BY <2>3, <2>4, FS_Bijection
<1>6. QED BY <1>4, <1>5

-----------------------------------------------------------------------------
(* What the critical sections do to the sequences *)

Longer(s, n, x) == [i \in 1..(n + 1) |-> IF i = n + 1 THEN x ELSE s[i]]
Without(s, n, at) == [k \in 1..(n - 1) |-> IF k < at THEN s[k] ELSE s[k + 1]]
Pushed(s, n, x) == [j \in 1..(n + 1) |-> IF j = 1 THEN x ELSE s[j - 1]]

\* Add: the first free node becomes the last used one.
LEMMA AddPool ==
    ASSUME TypeOK, NEW used, NEW free, Pool(used, free),
           pFreeNodes # NULL,
           LinkTail(pFreeNodes),
           pFreeNodes' = NextNode[pFreeNodes],
           nQSize' = nQSize + 1,
           NEW used2, used2 = Longer(used, nQSize, pFreeNodes),
           NEW free2, free2 = Without(free, nFree, 1)
    PROVE  /\ Pool(used2, free2)'
           /\ nQSize < nMaxQSize
           /\ pFreeNodes = free[1]
<1> DEFINE n == nQSize
           m == nFree
           x == pFreeNodes
<1>1. /\ n \in Nat /\ m \in Nat /\ m \in 1..nMaxQSize /\ nMaxQSize \in Nat
      /\ n < nMaxQSize /\ nQSize' = n + 1 /\ nFree' = m - 1
  BY QueueAssumption DEF TypeOK, Pool, Linked, nFree
<1>2. x = free[1] /\ x \in Nodes /\ x # NULL
  BY <1>1 DEF Pool, Linked
<1>3. /\ used \in [1..n -> Nodes] /\ free \in [1..m -> Nodes]
      /\ \A i, j \in 1..n : used[i] = used[j] => i = j
      /\ \A i, j \in 1..m : free[i] = free[j] => i = j
      /\ \A i \in 1..n, j \in 1..m : used[i] # free[j]
  BY DEF Pool, Linked
<1>4. \A i \in 1..n : NextNode[used[i]] = IF i = n THEN NULL ELSE used[i + 1]
  BY DEF Pool, Linked
<1>5. \A j \in 1..m : NextNode[free[j]] = IF j = m THEN NULL ELSE free[j + 1]
  BY DEF Pool, Linked
<1>6. /\ n = 0 => pHead = NULL /\ pTail = NULL
      /\ n # 0 => pHead = used[1] /\ pTail = used[n] /\ pTail # NULL
  BY <1>1, <1>3 DEF Pool, Linked, Nodes, NULL
<1>7. /\ pTail' = x
      /\ pHead' = IF n = 0 THEN x ELSE pHead
      /\ \A y \in Nodes : NextNode'[y] = IF y = x THEN NULL
                                         ELSE IF n # 0 /\ y = pTail THEN x
                                         ELSE NextNode[y]
  BY <1>6 DEF LinkTail
<1>8. /\ used2 \in [1..(n + 1) -> Nodes] /\ used2[n + 1] = x
      /\ \A i \in 1..n : used2[i] = used[i]
  BY <1>1, <1>2, <1>3 DEF Longer
<1>9. /\ free2 \in [1..(m - 1) -> Nodes]
      /\ \A j \in 1..(m - 1) : free2[j] = free[j + 1]
  BY <1>1, <1>3 DEF Without
<1> HIDE DEF n, m, x
<1>10. Linked(used2, nQSize, NextNode, pHead)'
  <2>1. \A i, j \in 1..(n + 1) : used2[i] = used2[j] => i = j
    BY <1>1, <1>2, <1>3, <1>8
  <2>2. pHead' = used2[1]
    BY <1>1, <1>6, <1>7, <1>8
  <2>3. ASSUME NEW i \in 1..(n + 1)
        PROVE  NextNode'[used2[i]] = IF i = n + 1 THEN NULL ELSE used2[i + 1]
    <3>1. CASE i = n + 1
      BY <1>2, <1>7, <1>8, <3>1
    <3>2. CASE i = n
      <4>1. n # 0 /\ n \in 1..n /\ used2[n] = pTail
        BY <1>1, <1>6, <1>8, <3>2
      <4>2. pTail \in Nodes /\ pTail # x
        BY <1>1, <1>2, <1>3, <1>6, <4>1
      <4>3. QED BY <1>1, <1>7, <1>8, <3>2, <4>1, <4>2
    <3>3. CASE i \in 1..(n - 1)
      <4>1. i \in 1..n /\ i + 1 \in 1..n /\ i # n /\ n # 0 /\ n \in 1..n
        BY <1>1, <3>3
      <4>2. used2[i] = used[i] /\ used2[i + 1] = used[i + 1]
        BY <1>8, <4>1
      <4>3. used[i] \in Nodes /\ used[i] # x /\ used[i] # pTail
        BY <1>1, <1>2, <1>3, <1>6, <4>1
      <4>4. NextNode'[used[i]] = used[i + 1]
        BY <1>4, <1>7, <4>1, <4>3
      <4>5. QED BY <1>1, <3>3, <4>2, <4>4
    <3>4. QED BY <1>1, <3>1, <3>2, <3>3
  <2>4. QED BY <1>1, <1>8, <2>1, <2>2, <2>3 DEF Linked
<1>11. Linked(free2, nFree, NextNode, pFreeNodes)'
  <2>1. \A i, j \in 1..(m - 1) : free2[i] = free2[j] => i = j
    BY <1>1, <1>3, <1>9
  <2>2. pFreeNodes' = IF m - 1 = 0 THEN NULL ELSE free2[1]
    BY <1>1, <1>2, <1>5, <1>9 DEF x
  <2>3. ASSUME NEW j \in 1..(m - 1)
        PROVE  NextNode'[free2[j]] = IF j = m - 1 THEN NULL ELSE free2[j + 1]
    <3>1. j + 1 \in 1..m /\ j + 1 # 1 /\ 1 \in 1..m /\ free2[j] = free[j + 1]
      BY <1>1, <1>9
    <3>2. free[j + 1] \in Nodes /\ free[j + 1] # x
      BY <1>2, <1>3, <3>1
    <3>3. n # 0 => free[j + 1] # pTail
      BY <1>1, <1>3, <1>6, <3>1
    <3>4. NextNode'[free[j + 1]] = NextNode[free[j + 1]]
      BY <1>7, <3>2, <3>3
    <3>5. NextNode[free[j + 1]] = IF j + 1 = m THEN NULL ELSE free[(j + 1) + 1]
      BY <1>5, <3>1
    <3>6. j # m - 1 => j + 1 \in 1..(m - 1) /\ free2[j + 1] = free[(j + 1) + 1]
      BY <1>1, <1>9
    <3>7. QED BY <1>1, <3>1, <3>4, <3>5, <3>6
  <2>4. QED BY <1>1, <1>9, <2>1, <2>2, <2>3 DEF Linked
<1>12. \A i \in 1..(n + 1), j \in 1..(m - 1) : used2[i] # free2[j]
  BY <1>1, <1>2, <1>3, <1>8, <1>9
<1>13. ASSUME NEW y \in Nodes
       PROVE  \/ \E i \in 1..(n + 1) : used2[i] = y
              \/ \E j \in 1..(m - 1) : free2[j] = y
  <2>1. CASE \E i \in 1..n : used[i] = y
    BY <1>1, <1>8, <2>1
  <2>2. CASE y = x
    BY <1>1, <1>8, <2>2
  <2>3. CASE \E j \in 1..m : free[j] = y /\ j # 1
    <3>1. PICK j \in 1..m : free[j] = y /\ j # 1
      BY <2>3
    <3>2. j - 1 \in 1..(m - 1) /\ (j - 1) + 1 = j
      BY <1>1, <3>1
    <3>3. QED BY <1>9, <3>1, <3>2
  <2>4. (\E i \in 1..n : used[i] = y) \/ (\E j \in 1..m : free[j] = y)
    BY DEF Pool, n, m
  <2>5. QED BY <1>2, <2>1, <2>2, <2>3, <2>4
<1>14. pTail' = used2[n + 1]
  BY <1>7, <1>8
<1>15. Pool(used2, free2)'
  <2>1. nQSize' # 0
    BY <1>1
  <2>2. QED BY <1>1, <1>10, <1>11, <1>12, <1>13, <1>14, <2>1 DEF Pool
<1>16. QED BY <1>1, <1>2, <1>15 DEF n, m, x

\* Get and Get(nIndex): the node at position i is unlinked and becomes the
\* first free one.
LEMMA TakePool ==
    ASSUME TypeOK, NEW used, NEW free, Pool(used, free),
           NEW i \in 1..nQSize,
           \A y \in Nodes : NextNode'[y] =
               IF y = used[i] THEN pFreeNodes
               ELSE IF i > 1 /\ y = used[i - 1] THEN NextNode[used[i]]
               ELSE NextNode[y],
           pHead' = IF i = 1 THEN NextNode[used[1]] ELSE pHead,
           pTail' = IF i = nQSize THEN IF i = 1 THEN NULL ELSE used[i - 1] ELSE pTail,
           pFreeNodes' = used[i],
           nQSize' = nQSize - 1,
           NEW used2, used2 = Without(used, nQSize, i),
           NEW free2, free2 = Pushed(free, nFree, used[i])
    PROVE  Pool(used2, free2)'
<1> DEFINE n == nQSize
           m == nFree
           x == used[i]
<1>1. /\ n \in Nat /\ m \in Nat /\ n \in 1..nMaxQSize /\ nMaxQSize \in Nat
      /\ i \in 1..n /\ nQSize' = n - 1 /\ nFree' = m + 1
  BY QueueAssumption DEF TypeOK, nFree
<1>2. /\ used \in [1..n -> Nodes] /\ free \in [1..m -> Nodes]
      /\ \A j, k \in 1..n : used[j] = used[k] => j = k
      /\ \A j, k \in 1..m : free[j] = free[k] => j = k
      /\ \A j \in 1..n, k \in 1..m : used[j] # free[k]
  BY DEF Pool, Linked
<1>3. \A k \in 1..n : NextNode[used[k]] = IF k = n THEN NULL ELSE used[k + 1]
  BY DEF Pool, Linked
<1>4. \A k \in 1..m : NextNode[free[k]] = IF k = m THEN NULL ELSE free[k + 1]
  BY DEF Pool, Linked
<1>5. /\ pHead = used[1] /\ pTail = used[n]
      /\ pFreeNodes = IF m = 0 THEN NULL ELSE free[1]
  BY <1>1 DEF Pool, Linked
<1>6. /\ used2 \in [1..(n - 1) -> Nodes]
      /\ \A k \in 1..(n - 1) : used2[k] = IF k < i THEN used[k] ELSE used[k + 1]
  BY <1>1, <1>2 DEF Without
<1>7. /\ free2 \in [1..(m + 1) -> Nodes] /\ free2[1] = x
      /\ \A k \in 1..m : free2[k + 1] = free[k]
  BY <1>1, <1>2 DEF Pushed
<1>8. x \in Nodes
  BY <1>1, <1>2
<1>9. Linked(used2, nQSize, NextNode, pHead)'
  <2>1. \A j, k \in 1..(n - 1) : used2[j] = used2[k] => j = k
    <3> SUFFICES ASSUME NEW j \in 1..(n - 1), NEW k \in 1..(n - 1), used2[j] = used2[k]
                 PROVE  j = k
      OBVIOUS
    <3> DEFINE Old(h) == IF h < i THEN h ELSE h + 1
    <3>1. \A h \in 1..(n - 1) : Old(h) \in 1..n /\ used2[h] = used[Old(h)]
      BY <1>1, <1>6
    <3>2. Old(j) = Old(k)
      <4> HIDE DEF Old
      <4>1. QED BY <1>2, <3>1
    <3>3. QED BY <1>1, <3>2
  <2>2. pHead' = IF n - 1 = 0 THEN NULL ELSE used2[1]
    <3>1. CASE i = 1
      BY <1>1, <1>3, <1>6, <3>1
    <3>2. CASE i # 1
      BY <1>1, <1>5, <1>6, <3>2
    <3>3. QED BY <3>1, <3>2
  <2>3. ASSUME NEW k \in 1..(n - 1)
        PROVE  NextNode'[used2[k]] = IF k = n - 1 THEN NULL ELSE used2[k + 1]
    <3>1. CASE k + 1 = i
      <4>1. i > 1 /\ k < i /\ i - 1 = k /\ k \in 1..n /\ used2[k] = used[k]
        BY <1>1, <1>6, <3>1
      <4>2. used[k] \in Nodes /\ used[k] # x
        BY <1>1, <1>2, <4>1
      <4>3. NextNode'[used2[k]] = NextNode[used[i]]
        BY <4>1, <4>2
      <4>4. k = n - 1 <=> i = n
        BY <1>1, <3>1
      <4>5. k # n - 1 => k + 1 \in 1..(n - 1) /\ used2[k + 1] = used[i + 1]
        BY <1>1, <1>6, <3>1
      <4>6. QED BY <1>1, <1>3, <4>3, <4>4, <4>5
    <3>2. CASE k + 1 < i
      <4>1. k \in 1..n /\ k + 1 \in 1..(n - 1) /\ used2[k] = used[k] /\ k # n
        BY <1>1, <1>6, <3>2
      <4>2. used2[k + 1] = used[k + 1]
        BY <1>1, <1>6, <3>2, <4>1
      <4>3. used[k] \in Nodes /\ used[k] # x /\ (i > 1 => used[k] # used[i - 1])
        BY <1>1, <1>2, <3>2, <4>1
      <4>4. NextNode'[used[k]] = NextNode[used[k]]
        BY <4>3
      <4>5. NextNode[used[k]] = used[k + 1]
        BY <1>3, <4>1
      <4>6. k # n - 1
        BY <1>1, <3>2
      <4>7. QED BY <4>1, <4>2, <4>4, <4>5, <4>6
    <3>3. CASE k >= i
      <4>1. k + 1 \in 1..n /\ used2[k] = used[k + 1]
        BY <1>1, <1>6, <3>3
      <4>2. used[k + 1] \in Nodes /\ used[k + 1] # x /\ (i > 1 => used[k + 1] # used[i - 1])
        BY <1>1, <1>2, <3>3, <4>1
      <4>3. NextNode'[used2[k]] = NextNode[used[k + 1]]
        BY <4>1, <4>2
      <4>4. k # n - 1 => k + 1 \in 1..(n - 1) /\ used2[k + 1] = used[(k + 1) + 1]
        BY <1>1, <1>6, <3>3
      <4>5. NextNode[used[k + 1]] = IF k + 1 = n THEN NULL ELSE used[(k + 1) + 1]
        BY <1>3, <4>1
      <4>6. k + 1 = n <=> k = n - 1
        BY <1>1
      <4>7. QED BY <4>3, <4>4, <4>5, <4>6
    <3>4. QED BY <1>1, <3>1, <3>2, <3>3
  <2>4. QED BY <1>1, <1>6, <2>1, <2>2, <2>3 DEF Linked
<1>10. Linked(free2, nFree, NextNode, pFreeNodes)'
  <2>1. \A k \in 1..(m + 1) : k # 1 => k - 1 \in 1..m /\ free2[k] = free[k - 1]
    <3> SUFFICES ASSUME NEW k \in 1..(m + 1), k # 1
                 PROVE  k - 1 \in 1..m /\ free2[k] = free[k - 1]
      OBVIOUS
    <3>1. k - 1 \in 1..m /\ (k - 1) + 1 = k
      BY <1>1
    <3>2. QED BY <1>7, <3>1
  <2>2. \A j, k \in 1..(m + 1) : free2[j] = free2[k] => j = k
    BY <1>1, <1>2, <1>7, <2>1
  <2>3. ASSUME NEW k \in 1..(m + 1)
        PROVE  NextNode'[free2[k]] = IF k = m + 1 THEN NULL ELSE free2[k + 1]
    <3>1. CASE k = 1
      <4>1. NextNode'[free2[k]] = pFreeNodes
        BY <1>7, <1>8, <3>1
      <4>2. m # 0 => 1 \in 1..m /\ free2[1 + 1] = free[1]
        BY <1>1, <1>7
      <4>3. QED BY <1>1, <1>5, <3>1, <4>1, <4>2
    <3>2. CASE k # 1
      <4>1. k - 1 \in 1..m /\ free2[k] = free[k - 1]
        BY <2>1, <3>2
      <4>2. /\ free[k - 1] \in Nodes /\ free[k - 1] # x
            /\ i > 1 => free[k - 1] # used[i - 1]
        BY <1>1, <1>2, <4>1
      <4>3. NextNode'[free[k - 1]] = NextNode[free[k - 1]]
        BY <4>2
      <4>4. NextNode[free[k - 1]] = IF k - 1 = m THEN NULL ELSE free[(k - 1) + 1]
        BY <1>4, <4>1
      <4>5. (k - 1) + 1 = k /\ (k - 1 = m <=> k = m + 1)
        BY <1>1
      <4>6. k # m + 1 => k \in 1..m /\ free2[k + 1] = free[k]
        BY <1>1, <1>7
      <4>7. QED BY <4>1, <4>3, <4>4, <4>5, <4>6
    <3>3. QED BY <3>1, <3>2
  <2>4. QED BY <1>1, <1>7, <2>2, <2>3 DEF Linked
<1>11. \A j \in 1..(n - 1), k \in 1..(m + 1) : used2[j] # free2[k]
  <2> SUFFICES ASSUME NEW j \in 1..(n - 1), NEW k \in 1..(m + 1) PROVE used2[j] # free2[k]
    OBVIOUS
  <2>1. \E h \in 1..n : h # i /\ used2[j] = used[h]
    <3>1. CASE j < i
      BY <1>1, <1>6, <3>1
    <3>2. CASE ~(j < i)
      <4>1. j + 1 \in 1..n /\ j + 1 # i /\ used2[j] = used[j + 1]
        BY <1>1, <1>6, <3>2
      <4>2. QED BY <4>1
    <3>3. QED BY <3>1, <3>2
  <2>2. CASE k = 1
    BY <1>1, <1>2, <1>7, <2>1, <2>2
  <2>3. CASE k # 1
    <3>1. k - 1 \in 1..m /\ (k - 1) + 1 = k
      BY <1>1, <2>3
    <3>2. QED BY <1>2, <1>7, <2>1, <3>1
  <2>4. QED BY <2>2, <2>3
<1>12. ASSUME NEW y \in Nodes
       PROVE  \/ \E j \in 1..(n - 1) : used2[j] = y
              \/ \E k \in 1..(m + 1) : free2[k] = y
  <2>1. CASE \E j \in 1..n : used[j] = y
    <3>1. PICK j \in 1..n : used[j] = y
      BY <2>1
    <3>2. CASE j < i
      BY <1>1, <1>6, <3>1, <3>2
    <3>3. CASE j = i
      BY <1>1, <1>7, <3>1, <3>3
    <3>4. CASE j > i
      <4>1. j - 1 \in 1..(n - 1) /\ ~(j - 1 < i) /\ (j - 1) + 1 = j
        BY <1>1, <3>4
      <4>2. QED BY <1>6, <3>1, <4>1
    <3>5. QED BY <1>1, <3>2, <3>3, <3>4
  <2>2. CASE \E k \in 1..m : free[k] = y
    BY <1>1, <1>7, <2>2, SMTT(30)
  <2>3. QED BY <2>1, <2>2 DEF Pool
<1>13. pTail' = IF n - 1 = 0 THEN NULL ELSE used2[n - 1]
  <2>1. CASE i = n
    BY <1>1, <1>6, <2>1
  <2>2. CASE i # n
    <3>1. n - 1 \in 1..(n - 1) /\ ~(n - 1 < i) /\ (n - 1) + 1 = n
      BY <1>1, <2>2
    <3>2. QED BY <1>1, <1>5, <1>6, <2>2, <3>1
  <2>3. QED BY <2>1, <2>2
<1>14. QED
  BY <1>1, <1>9, <1>10, <1>11, <1>12, <1>13 DEF Pool

-----------------------------------------------------------------------------
(* The invariant *)

LEMMA ListInit == Init => ListInv
<1> SUFFICES ASSUME Init PROVE ListInv
  OBVIOUS
<1> DEFINE used == [i \in 1..0 |-> 1]
           free == [j \in 1..nMaxQSize |-> j]
<1>1. nMaxQSize \in Nat \ {0}
  BY QueueAssumption
<1>2. TypeOK
  BY <1>1 DEF Init, TypeOK, Nodes, NULL, Labels
<1>3. SemaphoresExact
  BY InitInv DEF IInv
<1>4. Pool(used, free)
  BY <1>1 DEF Init, Pool, Linked, nFree, Nodes, NULL
<1>5. \A t \in Threads : Place(t, used)
  BY DEF Init, Place
<1> HIDE DEF used, free
<1>6. QED BY <1>2, <1>3, <1>4, <1>5 DEF ListInv

\* A step that leaves the lists alone keeps the sequences.
LEMMA PoolUnchanged ==
    ASSUME NEW used, NEW free, Pool(used, free), UNCHANGED lists
    PROVE  Pool(used, free)'
BY DEF Pool, Linked, lists, nFree

\* Under the mutex a thread with a permit finds what it came for.
LEMMA PermitGivesNode ==
    ASSUME TypeOK, SemaphoresExact
    PROVE  /\ \A p \in Producers : pc[p] = "add" => nQSize < nMaxQSize
           /\ \A c \in Consumers : pc[c] = "get" => nQSize > 0
           /\ usedNodesSem > 0 => nQSize > 0
<1>1. IsFiniteSet(Adding) /\ IsFiniteSet(Getting)
  BY QueueAssumption, FS_Subset DEF Adding, Getting
<1>2. Cardinality(Adding) \in Nat /\ Cardinality(Getting) \in Nat
  BY <1>1, FS_CardinalityType
<1>3. ASSUME NEW p \in Producers, pc[p] = "add" PROVE Cardinality(Adding) # 0
  <2>1. p \in Adding
    BY <1>3 DEF Adding
  <2>2. QED BY <1>1, <2>1, FS_EmptySet
<1>4. ASSUME NEW c \in Consumers, pc[c] = "get" PROVE Cardinality(Getting) # 0
  <2>1. c \in Getting
    BY <1>4 DEF Getting
  <2>2. QED BY <1>1, <2>1, FS_EmptySet
<1>5. QED
  BY <1>2, <1>3, <1>4, QueueAssumption DEF TypeOK, SemaphoresExact


\* Only thread c moves and the lists stay.
LEMMA OthersStay ==
    ASSUME NEW used, NEW free, Pool(used, free), NEW c \in Threads,
           \A t \in Threads : Place(t, used),
           UNCHANGED lists,
           \A t \in Threads \ {c} :
              /\ pc'[t] = pc[t] /\ nIndex'[t] = nIndex[t] /\ cursor'[t] = cursor[t]
              /\ left'[t] = left[t] /\ overtaken'[t] = overtaken[t],
           Place(c, used)'
    PROVE  \E u, f : Pool(u, f)' /\ \A t \in Threads : Place(t, u)'
<1>1. Pool(used, free)'
  BY PoolUnchanged
<1>2. nQSize' = nQSize
  BY DEF lists
<1>3. ASSUME NEW t \in Threads \ {c} PROVE Place(t, used)'
  BY <1>2, <1>3 DEF Place
<1>4. QED
  BY <1>1, <1>3

\* The facts about the used list that the critical sections need.
LEMMA UsedList ==
    ASSUME TypeOK, NEW used, NEW free, Pool(used, free)
    PROVE  /\ nMaxQSize \in Nat \ {0} /\ nQSize \in 0..nMaxQSize
           /\ \A t \in Threads : nIndex[t] \in Nat \ {0} /\ left[t] \in Nat
           /\ used \in [1..nQSize -> Nodes]
           /\ \A i \in 1..nQSize : used[i] # NULL
           /\ pHead = IF nQSize = 0 THEN NULL ELSE used[1]
           /\ \A i \in 1..nQSize : NextNode[used[i]] = IF i = nQSize THEN NULL ELSE used[i + 1]
           /\ \A k \in Nat : Follow(NextNode, pHead)[k] = IF k < nQSize THEN used[k + 1] ELSE NULL
<1>1. /\ nMaxQSize \in Nat \ {0} /\ nQSize \in 0..nMaxQSize
      /\ \A t \in Threads : nIndex[t] \in Nat \ {0} /\ left[t] \in Nat
  <2>1. Indexes \cup Peeks \cup {1} \subseteq Nat \ {0}
    BY QueueAssumption
  <2>2. nMaxQSize \in Nat \ {0}
    BY QueueAssumption
  <2>3. QED BY <2>1, <2>2 DEF TypeOK
<1>2. /\ used \in [1..nQSize -> Nodes]
      /\ \A i \in 1..nQSize : used[i] # NULL
      /\ pHead = IF nQSize = 0 THEN NULL ELSE used[1]
      /\ \A i \in 1..nQSize : NextNode[used[i]] = IF i = nQSize THEN NULL ELSE used[i + 1]
  BY DEF Pool, Linked, Nodes, NULL
<1>3. ASSUME NEW k \in Nat
      PROVE  Follow(NextNode, pHead)[k] = IF k < nQSize THEN used[k + 1] ELSE NULL
  <2>1. /\ NextNode \in [Nodes -> Nodes \cup {NULL}] /\ pHead \in Nodes \cup {NULL}
        /\ nQSize \in Nat /\ Linked(used, nQSize, NextNode, pHead)
    BY <1>1 DEF TypeOK, Pool
  <2>2. QED BY <2>1, LinkedWalk
<1>4. QED BY <1>1, <1>2, <1>3

\* The critical section of Add always finds a free node.
LEMMA AddStep ==
    ASSUME TypeOK, SemaphoresExact, NEW used, NEW free, Pool(used, free),
           NEW p \in Producers, NEW m \in Msgs, AddLocked(p, m),
           NEW used2, used2 = Longer(used, nQSize, pFreeNodes),
           NEW free2, free2 = Without(free, nFree, 1)
    PROVE  /\ Pool(used2, free2)'
           /\ nQSize < nMaxQSize
           /\ pFreeNodes \in Nodes /\ \A i \in 1..nQSize : used[i] # pFreeNodes
           /\ LinkTail(pFreeNodes)
           /\ pFreeNodes' = NextNode[pFreeNodes]
           /\ pMsg' = [pMsg EXCEPT ![pFreeNodes] = m]
           /\ nQSize' = nQSize + 1
           /\ usedNodesSem' = usedNodesSem + 1
           /\ pc' = [pc EXCEPT ![p] = "idle"]
           /\ UNCHANGED <<freeNodesSem, nIndex, cursor, left, overtaken>>
<1>1. nQSize < nMaxQSize /\ nQSize \in Nat /\ nMaxQSize \in Nat
  BY UsedList, PermitGivesNode DEF AddLocked
<1>2. pFreeNodes # NULL
  BY <1>1 DEF Pool, Linked, nFree, Nodes, NULL
<1>3. /\ LinkTail(pFreeNodes)
      /\ pFreeNodes' = NextNode[pFreeNodes]
      /\ pMsg' = [pMsg EXCEPT ![pFreeNodes] = m]
      /\ nQSize' = nQSize + 1
      /\ usedNodesSem' = usedNodesSem + 1
      /\ pc' = [pc EXCEPT ![p] = "idle"]
      /\ UNCHANGED <<freeNodesSem, nIndex, cursor, left, overtaken>>
  BY <1>2 DEF AddLocked, PostUsed, Goto
<1>4. Pool(used2, free2)' /\ pFreeNodes = free[1]
  BY <1>2, <1>3, AddPool
<1>5. pFreeNodes \in Nodes /\ \A i \in 1..nQSize : used[i] # pFreeNodes
  <2>1. 1 \in 1..nFree
    BY <1>1 DEF nFree
  <2>2. QED BY <1>4, <2>1 DEF Pool, Linked
<1>6. QED BY <1>1, <1>3, <1>4, <1>5

\* The critical section of Get finds the node at nIndex, or there is none.
LEMMA TakeStep ==
    ASSUME TypeOK, SemaphoresExact, NEW used, NEW free, Pool(used, free),
           NEW c \in Consumers, GetLocked(c),
           NEW used2, used2 = Without(used, nQSize, nIndex[c]),
           NEW free2, free2 = Pushed(free, nFree, used[nIndex[c]])
    PROVE  \/ /\ nIndex[c] > nQSize
              /\ pc[c] = "get" /\ pc' = [pc EXCEPT ![c] = "fault"]
              /\ UNCHANGED <<lists, freeNodesSem, overtaken, usedNodesSem, nIndex, cursor, left>>
           \/ /\ nIndex[c] \in 1..nQSize
              /\ pc' = [pc EXCEPT ![c] = "idle"]
              /\ overtaken' = [t \in Threads |-> t # c \/ overtaken[t]]
              /\ UNCHANGED <<usedNodesSem, nIndex, cursor, left, pMsg>>
              /\ nQSize' = nQSize - 1 /\ freeNodesSem' = freeNodesSem + 1
              /\ NextNode' \in [Nodes -> Nodes \cup {NULL}]
              /\ {pFreeNodes, pHead, pTail}' \subseteq Nodes \cup {NULL}
              /\ Pool(used2, free2)'
<1> DEFINE node == Follow(NextNode, pHead)[nIndex[c] - 1]
           prev == Follow(NextNode, pHead)[nIndex[c] - 2]
<1>1. c \in Threads /\ {"overflow", "fault", "idle"} \subseteq Labels
  BY DEF Threads, Labels
<1>2. nQSize > 0 /\ pHead = used[1] /\ pHead # NULL /\ 1 \in 1..nQSize
  <2>1. nQSize > 0
    BY PermitGivesNode DEF GetLocked
  <2>2. QED BY UsedList, <2>1
<1>3. node = IF nIndex[c] - 1 < nQSize THEN used[nIndex[c]] ELSE NULL
  <2>1. nIndex[c] - 1 \in Nat /\ (nIndex[c] - 1) + 1 = nIndex[c]
    BY UsedList, <1>1
  <2>2. QED BY UsedList, <2>1
<1>4. CASE nIndex[c] > 1 /\ node = NULL
  <2>1. /\ pc[c] = "get" /\ pc' = [pc EXCEPT ![c] = "fault"]
        /\ UNCHANGED <<lists, freeNodesSem, overtaken, usedNodesSem, nIndex, cursor, left>>
    BY <1>2, <1>4 DEF GetLocked, Goto
  <2>2. nIndex[c] > nQSize
    <3>1. nIndex[c] <= nQSize => nIndex[c] \in 1..nQSize /\ nIndex[c] - 1 < nQSize
      BY UsedList, <1>1
    <3>2. QED BY UsedList, <1>1, <1>3, <1>4, <3>1
  <2>3. QED BY <2>1, <2>2
<1>5. CASE ~(nIndex[c] > 1 /\ node = NULL)
  <2> DEFINE i == nIndex[c]
  <2>1. i \in 1..nQSize /\ (i > 1 => node = used[i])
    <3>1. CASE i = 1
      BY <1>2, <3>1
    <3>2. CASE i # 1
      <4>1. i > 1 /\ node # NULL
        BY UsedList, <1>1, <1>5, <3>2
      <4>2. i - 1 < nQSize /\ node = used[i]
        BY <1>3, <4>1
      <4>3. QED BY UsedList, <1>1, <4>1, <4>2
    <3>3. QED BY <3>1, <3>2
  <2>2. i > 1 => prev = used[i - 1]
    <3> SUFFICES ASSUME i > 1 PROVE prev = used[i - 1]
      OBVIOUS
    <3>1. i - 2 \in Nat /\ i - 2 < nQSize /\ (i - 2) + 1 = i - 1
      BY UsedList, <1>1, <2>1
    <3>2. QED BY UsedList, <3>1
  <2>3. /\ pc' = [pc EXCEPT ![c] = "idle"]
        /\ overtaken' = [t \in Threads |-> t # c \/ overtaken[t]]
        /\ UNCHANGED <<usedNodesSem, nIndex, cursor, left, pMsg>>
        /\ nQSize' = nQSize - 1 /\ freeNodesSem' = freeNodesSem + 1
    BY <1>2, <1>5 DEF GetLocked, Goto, Recycle
  <2>4. \/ /\ i = 1
           /\ UnlinkHead
           /\ Recycle(pHead, NextNode)
        \/ /\ i > 1
           /\ pTail' = IF pTail = node THEN prev ELSE pTail
           /\ Recycle(node, [NextNode EXCEPT ![prev] = NextNode[node]])
           /\ UNCHANGED pHead
    BY <1>2, <1>5 DEF GetLocked
  <2>5. /\ used[i] \in Nodes /\ (i > 1 => i - 1 \in 1..nQSize /\ used[i - 1] \in Nodes)
        /\ pTail = used[nQSize] /\ nQSize \in 1..nQSize
        /\ \A j, k \in 1..nQSize : used[j] = used[k] => j = k
    <3>1. used \in [1..nQSize -> Nodes] /\ nQSize \in Nat
      BY UsedList
    <3>2. QED BY <1>2, <2>1, <3>1 DEF Pool, Linked
  <2>6. /\ \A y \in Nodes : NextNode'[y] =
             IF y = used[i] THEN pFreeNodes
             ELSE IF i > 1 /\ y = used[i - 1] THEN NextNode[used[i]]
             ELSE NextNode[y]
        /\ NextNode' \in [Nodes -> Nodes \cup {NULL}]
        /\ pFreeNodes' = used[i]
    <3> HIDE DEF node, prev
    <3>1. CASE i = 1
      BY <1>2, <2>4, <2>5, <3>1 DEF Recycle, TypeOK
    <3>2. CASE i > 1
      BY <2>1, <2>2, <2>4, <2>5, <3>2 DEF Recycle, TypeOK
    <3>3. QED BY <2>1, <3>1, <3>2
  <2>7. pHead' = IF i = 1 THEN NextNode[used[1]] ELSE pHead
    BY <1>2, <2>4 DEF UnlinkHead
  <2>8. pTail' = IF i = nQSize THEN IF i = 1 THEN NULL ELSE used[i - 1] ELSE pTail
    <3>1. CASE i = 1
      <4>1. pTail' = IF NextNode[used[1]] = NULL THEN NULL ELSE pTail
        BY <1>2, <2>4, <3>1 DEF UnlinkHead
      <4>2. NextNode[used[1]] = NULL <=> nQSize = 1
        <5>1. nQSize # 1 => 2 \in 1..nQSize /\ used[1 + 1] # NULL
          BY UsedList, <1>2
        <5>2. QED BY UsedList, <1>2, <5>1
      <4>3. QED BY <3>1, <4>1, <4>2
    <3>2. CASE i > 1
      <4>1. pTail' = IF pTail = used[i] THEN used[i - 1] ELSE pTail
        BY <2>1, <2>2, <2>4, <3>2
      <4>2. pTail = used[i] <=> i = nQSize
        BY <2>1, <2>5
      <4>3. QED BY <3>2, <4>1, <4>2
    <3>3. QED BY <2>1, <3>1, <3>2
  <2>9. Pool(used2, free2)'
    <3>1. used2 = Without(used, nQSize, i) /\ free2 = Pushed(free, nFree, used[i])
      OBVIOUS
    <3> HIDE DEF i
    <3>2. QED BY <2>1, <2>3, <2>6, <2>7, <2>8, <3>1, TakePool
  <2>10. {pFreeNodes, pHead, pTail}' \subseteq Nodes \cup {NULL}
    BY <1>2, UsedList, <2>5, <2>6, <2>7, <2>8 DEF TypeOK
  <2>11. QED BY <2>1, <2>3, <2>6, <2>9, <2>10
<1>6. QED BY <1>4, <1>5

LEMMA ListNext == ListInv /\ [Next]_vars => ListInv'
<1> SUFFICES ASSUME ListInv, [Next]_vars PROVE ListInv'
  OBVIOUS
<1> DEFINE Goal == \E u, f : Pool(u, f)' /\ \A t \in Threads : Place(t, u)'
<1>1. TypeOK /\ SemaphoresExact
  BY DEF ListInv
<1>2. PICK used, free : Pool(used, free) /\ \A t \in Threads : Place(t, used)
  BY DEF ListInv
<1>3. SemaphoresExact'
  <2>1. IInv
    BY <1>1, QueueAssumption DEF IInv, CounterTypes, TypeOK
  <2>2. QED BY <2>1, NextInv DEF IInv
<1>4. /\ nMaxQSize \in Nat \ {0} /\ nQSize \in 0..nMaxQSize
      /\ \A t \in Threads : nIndex[t] \in Nat \ {0} /\ left[t] \in Nat
  BY <1>1, <1>2, UsedList
<1>5. /\ used \in [1..nQSize -> Nodes]
      /\ \A i \in 1..nQSize : used[i] # NULL
      /\ pHead = IF nQSize = 0 THEN NULL ELSE used[1]
      /\ \A i \in 1..nQSize : NextNode[used[i]] = IF i = nQSize THEN NULL ELSE used[i + 1]
  BY <1>1, <1>2, UsedList
<1> HIDE DEF Goal
<1>7. ASSUME NEW p \in Producers, AddPermit(p) PROVE TypeOK' /\ Goal
  <2>1. p \in Threads /\ "add" \in Labels
    BY DEF Threads, Labels
  <2>2. TypeOK'
    BY <1>1, <1>4, <1>7, <2>1 DEF AddPermit, Goto, TypeOK, lists
  <2>3. Place(p, used)'
    BY <1>1, <1>7, <2>1 DEF AddPermit, Goto, Place, TypeOK
  <2>4. Goal
    BY <1>1, <1>2, <1>7, <2>1, <2>3, OthersStay DEF AddPermit, Goto, TypeOK, Goal
  <2>5. QED BY <2>2, <2>4
<1>8. ASSUME NEW p \in Producers, NEW m \in Msgs, AddLocked(p, m) PROVE TypeOK' /\ Goal
  <2>1. p \in Threads /\ "idle" \in Labels
    BY DEF Threads, Labels
  <2>2. PICK used2 : used2 = Longer(used, nQSize, pFreeNodes)
    OBVIOUS
  <2>3. PICK free2 : free2 = Without(free, nFree, 1)
    OBVIOUS
  <2>4. /\ Pool(used2, free2)'
        /\ nQSize < nMaxQSize
        /\ pFreeNodes \in Nodes
        /\ LinkTail(pFreeNodes)
        /\ pFreeNodes' = NextNode[pFreeNodes]
        /\ pMsg' = [pMsg EXCEPT ![pFreeNodes] = m]
        /\ nQSize' = nQSize + 1
        /\ usedNodesSem' = usedNodesSem + 1
        /\ pc' = [pc EXCEPT ![p] = "idle"]
        /\ UNCHANGED <<freeNodesSem, nIndex, cursor, left, overtaken>>
    BY <1>1, <1>2, <1>8, <2>2, <2>3, AddStep
  <2>5. TypeOK'
    <3>1. NextNode' \in [Nodes -> Nodes \cup {NULL}]
      BY <1>1, <2>4 DEF LinkTail, TypeOK
    <3>2. {pFreeNodes, pHead, pTail}' \subseteq Nodes \cup {NULL}
      BY <1>1, <2>4 DEF LinkTail, TypeOK
    <3>3. usedNodesSem' \in 0..nMaxQSize
      <4>1. IsFiniteSet(Getting')
        BY QueueAssumption, FS_Subset DEF Getting
      <4>2. Cardinality(Getting') \in Nat
        BY <4>1, FS_CardinalityType
      <4>3. usedNodesSem' + Cardinality(Getting') = nQSize'
        BY <1>3 DEF SemaphoresExact
      <4>4. QED BY <1>1, <1>4, <2>4, <4>2, <4>3 DEF TypeOK
    <3>4. pMsg' \in [Nodes -> Msgs] /\ pc' \in [Threads -> Labels] /\ nQSize' \in 0..nMaxQSize
      BY <1>1, <1>4, <2>1, <2>4 DEF TypeOK
    <3>5. QED
      BY <1>1, <2>4, <3>1, <3>2, <3>3, <3>4 DEF TypeOK
  <2>6. ASSUME NEW t \in Threads PROVE Place(t, used2)'
    <3>1. CASE t = p
      BY <1>1, <2>4, <3>1 DEF Place, TypeOK
    <3>2. CASE t # p
      <4>1. /\ pc'[t] = pc[t] /\ nIndex'[t] = nIndex[t] /\ cursor'[t] = cursor[t]
            /\ left'[t] = left[t] /\ overtaken'[t] = overtaken[t]
        BY <1>1, <2>1, <2>4, <3>2 DEF TypeOK
      <4>2. \A i \in 1..nQSize : used2[i] = used[i]
        BY <1>4, <2>2 DEF Longer
      <4>3. Place(t, used)
        BY <1>2
      <4>4. ASSUME pc[t] = "walk", ~overtaken[t]
            PROVE  cursor[t] = used2[nIndex[t] - left[t]]
        <5>1. nIndex[t] - left[t] \in 1..nQSize
          BY <1>4, <4>3, <4>4 DEF Place
        <5>2. QED BY <4>2, <4>3, <4>4, <5>1 DEF Place
      <4>5. QED BY <1>4, <2>4, <4>1, <4>3, <4>4 DEF Place
    <3>3. QED BY <3>1, <3>2
  <2>7. QED BY <2>4, <2>5, <2>6 DEF Goal
<1>9. ASSUME NEW c \in Consumers, GetPermit(c) PROVE TypeOK' /\ Goal
  <2>1. c \in Threads /\ "get" \in Labels
    BY DEF Threads, Labels
  <2>2. TypeOK'
    BY <1>1, <1>4, <1>9, <2>1 DEF GetPermit, Goto, TypeOK, lists
  <2>3. Place(c, used)'
    <3>1. nQSize > 0
      BY <1>1, <1>9, PermitGivesNode DEF GetPermit
    <3>2. /\ pc'[c] = "get" /\ overtaken' = overtaken /\ nQSize' = nQSize
          /\ \/ pc[c] = "idle" /\ nIndex'[c] = 1
             \/ pc[c] = "checked" /\ nIndex'[c] = nIndex[c]
      BY <1>1, <1>9, <2>1 DEF GetPermit, Goto, TypeOK, lists
    <3>3. Place(c, used)
      BY <1>2, <2>1
    <3>4. QED BY <1>4, <3>1, <3>2, <3>3 DEF Place
  <2>4. Goal
    BY <1>1, <1>2, <1>9, <2>1, <2>3, OthersStay DEF GetPermit, Goto, TypeOK, Goal
  <2>5. QED BY <2>2, <2>4
<1>10. ASSUME NEW c \in Consumers, GetNotReady(c) PROVE TypeOK' /\ Goal
  <2>1. c \in Threads /\ "idle" \in Labels
    BY DEF Threads, Labels
  <2>2. TypeOK'
    BY <1>1, <1>10, <2>1 DEF GetNotReady, Goto, TypeOK, lists
  <2>3. Place(c, used)'
    BY <1>1, <1>10, <2>1 DEF GetNotReady, Goto, TypeOK, Place
  <2>4. Goal
    BY <1>1, <1>2, <1>10, <2>1, <2>3, OthersStay DEF GetNotReady, Goto, TypeOK, Goal
  <2>5. QED BY <2>2, <2>4
<1>11. ASSUME NEW c \in Consumers, NEW i \in Indexes, GetIndexCheck(c, i) PROVE TypeOK' /\ Goal
  <2>1. c \in Threads /\ "checked" \in Labels
    BY DEF Threads, Labels
  <2>2. TypeOK'
    BY <1>1, <1>11, <2>1 DEF GetIndexCheck, Goto, TypeOK, lists
  <2>3. Place(c, used)'
    BY <1>1, <1>11, <2>1 DEF GetIndexCheck, InBounds, Goto, TypeOK, Place, lists
  <2>4. Goal
    BY <1>1, <1>2, <1>11, <2>1, <2>3, OthersStay DEF GetIndexCheck, Goto, TypeOK, Goal
  <2>5. QED BY <2>2, <2>4
<1>12. ASSUME NEW c \in Consumers, NEW i \in Peeks, AccessCheck(c, i) PROVE TypeOK' /\ Goal
  <2>1. c \in Threads /\ "head" \in Labels
    BY DEF Threads, Labels
  <2>2. TypeOK'
    BY <1>1, <1>12, <2>1 DEF AccessCheck, Goto, TypeOK, lists
  <2>3. Place(c, used)'
    BY <1>1, <1>12, <2>1 DEF AccessCheck, InBounds, Goto, TypeOK, Place, lists
  <2>4. Goal
    BY <1>1, <1>2, <1>12, <2>1, <2>3, OthersStay DEF AccessCheck, Goto, TypeOK, Goal
  <2>5. QED BY <2>2, <2>4
<1>13. ASSUME NEW c \in Consumers, AccessHead(c) PROVE TypeOK' /\ Goal
  <2>1. c \in Threads /\ "walk" \in Labels
    BY DEF Threads, Labels
  <2>2. TypeOK'
    <3>1. nIndex[c] - 1 \in Nat
      BY <1>4, <2>1
    <3>2. QED BY <1>1, <1>13, <2>1, <3>1 DEF AccessHead, Goto, TypeOK, lists
  <2>3. Place(c, used)'
    <3>1. /\ pc[c] = "head" /\ pc'[c] = "walk" /\ overtaken' = overtaken
          /\ nIndex' = nIndex /\ nQSize' = nQSize
          /\ cursor'[c] = pHead /\ left'[c] = nIndex[c] - 1
      BY <1>1, <1>13, <2>1 DEF AccessHead, Goto, TypeOK, lists
    <3>2. ~overtaken[c] => nIndex[c] <= nQSize
      BY <1>2, <2>1, <3>1 DEF Place
    <3>3. nIndex[c] - (nIndex[c] - 1) = 1
      BY <1>4, <2>1
    <3>4. QED BY <1>4, <1>5, <2>1, <3>1, <3>2, <3>3 DEF Place
  <2>4. Goal
    BY <1>1, <1>2, <1>13, <2>1, <2>3, OthersStay DEF AccessHead, Goto, TypeOK, Goal
  <2>5. QED BY <2>2, <2>4
<1>14. ASSUME NEW c \in Consumers, AccessWalk(c) PROVE TypeOK' /\ Goal
  <2>1. c \in Threads
    BY DEF Threads
  <2>2. left[c] - 1 \in Nat /\ NextNode[cursor[c]] \in Nodes \cup {NULL}
    BY <1>1, <1>4, <1>14, <2>1 DEF AccessWalk, TypeOK
  <2>3. TypeOK'
    BY <1>1, <1>14, <2>1, <2>2 DEF AccessWalk, TypeOK, lists
  <2>4. Place(c, used)'
    <3>1. /\ pc[c] = "walk" /\ pc' = pc /\ overtaken' = overtaken
          /\ nIndex' = nIndex /\ nQSize' = nQSize /\ left[c] > 0
          /\ cursor'[c] = NextNode[cursor[c]] /\ left'[c] = left[c] - 1
      BY <1>1, <1>14, <2>1 DEF AccessWalk, TypeOK, lists
    <3>2. CASE overtaken[c]
      BY <3>1, <3>2 DEF Place
    <3>3. CASE ~overtaken[c]
      <4> DEFINE k == nIndex[c] - left[c]
      <4>1. nIndex[c] <= nQSize /\ left[c] < nIndex[c] /\ cursor[c] = used[k]
        BY <1>2, <2>1, <3>1, <3>3 DEF Place
      <4>2. k \in 1..nQSize /\ k # nQSize /\ nIndex[c] - (left[c] - 1) = k + 1
        BY <1>4, <2>1, <3>1, <4>1
      <4>3. NextNode[cursor[c]] = used[k + 1]
        BY <1>5, <4>1, <4>2
      <4>4. left[c] - 1 < nIndex[c]
        BY <1>4, <2>1, <4>1
      <4>5. QED BY <3>1, <4>1, <4>2, <4>3, <4>4 DEF Place
    <3>4. QED BY <3>2, <3>3
  <2>5. Goal
    BY <1>1, <1>2, <1>14, <2>1, <2>4, OthersStay DEF AccessWalk, TypeOK, Goal
  <2>6. QED BY <2>3, <2>5
<1>15. ASSUME NEW c \in Consumers, AccessCopy(c) PROVE TypeOK' /\ Goal
  <2>1. c \in Threads /\ {"badread", "idle"} \subseteq Labels
    BY DEF Threads, Labels
  <2>2. TypeOK'
    BY <1>1, <1>15, <2>1 DEF AccessCopy, Goto, TypeOK, lists
  <2>3. Place(c, used)'
    <3>1. /\ pc[c] = "walk" /\ overtaken' = overtaken
          /\ pc'[c] = IF cursor[c] = NULL THEN "badread" ELSE "idle"
      BY <1>1, <1>15, <2>1 DEF AccessCopy, Goto, TypeOK
    <3>2. ASSUME ~overtaken[c] PROVE cursor[c] # NULL
      <4>1. nIndex[c] - left[c] \in 1..nQSize /\ cursor[c] = used[nIndex[c] - left[c]]
        BY <1>2, <1>4, <2>1, <3>1, <3>2 DEF Place
      <4>2. QED BY <1>5, <4>1
    <3>3. QED BY <3>1, <3>2 DEF Place
  <2>4. Goal
    BY <1>1, <1>2, <1>15, <2>1, <2>3, OthersStay DEF AccessCopy, Goto, TypeOK, Goal
  <2>5. QED BY <2>2, <2>4
<1>16. ASSUME NEW c \in Consumers, GetLocked(c) PROVE TypeOK' /\ Goal
  <2>1. c \in Threads /\ {"fault", "idle"} \subseteq Labels
    BY DEF Threads, Labels
  <2>2. PICK used2 : used2 = Without(used, nQSize, nIndex[c])
    OBVIOUS
  <2>3. PICK free2 : free2 = Pushed(free, nFree, used[nIndex[c]])
    OBVIOUS
  <2> DEFINE Fault ==
               /\ nIndex[c] > nQSize
               /\ pc[c] = "get" /\ pc' = [pc EXCEPT ![c] = "fault"]
               /\ UNCHANGED <<lists, freeNodesSem, overtaken, usedNodesSem, nIndex, cursor, left>>
             Taken ==
               /\ nIndex[c] \in 1..nQSize
               /\ pc' = [pc EXCEPT ![c] = "idle"]
               /\ overtaken' = [t \in Threads |-> t # c \/ overtaken[t]]
               /\ UNCHANGED <<usedNodesSem, nIndex, cursor, left, pMsg>>
               /\ nQSize' = nQSize - 1 /\ freeNodesSem' = freeNodesSem + 1
               /\ NextNode' \in [Nodes -> Nodes \cup {NULL}]
               /\ {pFreeNodes, pHead, pTail}' \subseteq Nodes \cup {NULL}
               /\ Pool(used2, free2)'
  <2>4. Fault \/ Taken
    BY <1>1, <1>2, <1>16, <2>2, <2>3, TakeStep
  <2>5. CASE Fault
    <3>1. TypeOK'
      BY <1>1, <2>1, <2>5 DEF TypeOK, lists
    <3>2. Place(c, used)'
      <4>1. overtaken[c]
        BY <1>2, <1>4, <2>1, <2>5 DEF Place
      <4>2. QED BY <1>1, <2>1, <2>5, <4>1 DEF Place, TypeOK
    <3>3. Goal
      BY <1>1, <1>2, <2>1, <2>5, <3>2, OthersStay DEF TypeOK, Goal
    <3>4. QED BY <3>1, <3>3
  <2>6. CASE Taken
    <3>1. TypeOK'
      <4>1. freeNodesSem' \in 0..nMaxQSize
        <5>1. IsFiniteSet(Adding')
          BY QueueAssumption, FS_Subset DEF Adding
        <5>2. Cardinality(Adding') \in Nat
          BY <5>1, FS_CardinalityType
        <5>3. freeNodesSem' + Cardinality(Adding') + nQSize' = nMaxQSize
          BY <1>3 DEF SemaphoresExact
        <5>4. QED BY <1>1, <1>4, <2>6, <5>2, <5>3 DEF TypeOK
      <4>2. nQSize' \in 0..nMaxQSize
        BY <1>4, <2>6
      <4>3. QED
        BY <1>1, <2>1, <2>6, <4>1, <4>2 DEF TypeOK
    <3>2. ASSUME NEW t \in Threads PROVE Place(t, used2)'
      <4>1. CASE t = c
        BY <1>1, <2>6, <4>1 DEF Place, TypeOK
      <4>2. CASE t # c
        <5>1. overtaken'[t] /\ pc'[t] = pc[t]
          BY <1>1, <2>6, <4>2 DEF TypeOK
        <5>2. Place(t, used)
          BY <1>2
        <5>3. QED BY <5>1, <5>2 DEF Place
      <4>3. QED BY <4>1, <4>2
    <3>3. QED BY <2>6, <3>1, <3>2 DEF Goal
  <2>7. QED BY <2>4, <2>5, <2>6
<1>17. CASE UNCHANGED vars
  <2>1. TypeOK'
    BY <1>1, <1>17 DEF vars, lists, TypeOK
  <2>2. Pool(used, free)'
    BY <1>2, <1>17, PoolUnchanged DEF vars
  <2>3. \A t \in Threads : Place(t, used)'
    BY <1>2, <1>17 DEF vars, lists, Place
  <2>4. QED BY <1>3, <2>1, <2>2, <2>3 DEF ListInv
<1>18. (TypeOK' /\ Goal) \/ UNCHANGED vars
  BY <1>7, <1>8, <1>9, <1>10, <1>11, <1>12, <1>13, <1>14, <1>15, <1>16
  DEF Next, Add, Get, Access
<1>19. QED
  BY <1>3, <1>17, <1>18 DEF ListInv, Goal

-----------------------------------------------------------------------------
(* What the invariant says of the runs' properties *)

\* The variables keep their types: in particular nQSize and the semaphores stay
\* between 0 and the capacity.
THEOREM TypesKept == Spec => []TypeOK
<1>1. ListInv => TypeOK
  BY DEF ListInv
<1>2. QED
  BY <1>1, ListInit, ListNext, PTL DEF Spec

\* The used and the free list are a partition of the pool and end in NULL,
\* nQSize is the length of the used one and pTail its last node, whatever the
\* threads do.
THEOREM ListsAlwaysWellFormed == Spec => []ListsWellFormed
<1>1. ListInv => ListsWellFormed
  <2> SUFFICES ASSUME ListInv PROVE ListsWellFormed
    OBVIOUS
  <2>1. TypeOK
    BY DEF ListInv
  <2>2. PICK used, free : Pool(used, free)
    BY DEF ListInv
  <2> DEFINE n == nQSize
             m == nFree
  <2>3. /\ n \in 0..nMaxQSize /\ m \in 0..nMaxQSize /\ nMaxQSize \in Nat
        /\ n <= nMaxQSize /\ m <= nMaxQSize /\ n \in Nat /\ m \in Nat
    BY <2>1, QueueAssumption DEF TypeOK, nFree
  <2>4. /\ NextNode \in [Nodes -> Nodes \cup {NULL}]
        /\ pHead \in Nodes \cup {NULL} /\ pFreeNodes \in Nodes \cup {NULL}
    BY <2>1 DEF TypeOK
  <2>5. Linked(used, n, NextNode, pHead) /\ Linked(free, m, NextNode, pFreeNodes)
    BY <2>2 DEF Pool
  <2>6. /\ \A x : x \in Chain(pHead) <=> \E i \in 1..n : x = used[i]
        /\ Cardinality(Chain(pHead)) = n
    BY <2>3, <2>4, <2>5, LinkedChain
  <2>7. \A x : x \in Chain(pFreeNodes) <=> \E j \in 1..m : x = free[j]
    BY <2>3, <2>4, <2>5, LinkedChain
  <2>8. Chain(pHead) \cap Chain(pFreeNodes) = {}
    BY <2>2, <2>6, <2>7 DEF Pool
  <2>9. Chain(pHead) \cup Chain(pFreeNodes) = Nodes
    <3>1. \A x : x \in Chain(pHead) \cup Chain(pFreeNodes) => x \in Nodes
      BY <2>5, <2>6, <2>7 DEF Linked
    <3>2. \A x \in Nodes : x \in Chain(pHead) \cup Chain(pFreeNodes)
      BY <2>2, <2>6, <2>7 DEF Pool
    <3>3. QED BY <3>1, <3>2
  <2>10. Follow(NextNode, pHead)[nMaxQSize] = NULL
    BY <2>3, <2>4, <2>5, LinkedWalk
  <2>11. Follow(NextNode, pFreeNodes)[nMaxQSize] = NULL
    BY <2>3, <2>4, <2>5, LinkedWalk
  <2>12. IF pHead = NULL THEN pTail = NULL
         ELSE pTail \in Chain(pHead) /\ NextNode[pTail] = NULL
    <3>1. CASE n = 0
      BY <2>2, <2>5, <3>1 DEF Pool, Linked
    <3>2. CASE n # 0
      <4>1. n \in 1..n /\ pTail = used[n]
        BY <2>2, <2>3, <3>2 DEF Pool
      <4>2. pTail \in Chain(pHead)
        BY <2>6, <4>1
      <4>3. NextNode[pTail] = NULL
        BY <2>5, <4>1 DEF Linked
      <4>4. pHead # NULL
        BY <2>3, <2>5, <3>2 DEF Linked, Nodes, NULL
      <4>5. QED BY <4>2, <4>3, <4>4
    <3>3. QED BY <3>1, <3>2
  <2>13. QED
    BY <2>6, <2>8, <2>9, <2>10, <2>11, <2>12 DEF ListsWellFormed
<1>2. QED
  BY <1>1, ListInit, ListNext, PTL DEF Spec

\* QUEUE_OVERFLOW is never returned after a wait on a semaphore, and a NULL node
\* is dereferenced only by a thread whose message another thread took.
THEOREM FaultsOnlyWhenOvertaken == Spec => []NoFault
<1>1. ListInv => NoFault
  BY DEF ListInv, Place, NoFault
<1>2. QED
  BY <1>1, ListInit, ListNext, PTL DEF Spec

-----------------------------------------------------------------------------
(* The linked list implements the bounded sequence *)

LEMMA FunctionIsSeq ==
    ASSUME NEW S, NEW n \in Nat, NEW f \in [1..n -> S]
    PROVE  f \in Seq(S) /\ Len(f) = n
<1>1. f \in Seq(S)
  BY SeqDef
<1>2. QED
  BY <1>1, LenProperties

\* The messages of the queue are those of the nodes of the used list.
MessagesAre(used) ==
    /\ messages = [k \in 1..nQSize |-> pMsg[used[k]]]
    /\ messages \in Seq(Msgs) /\ Len(messages) = nQSize

LEMMA MessagesOf == \A used, free : TypeOK /\ Pool(used, free) => MessagesAre(used)
<1> SUFFICES ASSUME NEW used, NEW free, TypeOK, Pool(used, free) PROVE MessagesAre(used)
  OBVIOUS
<1>1. ASSUME NEW k \in 1..nQSize PROVE Follow(NextNode, pHead)[k - 1] = used[k]
  <2>1. k - 1 \in Nat /\ k - 1 < nQSize /\ (k - 1) + 1 = k /\ nQSize \in Nat
    BY UsedList
  <2>2. QED BY <2>1, UsedList
<1>2. messages = [k \in 1..nQSize |-> pMsg[used[k]]]
  BY <1>1 DEF messages
<1>3. nQSize \in Nat /\ used \in [1..nQSize -> Nodes]
  BY UsedList
<1>4. messages \in [1..nQSize -> Msgs]
  BY <1>2, <1>3 DEF TypeOK
<1>5. QED BY <1>2, <1>3, <1>4, FunctionIsSeq DEF MessagesAre

LEMMA MessagesOfNext == (\A used, free : TypeOK /\ Pool(used, free) => MessagesAre(used))'
BY MessagesOf, PTL

LEMMA AddPuts ==
    ASSUME ListInv, ListInv', NEW p \in Producers, NEW m \in Msgs, AddLocked(p, m)
    PROVE  Fifo!Put(m)
<1>1. TypeOK /\ SemaphoresExact /\ TypeOK'
  BY DEF ListInv
<1>2. PICK used, free : Pool(used, free)
  BY DEF ListInv
<1>3. PICK used2 : used2 = Longer(used, nQSize, pFreeNodes)
  OBVIOUS
<1>4. PICK free2 : free2 = Without(free, nFree, 1)
  OBVIOUS
<1>5. /\ Pool(used2, free2)'
      /\ nQSize < nMaxQSize
      /\ pFreeNodes \in Nodes /\ \A i \in 1..nQSize : used[i] # pFreeNodes
      /\ pMsg' = [pMsg EXCEPT ![pFreeNodes] = m]
      /\ nQSize' = nQSize + 1
  BY <1>1, <1>2, <1>3, <1>4, AddStep
<1>6. nQSize \in Nat /\ used \in [1..nQSize -> Nodes] /\ pMsg \in [Nodes -> Msgs]
  BY <1>1, <1>2, UsedList DEF TypeOK
<1>7. /\ messages = [k \in 1..nQSize |-> pMsg[used[k]]]
      /\ messages \in Seq(Msgs) /\ Len(messages) = nQSize
  BY <1>1, <1>2, MessagesOf DEF MessagesAre
<1>8. /\ messages' = [k \in 1..nQSize' |-> pMsg'[used2[k]]]
      /\ messages' \in Seq(Msgs) /\ Len(messages') = nQSize'
  BY <1>1, <1>5, MessagesOfNext DEF MessagesAre
<1>9. messages' = Append(messages, m)
  <2> DEFINE a == Append(messages, m)
  <2>1. /\ a \in Seq(Msgs) /\ Len(a) = nQSize + 1
        /\ \A i \in 1..nQSize : a[i] = messages[i]
        /\ a[nQSize + 1] = m
    <3>1. messages \in Seq(Msgs) /\ Len(messages) = nQSize
      BY <1>7
    <3>2. QED BY <3>1, AppendProperties
  <2>2. ASSUME NEW i \in 1..(nQSize + 1) PROVE messages'[i] = a[i]
    <3>1. messages'[i] = pMsg'[used2[i]]
      BY <1>5, <1>8
    <3>2. CASE i = nQSize + 1
      <4>1. used2[i] = pFreeNodes
        BY <1>3, <1>6, <3>2 DEF Longer
      <4>2. QED BY <1>5, <1>6, <2>1, <3>1, <3>2, <4>1
    <3>3. CASE i # nQSize + 1
      <4>1. i \in 1..nQSize /\ used2[i] = used[i]
        BY <1>3, <1>6, <3>3 DEF Longer
      <4>2. used[i] \in Nodes /\ used[i] # pFreeNodes
        BY <1>5, <1>6, <4>1
      <4>3. QED BY <1>5, <1>6, <1>7, <2>1, <3>1, <4>1, <4>2
    <3>4. QED BY <3>2, <3>3
  <2> HIDE DEF a
  <2>3. messages' = a
    BY <1>5, <1>8, <2>1, <2>2, SeqEqual
  <2>4. QED BY <2>3 DEF a
<1>10. QED
  BY <1>5, <1>7, <1>9 DEF Fifo!Put

LEMMA GetTakes ==
    ASSUME ListInv, ListInv', NEW c \in Consumers, GetLocked(c)
    PROVE  UNCHANGED messages \/ \E i \in 1..nMaxQSize : Fifo!TakeAt(i)
<1>1. TypeOK /\ SemaphoresExact /\ TypeOK'
  BY DEF ListInv
<1>2. PICK used, free : Pool(used, free)
  BY DEF ListInv
<1> DEFINE at == nIndex[c]
           n == nQSize
<1>3. PICK used2 : used2 = Without(used, n, at)
  OBVIOUS
<1>4. PICK free2 : free2 = Pushed(free, nFree, used[at])
  OBVIOUS
<1>5. \/ UNCHANGED lists
      \/ /\ at \in 1..n
         /\ nQSize' = n - 1 /\ UNCHANGED pMsg
         /\ Pool(used2, free2)'
  BY <1>1, <1>2, <1>3, <1>4, TakeStep
<1>6. CASE UNCHANGED lists
  BY <1>6 DEF messages, lists
<1>7. CASE at \in 1..n /\ nQSize' = n - 1 /\ UNCHANGED pMsg /\ Pool(used2, free2)'
  <2>1. n \in 0..nMaxQSize /\ nMaxQSize \in Nat /\ used \in [1..n -> Nodes]
    BY <1>1, <1>2, UsedList
  <2>2. /\ messages = [k \in 1..n |-> pMsg[used[k]]]
        /\ messages \in Seq(Msgs) /\ Len(messages) = n
    BY <1>1, <1>2, MessagesOf DEF MessagesAre
  <2>3. /\ messages' = [k \in 1..nQSize' |-> pMsg'[used2[k]]]
        /\ messages' \in Seq(Msgs) /\ Len(messages') = nQSize'
    BY <1>1, <1>7, MessagesOfNext DEF MessagesAre
  <2> HIDE DEF at, n
  <2> DEFINE a == SubSeq(messages, 1, at - 1)
             b == SubSeq(messages, at + 1, n)
  <2>4. /\ a \in Seq(Msgs) /\ Len(a) = at - 1
        /\ \A i \in 1..(at - 1) : a[i] = messages[i]
    <3>1. \A i \in 1..(at - 1) : messages[i] \in Msgs
      BY <1>7, <2>1, <2>2, ElementOfSeq
    <3>2. 1 \in Int /\ at - 1 \in Int /\ (at - 1) - 1 + 1 = at - 1
      BY <1>7, <2>1
    <3>3. /\ a \in Seq(Msgs)
          /\ Len(a) = IF 1 <= at - 1 THEN (at - 1) - 1 + 1 ELSE 0
          /\ \A i \in 1..((at - 1) - 1 + 1) : a[i] = messages[1 + i - 1]
      BY <3>1, <3>2, SubSeqProperties
    <3>4. QED BY <1>7, <2>1, <3>2, <3>3
  <2>5. /\ b \in Seq(Msgs) /\ Len(b) = n - at
        /\ \A i \in 1..(n - at) : b[i] = messages[at + i]
    <3>1. \A i \in (at + 1)..n : messages[i] \in Msgs
      BY <1>7, <2>1, <2>2, ElementOfSeq
    <3>2. at + 1 \in Int /\ n \in Int /\ n - (at + 1) + 1 = n - at
      BY <1>7, <2>1
    <3>3. /\ b \in Seq(Msgs)
          /\ Len(b) = IF at + 1 <= n THEN n - (at + 1) + 1 ELSE 0
          /\ \A i \in 1..(n - (at + 1) + 1) : b[i] = messages[at + 1 + i - 1]
      BY <3>1, <3>2, SubSeqProperties
    <3>4. QED BY <1>7, <2>1, <3>2, <3>3
  <2> HIDE DEF a, b
  <2>6. /\ a \o b \in Seq(Msgs) /\ Len(a \o b) = n - 1
        /\ \A i \in 1..(n - 1) : (a \o b)[i] = IF i < at THEN messages[i] ELSE messages[i + 1]
    <3>1. /\ a \o b \in Seq(Msgs) /\ Len(a \o b) = Len(a) + Len(b)
          /\ \A i \in 1..(Len(a) + Len(b)) :
                (a \o b)[i] = IF i <= Len(a) THEN a[i] ELSE b[i - Len(a)]
      BY <2>4, <2>5, ConcatProperties
    <3>2. Len(a) + Len(b) = n - 1
      BY <1>7, <2>1, <2>4, <2>5
    <3>3. ASSUME NEW i \in 1..(n - 1)
          PROVE  (a \o b)[i] = IF i < at THEN messages[i] ELSE messages[i + 1]
      <4>1. (a \o b)[i] = IF i <= at - 1 THEN a[i] ELSE b[i - (at - 1)]
        BY <2>4, <3>1, <3>2
      <4>2. CASE i < at
        <5>1. i \in 1..(at - 1) /\ i <= at - 1
          BY <1>7, <2>1, <4>2
        <5>2. QED BY <2>4, <4>1, <4>2, <5>1
      <4>3. CASE ~(i < at)
        <5>1. i - (at - 1) \in 1..(n - at) /\ ~(i <= at - 1) /\ at + (i - (at - 1)) = i + 1
          BY <1>7, <2>1, <4>3
        <5>2. QED BY <2>5, <4>1, <4>3, <5>1
      <4>4. QED BY <4>2, <4>3
    <3>4. QED BY <3>1, <3>2, <3>3
  <2>7. messages' = a \o b
    <3>1. ASSUME NEW i \in 1..(n - 1) PROVE messages'[i] = (a \o b)[i]
      <4>1. messages'[i] = pMsg[used2[i]]
        BY <1>7, <2>3
      <4>2. used2[i] = IF i < at THEN used[i] ELSE used[i + 1]
        BY <1>3 DEF Without
      <4>3. i \in 1..n /\ i + 1 \in 1..n
        BY <2>1
      <4>4. QED BY <2>2, <2>6, <4>1, <4>2, <4>3
    <3>2. QED BY <1>7, <2>3, <2>6, <3>1, SeqEqual
  <2>8. at \in 1..nMaxQSize
    BY <1>7, <2>1
  <2>9. Fifo!TakeAt(at)
    BY <1>7, <2>2, <2>7 DEF Fifo!TakeAt, a, b
  <2>10. QED BY <2>8, <2>9
<1>8. QED BY <1>5, <1>6, <1>7

\* Add is the abstract Put, Get and Get(nIndex) take the message at a position;
\* no other step of any thread changes what the queue holds.
THEOREM QueueImplementsFifo == Spec => ImplementsFifo
<1>1. Init => Fifo!Init
  <2> SUFFICES ASSUME Init PROVE messages = <<>>
    BY DEF Fifo!Init
  <2>1. nQSize = 0
    BY DEF Init
  <2>2. QED BY <2>1 DEF messages
<1>2. ListInv /\ ListInv' /\ [Next]_vars => [Fifo!Next]_messages
  <2> SUFFICES ASSUME ListInv, ListInv', [Next]_vars
               PROVE  Fifo!Next \/ UNCHANGED messages
    OBVIOUS
  <2>1. ASSUME NEW p \in Producers, NEW m \in Msgs, AddLocked(p, m) PROVE Fifo!Next
    BY <2>1, AddPuts DEF Fifo!Next
  <2>2. ASSUME NEW c \in Consumers, GetLocked(c) PROVE Fifo!Next \/ UNCHANGED messages
    BY <2>2, GetTakes DEF Fifo!Next
  <2>3. CASE UNCHANGED lists
    BY <2>3 DEF messages, lists
  <2>4. \/ \E p \in Producers, m \in Msgs : AddLocked(p, m)
        \/ \E c \in Consumers : GetLocked(c)
        \/ UNCHANGED lists
    BY DEF Next, Add, Get, Access, AddPermit, GetPermit, GetNotReady, GetIndexCheck,
           AccessCheck, AccessHead, AccessWalk, AccessCopy, vars
  <2>5. QED BY <2>1, <2>2, <2>3, <2>4
<1>3. QED
  BY <1>1, <1>2, ListInit, ListNext, PTL DEF Spec, ImplementsFifo, Fifo!Spec
=============================================================================
