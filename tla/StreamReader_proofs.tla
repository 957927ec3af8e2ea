-------------------------- MODULE StreamReader_proofs --------------------------
(***************************************************************************)
(* The cache and its reader for rings, blocks, streams and requests of any *)
(* size.  The offsets grow along the ring (Order), so that a node that     *)
(* holds the reader's offset keeps it while the thread drops earlier data  *)
(* and reads ahead; only a reset can take it away, and a reader that was   *)
(* told that its bytes are there has none pending (Found).                 *)
(***************************************************************************)
EXTENDS StreamReader, TLAPS

CacheTypes ==
    /\ nodes \in [Nodes -> [nOffset : Nat, nLength : 0..mBlockSize, nBase : Int]]
    /\ mStartNode \in Nodes /\ mEndNode \in Nodes /\ mPlayNode \in Nodes
    /\ mOffsetStart \in Nat /\ mOffsetEnd \in Nat /\ mContentLength \in Nat
    /\ mResetTargetOffset \in Nat /\ pos \in 0..Ends
    /\ bReset \in BOOLEAN /\ bStreamEOS \in BOOLEAN /\ bSeekable \in BOOLEAN
    /\ mProtocolError \in BOOLEAN /\ bStopThread \in BOOLEAN
    /\ bServes \in BOOLEAN /\ bLocalhost \in Hosts /\ urlLength \in Lengths
    /\ down \in BOOLEAN /\ cut \in BOOLEAN
    /\ at \in {"open", "length", "probe", "rewind", "loop", "seek", "fill", "read", "reseek",
               "exit"}

ReaderTypes ==
    /\ cpc \in {"idle", "check", "find", "read", "find again", "copy", "locked", "fault",
                "join", "closed"}
    /\ loading \in BOOLEAN /\ exact \in BOOLEAN
    /\ told \in {"ready", "hasty", "reset"}
    /\ aborts \in 0..MaxAborts
    /\ nOffset \in Nat /\ offset \in Nat /\ size \in Nat
    /\ nb \in Nat \ {0} /\ nSize \in Nat \ {0}
    /\ outcome \in {"none", "read", "ended", "failed", "refused", "broken"}

Early == {"open", "length", "probe", "rewind"}

\* Where the thread stands, and what the ring and the length are like there.
Stage ==
    /\ at \in Early => mOffsetEnd = 0 /\ mOffsetStart = 0 /\ mStartNode = mEndNode
    /\ at \in {"open", "length"} => mContentLength = 0
    /\ at = "seek" => mStartNode = mEndNode
    /\ at \in {"read", "reseek"} =>
         /\ Following(mEndNode) # mStartNode
         /\ mContentLength > 0 => mOffsetEnd < mContentLength

\* The offsets of the ring, whatever bytes it has.
Links ==
    /\ \A i \in Nodes : Filled(i) =>
         /\ nodes[i].nLength > 0
         /\ nodes[i].nOffset + nodes[i].nLength =
              IF Following(i) = mEndNode THEN mOffsetEnd ELSE nodes[Following(i)].nOffset
    /\ mOffsetStart = IF mStartNode = mEndNode THEN mOffsetEnd ELSE nodes[mStartNode].nOffset

Order == \A i, j \in Nodes : Filled(i) /\ Filled(j) /\ Behind(i) < Behind(j) =>
             nodes[i].nOffset + nodes[i].nLength <= nodes[j].nOffset

Bounds == \A i \in Nodes : Filled(i) =>
              /\ mOffsetStart <= nodes[i].nOffset
              /\ nodes[i].nOffset + nodes[i].nLength <= mOffsetEnd

Empties == \A i \in Nodes : ~Filled(i) => nodes[i].nLength = 0

Shape == Links /\ Order /\ Bounds /\ Empties

\* While it copies across a reset the reader may be anywhere.
PlayInRing == cpc # "locked" => Filled(mPlayNode) \/ mPlayNode = mStartNode

Reading == {"read", "find again", "copy"}

\* What a call of the reader has done so far.
Calls ==
    /\ cpc \in Reading \cup {"check", "find", "locked"} => outcome = "none"
    /\ cpc = "check" => nSize >= nb
    /\ cpc = "find" => nSize >= Clamped(nb)
    /\ cpc = "read" => nSize = nb
    /\ cpc = "locked" => size > 0
    /\ cpc \in Reading \cup {"locked"} /\ told # "reset" => ~bReset
    /\ cpc = "fault" => told = "reset"
    /\ outcome = "broken" => told # "ready"

\* What the reader was told stays true: its bytes, or all that the stream still
\* has, are in the ring, from mPlayNode on.
Found ==
    /\ told = "ready" /\ cpc \in {"read", "find again"} => Holds(mPlayNode, nOffset)
    /\ told = "ready" /\ cpc = "read" => nOffset + Clamped(nb) <= mOffsetEnd
    /\ told = "ready" /\ cpc = "find again" => nOffset + nSize <= mOffsetEnd
    /\ told # "reset" /\ cpc = "copy" =>
         Holds(mPlayNode, nOffset) /\ nOffset + nSize <= mOffsetEnd
    /\ told # "reset" /\ cpc = "locked" =>
         /\ Filled(mPlayNode)
         /\ offset = nodes[mPlayNode].nOffset + nodes[mPlayNode].nLength
         /\ offset + size <= mOffsetEnd

IInv == CacheTypes /\ ReaderTypes /\ Stage /\ Shape /\ PlayInRing /\ Calls /\ Found

-----------------------------------------------------------------------------
(* The ring *)

LEMMA Modulo ==
    ASSUME NEW n \in Nat \ {0}, NEW x \in 0..n + n - 1
    PROVE  x % n = IF x < n THEN x ELSE x - n
OBVIOUS

\* Places on a ring that starts at s.
LEMMA Ring ==
    ASSUME NEW s \in Nodes, NEW i \in Nodes
    PROVE  /\ s <= i => (i + mBlockCnt - s) % mBlockCnt = i - s
           /\ ~(s <= i) => (i + mBlockCnt - s) % mBlockCnt = i + mBlockCnt - s
           /\ i + 1 = mBlockCnt => Following(i) = 0
           /\ i + 1 # mBlockCnt => Following(i) = i + 1
           /\ Following(i) \in Nodes
BY CacheAssumption DEF Nodes, Following

\* How far nodes are from the start, and the node that follows.
LEMMA Places ==
    ASSUME CacheTypes, NEW i \in Nodes
    PROVE  /\ Behind(i) \in Nat /\ Behind(i) < mBlockCnt /\ mBlockCnt \in Nat
           /\ mStartNode <= i => Behind(i) = i - mStartNode
           /\ ~(mStartNode <= i) => Behind(i) = i + mBlockCnt - mStartNode
           /\ Following(i) \in Nodes
           /\ Behind(mStartNode) = 0
           /\ Following(i) = mStartNode => Behind(Following(i)) = 0 /\ Behind(i) = mBlockCnt - 1
           /\ Following(i) # mStartNode => Behind(Following(i)) = Behind(i) + 1
<1>0. mStartNode \in Nodes /\ i \in 0..mBlockCnt - 1 /\ mStartNode \in 0..mBlockCnt - 1
      /\ mBlockCnt \in Nat \ {0, 1}
  BY CacheAssumption DEF CacheTypes, Nodes
<1>1. \A j \in Nodes : /\ mStartNode <= j => Behind(j) = j - mStartNode
                       /\ ~(mStartNode <= j) => Behind(j) = j + mBlockCnt - mStartNode
  BY <1>0, Ring DEF Behind
<1>2. /\ i + 1 = mBlockCnt => Following(i) = 0
      /\ i + 1 # mBlockCnt => Following(i) = i + 1
      /\ Following(i) \in Nodes
  BY Ring
<1>3. Behind(mStartNode) = 0
  BY <1>0, <1>1
<1>4. /\ mStartNode <= i => Behind(i) = i - mStartNode
      /\ ~(mStartNode <= i) => Behind(i) = i + mBlockCnt - mStartNode
      /\ mStartNode <= Following(i) => Behind(Following(i)) = Following(i) - mStartNode
      /\ ~(mStartNode <= Following(i)) =>
            Behind(Following(i)) = Following(i) + mBlockCnt - mStartNode
  BY <1>1, <1>2
<1>5. Behind(i) \in Nat /\ Behind(i) < mBlockCnt
  BY <1>0, <1>4
<1>6. CASE i + 1 = mBlockCnt
  BY <1>0, <1>2, <1>3, <1>4, <1>5, <1>6
<1>7. CASE i + 1 # mBlockCnt
  BY <1>0, <1>2, <1>3, <1>4, <1>5, <1>7
<1>8. QED BY <1>6, <1>7

LEMMA BehindOnce ==
    ASSUME CacheTypes, NEW i \in Nodes, NEW j \in Nodes, Behind(i) = Behind(j)
    PROVE  i = j
<1>0. /\ i \in 0..mBlockCnt - 1 /\ j \in 0..mBlockCnt - 1 /\ mStartNode \in 0..mBlockCnt - 1
      /\ mBlockCnt \in Nat \ {0, 1}
  BY CacheAssumption DEF CacheTypes, Nodes
<1>1. /\ mStartNode <= i => Behind(i) = i - mStartNode
      /\ ~(mStartNode <= i) => Behind(i) = i + mBlockCnt - mStartNode
      /\ mStartNode <= j => Behind(j) = j - mStartNode
      /\ ~(mStartNode <= j) => Behind(j) = j + mBlockCnt - mStartNode
  BY Places
<1>2. QED BY <1>0, <1>1

LEMMA FollowingOnce ==
    ASSUME NEW i \in Nodes, NEW j \in Nodes, Following(i) = Following(j)
    PROVE  i = j
<1>0. /\ i \in 0..mBlockCnt - 1 /\ j \in 0..mBlockCnt - 1
      /\ mBlockCnt \in Nat \ {0, 1}
  BY CacheAssumption DEF Nodes
<1>1. /\ i + 1 = mBlockCnt => Following(i) = 0
      /\ i + 1 # mBlockCnt => Following(i) = i + 1
      /\ j + 1 = mBlockCnt => Following(j) = 0
      /\ j + 1 # mBlockCnt => Following(j) = j + 1
  BY Ring
<1>2. QED BY <1>0, <1>1

\* After d nodes are dropped the others are d places nearer to the start.
LEMMA Dropped ==
    ASSUME CacheTypes, NEW d \in Nat, d < mBlockCnt, mStartNode' = (mStartNode + d) % mBlockCnt
    PROVE  /\ mStartNode' \in Nodes
           /\ Behind(mStartNode') = d
           /\ \A i \in Nodes : /\ Behind(i) >= d => Behind(i)' = Behind(i) - d
                               /\ Behind(i) < d => Behind(i)' = Behind(i) + mBlockCnt - d
<1>0. mStartNode \in 0..mBlockCnt - 1 /\ mBlockCnt \in Nat \ {0}
  BY CacheAssumption DEF CacheTypes, Nodes
<1>1. /\ mStartNode + d < mBlockCnt => mStartNode' = mStartNode + d
      /\ ~(mStartNode + d < mBlockCnt) => mStartNode' = mStartNode + d - mBlockCnt
  <2>1. PICK x \in 0..mBlockCnt + mBlockCnt - 1 : x = mStartNode + d
    BY <1>0
  <2>2. mStartNode' = x % mBlockCnt
    BY <2>1
  <2>3. x % mBlockCnt = IF x < mBlockCnt THEN x ELSE x - mBlockCnt
    BY <1>0, Modulo
  <2>4. QED BY <1>0, <2>1, <2>2, <2>3
<1>2. mStartNode' \in Nodes
  BY <1>0, <1>1 DEF Nodes
<1>3. \A i \in Nodes : /\ mStartNode' <= i => Behind(i)' = i - mStartNode'
                       /\ ~(mStartNode' <= i) => Behind(i)' = i + mBlockCnt - mStartNode'
  BY <1>2, Ring DEF Behind
<1>4. Behind(mStartNode') = d
  <2>1. /\ mStartNode <= mStartNode' => Behind(mStartNode') = mStartNode' - mStartNode
        /\ ~(mStartNode <= mStartNode') =>
              Behind(mStartNode') = mStartNode' + mBlockCnt - mStartNode
    BY <1>2, Places
  <2>2. QED BY <2>1, <1>0, <1>1
<1>5. ASSUME NEW i \in Nodes
      PROVE  /\ Behind(i) >= d => Behind(i)' = Behind(i) - d
             /\ Behind(i) < d => Behind(i)' = Behind(i) + mBlockCnt - d
  <2>1. /\ mStartNode <= i => Behind(i) = i - mStartNode
        /\ ~(mStartNode <= i) => Behind(i) = i + mBlockCnt - mStartNode
    BY Places
  <2>2. i \in 0..mBlockCnt - 1
    BY DEF Nodes
  <2>3. QED BY <2>1, <2>2, <1>0, <1>1, <1>3
<1>6. QED BY <1>2, <1>4, <1>5

\* An empty ring is in order.
LEMMA ResetShape ==
    ASSUME CacheTypes, NEW o \in Nat, ResetCache(o)
    PROVE  Shape' /\ \A i \in Nodes : ~Filled(i)'
<1>1. /\ mStartNode' = 0 /\ mEndNode' = 0
      /\ mOffsetStart' = o /\ mOffsetEnd' = o
      /\ \A i \in Nodes : nodes'[i].nLength = 0
  BY DEF ResetCache, Node
<1>2. 0 \in Nodes
  BY CacheAssumption DEF Nodes
<1>3. \A i \in Nodes : Behind(i)' = i /\ i >= 0
  <2>1. \A i \in Nodes : 0 <= i => Behind(i)' = i - 0
    BY <1>1, <1>2, Ring DEF Behind
  <2>2. QED BY <2>1 DEF Nodes
<1>4. \A i \in Nodes : ~Filled(i)'
  BY <1>1, <1>2, <1>3 DEF Filled, Nodes
<1>5. QED BY <1>1, <1>4 DEF Shape, Links, Order, Bounds, Empties

\* How many nodes are dropped: none, or some of those behind mPlayNode, which
\* stays in the ring.
LEMMA DropsBehindPlay ==
    ASSUME CacheTypes, PlayInRing, cpc # "locked"
    PROVE  /\ Drop \in Nat
           /\ Drop <= Behind(mPlayNode)
           /\ Drop > 0 => Filled(mPlayNode)
<1>0. mEarlierDataMinBlockCnt \in Nat
  BY CacheAssumption
<1>1. Behind(mPlayNode) \in Nat /\ Behind(mStartNode) = 0
  BY Places DEF CacheTypes
<1>2. CASE Drop = 0
  BY <1>1, <1>2
<1>3. CASE Drop # 0
  <2>1. Drop = Behind(mPlayNode) - mEarlierDataMinBlockCnt
        /\ Behind(mPlayNode) > mEarlierDataMinBlockCnt
    BY <1>3 DEF Drop
  <2>2. mPlayNode # mStartNode
    BY <2>1, <1>0, <1>1
  <2>3. Filled(mPlayNode)
    BY <2>2 DEF PlayInRing
  <2>4. QED BY <2>1, <2>3, <1>0, <1>1
<1>4. QED BY <1>2, <1>3

\* What Fill does to the ring: the nodes from d places after the start on stay.
Trims(d) ==
    /\ mStartNode' \in Nodes /\ Behind(mStartNode') = d
    /\ mEndNode' = mEndNode /\ mOffsetEnd' = mOffsetEnd
    /\ d > 0 => mOffsetStart' = nodes[mStartNode'].nOffset
    /\ d = 0 => mOffsetStart' = mOffsetStart /\ mStartNode' = mStartNode
    /\ \A i \in Nodes :
         /\ Filled(i)' <=> Filled(i) /\ Behind(i) >= d
         /\ Filled(i)' => nodes'[i] = nodes[i] /\ Behind(i)' = Behind(i) - d
         /\ ~Filled(i)' => nodes'[i].nLength = 0

LEMMA FillTrims ==
    ASSUME CacheTypes, Shape, PlayInRing, cpc # "locked", Fill
    PROVE  \E d \in Nat : d <= Behind(mPlayNode) /\ (d > 0 => Filled(mPlayNode)) /\ Trims(d)
<1>0. /\ mStartNode \in Nodes /\ mEndNode \in Nodes /\ mPlayNode \in Nodes
      /\ DOMAIN nodes = Nodes
  BY DEF CacheTypes
<1>1. /\ Behind(mStartNode) = 0 /\ mBlockCnt \in Nat /\ mBlockCnt > 0
      /\ \A i \in Nodes : Behind(i) \in Nat /\ Behind(i) < mBlockCnt
  BY <1>0, Places, CacheAssumption
<1>2. CASE AtEnd
  <2>1. UNCHANGED ring
    BY <1>2 DEF Fill
  <2>2. \A i \in Nodes : /\ Behind(i)' = Behind(i)
                         /\ Filled(i)' <=> Filled(i)
                         /\ nodes'[i] = nodes[i]
    BY <2>1 DEF ring, Behind, Filled
  <2>3. \A i \in Nodes : ~Filled(i) => nodes[i].nLength = 0
    BY DEF Shape, Empties
  <2>4. Trims(0)
    <3>1. mStartNode' = mStartNode /\ mEndNode' = mEndNode /\ mOffsetEnd' = mOffsetEnd
          /\ mOffsetStart' = mOffsetStart
      BY <2>1 DEF ring
    <3>2. ASSUME NEW i \in Nodes
          PROVE /\ Filled(i)' <=> Filled(i) /\ Behind(i) >= 0
                /\ Filled(i)' => nodes'[i] = nodes[i] /\ Behind(i)' = Behind(i) - 0
                /\ ~Filled(i)' => nodes'[i].nLength = 0
      <4>1. Behind(i) \in Nat
        BY <1>1
      <4>2. Behind(i)' = Behind(i) /\ (Filled(i)' <=> Filled(i)) /\ nodes'[i] = nodes[i]
        BY <2>2
      <4>3. ~Filled(i) => nodes[i].nLength = 0
        BY <2>3
      <4>4. QED BY <4>1, <4>2, <4>3
    <3>3. QED BY <1>0, <1>1, <3>1, <3>2 DEF Trims
  <2>5. QED BY <1>0, <1>1, <2>4
<1>3. CASE ~AtEnd
  <2>1. PICK d \in Nat : d = Drop /\ d <= Behind(mPlayNode) /\ (d > 0 => Filled(mPlayNode))
    BY DropsBehindPlay
  <2>2. /\ mStartNode' = (mStartNode + d) % mBlockCnt
        /\ mOffsetStart' = IF d > 0 THEN nodes[mStartNode'].nOffset ELSE mOffsetStart
        /\ mEndNode' = mEndNode /\ mOffsetEnd' = mOffsetEnd
    BY <1>3, <2>1 DEF Fill
  <2>3. ASSUME NEW i \in Nodes
        PROVE  /\ i # mEndNode /\ Behind(i) >= d => nodes'[i] = nodes[i]
               /\ Behind(i) < d => nodes'[i].nLength = 0
               /\ nodes'[i].nLength = nodes[i].nLength \/ nodes'[i].nLength = 0
    <3> DEFINE kept == [k \in Nodes |-> IF Behind(k) < d THEN Node(0, 0, nodes[k].nBase)
                                        ELSE nodes[k]]
    <3>1. nodes' = kept \/ nodes' = [kept EXCEPT ![mEndNode] = Node(mOffsetEnd, 0, Garbage)]
      BY <1>3, <2>1 DEF Fill
    <3>2. /\ Behind(i) < d => kept[i].nLength = 0
          /\ Behind(i) >= d => kept[i] = nodes[i]
      BY <1>1, <2>1 DEF Node
    <3>3. nodes'[i] = kept[i] \/ (i = mEndNode /\ nodes'[i].nLength = 0)
      <4>1. DOMAIN kept = Nodes
        OBVIOUS
      <4> HIDE DEF kept
      <4>2. CASE i = mEndNode
        <5>1. nodes' = kept \/ nodes'[i] = Node(mOffsetEnd, 0, Garbage)
          BY <3>1, <4>1, <4>2
        <5>2. QED BY <5>1, <4>2 DEF Node
      <4>3. CASE i # mEndNode
        BY <3>1, <4>1, <4>3
      <4>4. QED BY <4>2, <4>3
    <3> HIDE DEF kept
    <3>4. Behind(i) < d \/ Behind(i) >= d
      BY <1>1, <2>1
    <3>5. QED BY <3>2, <3>3, <3>4
  <2>4. d < mBlockCnt
    BY <2>1, <1>0, <1>1
  <2>5. /\ mStartNode' \in Nodes /\ Behind(mStartNode') = d
        /\ \A i \in Nodes : /\ Behind(i) >= d => Behind(i)' = Behind(i) - d
                            /\ Behind(i) < d => Behind(i)' = Behind(i) + mBlockCnt - d
    BY <2>2, <2>4, Dropped
  <2>6. d <= Behind(mEndNode)
    BY <2>1, <1>0, <1>1 DEF Filled
  <2>7. Behind(mEndNode)' = Behind(mEndNode) - d
    <3>1. PICK e \in Nodes : e = mEndNode
      BY <1>0
    <3>2. Behind(mEndNode)' = Behind(e)'
      BY <3>1, <2>2 DEF Behind
    <3>3. Behind(e) >= d
      BY <3>1, <2>6
    <3>4. QED BY <3>1, <3>2, <3>3, <2>5
  <2>8. ASSUME NEW i \in Nodes
        PROVE  /\ Filled(i)' <=> Filled(i) /\ Behind(i) >= d
               /\ Filled(i)' => nodes'[i] = nodes[i] /\ Behind(i)' = Behind(i) - d
               /\ ~Filled(i)' => nodes'[i].nLength = 0
    <3>1. /\ Behind(i) \in Nat /\ Behind(mEndNode) \in Nat
          /\ Behind(i) < mBlockCnt /\ Behind(mEndNode) < mBlockCnt
      BY <1>0, <1>1
    <3> /\ Behind(i) >= d => Behind(i)' = Behind(i) - d
        /\ Behind(i) < d => Behind(i)' = Behind(i) + mBlockCnt - d
      BY <2>5
    <3>2. Filled(i)' <=> Filled(i) /\ Behind(i) >= d
      BY <1>1, <3>1, <2>1, <2>6, <2>7 DEF Filled
    <3>3. Filled(i) => i # mEndNode
      BY <3>1 DEF Filled
    <3>4. ~Filled(i) => nodes[i].nLength = 0
      BY DEF Shape, Empties
    <3>5. Behind(i) < d \/ Behind(i) >= d
      BY <3>1
    <3>6. QED BY <3>1, <3>2, <3>3, <3>4, <3>5, <2>3
  <2>9. d = 0 => mStartNode' = mStartNode
    BY <2>5, <1>0, <1>1, BehindOnce
  <2>10. Trims(d)
    BY <2>1, <2>2, <2>5, <2>8, <2>9 DEF Trims
  <2>11. QED BY <2>1, <2>10
<1>4. QED BY <1>2, <1>3

\* A node that is filled still is, with the same data, if it is not dropped.
LEMMA TrimKeeps ==
    ASSUME CacheTypes, NEW d \in Nat, d <= Behind(mPlayNode), d > 0 => Filled(mPlayNode), Trims(d),
           mPlayNode' = mPlayNode
    PROVE  /\ Filled(mPlayNode) => Filled(mPlayNode)' /\ nodes'[mPlayNode] = nodes[mPlayNode]
           /\ mPlayNode = mStartNode => mPlayNode = mStartNode'
<1>1. mPlayNode \in Nodes /\ mStartNode \in Nodes /\ Behind(mStartNode) = 0
  BY Places DEF CacheTypes
<1>2. Filled(mPlayNode) => Filled(mPlayNode)' /\ nodes'[mPlayNode] = nodes[mPlayNode]
  <2>1. PICK i \in Nodes : i = mPlayNode
    BY <1>1
  <2>2. Filled(mPlayNode)' <=> Filled(i)'
    BY <2>1 DEF Filled, Behind
  <2>3. QED BY <2>1, <2>2 DEF Trims
<1>3. ASSUME mPlayNode = mStartNode PROVE mPlayNode = mStartNode'
  <2>1. d = 0
    BY <1>1, <1>3
  <2>2. QED BY <2>1, <1>3 DEF Trims
<1>4. QED BY <1>2, <1>3

\* Dropping keeps the ring in order.
LEMMA TrimShape ==
    ASSUME CacheTypes, Shape, NEW d \in Nat, d <= Behind(mPlayNode), d > 0 => Filled(mPlayNode),
           Trims(d)
    PROVE  Shape'
<1>1. /\ mPlayNode \in Nodes /\ mEndNode \in Nodes /\ mStartNode \in Nodes
      /\ mStartNode' \in Nodes /\ Behind(mStartNode') = d
      /\ mEndNode' = mEndNode /\ mOffsetEnd' = mOffsetEnd
  BY DEF CacheTypes, Trims
<1>2. \A i \in Nodes : /\ Behind(i) \in Nat /\ Behind(i) < mBlockCnt /\ mBlockCnt \in Nat
                       /\ Following(i) \in Nodes
                       /\ Following(i) = mStartNode => Behind(i) = mBlockCnt - 1
                       /\ Following(i) # mStartNode => Behind(Following(i)) = Behind(i) + 1
  BY Places
<1>3. ASSUME NEW i \in Nodes
      PROVE  /\ Filled(i)' <=> Filled(i) /\ Behind(i) >= d
             /\ Filled(i)' => nodes'[i] = nodes[i] /\ Behind(i)' = Behind(i) - d
             /\ ~Filled(i)' => nodes'[i].nLength = 0
  BY DEF Trims
<1>4. Order'
  <2>1. ASSUME NEW i \in Nodes, NEW j \in Nodes, Filled(i)', Filled(j)', Behind(i)' < Behind(j)'
        PROVE  nodes'[i].nOffset + nodes'[i].nLength <= nodes'[j].nOffset
    <3>1. Filled(i) /\ Filled(j) /\ nodes'[i] = nodes[i] /\ nodes'[j] = nodes[j]
          /\ Behind(i) < Behind(j)
      BY <2>1, <1>3, <1>2
    <3>2. QED BY <3>1 DEF Shape, Order
  <2>2. QED BY <2>1 DEF Order
<1>5. Empties'
  BY <1>3 DEF Empties
<1>6. ASSUME NEW i \in Nodes, Filled(i)'
      PROVE  /\ nodes'[i].nLength > 0
             /\ nodes'[i].nOffset + nodes'[i].nLength =
                   IF Following(i) = mEndNode' THEN mOffsetEnd' ELSE nodes'[Following(i)].nOffset
  <2>1. Filled(i) /\ nodes'[i] = nodes[i] /\ Behind(i) >= d
    BY <1>6, <1>3
  <2>2. /\ nodes[i].nLength > 0
        /\ nodes[i].nOffset + nodes[i].nLength =
              IF Following(i) = mEndNode THEN mOffsetEnd ELSE nodes[Following(i)].nOffset
    BY <2>1 DEF Shape, Links
  <2>3. ASSUME Following(i) # mEndNode
        PROVE  nodes'[Following(i)] = nodes[Following(i)]
    <3>1. Behind(i) < Behind(mEndNode) /\ Behind(mEndNode) < mBlockCnt
      BY <2>1, <1>1, <1>2 DEF Filled
    <3>2. Following(i) \in Nodes /\ Behind(Following(i)) = Behind(i) + 1
      BY <3>1, <1>1, <1>2
    <3>3. Behind(Following(i)) # Behind(mEndNode)
      BY <2>3, <3>2, <1>1, BehindOnce
    <3>4. Filled(Following(i)) /\ Behind(Following(i)) >= d
      BY <3>1, <3>2, <3>3, <2>1, <1>1, <1>2 DEF Filled
    <3>5. QED BY <3>2, <3>4, <1>3
  <2>4. QED BY <2>1, <2>2, <2>3, <1>1
<1>7. CASE d = 0
  <2>1. mStartNode' = mStartNode /\ mOffsetStart' = mOffsetStart
    BY <1>7 DEF Trims
  <2>2. mOffsetStart' = IF mStartNode' = mEndNode' THEN mOffsetEnd' ELSE nodes'[mStartNode'].nOffset
    <3>1. CASE mStartNode = mEndNode
      BY <3>1, <2>1, <1>1 DEF Shape, Links
    <3>2. CASE mStartNode # mEndNode
      <4>1. Behind(mStartNode) # Behind(mEndNode)
        BY <3>2, <1>1, BehindOnce
      <4>2. Filled(mStartNode) /\ Behind(mStartNode) >= d
        BY <4>1, <2>1, <1>1, <1>2, <1>7 DEF Filled
      <4>3. nodes'[mStartNode] = nodes[mStartNode]
        BY <4>2, <1>1, <1>3
      <4>4. QED BY <4>3, <3>2, <2>1, <1>1 DEF Shape, Links
    <3>3. QED BY <3>1, <3>2
  <2>3. Links'
    BY <2>2, <1>6 DEF Links
  <2>4. Bounds'
    BY <2>1, <1>1, <1>3 DEF Shape, Bounds
  <2>5. QED BY <2>3, <2>4, <1>4, <1>5 DEF Shape
<1>8. CASE d > 0
  <2>1. Filled(mStartNode') /\ mStartNode' # mEndNode
    BY <1>1, <1>2, <1>8 DEF Filled
  <2>2. mOffsetStart' = nodes[mStartNode'].nOffset /\ nodes'[mStartNode'] = nodes[mStartNode']
    BY <1>8, <2>1, <1>1, <1>2, <1>3 DEF Trims
  <2>3. Links'
    BY <2>1, <2>2, <1>1, <1>6 DEF Links
  <2>4. ASSUME NEW i \in Nodes, Filled(i)'
        PROVE  /\ mOffsetStart' <= nodes'[i].nOffset
               /\ nodes'[i].nOffset + nodes'[i].nLength <= mOffsetEnd'
    <3>1. Filled(i) /\ nodes'[i] = nodes[i] /\ Behind(i) >= d
      BY <2>4, <1>3
    <3>2. nodes[i].nOffset + nodes[i].nLength <= mOffsetEnd'
      BY <3>1, <1>1 DEF Shape, Bounds
    <3>3. nodes[mStartNode'].nOffset \in Nat /\ nodes[mStartNode'].nLength \in Nat
          /\ nodes[i].nOffset \in Nat
      BY <1>1, CacheAssumption DEF CacheTypes
    <3>4. CASE i = mStartNode'
      BY <3>1, <3>2, <3>3, <3>4, <2>2
    <3>5. CASE i # mStartNode'
      <4>1. Behind(i) # d
        BY <3>5, <1>1, BehindOnce
      <4>2. Behind(mStartNode') < Behind(i)
        BY <4>1, <3>1, <1>1, <1>2
      <4>3. nodes[mStartNode'].nOffset + nodes[mStartNode'].nLength <= nodes[i].nOffset
        BY <4>2, <3>1, <2>1, <1>1 DEF Shape, Order
      <4>4. QED BY <4>3, <3>1, <3>2, <3>3, <2>2
    <3>6. QED BY <3>4, <3>5
  <2>5. Bounds'
    BY <2>4 DEF Bounds
  <2>6. QED BY <2>3, <2>5, <1>4, <1>5 DEF Shape
<1>9. QED BY <1>7, <1>8

\* A block that is read makes the ring one node longer.
LEMMA GrowShape ==
    ASSUME CacheTypes, Shape, Following(mEndNode) # mStartNode,
           NEW n \in 1..mBlockSize, NEW base \in Int,
           nodes' = [nodes EXCEPT ![mEndNode] = Node(mOffsetEnd, n, base)],
           mOffsetEnd' = mOffsetEnd + n, mEndNode' = Following(mEndNode),
           mStartNode' = mStartNode, mOffsetStart' = mOffsetStart
    PROVE  /\ Shape'
           /\ \A i \in Nodes : Filled(i) => i # mEndNode /\ Filled(i)' /\ nodes'[i] = nodes[i]
           /\ \A i \in Nodes : Filled(i)' => Filled(i) \/ i = mEndNode
<1>1. /\ mEndNode \in Nodes /\ mStartNode \in Nodes /\ mEndNode' \in Nodes
      /\ Behind(mEndNode') = Behind(mEndNode) + 1
      /\ \A i \in Nodes : Behind(i)' = Behind(i) /\ Behind(i) \in Nat /\ Following(i) \in Nodes
  BY Places DEF CacheTypes, Behind
<1>2. Behind(mEndNode)' = Behind(mEndNode) + 1
  BY <1>1 DEF Behind
<1>3. ASSUME NEW i \in Nodes
      PROVE  /\ Filled(i)' <=> Filled(i) \/ i = mEndNode
             /\ Filled(i) => i # mEndNode
             /\ i # mEndNode => nodes'[i] = nodes[i]
             /\ nodes[i].nOffset \in Nat /\ nodes[i].nLength \in Nat
  <2>1. Filled(i)' <=> Behind(i) < Behind(mEndNode) + 1
    BY <1>1, <1>2 DEF Filled
  <2>2. Filled(i) => i # mEndNode
    BY <1>1 DEF Filled
  <2>3. Behind(i) = Behind(mEndNode) => i = mEndNode
    BY <1>1, BehindOnce
  <2>4. Filled(i)' <=> Filled(i) \/ i = mEndNode
    BY <2>1, <2>3, <1>1 DEF Filled
  <2>5. QED BY <2>2, <2>4, CacheAssumption DEF CacheTypes
<1>4. /\ nodes'[mEndNode].nOffset = mOffsetEnd /\ nodes'[mEndNode].nLength = n
      /\ n \in Nat /\ n > 0 /\ mOffsetEnd \in Nat /\ mOffsetStart \in Nat
  BY <1>1, CacheAssumption DEF CacheTypes, Node
<1>5. mOffsetStart <= mOffsetEnd
  <2>1. CASE mStartNode = mEndNode
    BY <2>1, <1>4 DEF Shape, Links
  <2>2. CASE mStartNode # mEndNode
    <3>1. Behind(mStartNode) = 0 /\ Behind(mEndNode) # Behind(mStartNode)
      BY <2>2, <1>1, BehindOnce, Places
    <3>2. Filled(mStartNode)
      BY <3>1, <1>1 DEF Filled
    <3>3. QED BY <3>2, <1>1, <1>3, <1>4 DEF Shape, Bounds
  <2>3. QED BY <2>1, <2>2
<1>6. ASSUME NEW i \in Nodes, Filled(i)'
      PROVE  /\ nodes'[i].nLength > 0
             /\ nodes'[i].nOffset + nodes'[i].nLength =
                   IF Following(i) = mEndNode' THEN mOffsetEnd' ELSE nodes'[Following(i)].nOffset
  <2>1. CASE i = mEndNode
    BY <2>1, <1>4
  <2>2. CASE i # mEndNode
    <3>1. Filled(i) /\ nodes'[i] = nodes[i]
      BY <2>2, <1>6, <1>3
    <3>2. Following(i) # mEndNode'
      BY <2>2, <1>1, FollowingOnce
    <3>3. /\ nodes[i].nLength > 0
          /\ nodes[i].nOffset + nodes[i].nLength =
                IF Following(i) = mEndNode THEN mOffsetEnd ELSE nodes[Following(i)].nOffset
      BY <3>1 DEF Shape, Links
    <3>4. CASE Following(i) = mEndNode
      BY <3>1, <3>2, <3>3, <3>4, <1>4
    <3>5. CASE Following(i) # mEndNode
      <4>1. nodes'[Following(i)] = nodes[Following(i)]
        BY <3>5, <1>1, <1>3
      <4>2. QED BY <4>1, <3>1, <3>2, <3>3, <3>5
    <3>6. QED BY <3>4, <3>5
  <2>3. QED BY <2>1, <2>2
<1>7. mOffsetStart' = IF mStartNode' = mEndNode' THEN mOffsetEnd' ELSE nodes'[mStartNode'].nOffset
  <2>1. CASE mStartNode = mEndNode
    BY <2>1, <1>4 DEF Shape, Links
  <2>2. CASE mStartNode # mEndNode
    BY <2>2, <1>1, <1>3 DEF Shape, Links
  <2>3. QED BY <2>1, <2>2
<1>8. Links'
  BY <1>6, <1>7 DEF Links
<1>9. Bounds'
  <2>1. ASSUME NEW i \in Nodes, Filled(i)'
        PROVE  /\ mOffsetStart' <= nodes'[i].nOffset
               /\ nodes'[i].nOffset + nodes'[i].nLength <= mOffsetEnd'
    <3>1. CASE i = mEndNode
      BY <3>1, <1>4, <1>5
    <3>2. CASE i # mEndNode
      <4>1. Filled(i) /\ nodes'[i] = nodes[i]
        BY <3>2, <2>1, <1>3
      <4>2. mOffsetStart <= nodes[i].nOffset /\ nodes[i].nOffset + nodes[i].nLength <= mOffsetEnd
        BY <4>1 DEF Shape, Bounds
      <4>3. QED BY <4>1, <4>2, <1>3, <1>4
    <3>3. QED BY <3>1, <3>2
  <2>2. QED BY <2>1 DEF Bounds
<1>10. Order'
  <2>1. ASSUME NEW i \in Nodes, NEW j \in Nodes, Filled(i)', Filled(j)', Behind(i)' < Behind(j)'
        PROVE  nodes'[i].nOffset + nodes'[i].nLength <= nodes'[j].nOffset
    <3>1. Behind(i) < Behind(j)
      BY <2>1, <1>1
    <3>2. i # mEndNode /\ Filled(i) /\ nodes'[i] = nodes[i]
      <4>1. Behind(j) <= Behind(mEndNode)
        BY <2>1, <1>1, <1>3 DEF Filled
      <4>2. i # mEndNode
        BY <4>1, <3>1, <1>1
      <4>3. QED BY <4>2, <2>1, <1>3
    <3>3. CASE j = mEndNode
      BY <3>2, <3>3, <1>4 DEF Shape, Bounds
    <3>4. CASE j # mEndNode
      <4>1. Filled(j) /\ nodes'[j] = nodes[j]
        BY <3>4, <2>1, <1>3
      <4>2. QED BY <4>1, <3>1, <3>2 DEF Shape, Order
    <3>5. QED BY <3>3, <3>4
  <2>2. QED BY <2>1 DEF Order
<1>11. Empties'
  <2>1. ASSUME NEW i \in Nodes, ~Filled(i)' PROVE nodes'[i].nLength = 0
    <3>1. ~Filled(i) /\ nodes'[i] = nodes[i]
      BY <2>1, <1>3
    <3>2. QED BY <3>1 DEF Shape, Empties
  <2>2. QED BY <2>1 DEF Empties
<1>12. QED BY <1>3, <1>8, <1>9, <1>10, <1>11 DEF Shape

-----------------------------------------------------------------------------
(* Types *)

\* How much Read is asked for.
LEMMA ReadAmount ==
    ASSUME CacheTypes, Stage, at = "read"
    PROVE  Want \in 1..mBlockSize
<1>1. /\ mOffsetEnd \in Nat /\ mContentLength \in Nat /\ mBlockSize \in Nat \ {0}
      /\ mContentLength > 0 => mOffsetEnd < mContentLength
  BY CacheAssumption DEF CacheTypes, Stage
<1>2. QED BY <1>1 DEF Want

\* What ReadBlock does with n bytes, which are less than asked for only at the end of
\* the stream or what is taken for it.
Reads(n) ==
    /\ n \in 0..mBlockSize /\ pos + n \in 0..Ends
    /\ n < Want => pos + n = Ends \/ cut'
    /\ bStreamEOS' = (bStreamEOS \/ n < Want)
    /\ mContentLength' = LengthAtEnd(n, n < Want)
    /\ IF n > 0
       THEN /\ nodes' = [nodes EXCEPT ![mEndNode] = Node(mOffsetEnd, n, pos)]
            /\ mOffsetEnd' = mOffsetEnd + n
            /\ mEndNode' = Following(mEndNode)
       ELSE UNCHANGED <<nodes, mOffsetEnd, mEndNode>>
    /\ pos' = pos + n

LEMMA ReadBlockReads ==
    ASSUME CacheTypes, Stage, ReadBlock
    PROVE  \E n : Reads(n)
<1>1. Want \in 1..mBlockSize
  BY ReadAmount DEF ReadBlock
<1>2. mBlockSize \in Nat /\ Ends \in Nat /\ pos \in 0..Ends /\ cut \in BOOLEAN
  BY CacheAssumption DEF CacheTypes
<1>3. PICK n \in 0..Want :
        /\ \/ ~down /\ n = ToRead /\ UNCHANGED cut
           \/ down /\ GetHandleError /\ n <= ToRead /\ n < Want /\ cut' = TRUE
        /\ bStreamEOS' = (bStreamEOS \/ n < Want)
        /\ mContentLength' = LengthAtEnd(n, n < Want)
        /\ IF n > 0
           THEN /\ nodes' = [nodes EXCEPT ![mEndNode] = Node(mOffsetEnd, n, pos)]
                /\ mOffsetEnd' = mOffsetEnd + n
                /\ mEndNode' = Following(mEndNode)
           ELSE UNCHANGED <<nodes, mOffsetEnd, mEndNode>>
        /\ pos' = pos + n
  BY DEF ReadBlock
<1>4. n <= ToRead /\ (n < Want => n = ToRead \/ cut')
  BY <1>3, <1>2
<1>5. PICK want \in 1..mBlockSize : want = Want
  BY <1>1
<1>6. ToRead = IF want <= Ends - pos THEN want ELSE Ends - pos
  BY <1>5 DEF ToRead
<1>7. n \in 0..mBlockSize /\ pos + n \in 0..Ends /\ (n < Want => pos + n = Ends \/ cut')
  BY <1>2, <1>3, <1>4, <1>5, <1>6
<1>8. QED BY <1>3, <1>7 DEF Reads

LEMMA CacheTypesKept ==
    ASSUME IInv, [Next]_vars
    PROVE  CacheTypes'
<1> USE DEF IInv
<1>1. CASE Open
  BY <1>1 DEF Open, CacheTypes, ring, request, connection, server
<1>2. CASE GetContentLength
  BY <1>2, CacheAssumption DEF GetContentLength, CacheTypes, ring, request, connection, server
<1>3. CASE ProbeSeek
  <2> DEFINE target == IF mContentLength > 0 THEN mContentLength \div 2 ELSE Probe
  <2>1. target \in Nat
    BY CacheAssumption DEF CacheTypes
  <2> HIDE DEF target
  <2>2. PICK result \in {"None", "Terminated", "Unseekable", "Undefined"} :
           Seek(target, FALSE, result) /\ bSeekable' = (bSeekable /\ result # "Unseekable")
    BY <1>3 DEF ProbeSeek, target
  <2>3. pos' \in 0..Ends
    BY <2>1, <2>2, CacheAssumption DEF Seek, Moves, Refuses, CacheTypes
  <2>4. QED BY <1>3, <2>2, <2>3 DEF ProbeSeek, CacheTypes, ring, request, server
<1>4. CASE Rewind
  <2>1. pos' \in 0..Ends
    BY <1>4, CacheAssumption DEF Rewind, Seek, Moves, Refuses, CacheTypes
  <2>2. QED BY <1>4, <2>1 DEF Rewind, CacheTypes, ring, request, server
<1>5. CASE StopThread
  BY <1>5 DEF StopThread, CacheTypes, ring, request, connection, server
<1>6. CASE StartReset
  <2>1. 0 \in Nodes /\ mBlockSize \in Nat
    BY CacheAssumption DEF Nodes
  <2>2. nodes' \in [Nodes -> [nOffset : Nat, nLength : 0..mBlockSize, nBase : Int]]
    BY <1>6, <2>1 DEF StartReset, ResetCache, CacheTypes, Node
  <2>3. QED BY <1>6, <2>1, <2>2 DEF StartReset, ResetCache, CacheTypes, connection, server
<1>7. CASE EndReset
  <2>1. PICK result \in {"None", "Terminated", "Unseekable"} :
           /\ Seek(mOffsetStart, TRUE, result)
           /\ bSeekable' = (bSeekable /\ result # "Unseekable")
           /\ at' = NextAfterSeek(result)
    BY <1>7 DEF EndReset
  <2>2. pos' \in 0..Ends
    BY <2>1, CacheAssumption DEF Seek, Moves, Refuses, CacheTypes
  <2>3. QED BY <1>7, <2>1, <2>2 DEF EndReset, NextAfterSeek, CacheTypes, ring, request, server
<1>8. ASSUME Fill, cpc # "locked" PROVE CacheTypes'
  <2>1. mStartNode' \in Nodes
    BY <1>8, FillTrims DEF Trims
  <2>2. nodes' \in [Nodes -> [nOffset : Nat, nLength : 0..mBlockSize, nBase : Int]]
    <3> DEFINE kept == [i \in Nodes |-> IF Behind(i) < Drop THEN Node(0, 0, nodes[i].nBase)
                                        ELSE nodes[i]]
               N == [nOffset : Nat, nLength : 0..mBlockSize, nBase : Int]
    <3>1. CASE nodes' = nodes
      BY <3>1 DEF CacheTypes
    <3>2. kept \in [Nodes -> N] /\ Node(mOffsetEnd, 0, Garbage) \in N
      BY CacheAssumption DEF CacheTypes, Node, Garbage
    <3>3. \/ nodes' = nodes
          \/ nodes' = kept
          \/ nodes' = [kept EXCEPT ![mEndNode] = Node(mOffsetEnd, 0, Garbage)]
      BY <1>8 DEF Fill, ring
    <3> HIDE DEF kept, N
    <3>4. nodes' \in [Nodes -> N]
      BY <3>1, <3>2, <3>3 DEF N
    <3>5. QED BY <3>4 DEF N
  <2>3. mOffsetStart' \in Nat
    BY <1>8, <2>1 DEF Fill, ring, CacheTypes
  <2>4. at' \in {"loop", "read"} /\ bStreamEOS' \in BOOLEAN
    BY <1>8 DEF Fill, AtEnd, CacheTypes
  <2>5. UNCHANGED <<mEndNode, mOffsetEnd, mPlayNode, mContentLength, mResetTargetOffset, bReset,
                    bSeekable, mProtocolError, bStopThread, pos, bServes, bLocalhost, urlLength,
                    down, cut>>
    BY <1>8 DEF Fill, ring, request, connection, server
  <2>6. QED BY <2>1, <2>2, <2>3, <2>4, <2>5 DEF CacheTypes
<1>9. CASE ReadBlock
  <2>1. PICK n : Reads(n)
    BY <1>9, ReadBlockReads
  <2>2. /\ at' = "loop" /\ cut' \in BOOLEAN
        /\ UNCHANGED <<mStartNode, mOffsetStart, mPlayNode, mResetTargetOffset, bReset, bSeekable,
                       mProtocolError, bStopThread, bServes, bLocalhost, urlLength, down>>
    BY <1>9 DEF ReadBlock, request, server, CacheTypes
  <2>3. mContentLength' \in Nat /\ mOffsetEnd' \in Nat
    BY <2>1, CacheAssumption DEF Reads, LengthAtEnd, CacheTypes
  <2>4. mEndNode' \in Nodes
    BY <2>1, Places DEF Reads, CacheTypes
  <2>5. nodes' \in [Nodes -> [nOffset : Nat, nLength : 0..mBlockSize, nBase : Int]]
    BY <2>1, CacheAssumption DEF Reads, CacheTypes, Node
  <2>6. pos' \in 0..Ends /\ bStreamEOS' \in BOOLEAN
    BY <2>1 DEF Reads, CacheTypes
  <2>7. QED BY <2>2, <2>3, <2>4, <2>5, <2>6 DEF CacheTypes
<1>10. CASE ReadNothing
  <2>1. Want \in 1..mBlockSize /\ mBlockSize \in Nat
    BY <1>10, ReadAmount, CacheAssumption DEF ReadNothing
  <2>2. pos' \in 0..Ends
    <3>1. PICK n \in 0..Want : pos' = pos + n /\ pos' <= Ends
      BY <1>10 DEF ReadNothing
    <3>2. n \in Nat
      BY <3>1, <2>1
    <3>3. QED BY <3>1, <3>2, CacheAssumption DEF CacheTypes
  <2>3. QED BY <1>10, <2>2 DEF ReadNothing, CacheTypes, ring, request, server
<1>11. CASE UNCHANGED cacheVars
  BY <1>11 DEF cacheVars, ring, request, connection, server, CacheTypes
<1>12. CASE Find \/ FindAgain
  <2>1. PICK n, result : Locate(nOffset, n, result)
    BY <1>12 DEF Find, FindAgain
  <2>2. /\ mPlayNode' \in Nodes /\ mResetTargetOffset' \in Nat /\ bReset' \in BOOLEAN
    BY <2>1 DEF Locate, request, CacheTypes, ReaderTypes
  <2>3. UNCHANGED <<ring, mContentLength, bStreamEOS, bSeekable, mProtocolError, bStopThread,
                    at, connection>>
    BY <1>12 DEF Find, FindAgain
  <2>4. QED BY <2>2, <2>3 DEF ring, connection, server, CacheTypes
<1>13. CASE CopyNext
  <2>1. mPlayNode' \in Nodes
    BY <1>13, Places DEF CopyNext, NextPlay, CacheTypes
  <2>2. QED BY <1>13, <2>1 DEF CopyNext, ring, request, connection, server, CacheTypes
<1>14. CASE Close
  BY <1>14 DEF Close, AskToStop, ring, request, connection, server, CacheTypes
<1>19. CASE ReadTimesOut
  <2>1. /\ at' = "reseek"
        /\ UNCHANGED <<ring, mPlayNode, mContentLength, request, bStreamEOS, bSeekable,
                       mProtocolError, bStopThread, connection>>
    BY <1>19 DEF ReadTimesOut
  <2>2. QED BY <2>1 DEF CacheTypes, ring, request, connection, server
<1>21. CASE Network
  <2>1. /\ down' \in BOOLEAN
        /\ UNCHANGED <<ring, mPlayNode, mContentLength, request, bStreamEOS, bSeekable,
                       mProtocolError, bStopThread, at, pos, server, cut>>
    BY <1>21 DEF Network
  <2>2. QED BY <2>1 DEF CacheTypes, ring, request, server
<1>20. CASE EndReseek
  <2>1. pos' \in 0..Ends
    BY <1>20, CacheAssumption DEF EndReseek, Moves, Refuses, CacheTypes
  <2>2. QED BY <1>20, <2>1 DEF EndReseek, CacheTypes, ring, request, server
<1>15. CASE Thread
  BY <1>15, <1>1, <1>2, <1>3, <1>4, <1>5, <1>6, <1>7, <1>8, <1>9, <1>10, <1>19, <1>20
  DEF Thread, CacheThread, Fill
<1>16. CASE Reader
  BY <1>16, <1>11, <1>12, <1>13, <1>14
  DEF Reader, SetPosition, ReadFile, Abort, Proceed, Prelude, Copy, Joined
<1>17. CASE UNCHANGED vars
  BY <1>17, <1>11 DEF vars
<1>18. QED BY <1>15, <1>16, <1>17, <1>21 DEF Next

LEMMA ClampedType ==
    ASSUME CacheTypes, ReaderTypes, NEW n \in Nat \ {0},
           mContentLength > 0 => nOffset < mContentLength
    PROVE  Clamped(n) \in Nat \ {0} /\ Clamped(n) <= n
<1>1. mContentLength \in Nat /\ nOffset \in Nat
  BY DEF CacheTypes, ReaderTypes
<1>2. CASE mContentLength > 0 /\ n > mContentLength - nOffset
  <2>1. Clamped(n) = mContentLength - nOffset
    BY <1>2 DEF Clamped
  <2>2. QED BY <2>1, <1>1, <1>2
<1>3. CASE ~(mContentLength > 0 /\ n > mContentLength - nOffset)
  <2>1. Clamped(n) = n
    BY <1>3 DEF Clamped
  <2>2. QED BY <2>1
<1>4. QED BY <1>2, <1>3

LEMMA ReaderTypesKept ==
    ASSUME IInv, [Next]_vars
    PROVE  ReaderTypes'
<1> USE DEF IInv
<1>1. CASE SetPosition
  BY <1>1, ReaderAssumption DEF SetPosition, ReaderTypes
<1>2. CASE ReadFile
  BY <1>2, ReaderAssumption DEF ReadFile, ReaderTypes
<1>3. CASE Abort
  <2>1. aborts' \in 0..MaxAborts
    BY <1>3, ReaderAssumption DEF Abort, ReaderTypes
  <2>2. QED BY <1>3, <2>1 DEF Abort, Leave, ReaderTypes
<1>4. CASE Prelude("check", "find") \/ Prelude("read", "find again")
  <2>1. UNCHANGED nSize \/ (nSize' = Clamped(nSize) /\ ~(mContentLength > 0 /\ nOffset >= mContentLength))
    BY <1>4 DEF Prelude
  <2>2. nSize' \in Nat \ {0}
    <3>1. nSize \in Nat \ {0} /\ nOffset \in Nat /\ mContentLength \in Nat
      BY DEF ReaderTypes, CacheTypes
    <3>2. ASSUME ~(mContentLength > 0 /\ nOffset >= mContentLength)
          PROVE  Clamped(nSize) \in Nat \ {0}
      BY <3>1, <3>2, ClampedType
    <3>3. QED BY <2>1, <3>1, <3>2
  <2>3. QED BY <1>4, <2>2 DEF Prelude, Leave, ReaderTypes
<1>5. CASE Find
  <2>1. nSize' \in {nSize, nb, nPreCacheSize} /\ (nSize' = nPreCacheSize => nSize' > nb \/ nSize' \in {nSize, nb})
    BY <1>5 DEF Find
  <2>2. nSize' \in Nat \ {0}
    <3>1. nSize \in Nat \ {0} /\ nb \in Nat \ {0} /\ nPreCacheSize \in Nat
      BY ReaderAssumption DEF ReaderTypes
    <3>2. QED BY <2>1, <3>1
  <2>3. /\ cpc' \in {"idle", "read", "check"} /\ told' \in {told, "reset", "ready"}
        /\ outcome' \in {outcome, "refused"} /\ loading' \in {loading, FALSE}
        /\ UNCHANGED <<nOffset, nb, offset, size, exact, aborts>>
    BY <1>5 DEF Find, Leave
  <2>4. QED BY <2>2, <2>3 DEF ReaderTypes
<1>6. CASE FindAgain
  BY <1>6 DEF FindAgain, Leave, ReaderTypes
<1>7. CASE Copy
  <2> DEFINE first == nodes[mPlayNode]
             i == nOffset - first.nOffset
             left == first.nLength - i
  <2>1. /\ i \in Int /\ left \in Int /\ nOffset \in Nat /\ nSize \in Nat
        /\ Same(mPlayNode, i, nOffset, nSize) \in BOOLEAN
        /\ Same(mPlayNode, i, nOffset, left) \in BOOLEAN
    <3>0. first \in [nOffset : Nat, nLength : 0..mBlockSize, nBase : Int] /\ mBlockSize \in Nat
      BY CacheAssumption DEF CacheTypes
    <3>4. nOffset \in Nat /\ nSize \in Nat
      BY DEF ReaderTypes
    <3> HIDE DEF first
    <3>5. first.nOffset \in Nat /\ first.nLength \in 0..mBlockSize
      BY <3>0
    <3>1. first.nOffset \in Nat /\ first.nLength \in Nat /\ nOffset \in Nat /\ nSize \in Nat
      BY <3>0, <3>4, <3>5
    <3>2. \A a, b, c, d : Same(a, b, c, d) \in BOOLEAN
      BY DEF Same
    <3>3. QED BY <3>1, <3>2
  <2>2. \/ cpc' = "fault" /\ UNCHANGED <<nOffset, offset, size, outcome, exact>>
        \/ /\ exact' = Same(mPlayNode, i, nOffset, nSize)
           /\ Return(nSize)
           /\ UNCHANGED <<offset, size>>
        \/ /\ left >= 0 /\ nSize > left
           /\ exact' = Same(mPlayNode, i, nOffset, left)
           /\ offset' = nOffset + left
           /\ size' = nSize - left
           /\ cpc' = "locked"
           /\ UNCHANGED <<nOffset, outcome>>
    BY <1>7 DEF Copy
  <2>3. UNCHANGED <<loading, nb, nSize, told, aborts>>
    BY <1>7 DEF Copy
  <2> HIDE DEF i, left, first
  <2>4. offset' \in Nat /\ size' \in Nat /\ nOffset' \in Nat /\ exact' \in BOOLEAN
    <3>1. offset \in Nat /\ size \in Nat /\ exact \in BOOLEAN
      BY DEF ReaderTypes
    <3>2. QED BY <3>1, <2>1, <2>2 DEF Return
  <2>5. QED BY <2>2, <2>3, <2>4 DEF Return, Leave, ReaderTypes
<1>8. CASE CopyNext
  <2> DEFINE length == nodes[NextPlay].nLength
             n == IF size >= length THEN length ELSE size
  <2>1. NextPlay \in Nodes
    BY Places DEF NextPlay, CacheTypes
  <2>2. length \in Nat
    BY <2>1, CacheAssumption DEF CacheTypes
  <2>3. /\ n \in Nat /\ n <= size /\ size \in Nat /\ offset \in Nat
        /\ Same(NextPlay, 0, offset, n) \in BOOLEAN
    <3>1. size \in Nat /\ offset \in Nat
      BY DEF ReaderTypes
    <3>2. \A a, b, c, d : Same(a, b, c, d) \in BOOLEAN
      BY DEF Same
    <3> HIDE DEF length
    <3>3. n \in Nat /\ n <= size
      BY <2>2, <3>1
    <3>4. QED BY <3>1, <3>2, <3>3
  <2>4. /\ exact' = (exact /\ Same(NextPlay, 0, offset, n))
        /\ offset' = offset + n
        /\ size' = size - n
        /\ IF size = n THEN Return(nSize)
           ELSE UNCHANGED <<cpc, nOffset, outcome>>
        /\ UNCHANGED <<loading, nb, nSize, told, aborts>>
    BY <1>8 DEF CopyNext
  <2> HIDE DEF n, length
  <2>5. offset' \in Nat /\ size' \in Nat /\ nOffset' \in Nat /\ exact' \in BOOLEAN
    <3>1. nOffset \in Nat /\ nSize \in Nat /\ exact \in BOOLEAN
      BY DEF ReaderTypes
    <3>2. QED BY <3>1, <2>3, <2>4 DEF Return
  <2>6. QED BY <2>4, <2>5 DEF Return, Leave, ReaderTypes
<1>9. CASE Close
  BY <1>9 DEF Close, ReaderTypes
<1>10. CASE Joined
  BY <1>10 DEF Joined, ReaderTypes
<1>11. CASE UNCHANGED readerVars
  BY <1>11 DEF readerVars, ReaderTypes
<1>12. QED
  BY <1>1, <1>2, <1>3, <1>4, <1>5, <1>6, <1>7, <1>8, <1>9, <1>10, <1>11
  DEF Next, Thread, Reader, Proceed, vars

-----------------------------------------------------------------------------
(* The thread *)

\* What a step of the thread leaves alone.
LEMMA ThreadLeaves ==
    ASSUME IInv, Thread
    PROVE  /\ UNCHANGED readerVars
           /\ bReset' => bReset
           /\ mContentLength > 0 => mContentLength' = mContentLength
<1> USE DEF IInv
<1>1. UNCHANGED readerVars
  BY DEF Thread
<1>2. CASE Open \/ ProbeSeek \/ Rewind \/ StopThread \/ EndReset \/ Fill \/ ReadNothing
           \/ ReadTimesOut \/ EndReseek
  <2>1. UNCHANGED request /\ UNCHANGED mContentLength
    BY <1>2 DEF Open, ProbeSeek, Rewind, StopThread, EndReset, Fill, ReadNothing,
     ReadTimesOut, EndReseek
  <2>2. QED BY <1>1, <2>1 DEF request
<1>3. CASE GetContentLength
  BY <1>1, <1>3 DEF GetContentLength, request, Stage
<1>4. CASE StartReset
  BY <1>1, <1>4 DEF StartReset
<1>5. CASE ReadBlock
  <2>1. bReset' = bReset
    BY <1>5 DEF ReadBlock, request
  <2>2. mContentLength > 0 => mContentLength' = mContentLength
    BY <1>5 DEF ReadBlock, LengthAtEnd
  <2>3. QED BY <1>1, <2>1, <2>2
<1>6. QED BY <1>2, <1>3, <1>4, <1>5 DEF Thread, CacheThread

\* The places of the thread.
LEMMA StageKept ==
    ASSUME IInv, [Next]_vars
    PROVE  Stage'
<1> USE DEF IInv
<1>1. CASE Open
  BY <1>1 DEF Open, Stage, Early, ring, Following
<1>2. CASE GetContentLength
  BY <1>2 DEF GetContentLength, Stage, Early, ring, Following
<1>3. CASE ProbeSeek
  BY <1>3 DEF ProbeSeek, Stage, Early, ring, Following
<1>4. CASE Rewind \/ StopThread
  BY <1>4 DEF Rewind, StopThread, Stage, Early
<1>5. CASE StartReset
  BY <1>5 DEF StartReset, ResetCache, Stage, Early
<1>6. CASE EndReset
  BY <1>6 DEF EndReset, NextAfterSeek, Stage, Early
<1>7. CASE Fill
  <2>1. at' \in {"loop", "read"}
    BY <1>7 DEF Fill
  <2>2. ASSUME at' = "read"
        PROVE  /\ Following(mEndNode)' # mStartNode'
               /\ mContentLength' > 0 => mOffsetEnd' < mContentLength'
    <3>1. ~AtEnd
      BY <1>7, <2>2 DEF Fill
    <3>2. /\ mEndNode' = mEndNode /\ mOffsetEnd' = mOffsetEnd /\ mContentLength' = mContentLength
          /\ Following(mEndNode) # mStartNode'
      BY <1>7, <2>2, <3>1 DEF Fill
    <3>3. Following(mEndNode)' = Following(mEndNode)
      BY <3>2 DEF Following
    <3>4. QED BY <3>1, <3>2, <3>3 DEF AtEnd, CacheTypes
  <2>3. QED BY <2>1, <2>2 DEF Stage, Early
<1>8. CASE ReadBlock \/ ReadNothing
  BY <1>8 DEF ReadBlock, ReadNothing, Stage, Early
<1>12. CASE ReadTimesOut \/ EndReseek
  BY <1>12 DEF ReadTimesOut, EndReseek, Stage, Early, ring, Following
<1>9. CASE UNCHANGED <<ring, at, mContentLength>>
  BY <1>9 DEF ring, Stage, Following
<1>10. CASE Reader
  BY <1>10, <1>9 DEF Reader, SetPosition, ReadFile, Abort, Proceed, Prelude, Find, FindAgain, Copy,
     CopyNext, Joined, Close, cacheVars
<1>11. QED
  BY <1>1, <1>2, <1>3, <1>4, <1>5, <1>6, <1>7, <1>8, <1>9, <1>10, <1>12
  DEF Next, Network, Thread, CacheThread, vars, cacheVars

LEMMA SameRing ==
    ASSUME Shape, UNCHANGED ring
    PROVE  Shape' /\ \A i : (Filled(i)' <=> Filled(i))
BY DEF Shape, Links, Order, Bounds, Empties, Filled, Behind, Following, ring

\* A node with data is in the ring.
LEMMA HoldsFilled ==
    ASSUME CacheTypes, Shape, NEW i \in Nodes, NEW o \in Nat, Holds(i, o)
    PROVE  Filled(i)
<1>1. nodes[i].nLength # 0
  BY CacheAssumption DEF Holds, CacheTypes
<1>2. QED BY <1>1 DEF Shape, Empties

\* A node of the ring that the reader is at stays where it is, but for a reset,
\* and the ring grows only.
LEMMA ThreadKeepsPlay ==
    ASSUME IInv, Thread
    PROVE  /\ Shape'
           /\ cpc # "locked" => PlayInRing'
           /\ ~bReset /\ Filled(mPlayNode) =>
                /\ Filled(mPlayNode)'
                /\ mPlayNode' = mPlayNode
                /\ nodes'[mPlayNode] = nodes[mPlayNode]
                /\ mOffsetEnd <= mOffsetEnd'
<1> USE DEF IInv
<1>0. mOffsetEnd \in Nat /\ mPlayNode \in Nodes /\ cpc' = cpc
  BY DEF CacheTypes, Thread, readerVars
<1>1. CASE UNCHANGED <<ring, mPlayNode>>
  <2>1. Shape' /\ (Filled(mPlayNode)' <=> Filled(mPlayNode))
    BY <1>1, SameRing DEF Filled, Behind, ring
  <2>2. QED BY <1>0, <1>1, <2>1 DEF ring, PlayInRing
<1>2. CASE Open \/ GetContentLength \/ ProbeSeek \/ Rewind \/ StopThread \/ EndReset \/ ReadNothing
           \/ ReadTimesOut \/ EndReseek
  BY <1>1, <1>2 DEF Open, GetContentLength, ProbeSeek, Rewind, StopThread, EndReset, ReadNothing,
     ReadTimesOut, EndReseek
<1>3. CASE StartReset
  <2>1. Shape' /\ mPlayNode' = mStartNode' /\ bReset
    BY <1>3, ResetShape DEF StartReset, ResetCache, CacheTypes
  <2>2. QED BY <2>1 DEF PlayInRing
<1>4. CASE Fill
  <2>1. cpc # "locked" /\ mPlayNode' = mPlayNode /\ mOffsetEnd' = mOffsetEnd
    BY <1>4 DEF Thread, Fill, ring
  <2>2. PICK d \in Nat : d <= Behind(mPlayNode) /\ (d > 0 => Filled(mPlayNode)) /\ Trims(d)
    BY <1>4, <2>1, FillTrims
  <2>3. Shape'
    BY <2>2, TrimShape
  <2>4. /\ Filled(mPlayNode) => Filled(mPlayNode)' /\ nodes'[mPlayNode] = nodes[mPlayNode]
        /\ mPlayNode = mStartNode => mPlayNode = mStartNode'
    BY <2>1, <2>2, TrimKeeps
  <2>5. QED BY <1>0, <2>1, <2>3, <2>4 DEF PlayInRing
<1>5. CASE ReadBlock
  <2>0. PICK n : Reads(n)
    BY <1>5, ReadBlockReads
  <2>1. n \in 0..mBlockSize /\ mBlockSize \in Nat /\ pos \in Int
    BY <2>0, CacheAssumption DEF Reads, CacheTypes
  <2>2. /\ IF n > 0
           THEN /\ nodes' = [nodes EXCEPT ![mEndNode] = Node(mOffsetEnd, n, pos)]
                /\ mOffsetEnd' = mOffsetEnd + n
                /\ mEndNode' = Following(mEndNode)
           ELSE UNCHANGED <<nodes, mOffsetEnd, mEndNode>>
        /\ UNCHANGED <<mStartNode, mOffsetStart, mPlayNode>>
        /\ Following(mEndNode) # mStartNode
    BY <1>5, <2>0 DEF ReadBlock, Reads, Stage
  <2>3. CASE n > 0
    <3>1. /\ Shape'
          /\ \A i \in Nodes : Filled(i) => i # mEndNode /\ Filled(i)' /\ nodes'[i] = nodes[i]
      <4>1. n \in 1..mBlockSize
        BY <2>1, <2>3
      <4>2. /\ nodes' = [nodes EXCEPT ![mEndNode] = Node(mOffsetEnd, n, pos)]
            /\ mOffsetEnd' = mOffsetEnd + n
            /\ mEndNode' = Following(mEndNode)
            /\ mStartNode' = mStartNode /\ mOffsetStart' = mOffsetStart
        BY <2>2, <2>3
      <4>3. QED BY <2>1, <2>2, <4>1, <4>2, GrowShape
    <3>2. PICK i \in Nodes : i = mPlayNode
      BY <1>0
    <3>3. Filled(mPlayNode)' <=> Filled(i)'
      BY <2>2, <3>2 DEF Filled, Behind
    <3>4. Filled(mPlayNode) => Filled(mPlayNode)' /\ nodes'[mPlayNode] = nodes[mPlayNode]
      BY <3>1, <3>2, <3>3
    <3>5. mPlayNode' = mPlayNode /\ mStartNode' = mStartNode /\ mOffsetEnd <= mOffsetEnd'
      BY <1>0, <2>1, <2>2, <2>3
    <3>6. QED BY <1>0, <3>1, <3>4, <3>5 DEF PlayInRing
  <2>4. CASE ~(n > 0)
    BY <1>1, <2>2, <2>4 DEF ring
  <2>5. QED BY <2>3, <2>4
<1>6. QED BY <1>2, <1>3, <1>4, <1>5 DEF Thread, CacheThread

-----------------------------------------------------------------------------
(* The reader *)

LEMMA NodeTypes ==
    ASSUME CacheTypes, NEW i \in Nodes
    PROVE  nodes[i].nOffset \in Nat /\ nodes[i].nLength \in Nat
<1>1. nodes[i] \in [nOffset : Nat, nLength : 0..mBlockSize, nBase : Int]
  BY DEF CacheTypes
<1>2. QED BY <1>1, CacheAssumption

\* What Locate says of the node it leaves mPlayNode at.
LEMMA Located ==
    ASSUME IInv, NEW n, NEW result, Locate(nOffset, n, result)
    PROVE  /\ mPlayNode' = mPlayNode \/ (mPlayNode' \in Nodes /\ Filled(mPlayNode'))
           /\ result = "Ok" => /\ mPlayNode' \in Nodes
                               /\ Holds(mPlayNode', nOffset)
                               /\ nOffset + n <= mOffsetEnd
                               /\ UNCHANGED request
BY DEF Locate, IInv, CacheTypes

\* It finds bytes that are there.
LEMMA LocateFinds ==
    ASSUME IInv, Holds(mPlayNode, nOffset), nOffset + nSize <= mOffsetEnd,
           NEW result, Locate(nOffset, nSize, result)
    PROVE  result = "Ok"
<1> USE DEF IInv
<1>1. mPlayNode \in Nodes /\ nOffset \in Nat /\ mOffsetStart \in Nat /\ mOffsetEnd \in Nat
  BY DEF CacheTypes, ReaderTypes
<1>2. Filled(mPlayNode)
  BY <1>1, HoldsFilled
<1>3. /\ mOffsetStart <= nodes[mPlayNode].nOffset
      /\ nodes[mPlayNode].nOffset + nodes[mPlayNode].nLength <= mOffsetEnd
      /\ nodes[mPlayNode].nOffset \in Nat /\ nodes[mPlayNode].nLength \in Nat
  BY <1>1, <1>2, CacheAssumption DEF Shape, Bounds, CacheTypes
<1>4. ~Outside(nOffset) /\ mOffsetStart # mOffsetEnd
  BY <1>1, <1>3 DEF Holds, Outside
<1>5. QED BY <1>1, <1>4 DEF Locate

LEMMA RingKept ==
    ASSUME IInv, [Next]_vars
    PROVE  Shape' /\ PlayInRing'
<1> USE DEF IInv
<1>1. CASE Thread
  <2>1. Shape' /\ (cpc # "locked" => PlayInRing')
    BY <1>1, ThreadKeepsPlay
  <2>2. cpc' = cpc
    BY <1>1 DEF Thread, readerVars
  <2>3. QED BY <2>1, <2>2 DEF PlayInRing
<1>2. CASE UNCHANGED <<ring, mPlayNode>> /\ (cpc = "locked" => cpc' = "locked")
  <2>1. Shape' /\ (Filled(mPlayNode)' <=> Filled(mPlayNode))
    BY <1>2, SameRing DEF Filled, Behind, ring
  <2>2. QED BY <1>2, <2>1 DEF ring, PlayInRing
<1>3. CASE SetPosition \/ ReadFile \/ Abort \/ Close \/ Prelude("check", "find")
           \/ Prelude("read", "find again") \/ Joined \/ Copy
  BY <1>2, <1>3 DEF SetPosition, ReadFile, Abort, Close, Prelude, Joined, Copy, cacheVars
<1>4. CASE Find \/ FindAgain
  <2>1. PICK n, result : Locate(nOffset, n, result)
    BY <1>4 DEF Find, FindAgain
  <2>2. UNCHANGED ring /\ cpc # "locked"
    BY <1>4 DEF Find, FindAgain
  <2>3. mPlayNode' = mPlayNode \/ (mPlayNode' \in Nodes /\ Filled(mPlayNode'))
    BY <2>1, Located
  <2>4. Filled(mPlayNode)' <=> Filled(mPlayNode')
    BY <2>2 DEF ring, Filled, Behind
  <2>5. Shape'
    BY <2>2, SameRing
  <2>6. QED BY <2>2, <2>3, <2>4, <2>5 DEF PlayInRing, ring
<1>5. CASE CopyNext
  <2>1. UNCHANGED ring /\ mPlayNode' = NextPlay /\ NextPlay \in Nodes
    BY <1>5, Places DEF CopyNext, NextPlay, CacheTypes
  <2>2. Shape'
    BY <2>1, SameRing
  <2>3. ASSUME cpc' # "locked" PROVE Filled(mPlayNode)'
    <3>1. cpc = "locked" /\ size > 0 /\ size \in Nat
      BY <1>5 DEF CopyNext, Calls, ReaderTypes
    <3>2. \/ size >= nodes[NextPlay].nLength /\ size = nodes[NextPlay].nLength
          \/ ~(size >= nodes[NextPlay].nLength)
      BY <1>5, <2>3, <3>1 DEF CopyNext
    <3>3. nodes[NextPlay].nLength \in Nat
      BY <2>1, CacheAssumption DEF CacheTypes
    <3>4. nodes[NextPlay].nLength # 0
      BY <3>1, <3>2, <3>3
    <3>5. Filled(NextPlay)
      BY <2>1, <3>4 DEF Shape, Empties
    <3>6. Filled(mPlayNode)' <=> Filled(mPlayNode')
      BY <2>1 DEF ring, Filled, Behind
    <3>7. QED BY <2>1, <3>5, <3>6
  <2>4. QED BY <2>2, <2>3 DEF PlayInRing
<1>6. CASE UNCHANGED vars \/ (Network /\ UNCHANGED readerVars)
  BY <1>2, <1>6 DEF vars, cacheVars, readerVars, Network
<1>7. QED BY <1>1, <1>3, <1>4, <1>5, <1>6 DEF Next, Reader, Proceed

Cut(length, o, n) == IF length > 0 /\ n > length - o THEN length - o ELSE n

LEMMA CutLess ==
    ASSUME NEW length \in Nat, NEW known \in Nat, NEW o \in Nat, NEW n \in Nat,
           length > 0 => known = length
    PROVE  /\ Cut(known, o, n) <= Cut(length, o, n)
           /\ Cut(length, o, n) \in Int /\ Cut(known, o, n) \in Int
BY DEF Cut

\* The clamp only gets tighter, and keeps the order of two requests.
LEMMA ClampedLess ==
    ASSUME CacheTypes, CacheTypes', ReaderTypes, nOffset' = nOffset, nb' = nb,
           mContentLength > 0 => mContentLength' = mContentLength
    PROVE  Clamped(nb)' <= Clamped(nb) /\ Clamped(nb) \in Int /\ Clamped(nb)' \in Int
<1>1. /\ mContentLength \in Nat /\ mContentLength' \in Nat /\ nOffset \in Nat /\ nb \in Nat
  BY DEF CacheTypes, ReaderTypes
<1>2. Clamped(nb) = Cut(mContentLength, nOffset, nb)
  BY DEF Clamped, Cut
<1>3. Clamped(nb)' = Cut(mContentLength', nOffset, nb)
  BY DEF Clamped, Cut
<1>4. QED BY <1>1, <1>2, <1>3, CutLess

LEMMA ClampedOrder ==
    ASSUME CacheTypes, ReaderTypes, NEW n \in Nat, nb <= n
    PROVE  Clamped(nb) <= Clamped(n) /\ Clamped(nb) <= nb /\ Clamped(nb) \in Int
<1>1. mContentLength \in Nat /\ nOffset \in Nat /\ nb \in Nat
  BY DEF CacheTypes, ReaderTypes
<1>2. \A k : /\ mContentLength > 0 /\ k > mContentLength - nOffset =>
                  Clamped(k) = mContentLength - nOffset
             /\ ~(mContentLength > 0 /\ k > mContentLength - nOffset) => Clamped(k) = k
  BY DEF Clamped
<1>3. QED BY <1>1, <1>2

LEMMA CallsKept ==
    ASSUME IInv, [Next]_vars
    PROVE  Calls'
<1> USE DEF IInv
<1>0. /\ ReaderTypes' /\ CacheTypes'
      /\ nSize \in Nat /\ nb \in Nat /\ nSize' \in Nat /\ size \in Nat /\ nPreCacheSize \in Nat
  BY CacheTypesKept, ReaderTypesKept, ReaderAssumption DEF ReaderTypes
<1>1. CASE Thread
  <2>1. /\ UNCHANGED readerVars
        /\ bReset' => bReset
        /\ mContentLength > 0 => mContentLength' = mContentLength
    BY <1>1, ThreadLeaves
  <2>2. Clamped(nb)' <= Clamped(nb) /\ Clamped(nb) \in Int /\ Clamped(nb)' \in Int
    <3>1. nOffset' = nOffset /\ nb' = nb
      BY <2>1 DEF readerVars
    <3>2. QED BY <1>0, <2>1, <3>1, ClampedLess
  <2>3. cpc = "find" => nSize >= Clamped(nb)'
    BY <1>0, <2>2 DEF Calls
  <2>4. UNCHANGED <<cpc, outcome, nSize, nb, size, told>>
    BY <2>1 DEF readerVars
  <2>5. QED BY <2>1, <2>3, <2>4 DEF Calls, Reading
<1>2. CASE SetPosition \/ Close \/ Joined
  BY <1>2 DEF SetPosition, Close, Joined, Calls, Reading
<1>3. CASE ReadFile
  BY <1>3, <1>0 DEF ReadFile, Calls, Reading
<1>4. CASE Abort
  BY <1>4 DEF Abort, Leave, Calls, Reading, cacheVars, request
<1>5. CASE Prelude("check", "find")
  <2>1. CASE cpc' = "find" /\ nSize' = Clamped(nSize) /\ UNCHANGED outcome
    <3>1. Clamped(nb) <= Clamped(nSize)
      BY <1>0, <1>5, ClampedOrder DEF Prelude, Calls
    <3>2. Clamped(nb)' = Clamped(nb)
      BY <1>5 DEF Prelude, cacheVars, Clamped
    <3>3. outcome = "none" /\ told' = told
      BY <1>5 DEF Prelude, Calls
    <3>4. QED BY <2>1, <3>1, <3>2, <3>3 DEF Calls, Reading
  <2>2. CASE cpc' = "idle" /\ outcome' # "broken"
    BY <2>2 DEF Calls, Reading
  <2>3. QED BY <1>5, <2>1, <2>2 DEF Prelude, Leave
<1>6. CASE Prelude("read", "find again")
  <2>1. bReset' = bReset
    BY <1>6 DEF Prelude, cacheVars, request
  <2>2. QED BY <1>6, <2>1 DEF Prelude, Leave, Calls, Reading
<1>7. CASE Find
  <2>1. outcome = "none" /\ UNCHANGED nb
    BY <1>7 DEF Find, Calls
  <2>2. PICK result \in {"Ok", "Insufficient", "Unseekable"} :
         /\ Locate(nOffset, nSize, result)
         /\ \/ /\ result = "Ok"
               /\ cpc' = IF loading THEN "idle" ELSE "read"
               /\ nSize' = nb
               /\ told' = IF bReset THEN "reset" ELSE "ready"
               /\ UNCHANGED outcome
            \/ /\ result = "Insufficient"
               /\ cpc' = "check"
               /\ nSize' = IF nPreCacheSize > nb /\ ~loading THEN nPreCacheSize ELSE nb
               /\ UNCHANGED outcome
            \/ result = "Unseekable" /\ Leave("refused")
    BY <1>7 DEF Find, Ready
  <2>3. CASE result = "Ok"
    <3>1. UNCHANGED request
      BY <2>2, <2>3, Located
    <3>2. QED BY <2>1, <2>2, <2>3, <3>1 DEF Calls, Reading, request
  <2>4. CASE result = "Insufficient"
    <3>1. nSize' >= nb
      BY <1>0, <2>2, <2>4
    <3>2. QED BY <2>1, <2>2, <2>4, <3>1 DEF Calls, Reading
  <2>5. CASE result = "Unseekable"
    BY <2>2, <2>5 DEF Calls, Reading, Leave
  <2>6. QED BY <2>3, <2>4, <2>5
<1>8. CASE FindAgain
  <2>1. PICK result \in {"Ok", "Insufficient", "Unseekable"} :
         /\ Locate(nOffset, nSize, result)
         /\ IF result = "Ok" THEN cpc' = "copy" /\ UNCHANGED outcome
            ELSE Leave("broken")
    BY <1>8 DEF FindAgain
  <2>2. outcome = "none" /\ told' = told /\ cpc = "find again"
    BY <1>8 DEF FindAgain, Calls, Reading
  <2>3. CASE result = "Ok"
    <3>1. UNCHANGED request
      BY <2>1, <2>3, Located
    <3>2. QED BY <2>1, <2>2, <2>3, <3>1 DEF Calls, Reading, request
  <2>4. CASE result # "Ok"
    <3>1. told # "ready"
      BY <2>1, <2>2, <2>4, LocateFinds DEF Found
    <3>2. QED BY <2>1, <2>2, <2>4, <3>1 DEF Calls, Reading, Leave
  <2>5. QED BY <2>3, <2>4
<1>9. CASE Copy
  <2> DEFINE first == nodes[mPlayNode]
             i == nOffset - first.nOffset
             left == first.nLength - i
  <2>0. /\ cpc = "copy" /\ outcome = "none" /\ UNCHANGED <<told, bReset>>
        /\ i \in Int /\ left \in Int
    <3>1. first.nOffset \in Nat /\ first.nLength \in Nat /\ nOffset \in Nat
      BY NodeTypes DEF CacheTypes, ReaderTypes
    <3>2. i \in Int /\ left \in Int
      BY <3>1
    <3>3. QED BY <1>9, <3>2 DEF Copy, Calls, Reading, cacheVars, request
  <2>1. \/ (i < 0 \/ left < 0) /\ cpc' = "fault" /\ UNCHANGED outcome
        \/ Return(nSize)
        \/ /\ left >= 0 /\ nSize > left
           /\ size' = nSize - left
           /\ cpc' = "locked"
           /\ UNCHANGED outcome
    BY <1>9 DEF Copy
  <2>2. told # "reset" => i >= 0 /\ left > 0
    <3>1. first.nOffset \in Nat /\ first.nLength \in Nat /\ nOffset \in Nat
      BY NodeTypes DEF CacheTypes, ReaderTypes
    <3>2. QED BY <3>1, <2>0 DEF Found, Holds
  <2> HIDE DEF i, left
  <2>3. CASE cpc' = "fault" /\ UNCHANGED outcome /\ told = "reset"
    BY <2>0, <2>3 DEF Calls, Reading
  <2>4. CASE Return(nSize)
    BY <2>4 DEF Calls, Reading, Return, Leave
  <2>5. CASE size' > 0 /\ cpc' = "locked" /\ UNCHANGED outcome
    BY <2>0, <2>5 DEF Calls, Reading
  <2>6. left >= 0 /\ nSize > left /\ size' = nSize - left => size' > 0
    BY <1>0, <2>0
  <2>7. told # "reset" => ~(i < 0 \/ left < 0)
    BY <2>0, <2>2
  <2>8. QED BY <2>1, <2>3, <2>4, <2>5, <2>6, <2>7
<1>10. CASE CopyNext
  <2>1. /\ cpc = "locked" /\ outcome = "none" /\ size > 0 /\ UNCHANGED <<told, bReset>>
    BY <1>10 DEF CopyNext, Calls, request
  <2>2. PICK n : /\ n = size \/ (size >= n /\ n = nodes[NextPlay].nLength)
                 /\ size' = size - n
                 /\ IF size = n THEN Return(nSize) ELSE UNCHANGED <<cpc, nOffset, outcome>>
    BY <1>10 DEF CopyNext
  <2>3. nodes[NextPlay].nLength \in Nat
    BY Places, CacheAssumption DEF NextPlay, CacheTypes
  <2>4. size # n => size' > 0
    BY <1>0, <2>2, <2>3
  <2>5. QED BY <2>1, <2>2, <2>4 DEF Calls, Reading, Return, Leave
<1>11. CASE UNCHANGED vars \/ (Network /\ UNCHANGED readerVars)
  <2>1. Clamped(nb)' = Clamped(nb)
    BY <1>11 DEF vars, cacheVars, readerVars, Network, Clamped
  <2>2. QED BY <1>11, <2>1 DEF vars, cacheVars, readerVars, Network, request, Calls
<1>12. QED
  BY <1>1, <1>2, <1>3, <1>4, <1>5, <1>6, <1>7, <1>8, <1>9, <1>10, <1>11
  DEF Next, Reader, Proceed

\* The loop that copies finds the rest in the next node.
LEMMA NextHolds ==
    ASSUME IInv, cpc = "locked", told # "reset"
    PROVE  NextPlay \in Nodes /\ Filled(NextPlay) /\ nodes[NextPlay].nOffset = offset
<1> USE DEF IInv
<1>1. /\ Filled(mPlayNode) /\ mPlayNode \in Nodes /\ mEndNode \in Nodes
      /\ offset = nodes[mPlayNode].nOffset + nodes[mPlayNode].nLength
      /\ offset + size <= mOffsetEnd /\ size > 0
      /\ size \in Nat /\ offset \in Nat /\ mOffsetEnd \in Nat
  BY DEF Found, Calls, CacheTypes, ReaderTypes
<1>2. offset = IF Following(mPlayNode) = mEndNode THEN mOffsetEnd
               ELSE nodes[Following(mPlayNode)].nOffset
  BY <1>1 DEF Shape, Links
<1>3. Following(mPlayNode) # mEndNode
  BY <1>1, <1>2
<1>4. /\ Behind(mPlayNode) \in Nat /\ Behind(mEndNode) \in Nat /\ mBlockCnt \in Nat
      /\ Behind(mEndNode) < mBlockCnt /\ Following(mPlayNode) \in Nodes
      /\ Following(mPlayNode) = mStartNode => Behind(mPlayNode) = mBlockCnt - 1
      /\ Following(mPlayNode) # mStartNode => Behind(Following(mPlayNode)) = Behind(mPlayNode) + 1
      /\ Behind(mPlayNode) < Behind(mEndNode)
  BY <1>1, Places DEF Filled
<1>5. Behind(Following(mPlayNode)) = Behind(mPlayNode) + 1
  BY <1>4
<1>6. Behind(Following(mPlayNode)) # Behind(mEndNode)
  BY <1>1, <1>3, <1>4, BehindOnce
<1>7. Filled(Following(mPlayNode))
  BY <1>4, <1>5, <1>6 DEF Filled
<1>8. QED BY <1>2, <1>3, <1>4, <1>7 DEF NextPlay

LEMMA FoundKept ==
    ASSUME IInv, [Next]_vars
    PROVE  Found'
<1> USE DEF IInv
<1>0. /\ ReaderTypes' /\ CacheTypes'
      /\ nSize \in Nat /\ nb \in Nat /\ size \in Nat /\ offset \in Nat /\ nOffset \in Nat
      /\ mOffsetEnd \in Nat /\ mPlayNode \in Nodes
  BY CacheTypesKept, ReaderTypesKept DEF CacheTypes, ReaderTypes
<1>1. CASE Thread
  <2>1. /\ UNCHANGED readerVars
        /\ mContentLength > 0 => mContentLength' = mContentLength
    BY <1>1, ThreadLeaves
  <2>2. UNCHANGED <<cpc, nOffset, nb, nSize, offset, size, told>>
    BY <2>1 DEF readerVars
  <2>3. Clamped(nb)' <= Clamped(nb) /\ Clamped(nb) \in Int /\ Clamped(nb)' \in Int
    BY <1>0, <2>1, <2>2, ClampedLess
  <2>4. ASSUME ~bReset, Filled(mPlayNode)
        PROVE  /\ Filled(mPlayNode)'
               /\ mPlayNode' = mPlayNode
               /\ nodes'[mPlayNode] = nodes[mPlayNode]
               /\ mOffsetEnd <= mOffsetEnd' /\ mOffsetEnd' \in Nat
    BY <1>0, <1>1, <2>4, ThreadKeepsPlay DEF CacheTypes
  <2>5. ASSUME ~bReset, Holds(mPlayNode, nOffset)
        PROVE  Holds(mPlayNode, nOffset)' /\ mOffsetEnd <= mOffsetEnd' /\ mOffsetEnd' \in Nat
    <3>1. Filled(mPlayNode)
      BY <1>0, <2>5, HoldsFilled
    <3>2. QED BY <2>2, <2>4, <2>5, <3>1 DEF Holds
  <2>6. CASE cpc \in Reading /\ told # "reset"
    <3>1. ~bReset
      BY <2>6 DEF Calls
    <3>2. told = "ready" /\ cpc = "read" =>
             Holds(mPlayNode, nOffset)' /\ nOffset' + Clamped(nb)' <= mOffsetEnd'
      BY <1>0, <2>2, <2>3, <2>5, <3>1 DEF Found
    <3>3. ASSUME Holds(mPlayNode, nOffset), nOffset + nSize <= mOffsetEnd
          PROVE  Holds(mPlayNode, nOffset)' /\ nOffset' + nSize' <= mOffsetEnd'
      <4>1. Holds(mPlayNode, nOffset)' /\ mOffsetEnd <= mOffsetEnd' /\ mOffsetEnd' \in Nat
        BY <2>5, <3>1, <3>3
      <4>2. nOffset + nSize <= mOffsetEnd'
        BY <1>0, <3>3, <4>1
      <4>3. QED BY <2>2, <4>1, <4>2
    <3>4. cpc = "copy" \/ (told = "ready" /\ cpc = "find again") =>
             Holds(mPlayNode, nOffset)' /\ nOffset' + nSize' <= mOffsetEnd'
      <4>1. cpc = "copy" \/ (told = "ready" /\ cpc = "find again") =>
               Holds(mPlayNode, nOffset) /\ nOffset + nSize <= mOffsetEnd
        BY <2>6 DEF Found
      <4>2. QED BY <3>3, <4>1
    <3>5. cpc' = cpc /\ told' = told /\ told # "reset" /\ cpc # "locked"
      BY <2>2, <2>6 DEF Reading
    <3>6. CASE cpc = "copy"
      BY <3>4, <3>5, <3>6 DEF Found
    <3>7. CASE cpc = "read"
      BY <3>2, <3>5, <3>7 DEF Found
    <3>8. CASE cpc = "find again"
      BY <3>4, <3>5, <3>8 DEF Found
    <3>9. QED BY <2>6, <3>6, <3>7, <3>8 DEF Reading
  <2>7. CASE cpc = "locked" /\ told # "reset"
    <3>1. ~bReset /\ Filled(mPlayNode)
      BY <2>7 DEF Calls, Found
    <3>2. offset + size <= mOffsetEnd
          /\ offset = nodes[mPlayNode].nOffset + nodes[mPlayNode].nLength
      BY <2>7 DEF Found
    <3>3. offset' + size' <= mOffsetEnd'
      BY <1>0, <2>2, <2>4, <3>1, <3>2
    <3>4. QED BY <2>2, <2>4, <2>7, <3>1, <3>2, <3>3 DEF Found
  <2>8. CASE ~(cpc \in Reading \cup {"locked"} /\ told # "reset")
    BY <2>2, <2>8 DEF Found, Reading
  <2>9. QED BY <2>6, <2>7, <2>8
<1>2. CASE cpc' \notin Reading \cup {"locked"}
  BY <1>2 DEF Found, Reading
<1>3. CASE Abort
  <2>1. told' # "ready" \/ cpc' = "idle"
    BY <1>3 DEF Abort, Leave
  <2>2. cpc' \in {"read", "idle"}
    BY <1>3 DEF Abort, Leave
  <2>3. QED BY <2>1, <2>2 DEF Found
<1>4. CASE Prelude("read", "find again")
  <2>1. CASE cpc' = "idle"
    BY <1>2, <2>1 DEF Reading
  <2>2. CASE cpc' = "find again" /\ nSize' = Clamped(nSize)
    <3>1. told' = told /\ UNCHANGED <<nodes, mPlayNode, nOffset, mOffsetEnd>> /\ cpc = "read"
      BY <1>4 DEF Prelude, cacheVars, ring
    <3>2. nSize' = Clamped(nb)
      BY <2>2, <3>1 DEF Calls
    <3>3. Holds(mPlayNode, nOffset)' <=> Holds(mPlayNode, nOffset)
      BY <3>1 DEF Holds
    <3>4. QED BY <2>2, <3>1, <3>2, <3>3 DEF Found
  <2>3. QED BY <1>4, <2>1, <2>2 DEF Prelude, Leave
<1>5. CASE Find
  <2>1. CASE cpc' # "read"
    <3>1. cpc' \in {"idle", "check"}
      BY <1>5, <2>1 DEF Find, Leave
    <3>2. QED BY <3>1, <1>2 DEF Reading
  <2>2. CASE cpc' = "read"
    <3>1. Locate(nOffset, nSize, "Ok")
      BY <1>5, <2>2 DEF Find, Ready, Leave
    <3>2. /\ mPlayNode' \in Nodes /\ Holds(mPlayNode', nOffset) /\ nOffset + nSize <= mOffsetEnd
      BY <3>1, Located
    <3>3. UNCHANGED <<nodes, nOffset, mOffsetEnd, mContentLength, nb>>
      BY <1>5 DEF Find, ring
    <3>4. Holds(mPlayNode, nOffset)' /\ Clamped(nb)' = Clamped(nb)
      BY <3>2, <3>3 DEF Holds, Clamped
    <3>5. nSize >= Clamped(nb)
      BY <1>5 DEF Find, Calls
    <3>6. Clamped(nb) \in Int
      <4>1. nb \in Nat /\ nb <= nb
        BY <1>0
      <4>2. QED BY <4>1, ClampedOrder
    <3>7. nOffset + Clamped(nb) <= mOffsetEnd
      BY <1>0, <3>2, <3>5, <3>6
    <3>8. nOffset' + Clamped(nb)' <= mOffsetEnd'
      BY <3>3, <3>4, <3>7
    <3>9. QED BY <2>2, <3>4, <3>8 DEF Found
  <2>3. QED BY <2>1, <2>2
<1>6. CASE FindAgain
  <2>1. CASE cpc' # "copy"
    <3>1. cpc' = "idle"
      BY <1>6, <2>1 DEF FindAgain, Leave
    <3>2. QED BY <3>1, <1>2 DEF Reading
  <2>2. CASE cpc' = "copy"
    <3>1. Locate(nOffset, nSize, "Ok")
      BY <1>6, <2>2 DEF FindAgain, Leave
    <3>2. /\ mPlayNode' \in Nodes /\ Holds(mPlayNode', nOffset) /\ nOffset + nSize <= mOffsetEnd
      BY <3>1, Located
    <3>3. UNCHANGED <<nodes, nOffset, mOffsetEnd, nSize>>
      BY <1>6 DEF FindAgain, ring
    <3>4. Holds(mPlayNode, nOffset)'
      BY <3>2, <3>3 DEF Holds
    <3>5. QED BY <2>2, <3>2, <3>3, <3>4 DEF Found
  <2>3. QED BY <2>1, <2>2
<1>7. CASE Copy
  <2>1. CASE cpc' # "locked"
    <3>1. cpc' \in {"idle", "fault"}
      BY <1>7, <2>1 DEF Copy, Return, Leave
    <3>2. QED BY <3>1, <1>2 DEF Reading
  <2>2. CASE cpc' = "locked" /\ told # "reset"
    <3> DEFINE first == nodes[mPlayNode]
               i == nOffset - first.nOffset
               left == first.nLength - i
    <3>1. cpc = "copy" /\ UNCHANGED <<told, nodes, mPlayNode, mOffsetEnd, mStartNode, mEndNode>>
      BY <1>7 DEF Copy, cacheVars, ring
    <3>2. Holds(mPlayNode, nOffset) /\ nOffset + nSize <= mOffsetEnd
      BY <2>2, <3>1 DEF Found
    <3>3. Filled(mPlayNode)
      BY <1>0, <3>2, HoldsFilled
    <3>4. offset' = nOffset + left /\ size' = nSize - left
      BY <1>7, <2>2 DEF Copy, Return, Leave
    <3>5. first.nOffset \in Nat /\ first.nLength \in Nat
      BY <1>0, NodeTypes
    <3>6. offset' = first.nOffset + first.nLength /\ offset' + size' <= mOffsetEnd
      <4> HIDE DEF first
      <4>1. QED BY <1>0, <3>2, <3>4, <3>5
    <3>7. Filled(mPlayNode)'
      BY <3>1, <3>3 DEF Filled, Behind
    <3>8. QED BY <2>2, <3>1, <3>6, <3>7 DEF Found
  <2>3. CASE cpc' = "locked" /\ told = "reset"
    <3>1. told' = "reset"
      BY <1>7, <2>3 DEF Copy
    <3>2. QED BY <2>3, <3>1 DEF Found
  <2>4. QED BY <2>1, <2>2, <2>3
<1>8. CASE CopyNext
  <2>1. CASE cpc' # "locked"
    <3>1. cpc' = "idle"
      BY <1>8, <2>1 DEF CopyNext, Return, Leave
    <3>2. QED BY <3>1, <1>2 DEF Reading
  <2>2. CASE cpc' = "locked" /\ told = "reset"
    <3>1. told' = "reset"
      BY <1>8, <2>2 DEF CopyNext
    <3>2. QED BY <2>2, <3>1 DEF Found
  <2>3. CASE cpc' = "locked" /\ told # "reset"
    <3>1. /\ cpc = "locked" /\ size > 0 /\ mPlayNode' = NextPlay
          /\ UNCHANGED <<told, nodes, mOffsetEnd, mStartNode, mEndNode>>
      BY <1>8 DEF CopyNext, Calls, ring
    <3>2. /\ NextPlay \in Nodes /\ Filled(NextPlay) /\ nodes[NextPlay].nOffset = offset
      BY <2>3, <3>1, NextHolds
    <3>3. nodes[NextPlay].nOffset \in Nat /\ nodes[NextPlay].nLength \in Nat
      BY <3>2, NodeTypes
    <3>4. PICK n : /\ n = (IF size >= nodes[NextPlay].nLength THEN nodes[NextPlay].nLength ELSE size)
                   /\ offset' = offset + n /\ size' = size - n
                   /\ size = n => Return(nSize)
      BY <1>8 DEF CopyNext
    <3>5. size # n
      BY <2>3, <3>4 DEF Return, Leave
    <3>6. n = nodes[NextPlay].nLength
      BY <3>4, <3>5
    <3>7. offset' = nodes[NextPlay].nOffset + nodes[NextPlay].nLength
      BY <3>2, <3>4, <3>6
    <3>8. offset + size <= mOffsetEnd
      BY <2>3, <3>1 DEF Found
    <3>9. offset' + size' <= mOffsetEnd'
      BY <1>0, <3>1, <3>3, <3>4, <3>6, <3>8
    <3>10. Filled(mPlayNode)'
      BY <3>1, <3>2 DEF Filled, Behind
    <3>11. nodes'[mPlayNode'] = nodes[NextPlay]
      BY <3>1
    <3>12. QED BY <2>3, <3>1, <3>7, <3>9, <3>10, <3>11 DEF Found
  <2>4. QED BY <2>1, <2>2, <2>3
<1>9. CASE SetPosition \/ ReadFile \/ Close \/ Joined \/ Prelude("check", "find")
  <2>1. cpc' \notin Reading \cup {"locked"}
    BY <1>9 DEF SetPosition, ReadFile, Close, Joined, Prelude, Leave, Reading
  <2>2. QED BY <1>2, <2>1
<1>10. CASE UNCHANGED vars \/ (Network /\ UNCHANGED readerVars)
  <2>1. /\ Clamped(nb)' = Clamped(nb)
        /\ Holds(mPlayNode, nOffset)' = Holds(mPlayNode, nOffset)
        /\ Filled(mPlayNode)' <=> Filled(mPlayNode)
    BY <1>10 DEF vars, cacheVars, readerVars, Network, ring, Clamped, Holds, Filled, Behind
  <2>2. UNCHANGED <<nodes, mPlayNode, nOffset, mOffsetEnd, nSize, told, cpc, offset, size>>
    BY <1>10 DEF vars, cacheVars, readerVars, Network, ring
  <2>3. QED BY <2>1, <2>2 DEF Found
<1>11. QED
  BY <1>1, <1>3, <1>4, <1>5, <1>6, <1>7, <1>8, <1>9, <1>10 DEF Next, Reader, Proceed

LEMMA NextInv == IInv /\ [Next]_vars => IInv'
BY CacheTypesKept, ReaderTypesKept, StageKept, RingKept, CallsKept, FoundKept DEF IInv

LEMMA InitInv == Init => IInv
<1> SUFFICES ASSUME Init PROVE IInv
  OBVIOUS
<1> USE DEF Init, CacheInit
<1>1. 0 \in Nodes /\ mBlockSize \in Nat /\ Garbage \in Int
  BY CacheAssumption DEF Nodes, Garbage
<1>2. CacheTypes
  <2>1. nodes \in [Nodes -> [nOffset : Nat, nLength : 0..mBlockSize, nBase : Int]]
    BY <1>1 DEF Node
  <2>2. /\ pos \in 0..Ends
        /\ bServes \in BOOLEAN /\ bLocalhost \in Hosts /\ urlLength \in Lengths
    BY CacheAssumption
  <2>3. QED BY <1>1, <2>1, <2>2 DEF CacheTypes
<1>3. ReaderTypes
  BY ReaderAssumption DEF ReaderTypes
<1>4. Stage
  BY DEF Stage, Early
<1>5. \A i \in Nodes : ~Filled(i) /\ nodes[i].nLength = 0
  BY <1>1, <1>2, Places DEF Filled, Node
<1>6. Shape
  BY <1>5 DEF Shape, Links, Order, Bounds, Empties
<1>7. PlayInRing /\ Found
  BY DEF PlayInRing, Found
<1>8. Calls
  BY DEF Calls, Reading
<1>9. QED BY <1>2, <1>3, <1>4, <1>6, <1>7, <1>8 DEF IInv

\* The cache and its reader keep their types.
THEOREM TypeCorrect == Spec => []TypeOK
<1>1. IInv => TypeOK
  <2> SUFFICES ASSUME IInv PROVE TypeOK
    OBVIOUS
  <2>1. CacheTypes /\ ReaderTypes
    BY DEF IInv
  <2>2. pos \in Nat /\ urlLength \in Nat /\ bLocalhost \in BOOLEAN
    BY <2>1, CacheAssumption DEF CacheTypes
  <2>3. QED BY <2>1, <2>2 DEF CacheTypes, ReaderTypes, TypeOK
<1>2. QED BY <1>1, InitInv, NextInv, PTL DEF Spec

-----------------------------------------------------------------------------
(* The bytes.  A seek that fails is left out: Rewind does not look at the   *)
(* result of the seek back to 0, after which blocks from the middle of the  *)
(* stream would be taken for its first.                                     *)

\* Where the thread reads on, the connection is at the end of the ring.
Connected ==
    at \in {"fill", "read", "reseek"} \/ (at = "loop" /\ ~GetStopRetrying) => pos = mOffsetEnd

Bytes == \A i \in Nodes : Filled(i) => nodes[i].nBase = nodes[i].nOffset

\* What was copied is right, unless a reset was pending.
Exactly ==
    /\ cpc \in {"check", "find"} => exact
    /\ told # "reset" => exact

BInv == IInv /\ Connected /\ Bytes /\ Exactly

LEMMA ConnectedKept ==
    ASSUME "seek" \notin Faults, BInv, [Next]_vars
    PROVE  Connected'
<1> USE DEF BInv
<1>1. CASE Open \/ GetContentLength \/ ProbeSeek \/ StopThread
  BY <1>1 DEF Open, GetContentLength, ProbeSeek, StopThread, Connected
<1>2. CASE Rewind
  <2>1. mOffsetEnd' = 0 /\ UNCHANGED <<bReset, bStopThread>> /\ at' = "loop"
    BY <1>2 DEF Rewind, ring, request, IInv, Stage, Early
  <2>2. pos' = 0 \/ GetStopRetrying
    BY <1>2 DEF Rewind, Seek, Moves
  <2>3. QED BY <2>1, <2>2 DEF Connected, GetStopRetrying
<1>3. CASE StartReset
  BY <1>3 DEF StartReset, Connected
<1>4. CASE EndReset
  <2>1. UNCHANGED <<mOffsetStart, mOffsetEnd, bReset, bStopThread>> /\ mOffsetStart = mOffsetEnd
    BY <1>4 DEF EndReset, ring, request, IInv, Stage, Shape, Links
  <2>2. PICK result \in {"None", "Terminated", "Unseekable"} :
             Seek(mOffsetStart, TRUE, result) /\ at' = NextAfterSeek(result)
    BY <1>4 DEF EndReset
  <2>3. CASE result = "None"
    BY <2>1, <2>2, <2>3 DEF Seek, Moves, Connected
  <2>4. CASE result = "Terminated"
    BY <2>1, <2>2, <2>4 DEF Seek, NextAfterSeek, Connected, GetStopRetrying
  <2>5. CASE result = "Unseekable"
    BY <2>2, <2>5 DEF NextAfterSeek, Connected
  <2>6. QED BY <2>3, <2>4, <2>5
<1>5. CASE Fill
  <2>1. /\ at = "fill" \/ (at = "loop" /\ ~GetStopRetrying)
        /\ pos' = pos /\ mOffsetEnd' = mOffsetEnd
    BY <1>5 DEF Fill, GetStopRetrying, connection, ring
  <2>2. QED BY <2>1 DEF Connected
<1>6. CASE ReadBlock
  <2>1. pos = mOffsetEnd /\ pos \in Int /\ mBlockSize \in Nat
    BY <1>6, CacheAssumption DEF ReadBlock, Connected, IInv, CacheTypes
  <2>2. PICK n : Reads(n)
    BY <1>6, ReadBlockReads DEF IInv
  <2>3. pos' = mOffsetEnd'
    BY <2>1, <2>2 DEF Reads
  <2>4. QED BY <2>3 DEF Connected
<1>7. CASE ReadNothing
  BY <1>7 DEF ReadNothing, Connected, GetStopRetrying, request
<1>14. CASE ReadTimesOut \/ (Network /\ UNCHANGED readerVars)
  BY <1>14 DEF ReadTimesOut, Network, connection, ring, request, Connected, GetStopRetrying
<1>15. CASE EndReseek
  BY <1>15 DEF EndReseek, Moves, Refuses, Connected, GetStopRetrying, ring, request
<1>8. CASE UNCHANGED <<at, pos, mOffsetEnd>> /\ (GetStopRetrying => GetStopRetrying')
  BY <1>8 DEF Connected
<1>9. CASE UNCHANGED vars
  BY <1>8, <1>9 DEF vars, cacheVars, ring, request, connection, GetStopRetrying
<1>10. CASE SetPosition \/ ReadFile \/ Abort \/ Prelude("check", "find") \/ Joined
            \/ Prelude("read", "find again") \/ Copy
  BY <1>8, <1>10 DEF SetPosition, ReadFile, Abort, Prelude, Joined, Copy, cacheVars, ring, request,
     connection, GetStopRetrying
<1>11. CASE Find \/ FindAgain
  <2>1. PICK n, result : Locate(nOffset, n, result)
    BY <1>11 DEF Find, FindAgain
  <2>2. bReset => bReset'
    BY <2>1 DEF Locate, request
  <2>3. QED BY <1>8, <1>11, <2>2 DEF Find, FindAgain, ring, connection, GetStopRetrying
<1>12. CASE CopyNext \/ Close
  BY <1>8, <1>12 DEF CopyNext, Close, AskToStop, ring, request, connection, GetStopRetrying
<1>13. QED
  BY <1>1, <1>2, <1>3, <1>4, <1>5, <1>6, <1>7, <1>9, <1>10, <1>11, <1>12, <1>14, <1>15
  DEF Next, Thread, CacheThread, Reader, Proceed

LEMMA BytesKept ==
    ASSUME BInv, [Next]_vars
    PROVE  Bytes'
<1> USE DEF BInv, IInv
<1>1. CASE UNCHANGED ring
  BY <1>1 DEF ring, Bytes, Filled, Behind
<1>2. CASE Open \/ GetContentLength \/ ProbeSeek \/ Rewind \/ StopThread \/ EndReset \/ ReadNothing
           \/ ReadTimesOut \/ EndReseek
  BY <1>1, <1>2 DEF Open, GetContentLength, ProbeSeek, Rewind, StopThread, EndReset, ReadNothing,
     ReadTimesOut, EndReseek
<1>3. CASE StartReset
  BY <1>3, ResetShape DEF StartReset, CacheTypes, Bytes
<1>4. CASE Thread /\ Fill
  <2>1. PICK d \in Nat : Trims(d)
    BY <1>4, FillTrims DEF Thread, Fill
  <2>2. \A i \in Nodes : Filled(i)' => Filled(i) /\ nodes'[i] = nodes[i]
    BY <2>1 DEF Trims
  <2>3. QED BY <2>2 DEF Bytes
<1>5. CASE ReadBlock
  <2>0. PICK n : Reads(n)
    BY <1>5, ReadBlockReads
  <2>1. n \in 0..mBlockSize /\ mBlockSize \in Nat /\ pos \in Int
    BY <2>0, CacheAssumption DEF Reads, CacheTypes
  <2>2. /\ IF n > 0
           THEN /\ nodes' = [nodes EXCEPT ![mEndNode] = Node(mOffsetEnd, n, pos)]
                /\ mOffsetEnd' = mOffsetEnd + n
                /\ mEndNode' = Following(mEndNode)
           ELSE UNCHANGED <<nodes, mOffsetEnd, mEndNode>>
        /\ UNCHANGED <<mStartNode, mOffsetStart>>
        /\ Following(mEndNode) # mStartNode
        /\ pos = mOffsetEnd
    BY <1>5, <2>0 DEF ReadBlock, Reads, Stage, Connected
  <2>3. CASE n > 0
    <3>1. n \in 1..mBlockSize
      BY <2>1, <2>3
    <3>2. nodes' = [nodes EXCEPT ![mEndNode] = Node(mOffsetEnd, n, pos)]
      BY <2>2, <2>3
    <3>3. /\ mOffsetEnd' = mOffsetEnd + n /\ mEndNode' = Following(mEndNode)
          /\ mStartNode' = mStartNode /\ mOffsetStart' = mOffsetStart
      BY <2>2, <2>3
    <3>4. /\ \A i \in Nodes : Filled(i) => nodes'[i] = nodes[i]
          /\ \A i \in Nodes : Filled(i)' => Filled(i) \/ i = mEndNode
      BY <2>1, <2>2, <3>1, <3>2, <3>3, GrowShape
    <3>5. nodes'[mEndNode].nBase = nodes'[mEndNode].nOffset
      BY <2>2, <3>2 DEF Node, CacheTypes
    <3>6. QED BY <3>4, <3>5 DEF Bytes
  <2>4. CASE ~(n > 0)
    BY <1>1, <2>2, <2>4 DEF ring
  <2>5. QED BY <2>3, <2>4
<1>6. CASE Reader \/ Network \/ UNCHANGED vars
  BY <1>1, <1>6 DEF Reader, SetPosition, ReadFile, Abort, Proceed, Prelude, Find, FindAgain, Copy,
     CopyNext, Joined, Close, Network, cacheVars, vars
<1>7. QED BY <1>2, <1>3, <1>4, <1>5, <1>6 DEF Next, Thread, CacheThread

\* The node that holds an offset has the byte of the stream that is there.
LEMMA HoldsSame ==
    ASSUME CacheTypes, Bytes, NEW i \in Nodes, Filled(i), NEW o \in Nat, NEW n
    PROVE  Same(i, o - nodes[i].nOffset, o, n)
<1>1. nodes[i].nBase = nodes[i].nOffset /\ nodes[i].nOffset \in Nat
  BY NodeTypes DEF Bytes
<1>2. QED BY <1>1 DEF Same

LEMMA ExactlyKept ==
    ASSUME BInv, [Next]_vars
    PROVE  Exactly'
<1> USE DEF BInv, IInv
<1>1. CASE UNCHANGED <<cpc, exact, told>>
  BY <1>1 DEF Exactly
<1>2. CASE Thread \/ SetPosition \/ (Network /\ UNCHANGED readerVars) \/ UNCHANGED vars
  BY <1>1, <1>2 DEF Thread, SetPosition, vars, readerVars
<1>3. CASE ReadFile
  BY <1>3 DEF ReadFile, Exactly
<1>4. CASE Prelude("check", "find") \/ Prelude("read", "find again")
  BY <1>4 DEF Prelude, Leave, Exactly
<1>5. CASE Find \/ Abort
  BY <1>5 DEF Find, Abort, Leave, Exactly
<1>6. CASE FindAgain \/ Close \/ Joined
  BY <1>6 DEF FindAgain, Close, Joined, Leave, Exactly
<1>7. CASE Copy
  <2>1. cpc' \notin {"check", "find"} /\ told' = told /\ cpc = "copy"
    BY <1>7 DEF Copy, Return, Leave
  <2>2. ASSUME told # "reset" PROVE exact'
    <3>1. Holds(mPlayNode, nOffset) /\ mPlayNode \in Nodes /\ nOffset \in Nat
      BY <2>1, <2>2 DEF Found, CacheTypes, ReaderTypes
    <3>2. Filled(mPlayNode)
      BY <3>1, HoldsFilled
    <3>3. \A n : Same(mPlayNode, nOffset - nodes[mPlayNode].nOffset, nOffset, n)
      BY <3>1, <3>2, HoldsSame
    <3>4. cpc' # "fault"
      BY <2>1, <2>2, CallsKept DEF Calls
    <3>5. \E n : exact' = Same(mPlayNode, nOffset - nodes[mPlayNode].nOffset, nOffset, n)
      BY <1>7, <3>4 DEF Copy
    <3>6. QED BY <3>3, <3>5
  <2>3. QED BY <2>1, <2>2 DEF Exactly
<1>8. CASE CopyNext
  <2>1. cpc' \notin {"check", "find"} /\ told' = told /\ cpc = "locked"
    BY <1>8 DEF CopyNext, Return, Leave
  <2>2. ASSUME told # "reset" PROVE exact'
    <3>1. NextPlay \in Nodes /\ Filled(NextPlay) /\ nodes[NextPlay].nOffset = offset
      BY <2>1, <2>2, NextHolds
    <3>2. offset \in Nat /\ offset - offset = 0
      <4>1. offset \in Nat
        BY DEF ReaderTypes
      <4>2. QED BY <4>1
    <3>3. \A n : Same(NextPlay, offset - nodes[NextPlay].nOffset, offset, n)
      BY <3>1, <3>2, HoldsSame
    <3>4. \A n : Same(NextPlay, 0, offset, n)
      BY <3>1, <3>2, <3>3
    <3>5. \E n : exact' = (exact /\ Same(NextPlay, 0, offset, n))
      BY <1>8 DEF CopyNext
    <3>6. QED BY <2>2, <3>4, <3>5 DEF Exactly
  <2>3. QED BY <2>1, <2>2 DEF Exactly
<1>9. QED
  BY <1>2, <1>3, <1>4, <1>5, <1>6, <1>7, <1>8 DEF Next, Reader, Proceed

LEMMA BytesInductive ==
    ASSUME "seek" \notin Faults
    PROVE  Spec => []BInv
<1>1. Init => BInv
  <2> SUFFICES ASSUME Init PROVE BInv
    OBVIOUS
  <2>1. IInv
    BY InitInv
  <2>2. at = "open" /\ exact = TRUE /\ mStartNode = mEndNode
    BY DEF Init, CacheInit
  <2>3. \A i \in Nodes : ~Filled(i)
    BY <2>1, <2>2, Places DEF Filled, IInv, CacheTypes
  <2>4. QED BY <2>1, <2>2, <2>3 DEF BInv, Connected, Bytes, Exactly
<1>2. BInv /\ [Next]_vars => BInv'
  BY NextInv, ConnectedKept, BytesKept, ExactlyKept DEF BInv
<1>3. QED BY <1>1, <1>2, PTL DEF Spec

\* Dropping, filling, resetting and reading ahead never leave a gap in the
\* ring, nor a block of another offset, when no seek fails.
THEOREM RingAlwaysHoldsStream ==
    ASSUME "seek" \notin Faults
    PROVE  Spec => []RingHoldsStream
<1>1. BInv => RingHoldsStream
  BY DEF BInv, IInv, Shape, Links, Bytes, RingHoldsStream
<1>2. QED BY <1>1, BytesInductive, PTL

\* Read gives the bytes of the stream at its position, whatever the cache
\* thread does between the check and the copy, and finds those it was promised.
THEOREM ReadAlwaysExact ==
    ASSUME "seek" \notin Faults
    PROVE  Spec => []ReadExact
<1>1. BInv => ReadExact
  BY DEF BInv, IInv, Calls, Exactly, ReadExact
<1>2. QED BY <1>1, BytesInductive, PTL

-----------------------------------------------------------------------------
(* The end of the stream *)

\* A length that is known is no shorter than the stream, or a failing url_read was
\* taken for the end.
LengthTrue == mContentLength = 0 \/ mContentLength >= Ends \/ cut

\* A server that tells a length tells no shorter one.
LengthsTrue == \A n \in Lengths : n = 0 \/ n >= Ends

\* A cut is for good.
LEMMA CutKept ==
    ASSUME BInv, cut, [Next]_vars
    PROVE  cut'
<1>1. CASE UNCHANGED connection
  BY <1>1 DEF connection
<1>2. CASE Thread
  BY <1>1, <1>2 DEF Thread, CacheThread, Open, GetContentLength, ProbeSeek, Rewind, StopThread,
     StartReset, EndReset, Fill, ReadBlock, ReadNothing, ReadTimesOut, EndReseek
<1>3. CASE Reader \/ UNCHANGED vars
  BY <1>1, <1>3 DEF Reader, SetPosition, ReadFile, Abort, Proceed, Prelude, Find, FindAgain, Copy,
     CopyNext, Joined, Close, cacheVars, vars
<1>4. CASE Network
  BY <1>4 DEF Network
<1>5. QED BY <1>2, <1>3, <1>4 DEF Next

LEMMA LengthKept ==
    ASSUME LengthsTrue, BInv, LengthTrue, [Next]_vars
    PROVE  LengthTrue'
<1> USE DEF BInv, IInv
<1>1. CASE GetContentLength
  BY <1>1 DEF GetContentLength, LengthTrue, LengthsTrue, CacheTypes
<1>2. CASE ReadBlock
  <2>1. PICK n : Reads(n)
    BY <1>2, ReadBlockReads
  <2>2. pos = mOffsetEnd /\ Ends \in Int
    BY <1>2, CacheAssumption DEF ReadBlock, Connected
  <2>3. mContentLength' = mContentLength \/ mContentLength' = Ends \/ cut'
    BY <2>1, <2>2 DEF Reads, LengthAtEnd
  <2>4. QED BY <2>2, <2>3, CutKept DEF LengthTrue
<1>3. CASE UNCHANGED mContentLength
  BY <1>3, CutKept DEF LengthTrue
<1>4. CASE Open \/ ProbeSeek \/ Rewind \/ StopThread \/ StartReset \/ EndReset \/ Fill \/ ReadNothing
           \/ ReadTimesOut \/ EndReseek
  BY <1>3, <1>4 DEF Open, ProbeSeek, Rewind, StopThread, StartReset, EndReset, Fill, ReadNothing,
     ReadTimesOut, EndReseek
<1>5. CASE Reader \/ Network \/ UNCHANGED vars
  BY <1>3, <1>5 DEF Reader, SetPosition, ReadFile, Abort, Proceed, Prelude, Find, FindAgain, Copy,
     CopyNext, Joined, Close, Network, cacheVars, vars
<1>6. QED BY <1>1, <1>2, <1>4, <1>5 DEF Next, Thread, CacheThread

LEMMA EndKept ==
    ASSUME BInv, LengthTrue, EndTrue, [Next]_vars
    PROVE  EndTrue'
<1> USE DEF BInv, IInv
<1>0. nOffset \in Nat /\ mContentLength \in Nat /\ Ends \in Nat
  BY CacheAssumption DEF ReaderTypes, CacheTypes
<1>1. CASE UNCHANGED nOffset /\ outcome' \in {outcome, "none", "read", "failed", "refused", "broken"}
  BY <1>1, CutKept DEF EndTrue
<1>2. CASE Thread \/ (Network /\ UNCHANGED readerVars) \/ UNCHANGED vars
  BY <1>1, <1>2 DEF Thread, vars, readerVars
<1>3. CASE Prelude("check", "find") \/ Prelude("read", "find again")
  <2>1. UNCHANGED nOffset /\ (outcome' = "ended" => outcome = "ended" \/
                                 (mContentLength > 0 /\ nOffset >= mContentLength))
    BY <1>3 DEF Prelude, Leave
  <2>2. QED BY <1>0, <2>1, CutKept DEF EndTrue, LengthTrue
<1>4. CASE ReadFile \/ Find \/ Abort \/ FindAgain \/ Close \/ Joined
  BY <1>1, <1>4 DEF ReadFile, Find, Abort, FindAgain, Close, Joined, Leave
<1>5. CASE SetPosition
  BY <1>5 DEF SetPosition, EndTrue
<1>6. CASE Copy \/ CopyNext
  <2>1. outcome' = "read" \/ UNCHANGED <<nOffset, outcome>>
    BY <1>6 DEF Copy, CopyNext, Return, Leave
  <2>2. QED BY <2>1, CutKept DEF EndTrue
<1>7. QED BY <1>2, <1>3, <1>4, <1>5, <1>6 DEF Next, Reader, Proceed

\* The parser is told that the stream has ended only when it has, unless Read took a
\* failing url_read for the end as it does on localhost without a length; if the server
\* tells no shorter length and the seeks before the loop do not fail.
THEOREM EndAlwaysTrue ==
    ASSUME "seek" \notin Faults, LengthsTrue
    PROVE  Spec => []EndTrue
<1>1. Init => LengthTrue /\ EndTrue
  BY DEF Init, CacheInit, LengthTrue, EndTrue
<1>2. BInv /\ LengthTrue /\ EndTrue /\ [Next]_vars => LengthTrue' /\ EndTrue'
  BY LengthKept, EndKept
<1>3. QED BY <1>1, <1>2, BytesInductive, PTL DEF Spec

\* Read ends early only on localhost, of a stream whose length is not told.
CutByLocalhost == cut => GetHandleError

LEMMA CutKeptByLocalhost ==
    ASSUME CutByLocalhost, [Next]_vars
    PROVE  CutByLocalhost'
<1>1. CASE UNCHANGED <<server, cut>>
  BY <1>1 DEF server, CutByLocalhost, GetHandleError
<1>2. CASE Open \/ GetContentLength \/ ProbeSeek \/ Rewind \/ StopThread \/ StartReset \/ EndReset
           \/ Fill \/ ReadNothing \/ ReadTimesOut \/ EndReseek
  BY <1>1, <1>2 DEF Open, GetContentLength, ProbeSeek, Rewind, StopThread, StartReset, EndReset,
     Fill, ReadNothing, ReadTimesOut, EndReseek, connection
<1>3. CASE ReadBlock
  <2>1. UNCHANGED server /\ (UNCHANGED cut \/ GetHandleError)
    BY <1>3 DEF ReadBlock
  <2>2. QED BY <2>1 DEF server, CutByLocalhost, GetHandleError
<1>4. CASE Reader \/ Network \/ UNCHANGED vars
  BY <1>1, <1>4 DEF Reader, SetPosition, ReadFile, Abort, Proceed, Prelude, Find, FindAgain, Copy,
     CopyNext, Joined, Close, Network, cacheVars, vars, connection
<1>5. QED BY <1>2, <1>3, <1>4 DEF Next, Thread, CacheThread

\* From any other server, or of a stream whose length is told, the parser is never told
\* of an end that is none, however often the network breaks down.
THEOREM EndExactElsewhere ==
    ASSUME "seek" \notin Faults, LengthsTrue, Hosts = {FALSE} \/ 0 \notin Lengths
    PROVE  Spec => [](outcome = "ended" => nOffset >= Ends)
<1>1. Init => CutByLocalhost
  BY DEF Init, CacheInit, CutByLocalhost
<1>2. CutByLocalhost /\ [Next]_vars => CutByLocalhost'
  BY CutKeptByLocalhost
<1>3. BInv => ~GetHandleError
  BY DEF BInv, IInv, CacheTypes, GetHandleError
<1>4. BInv /\ CutByLocalhost /\ EndTrue => (outcome = "ended" => nOffset >= Ends)
  BY <1>3 DEF CutByLocalhost, EndTrue
<1>5. QED BY <1>1, <1>2, <1>4, BytesInductive, EndAlwaysTrue, PTL DEF Spec
=============================================================================
