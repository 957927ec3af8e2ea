------------------------------- MODULE OmxPort -------------------------------
(***************************************************************************)
(* The state of a component's ports (component/common/Port.cpp) for a port *)
(* that is not tunneled, and the part of Port's operations that touches    *)
(* it.  OmxComponent runs them from the component's and the clients'       *)
(* threads; none of them takes a lock.                                     *)
(*                                                                         *)
(* A buffer header is with the client (owned), in pPortQueue, or held by   *)
(* the component: InBufferHdrList, pInBufferHdr, OutBufferHdrList and      *)
(* their like in the filters and renderers.                                *)
(***************************************************************************)
EXTENDS Integers, Sequences, FiniteSets

CONSTANTS
    nPorts,
    nBufferCountActual, \* headers of a populated port
    nHeaders,           \* headers malloc can tell apart for a port
    NULL

Ports == 0..(nPorts - 1)
Slots == 0..(nBufferCountActual - 1)
Headers == Ports \X (1..nHeaders)
PortOf(h) == h[1]

ASSUME PortAssumption ==
    /\ nPorts \in Nat \ {0}
    /\ nBufferCountActual \in Nat \ {0}
    /\ nHeaders \in Nat /\ nHeaders >= nBufferCountActual
    /\ NULL \notin Headers

VARIABLES
    bEnabled,       \* the ports with sPortDef.bEnabled
    bPopulated,     \* the ports with sPortDef.bPopulated
    BufferHdrArry,
    nBufferHdrNum,
    pPortQueue,
    held,           \* headers the component took from a port's queue
    owned           \* headers that are with the client

table == <<BufferHdrArry, nBufferHdrNum>>
flow == <<pPortQueue, held, owned>>
portVars == <<bEnabled, bPopulated, table, flow>>

PortInit ==
    /\ bEnabled = Ports
    /\ bPopulated = {}
    /\ BufferHdrArry = [p \in Ports |-> [i \in Slots |-> NULL]]
    /\ nBufferHdrNum = [p \in Ports |-> 0]
    /\ pPortQueue = [p \in Ports |-> <<>>]
    /\ held = [p \in Ports |-> {}]
    /\ owned = {}

BufferNum(p) == Len(pPortQueue[p])

\* Mutation: off by one.
AllButOneReturned(p) == BufferNum(p) <= 1

IsAllBuffersReturned(p) == BufferNum(p) = 0

Queued(p) == {pPortQueue[p][i] : i \in 1..BufferNum(p)}
Live(p) == {h \in owned : PortOf(h) = p} \cup Queued(p) \cup held[p]
Registered(p) == {BufferHdrArry[p][i] : i \in Slots} \ {NULL}

\* UseBuffer and AllocateBuffer write the new header at nBufferHdrNum, which
\* need not be a free entry, and enable the port once it is full.
RegisterHeader(p, h) ==
    /\ p \notin bPopulated
    /\ nBufferHdrNum[p] < nBufferCountActual
    /\ PortOf(h) = p /\ h \notin Live(p)
    /\ BufferHdrArry' = [BufferHdrArry EXCEPT ![p][nBufferHdrNum[p]] = h]
    /\ nBufferHdrNum' = [nBufferHdrNum EXCEPT ![p] = @ + 1]
    /\ owned' = owned \cup {h}
    /\ LET full == IF nBufferHdrNum[p] + 1 >= nBufferCountActual THEN {p} ELSE {}
       IN  bEnabled' = bEnabled \cup full /\ bPopulated' = bPopulated \cup full
    /\ UNCHANGED <<pPortQueue, held>>

\* Mutation: the entry filled last, as if headers were freed in that order.
LastIdx(p, h) == nBufferHdrNum[p] - 1

\* FreeBuffer's search for a header.
MatchIdx(p, h) ==
    CHOOSE i \in Slots :
        BufferHdrArry[p][i] = h /\ \A j \in 0..(i - 1) : BufferHdrArry[p][j] # h

\* FreeBuffer once the queue is empty, for a header that is found.
UnregisterHeader(p, h) ==
    /\ h \in Registered(p)
    /\ BufferHdrArry' = [BufferHdrArry EXCEPT ![p][MatchIdx(p, h)] = NULL]
    /\ nBufferHdrNum' = [nBufferHdrNum EXCEPT ![p] = @ - 1]
    /\ owned' = owned \ {h}
    /\ bPopulated' = IF nBufferHdrNum[p] = 1 THEN bPopulated \ {p} ELSE bPopulated
    /\ UNCHANGED <<bEnabled, pPortQueue, held>>

AddBuffer(h) ==
    /\ pPortQueue' = [pPortQueue EXCEPT ![PortOf(h)] = Append(@, h)]
    /\ owned' = owned \ {h}
    /\ UNCHANGED <<bEnabled, bPopulated, table, held>>

\* GetBuffer waits in Queue::Get while the queue is empty; SendBuffer calls
\* EmptyBufferDone or FillBufferDone.
GetAndSendBuffer(p) ==
    /\ pPortQueue[p] # <<>>
    /\ owned' = owned \cup {Head(pPortQueue[p])}
    /\ pPortQueue' = [pPortQueue EXCEPT ![p] = Tail(@)]
    /\ UNCHANGED <<bEnabled, bPopulated, table, held>>

GetAndHoldBuffer(p) ==
    /\ pPortQueue[p] # <<>>
    /\ held' = [held EXCEPT ![p] = @ \cup {Head(pPortQueue[p])}]
    /\ pPortQueue' = [pPortQueue EXCEPT ![p] = Tail(@)]
    /\ UNCHANGED <<bEnabled, bPopulated, table, owned>>

\* ComponentReturnBuffer and FlushComponent.
ReturnHeld(p) ==
    /\ owned' = owned \cup held[p]
    /\ held' = [held EXCEPT ![p] = {}]
    /\ UNCHANGED pPortQueue

\* SendBuffer of a header that was processed.
SendHeld(h) ==
    /\ h \in held[PortOf(h)]
    /\ held' = [held EXCEPT ![PortOf(h)] = @ \ {h}]
    /\ owned' = owned \cup {h}
    /\ UNCHANGED <<bEnabled, bPopulated, table, pPortQueue>>

PortTypeOK ==
    /\ bEnabled \subseteq Ports
    /\ bPopulated \subseteq Ports
    /\ BufferHdrArry \in [Ports -> [Slots -> Headers \cup {NULL}]]
    /\ nBufferHdrNum \in [Ports -> Int]
    /\ pPortQueue \in [Ports -> Seq(Headers)]
    /\ held \in [Ports -> SUBSET Headers]
    /\ owned \subseteq Headers
=============================================================================
