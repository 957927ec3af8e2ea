------------------------- MODULE OmxComponent_proofs -------------------------
(***************************************************************************)
(* For any clients, commands, ports and buffers, and any failures of the   *)
(* component's own operations: the types, and that Flush, PortDisable and  *)
(* the way to Idle give back every buffer that the port had queued when    *)
(* they began.                                                             *)
(*                                                                         *)
(* For the clients of Disciplined: the pending command is the one in work  *)
(* and gets one event, enabled ports are populated outside Loaded, the     *)
(* state follows the state diagram, resources are held in the states they  *)
(* belong to, the ports' tables list the headers that exist, and Loaded    *)
(* holds nothing.  Their inductive invariant has these parts:              *)
(*   - Protocol: who has the command, and what the client may do meanwhile *)
(*   - Tables: the headers that a port has registered                      *)
(*   - Resourced: what was acquired for the state                          *)
(*   - Flow: where each header is                                          *)
(*   - Tidy: what may be left in Loaded                                    *)
(***************************************************************************)
EXTENDS OmxComponent, TLAPS, FiniteSetTheorems

LEMMA HeaderPort == \A h \in Headers : PortOf(h) \in Ports
BY DEF Headers, PortOf

-----------------------------------------------------------------------------
(* The ports' operations keep the ports' types. *)

LEMMA RegisterType ==
    ASSUME PortTypeOK, NEW p \in Ports, NEW h \in Headers, RegisterHeader(p, h)
    PROVE  PortTypeOK'
<1>1. BufferHdrArry' \in [Ports -> [Slots -> Headers \cup {NULL}]]
  BY DEF PortTypeOK, RegisterHeader
<1>2. nBufferHdrNum' \in [Ports -> Int] /\ owned' \subseteq Headers
  BY DEF PortTypeOK, RegisterHeader
<1>3. bEnabled' \subseteq Ports /\ bPopulated' \subseteq Ports
  BY DEF PortTypeOK, RegisterHeader
<1>4. QED BY <1>1, <1>2, <1>3 DEF PortTypeOK, RegisterHeader

LEMMA UnregisterType ==
    ASSUME PortTypeOK, NEW p \in Ports, NEW h, UnregisterHeader(p, h)
    PROVE  PortTypeOK'
<1>1. BufferHdrArry' \in [Ports -> [Slots -> Headers \cup {NULL}]]
  BY DEF PortTypeOK, UnregisterHeader
<1>2. nBufferHdrNum' \in [Ports -> Int] /\ owned' \subseteq Headers
  BY DEF PortTypeOK, UnregisterHeader
<1>3. bPopulated' \subseteq Ports
  BY DEF PortTypeOK, UnregisterHeader
<1>4. QED BY <1>1, <1>2, <1>3 DEF PortTypeOK, UnregisterHeader

LEMMA AddType ==
    ASSUME PortTypeOK, NEW h \in Headers, AddBuffer(h)
    PROVE  PortTypeOK'
BY HeaderPort DEF PortTypeOK, AddBuffer, table

LEMMA GetAndSendType ==
    ASSUME PortTypeOK, NEW p \in Ports, GetAndSendBuffer(p)
    PROVE  PortTypeOK'
<1>1. Head(pPortQueue[p]) \in Headers /\ Tail(pPortQueue[p]) \in Seq(Headers)
  BY DEF PortTypeOK, GetAndSendBuffer
<1>2. QED BY <1>1 DEF PortTypeOK, GetAndSendBuffer, table

LEMMA GetAndHoldType ==
    ASSUME PortTypeOK, NEW p \in Ports, GetAndHoldBuffer(p)
    PROVE  PortTypeOK'
<1>1. Head(pPortQueue[p]) \in Headers /\ Tail(pPortQueue[p]) \in Seq(Headers)
  BY DEF PortTypeOK, GetAndHoldBuffer
<1>2. QED BY <1>1 DEF PortTypeOK, GetAndHoldBuffer, table

LEMMA ReturnType ==
    ASSUME PortTypeOK, NEW p \in Ports, ReturnHeld(p), bEnabled' \subseteq Ports,
           UNCHANGED <<bPopulated, table>>
    PROVE  PortTypeOK'
BY DEF PortTypeOK, ReturnHeld, table

LEMMA SendHeldType ==
    ASSUME PortTypeOK, NEW h \in Headers, SendHeld(h)
    PROVE  PortTypeOK'
BY HeaderPort DEF PortTypeOK, SendHeld, table

LEMMA SamePortType ==
    ASSUME PortTypeOK, UNCHANGED portVars
    PROVE  PortTypeOK'
BY DEF PortTypeOK, portVars, table, flow

LEMMA QueuedType ==
    ASSUME PortTypeOK, NEW p \in Ports
    PROVE  Queued(p) \in SUBSET Headers
BY DEF PortTypeOK, Queued, BufferNum

-----------------------------------------------------------------------------
(* Every step of the controllers and the feeders keeps the types. *)

LEMMA CommandTypes ==
    /\ \A c \in Commands : c.cmd = "StateSet" => c.nParam \in States
    /\ None.cmd # "StateSet"
BY ComponentAssumption DEF StateSet, None, PortCommands

Calls == [op : {"none", "allocate", "free"}, port : Ports, header : Headers \cup {NULL},
          state : States, cmd : Commands \cup {None}]

LEMMA CallType ==
    /\ NoCall \in Calls
    /\ \A c \in Commands : Call("none", 0, NULL, Loaded, c) \in Calls
    /\ StateTypeOK =>
          \A op \in {"allocate", "free"}, p \in Ports, h \in Headers \cup {NULL} :
              Call(op, p, h, eCurState, None) \in Calls
BY PortAssumption DEF Calls, Call, NoCall, Ports, States, StateTypeOK

\* A controller whose call ends, or starts.
LEMMA LeaveType ==
    ASSUME CallTypeOK, NEW k \in Controllers, Leave(k),
           UNCHANGED <<passing, ghosts, resets>>
    PROVE  CallTypeOK'
BY CallType DEF CallTypeOK, Calls, Leave, Places, ghosts

LEMMA EnterType ==
    ASSUME TypeOK, NEW k \in Controllers, NEW place \in Places \ {"post", "pend", "add"},
           NEW op \in {"allocate", "free"}, NEW p \in Ports,
           NEW h \in Headers \cup {NULL}, Enter(k, place, op, p, h),
           UNCHANGED <<passing, ghosts, resets>>
    PROVE  CallTypeOK'
BY CallType DEF TypeOK, CallTypeOK, Calls, Enter, ghosts

LEMMA MoveType ==
    ASSUME CallTypeOK, NEW k \in Controllers, NEW place \in Places \ {"post", "pend", "add"},
           at' = [at EXCEPT ![k] = place], UNCHANGED <<call, passing, ghosts, resets>>
    PROVE  CallTypeOK'
BY DEF CallTypeOK, ghosts

LEMMA SameStateType ==
    ASSUME StateTypeOK, UNCHANGED stateVars
    PROVE  StateTypeOK'
BY DEF StateTypeOK, stateVars

LEMMA SameThreadType ==
    ASSUME ThreadTypeOK, UNCHANGED threadVars
    PROVE  ThreadTypeOK'
BY DEF ThreadTypeOK, threadVars

\* pendingCmd.cmd = OMX_CommandMax.
LEMMA ResetType ==
    ASSUME StateTypeOK, pendingCmd' = None,
           UNCHANGED <<eCurState, bProcessed, pCmdQueue, resources, instance>>
    PROVE  StateTypeOK'
BY DEF StateTypeOK

LEMMA AnswerType ==
    ASSUME owed \in [Commands -> Int], NEW c, Answer(c)
    PROVE  owed' \in [Commands -> Int]
<1>1. CASE c \in Commands
  BY <1>1 DEF Answer
<1>2. CASE c \notin Commands
  <2>1. owed' = [d \in Commands |-> owed[d]]
    BY <1>2 DEF Answer
  <2>2. QED BY <2>1
<1>3. QED BY <1>1, <1>2

LEMMA CallsType ==
    ASSUME TypeOK, NEW k \in Controllers,
           \/ \E c \in Commands : SendCommand(k, c)
           \/ Pend(k) \/ ClearProcessed(k) \/ PostCommand(k) \/ ResetPending(k)
           \/ \E p \in Ports : Allocate(k, p) \/ UseEarly(k, p)
           \/ \E h \in Headers : Free(k, h)
           \/ PollOver(k) \/ WaitOver(k) \/ WaitTimeout(k)
    PROVE  TypeOK'
<1> USE SamePortType, SameStateType, SameThreadType DEF TypeOK
<1>1. ASSUME NEW c \in Commands, SendCommand(k, c) PROVE TypeOK'
  <2>1. CallTypeOK'
    BY <1>1, CallType DEF SendCommand, CallTypeOK, Calls, Call, Places, ghosts
  <2>2. QED BY <1>1, <2>1 DEF SendCommand
<1>2. CASE Pend(k) \/ ClearProcessed(k) \/ PostCommand(k)
  <2>1. at[k] \in {"post", "pend", "add"} /\ call[k].cmd \in Commands
    BY <1>2 DEF Pend, ClearProcessed, PostCommand, CallTypeOK
  <2>2. StateTypeOK'
    <3>1. pCmdQueue' \in Seq(Commands)
      BY <1>2, <2>1 DEF Pend, ClearProcessed, PostCommand, StateTypeOK
    <3>2. pendingCmd' \in Commands \cup {None} /\ bProcessed' \in BOOLEAN
      BY <1>2, <2>1 DEF Pend, ClearProcessed, PostCommand, StateTypeOK
    <3>3. UNCHANGED <<eCurState, resources, instance>>
      BY <1>2 DEF Pend, ClearProcessed, PostCommand
    <3>4. QED BY <3>1, <3>2, <3>3 DEF StateTypeOK
  <2>3. CASE Pend(k)
    <3>1. CallTypeOK'
      BY <2>3, <2>1 DEF Pend, CallTypeOK, Places, Owe
    <3>2. QED BY <2>3, <2>2, <3>1 DEF Pend
  <2>4. CASE ClearProcessed(k)
    <3>1. CallTypeOK'
      BY <2>4, <2>1 DEF ClearProcessed, CallTypeOK, Places, ghosts
    <3>2. QED BY <2>4, <2>2, <3>1 DEF ClearProcessed
  <2>5. CASE PostCommand(k)
    <3>1. CallTypeOK'
      BY <2>5, CallType DEF PostCommand, CallTypeOK, Calls, Places, ghosts
    <3>2. QED BY <2>5, <2>2, <3>1 DEF PostCommand
  <2>6. QED BY <1>2, <2>3, <2>4, <2>5
<1>3. CASE ResetPending(k)
  <2>1. StateTypeOK'
    BY <1>3, ResetType DEF ResetPending
  <2>2. owed' \in [Commands -> Int]
    BY <1>3, AnswerType DEF ResetPending, CallTypeOK
  <2>3. resets' \in 0..MaxResets
    BY <1>3, ComponentAssumption DEF ResetPending, CallTypeOK
  <2>4. UNCHANGED <<at, call, passing, dueBack>>
    BY <1>3 DEF ResetPending, callVars
  <2>5. CallTypeOK'
    BY <2>2, <2>3, <2>4 DEF CallTypeOK
  <2>6. QED BY <1>3, <2>1, <2>5 DEF ResetPending
<1>4. ASSUME NEW p \in Ports, Allocate(k, p) PROVE TypeOK'
  BY <1>4, EnterType DEF Allocate, Places
<1>5. ASSUME NEW p \in Ports, UseEarly(k, p) PROVE TypeOK'
  BY <1>5, EnterType DEF UseEarly, Places
<1>6. ASSUME NEW h \in Headers, Free(k, h) PROVE TypeOK'
  BY <1>6, EnterType, HeaderPort DEF Free, Places
<1>7. CASE PollOver(k)
  BY <1>7, MoveType DEF PollOver, Places
<1>8. CASE WaitOver(k)
  <2>1. CallTypeOK'
    BY <1>8, LeaveType, MoveType DEF WaitOver, Places
  <2>2. QED BY <1>8, <2>1 DEF WaitOver
<1>9. CASE WaitTimeout(k)
  BY <1>9, LeaveType DEF WaitTimeout
<1>10. QED BY <1>1, <1>2, <1>3, <1>4, <1>5, <1>6, <1>7, <1>8, <1>9

LEMMA BuffersType ==
    ASSUME TypeOK, NEW k \in Controllers,
           \/ AllocateAct(k) \/ AllocateRefused(k) \/ AllocateFails(k)
           \/ FreeAct(k) \/ FreeDrain(k) \/ FreeGet(k) \/ FreeMatch(k)
    PROVE  TypeOK'
<1> USE SamePortType, SameStateType, SameThreadType DEF TypeOK
<1>p. call[k].port \in Ports
  BY DEF CallTypeOK
<1>1. CASE AllocateAct(k)
  <2>1. PortTypeOK'
    BY <1>1, <1>p, RegisterType DEF AllocateAct
  <2>2. CallTypeOK'
    BY <1>1, LeaveType, MoveType DEF AllocateAct, Places
  <2>3. QED BY <1>1, <2>1, <2>2 DEF AllocateAct
<1>2. CASE AllocateRefused(k)
  BY <1>2, LeaveType DEF AllocateRefused
<1>3. CASE AllocateFails(k)
  <2>1. StateTypeOK'
    BY <1>3 DEF DoIdle2Loaded, AllocateFails, StateTypeOK
  <2>2. owed' \in [Commands -> Int]
    BY <1>3, AnswerType DEF AllocateFails, CallTypeOK
  <2>3. CallTypeOK'
    BY <1>3, <2>2, CallType DEF AllocateFails, CallTypeOK, Calls, Leave, Places
  <2>4. QED BY <1>3, <2>1, <2>3 DEF AllocateFails
<1>4. CASE FreeAct(k)
  <2>1. PortTypeOK'
    <3>1. UNCHANGED <<bEnabled, bPopulated, table>>
      BY <1>4 DEF FreeAct
    <3>2. CASE UNCHANGED flow
      BY <3>1, <3>2, SamePortType DEF portVars
    <3>3. CASE ReturnHeld(call[k].port)
      BY <1>p, <3>1, <3>3, ReturnType DEF PortTypeOK
    <3>4. QED BY <1>4, <3>2, <3>3 DEF FreeAct
  <2>2. CallTypeOK'
    BY <1>4, MoveType DEF FreeAct, Places
  <2>3. QED BY <1>4, <2>1, <2>2 DEF FreeAct
<1>5. CASE FreeDrain(k)
  <2>1. CallTypeOK'
    BY <1>5, MoveType DEF FreeDrain, Places
  <2>2. QED BY <1>5, <2>1 DEF FreeDrain
<1>6. CASE FreeGet(k)
  <2>1. PortTypeOK'
    BY <1>6, <1>p, GetAndSendType DEF FreeGet
  <2>2. dueBack' \in [Ports -> SUBSET Headers]
    BY <1>6, <1>p DEF FreeGet, CallTypeOK
  <2>3. CallTypeOK'
    BY <1>6, <2>2 DEF FreeGet, CallTypeOK, Places
  <2>4. QED BY <1>6, <2>1, <2>3 DEF FreeGet
<1>7. CASE FreeMatch(k)
  <2>1. PortTypeOK'
    BY <1>7, <1>p, UnregisterType DEF FreeMatch
  <2>2. CallTypeOK'
    BY <1>7, LeaveType, MoveType DEF FreeMatch, Places
  <2>3. QED BY <1>7, <2>1, <2>2 DEF FreeMatch
<1>8. QED BY <1>1, <1>2, <1>3, <1>4, <1>5, <1>6, <1>7

LEMMA NotifyType ==
    ASSUME TypeOK, NEW k \in Controllers,
           NotifyOn(k) \/ NotifyOff(k) \/ Reply(k) \/ Conclude(k)
    PROVE  TypeOK'
<1> USE SamePortType, SameStateType, SameThreadType DEF TypeOK
<1>1. CASE NotifyOn(k)
  <2>1. CallTypeOK'
    BY <1>1, LeaveType, MoveType DEF NotifyOn, ReplyIf, Places
  <2>2. QED BY <1>1, <2>1 DEF NotifyOn
<1>2. CASE NotifyOff(k)
  <2>1. StateTypeOK'
    BY <1>2 DEF DoIdle2Loaded, NotifyOff, StateTypeOK
  <2>2. owed' \in [Commands -> Int]
    BY <1>2, AnswerType DEF NotifyOff, CallTypeOK
  <2>3. CallTypeOK'
    BY <1>2, <2>2, CallType, SMTT(30) DEF NotifyOff, ReplyIf, CallTypeOK, Calls, Leave, Places
  <2>4. QED BY <1>2, <2>1, <2>3 DEF NotifyOff
<1>3. CASE Reply(k)
  <2>1. StateTypeOK'
    BY <1>3, ResetType DEF Reply
  <2>2. [call[k] EXCEPT !.cmd = pendingCmd] \in Calls
    <3>1. call[k] \in Calls /\ pendingCmd \in Commands \cup {None}
      BY DEF StateTypeOK, CallTypeOK, Calls
    <3>2. QED BY <3>1 DEF Calls
  <2>3. call' \in [Controllers -> Calls]
    BY <1>3, <2>2 DEF Reply, CallTypeOK, Calls
  <2>4. at' = [at EXCEPT ![k] = "conclude"]
    BY <1>3 DEF Reply
  <2>5. \A j \in Controllers :
           at'[j] \in {"post", "pend", "add"} => call'[j].cmd \in Commands
    BY <1>3, <2>4 DEF Reply, CallTypeOK
  <2>6. CallTypeOK'
    BY <1>3, <2>3, <2>4, <2>5 DEF Reply, CallTypeOK, Calls, Places, ghosts
  <2>7. QED BY <1>3, <2>1, <2>6 DEF Reply
<1>4. CASE Conclude(k)
  <2>1. call[k].cmd \in Commands \cup {None}
    BY DEF CallTypeOK
  <2>2. eCurState' \in States
    BY <1>4, <2>1, CommandTypes DEF Conclude, StateTypeOK
  <2>3. StateTypeOK'
    BY <1>4, <2>2 DEF Conclude, StateTypeOK
  <2>4. owed' \in [Commands -> Int]
    BY <1>4, AnswerType DEF Conclude, CallTypeOK
  <2>5. CallTypeOK'
    BY <1>4, <2>4, CallType DEF Conclude, CallTypeOK, Calls, Leave, Places
  <2>6. QED BY <1>4, <2>3, <2>5 DEF Conclude
<1>5. QED BY <1>1, <1>2, <1>3, <1>4

LEMMA FeedersType ==
    ASSUME TypeOK, NEW f \in Feeders, Feed(f)
    PROVE  TypeOK'
<1> USE SamePortType, SameStateType, SameThreadType DEF TypeOK
<1>1. ASSUME NEW h \in Headers, PassBuffer(f, h) PROVE TypeOK'
  BY <1>1 DEF PassBuffer, CallTypeOK, callVars, ghosts
<1>2. CASE QueueBuffer(f)
  <2>1. passing[f] \in Headers
    BY <1>2 DEF QueueBuffer, CallTypeOK
  <2>2. PortTypeOK'
    BY <1>2, <2>1, AddType DEF QueueBuffer
  <2>3. CallTypeOK'
    BY <1>2 DEF QueueBuffer, CallTypeOK, callVars, ghosts
  <2>4. QED BY <1>2, <2>2, <2>3 DEF QueueBuffer
<1>3. QED BY <1>1, <1>2 DEF Feed

-----------------------------------------------------------------------------
(* Every step of the component's thread keeps the types. *)

LEMMA TakeType ==
    ASSUME TypeOK, NEW c, NEW result \in {"None", "NotComplete", "Error"},
           NEW ports \in Seq(Ports), Take(c, result, ports),
           resources' \in BOOLEAN, instance' \in BOOLEAN
    PROVE  TypeOK'
<1> USE SamePortType DEF TypeOK
<1>1. c \in Commands /\ pCmdQueue' \in Seq(Commands)
  BY DEF Take, StateTypeOK
<1>2. StateTypeOK'
  BY <1>1 DEF Take, StateTypeOK
<1>3. ThreadTypeOK'
  BY <1>1 DEF Take, ThreadTypeOK
<1>4. CallTypeOK'
  BY DEF Take, CallTypeOK, callVars, ghosts
<1>5. QED BY <1>2, <1>3, <1>4 DEF Take

LEMMA CommandsType ==
    ASSUME TypeOK,
           \/ LoadedToIdle \/ IdleToLoaded \/ IdleToRunning \/ RunningToIdle
           \/ OtherStateSet \/ PortCommand
    PROVE  TypeOK'
<1>1. <<>> \in Seq(Ports) /\ AllPorts \in Seq(Ports)
       /\ \A p \in Ports : <<p>> \in Seq(Ports)
  BY PortAssumption DEF AllPorts, Ports
<1>2. resources \in BOOLEAN /\ instance \in BOOLEAN
  BY DEF TypeOK, StateTypeOK
<1>3. CASE LoadedToIdle
  BY <1>1, <1>2, <1>3, TakeType DEF DoIdle2Loaded, LoadedToIdle
<1>4. CASE IdleToLoaded
  BY <1>1, <1>2, <1>4, TakeType DEF DoIdle2Loaded, IdleToLoaded
<1>5. CASE IdleToRunning
  BY <1>1, <1>2, <1>5, TakeType DEF InstanceDeInit, IdleToRunning
<1>6. CASE RunningToIdle
  BY <1>1, <1>2, <1>6, TakeType DEF InstanceDeInit, RunningToIdle
<1>7. CASE OtherStateSet
  BY <1>1, <1>2, <1>7, TakeType DEF OtherStateSet
<1>8. CASE PortCommand
  BY <1>1, <1>2, <1>8, TakeType DEF PortCommand
<1>9. QED BY <1>3, <1>4, <1>5, <1>6, <1>7, <1>8

\* Going on to the next port, or past the last.
LEMMA NextPortType ==
    ASSUME todo \in Seq(Ports), todo # <<>>
    PROVE  /\ Head(todo) \in Ports
           /\ Tail(todo) \in Seq(Ports)
           /\ ToProcessed \in {"processed", "ports"}
           /\ ToProcessed = "ports" => Tail(todo) # <<>>
<1>1. Head(todo) \in Ports /\ Tail(todo) \in Seq(Ports)
  OBVIOUS
<1>2. Len(todo) # 1 => Len(Tail(todo)) # 0
  OBVIOUS
<1>3. ToProcessed \in {"processed", "ports"}
  BY DEF ToProcessed
<1>4. ToProcessed = "ports" => Len(todo) # 1
  BY DEF ToProcessed
<1>5. Len(<<>>) = 0
  OBVIOUS
<1>6. QED BY <1>1, <1>2, <1>3, <1>4, <1>5

LEMMA PortsType ==
    ASSUME TypeOK, EnablePort \/ DisablePort \/ ReturnPort \/ Drain \/ DrainGet
    PROVE  TypeOK'
<1> USE SamePortType, SameStateType DEF TypeOK
<1>1. /\ Head(todo) \in Ports /\ Tail(todo) \in Seq(Ports)
      /\ ToProcessed \in {"processed", "ports"}
      /\ ToProcessed = "ports" => Tail(todo) # <<>>
  BY NextPortType DEF ThreadTypeOK, EnablePort, DisablePort, ReturnPort, Drain, DrainGet
<1>2. Queued(Head(todo)) \in SUBSET Headers
  BY <1>1, QueuedType
<1>3. CASE EnablePort
  <2>1. PortTypeOK'
    BY <1>1, <1>3 DEF EnablePort, PortTypeOK, table, flow
  <2>2. ThreadTypeOK'
    BY <1>1, <1>3 DEF EnablePort, ThreadTypeOK
  <2>3. CallTypeOK'
    BY <1>3 DEF EnablePort, CallTypeOK, callVars, ghosts
  <2>4. QED BY <1>3, <2>1, <2>2, <2>3 DEF EnablePort
<1>4. CASE DisablePort
  <2>1. bEnabled' \subseteq Ports /\ UNCHANGED <<bPopulated, table>>
    BY <1>4 DEF DisablePort, PortTypeOK
  <2>2. PortTypeOK'
    <3>1. CASE UNCHANGED flow
      BY <2>1, <3>1 DEF PortTypeOK, table, flow
    <3>2. CASE ReturnHeld(Head(todo))
      BY <1>1, <2>1, <3>2, ReturnType
    <3>3. QED BY <1>4, <3>1, <3>2 DEF DisablePort
  <2>3. ThreadTypeOK'
    BY <1>1, <1>4 DEF DisablePort, ThreadTypeOK
  <2>4. CallTypeOK'
    BY <1>1, <1>2, <1>4 DEF DisablePort, CallTypeOK, callVars
  <2>5. QED BY <1>4, <2>2, <2>3, <2>4 DEF DisablePort
<1>5. CASE ReturnPort
  <2>1. bEnabled' \subseteq Ports
    BY <1>5 DEF ReturnPort, PortTypeOK
  <2>2. PortTypeOK'
    BY <1>1, <1>5, <2>1, ReturnType DEF ReturnPort
  <2>3. BufferNum(Head(todo)) \in Int
    BY <1>1 DEF BufferNum, PortTypeOK
  <2>4. ThreadTypeOK'
    BY <1>5, <2>3 DEF FlushCount, ReturnPort, ThreadTypeOK
  <2>5. CallTypeOK'
    BY <1>1, <1>2, <1>5 DEF ReturnPort, CallTypeOK, callVars
  <2>6. QED BY <1>5, <2>2, <2>4, <2>5 DEF ReturnPort
<1>6. CASE Drain
  <2>1. ThreadTypeOK'
    BY <1>1, <1>6 DEF Drain, ThreadTypeOK
  <2>2. CallTypeOK'
    BY <1>6 DEF Drain, CallTypeOK, callVars, ghosts
  <2>3. QED BY <1>6, <2>1, <2>2 DEF Drain
<1>7. CASE DrainGet
  <2>1. PortTypeOK'
    BY <1>1, <1>7, GetAndSendType DEF DrainGet
  <2>2. ThreadTypeOK'
    BY <1>7 DEF DrainGet, ThreadTypeOK
  <2>3. CallTypeOK'
    BY <1>1, <1>7 DEF DrainGet, CallTypeOK, callVars
  <2>4. QED BY <1>7, <2>1, <2>2, <2>3 DEF DrainGet
<1>8. QED BY <1>3, <1>4, <1>5, <1>6, <1>7

LEMMA RepliesType ==
    ASSUME TypeOK, Processed \/ ClearPending \/ Event
    PROVE  TypeOK'
<1> USE SamePortType DEF TypeOK
<1>1. CASE Processed
  <2>1. StateTypeOK' /\ ThreadTypeOK'
    BY <1>1, PortAssumption DEF EventsFor, Processed, StateTypeOK, ThreadTypeOK
  <2>2. CallTypeOK'
    BY <1>1 DEF Processed, CallTypeOK, callVars, ghosts
  <2>3. QED BY <1>1, <2>1, <2>2 DEF Processed
<1>2. CASE ClearPending
  <2>1. StateTypeOK' /\ ThreadTypeOK'
    BY <1>2, ResetType DEF ClearPending, ThreadTypeOK
  <2>2. CallTypeOK'
    BY <1>2 DEF ClearPending, CallTypeOK, callVars, ghosts
  <2>3. QED BY <1>2, <2>1, <2>2 DEF ClearPending
<1>3. CASE Event
  <2>1. now \in Commands \cup {None}
    BY DEF ThreadTypeOK
  <2>2. eCurState' \in States
    BY <1>3, <2>1, CommandTypes DEF Event, StateTypeOK
  <2>3. StateTypeOK'
    BY <1>3, <2>2 DEF DoIdle2Loaded, Event, StateTypeOK
  <2>4. ThreadTypeOK'
    BY <1>3 DEF Event, ThreadTypeOK
  <2>5. owed' \in [Commands -> Int]
    BY <1>3, AnswerType DEF Event, CallTypeOK
  <2>6. CallTypeOK'
    BY <1>3, <2>5 DEF Event, CallTypeOK, callVars
  <2>7. QED BY <1>3, <2>3, <2>4, <2>6 DEF Event
<1>4. QED BY <1>1, <1>2, <1>3

LEMMA ProcessBufferType ==
    ASSUME TypeOK, ProcessBuffer
    PROVE  TypeOK'
<1> USE SamePortType, SameStateType DEF TypeOK
<1>1. ASSUME NEW p \in Ports, TakeBuffer(p) PROVE TypeOK'
  BY <1>1 DEF TakeBuffer, ThreadTypeOK, CallTypeOK, callVars, ghosts
<1>2. CASE TakeGet
  <2>1. Head(todo) \in Ports
    BY <1>2, NextPortType DEF TakeGet, ThreadTypeOK
  <2>2. PortTypeOK'
    BY <1>2, <2>1, GetAndHoldType DEF TakeGet
  <2>3. QED BY <1>2, <2>2 DEF TakeGet, ThreadTypeOK, CallTypeOK, callVars, ghosts
<1>3. ASSUME NEW h \in Headers, SendDone(h) PROVE TypeOK'
  BY <1>3, SendHeldType DEF SendDone, ThreadTypeOK, CallTypeOK, callVars, ghosts
<1>4. CASE NoBuffer
  BY <1>4 DEF NoBuffer, ThreadTypeOK, CallTypeOK, callVars, ghosts
<1>5. QED BY <1>1, <1>2, <1>3, <1>4 DEF ProcessBuffer

LEMMA InitType == Init => TypeOK
<1> SUFFICES ASSUME Init PROVE TypeOK
  OBVIOUS
<1>1. PortTypeOK
  <2>1. BufferHdrArry \in [Ports -> [Slots -> Headers \cup {NULL}]]
    BY DEF Init, PortInit
  <2>2. nBufferHdrNum \in [Ports -> Int] /\ pPortQueue \in [Ports -> Seq(Headers)]
    BY DEF Init, PortInit
  <2>3. held \in [Ports -> SUBSET Headers] /\ owned \subseteq Headers
    BY DEF Init, PortInit
  <2>4. bEnabled \subseteq Ports /\ bPopulated \subseteq Ports
    BY DEF Init, PortInit
  <2>5. QED BY <2>1, <2>2, <2>3, <2>4 DEF PortTypeOK
<1>2. StateTypeOK
  <2>1. eCurState \in States /\ pendingCmd \in Commands \cup {None}
    BY DEF Init, States
  <2>2. bProcessed \in BOOLEAN /\ resources \in BOOLEAN /\ instance \in BOOLEAN
    BY DEF Init
  <2>3. pCmdQueue \in Seq(Commands)
    BY DEF Init
  <2>4. QED BY <2>1, <2>2, <2>3 DEF StateTypeOK
<1>3. ThreadTypeOK
  <2>1. /\ now \in Commands \cup {None} /\ ret \in {"None", "NotComplete", "Error"}
        /\ nBuffer \in Int /\ replies \in Int
    BY DEF Init
  <2>2. pc = "cmd" /\ todo \in Seq(Ports)
    BY DEF Init
  <2>3. stray \in BOOLEAN
    BY DEF Init
  <2>4. QED BY <2>1, <2>2, <2>3 DEF ThreadTypeOK
<1>4. CallTypeOK
  <2>1. call \in [Controllers -> Calls] /\ at \in [Controllers -> Places]
    BY CallType DEF Init, Places
  <2>2. passing \in [Feeders -> Headers \cup {NULL}] /\ owed \in [Commands -> Int]
    BY DEF Init
  <2>3. dueBack \in [Ports -> SUBSET Headers]
    BY DEF Init
  <2>4. resets \in 0..MaxResets
    BY ComponentAssumption DEF Init
  <2>5. \A k \in Controllers : at[k] \notin {"post", "pend", "add"}
    BY DEF Init
  <2>6. QED BY <2>1, <2>2, <2>3, <2>4, <2>5 DEF CallTypeOK, Calls
<1>5. QED BY <1>1, <1>2, <1>3, <1>4 DEF TypeOK

LEMMA NextType == TypeOK /\ [Next]_vars => TypeOK'
<1> SUFFICES ASSUME TypeOK, [Next]_vars PROVE TypeOK'
  OBVIOUS
<1>1. ASSUME NEW k \in Controllers, Control(k) PROVE TypeOK'
  BY <1>1, CallsType, BuffersType, NotifyType DEF Control, Proceed, BufferCall
<1>2. ASSUME NEW f \in Feeders, Feed(f) PROVE TypeOK'
  BY <1>2, FeedersType
<1>3. CASE DoThread
  BY <1>3, CommandsType, PortsType, RepliesType, ProcessBufferType DEF DoThread, ProcessCmd
<1>4. CASE UNCHANGED vars
  BY <1>4, SamePortType, SameStateType, SameThreadType
     DEF vars, TypeOK, CallTypeOK, callVars, ghosts
<1>5. QED BY <1>1, <1>2, <1>3, <1>4 DEF Next

\* The state of a component, of its thread and of its clients' calls has its
\* types whatever the clients do: in particular a port number is what the
\* thread's loops over the ports use, and what they wait for is never a call
\* without a command.
THEOREM TypeCorrect == Spec => []TypeOK
<1>1. QED BY InitType, NextType, PTL DEF Spec

-----------------------------------------------------------------------------
(* The loop of ReturnBuffers, or of Flush, over a port goes on until the   *)
(* last of the buffers that it started with.                               *)

\* A header that is due is queued, and before the end of Flush's count.
DueAt(p, h) ==
    \E i \in 1..Len(pPortQueue[p]) :
        pPortQueue[p][i] = h /\ (now.cmd = "Flush" => i <= nBuffer)

DueQueued ==
    \A p \in Ports :
        dueBack[p] # {} => /\ pc \in {"drain", "get"} /\ p = Head(todo)
                          /\ \A h \in dueBack[p] : DueAt(p, h)

LEMMA SameDue ==
    ASSUME DueQueued, UNCHANGED <<dueBack, pPortQueue, pc, now, todo, nBuffer>>
    PROVE  DueQueued'
BY DEF DueQueued, DueAt

LEMMA NoneDue ==
    ASSUME DueQueued, pc \notin {"drain", "get"}, UNCHANGED dueBack
    PROVE  DueQueued'
BY DEF DueQueued

\* A header that is due moves up when the port's first one goes.
LEMMA MoveUp ==
    ASSUME NEW q \in Seq(Headers), q # <<>>, NEW i \in 1..Len(q), q[i] # Head(q)
    PROVE  /\ i - 1 \in 1..Len(Tail(q))
           /\ Tail(q)[i - 1] = q[i]
OBVIOUS

\* The count of Flush goes down with it, or stays.
LEMMA GetKeepsDue ==
    ASSUME TypeOK, DueQueued, NEW r \in Ports, GetAndSendBuffer(r),
           dueBack' = [dueBack EXCEPT ![r] = @ \ {Head(pPortQueue[r])}],
           UNCHANGED <<now, todo>>,
           pc \in {"drain", "get"} => pc' \in {"drain", "get"},
           nBuffer' = nBuffer \/ (nBuffer' = nBuffer - 1 /\ r = Head(todo))
    PROVE  DueQueued'
<1> SUFFICES ASSUME NEW p \in Ports, dueBack'[p] # {}
             PROVE  /\ pc' \in {"drain", "get"} /\ p = Head(todo)
                    /\ \A h \in dueBack'[p] : DueAt(p, h)'
  BY DEF DueQueued
<1>1. dueBack \in [Ports -> SUBSET Headers] /\ pPortQueue \in [Ports -> Seq(Headers)]
       /\ nBuffer \in Int
  BY DEF TypeOK, CallTypeOK, PortTypeOK, ThreadTypeOK
<1>2. dueBack'[p] \subseteq dueBack[p]
  BY <1>1
<1>3. pc' \in {"drain", "get"} /\ p = Head(todo)
  BY <1>2 DEF DueQueued
<1>4. ASSUME NEW h \in dueBack'[p] PROVE DueAt(p, h)'
  <2>1. PICK i \in 1..Len(pPortQueue[p]) :
           pPortQueue[p][i] = h /\ (now.cmd = "Flush" => i <= nBuffer)
    BY <1>2, <1>4 DEF DueQueued, DueAt
  <2>2. CASE p = r
    <3>1. h # Head(pPortQueue[r]) /\ pPortQueue[r] # <<>>
      BY <1>1, <1>4, <2>2 DEF GetAndSendBuffer
    <3>2. pPortQueue'[r] = Tail(pPortQueue[r])
      BY <1>1 DEF GetAndSendBuffer
    <3>3. i - 1 \in 1..Len(pPortQueue'[p]) /\ pPortQueue'[p][i - 1] = h
      BY <1>1, <2>1, <2>2, <3>1, <3>2, MoveUp
    <3>4. now'.cmd = "Flush" => i - 1 <= nBuffer'
      BY <1>1, <2>1
    <3>5. QED BY <3>3, <3>4 DEF DueAt
  <2>3. CASE p # r
    <3>1. pPortQueue'[p] = pPortQueue[p] /\ nBuffer' = nBuffer
      BY <1>1, <1>3, <2>3 DEF GetAndSendBuffer
    <3>2. QED BY <2>1, <3>1 DEF DueAt
  <2>4. QED BY <2>2, <2>3
<1>5. QED BY <1>3, <1>4

LEMMA ControlKeepsDue ==
    ASSUME TypeOK, DueQueued, NEW k \in Controllers, Control(k)
    PROVE  DueQueued'
<1> USE DEF threadVars, ghosts, portVars, flow
<1>1. CASE FreeGet(k)
  <2>1. call[k].port \in Ports
    BY DEF TypeOK, CallTypeOK
  <2>2. QED BY <1>1, <2>1, GetKeepsDue DEF FreeGet
<1>2. CASE FreeAct(k)
  BY <1>2, SameDue DEF FreeAct, ReturnHeld
<1>3. CASE AllocateAct(k)
  BY <1>3, SameDue DEF AllocateAct, RegisterHeader
<1>4. CASE FreeMatch(k)
  BY <1>4, SameDue DEF FreeMatch, UnregisterHeader
<1>5. CASE \/ \E c \in Commands : SendCommand(k, c)
           \/ Pend(k) \/ ClearProcessed(k) \/ PostCommand(k) \/ ResetPending(k)
           \/ \E p \in Ports : Allocate(k, p) \/ UseEarly(k, p)
           \/ \E h \in Headers : Free(k, h)
           \/ PollOver(k) \/ WaitOver(k) \/ WaitTimeout(k)
  BY <1>5, SameDue DEF SendCommand, Pend, ClearProcessed, PostCommand, ResetPending, Allocate,
                       UseEarly, Free, PollOver, WaitOver, WaitTimeout
<1>6. CASE AllocateRefused(k) \/ AllocateFails(k) \/ FreeDrain(k)
  BY <1>6, SameDue DEF AllocateRefused, AllocateFails, FreeDrain
<1>7. CASE NotifyOn(k) \/ NotifyOff(k) \/ Reply(k) \/ Conclude(k)
  BY <1>7, SameDue DEF NotifyOn, NotifyOff, Reply, Conclude
<1>8. QED BY <1>1, <1>2, <1>3, <1>4, <1>5, <1>6, <1>7 DEF Control, Proceed, BufferCall

LEMMA FeedKeepsDue ==
    ASSUME TypeOK, DueQueued, NEW f \in Feeders, Feed(f)
    PROVE  DueQueued'
<1> USE DEF threadVars, ghosts, portVars, flow
<1>1. ASSUME NEW h \in Headers, PassBuffer(f, h) PROVE DueQueued'
  BY <1>1, SameDue DEF PassBuffer
<1>2. CASE QueueBuffer(f)
  <2>1. ASSUME NEW p \in Ports, NEW i \in 1..Len(pPortQueue[p])
        PROVE  i \in 1..Len(pPortQueue'[p]) /\ pPortQueue'[p][i] = pPortQueue[p][i]
    <3>1. pPortQueue[p] \in Seq(Headers) /\ passing[f] \in Headers
      BY <1>2 DEF QueueBuffer, TypeOK, PortTypeOK, CallTypeOK
    <3>2. pPortQueue'[p] = pPortQueue[p] \/ pPortQueue'[p] = Append(pPortQueue[p], passing[f])
      BY <1>2 DEF QueueBuffer, AddBuffer, TypeOK, PortTypeOK
    <3>3. QED BY <3>1, <3>2
  <2>2. UNCHANGED <<pc, now, todo, nBuffer, dueBack>>
    BY <1>2 DEF QueueBuffer
  <2>3. QED BY <2>1, <2>2, SMTT(30) DEF DueQueued, DueAt
<1>3. QED BY <1>1, <1>2 DEF Feed

\* The loop starts with all that is queued, and Flush counts it.
LEMMA StartDue ==
    ASSUME TypeOK, DueQueued, pc = "ports", pc' = "drain", UNCHANGED <<now, todo, pPortQueue>>,
           dueBack' = [dueBack EXCEPT ![Head(todo)] = Queued(Head(todo))],
           now.cmd = "Flush" => nBuffer' = BufferNum(Head(todo))
    PROVE  DueQueued'
<1>1. ASSUME NEW p \in Ports, p # Head(todo) PROVE dueBack'[p] = {}
  BY <1>1 DEF DueQueued, TypeOK, CallTypeOK
<1>2. ASSUME NEW p \in Ports, p = Head(todo), NEW h \in dueBack'[p] PROVE DueAt(p, h)'
  <2>1. h \in Queued(p)
    BY <1>2 DEF TypeOK, CallTypeOK
  <2>2. PICK i \in 1..Len(pPortQueue[p]) : pPortQueue[p][i] = h
    BY <2>1 DEF Queued, BufferNum
  <2>3. now.cmd = "Flush" => i <= nBuffer'
    BY <1>2, <2>2 DEF BufferNum
  <2>4. QED BY <2>2, <2>3 DEF DueAt
<1>3. QED BY <1>1, <1>2 DEF DueQueued

LEMMA ThreadKeepsDue ==
    ASSUME TypeOK, DueQueued, DoThread
    PROVE  DueQueued'
<1> USE DEF ghosts
<1>1. CASE \/ LoadedToIdle \/ IdleToLoaded \/ IdleToRunning \/ RunningToIdle
           \/ OtherStateSet \/ PortCommand
  BY <1>1, NoneDue DEF LoadedToIdle, IdleToLoaded, IdleToRunning, RunningToIdle,
                       OtherStateSet, PortCommand, Take
<1>2. CASE EnablePort \/ Processed \/ ClearPending \/ Event
  BY <1>2, NoneDue DEF EnablePort, Processed, ClearPending, Event
<1>3. CASE ProcessBuffer
  BY <1>3, NoneDue DEF ProcessBuffer, TakeBuffer, TakeGet, SendDone, NoBuffer, BufferTurn
<1>4. CASE DisablePort
  BY <1>4, NoneDue, StartDue DEF DisablePort, ReturnHeld
<1>5. CASE ReturnPort
  BY <1>5, StartDue DEF FlushCount, ReturnPort, ReturnHeld
<1>6. CASE Drain
  <2>1. CASE pc' = "get"
    BY <1>6, <2>1 DEF Drain, DueQueued, DueAt, ToProcessed, portVars, flow
  <2>2. CASE pc' # "get"
    <3>1. nBuffer \in Int /\ \A p \in Ports : Len(pPortQueue[p]) \in Nat
      BY DEF TypeOK, ThreadTypeOK, PortTypeOK
    <3>2. \A p \in Ports : dueBack[p] = {}
      BY <1>6, <2>2, <3>1 DEF Drain, DueQueued, DueAt, BufferNum
    <3>3. QED BY <1>6, <3>2 DEF Drain, DueQueued
  <2>3. QED BY <2>1, <2>2
<1>7. CASE DrainGet
  <2>1. Head(todo) \in Ports
    BY <1>7, NextPortType DEF DrainGet, TypeOK, ThreadTypeOK
  <2>2. QED BY <1>7, <2>1, GetKeepsDue DEF DrainGet
<1>8. QED BY <1>1, <1>2, <1>3, <1>4, <1>5, <1>6, <1>7 DEF DoThread, ProcessCmd

\* Flush, PortDisable and the way to Idle (Port::Flush and Port::ReturnBuffers)
\* leave no port before all that it had queued is back with the client, although
\* feeders add buffers and FreeBuffer takes some away meanwhile.
THEOREM AllGivenBack == Spec => []BuffersGivenBack
<1>1. Init => DueQueued
  BY DEF Init, DueQueued
<1>2. TypeOK /\ DueQueued /\ [Next]_vars => DueQueued'
  <2> SUFFICES ASSUME TypeOK, DueQueued, [Next]_vars PROVE DueQueued'
    OBVIOUS
  <2>1. CASE UNCHANGED vars
    BY <2>1, SameDue DEF vars, threadVars, ghosts, portVars, flow
  <2>2. QED BY <2>1, ControlKeepsDue, FeedKeepsDue, ThreadKeepsDue DEF Next
<1>3. TypeOK /\ DueQueued => BuffersGivenBack
  BY DEF TypeOK, ThreadTypeOK, DueQueued, BuffersGivenBack
<1>4. QED BY <1>1, <1>2, <1>3, TypeCorrect, PTL DEF Spec

-----------------------------------------------------------------------------
(* One patient client.  A single thread drives the component, as the tests  *)
(* and GMComponent do; the feeders are its callbacks' threads.              *)

Disciplined ==
    /\ bPatient
    /\ \A j, k \in Controllers : j = k
    /\ \A c \in Commands : c.nParam # OMX_ALL
    /\ "DoLoaded2Idle" \notin Failures
    /\ \E p \in Ports : \A c \in Commands : c.cmd = "PortDisable" => c.nParam # p

\* A port that no command disables.
Anchored == \E p \in bEnabled : \A c \in Commands : c.cmd = "PortDisable" => c.nParam # p

Is(c, name, param) == c.cmd = name /\ c.nParam = param

Busy == InProcess \/ pc = "event"
NoCommand == pendingCmd = None /\ pCmdQueue = <<>> /\ ~Busy

\* SendCommand is between pendingCmd and the queue.
Posts == {"pend", "add"}
Posting == \E k \in Controllers : at[k] \in Posts

\* The command waits for the client's buffers.
Waiting == pendingCmd # None /\ pCmdQueue = <<>> /\ ~Busy /\ ~Posting

\* What SendCommand has checked.
Checked(c) ==
    /\ c.cmd = "StateSet" => c.nParam # eCurState
    /\ c.cmd = "PortDisable" => c.nParam \in bEnabled
    /\ c.cmd = "PortEnable" => c.nParam \in Ports \ bEnabled

\* The commands that the client's buffers complete.
Completable(c) ==
    \/ Is(c, "StateSet", Idle) /\ eCurState = Loaded
    \/ Is(c, "StateSet", Loaded) /\ eCurState = Idle
    \/ c.cmd \in {"PortEnable", "PortDisable"} /\ eCurState # Loaded

\* The transitions that the thread completes.
Moves(s, t) ==
    \/ s # Loaded /\ t = Invalid
    \/ s = Idle /\ t \in {Executing, Pause}
    \/ s \in {Executing, Pause} /\ t \in {Idle, Executing, Pause}

Accepting ==
    /\ pCmdQueue # <<>> =>
         /\ pCmdQueue = <<pendingCmd>> /\ pendingCmd # None
         /\ ~bProcessed /\ ~Busy /\ Checked(pendingCmd)
    /\ InProcess => pendingCmd = now /\ now # None
    /\ pc = "event" => pendingCmd = None /\ now # None
    /\ Waiting => bProcessed /\ Completable(pendingCmd)
    /\ pendingCmd.cmd = "StateSet" => pendingCmd.nParam # eCurState
    /\ eCurState # WaitForResources

Processing ==
    /\ pc \in {"ports", "drain", "get", "processed"} => ~bProcessed
    /\ pc = "ports" =>
         \/ now.cmd \in {"PortEnable", "PortDisable"} /\ todo = <<now.nParam>> /\ Checked(now)
         \/ now.cmd \notin {"PortEnable", "PortDisable"} /\ ret = "None" /\ ~Completable(now)
    /\ pc \in {"drain", "get", "processed"} => (ret = "NotComplete" <=> Completable(now))
    /\ pc \in {"drain", "get"} =>
         \/ now.cmd = "PortDisable" /\ todo = <<now.nParam>>
         \/ now.cmd \notin {"PortEnable", "PortDisable"} /\ ret = "None"
    /\ pc \in {"clear", "event"} => ret # "NotComplete" /\ replies = 1
    /\ pc = "clear" => ~Completable(now)
    /\ Busy /\ ret = "None" /\ now.cmd = "StateSet" => Moves(eCurState, now.nParam)

\* The pending command lets the client bring buffers to a port, or free them.
Brings(p) ==
    \/ Is(pendingCmd, "StateSet", Idle) /\ eCurState = Loaded /\ p \in bEnabled
    \/ Is(pendingCmd, "PortEnable", p) /\ eCurState # Loaded
Frees(p) ==
    \/ Is(pendingCmd, "StateSet", Loaded) /\ eCurState = Idle
    \/ Is(pendingCmd, "PortDisable", p) /\ eCurState # Loaded
    \/ NoCommand /\ eCurState = Loaded

Acting == {"act", "drain", "get", "match", "notify"}

Calling(k) ==
    /\ at[k] \notin {"poll", "pollwait"}
    /\ at[k] = "post" => NoCommand /\ Checked(call[k].cmd)
    /\ at[k] \in Posts =>
         /\ pendingCmd = call[k].cmd /\ pendingCmd # None /\ pCmdQueue = <<>>
         /\ ~Busy /\ Checked(pendingCmd)
    /\ at[k] = "add" => ~bProcessed
    /\ at[k] = "conclude" => NoCommand /\ call[k].cmd # None /\ Completable(call[k].cmd)
    /\ at[k] = "reply" => Waiting
    /\ at[k] \in {"drain", "get", "match"} => call[k].op = "free"
    /\ at[k] \in Acting \cup {"wait"} => call[k].op \in {"allocate", "free"}
    /\ at[k] = "wait" /\ call[k].op = "allocate" => Brings(call[k].port)
    /\ at[k] = "wait" /\ call[k].op = "free" => Frees(call[k].port)
    /\ at[k] \in Acting /\ call[k].op = "allocate" => Waiting /\ Brings(call[k].port)
    /\ at[k] \in Acting /\ call[k].op = "free" =>
         \/ (Waiting \/ NoCommand) /\ Frees(call[k].port)
         \/ eCurState = Loaded /\ nBufferHdrNum[call[k].port] = 0 /\ at[k] # "notify"

Concluding(c) == \E k \in Controllers : at[k] = "conclude" /\ call[k].cmd = c

\* The command whose event is still to come.
InHand(c) == pendingCmd = c \/ (pc = "event" /\ now = c) \/ Concluding(c)

OwedOnce == \A c \in Commands : /\ InHand(c) => owed[c] = 1
                                /\ ~InHand(c) => owed[c] = 0

Protocol ==
    /\ Anchored /\ Accepting /\ Processing /\ OwedOnce
    /\ \A k \in Controllers : Calling(k)

LEMMA Forms ==
    ASSUME NEW c \in Commands \cup {None}
    PROVE  /\ c = None <=> c.cmd = "None"
           /\ c \in Commands <=> c # None
           /\ \A s : c = StateSet(s) <=> Is(c, "StateSet", s)
           /\ \A p : c = [cmd |-> "PortEnable", nParam |-> p] <=> Is(c, "PortEnable", p)
           /\ \A p : c = [cmd |-> "PortDisable", nParam |-> p] <=> Is(c, "PortDisable", p)
           /\ Disciplined => c.nParam # OMX_ALL
<1> DEFINE R == [cmd : {"StateSet"}, nParam : States]
                \cup [cmd : PortCommands \cup {"MarkBuffer"}, nParam : Int]
<1>1. c \in R \/ c = None
  BY ComponentAssumption
<1>2. \A d \in R : d.cmd # "None" /\ d = [cmd |-> d.cmd, nParam |-> d.nParam]
  BY DEF PortCommands
<1>3. c = [cmd |-> c.cmd, nParam |-> c.nParam]
  BY <1>1, <1>2 DEF None
<1>4. c = None <=> c.cmd = "None"
  BY <1>1, <1>2 DEF None
<1>5. c \in Commands <=> c # None
  BY <1>2, ComponentAssumption DEF None
<1>6. Disciplined => c.nParam # OMX_ALL
  BY <1>5 DEF Disciplined, None, OMX_ALL
<1>7. QED BY <1>3, <1>4, <1>5, <1>6 DEF StateSet, Is

\* Nothing moves that the protocol is about.
LEMMA Quiet ==
    ASSUME Accepting, Processing, Anchored,
           UNCHANGED <<eCurState, pendingCmd, bProcessed, pCmdQueue, bEnabled, now, ret, replies>>,
           (pc' = pc /\ todo' = todo) \/ {pc, pc'} \subseteq {"cmd", "buf", "take"},
           Posting' <=> Posting
    PROVE  /\ Accepting' /\ Processing' /\ Anchored'
           /\ NoCommand' <=> NoCommand
           /\ Waiting' <=> Waiting
           /\ \A c : Completable(c)' <=> Completable(c)
           /\ \A c : Checked(c)' <=> Checked(c)
           /\ \A p : Brings(p)' <=> Brings(p)
           /\ \A p : Frees(p)' <=> Frees(p)
           /\ Busy' <=> Busy
<1>1. Anchored'
  BY DEF Anchored
<1>2. /\ \A c : Completable(c)' <=> Completable(c)
      /\ \A c : Checked(c)' <=> Checked(c)
  BY DEF Completable, Checked
<1>3. CASE pc' = pc /\ todo' = todo
  <2>1. /\ InProcess' <=> InProcess
        /\ Busy' <=> Busy
        /\ NoCommand' <=> NoCommand
        /\ Waiting' <=> Waiting
    BY <1>3 DEF InProcess, Busy, NoCommand, Waiting
  <2>2. Accepting'
    BY <1>2, <1>3, <2>1 DEF Accepting
  <2>3. Processing'
    BY <1>2, <1>3, <2>1 DEF Processing
  <2>4. QED BY <1>1, <1>2, <2>1, <2>2, <2>3 DEF Brings, Frees
<1>4. CASE pc \in {"cmd", "buf", "take"} /\ pc' \in {"cmd", "buf", "take"}
  <2>1. ~InProcess /\ ~InProcess' /\ ~Busy /\ ~Busy'
    BY <1>4 DEF InProcess, Busy
  <2>2. /\ NoCommand' <=> NoCommand
        /\ Waiting' <=> Waiting
    BY <2>1 DEF NoCommand, Waiting
  <2>3. Accepting'
    BY <1>2, <1>4, <2>1, <2>2 DEF Accepting
  <2>4. Processing'
    BY <1>4, <2>1 DEF Processing
  <2>5. QED BY <1>1, <1>2, <2>1, <2>2, <2>3, <2>4 DEF Brings, Frees
<1>5. QED BY <1>3, <1>4

\* A call that stays where it is.
LEMMA SameCall ==
    ASSUME NEW k \in Controllers, Calling(k), at'[k] = at[k], call'[k] = call[k],
           UNCHANGED <<eCurState, nBufferHdrNum, pendingCmd, bProcessed, pCmdQueue>>,
           Busy' <=> Busy,
           NoCommand' <=> NoCommand,
           Waiting' <=> Waiting,
           \A c : Completable(c)' <=> Completable(c),
           \A c : Checked(c)' <=> Checked(c),
           \A p : Brings(p)' <=> Brings(p),
           \A p : Frees(p)' <=> Frees(p)
    PROVE  Calling(k)'
BY DEF Calling

LEMMA SameOwed ==
    ASSUME OwedOnce, UNCHANGED <<at, call, pendingCmd, owed>>,
           (pc' = "event" /\ now' \in Commands) <=> (pc = "event" /\ now \in Commands),
           pc = "event" => now' = now
    PROVE  OwedOnce'
<1>1. \A c \in Commands : InHand(c)' <=> InHand(c)
  BY DEF InHand, Concluding
<1>2. QED BY <1>1 DEF OwedOnce

LEMMA SameConcluding ==
    ASSUME NEW k \in Controllers, \A j \in Controllers : j = k,
           at \in [Controllers -> Places], call \in [Controllers -> Calls],
           at'[k] # "conclude", at[k] # "conclude"
    PROVE  \A c : ~Concluding(c) /\ ~Concluding(c)'
BY DEF Concluding

\* The one client is elsewhere.
LEMMA NotPosting ==
    ASSUME Disciplined, NEW k \in Controllers
    PROVE  /\ at[k] \notin Posts => ~Posting
           /\ at'[k] \notin Posts => ~Posting'
BY DEF Disciplined, Posting

LEMMA SamePosting ==
    ASSUME UNCHANGED at
    PROVE  Posting' <=> Posting
BY DEF Posting

\* What SendCommand knows of the command until it is queued.
LEMMA PostsMean ==
    ASSUME Protocol, NEW k \in Controllers, at[k] \in Posts
    PROVE  /\ Posting /\ ~Waiting /\ ~NoCommand /\ pendingCmd # None
           /\ call[k].cmd = pendingCmd /\ pCmdQueue = <<>>
           /\ ~Busy /\ ~InProcess /\ pc # "event" /\ Checked(pendingCmd)
BY DEF Protocol, Calling, Posting, Waiting, NoCommand, Busy

\* The thread has the command, or will take it.
LEMMA ThreadHasIt ==
    ASSUME Protocol, Busy \/ pCmdQueue # <<>>
    PROVE  ~Posting /\ ~Waiting /\ ~NoCommand
BY PostsMean DEF Posting, Waiting, NoCommand

\* What a client that is not answered yet has in hand.
LEMMA AnsweredMeans ==
    ASSUME TypeOK, Protocol, Answered
    PROVE  NoCommand /\ \A k \in Controllers : at[k] # "conclude"
<1>1. ASSUME NEW c \in Commands PROVE ~InHand(c)
  <2>1. owed[c] <= 0
    BY DEF Answered
  <2>2. owed[c] # 1
    BY <2>1
  <2>3. QED BY <2>2 DEF Protocol, OwedOnce
<1>2. pendingCmd = None
  BY <1>1, Forms DEF InHand, TypeOK, StateTypeOK
<1>3. pc # "event" /\ ~InProcess
  BY <1>1, <1>2, Forms DEF InHand, TypeOK, ThreadTypeOK, Protocol, Accepting
<1>4. pCmdQueue = <<>>
  BY <1>2 DEF Protocol, Accepting
<1>5. ASSUME NEW k \in Controllers PROVE at[k] # "conclude"
  BY <1>1, Forms DEF InHand, Concluding, TypeOK, CallTypeOK, Protocol, Calling
<1>6. QED BY <1>2, <1>3, <1>4, <1>5 DEF NoCommand, Busy

-----------------------------------------------------------------------------
(* The client's calls *)

LEMMA SendProtocol ==
    ASSUME Disciplined, TypeOK, Protocol, NEW k \in Controllers, NEW c \in Commands,
           SendCommand(k, c)
    PROVE  Protocol'
<1>1. NoCommand /\ at[k] = "idle"
  <2>1. Answered
    BY ComponentAssumption DEF SendCommand, Disciplined
  <2>2. QED BY <2>1, AnsweredMeans DEF SendCommand
<1>2. Checked(c)
  BY Forms DEF SendCommand, CheckCommand, Checked
<1>3. UNCHANGED <<portVars, stateVars, threadVars, owed>>
  BY DEF SendCommand, ghosts
<1>4. UNCHANGED <<eCurState, pendingCmd, bProcessed, pCmdQueue, bEnabled, now, ret, replies, pc,
                  todo, nBufferHdrNum>>
  BY <1>3 DEF portVars, stateVars, threadVars, table
<1>5. at'[k] = "post" /\ call'[k].cmd = c
  BY DEF SendCommand, Call, TypeOK, CallTypeOK
<1>6. /\ Accepting' /\ Processing' /\ Anchored'
      /\ NoCommand' <=> NoCommand
      /\ \A d : Checked(d)' <=> Checked(d)
  <2>1. ~Posting /\ ~Posting'
    BY <1>1, <1>5, NotPosting DEF Posts
  <2>2. QED BY <1>4, <2>1, Quiet DEF Protocol
<1>7. Calling(k)'
  BY <1>1, <1>2, <1>5, <1>6 DEF Calling, Acting, Posts
<1>8. OwedOnce'
  <2>1. \A d : ~Concluding(d) /\ ~Concluding(d)'
    BY <1>1, <1>5, SameConcluding DEF Disciplined, TypeOK, CallTypeOK, Calls
  <2>2. \A d : InHand(d)' <=> InHand(d)
    BY <1>4, <2>1 DEF InHand
  <2>3. QED BY <1>3, <2>2 DEF OwedOnce, Protocol
<1>9. QED BY <1>6, <1>7, <1>8 DEF Protocol, Disciplined

\* A step of a call that leaves the command alone.
LEMMA CallMoves ==
    ASSUME Disciplined, TypeOK, Protocol, NEW k \in Controllers,
           UNCHANGED <<bEnabled, stateVars, threadVars, owed>>,
           at[k] \notin Posts \cup {"conclude"}, at'[k] \notin Posts \cup {"conclude"}, Calling(k)'
    PROVE  Protocol'
<1>1. /\ Accepting' /\ Processing' /\ Anchored'
  BY Quiet, NotPosting DEF Protocol, stateVars, threadVars
<1>2. OwedOnce'
  <2>1. \A d : ~Concluding(d) /\ ~Concluding(d)'
    BY SameConcluding DEF Disciplined, TypeOK, CallTypeOK, Calls
  <2>2. \A d : InHand(d)' <=> InHand(d)
    BY <2>1 DEF InHand, stateVars, threadVars
  <2>3. QED BY <2>2 DEF OwedOnce, Protocol
<1>3. QED BY <1>1, <1>2 DEF Protocol, Disciplined

LEMMA SameCommand ==
    ASSUME Disciplined, Protocol, UNCHANGED <<bEnabled, stateVars, threadVars>>,
           NEW k \in Controllers, at[k] \notin Posts, at'[k] \notin Posts
    PROVE  /\ NoCommand' <=> NoCommand
           /\ Waiting' <=> Waiting
           /\ \A c : Completable(c)' <=> Completable(c)
           /\ \A c : Checked(c)' <=> Checked(c)
           /\ \A p : Brings(p)' <=> Brings(p)
           /\ \A p : Frees(p)' <=> Frees(p)
BY Quiet, NotPosting DEF Protocol, stateVars, threadVars

\* A call that is over.
LEMMA IdleCall ==
    ASSUME NEW k \in Controllers, at'[k] = "idle"
    PROVE  Calling(k)'
BY DEF Calling, Acting, Posts

LEMMA LeaveMoves ==
    ASSUME Disciplined, TypeOK, Protocol, NEW k \in Controllers, Leave(k),
           UNCHANGED <<bEnabled, stateVars, threadVars, owed>>,
           at[k] \notin Posts \cup {"conclude"}
    PROVE  Protocol'
<1>1. at'[k] = "idle"
  BY DEF Leave, TypeOK, CallTypeOK
<1>2. QED BY <1>1, IdleCall, CallMoves DEF Posts

LEMMA PendProtocol ==
    ASSUME Disciplined, TypeOK, Protocol, NEW k \in Controllers, Pend(k)
    PROVE  Protocol'
<1>0. PICK c \in Commands : c = call[k].cmd
  BY DEF TypeOK, CallTypeOK, Pend
<1>1. NoCommand /\ Checked(c) /\ at[k] = "post"
  BY <1>0 DEF Protocol, Calling, Pend
<1>2. c # None /\ at'[k] = "pend" /\ call'[k].cmd = c
  BY <1>0, <1>1, Forms DEF TypeOK, CallTypeOK, Pend
<1>3. /\ pendingCmd' = c /\ pCmdQueue' = <<>> /\ owed' = [owed EXCEPT ![c] = @ + 1]
      /\ UNCHANGED <<portVars, eCurState, bProcessed, threadVars>>
  BY <1>0, <1>1 DEF Pend, Owe, NoCommand
<1>4. ~Busy /\ ~Busy' /\ pc # "event"
  BY <1>1, <1>3 DEF NoCommand, Busy, InProcess, threadVars
<1>5. Checked(c)'
  BY <1>1, <1>3 DEF Checked, portVars
<1>6. Accepting'
  <2>1. pendingCmd'.cmd = "StateSet" => pendingCmd'.nParam # eCurState'
    BY <1>3, <1>5 DEF Checked
  <2>2. ~Waiting'
    BY <1>2 DEF Waiting, Posting, Posts
  <2>3. QED BY <1>2, <1>3, <1>4, <2>1, <2>2 DEF Accepting, Busy, Protocol
<1>7. Processing'
  BY <1>3, <1>4 DEF Processing, Busy, InProcess, threadVars
<1>8. OwedOnce'
  <2>1. \A d : ~Concluding(d) /\ ~Concluding(d)'
    BY <1>1, <1>2, SameConcluding DEF Disciplined, TypeOK, CallTypeOK, Calls
  <2>2. ASSUME NEW d \in Commands
        PROVE  ~InHand(d) /\ (InHand(d)' <=> d = c)
    BY <1>1, <1>2, <1>3, <1>4, <2>1, Forms DEF InHand, NoCommand, threadVars
  <2>3. owed \in [Commands -> Int]
    BY DEF TypeOK, CallTypeOK
  <2>4. ASSUME NEW d \in Commands
        PROVE  owed'[d] = IF d = c THEN 1 ELSE 0
    <3>1. owed[d] = 0
      BY <2>2 DEF OwedOnce, Protocol
    <3>2. QED BY <1>2, <1>3, <2>3, <3>1
  <2>5. QED BY <2>2, <2>4 DEF OwedOnce
<1>9. Anchored'
  BY <1>3 DEF Protocol, Anchored, portVars
<1>10. Calling(k)'
  <2>1. Checked(pendingCmd)'
    BY <1>3, <1>5 DEF Checked
  <2>2. QED BY <1>2, <1>3, <1>4, <2>1 DEF Calling, Acting, Posts
<1>11. QED BY <1>6, <1>7, <1>8, <1>9, <1>10 DEF Protocol, Disciplined

LEMMA UnprocessedProtocol ==
    ASSUME Disciplined, TypeOK, Protocol, NEW k \in Controllers, ClearProcessed(k)
    PROVE  Protocol'
<1>1. /\ at[k] \in Posts /\ at'[k] = "add" /\ bProcessed' = FALSE
      /\ UNCHANGED <<portVars, eCurState, pendingCmd, pCmdQueue, threadVars, owed, call>>
  BY DEF ClearProcessed, TypeOK, CallTypeOK, ghosts, Posts
<1>2. /\ call[k].cmd = pendingCmd /\ pendingCmd # None /\ pCmdQueue = <<>>
      /\ ~Busy /\ Checked(pendingCmd)
  BY <1>1, PostsMean
<1>3. Posting' /\ ~Waiting'
  BY <1>1 DEF Posting, Waiting, Posts
<1>4. (Busy' <=> Busy) /\ (InProcess' <=> InProcess) /\ pc' = pc
  BY <1>1 DEF Busy, InProcess, threadVars
<1>5. Checked(pendingCmd)'
  BY <1>1, <1>2 DEF Checked, portVars
<1>6. Accepting'
  BY <1>1, <1>2, <1>3, <1>4 DEF Accepting, Busy, Protocol
<1>7. Processing'
  BY <1>1, <1>2, <1>4 DEF Processing, Busy, InProcess, threadVars
<1>8. OwedOnce'
  <2>1. \A d : ~Concluding(d) /\ ~Concluding(d)'
    BY <1>1, SameConcluding DEF Disciplined, TypeOK, CallTypeOK, Calls, Posts
  <2>2. \A d : InHand(d)' <=> InHand(d)
    BY <1>1, <2>1 DEF InHand, threadVars
  <2>3. QED BY <1>1, <2>2 DEF OwedOnce, Protocol
<1>9. Anchored'
  BY <1>1 DEF Protocol, Anchored, portVars
<1>10. Calling(k)'
  BY <1>1, <1>2, <1>4, <1>5 DEF Calling, Acting, Posts
<1>11. QED BY <1>6, <1>7, <1>8, <1>9, <1>10 DEF Protocol, Disciplined

LEMMA PostProtocol ==
    ASSUME Disciplined, TypeOK, Protocol, NEW k \in Controllers, PostCommand(k)
    PROVE  Protocol'
<1>1. at[k] = "add" /\ at'[k] = "idle" /\ ~bProcessed
  BY DEF PostCommand, TypeOK, CallTypeOK, Protocol, Calling
<1>2. /\ call[k].cmd = pendingCmd /\ pendingCmd # None /\ pCmdQueue = <<>>
      /\ ~Busy /\ Checked(pendingCmd)
  BY <1>1, PostsMean DEF Posts
<1>3. /\ pCmdQueue' = <<pendingCmd>>
      /\ UNCHANGED <<portVars, eCurState, pendingCmd, bProcessed, threadVars, owed>>
  BY <1>2 DEF PostCommand, ghosts
<1>4. ~Busy /\ ~Busy' /\ pc # "event" /\ pc' = pc
  BY <1>2, <1>3 DEF Busy, InProcess, threadVars
<1>5. Checked(pendingCmd)'
  BY <1>2, <1>3 DEF Checked, portVars
<1>6. Accepting'
  BY <1>1, <1>2, <1>3, <1>4, <1>5 DEF Accepting, Busy, Protocol, Waiting
<1>7. Processing'
  BY <1>3, <1>4 DEF Processing, Busy, InProcess, threadVars
<1>8. OwedOnce'
  <2>1. \A d : ~Concluding(d) /\ ~Concluding(d)'
    BY <1>1, SameConcluding DEF Disciplined, TypeOK, CallTypeOK, Calls
  <2>2. \A d : InHand(d)' <=> InHand(d)
    BY <1>3, <2>1 DEF InHand, threadVars
  <2>3. QED BY <1>3, <2>2 DEF OwedOnce, Protocol
<1>9. Anchored'
  BY <1>3 DEF Protocol, Anchored, portVars
<1>10. QED BY <1>1, <1>6, <1>7, <1>8, <1>9, IdleCall DEF Protocol, Disciplined

LEMMA ResetProtocol ==
    ASSUME Disciplined, TypeOK, Protocol, NEW k \in Controllers, ResetPending(k)
    PROVE  Protocol'
<1>1. /\ pendingCmd # None /\ pendingCmd.cmd = "PortEnable" /\ eCurState # Loaded /\ bProcessed
      /\ at[k] = "idle"
  BY DEF ResetPending, Disciplined
<1>2. Waiting
  <2>1. pCmdQueue = <<>>
    BY <1>1 DEF Protocol, Accepting
  <2>2. ~InProcess
    BY <1>1 DEF Protocol, Accepting, Processing, InProcess, Completable
  <2>3. pc # "event"
    BY <1>1 DEF Protocol, Accepting
  <2>4. ~Posting
    BY <1>1, NotPosting DEF Posts
  <2>5. QED BY <1>1, <2>1, <2>2, <2>3, <2>4 DEF Waiting, Busy
<1>3. /\ pendingCmd' = None /\ owed' = [owed EXCEPT ![pendingCmd] = @ - 1]
      /\ UNCHANGED <<portVars, eCurState, bProcessed, pCmdQueue, threadVars, at, call>>
  BY DEF ResetPending, Answer, callVars
<1>4. ~Busy /\ ~Busy' /\ pc # "event" /\ pc' = pc
  BY <1>2, <1>3 DEF Waiting, Busy, InProcess, threadVars
<1>5. Accepting'
  BY <1>2, <1>3, <1>4 DEF Accepting, Waiting, Busy, Protocol, None
<1>6. Processing'
  BY <1>4 DEF Processing, Busy, InProcess
<1>7. OwedOnce'
  <2>1. \A d : ~Concluding(d) /\ ~Concluding(d)'
    BY <1>1, <1>3, SameConcluding DEF Disciplined, TypeOK, CallTypeOK, Calls
  <2>2. ASSUME NEW d \in Commands
        PROVE  (InHand(d) <=> d = pendingCmd) /\ ~InHand(d)'
    BY <1>3, <1>4, <2>1, Forms DEF InHand
  <2>3. owed \in [Commands -> Int]
    BY DEF TypeOK, CallTypeOK
  <2>4. ASSUME NEW d \in Commands
        PROVE  owed'[d] = 0
    <3>1. owed[d] = IF d = pendingCmd THEN 1 ELSE 0
      BY <2>2 DEF OwedOnce, Protocol
    <3>2. QED BY <1>3, <2>3, <3>1
  <2>5. QED BY <2>2, <2>4 DEF OwedOnce
<1>8. Anchored'
  BY <1>3 DEF Protocol, Anchored, portVars
<1>9. QED BY <1>1, <1>3, <1>5, <1>6, <1>7, <1>8, IdleCall DEF Protocol, Disciplined

LEMMA AllocateProtocol ==
    ASSUME Disciplined, TypeOK, Protocol, NEW k \in Controllers, NEW p \in Ports, Allocate(k, p)
    PROVE  Protocol'
<1>1. /\ at[k] = "idle" /\ at'[k] = "wait" /\ call'[k].op = "allocate" /\ call'[k].port = p
      /\ UNCHANGED <<bEnabled, stateVars, threadVars, owed>>
  BY DEF Allocate, Enter, Call, TypeOK, CallTypeOK, portVars, ghosts
<1>2. Brings(p)
  <2>1. MayAllocate(p) /\ Wanted(p)
    BY DEF Allocate, Disciplined
  <2>2. pendingCmd \in Commands \cup {None}
    BY DEF TypeOK, StateTypeOK
  <2>3. QED BY <2>1, <2>2, Forms
    DEF MayAllocate, Wanted, Brings, Is, Idle, Loaded, Executing, Pause
<1>3. Brings(p)'
  BY <1>1, <1>2, SameCommand DEF Posts
<1>4. Calling(k)'
  BY <1>1, <1>3 DEF Calling, Acting, Posts
<1>5. QED BY <1>1, <1>4, CallMoves DEF Posts

LEMMA TimeoutProtocol ==
    ASSUME Disciplined, TypeOK, Protocol, NEW k \in Controllers,
           WaitTimeout(k) \/ PollOver(k) \/ \E p \in Ports : UseEarly(k, p)
    PROVE  Protocol'
<1>1. CASE WaitTimeout(k)
  BY <1>1, LeaveMoves DEF WaitTimeout, portVars, ghosts, Posts
<1>2. CASE PollOver(k) \/ \E p \in Ports : UseEarly(k, p)
  BY <1>2 DEF PollOver, UseEarly, Disciplined, Protocol, Calling
<1>3. QED BY <1>1, <1>2

\* The wait is over when the command waits for the client's buffers, too.
LEMMA WaitProtocol ==
    ASSUME Disciplined, TypeOK, Protocol, NEW k \in Controllers, WaitOver(k)
    PROVE  Protocol'
<1>1. UNCHANGED <<bEnabled, stateVars, threadVars, owed>> /\ at[k] = "wait" /\ bProcessed
  BY DEF WaitOver, portVars, ghosts, Protocol, Calling
<1>2. CASE Leave(k)
  BY <1>1, <1>2, LeaveMoves DEF Posts
<1>3. CASE at' = [at EXCEPT ![k] = "act"] /\ call' = call
  <2>1. at'[k] = "act" /\ call'[k] = call[k]
    BY <1>3 DEF TypeOK, CallTypeOK
  <2>2. call[k].op \in {"allocate", "free"}
    BY <1>1 DEF Protocol, Calling
  <2>3. ASSUME Completable(pendingCmd), pendingCmd # None PROVE Waiting
    <3>1. pCmdQueue = <<>> /\ pc \notin {"ports", "drain", "get", "processed", "clear", "event"}
      BY <1>1, <2>3 DEF Protocol, Accepting, Processing, InProcess
    <3>2. ~Posting
      BY <1>1, NotPosting DEF Posts
    <3>3. QED BY <2>3, <3>1, <3>2 DEF Waiting, Busy, InProcess
  <2>4. CASE call[k].op = "allocate"
    <3>1. Brings(call[k].port)
      BY <1>1, <2>4 DEF Protocol, Calling
    <3>2. Waiting
      BY <2>3, <3>1 DEF Brings, Completable, Is, None
    <3>3. Calling(k)'
      BY <2>1, <2>4, <3>1, <3>2, <1>1, SameCommand DEF Calling, Acting, Posts
    <3>4. QED BY <1>1, <2>1, <3>3, CallMoves DEF Posts
  <2>5. CASE call[k].op = "free"
    <3>1. Frees(call[k].port)
      BY <1>1, <2>5 DEF Protocol, Calling
    <3>2. Waiting \/ NoCommand
      BY <2>3, <3>1 DEF Frees, Completable, Is, None
    <3>3. Calling(k)'
      BY <2>1, <2>5, <3>1, <3>2, <1>1, SameCommand DEF Calling, Acting, Posts
    <3>4. QED BY <1>1, <2>1, <3>3, CallMoves DEF Posts
  <2>6. QED BY <2>2, <2>4, <2>5
<1>4. QED BY <1>1, <1>2, <1>3 DEF WaitOver

-----------------------------------------------------------------------------
(* The tables *)

Used(p) == {i \in Slots : BufferHdrArry[p][i] # NULL}

\* The client frees all that there is, until it is told that this is over.
Unloading ==
    \/ Is(pendingCmd, "StateSet", Loaded) /\ eCurState = Idle
    \/ \E k \in Controllers : at[k] = "conclude" /\ Is(call[k].cmd, "StateSet", Loaded)

\* Where the client may have freed some headers of a port, in any order.
Freeing(p) ==
    \/ eCurState = Loaded /\ pendingCmd = None /\ \A k \in Controllers : at[k] # "conclude"
    \/ Unloading
    \/ Is(pendingCmd, "PortDisable", p) /\ p \notin bEnabled

\* Elsewhere the headers fill the table from its beginning, and the entry at
\* nBufferHdrNum is free.
Packed(p) == \A i \in Slots : i \in Used(p) <=> i < nBufferHdrNum[p]

Table(p) ==
    /\ \A i \in Used(p) : PortOf(BufferHdrArry[p][i]) = p
    /\ \A i, j \in Used(p) : BufferHdrArry[p][i] = BufferHdrArry[p][j] => i = j
    /\ Cardinality(Used(p)) = nBufferHdrNum[p]
    /\ Registered(p) \subseteq Live(p)
    /\ Freeing(p) \/ Packed(p)
    /\ p \in bPopulated =>
         nBufferHdrNum[p] > 0 /\ (nBufferHdrNum[p] = nBufferCountActual \/ Freeing(p))
    /\ p \in bPopulated \/ nBufferHdrNum[p] < nBufferCountActual

\* What the state and the pending command say of a port.
Known(p) ==
    /\ eCurState \in {Idle, Executing, Pause} /\ p \in bEnabled =>
          p \in bPopulated \/ (nBufferHdrNum[p] = 0 /\ Unloading)
    /\ eCurState = Loaded \/ (p \notin bEnabled /\ ~Is(pendingCmd, "PortDisable", p)) =>
          Registered(p) \subseteq owned \ Passing
    /\ eCurState = Loaded /\ (\/ pendingCmd # None /\ ~Is(pendingCmd, "StateSet", Idle)
                              \/ \E k \in Controllers : at[k] = "post") =>
          nBufferHdrNum[p] = 0
    /\ (/\ Is(pendingCmd, "PortDisable", p) /\ eCurState # Loaded
        /\ pCmdQueue = <<>> /\ pc # "ports" /\ ~Posting) => p \notin bEnabled

Fulfilled(c) ==
    /\ Is(c, "StateSet", Idle) => AllPortsOn
    /\ Is(c, "StateSet", Loaded) => AllPortsOff
    /\ c.cmd = "PortDisable" => nBufferHdrNum[c.nParam] = 0

\* What a call that goes on to PortNotify and SendEvent has found.
Notifying(k) ==
    /\ at[k] = "notify" /\ call[k].op = "free" => nBufferHdrNum[call[k].port] = 0
    /\ at[k] = "notify" /\ call[k].op = "allocate" => call[k].port \in bPopulated
    /\ at[k] = "reply" => Fulfilled(pendingCmd)
    /\ at[k] = "conclude" => Fulfilled(call[k].cmd)

\* The headers that feeders pass are the client's, and nobody frees them.
Passes ==
    /\ \A f \in Feeders : passing[f] # NULL =>
         /\ passing[f] \in owned
         /\ \A g \in Feeders : passing[g] = passing[f] => g = f
         /\ \A k \in Controllers : call[k].header # passing[f]

\* A port queues and holds its own headers.
Sorted(p) == \A h \in Queued(p) \cup held[p] : PortOf(h) = p

Tables ==
    /\ \A p \in Ports : Table(p) /\ Known(p) /\ Sorted(p)
    /\ \A k \in Controllers : Notifying(k)
    /\ Passes

Inv == Protocol /\ Tables

\* A port without headers has an empty table.
LEMMA EmptyTable ==
    ASSUME NEW p \in Ports, Table(p), TypeOK
    PROVE  /\ IsFiniteSet(Used(p))
           /\ nBufferHdrNum[p] \in 0..nBufferCountActual
           /\ nBufferHdrNum[p] = 0 <=> Used(p) = {}
           /\ nBufferHdrNum[p] = 0 <=> Registered(p) = {}
<1>1. nBufferCountActual \in Nat /\ nBufferCountActual > 0
  BY PortAssumption
<1>2. IsFiniteSet(Slots) /\ Cardinality(Slots) = nBufferCountActual
  BY <1>1, FS_Interval DEF Slots
<1>3. Used(p) \subseteq Slots
  BY DEF Used
<1>4. IsFiniteSet(Used(p)) /\ Cardinality(Used(p)) <= nBufferCountActual
  BY <1>2, <1>3, FS_Subset
<1>5. Cardinality(Used(p)) \in Nat /\ (Cardinality(Used(p)) = 0 <=> Used(p) = {})
  BY <1>4, FS_CardinalityType, FS_EmptySet
<1>6. Used(p) = {} <=> Registered(p) = {}
  BY DEF Used, Registered
<1>7. Cardinality(Used(p)) = nBufferHdrNum[p]
  BY DEF Table
<1>8. QED BY <1>1, <1>4, <1>5, <1>6, <1>7

-----------------------------------------------------------------------------
(* The client's buffer calls and the protocol *)

LEMMA FreeProtocol ==
    ASSUME Disciplined, TypeOK, Inv, NEW k \in Controllers, NEW h \in Headers, Free(k, h)
    PROVE  Protocol'
<1> USE DEF Inv
<1> DEFINE p == PortOf(h)
<1>0. p \in Ports /\ pendingCmd \in Commands \cup {None}
  BY HeaderPort DEF TypeOK, StateTypeOK
<1>1. /\ at[k] = "idle" /\ at'[k] = IF eCurState = Loaded THEN "act" ELSE "wait"
      /\ call'[k].op = "free" /\ call'[k].port = p
      /\ UNCHANGED <<portVars, stateVars, threadVars, owed>>
  BY DEF Free, Enter, Call, TypeOK, CallTypeOK, portVars, ghosts
<1>2. UNCHANGED <<bEnabled, nBufferHdrNum>>
  BY <1>1 DEF portVars, table
<1>3. MayFree(p) /\ Unwanted(p)
  BY DEF Free, Disciplined
<1>4. CASE eCurState # Loaded
  <2>1. Frees(p)
    BY <1>0, <1>3, <1>4, Forms DEF MayFree, Unwanted, Frees, Is, Idle, Loaded, Executing, Pause
  <2>2. Calling(k)'
    BY <1>1, <1>2, <1>4, <2>1, SameCommand DEF Calling, Acting, Posts
  <2>3. QED BY <1>1, <1>2, <2>2, CallMoves DEF Posts
<1>5. CASE eCurState = Loaded
  <2>1. NoCommand \/ (pendingCmd # None /\ ~Is(pendingCmd, "StateSet", Idle))
    BY <1>0, <1>3, <1>5, AnsweredMeans, Forms DEF Unwanted, Is, Idle, Loaded, None
  <2>2. NoCommand \/ nBufferHdrNum[p] = 0
    BY <1>0, <1>5, <2>1 DEF Tables, Known
  <2>3. Calling(k)'
    BY <1>1, <1>2, <1>5, <2>2, SameCommand DEF Calling, Acting, Frees, stateVars, Posts
  <2>4. QED BY <1>1, <1>2, <2>3, CallMoves DEF Posts
<1>6. QED BY <1>4, <1>5

\* The steps of FreeBuffer up to PortNotify.
LEMMA FreeingProtocol ==
    ASSUME Disciplined, TypeOK, Inv, NEW k \in Controllers,
           FreeAct(k) \/ FreeDrain(k) \/ FreeGet(k)
    PROVE  Protocol'
<1> USE DEF Inv
<1>1. UNCHANGED <<bEnabled, stateVars, threadVars, owed, call, nBufferHdrNum>>
  BY DEF FreeAct, FreeDrain, FreeGet, GetAndSendBuffer, portVars, table, ghosts
<1>2. at[k] \in {"act", "drain", "get"} /\ at'[k] \in {"drain", "get", "match"}
      /\ call[k].op = "free"
  BY DEF FreeAct, FreeDrain, FreeGet, Protocol, Calling, TypeOK, CallTypeOK
<1>3. Calling(k)'
  BY <1>1, <1>2, SameCommand DEF Calling, Acting, Protocol, stateVars, Posts
<1>4. QED BY <1>1, <1>2, <1>3, CallMoves DEF Posts

LEMMA MatchProtocol ==
    ASSUME Disciplined, TypeOK, Inv, NEW k \in Controllers, FreeMatch(k)
    PROVE  Protocol'
<1> USE DEF Inv
<1> DEFINE p == call[k].port
<1>1. UNCHANGED <<bEnabled, stateVars, threadVars, owed>> /\ at[k] = "match"
  BY DEF FreeMatch, UnregisterHeader, portVars, table, ghosts
<1>2. call[k].op = "free" /\ p \in Ports
  BY <1>1 DEF Protocol, Calling, TypeOK, CallTypeOK
<1>3. CASE Leave(k)
  BY <1>1, <1>3, LeaveMoves DEF Posts
<1>4. CASE UnregisterHeader(p, call[k].header) /\ at' = [at EXCEPT ![k] = "notify"] /\ call' = call
  <2>1. Registered(p) # {}
    BY <1>4 DEF UnregisterHeader
  <2>2. nBufferHdrNum[p] # 0
    BY <1>2, <2>1, EmptyTable DEF Tables
  <2>3. (Waiting \/ NoCommand) /\ Frees(p)
    BY <1>1, <1>2, <2>2 DEF Protocol, Calling, Acting
  <2>4. at'[k] = "notify"
    BY <1>4 DEF TypeOK, CallTypeOK
  <2>5. Calling(k)'
    BY <1>1, <1>2, <1>4, <2>3, <2>4, SameCommand DEF Calling, Acting, Posts
  <2>6. QED BY <1>1, <2>4, <2>5, CallMoves DEF Posts
<1>5. QED BY <1>3, <1>4 DEF FreeMatch

\* A waiting command that is given up.
LEMMA GiveUp ==
    ASSUME Disciplined, TypeOK, Protocol, NEW k \in Controllers, Waiting,
           at[k] # "conclude", at'[k] = "idle", pendingCmd' = None, Answer(pendingCmd),
           UNCHANGED <<bEnabled, eCurState, bProcessed, pCmdQueue, threadVars>>
    PROVE  Protocol'
<1>1. ~Busy /\ ~Busy' /\ pc # "event" /\ pc' = pc /\ pCmdQueue' = <<>>
  BY DEF Waiting, Busy, InProcess, threadVars
<1>2. Accepting'
  BY <1>1 DEF Accepting, Waiting, Busy, Protocol, None
<1>3. Processing'
  BY <1>1 DEF Processing, Busy, InProcess
<1>4. OwedOnce'
  <2>1. \A d : ~Concluding(d) /\ ~Concluding(d)'
    BY DEF Concluding, Disciplined
  <2>2. ASSUME NEW d \in Commands
        PROVE  (InHand(d) <=> d = pendingCmd) /\ ~InHand(d)'
    BY <1>1, <2>1, Forms DEF InHand
  <2>3. owed \in [Commands -> Int]
    BY DEF TypeOK, CallTypeOK
  <2>4. ASSUME NEW d \in Commands
        PROVE  owed'[d] = 0
    <3>1. owed[d] = IF d = pendingCmd THEN 1 ELSE 0
      BY <2>2 DEF OwedOnce, Protocol
    <3>2. QED BY <2>3, <3>1 DEF Answer
  <2>5. QED BY <2>2, <2>4 DEF OwedOnce
<1>5. Anchored'
  BY DEF Protocol, Anchored
<1>6. QED BY <1>2, <1>3, <1>4, <1>5, IdleCall DEF Protocol, Disciplined

LEMMA AllocateFailsProtocol ==
    ASSUME Disciplined, TypeOK, Protocol, NEW k \in Controllers,
           AllocateRefused(k) \/ AllocateFails(k)
    PROVE  Protocol'
<1>1. at[k] = "act" /\ call[k].op = "allocate" /\ Leave(k)
  BY DEF AllocateRefused, AllocateFails
<1>2. Waiting /\ at'[k] = "idle"
  BY <1>1 DEF Protocol, Calling, Acting, Leave, TypeOK, CallTypeOK
<1>3. UNCHANGED <<bEnabled, eCurState, bProcessed, pCmdQueue, threadVars>>
  BY DEF AllocateRefused, AllocateFails, portVars, stateVars
<1>4. CASE pendingCmd' = None /\ Answer(pendingCmd)
  BY <1>1, <1>2, <1>3, <1>4, GiveUp
<1>5. CASE UNCHANGED <<pendingCmd, owed>>
  <2>1. UNCHANGED <<pc, now, ret, todo, replies>>
    BY <1>3 DEF threadVars
  <2>2. Accepting' /\ Processing' /\ Anchored'
    BY <1>1, <1>2, <1>3, <1>5, <2>1, Quiet, NotPosting DEF Protocol, Posts
  <2>3. OwedOnce'
    <3>1. \A d : ~Concluding(d) /\ ~Concluding(d)'
      BY <1>1, <1>2 DEF Concluding, Disciplined
    <3>2. \A d : InHand(d)' <=> InHand(d)
      BY <1>5, <2>1, <3>1 DEF InHand
    <3>3. QED BY <1>5, <3>2 DEF OwedOnce, Protocol
  <2>4. QED BY <1>2, <2>2, <2>3, IdleCall DEF Protocol, Disciplined
<1>6. QED BY <1>4, <1>5 DEF AllocateRefused, AllocateFails, stateVars, ghosts

LEMMA AllocateActProtocol ==
    ASSUME Disciplined, TypeOK, Protocol, NEW k \in Controllers, AllocateAct(k)
    PROVE  Protocol'
<1>1. at[k] = "act" /\ call[k].op = "allocate" /\ bEnabled \subseteq bEnabled'
      /\ UNCHANGED <<stateVars, threadVars, owed>>
  BY DEF AllocateAct, RegisterHeader, ghosts
<1>2. Waiting /\ Brings(call[k].port)
  BY <1>1 DEF Protocol, Calling, Acting
<1>3. UNCHANGED <<eCurState, pendingCmd, bProcessed, pCmdQueue, pc, now, ret, todo, replies>>
  BY <1>1 DEF stateVars, threadVars
<1>a. at'[k] \in {"idle", "notify"} /\ (at'[k] = "notify" => call'[k] = call[k])
  BY DEF AllocateAct, Leave, TypeOK, CallTypeOK
<1>4. Waiting' /\ ~Busy /\ ~Busy'
  <2>1. ~Posting'
    BY <1>a, NotPosting DEF Posts
  <2>2. QED BY <1>2, <1>3, <2>1 DEF Waiting, Busy, InProcess
<1>5. Anchored'
  BY <1>1 DEF Protocol, Anchored
<1>6. Accepting'
  BY <1>2, <1>3, <1>4 DEF Accepting, Waiting, Busy, Protocol, Completable
<1>7. Processing'
  BY <1>3, <1>4 DEF Processing, Busy, InProcess
<1>9. Calling(k)'
  <2>1. CASE at'[k] = "idle"
    BY <2>1, IdleCall
  <2>2. CASE at'[k] = "notify"
    <3>1. call'[k] = call[k]
      BY <1>a, <2>2
    <3>2. Brings(call[k].port)'
      BY <1>1, <1>2, <1>3, <3>1 DEF Brings
    <3>3. QED BY <1>1, <1>4, <2>2, <3>1, <3>2 DEF Calling, Acting, Posts
  <2>3. QED BY <1>a, <2>1, <2>2
<1>10. OwedOnce'
  <2>1. \A d : ~Concluding(d) /\ ~Concluding(d)'
    BY <1>1, <1>a DEF Concluding, Disciplined
  <2>2. \A d : InHand(d)' <=> InHand(d)
    BY <1>3, <2>1 DEF InHand
  <2>3. QED BY <1>1, <2>2 DEF OwedOnce, Protocol
<1>11. QED BY <1>5, <1>6, <1>7, <1>9, <1>10 DEF Protocol, Disciplined

LEMMA NotifyProtocol ==
    ASSUME Disciplined, TypeOK, Protocol, NEW k \in Controllers, NotifyOn(k) \/ NotifyOff(k)
    PROVE  Protocol'
<1>1. at[k] = "notify"
  BY DEF NotifyOn, NotifyOff
<1>2. CASE NotifyOn(k)
  <2>1. Waiting
    BY <1>1, <1>2 DEF NotifyOn, Protocol, Calling, Acting
  <2>2. UNCHANGED <<bEnabled, stateVars, threadVars, owed>>
    BY <1>2 DEF NotifyOn, portVars, ghosts
  <2>3. CASE Leave(k)
    BY <1>1, <2>2, <2>3, LeaveMoves DEF Posts
  <2>4. CASE at' = [at EXCEPT ![k] = "reply"]
    <3>1. at'[k] = "reply"
      BY <2>4 DEF TypeOK, CallTypeOK
    <3>2. Calling(k)'
      BY <1>1, <2>1, <2>2, <3>1, SameCommand DEF Calling, Acting, Posts
    <3>3. QED BY <1>1, <2>2, <3>1, <3>2, CallMoves DEF Posts
  <2>5. QED BY <1>2, <2>3, <2>4 DEF NotifyOn, ReplyIf
<1>3. CASE NotifyOff(k)
  <2>1. (Waiting \/ NoCommand) /\ Frees(call[k].port)
    BY <1>1, <1>3 DEF NotifyOff, Protocol, Calling, Acting
  <2>2. ~RolledBack
    BY <2>1 DEF RolledBack, Frees, Is, StateSet, NoCommand, None, Idle, Loaded
  <2>3. UNCHANGED <<bEnabled, eCurState, pendingCmd, bProcessed, pCmdQueue, threadVars, owed>>
    BY <1>3, <2>2 DEF NotifyOff, portVars
  <2>4. UNCHANGED <<pc, now, ret, todo, replies>>
    BY <2>3 DEF threadVars
  <2>5. at'[k] \notin Posts \cup {"conclude"} /\ Calling(k)'
    <3>1. CASE Leave(k)
      <4>1. at'[k] = "idle"
        BY <3>1 DEF Leave, TypeOK, CallTypeOK
      <4>2. QED BY <4>1, IdleCall DEF Posts
    <3>2. CASE at' = [at EXCEPT ![k] = "reply"] /\ (Unloaded \/ Disabled(call[k].port))
      <4>1. at'[k] = "reply"
        BY <3>2 DEF TypeOK, CallTypeOK
      <4>2. pendingCmd # None
        BY <3>2 DEF Unloaded, Disabled, StateSet, None
      <4>3. Waiting
        BY <2>1, <4>2 DEF NoCommand
      <4>4. Waiting'
        BY <2>3, <2>4, <4>1, <4>3, NotPosting DEF Waiting, Busy, InProcess, Posts
      <4>5. QED BY <4>1, <4>4 DEF Calling, Acting, Posts
    <3>3. QED BY <1>3, <3>1, <3>2 DEF NotifyOff, ReplyIf
  <2>6. Accepting' /\ Processing' /\ Anchored'
    BY <1>1, <2>3, <2>4, <2>5, Quiet, NotPosting DEF Protocol, Posts
  <2>7. OwedOnce'
    <3>1. \A d : ~Concluding(d) /\ ~Concluding(d)'
      BY <1>1, <2>5 DEF Concluding, Disciplined
    <3>2. \A d : InHand(d)' <=> InHand(d)
      BY <2>3, <2>4, <3>1 DEF InHand
    <3>3. QED BY <2>3, <3>2 DEF OwedOnce, Protocol
  <2>8. QED BY <2>5, <2>6, <2>7 DEF Protocol, Disciplined
<1>4. QED BY <1>2, <1>3

LEMMA ReplyProtocol ==
    ASSUME Disciplined, TypeOK, Protocol, NEW k \in Controllers, Reply(k)
    PROVE  Protocol'
<1>0. PICK c \in Commands \cup {None} : c = pendingCmd
  BY DEF TypeOK, StateTypeOK
<1>1. Waiting /\ at[k] = "reply" /\ Completable(c)
  BY <1>0 DEF Reply, Protocol, Calling, Accepting
<1>2. /\ pendingCmd' = None /\ at'[k] = "conclude" /\ call'[k].cmd = c
      /\ UNCHANGED <<bEnabled, eCurState, bProcessed, pCmdQueue, threadVars, owed>>
  BY <1>0 DEF Reply, TypeOK, CallTypeOK, portVars, ghosts
<1>3. ~Busy /\ ~Busy' /\ pc # "event" /\ pc' = pc /\ pCmdQueue' = <<>>
  BY <1>1, <1>2 DEF Waiting, Busy, InProcess, threadVars
<1>4. NoCommand' /\ ~Waiting'
  BY <1>2, <1>3 DEF NoCommand, Waiting
<1>5. Accepting'
  BY <1>2, <1>3, <1>4 DEF Accepting, Busy, Protocol, None
<1>6. Processing'
  BY <1>3 DEF Processing, Busy, InProcess
<1>7. Calling(k)'
  <2>1. Completable(c)'
    BY <1>1, <1>2 DEF Completable
  <2>2. c # None
    BY <1>0, <1>1 DEF Waiting
  <2>3. QED BY <1>2, <1>4, <2>1, <2>2 DEF Calling, Acting, Posts
<1>8. OwedOnce'
  <2>1. ASSUME NEW d \in Commands
        PROVE  (InHand(d) <=> d = c) /\ (InHand(d)' <=> d = c)
    BY <1>0, <1>1, <1>2, <1>3, Forms DEF InHand, Concluding, Disciplined
  <2>2. QED BY <1>2, <2>1 DEF OwedOnce, Protocol
<1>9. Anchored'
  BY <1>2 DEF Protocol, Anchored
<1>10. QED BY <1>5, <1>6, <1>7, <1>8, <1>9 DEF Protocol, Disciplined

LEMMA ConcludeProtocol ==
    ASSUME Disciplined, TypeOK, Protocol, NEW k \in Controllers, Conclude(k)
    PROVE  Protocol'
<1>0. PICK c \in Commands : c = call[k].cmd
  BY Forms DEF Conclude, Protocol, Calling, TypeOK, CallTypeOK
<1>1. NoCommand /\ at[k] = "conclude" /\ Completable(c)
  BY <1>0 DEF Conclude, Protocol, Calling
<1>2. /\ at'[k] = "idle" /\ Answer(c)
      /\ UNCHANGED <<bEnabled, pendingCmd, bProcessed, pCmdQueue, threadVars>>
  BY <1>0 DEF Conclude, Leave, TypeOK, CallTypeOK, portVars
<1>3. ~Busy /\ ~Busy' /\ pc # "event" /\ pc' = pc /\ pCmdQueue' = <<>> /\ pendingCmd' = None
  BY <1>1, <1>2 DEF NoCommand, Busy, InProcess, threadVars
<1>4. NoCommand' /\ ~Waiting'
  BY <1>2, <1>3 DEF NoCommand, Waiting
<1>5. eCurState' # WaitForResources
  BY <1>0, <1>1
     DEF Conclude, Completable, Is, Protocol, Accepting, Idle, Loaded, WaitForResources
<1>6. Accepting'
  BY <1>2, <1>3, <1>4, <1>5 DEF Accepting, Busy, Protocol, None
<1>7. Processing'
  BY <1>3 DEF Processing, Busy, InProcess
<1>8. OwedOnce'
  <2>1. ASSUME NEW d \in Commands
        PROVE  (InHand(d) <=> d = c) /\ ~InHand(d)'
    BY <1>0, <1>1, <1>2, <1>3, Forms DEF InHand, Concluding, Disciplined, NoCommand
  <2>2. owed \in [Commands -> Int]
    BY DEF TypeOK, CallTypeOK
  <2>3. ASSUME NEW d \in Commands
        PROVE  owed'[d] = 0
    <3>1. owed[d] = IF d = c THEN 1 ELSE 0
      BY <2>1 DEF OwedOnce, Protocol
    <3>2. QED BY <1>2, <2>2, <3>1 DEF Answer
  <2>4. QED BY <2>1, <2>3 DEF OwedOnce
<1>9. Anchored'
  BY <1>2 DEF Protocol, Anchored
<1>10. QED BY <1>2, <1>6, <1>7, <1>8, <1>9, IdleCall DEF Protocol, Disciplined

-----------------------------------------------------------------------------
(* The steps of feeders, and those of the thread that are about buffers     *)

LEMMA FlowProtocol ==
    ASSUME Disciplined, TypeOK, Protocol,
           UNCHANGED <<bEnabled, stateVars, now, ret, replies, callVars, nBufferHdrNum, owed>>,
           (pc' = pc /\ todo' = todo) \/ {pc, pc'} \subseteq {"cmd", "buf", "take"}
    PROVE  Protocol'
<1>1. UNCHANGED <<eCurState, pendingCmd, bProcessed, pCmdQueue, at, call>>
  BY DEF stateVars, callVars
<1>2. /\ Accepting' /\ Processing' /\ Anchored'
      /\ \A k \in Controllers : Calling(k)'
  <2>1. /\ Accepting' /\ Processing' /\ Anchored'
        /\ NoCommand' <=> NoCommand
        /\ Waiting' <=> Waiting
        /\ \A c : Completable(c)' <=> Completable(c)
        /\ \A c : Checked(c)' <=> Checked(c)
        /\ \A p : Brings(p)' <=> Brings(p)
        /\ \A p : Frees(p)' <=> Frees(p)
        /\ Busy' <=> Busy
    <3>1. Posting' <=> Posting
      BY <1>1 DEF Posting
    <3>2. QED BY <1>1, <3>1, Quiet DEF Protocol
  <2>2. ASSUME NEW k \in Controllers PROVE Calling(k)'
    BY <1>1, <2>1, SameCall DEF Protocol
  <2>3. QED BY <2>1, <2>2
<1>3. OwedOnce'
  <2>1. pc' = "event" <=> pc = "event"
    OBVIOUS
  <2>2. \A d : InHand(d)' <=> InHand(d)
    BY <1>1, <2>1 DEF InHand, Concluding
  <2>3. QED BY <2>2 DEF OwedOnce, Protocol
<1>4. QED BY <1>2, <1>3 DEF Protocol

LEMMA FeedProtocol ==
    ASSUME Disciplined, TypeOK, Protocol, NEW f \in Feeders, Feed(f)
    PROVE  Protocol'
<1>1. /\ UNCHANGED <<bEnabled, stateVars, now, ret, replies, callVars, nBufferHdrNum, owed>>
      /\ pc' = pc /\ todo' = todo
  BY DEF Feed, PassBuffer, QueueBuffer, AddBuffer, portVars, table, threadVars, ghosts
<1>2. QED BY <1>1, FlowProtocol

LEMMA ProcessBufferProtocol ==
    ASSUME Disciplined, TypeOK, Protocol, ProcessBuffer
    PROVE  Protocol'
<1>1. /\ UNCHANGED <<bEnabled, stateVars, now, ret, replies, callVars, nBufferHdrNum, owed>>
      /\ {pc, pc'} \subseteq {"cmd", "buf", "take"}
  BY DEF ProcessBuffer, TakeBuffer, TakeGet, SendDone, NoBuffer, BufferTurn, GetAndHoldBuffer,
         SendHeld, portVars, table, ghosts
<1>2. QED BY <1>1, FlowProtocol

-----------------------------------------------------------------------------
(* The thread's commands *)

\* While the thread has the command, the client only waits, or frees headers of
\* a port that has none.
LEMMA BusyCalls ==
    ASSUME Protocol, Busy \/ pCmdQueue # <<>>,
           UNCHANGED <<callVars, eCurState, nBufferHdrNum>>,
           \A p : Brings(p) => Brings(p)',
           \A p : Frees(p) => Frees(p)'
    PROVE  \A k \in Controllers : Calling(k)'
<1> SUFFICES ASSUME NEW k \in Controllers PROVE Calling(k)'
  OBVIOUS
<1>1. at' = at /\ call' = call
  BY DEF callVars
<1>2. Calling(k)
  BY DEF Protocol
<1>3. ~NoCommand /\ ~Waiting /\ at[k] \notin Posts
  BY ThreadHasIt DEF Posting
<1>4. QED BY <1>1, <1>2, <1>3 DEF Calling, Posts

LEMMA TakeProtocol ==
    ASSUME Disciplined, TypeOK, Protocol, NEW c, NEW result, NEW ports, Take(c, result, ports),
           ports = <<>> => (result = "NotComplete" <=> Completable(c)),
           ports # <<>> =>
             \/ c.cmd \in {"PortEnable", "PortDisable"} /\ ports = <<c.nParam>>
             \/ c.cmd \notin {"PortEnable", "PortDisable"} /\ result = "None" /\ ~Completable(c),
           result = "None" /\ c.cmd = "StateSet" => Moves(eCurState, c.nParam)
    PROVE  Protocol'
<1>1. /\ pCmdQueue = <<c>> /\ pendingCmd = c /\ c # None /\ ~bProcessed /\ Checked(c) /\ ~Busy
      /\ pc = "cmd"
  BY DEF Take, Protocol, Accepting
<1>2. /\ pCmdQueue' = <<>> /\ now' = c /\ ret' = result /\ todo' = ports
      /\ pc' \in {"ports", "processed"} /\ (pc' = "processed" <=> ports = <<>>)
      /\ UNCHANGED <<portVars, eCurState, pendingCmd, bProcessed, callVars, owed>>
  BY <1>1 DEF Take, ghosts
<1>3. /\ \A d : Completable(d)' <=> Completable(d)
      /\ \A d : Checked(d)' <=> Checked(d)
      /\ UNCHANGED <<bEnabled, nBufferHdrNum>>
  BY <1>2 DEF Completable, Checked, portVars, table
<1>4. Busy' /\ InProcess'
  BY <1>2 DEF Busy, InProcess
<1>5. Accepting'
  <2>1. ~Waiting'
    BY <1>4 DEF Waiting
  <2>2. QED BY <1>1, <1>2, <1>4, <2>1 DEF Accepting, Protocol
<1>6. Processing'
  <2>1. Checked(now)' <=> Checked(c)
    BY <1>2 DEF Checked, portVars
  <2>2. Completable(now)' <=> Completable(c)
    BY <1>2 DEF Completable
  <2>3. QED BY <1>1, <1>2, <2>1, <2>2 DEF Processing
<1>7. \A k \in Controllers : Calling(k)'
  <2>1. ~NoCommand /\ ~Waiting
    BY <1>1 DEF NoCommand, Waiting
  <2>2. \A p : Brings(p) => Brings(p)'
    BY <1>2, <1>3 DEF Brings
  <2>3. \A p : Frees(p) => Frees(p)'
    BY <1>1, <1>2, <1>3, <2>1 DEF Frees
  <2>4. QED BY <1>1, <1>2, <1>3, <2>2, <2>3, BusyCalls
<1>8. OwedOnce'
  <2>1. \A d : InHand(d)' <=> InHand(d)
    BY <1>1, <1>2 DEF InHand, Concluding, callVars
  <2>2. QED BY <1>2, <2>1 DEF OwedOnce, Protocol
<1>9. Anchored'
  BY <1>3 DEF Protocol, Anchored
<1>10. QED BY <1>5, <1>6, <1>7, <1>8, <1>9 DEF Protocol

LEMMA CommandsProtocol ==
    ASSUME Disciplined, TypeOK, Protocol,
           \/ LoadedToIdle \/ IdleToLoaded \/ IdleToRunning \/ RunningToIdle
           \/ OtherStateSet \/ PortCommand
    PROVE  Protocol'
<1> USE DEF Completable, Moves, Is, StateSet, Idle, Loaded, Executing, Pause, Invalid
<1>0. bEnabled # {} /\ eCurState # WaitForResources
  BY DEF Protocol, Anchored, Accepting
<1>1. CASE LoadedToIdle
  <2>1. Take(StateSet(Idle), "NotComplete", <<>>)
    BY <1>0, <1>1 DEF LoadedToIdle, Disciplined
  <2>2. QED BY <1>1, <2>1, TakeProtocol DEF LoadedToIdle
<1>2. CASE IdleToLoaded
  <2>1. Take(StateSet(Loaded), "NotComplete", <<>>)
    BY <1>0, <1>2 DEF IdleToLoaded
  <2>2. QED BY <1>2, <2>1, TakeProtocol DEF IdleToLoaded
<1>3. CASE IdleToRunning
  BY <1>3, TakeProtocol DEF IdleToRunning
<1>a. AllPorts # <<>>
  BY PortAssumption DEF AllPorts
<1>4. CASE RunningToIdle
  BY <1>4, <1>a, TakeProtocol DEF RunningToIdle
<1>5. CASE OtherStateSet
  <2>1. PICK s \in States : \/ Accepted(s) /\ Take(StateSet(s), "None", <<>>)
                            \/ Refused(s) /\ Take(StateSet(s), "Error", <<>>)
    BY <1>5 DEF OtherStateSet
  <2>2. s # eCurState
    BY <2>1 DEF Take, Protocol, Accepting, Checked
  <2>3. CASE Accepted(s) /\ Take(StateSet(s), "None", <<>>)
    <3>1. \/ s = Invalid /\ eCurState # Loaded
          \/ s \in {Executing, Pause} /\ eCurState \in {Executing, Pause}
      BY <1>0, <2>2, <2>3 DEF Accepted, WaitForResources
    <3>2. QED BY <2>3, <3>1, TakeProtocol
  <2>4. CASE Refused(s) /\ Take(StateSet(s), "Error", <<>>)
    <3>1. ~Completable(StateSet(s))
      BY <2>4 DEF Refused, WaitForResources
    <3>2. QED BY <2>4, <3>1, TakeProtocol
  <2>5. QED BY <2>1, <2>3, <2>4
<1>6. CASE PortCommand
  <2>1. PICK c \in Commands : \E result, ports : Take(c, result, ports)
    BY <1>6 DEF PortCommand
  <2>2. c = Head(pCmdQueue) /\ Checked(c) /\ c.nParam # OMX_ALL
    BY <2>1, Forms DEF Take, Protocol, Accepting
  <2>3. \A d, result, ports : Take(d, result, ports) => d = c
    BY <2>2 DEF Take
  <2>4. CASE c.cmd = "MarkBuffer"
    BY <1>6, <2>3, <2>4, TakeProtocol DEF PortCommand, PortCommands
  <2>5. CASE c.cmd \in {"PortEnable", "PortDisable"}
    <3>1. c.nParam \in Ports
      BY <2>2, <2>5 DEF Checked, TypeOK, PortTypeOK
    <3>2. Take(c, "None", <<c.nParam>>)
      BY <1>6, <2>2, <2>3, <2>5, <3>1 DEF PortCommand
    <3>3. QED BY <2>5, <3>2, TakeProtocol
  <2>6. CASE c.cmd = "Flush"
    BY <1>6, <2>2, <2>3, <2>6, TakeProtocol DEF PortCommand
  <2>7. QED BY <1>6, <2>3, <2>4, <2>5, <2>6 DEF PortCommand, PortCommands
<1>7. QED BY <1>1, <1>2, <1>3, <1>4, <1>5, <1>6

\* A step of the thread within a command.
LEMMA WithinCommand ==
    ASSUME Disciplined, TypeOK, Protocol, InProcess, Processing', Anchored',
           pc' \in {"ports", "drain", "get", "processed"},
           UNCHANGED <<stateVars, now, callVars, nBufferHdrNum, owed>>,
           \A p : Brings(p) => Brings(p)'
    PROVE  Protocol'
<1>1. UNCHANGED <<eCurState, pendingCmd, bProcessed, pCmdQueue>>
  BY DEF stateVars
<1>2. InProcess' /\ Busy /\ Busy' /\ pc # "event" /\ pCmdQueue = <<>>
  BY DEF InProcess, Busy, Protocol, Accepting
<1>3. Accepting'
  BY <1>1, <1>2 DEF Accepting, Protocol, Waiting, InProcess
<1>4. ~NoCommand /\ ~NoCommand' /\ ~Waiting
  BY <1>2 DEF NoCommand, Waiting
<1>5. \A p : Frees(p) => Frees(p)'
  BY <1>1, <1>4 DEF Frees
<1>6. \A k \in Controllers : Calling(k)'
  BY <1>1, <1>2, <1>5, BusyCalls
<1>7. OwedOnce'
  <2>1. \A d : InHand(d)' <=> InHand(d)
    BY <1>1, <1>2 DEF InHand, Concluding, callVars
  <2>2. QED BY <2>1 DEF OwedOnce, Protocol
<1>8. QED BY <1>3, <1>6, <1>7 DEF Protocol

LEMMA PortStepsProtocol ==
    ASSUME Disciplined, TypeOK, Protocol, EnablePort \/ DisablePort \/ ReturnPort \/ Drain \/ DrainGet
    PROVE  Protocol'
<1>1. pc \in {"ports", "drain", "get"} /\ InProcess /\ ~bProcessed /\ pendingCmd = now
  BY DEF EnablePort, DisablePort, ReturnPort, Drain, DrainGet, InProcess, Protocol, Accepting,
         Processing
<1>2. UNCHANGED <<stateVars, now, callVars, nBufferHdrNum, owed>> /\ UNCHANGED <<eCurState, bProcessed>>
  BY DEF EnablePort, DisablePort, ReturnPort, Drain, DrainGet, GetAndSendBuffer, portVars, table,
         ghosts, stateVars
<1>3. \A c : Completable(c)' <=> Completable(c)
  BY <1>2 DEF Completable
<1>4. now \in Commands
  BY <1>1, Forms DEF Protocol, Accepting, TypeOK, ThreadTypeOK
<1>5. CASE EnablePort
  <2>1. todo = <<now.nParam>> /\ Checked(now)
    BY <1>1, <1>5 DEF EnablePort, Protocol, Processing
  <2>2. Head(todo) = now.nParam /\ ToProcessed = "processed" /\ now.nParam \notin bEnabled
    BY <1>5, <2>1 DEF EnablePort, ToProcessed, Checked
  <2>3. /\ pc' = "processed" /\ bEnabled \subseteq bEnabled'
        /\ ret' = IF eCurState = Loaded THEN "None" ELSE "NotComplete"
    BY <1>5, <2>2 DEF EnablePort
  <2>4. Processing'
    BY <1>1, <1>2, <1>3, <1>5, <2>3 DEF EnablePort, Processing, Completable, Is
  <2>5. Anchored'
    BY <2>3 DEF Protocol, Anchored
  <2>6. \A p : Brings(p) => Brings(p)'
    BY <1>2, <2>3 DEF Brings, stateVars
  <2>7. QED BY <1>1, <1>2, <2>3, <2>4, <2>5, <2>6, WithinCommand
<1>6. CASE DisablePort
  <2>1. todo = <<now.nParam>> /\ Checked(now) /\ now.cmd = "PortDisable"
    BY <1>1, <1>6 DEF DisablePort, Protocol, Processing
  <2>2. Head(todo) = now.nParam /\ ToProcessed = "processed" /\ now.nParam \in bEnabled
    BY <2>1 DEF ToProcessed, Checked
  <2>3. /\ bEnabled' = bEnabled \ {now.nParam}
        /\ eCurState = Loaded => ret' = "None" /\ pc' = "processed"
        /\ eCurState # Loaded => ret' = "NotComplete" /\ pc' = "drain" /\ todo' = todo
    BY <1>6, <2>2 DEF DisablePort
  <2>4. Processing'
    BY <1>1, <1>2, <1>3, <2>1, <2>3 DEF Processing, Completable, Is
  <2>5. Anchored'
    BY <1>4, <2>1, <2>3 DEF Protocol, Anchored
  <2>6. \A p : ~Brings(p)
    BY <1>1, <2>1 DEF Brings, Is
  <2>7. QED BY <1>1, <1>2, <2>3, <2>4, <2>5, <2>6, WithinCommand
<1>7. CASE ReturnPort \/ Drain \/ DrainGet
  <2>1. bEnabled' = bEnabled /\ ret' = ret
    BY <1>7 DEF ReturnPort, Drain, DrainGet, GetAndSendBuffer, portVars
  <2>2. Processing' /\ pc' \in {"ports", "drain", "get", "processed"}
    <3>1. CASE ReturnPort
      <4>1. now.cmd \notin {"PortEnable", "PortDisable"} /\ ret = "None" /\ ~Completable(now)
        BY <1>1, <3>1 DEF ReturnPort, Protocol, Processing
      <4>2. QED BY <1>1, <1>2, <1>3, <2>1, <3>1, <4>1 DEF ReturnPort, Protocol, Processing, InProcess, Busy
    <3>2. CASE DrainGet
      BY <1>1, <1>2, <1>3, <2>1, <3>2 DEF DrainGet, Protocol, Processing, InProcess, Busy
    <3>3. CASE Drain
      <4>1. now.cmd = "PortDisable" => ToProcessed = "processed"
        BY <3>3 DEF Drain, Protocol, Processing, ToProcessed
      <4>2. ToProcessed \in {"processed", "ports"}
        BY DEF ToProcessed
      <4>3. pc' = "get" => todo' = todo
        BY <3>3, <4>2 DEF Drain
      <4>4. pc' \in {"get", "processed", "ports"} /\ (pc' = "ports" => now.cmd # "PortDisable")
        BY <3>3, <4>1, <4>2 DEF Drain
      <4>5. /\ ret = "NotComplete" <=> Completable(now)
            /\ \/ now.cmd = "PortDisable" /\ todo = <<now.nParam>>
               \/ now.cmd \notin {"PortEnable", "PortDisable"} /\ ret = "None"
        BY <3>3 DEF Drain, Protocol, Processing
      <4>6. Busy /\ ret = "None" /\ now.cmd = "StateSet" => Moves(eCurState, now.nParam)
        BY DEF Protocol, Processing
      <4>7. QED BY <1>1, <1>2, <1>3, <2>1, <4>3, <4>4, <4>5, <4>6 DEF Processing, InProcess, Busy
    <3>4. QED BY <1>7, <3>1, <3>2, <3>3
  <2>3. Anchored'
    BY <2>1 DEF Protocol, Anchored
  <2>4. \A p : Brings(p) => Brings(p)'
    BY <1>2, <2>1 DEF Brings, stateVars
  <2>5. QED BY <1>1, <1>2, <2>2, <2>3, <2>4, WithinCommand
<1>8. QED BY <1>5, <1>6, <1>7

LEMMA ProcessedProtocol ==
    ASSUME Disciplined, TypeOK, Protocol, Processed
    PROVE  Protocol'
<1>1. /\ pc = "processed" /\ pendingCmd = now /\ now # None /\ InProcess /\ Busy /\ pCmdQueue = <<>>
      /\ ret = "NotComplete" <=> Completable(now)
  BY DEF Processed, InProcess, Busy, Protocol, Accepting, Processing
<1>2. now.nParam # OMX_ALL
  BY <1>1, Forms DEF TypeOK, ThreadTypeOK
<1>3. /\ bProcessed' = TRUE
      /\ ret = "NotComplete" => pc' = "buf"
      /\ ret # "NotComplete" => pc' = "clear" /\ replies' = 1
      /\ UNCHANGED <<portVars, eCurState, pendingCmd, pCmdQueue, now, ret, todo, callVars, owed>>
  BY <1>2 DEF Processed, EventsFor, ghosts
<1>4. /\ \A c : Completable(c)' <=> Completable(c)
      /\ UNCHANGED <<bEnabled, nBufferHdrNum>>
  BY <1>3 DEF Completable, portVars, table
<1>5. Accepting'
  BY <1>1, <1>3, <1>4 DEF Accepting, Protocol, Waiting, Busy, InProcess
<1>6. Processing'
  BY <1>1, <1>3, <1>4 DEF Processing, Protocol, Busy, InProcess
<1>7. Anchored'
  BY <1>4 DEF Protocol, Anchored
<1>8. ~NoCommand /\ ~NoCommand' /\ ~Waiting
  BY <1>1, <1>3 DEF NoCommand, Waiting
<1>9. \A k \in Controllers : Calling(k)'
  <2>1. \A p : Brings(p) => Brings(p)'
    BY <1>3, <1>4 DEF Brings
  <2>2. \A p : Frees(p) => Frees(p)'
    BY <1>3, <1>4, <1>8 DEF Frees
  <2>3. QED BY <1>1, <1>3, <1>4, <2>1, <2>2, BusyCalls
<1>10. OwedOnce'
  <2>1. \A d : InHand(d)' <=> InHand(d)
    BY <1>1, <1>3 DEF InHand, Concluding, callVars
  <2>2. QED BY <1>3, <2>1 DEF OwedOnce, Protocol
<1>11. QED BY <1>5, <1>6, <1>7, <1>9, <1>10 DEF Protocol

LEMMA ClearProtocol ==
    ASSUME Disciplined, TypeOK, Protocol, ClearPending
    PROVE  Protocol'
<1>1. /\ pc = "clear" /\ pendingCmd = now /\ now # None /\ InProcess /\ Busy /\ pCmdQueue = <<>>
      /\ ~Completable(now)
  BY DEF ClearPending, InProcess, Busy, Protocol, Accepting, Processing
<1>2. /\ pendingCmd' = None /\ pc' = "event"
      /\ UNCHANGED <<portVars, eCurState, bProcessed, pCmdQueue, now, ret, todo, replies, callVars,
                     owed>>
  BY DEF ClearPending, ghosts
<1>3. UNCHANGED <<bEnabled, nBufferHdrNum>>
  BY <1>2 DEF portVars, table
<1>4. Accepting'
  BY <1>1, <1>2 DEF Accepting, Protocol, Waiting, Busy, InProcess, None
<1>5. Processing'
  BY <1>1, <1>2 DEF Processing, Protocol, Busy, InProcess
<1>6. Anchored'
  BY <1>3 DEF Protocol, Anchored
<1>7. ~NoCommand /\ ~NoCommand' /\ ~Waiting
  BY <1>1, <1>2 DEF NoCommand, Waiting, Busy
<1>8. \A k \in Controllers : Calling(k)'
  <2>1. \A p : ~Brings(p)
    BY <1>1 DEF Brings, Completable, Is
  <2>2. \A p : ~Frees(p)
    BY <1>1, <1>7 DEF Frees, Completable, Is
  <2>3. QED BY <1>1, <1>2, <1>3, <2>1, <2>2, BusyCalls
<1>9. OwedOnce'
  <2>1. \A d \in Commands : InHand(d)' <=> InHand(d)
    BY <1>1, <1>2, Forms DEF InHand, Concluding, callVars
  <2>2. QED BY <1>2, <2>1 DEF OwedOnce, Protocol
<1>10. QED BY <1>4, <1>5, <1>6, <1>8, <1>9 DEF Protocol

LEMMA EventProtocol ==
    ASSUME Disciplined, TypeOK, Protocol, Event
    PROVE  Protocol'
<1>0. PICK c \in Commands : c = now
  BY Forms DEF Event, Protocol, Accepting, TypeOK, ThreadTypeOK
<1>1. /\ pc = "event" /\ pendingCmd = None /\ Busy /\ ~InProcess /\ pCmdQueue = <<>> /\ replies = 1
  BY DEF Event, InProcess, Busy, Protocol, Accepting, Processing
<1>2. c.nParam # OMX_ALL
  BY Forms
<1>3. /\ pc' = "buf" /\ Answer(c)
      /\ eCurState' # eCurState => eCurState # Loaded /\ Moves(eCurState, eCurState')
      /\ UNCHANGED <<portVars, pendingCmd, bProcessed, pCmdQueue, now, ret, todo, callVars>>
  BY <1>0, <1>1, <1>2 DEF Event, Protocol, Processing, Moves, Loaded, Idle, Executing, Pause
<1>4. UNCHANGED <<bEnabled, nBufferHdrNum>> /\ ~Busy' /\ ~InProcess'
  BY <1>3 DEF portVars, table, Busy, InProcess
<1>5. eCurState' # WaitForResources
  BY <1>3 DEF Moves, Protocol, Accepting, Invalid, Idle, Executing, Pause, WaitForResources
<1>6. Accepting'
  BY <1>1, <1>3, <1>4, <1>5 DEF Accepting, Waiting, None
<1>7. Processing'
  BY <1>3, <1>4 DEF Processing, InProcess
<1>8. Anchored'
  BY <1>4 DEF Protocol, Anchored
<1>9. \A k \in Controllers : Calling(k)'
  <2>1. ~NoCommand /\ ~Waiting
    BY <1>1 DEF NoCommand, Waiting
  <2>2. \A p : ~Brings(p) /\ ~Frees(p)
    BY <1>1, <2>1 DEF Brings, Frees, Is, None
  <2>3. SUFFICES ASSUME NEW k \in Controllers PROVE Calling(k)'
    OBVIOUS
  <2>4. at' = at /\ call' = call /\ Calling(k)
    BY <1>3 DEF callVars, Protocol
  <2>5. at[k] \in Acting => eCurState' = eCurState
    BY <1>3, <2>1, <2>4 DEF Calling
  <2>6. at[k] \notin Posts
    BY <1>1, ThreadHasIt DEF Posting
  <2>7. QED BY <1>4, <2>1, <2>2, <2>4, <2>5, <2>6 DEF Calling, Posts
<1>10. OwedOnce'
  <2>1. \A d : ~Concluding(d)
    <3>1. ~NoCommand
      BY <1>1 DEF NoCommand
    <3>2. QED BY <3>1 DEF Concluding, Protocol, Calling
  <2>2. ASSUME NEW d \in Commands
        PROVE  (InHand(d) <=> d = c) /\ ~InHand(d)'
    BY <1>0, <1>1, <1>3, <2>1, Forms DEF InHand, Concluding, callVars
  <2>3. owed \in [Commands -> Int]
    BY DEF TypeOK, CallTypeOK
  <2>4. ASSUME NEW d \in Commands
        PROVE  owed'[d] = 0
    <3>1. owed[d] = IF d = c THEN 1 ELSE 0
      BY <2>2 DEF OwedOnce, Protocol
    <3>2. QED BY <1>3, <2>3, <3>1 DEF Answer
  <2>5. QED BY <2>2, <2>4 DEF OwedOnce
<1>11. QED BY <1>6, <1>7, <1>8, <1>9, <1>10 DEF Protocol

-----------------------------------------------------------------------------
(* Steps that leave the tables alone *)

LEMMA EmptyPort ==
    ASSUME NEW p \in Ports, Table(p), TypeOK, nBufferHdrNum[p] = 0
    PROVE  Packed(p) /\ p \notin bPopulated /\ Registered(p) = {}
<1>1. Used(p) = {} /\ Registered(p) = {}
  BY EmptyTable
<1>2. \A i \in Slots : ~(i < 0)
  BY PortAssumption DEF Slots
<1>3. QED BY <1>1, <1>2 DEF Packed, Table

LEMMA SameTable ==
    ASSUME TypeOK, NEW p \in Ports, Table(p), UNCHANGED <<bPopulated, table>>, Live(p) \subseteq Live(p)',
           Freeing(p) => Freeing(p)' \/ nBufferHdrNum[p] = 0
    PROVE  Table(p)'
<1>1. BufferHdrArry' = BufferHdrArry /\ nBufferHdrNum' = nBufferHdrNum
  BY DEF table
<1>2. Used(p)' = Used(p) /\ Registered(p)' = Registered(p) /\ (Packed(p)' <=> Packed(p))
  BY <1>1 DEF Used, Registered, Packed
<1>3. Registered(p)' \subseteq Live(p)'
  BY <1>2 DEF Table
<1>4. Freeing(p)' \/ (Packed(p) /\ (p \in bPopulated => nBufferHdrNum[p] = nBufferCountActual))
  <2>1. nBufferHdrNum[p] = 0 => Packed(p) /\ p \notin bPopulated
    BY EmptyPort
  <2>2. QED BY <2>1 DEF Table
<1>5. QED BY <1>1, <1>2, <1>3, <1>4 DEF Table

\* What a step has to say when no header is registered or unregistered.
LEMMA StateTables ==
    ASSUME TypeOK, Tables, UNCHANGED <<bPopulated, table, passing>>, owned \subseteq owned',
           \A p \in Ports : Live(p) \subseteq Live(p)' /\ Sorted(p)',
           \A p \in Ports : Freeing(p) => Freeing(p)' \/ nBufferHdrNum[p] = 0,
           \A p \in Ports : Known(p)',
           \A k \in Controllers : Notifying(k)',
           \A f \in Feeders, k \in Controllers :
               passing[f] # NULL => call'[k].header # passing[f]
    PROVE  Tables'
<1>1. \A p \in Ports : Table(p)'
  BY SameTable DEF Tables
<1>2. Passes'
  BY DEF Tables, Passes
<1>3. QED BY <1>1, <1>2 DEF Tables

\* The step changes neither the state nor the pending command.
LEMMA KeepTables ==
    ASSUME TypeOK, Tables,
           UNCHANGED <<bEnabled, bPopulated, table, eCurState, pendingCmd, passing>>,
           owned \subseteq owned',
           \A p \in Ports : Live(p) \subseteq Live(p)' /\ Sorted(p)',
           \A k \in Controllers : /\ at'[k] = "conclude" <=> at[k] = "conclude"
                                  /\ at[k] = "conclude" => call'[k] = call[k]
                                  /\ at'[k] = "post" =>
                                        \/ at[k] = "post"
                                        \/ \A p \in Ports : eCurState = Loaded => nBufferHdrNum[p] = 0,
           \A p \in Ports : (/\ Is(pendingCmd, "PortDisable", p) /\ eCurState # Loaded
                             /\ pCmdQueue' = <<>> /\ pc' # "ports" /\ ~Posting') => p \notin bEnabled,
           \A k \in Controllers : Notifying(k)',
           \A f \in Feeders, k \in Controllers :
               passing[f] # NULL => call'[k].header # passing[f]
    PROVE  Tables'
<1>1. Unloading' <=> Unloading
  BY DEF Unloading
<1>2. \A p : Freeing(p)' <=> Freeing(p)
  BY <1>1 DEF Freeing
<1>3. ASSUME NEW p \in Ports PROVE Known(p)'
  <2>1. nBufferHdrNum' = nBufferHdrNum /\ Registered(p)' = Registered(p) /\ Passing' = Passing
    BY DEF table, Registered, Passing
  <2>2. Known(p)
    BY DEF Tables
  <2>3. /\ eCurState' \in {Idle, Executing, Pause} /\ p \in bEnabled' =>
              p \in bPopulated' \/ (nBufferHdrNum'[p] = 0 /\ Unloading')
        /\ eCurState' = Loaded \/ (p \notin bEnabled' /\ ~Is(pendingCmd', "PortDisable", p)) =>
              Registered(p)' \subseteq owned' \ Passing'
    BY <1>1, <2>1, <2>2 DEF Known
  <2>4. eCurState' = Loaded /\ (\/ pendingCmd' # None /\ ~Is(pendingCmd', "StateSet", Idle)
                                \/ \E k \in Controllers : at'[k] = "post") =>
              nBufferHdrNum'[p] = 0
    BY <2>1, <2>2 DEF Known
  <2>5. QED BY <2>1, <2>3, <2>4 DEF Known
<1>4. QED BY <1>2, <1>3, StateTables

-----------------------------------------------------------------------------
(* Headers that move are still the port's *)

InSeq(s) == {s[i] : i \in 1..Len(s)}

LEMMA HeadAndTail ==
    ASSUME NEW s \in Seq(Headers), s # <<>>
    PROVE  InSeq(s) = InSeq(Tail(s)) \cup {Head(s)}
<1>1. /\ Head(s) = s[1] /\ Len(s) \in Nat /\ Len(s) > 0 /\ Len(Tail(s)) = Len(s) - 1
      /\ \A i \in 1..Len(Tail(s)) : Tail(s)[i] = s[i + 1]
  OBVIOUS
<1>2. ASSUME NEW x \in InSeq(s) PROVE x \in InSeq(Tail(s)) \cup {Head(s)}
  <2>1. PICK i \in 1..Len(s) : x = s[i]
    BY DEF InSeq
  <2>2. i # 1 => i - 1 \in 1..Len(Tail(s)) /\ Tail(s)[i - 1] = x
    BY <1>1, <2>1
  <2>3. QED BY <1>1, <2>1, <2>2 DEF InSeq
<1>3. ASSUME NEW x \in InSeq(Tail(s)) PROVE x \in InSeq(s)
  <2>1. PICK i \in 1..Len(Tail(s)) : x = Tail(s)[i]
    BY DEF InSeq
  <2>2. i + 1 \in 1..Len(s) /\ s[i + 1] = x
    BY <1>1, <2>1
  <2>3. QED BY <2>2 DEF InSeq
<1>4. 1 \in 1..Len(s) /\ s[1] = Head(s)
  BY <1>1
<1>5. Head(s) \in InSeq(s)
  BY <1>4 DEF InSeq
<1>6. QED BY <1>2, <1>3, <1>5

LEMMA Appended ==
    ASSUME NEW s \in Seq(Headers), NEW h \in Headers
    PROVE  InSeq(Append(s, h)) = InSeq(s) \cup {h}
<1>1. /\ Len(Append(s, h)) = Len(s) + 1 /\ Len(s) \in Nat
      /\ \A i \in 1..Len(s) : Append(s, h)[i] = s[i]
      /\ Append(s, h)[Len(s) + 1] = h
  OBVIOUS
<1>2. 1..(Len(s) + 1) = 1..Len(s) \cup {Len(s) + 1}
  BY <1>1
<1>3. QED BY <1>1, <1>2 DEF InSeq

LEMMA QueuedIs == \A p : Queued(p) = InSeq(pPortQueue[p])
BY DEF Queued, BufferNum, InSeq

\* What GetBuffer takes.
LEMMA GetMoves ==
    ASSUME TypeOK, NEW q \in Ports, pPortQueue[q] # <<>>,
           pPortQueue' = [pPortQueue EXCEPT ![q] = Tail(@)]
    PROVE  /\ Queued(q) = Queued(q)' \cup {Head(pPortQueue[q])}
           /\ \A p \in Ports : p # q => Queued(p)' = Queued(p)
<1>1. pPortQueue \in [Ports -> Seq(Headers)]
  BY DEF TypeOK, PortTypeOK
<1>2. pPortQueue'[q] = Tail(pPortQueue[q]) /\ \A p \in Ports : p # q => pPortQueue'[p] = pPortQueue[p]
  BY <1>1
<1>3. \A p : Queued(p)' = InSeq(pPortQueue'[p])
  BY DEF Queued, BufferNum, InSeq
<1>4. InSeq(pPortQueue[q]) = InSeq(Tail(pPortQueue[q])) \cup {Head(pPortQueue[q])}
  BY <1>1, HeadAndTail
<1>5. QED BY <1>2, <1>3, <1>4, QueuedIs

\* The steps that send buffers to the client, or take them for the component.
LEMMA MovedHeaders ==
    ASSUME TypeOK, Tables, NEW q \in Ports,
           \/ GetAndSendBuffer(q) \/ GetAndHoldBuffer(q) \/ ReturnHeld(q)
           \/ \E h \in Headers : PortOf(h) = q /\ SendHeld(h)
    PROVE  /\ owned \subseteq owned'
           /\ \A p \in Ports : Live(p)' = Live(p) /\ Sorted(p)'
<1>1. /\ held \in [Ports -> SUBSET Headers] /\ owned \subseteq Headers
      /\ \A p \in Ports : Sorted(p)
  BY DEF TypeOK, PortTypeOK, Tables
<1>2. CASE GetAndSendBuffer(q)
  <2>1. /\ Queued(q) = Queued(q)' \cup {Head(pPortQueue[q])}
        /\ \A p \in Ports : p # q => Queued(p)' = Queued(p)
    BY <1>2, GetMoves DEF GetAndSendBuffer
  <2>2. PICK h : h = Head(pPortQueue[q])
    OBVIOUS
  <2>3. PortOf(h) = q /\ owned' = owned \cup {h} /\ held' = held
    BY <1>1, <1>2, <2>1, <2>2 DEF Sorted, GetAndSendBuffer
  <2>4. \A p \in Ports : Live(p)' = Live(p)
    BY <2>1, <2>2, <2>3 DEF Live
  <2>5. \A p \in Ports : Sorted(p)'
    BY <1>1, <2>1, <2>3 DEF Sorted
  <2>6. QED BY <2>3, <2>4, <2>5
<1>3. CASE GetAndHoldBuffer(q)
  <2>1. /\ Queued(q) = Queued(q)' \cup {Head(pPortQueue[q])}
        /\ \A p \in Ports : p # q => Queued(p)' = Queued(p)
    BY <1>3, GetMoves DEF GetAndHoldBuffer
  <2>2. PICK h : h = Head(pPortQueue[q])
    OBVIOUS
  <2>3. /\ PortOf(h) = q /\ owned' = owned
        /\ held'[q] = held[q] \cup {h}
        /\ \A p \in Ports : p # q => held'[p] = held[p]
    BY <1>1, <1>3, <2>1, <2>2 DEF Sorted, GetAndHoldBuffer
  <2>4. \A p \in Ports : Live(p)' = Live(p)
    BY <2>1, <2>2, <2>3 DEF Live
  <2>5. \A p \in Ports : Sorted(p)'
    BY <1>1, <2>1, <2>2, <2>3 DEF Sorted
  <2>6. QED BY <2>3, <2>4, <2>5
<1>4. CASE ReturnHeld(q)
  <2>1. \A p \in Ports : Queued(p)' = Queued(p)
    BY <1>4 DEF ReturnHeld, Queued, BufferNum
  <2>2. /\ owned' = owned \cup held[q] /\ held'[q] = {}
        /\ \A p \in Ports : p # q => held'[p] = held[p]
    BY <1>1, <1>4 DEF ReturnHeld
  <2>3. \A p \in Ports : Live(p)' = Live(p)
    BY <1>1, <2>1, <2>2 DEF Live, Sorted
  <2>4. \A p \in Ports : Sorted(p)'
    BY <1>1, <2>1, <2>2 DEF Sorted
  <2>5. QED BY <2>2, <2>3, <2>4
<1>5. ASSUME NEW h \in Headers, PortOf(h) = q, SendHeld(h)
      PROVE  owned \subseteq owned' /\ \A p \in Ports : Live(p)' = Live(p) /\ Sorted(p)'
  <2>1. \A p \in Ports : Queued(p)' = Queued(p)
    BY <1>5 DEF SendHeld, Queued, BufferNum
  <2>2. /\ owned' = owned \cup {h} /\ held'[q] = held[q] \ {h} /\ h \in held[q]
        /\ \A p \in Ports : p # q => held'[p] = held[p]
    BY <1>1, <1>5 DEF SendHeld
  <2>3. \A p \in Ports : Live(p)' = Live(p)
    BY <1>1, <1>5, <2>1, <2>2 DEF Live
  <2>4. \A p \in Ports : Sorted(p)'
    BY <1>1, <2>1, <2>2 DEF Sorted
  <2>5. QED BY <2>2, <2>3, <2>4
<1>6. QED BY <1>2, <1>3, <1>4, <1>5

LEMMA SameHeaders ==
    ASSUME Tables, UNCHANGED flow
    PROVE  \A p \in Ports : Live(p)' = Live(p) /\ Sorted(p)'
BY DEF Live, Queued, BufferNum, Sorted, flow, Tables

-----------------------------------------------------------------------------
(* The client's calls up to PortNotify, but for the registration            *)

LEMMA CallTables ==
    ASSUME Disciplined, TypeOK, Inv, NEW k \in Controllers,
           UNCHANGED <<bEnabled, bPopulated, table, stateVars, threadVars, passing>>,
           owned \subseteq owned',
           \A p \in Ports : Live(p)' = Live(p) /\ Sorted(p)',
           at[k] \notin Posts \cup {"conclude"}, at'[k] \notin Posts \cup {"conclude"},
           at'[k] = "post" => \A p \in Ports : eCurState = Loaded => nBufferHdrNum[p] = 0,
           Notifying(k)',
           \A f \in Feeders : passing[f] # NULL => call'[k].header # passing[f]
    PROVE  Tables'
<1>1. UNCHANGED <<eCurState, pendingCmd, pCmdQueue, pc>>
  BY DEF stateVars, threadVars
<1>2. \A p \in Ports : (/\ Is(pendingCmd, "PortDisable", p) /\ eCurState # Loaded
                        /\ pCmdQueue' = <<>> /\ pc' # "ports" /\ ~Posting') => p \notin bEnabled
  BY <1>1, NotPosting DEF Inv, Tables, Known
<1>3. QED BY <1>1, <1>2, KeepTables DEF Disciplined, Inv

\* The header of the call is the one it had, or none.
LEMMA SameHeader ==
    ASSUME Inv, NEW k \in Controllers, call'[k].header \in {NULL, call[k].header}
    PROVE  \A f \in Feeders : passing[f] # NULL => call'[k].header # passing[f]
BY DEF Inv, Tables, Passes

\* In Loaded the client has all the headers, and sends a command when it has none.
LEMMA SendTables ==
    ASSUME Disciplined, TypeOK, Inv, NEW k \in Controllers, NEW c \in Commands,
           SendCommand(k, c)
    PROVE  Tables'
<1>1. /\ at[k] = "idle" /\ at'[k] = "post" /\ call'[k].header = NULL
      /\ UNCHANGED <<portVars, stateVars, threadVars, passing>>
  BY DEF SendCommand, Call, TypeOK, CallTypeOK
<1>2. UNCHANGED <<bEnabled, bPopulated, table, owned, flow>>
  BY <1>1 DEF portVars, flow
<1>3. ASSUME NEW p \in Ports, eCurState = Loaded PROVE nBufferHdrNum[p] = 0
  <2>1. owned = {}
    BY <1>3 DEF SendCommand, Disciplined
  <2>2. Registered(p) = {}
    BY <1>3, <2>1 DEF Inv, Tables, Known
  <2>3. QED BY <2>2, EmptyTable DEF Inv, Tables
<1>4. Notifying(k)'
  BY <1>1 DEF Notifying
<1>5. QED BY <1>1, <1>2, <1>3, <1>4, CallTables, SameHeader, SameHeaders DEF Inv, Posts

LEMMA LeaveTables ==
    ASSUME Disciplined, TypeOK, Inv, NEW k \in Controllers, Leave(k),
           at[k] \notin Posts \cup {"conclude"},
           UNCHANGED <<portVars, stateVars, threadVars, passing>>
    PROVE  Tables'
<1>1. at'[k] = "idle" /\ call'[k].header = NULL
  BY DEF Leave, NoCall, Call, TypeOK, CallTypeOK
<1>2. UNCHANGED <<bEnabled, bPopulated, table, owned, flow>>
  BY DEF portVars, flow
<1>3. Notifying(k)'
  BY <1>1 DEF Notifying
<1>4. QED BY <1>1, <1>2, <1>3, CallTables, SameHeader, SameHeaders DEF Inv, Posts

LEMMA EnterTables ==
    ASSUME Disciplined, TypeOK, Inv, NEW k \in Controllers,
           \/ \E p \in Ports : Allocate(k, p) \/ UseEarly(k, p)
           \/ \E h \in Headers : Free(k, h)
           \/ PollOver(k) \/ WaitOver(k) \/ WaitTimeout(k) \/ AllocateRefused(k)
    PROVE  Tables'
<1>1. UNCHANGED <<portVars, stateVars, threadVars, passing>>
  BY DEF Allocate, UseEarly, Free, PollOver, WaitOver, WaitTimeout, AllocateRefused
<1>2. UNCHANGED <<bEnabled, bPopulated, table, owned, flow>>
  BY <1>1 DEF portVars, flow
<1>3. CASE Leave(k) /\ at[k] \notin Posts \cup {"conclude"}
  BY <1>1, <1>3, LeaveTables
<1>4. CASE \/ \E p \in Ports : Allocate(k, p)
           \/ \E h \in Headers : Free(k, h)
           \/ WaitOver(k) /\ at' = [at EXCEPT ![k] = "act"] /\ call' = call
  <2>1. at[k] \notin Posts \cup {"conclude"} /\ at'[k] \in {"wait", "act"}
    BY <1>4 DEF Allocate, Free, WaitOver, Enter, TypeOK, CallTypeOK, Posts
  <2>2. Notifying(k)'
    BY <2>1 DEF Notifying
  <2>3. ASSUME NEW f \in Feeders, passing[f] # NULL PROVE call'[k].header # passing[f]
    <3>1. CASE \E p \in Ports : Allocate(k, p)
      BY <2>3, <3>1 DEF Allocate, Enter, Call, TypeOK, CallTypeOK
    <3>2. ASSUME NEW h \in Headers, Free(k, h) PROVE call'[k].header # passing[f]
      <4>1. call'[k].header = h /\ h \notin Passing
        BY <3>2 DEF Free, Enter, Call, TypeOK, CallTypeOK
      <4>2. QED BY <4>1 DEF Passing
    <3>3. CASE call' = call
      BY <2>3, <3>3 DEF Inv, Tables, Passes
    <3>4. QED BY <1>4, <3>1, <3>2, <3>3
  <2>4. QED BY <1>1, <1>2, <2>1, <2>2, <2>3, CallTables, SameHeaders DEF Inv, Posts
<1>5. ~PollOver(k) /\ ~(\E p \in Ports : UseEarly(k, p))
  BY DEF PollOver, UseEarly, Disciplined, Inv, Protocol, Calling
<1>6. QED BY <1>3, <1>4, <1>5 DEF WaitOver, WaitTimeout, AllocateRefused, Posts

LEMMA FreeingTables ==
    ASSUME Disciplined, TypeOK, Inv, NEW k \in Controllers,
           FreeAct(k) \/ FreeDrain(k) \/ FreeGet(k)
    PROVE  Tables'
<1>1. call[k].port \in Ports
  BY DEF TypeOK, CallTypeOK
<1>2. /\ UNCHANGED <<bEnabled, bPopulated, table, stateVars, threadVars, passing, call>>
      /\ UNCHANGED flow \/ ReturnHeld(call[k].port) \/ GetAndSendBuffer(call[k].port)
  BY DEF FreeAct, FreeDrain, FreeGet, GetAndSendBuffer, portVars, flow
<1>3. owned \subseteq owned' /\ \A p \in Ports : Live(p)' = Live(p) /\ Sorted(p)'
  BY <1>1, <1>2, MovedHeaders, SameHeaders DEF Inv, flow
<1>4. at[k] \notin Posts \cup {"conclude"} /\ at'[k] \in {"drain", "get", "match"}
  BY DEF FreeAct, FreeDrain, FreeGet, TypeOK, CallTypeOK, Posts
<1>5. Notifying(k)'
  BY <1>4 DEF Notifying
<1>6. QED BY <1>2, <1>3, <1>4, <1>5, CallTables, SameHeader DEF Posts

\* What PortNotify has found holds until the command is replied to.
LEMMA NotifyTables ==
    ASSUME Disciplined, TypeOK, Inv, NEW k \in Controllers, NotifyOn(k) \/ NotifyOff(k)
    PROVE  Tables'
<1> DEFINE p == call[k].port
<1>1. at[k] = "notify" /\ p \in Ports
  BY DEF NotifyOn, NotifyOff, TypeOK, CallTypeOK
<1>2. ~RolledBack \/ NotifyOn(k)
  <2>1. CASE NotifyOff(k)
    <3>1. (Waiting \/ NoCommand) /\ Frees(p)
      BY <1>1, <2>1 DEF NotifyOff, Inv, Protocol, Calling, Acting
    <3>2. QED BY <3>1 DEF RolledBack, Frees, Is, StateSet, NoCommand, None, Idle, Loaded
  <2>2. QED BY <2>1
<1>3. UNCHANGED <<portVars, eCurState, pendingCmd, pCmdQueue, threadVars, passing>>
  BY <1>2 DEF NotifyOn, NotifyOff, stateVars
<1>4. UNCHANGED <<bEnabled, bPopulated, table, owned, flow, pc>>
  BY <1>3 DEF portVars, flow, threadVars
<1>5. \/ at'[k] = "idle" /\ call'[k].header = NULL
      \/ /\ at'[k] = "reply" /\ call'[k] = call[k]
         /\ \/ NotifyOn(k) /\ CompletedOn(p)
            \/ NotifyOff(k) /\ (Unloaded \/ Disabled(p))
  BY DEF NotifyOn, NotifyOff, ReplyIf, Leave, NoCall, Call, TypeOK, CallTypeOK
<1>6. Notifying(k)'
  <2>1. CASE at'[k] = "idle"
    BY <2>1 DEF Notifying
  <2>2. CASE at'[k] = "reply"
    <3>1. pendingCmd \in Commands \cup {None} /\ nBufferHdrNum' = nBufferHdrNum
      BY <1>4 DEF TypeOK, StateTypeOK, table
    <3>2. Fulfilled(pendingCmd)
      <4>1. CASE NotifyOn(k) /\ CompletedOn(p)
        BY <3>1, <4>1, Forms DEF CompletedOn, Fulfilled, Is, Idle, Loaded, StateSet
      <4>2. CASE NotifyOff(k) /\ (Unloaded \/ Disabled(p))
        <5>1. nBufferHdrNum[p] = 0
          BY <1>1, <4>2 DEF NotifyOff, Inv, Tables, Notifying
        <5>2. CASE Unloaded
          BY <5>2 DEF Unloaded, Fulfilled, Is, Idle, Loaded, StateSet
        <5>3. CASE Disabled(p)
          BY <3>1, <5>1, <5>3, Forms DEF Disabled, Fulfilled, Is, Disciplined
        <5>4. QED BY <4>2, <5>2, <5>3
      <4>3. QED BY <1>5, <2>2, <4>1, <4>2
    <3>3. PICK c : c = pendingCmd
      OBVIOUS
    <3>4. Fulfilled(c)'
      BY <1>4, <3>1, <3>2, <3>3 DEF Fulfilled, AllPortsOn, AllPortsOff
    <3>5. Fulfilled(pendingCmd)'
      BY <1>3, <3>3, <3>4
    <3>6. QED BY <2>2, <3>5 DEF Notifying
  <2>3. QED BY <1>5, <2>1, <2>2
<1>7. \A f \in Feeders : passing[f] # NULL => call'[k].header # passing[f]
  BY <1>5, SameHeader
<1>8. \A q \in Ports : Live(q)' = Live(q) /\ Sorted(q)'
  BY <1>4, SameHeaders DEF Inv
<1>9. \A q \in Ports : (/\ Is(pendingCmd, "PortDisable", q) /\ eCurState # Loaded
                        /\ pCmdQueue' = <<>> /\ pc' # "ports" /\ ~Posting') => q \notin bEnabled
  BY <1>1, <1>3, <1>4, NotPosting DEF Inv, Tables, Known, Posts
<1>10. \A j \in Controllers : j = k
  BY DEF Disciplined
<1>11. at'[k] # "post" /\ at'[k] # "conclude" /\ at[k] # "conclude"
  BY <1>1, <1>5
<1>12. QED BY <1>3, <1>4, <1>6, <1>7, <1>8, <1>9, <1>10, <1>11, KeepTables DEF Inv

-----------------------------------------------------------------------------
(* The client's steps that change the command or the state                  *)

LEMMA PendTables ==
    ASSUME Disciplined, TypeOK, Inv, NEW k \in Controllers, Pend(k)
    PROVE  Tables'
<1>1. NoCommand /\ at[k] = "post" /\ \A j \in Controllers : j = k
  BY DEF Pend, Inv, Protocol, Calling, Disciplined
<1>2. /\ at'[k] = "pend" /\ call' = call /\ Posting'
      /\ UNCHANGED <<portVars, eCurState, passing>>
  BY <1>1 DEF Pend, Posting, Posts, TypeOK, CallTypeOK
<1>3. UNCHANGED <<bEnabled, bPopulated, table, owned, flow, nBufferHdrNum, BufferHdrArry>>
  BY <1>2 DEF portVars, flow, table
<1>4. ~Unloading
  BY <1>1 DEF Unloading, NoCommand, Is, None
<1>5. ASSUME NEW p \in Ports, eCurState = Loaded PROVE nBufferHdrNum[p] = 0
  BY <1>1, <1>5 DEF Inv, Tables, Known
<1>6. ASSUME NEW p \in Ports, Freeing(p) PROVE nBufferHdrNum[p] = 0
  BY <1>1, <1>4, <1>5, <1>6 DEF Freeing, NoCommand, Is, None
<1>7. ASSUME NEW p \in Ports PROVE Known(p)'
  <2>1. Registered(p)' = Registered(p) /\ Passing' = Passing
    BY <1>2, <1>3 DEF Registered, Passing
  <2>2. Known(p) /\ ~Is(pendingCmd, "PortDisable", p)
    BY <1>1 DEF Inv, Tables, NoCommand, Is, None
  <2>3. QED BY <1>1, <1>2, <1>3, <1>4, <1>5, <2>1, <2>2 DEF Known
<1>8. \A j \in Controllers : Notifying(j)'
  BY <1>1, <1>2 DEF Notifying
<1>9. QED
  BY <1>1, <1>2, <1>3, <1>6, <1>7, <1>8, StateTables, SameHeader, SameHeaders DEF Inv

LEMMA PostTables ==
    ASSUME Disciplined, TypeOK, Inv, NEW k \in Controllers, ClearProcessed(k) \/ PostCommand(k)
    PROVE  Tables'
<1>1. \A j \in Controllers : j = k
  BY DEF Disciplined
<1>2. /\ at[k] \in Posts /\ at'[k] \in {"add", "idle"}
      /\ call'[k].header \in {NULL, call[k].header}
      /\ UNCHANGED <<portVars, eCurState, pendingCmd, passing>>
  BY DEF ClearProcessed, PostCommand, NoCall, Call, TypeOK, CallTypeOK, Posts
<1>3. UNCHANGED <<bEnabled, bPopulated, table, owned, flow>>
  BY <1>2 DEF portVars, flow
<1>4. Posting' \/ pCmdQueue' # <<>>
  <2>1. CASE ClearProcessed(k)
    BY <2>1 DEF ClearProcessed, Posting, Posts, TypeOK, CallTypeOK
  <2>2. CASE PostCommand(k)
    BY <2>2 DEF PostCommand, TypeOK, StateTypeOK, CallTypeOK
  <2>3. QED BY <2>1, <2>2
<1>5. Notifying(k)'
  BY <1>2 DEF Notifying
<1>6. QED
  BY <1>1, <1>2, <1>3, <1>4, <1>5, KeepTables, SameHeader, SameHeaders DEF Inv, Posts

\* A PortEnable, or the way to Idle, that is given up.
LEMMA GiveUpTables ==
    ASSUME Disciplined, TypeOK, Inv, NEW k \in Controllers, Waiting,
           pendingCmd.cmd = "PortEnable" \/ Is(pendingCmd, "StateSet", Idle),
           pendingCmd' = None, at'[k] = "idle", call'[k].header \in {NULL, call[k].header},
           at[k] # "conclude",
           UNCHANGED <<portVars, eCurState, pCmdQueue, passing>>
    PROVE  Tables'
<1>1. \A j \in Controllers : j = k
  BY DEF Disciplined
<1>2. UNCHANGED <<bEnabled, bPopulated, table, owned, flow, nBufferHdrNum, BufferHdrArry>>
  BY DEF portVars, flow, table
<1>3. ~Unloading
  BY <1>1 DEF Unloading, Is, Idle, Loaded
<1>4. ASSUME NEW p \in Ports, Freeing(p) PROVE Freeing(p)'
  BY <1>1, <1>3, <1>4 DEF Freeing, Waiting, Is
<1>5. ASSUME NEW p \in Ports PROVE Known(p)'
  <2>1. Registered(p)' = Registered(p) /\ Passing' = Passing
    BY <1>2 DEF Registered, Passing
  <2>2. Known(p) /\ ~Is(pendingCmd, "PortDisable", p)
    BY DEF Inv, Tables, Is
  <2>3. ~(\E j \in Controllers : at'[j] = "post") /\ ~Is(pendingCmd', "PortDisable", p)
    BY <1>1 DEF Is, None
  <2>4. QED BY <1>2, <1>3, <2>1, <2>2, <2>3 DEF Known
<1>6. \A j \in Controllers : Notifying(j)'
  BY <1>1 DEF Notifying
<1>7. QED
  BY <1>1, <1>2, <1>4, <1>5, <1>6, StateTables, SameHeader, SameHeaders DEF Inv

LEMMA ResetTables ==
    ASSUME Disciplined, TypeOK, Inv, NEW k \in Controllers, ResetPending(k)
    PROVE  Tables'
<1>1. /\ pendingCmd.cmd = "PortEnable" /\ eCurState # Loaded /\ bProcessed /\ pendingCmd # None
      /\ at[k] = "idle"
  BY DEF ResetPending, Disciplined
<1>2. Waiting
  BY <1>1, NotPosting
     DEF Inv, Protocol, Accepting, Processing, Completable, Waiting, Busy, InProcess, Posts
<1>3. /\ pendingCmd' = None /\ at'[k] = "idle" /\ call' = call
      /\ UNCHANGED <<portVars, eCurState, pCmdQueue, passing>>
  BY <1>1 DEF ResetPending, callVars
<1>4. QED BY <1>1, <1>2, <1>3, GiveUpTables

LEMMA AllocateFailsTables ==
    ASSUME Disciplined, TypeOK, Inv, NEW k \in Controllers, AllocateFails(k)
    PROVE  Tables'
<1>1. at[k] = "act" /\ call[k].op = "allocate" /\ Leave(k)
  BY DEF AllocateFails
<1>2. Waiting
  BY <1>1 DEF Inv, Protocol, Calling, Acting
<1>3. /\ at'[k] = "idle" /\ call'[k].header = NULL
      /\ UNCHANGED <<portVars, eCurState, pCmdQueue, threadVars, passing>>
  BY <1>1 DEF AllocateFails, Leave, NoCall, Call, TypeOK, CallTypeOK
<1>4. CASE pendingCmd = StateSet(Idle) /\ pendingCmd' = None
  BY <1>1, <1>2, <1>3, <1>4, GiveUpTables DEF StateSet, Is
<1>5. CASE pendingCmd' = pendingCmd
  <2>1. UNCHANGED <<bEnabled, bPopulated, table, owned, flow, pc>>
    BY <1>3 DEF portVars, flow, threadVars
  <2>2. Notifying(k)'
    BY <1>3 DEF Notifying
  <2>3. \A q \in Ports : (/\ Is(pendingCmd, "PortDisable", q) /\ eCurState # Loaded
                          /\ pCmdQueue' = <<>> /\ pc' # "ports" /\ ~Posting') => q \notin bEnabled
    BY <1>1, <1>3, <2>1, NotPosting DEF Inv, Tables, Known, Posts
  <2>4. \A j \in Controllers : j = k
    BY DEF Disciplined
  <2>5. QED
    BY <1>1, <1>3, <1>5, <2>1, <2>2, <2>3, <2>4, KeepTables, SameHeader, SameHeaders DEF Inv
<1>6. QED BY <1>4, <1>5 DEF AllocateFails

\* A command that is replied to has been fulfilled.
LEMMA ReplyTables ==
    ASSUME Disciplined, TypeOK, Inv, NEW k \in Controllers, Reply(k)
    PROVE  Tables'
<1>0. PICK c \in Commands \cup {None} : c = pendingCmd
  BY DEF TypeOK, StateTypeOK
<1>1. Waiting /\ at[k] = "reply" /\ Fulfilled(c) /\ Completable(c) /\ \A j \in Controllers : j = k
  BY <1>0 DEF Reply, Inv, Protocol, Calling, Accepting, Tables, Notifying, Disciplined
<1>2. /\ pendingCmd' = None /\ at'[k] = "conclude" /\ call'[k].cmd = c
      /\ call'[k].header = call[k].header
      /\ UNCHANGED <<portVars, eCurState, pCmdQueue, threadVars, passing>>
  BY <1>0 DEF Reply, TypeOK, CallTypeOK
<1>3. UNCHANGED <<bEnabled, bPopulated, table, owned, flow, nBufferHdrNum, BufferHdrArry>>
  BY <1>2 DEF portVars, flow, table
<1>4. Unloading => Unloading'
  <2>1. ~(\E j \in Controllers : at[j] = "conclude")
    BY <1>1
  <2>2. QED BY <1>0, <1>2, <2>1 DEF Unloading
<1>5. ASSUME NEW p \in Ports, Is(c, "PortDisable", p) PROVE nBufferHdrNum[p] = 0
  BY <1>1, <1>5 DEF Fulfilled, Is
<1>6. ASSUME NEW p \in Ports, Freeing(p) PROVE Freeing(p)' \/ nBufferHdrNum[p] = 0
  BY <1>0, <1>1, <1>4, <1>5, <1>6 DEF Freeing, Waiting
<1>7. ASSUME NEW p \in Ports PROVE Known(p)'
  <2>1. Registered(p)' = Registered(p) /\ Passing' = Passing
    BY <1>2, <1>3 DEF Registered, Passing
  <2>2. Known(p) /\ Table(p)
    BY DEF Inv, Tables
  <2>3. /\ ~(\E j \in Controllers : at'[j] = "post") /\ ~Is(pendingCmd', "PortDisable", p)
    BY <1>1, <1>2 DEF Is, None
  <2>4. Is(pendingCmd, "PortDisable", p) => Registered(p) = {}
    BY <1>0, <1>5, <2>2, EmptyTable
  <2>5. eCurState' = Loaded \/ p \notin bEnabled' => Registered(p)' \subseteq owned' \ Passing'
    BY <1>2, <1>3, <2>1, <2>2, <2>4 DEF Known
  <2>6. eCurState' \in {Idle, Executing, Pause} /\ p \in bEnabled' =>
          p \in bPopulated' \/ (nBufferHdrNum'[p] = 0 /\ Unloading')
    BY <1>2, <1>3, <1>4, <2>2 DEF Known
  <2>7. QED BY <1>2, <2>3, <2>5, <2>6 DEF Known
<1>8. \A j \in Controllers : Notifying(j)'
  <2>1. Fulfilled(c)'
    BY <1>1, <1>3 DEF Fulfilled, AllPortsOn, AllPortsOff
  <2>2. QED BY <1>1, <1>2, <2>1 DEF Notifying
<1>9. QED
  BY <1>1, <1>2, <1>3, <1>6, <1>7, <1>8, StateTables, SameHeader, SameHeaders DEF Inv

LEMMA ConcludeTables ==
    ASSUME Disciplined, TypeOK, Inv, NEW k \in Controllers, Conclude(k)
    PROVE  Tables'
<1>0. PICK c \in Commands : c = call[k].cmd
  BY Forms DEF Conclude, Inv, Protocol, Calling, TypeOK, CallTypeOK
<1>1. /\ NoCommand /\ at[k] = "conclude" /\ Completable(c) /\ Fulfilled(c)
      /\ \A j \in Controllers : j = k
  BY <1>0 DEF Conclude, Inv, Protocol, Calling, Tables, Notifying, Disciplined
<1>2. /\ at'[k] = "idle" /\ call'[k].header = NULL /\ pendingCmd = None
      /\ UNCHANGED <<portVars, pendingCmd, pCmdQueue, threadVars, passing>>
  BY <1>1 DEF Conclude, Leave, NoCall, Call, TypeOK, CallTypeOK, NoCommand
<1>3. UNCHANGED <<bEnabled, bPopulated, table, owned, flow, nBufferHdrNum, BufferHdrArry>>
  BY <1>2 DEF portVars, flow, table
<1>4. \A j \in Controllers : at'[j] = "idle"
  BY <1>1, <1>2
<1>5. \/ Is(c, "StateSet", Idle) /\ eCurState = Loaded /\ eCurState' = Idle /\ AllPortsOn /\ ~Unloading
      \/ Is(c, "StateSet", Loaded) /\ eCurState = Idle /\ eCurState' = Loaded /\ AllPortsOff
      \/ c.cmd # "StateSet" /\ eCurState # Loaded /\ eCurState' = eCurState /\ ~Unloading
  BY <1>0, <1>1, <1>2
     DEF Conclude, Completable, Fulfilled, Is, Unloading, None, Idle, Loaded
<1>6. ASSUME NEW p \in Ports, Freeing(p) PROVE Freeing(p)'
  BY <1>1, <1>2, <1>4, <1>5, <1>6 DEF Freeing, Is, None, Idle, Loaded
<1>7. ASSUME NEW p \in Ports PROVE Known(p)'
  <2>1. Registered(p)' = Registered(p) /\ Passing' = Passing
    BY <1>2, <1>3 DEF Registered, Passing
  <2>2. Known(p) /\ Table(p)
    BY DEF Inv, Tables
  <2>3. ~Is(pendingCmd, "PortDisable", p) /\ ~Is(pendingCmd', "PortDisable", p)
    BY <1>2 DEF Is, None
  <2>4. eCurState' = Loaded => \/ p \notin bEnabled
                               \/ nBufferHdrNum[p] = 0
    BY <1>5, <2>2 DEF Known, AllPortsOff, Idle, Loaded
  <2>5. nBufferHdrNum[p] = 0 => Registered(p) = {}
    BY <2>2, EmptyTable
  <2>6. eCurState' = Loaded \/ p \notin bEnabled' => Registered(p)' \subseteq owned' \ Passing'
    BY <1>3, <2>1, <2>2, <2>3, <2>4, <2>5 DEF Known
  <2>7. eCurState' \in {Idle, Executing, Pause} /\ p \in bEnabled' => p \in bPopulated'
    BY <1>3, <1>5, <2>2 DEF Known, AllPortsOn, Idle, Loaded, Executing, Pause
  <2>8. QED BY <1>2, <1>4, <2>3, <2>6, <2>7 DEF Known
<1>8. \A j \in Controllers : Notifying(j)'
  BY <1>4 DEF Notifying
<1>9. QED
  BY <1>1, <1>2, <1>3, <1>6, <1>7, <1>8, StateTables, SameHeader, SameHeaders DEF Inv

-----------------------------------------------------------------------------
(* The steps of feeders                                                     *)

LEMMA PassTables ==
    ASSUME Disciplined, TypeOK, Inv, NEW f \in Feeders, NEW h \in Headers, PassBuffer(f, h)
    PROVE  Tables'
<1>1. UNCHANGED <<portVars, stateVars, threadVars, callVars>>
  BY DEF PassBuffer
<1>2. UNCHANGED <<bEnabled, bPopulated, table, owned, flow, nBufferHdrNum, BufferHdrArry,
                  eCurState, pendingCmd, pCmdQueue, at, call, pc>>
  BY <1>1 DEF portVars, flow, table, stateVars, callVars, threadVars
<1>3. /\ passing[f] = NULL /\ passing'[f] = h /\ h \in owned /\ h \notin Passing
      /\ \A g \in Feeders : g # f => passing'[g] = passing[g]
      /\ Passing' \subseteq Passing \cup {h}
  BY DEF PassBuffer, Passing, TypeOK, CallTypeOK
<1>4. \A p \in Ports : Table(p)' /\ Sorted(p)'
  <2>1. \A p : Freeing(p)' <=> Freeing(p)
    BY <1>2 DEF Freeing, Unloading
  <2>2. QED BY <1>2, <2>1, SameTable, SameHeaders DEF Inv, Tables
<1>5. ASSUME NEW p \in Ports PROVE Known(p)'
  <2>1. Registered(p)' = Registered(p) /\ (Unloading' <=> Unloading)
    BY <1>2 DEF Registered, Unloading
  <2>2. Known(p) /\ Table(p)
    BY DEF Inv, Tables
  <2>3. eCurState # Loaded /\ PortOf(h) \in bEnabled
    BY DEF PassBuffer, Idle, Loaded, Executing, Pause
  <2>4. p \notin bEnabled => h \notin Registered(p)
    BY <2>2, <2>3 DEF Table, Used, Registered
  <2>5. eCurState' = Loaded \/ (p \notin bEnabled' /\ ~Is(pendingCmd', "PortDisable", p)) =>
          Registered(p)' \subseteq owned' \ Passing'
    BY <1>2, <1>3, <2>1, <2>2, <2>3, <2>4 DEF Known
  <2>6. QED BY <1>2, <2>1, <2>2, <2>5, SamePosting DEF Known
<1>6. \A k \in Controllers : Notifying(k)'
  <2>1. \A c : Fulfilled(c)' <=> Fulfilled(c)
    BY <1>2 DEF Fulfilled, AllPortsOn, AllPortsOff
  <2>2. QED BY <1>2, <2>1 DEF Notifying, Inv, Tables
<1>7. Passes'
  <2>1. \A k \in Controllers : call[k].header # h
    BY DEF PassBuffer
  <2>2. \A g \in Feeders : passing[g] # h
    BY <1>3 DEF Passing
  <2>3. Passes
    BY DEF Inv, Tables
  <2>4. SUFFICES ASSUME NEW g \in Feeders, passing'[g] # NULL
                 PROVE  /\ passing'[g] \in owned'
                        /\ \A j \in Feeders : passing'[j] = passing'[g] => j = g
                        /\ \A k \in Controllers : call'[k].header # passing'[g]
    BY DEF Passes
  <2>5. CASE g = f
    BY <1>2, <1>3, <2>1, <2>2, <2>5
  <2>6. CASE g # f
    <3>1. passing'[g] = passing[g] /\ passing[g] # NULL /\ passing[g] # h
      BY <1>3, <2>2, <2>4, <2>6
    <3>2. ASSUME NEW j \in Feeders, passing'[j] = passing'[g] PROVE j = g
      <4>1. j # f
        BY <1>3, <3>1, <3>2
      <4>2. passing[j] = passing[g]
        BY <1>3, <3>1, <3>2, <4>1
      <4>3. QED BY <2>3, <3>1, <4>2 DEF Passes
    <3>3. QED BY <1>2, <2>3, <3>1, <3>2 DEF Passes
  <2>7. QED BY <2>5, <2>6
<1>8. QED BY <1>4, <1>5, <1>6, <1>7 DEF Tables

\* AddBuffer moves the header from the client to the port.
LEMMA AddMoves ==
    ASSUME TypeOK, Tables, NEW h \in Headers, AddBuffer(h), h \in owned
    PROVE  /\ owned' = owned \ {h} /\ held' = held
           /\ Queued(PortOf(h))' = Queued(PortOf(h)) \cup {h}
           /\ \A p \in Ports : p # PortOf(h) => Queued(p)' = Queued(p)
           /\ \A p \in Ports : Live(p)' = Live(p) /\ Sorted(p)'
<1>1. pPortQueue \in [Ports -> Seq(Headers)] /\ PortOf(h) \in Ports
  BY HeaderPort DEF TypeOK, PortTypeOK
<1>2. /\ pPortQueue'[PortOf(h)] = Append(pPortQueue[PortOf(h)], h)
      /\ \A p \in Ports : p # PortOf(h) => pPortQueue'[p] = pPortQueue[p]
      /\ owned' = owned \ {h} /\ held' = held
  BY <1>1 DEF AddBuffer
<1>3. \A p : Queued(p)' = InSeq(pPortQueue'[p])
  BY DEF Queued, BufferNum, InSeq
<1>4. InSeq(Append(pPortQueue[PortOf(h)], h)) = InSeq(pPortQueue[PortOf(h)]) \cup {h}
  BY <1>1, Appended
<1>5. /\ Queued(PortOf(h))' = Queued(PortOf(h)) \cup {h}
      /\ \A p \in Ports : p # PortOf(h) => Queued(p)' = Queued(p)
  BY <1>2, <1>3, <1>4, QueuedIs
<1>6. ASSUME NEW p \in Ports PROVE Live(p)' = Live(p) /\ Sorted(p)'
  <2>1. Sorted(p)
    BY DEF Tables
  <2>2. CASE p = PortOf(h)
    BY <1>2, <1>5, <2>1, <2>2 DEF Live, Sorted
  <2>3. CASE p # PortOf(h)
    BY <1>2, <1>5, <2>1, <2>3 DEF Live, Sorted
  <2>4. QED BY <2>2, <2>3
<1>7. QED BY <1>2, <1>5, <1>6

LEMMA QueueTables ==
    ASSUME Disciplined, TypeOK, Inv, NEW f \in Feeders, QueueBuffer(f)
    PROVE  Tables'
<1>1. PICK h \in Headers : h = passing[f]
  BY DEF QueueBuffer, TypeOK, CallTypeOK
<1>2. h # NULL /\ AddBuffer(h) /\ h \in owned
  BY <1>1 DEF QueueBuffer, Inv, Tables, Passes
<1>3. UNCHANGED <<bEnabled, bPopulated, table, nBufferHdrNum, BufferHdrArry, stateVars, threadVars,
                  callVars, eCurState, pendingCmd, pCmdQueue, at, call, pc>>
  BY <1>2 DEF QueueBuffer, AddBuffer, table, stateVars, callVars, threadVars
<1>4. /\ passing'[f] = NULL
      /\ \A g \in Feeders : g # f => passing'[g] = passing[g]
      /\ Passing' \subseteq Passing \cup {NULL}
  BY DEF QueueBuffer, Passing, TypeOK, CallTypeOK
<1>5. owned' = owned \ {h} /\ \A p \in Ports : Live(p)' = Live(p) /\ Sorted(p)'
  BY <1>2, AddMoves DEF Inv
<1>6. \A p \in Ports : Table(p)' /\ Sorted(p)'
  <2>1. \A p : Freeing(p)' <=> Freeing(p)
    BY <1>3 DEF Freeing, Unloading
  <2>2. QED BY <1>3, <1>5, <2>1, SameTable DEF Inv, Tables
<1>7. ASSUME NEW p \in Ports PROVE Known(p)'
  <2>1. Registered(p)' = Registered(p) /\ (Unloading' <=> Unloading)
    BY <1>3 DEF Registered, Unloading
  <2>2. Known(p)
    BY DEF Inv, Tables
  <2>3. h \in Passing /\ NULL \notin Registered(p)
    BY <1>1 DEF Passing, Registered
  <2>4. eCurState' = Loaded \/ (p \notin bEnabled' /\ ~Is(pendingCmd', "PortDisable", p)) =>
          Registered(p)' \subseteq owned' \ Passing'
    BY <1>3, <1>4, <1>5, <2>1, <2>2, <2>3 DEF Known
  <2>5. QED BY <1>3, <2>1, <2>2, <2>4, SamePosting DEF Known
<1>8. \A k \in Controllers : Notifying(k)'
  <2>1. \A c : Fulfilled(c)' <=> Fulfilled(c)
    BY <1>3 DEF Fulfilled, AllPortsOn, AllPortsOff
  <2>2. QED BY <1>3, <2>1 DEF Notifying, Inv, Tables
<1>9. Passes'
  <2>1. SUFFICES ASSUME NEW g \in Feeders, passing'[g] # NULL
                 PROVE  /\ passing'[g] \in owned'
                        /\ \A j \in Feeders : passing'[j] = passing'[g] => j = g
                        /\ \A k \in Controllers : call'[k].header # passing'[g]
    BY DEF Passes
  <2>2. Passes
    BY DEF Inv, Tables
  <2>3. g # f /\ passing'[g] = passing[g] /\ passing[g] # h
    BY <1>1, <1>2, <1>4, <2>1, <2>2 DEF Passes
  <2>4. QED BY <1>3, <1>4, <1>5, <2>1, <2>2, <2>3 DEF Passes
<1>10. QED BY <1>6, <1>7, <1>8, <1>9 DEF Tables

-----------------------------------------------------------------------------
(* The thread's steps                                                       *)

\* Where the thread has the command, PortNotify has not completed it, nor has it
\* while the client does nothing.
LEMMA BusyNotes ==
    ASSUME Inv, ~NoCommand, ~Waiting, UNCHANGED <<callVars, table>>
    PROVE  \A k \in Controllers : Notifying(k)'
<1>1. SUFFICES ASSUME NEW k \in Controllers PROVE Notifying(k)'
  OBVIOUS
<1>2. at[k] \notin {"notify", "reply", "conclude"}
  BY DEF Inv, Protocol, Calling, Acting
<1>3. QED BY <1>2 DEF Notifying, callVars

LEMMA ThreadFlowTables ==
    ASSUME TypeOK, Inv,
           UNCHANGED <<bEnabled, bPopulated, table, stateVars, callVars, passing>>,
           owned \subseteq owned', \A p \in Ports : Live(p)' = Live(p) /\ Sorted(p)',
           pc = "ports" => now.cmd # "PortDisable"
    PROVE  Tables'
<1>1. UNCHANGED <<eCurState, pendingCmd, pCmdQueue, at, call>>
  BY DEF stateVars, callVars
<1>2. \A p \in Ports : (/\ Is(pendingCmd, "PortDisable", p) /\ eCurState # Loaded
                        /\ pCmdQueue' = <<>> /\ pc' # "ports" /\ ~Posting') => p \notin bEnabled
  <2>1. pc = "ports" => pendingCmd.cmd # "PortDisable"
    BY DEF Inv, Protocol, Accepting, InProcess
  <2>2. QED BY <1>1, <2>1, SamePosting DEF Inv, Tables, Known, Is
<1>3. \A k \in Controllers : Notifying(k)'
  <2>1. \A c : Fulfilled(c)' <=> Fulfilled(c)
    BY DEF Fulfilled, AllPortsOn, AllPortsOff, table
  <2>2. QED BY <1>1, <2>1 DEF Notifying, Inv, Tables, table
<1>4. QED BY <1>1, <1>2, <1>3, KeepTables DEF Inv, Tables, Passes

LEMMA ProcessBufferTables ==
    ASSUME TypeOK, Inv, ProcessBuffer
    PROVE  Tables'
<1>1. UNCHANGED <<bEnabled, bPopulated, table, stateVars, callVars, passing>> /\ pc # "ports"
  BY DEF ProcessBuffer, TakeBuffer, TakeGet, SendDone, NoBuffer, BufferTurn, GetAndHoldBuffer,
         SendHeld, portVars, table
<1>2. CASE UNCHANGED flow
  BY <1>1, <1>2, ThreadFlowTables, SameHeaders DEF Inv, flow
<1>3. CASE TakeGet
  <2>1. Head(todo) \in Ports
    BY <1>3, NextPortType DEF TakeGet, TypeOK, ThreadTypeOK
  <2>2. QED BY <1>1, <1>3, <2>1, ThreadFlowTables, MovedHeaders DEF TakeGet, Inv
<1>4. ASSUME NEW h \in Headers, SendDone(h) PROVE Tables'
  BY <1>1, <1>4, HeaderPort, ThreadFlowTables, MovedHeaders DEF SendDone, Inv
<1>5. QED BY <1>2, <1>3, <1>4 DEF ProcessBuffer, TakeBuffer, NoBuffer, portVars

LEMMA DrainTables ==
    ASSUME TypeOK, Inv, ReturnPort \/ Drain \/ DrainGet \/ Processed
    PROVE  Tables'
<1>1. UNCHANGED <<bEnabled, bPopulated, table, callVars, passing, eCurState, pendingCmd, pCmdQueue>>
  BY DEF ReturnPort, Drain, DrainGet, Processed, GetAndSendBuffer, portVars, stateVars
<1>2. pc = "ports" => pendingCmd.cmd # "PortDisable"
  BY DEF ReturnPort, Drain, DrainGet, Processed, Inv, Protocol, Accepting, InProcess
<1>3. UNCHANGED flow \/ (\E q \in Ports : ReturnHeld(q) \/ GetAndSendBuffer(q))
  BY NextPortType DEF ReturnPort, Drain, DrainGet, Processed, TypeOK, ThreadTypeOK, portVars
<1>4. owned \subseteq owned' /\ \A p \in Ports : Live(p)' = Live(p) /\ Sorted(p)'
  BY <1>3, MovedHeaders, SameHeaders DEF Inv, flow
<1>5. \A p \in Ports : (/\ Is(pendingCmd, "PortDisable", p) /\ eCurState # Loaded
                        /\ pCmdQueue' = <<>> /\ pc' # "ports" /\ ~Posting') => p \notin bEnabled
  BY <1>1, <1>2, SamePosting DEF Inv, Tables, Known, Is, callVars
<1>6. ~NoCommand /\ ~Waiting
  BY DEF ReturnPort, Drain, DrainGet, Processed, NoCommand, Waiting, Busy, InProcess
<1>7. QED BY <1>1, <1>4, <1>5, <1>6, BusyNotes, KeepTables DEF Inv, Tables, Passes, callVars

\* A PortDisable that is taken goes on to the port.
LEMMA CommandsTables ==
    ASSUME Disciplined, TypeOK, Inv,
           \/ LoadedToIdle \/ IdleToLoaded \/ IdleToRunning \/ RunningToIdle
           \/ OtherStateSet \/ PortCommand
    PROVE  Tables'
<1>1. PICK c, result, ports : Take(c, result, ports)
  BY DEF LoadedToIdle, IdleToLoaded, IdleToRunning, RunningToIdle, OtherStateSet, PortCommand
<1>2. /\ pCmdQueue = <<c>> /\ pendingCmd = c /\ c # None /\ Checked(c) /\ ~Busy
  BY <1>1 DEF Take, Inv, Protocol, Accepting
<1>3. UNCHANGED <<portVars, callVars, passing, eCurState, pendingCmd>>
  BY <1>1 DEF Take
<1>4. UNCHANGED <<bEnabled, bPopulated, table, owned, flow>>
  BY <1>3 DEF portVars, flow
<1>5. c.cmd = "PortDisable" => pc' = "ports"
  <2>1. SUFFICES ASSUME c.cmd = "PortDisable" PROVE pc' = "ports"
    OBVIOUS
  <2>2. \A d, r, q : Take(d, r, q) => d = c
    BY <1>2 DEF Take
  <2>3. c \in Commands \cup {None}
    BY <1>2 DEF TypeOK, StateTypeOK
  <2>4. c.nParam \in Ports /\ c.nParam # OMX_ALL
    BY <1>2, <2>1, <2>3, Forms DEF Checked, TypeOK, PortTypeOK
  <2>5. PortCommand
    <3>1. \A s : StateSet(s) # c
      BY <2>1 DEF StateSet
    <3>2. \A s, r, q : ~Take(StateSet(s), r, q)
      BY <2>2, <3>1
    <3>3. ~LoadedToIdle /\ ~IdleToLoaded /\ ~RunningToIdle
      BY <3>2 DEF LoadedToIdle, IdleToLoaded, RunningToIdle
    <3>4. ~IdleToRunning /\ ~OtherStateSet
      BY <3>2 DEF IdleToRunning, OtherStateSet
    <3>5. QED BY <3>3, <3>4
  <2>6. PICK d \in Commands :
           \/ /\ d.cmd \in PortCommands
              /\ IF d.nParam = OMX_ALL THEN Take(d, "None", AllPorts)
                 ELSE IF d.nParam \in Ports THEN Take(d, "None", <<d.nParam>>)
                 ELSE Take(d, "Error", <<>>)
           \/ /\ d.cmd = "MarkBuffer"
              /\ Take(d, IF d.nParam \in Ports THEN "None" ELSE "Error", <<>>)
    BY <2>5 DEF PortCommand
  <2>7. d = c
    BY <2>2, <2>6
  <2>8. Take(c, "None", <<c.nParam>>)
    BY <2>1, <2>4, <2>6, <2>7
  <2>9. QED BY <2>8 DEF Take
<1>6. \A p \in Ports : (/\ Is(pendingCmd, "PortDisable", p) /\ eCurState # Loaded
                        /\ pCmdQueue' = <<>> /\ pc' # "ports" /\ ~Posting') => p \notin bEnabled
  BY <1>2, <1>5 DEF Is
<1>7. ~NoCommand /\ ~Waiting
  BY <1>2 DEF NoCommand, Waiting
<1>8. QED
  BY <1>3, <1>4, <1>6, <1>7, BusyNotes, KeepTables, SameHeaders DEF Inv, Tables, Passes, callVars

LEMMA EnableTables ==
    ASSUME Disciplined, TypeOK, Inv, EnablePort
    PROVE  Tables'
<1>1. /\ pendingCmd = now /\ now.cmd = "PortEnable" /\ todo = <<now.nParam>> /\ Checked(now)
      /\ Busy
  BY DEF EnablePort, Inv, Protocol, Accepting, Processing, InProcess, Busy
<1>2. /\ bEnabled \subseteq bEnabled' /\ (eCurState # Loaded => bEnabled' = bEnabled)
      /\ UNCHANGED <<bPopulated, table, flow, owned, passing, callVars, eCurState, pendingCmd,
                     pCmdQueue, at, call, nBufferHdrNum, BufferHdrArry>>
  BY DEF EnablePort, stateVars, callVars, table, flow
<1>3. ~NoCommand /\ ~Waiting
  BY <1>1 DEF NoCommand, Waiting
<1>4. ASSUME NEW p \in Ports PROVE Freeing(p) => Freeing(p)'
  BY <1>1, <1>2 DEF Freeing, Unloading, Is
<1>5. ASSUME NEW p \in Ports PROVE Known(p)'
  <2>1. /\ Registered(p)' = Registered(p) /\ Passing' = Passing
        /\ Unloading' <=> Unloading
    BY <1>2 DEF Registered, Passing, Unloading
  <2>2. Known(p)
    BY DEF Inv, Tables
  <2>3. ~Is(pendingCmd, "PortDisable", p)
    BY <1>1 DEF Is
  <2>4. QED BY <1>2, <2>1, <2>2, <2>3 DEF Known, Loaded, Idle, Executing, Pause
<1>6. QED
  BY <1>2, <1>3, <1>4, <1>5, BusyNotes, StateTables, SameHeaders DEF Inv, Tables, Passes

LEMMA DisableTables ==
    ASSUME Disciplined, TypeOK, Inv, DisablePort
    PROVE  Tables'
<1> DEFINE q == now.nParam
<1>1. /\ pendingCmd = now /\ now.cmd = "PortDisable" /\ todo = <<q>> /\ q \in bEnabled
      /\ Busy /\ pc = "ports"
  BY DEF DisablePort, Inv, Protocol, Accepting, Processing, InProcess, Busy, Checked
<1>2. /\ bEnabled' = bEnabled \ {q}
      /\ UNCHANGED <<bPopulated, table, passing, callVars, eCurState, pendingCmd, pCmdQueue, at,
                     call, nBufferHdrNum, BufferHdrArry>>
      /\ UNCHANGED flow \/ ReturnHeld(q)
  BY <1>1 DEF DisablePort, stateVars, callVars, table
<1>3. q \in Ports
  BY <1>1 DEF TypeOK, PortTypeOK
<1>4. owned \subseteq owned' /\ \A p \in Ports : Live(p)' = Live(p) /\ Sorted(p)'
  BY <1>2, <1>3, MovedHeaders, SameHeaders DEF Inv, flow
<1>5. ~NoCommand /\ ~Waiting
  BY <1>1 DEF NoCommand, Waiting
<1>6. ASSUME NEW p \in Ports PROVE Freeing(p) => Freeing(p)'
  BY <1>1, <1>2 DEF Freeing, Unloading, Is
<1>7. ASSUME NEW p \in Ports PROVE Known(p)'
  <2>1. /\ Registered(p)' = Registered(p) /\ Passing' = Passing
        /\ Unloading' <=> Unloading
    BY <1>2 DEF Registered, Passing, Unloading
  <2>2. Known(p)
    BY DEF Inv, Tables
  <2>3. Is(pendingCmd, "PortDisable", p) <=> p = q
    BY <1>1 DEF Is
  <2>4. eCurState' = Loaded \/ (p \notin bEnabled' /\ ~Is(pendingCmd', "PortDisable", p)) =>
          Registered(p)' \subseteq owned' \ Passing'
    BY <1>2, <1>4, <2>1, <2>2, <2>3 DEF Known
  <2>5. QED BY <1>2, <2>1, <2>2, <2>3, <2>4 DEF Known
<1>8. QED
  BY <1>2, <1>4, <1>5, <1>6, <1>7, BusyNotes, StateTables DEF Inv, Tables, Passes, callVars

LEMMA ClearTables ==
    ASSUME Disciplined, TypeOK, Inv, ClearPending
    PROVE  Tables'
<1>1. /\ pendingCmd = now /\ pendingCmd # None /\ ~Completable(pendingCmd) /\ Busy /\ InProcess
  BY DEF ClearPending, Inv, Protocol, Accepting, Processing, InProcess, Busy
<1>2. /\ pendingCmd' = None
      /\ UNCHANGED <<portVars, passing, callVars, eCurState, pCmdQueue, at, call>>
  BY DEF ClearPending, callVars
<1>3. UNCHANGED <<bEnabled, bPopulated, table, owned, flow, nBufferHdrNum, BufferHdrArry>>
  BY <1>2 DEF portVars, flow, table
<1>4. ~NoCommand /\ ~Waiting
  BY <1>1 DEF NoCommand, Waiting
<1>5. \A k \in Controllers : at[k] \notin {"post", "conclude"}
  BY <1>4 DEF Inv, Protocol, Calling
<1>6. ~Unloading
  BY <1>1, <1>5 DEF Unloading, Completable
<1>7. ASSUME NEW p \in Ports PROVE Freeing(p) => Freeing(p)' \/ nBufferHdrNum[p] = 0
  <2>1. Is(pendingCmd, "PortDisable", p) => nBufferHdrNum[p] = 0
    BY <1>1 DEF Inv, Tables, Known, Is, Completable
  <2>2. QED BY <1>1, <1>6, <2>1 DEF Freeing
<1>8. ASSUME NEW p \in Ports PROVE Known(p)'
  <2>1. Registered(p)' = Registered(p) /\ Passing' = Passing
    BY <1>2, <1>3 DEF Registered, Passing
  <2>2. Known(p)
    BY DEF Inv, Tables
  <2>3. Is(pendingCmd, "PortDisable", p) => eCurState = Loaded
    BY <1>1 DEF Is, Completable
  <2>4. ~Is(pendingCmd', "PortDisable", p)
    BY <1>2 DEF Is, None
  <2>5. QED BY <1>2, <1>3, <1>5, <1>6, <2>1, <2>2, <2>3, <2>4 DEF Known
<1>9. QED
  BY <1>2, <1>3, <1>4, <1>7, <1>8, BusyNotes, StateTables, SameHeaders DEF Inv, Tables, Passes

LEMMA EventTables ==
    ASSUME Disciplined, TypeOK, Inv, Event
    PROVE  Tables'
<1>1. pc = "event" /\ pendingCmd = None /\ Busy
  BY DEF Event, Busy, Inv, Protocol, Accepting
<1>2. /\ eCurState' # eCurState => eCurState # Loaded /\ Moves(eCurState, eCurState')
      /\ UNCHANGED <<portVars, pendingCmd, passing, callVars, pCmdQueue, at, call>>
  BY <1>1 DEF Event, Inv, Protocol, Processing, Moves, Loaded, Idle, Executing, Pause, callVars
<1>3. UNCHANGED <<bEnabled, bPopulated, table, owned, flow, nBufferHdrNum, BufferHdrArry>>
  BY <1>2 DEF portVars, flow, table
<1>4. ~NoCommand /\ ~Waiting
  BY <1>1 DEF NoCommand, Waiting
<1>5. \A k \in Controllers : at[k] \notin {"post", "conclude"}
  BY <1>4 DEF Inv, Protocol, Calling
<1>6. ~Unloading
  BY <1>1, <1>5 DEF Unloading, Is, None
<1>7. ASSUME NEW p \in Ports PROVE Freeing(p) => Freeing(p)'
  BY <1>2, <1>3, <1>6 DEF Freeing
<1>8. ASSUME NEW p \in Ports PROVE Known(p)'
  <2>1. Registered(p)' = Registered(p) /\ Passing' = Passing
    BY <1>2, <1>3 DEF Registered, Passing
  <2>2. Known(p)
    BY DEF Inv, Tables
  <2>3. \/ eCurState' = eCurState
        \/ eCurState' = Invalid
        \/ eCurState \in {Idle, Executing, Pause} /\ eCurState' \in {Idle, Executing, Pause}
    BY <1>2 DEF Moves
  <2>4. ~Is(pendingCmd, "PortDisable", p)
    BY <1>1 DEF Is, None
  <2>5. QED BY <1>1, <1>2, <1>3, <1>5, <1>6, <2>1, <2>2, <2>3, <2>4
            DEF Known, Invalid, Loaded, Idle, Executing, Pause, Is
<1>9. QED
  BY <1>2, <1>3, <1>4, <1>7, <1>8, BusyNotes, StateTables, SameHeaders DEF Inv, Tables, Passes

-----------------------------------------------------------------------------
(* A header is registered                                                   *)

\* The entry at nBufferHdrNum is free, and the header is new.
LEMMA RegisterTable ==
    ASSUME TypeOK, NEW p \in Ports, Table(p), Packed(p), NEW h \in Headers, RegisterHeader(p, h)
    PROVE  /\ \A i \in Used(p)' : PortOf(BufferHdrArry'[p][i]) = p
           /\ \A i, j \in Used(p)' : BufferHdrArry'[p][i] = BufferHdrArry'[p][j] => i = j
           /\ Cardinality(Used(p)') = nBufferHdrNum'[p]
           /\ nBufferHdrNum'[p] = nBufferHdrNum[p] + 1
           /\ nBufferHdrNum[p] \in Slots
           /\ Registered(p)' = Registered(p) \cup {h}
           /\ Packed(p)'
<1> DEFINE n == nBufferHdrNum[p]
           a == BufferHdrArry[p]
<1>1. /\ n \in 0..nBufferCountActual /\ n < nBufferCountActual /\ nBufferCountActual \in Nat
      /\ IsFiniteSet(Used(p)) /\ PortOf(h) = p /\ h \notin Live(p) /\ h # NULL
  BY EmptyTable, PortAssumption DEF RegisterHeader
<1>2. n \in Slots
  BY <1>1 DEF Slots
<1>3. /\ BufferHdrArry'[p][n] = h
      /\ \A i \in Slots : i # n => BufferHdrArry'[p][i] = a[i]
      /\ nBufferHdrNum'[p] = n + 1
  BY <1>2 DEF RegisterHeader, TypeOK, PortTypeOK
<1>4. n \notin Used(p)
  BY <1>1, <1>2 DEF Packed
<1>5. Used(p)' = Used(p) \cup {n}
  BY <1>1, <1>2, <1>3 DEF Used
<1>6. h \notin Registered(p)
  BY <1>1 DEF Table
<1>7. \A i \in Used(p) : i \in Slots /\ a[i] \in Registered(p) /\ a[i] # h
  BY <1>6 DEF Used, Registered
<1>8. \A i \in Used(p)' : PortOf(BufferHdrArry'[p][i]) = p
  BY <1>1, <1>3, <1>4, <1>5, <1>7 DEF Table
<1>9. ASSUME NEW i \in Used(p)', NEW j \in Used(p)', BufferHdrArry'[p][i] = BufferHdrArry'[p][j]
      PROVE  i = j
  <2>1. CASE i = n \/ j = n
    BY <1>3, <1>4, <1>5, <1>7, <1>9, <2>1
  <2>2. CASE i \in Used(p) /\ j \in Used(p)
    BY <1>3, <1>4, <1>7, <1>9, <2>2 DEF Table
  <2>3. QED BY <1>5, <2>1, <2>2
<1>10. Cardinality(Used(p)') = n + 1
  <2>1. Cardinality(Used(p) \cup {n}) = Cardinality(Used(p)) + 1
    BY <1>1, <1>4, FS_AddElement
  <2>2. Cardinality(Used(p)) = n
    BY DEF Table
  <2>3. QED BY <1>5, <2>1, <2>2
<1>11. Registered(p)' = Registered(p) \cup {h}
  <2>1. a[n] = NULL
    BY <1>2, <1>4 DEF Used
  <2>2. QED BY <1>1, <1>2, <1>3, <2>1 DEF Registered
<1>12. Packed(p)'
  <2>1. \A i \in Slots : i \in Int
    BY DEF Slots
  <2>2. QED BY <1>1, <1>2, <1>3, <1>5, <2>1 DEF Packed
<1>13. QED BY <1>2, <1>3, <1>8, <1>9, <1>10, <1>11, <1>12

LEMMA AllocateTables ==
    ASSUME Disciplined, TypeOK, Inv, NEW k \in Controllers, AllocateAct(k)
    PROVE  Tables'
<1>0. PICK p \in Ports : p = call[k].port
  BY DEF TypeOK, CallTypeOK
<1>1. /\ p \in Ports /\ at[k] = "act" /\ call[k].op = "allocate" /\ \A j \in Controllers : j = k
      /\ Waiting /\ Brings(p)
  BY <1>0 DEF AllocateAct, Inv, Protocol, Calling, Acting, Disciplined
<1>2. PICK h \in Headers : RegisterHeader(p, h)
  BY <1>0 DEF AllocateAct
<1>3. \A q : ~Freeing(q)
  BY <1>1 DEF Freeing, Unloading, Waiting, Brings, Is, Idle, Loaded
<1>4. \A q \in Ports : Packed(q) /\ Table(q) /\ Known(q) /\ Sorted(q)
  BY <1>3 DEF Inv, Tables, Table
<1>5. /\ \A i \in Used(p)' : PortOf(BufferHdrArry'[p][i]) = p
      /\ \A i, j \in Used(p)' : BufferHdrArry'[p][i] = BufferHdrArry'[p][j] => i = j
      /\ Cardinality(Used(p)') = nBufferHdrNum'[p]
      /\ nBufferHdrNum'[p] = nBufferHdrNum[p] + 1
      /\ nBufferHdrNum[p] \in Slots
      /\ Registered(p)' = Registered(p) \cup {h}
      /\ Packed(p)'
  BY <1>1, <1>2, <1>4, RegisterTable
<1>6. /\ owned' = owned \cup {h} /\ PortOf(h) = p /\ h \notin Live(p)
      /\ \A q \in Ports : Queued(q)' = Queued(q) /\ held'[q] = held[q]
      /\ UNCHANGED <<stateVars, threadVars, passing>>
  BY <1>2 DEF RegisterHeader, AllocateAct, Queued, BufferNum
<1>7. UNCHANGED <<eCurState, pendingCmd, pCmdQueue, pc>> /\ Passing' = Passing
  BY <1>6 DEF stateVars, threadVars, Passing
<1>8. /\ \A q \in Ports \ {p} : BufferHdrArry'[q] = BufferHdrArry[q] /\ nBufferHdrNum'[q] = nBufferHdrNum[q]
      /\ p \in bPopulated' <=> nBufferHdrNum[p] + 1 >= nBufferCountActual
      /\ bEnabled' \ {p} = bEnabled \ {p} /\ bPopulated' \ {p} = bPopulated \ {p}
      /\ p \in bEnabled' => p \in bEnabled \/ p \in bPopulated'
      /\ bEnabled \subseteq bEnabled' /\ p \notin bPopulated
  BY <1>2 DEF RegisterHeader, TypeOK, PortTypeOK
<1>9. \A q \in Ports : Live(q) \subseteq Live(q)' /\ Sorted(q)' /\ (q = p => h \in Live(q)')
  BY <1>4, <1>6 DEF Live, Sorted
<1>10. ASSUME NEW q \in Ports PROVE Table(q)'
  <2>1. CASE q = p
    <3>1. nBufferHdrNum[p] \in 0..(nBufferCountActual - 1) /\ nBufferCountActual \in Nat
      BY <1>5, PortAssumption DEF Slots
    <3>2. Registered(p)' \subseteq Live(p)'
      BY <1>4, <1>5, <1>9 DEF Table
    <3>3. /\ p \in bPopulated' => nBufferHdrNum'[p] > 0 /\ nBufferHdrNum'[p] = nBufferCountActual
          /\ p \in bPopulated' \/ nBufferHdrNum'[p] < nBufferCountActual
      BY <1>5, <1>8, <3>1
    <3>4. QED BY <1>5, <2>1, <3>2, <3>3 DEF Table
  <2>2. CASE q # p
    <3>1. /\ BufferHdrArry'[q] = BufferHdrArry[q] /\ nBufferHdrNum'[q] = nBufferHdrNum[q]
          /\ q \in bPopulated' <=> q \in bPopulated
      BY <1>8, <2>2
    <3>2. Used(q)' = Used(q) /\ Registered(q)' = Registered(q)
      BY <3>1 DEF Used, Registered
    <3>3. Packed(q)'
      BY <1>4, <3>1, <3>2 DEF Packed
    <3>4. q \in bPopulated => nBufferHdrNum[q] = nBufferCountActual
      BY <1>3, <1>4 DEF Table
    <3>5. Registered(q)' \subseteq Live(q)'
      BY <1>4, <1>9, <3>2 DEF Table
    <3>6. QED BY <1>4, <3>1, <3>2, <3>3, <3>4, <3>5 DEF Table
  <2>3. QED BY <2>1, <2>2
<1>11. at'[k] \in {"idle", "notify"} /\ call'[k].header \in {NULL, call[k].header}
       /\ (at'[k] = "notify" => call'[k] = call[k] /\ p \in bPopulated')
  BY <1>0 DEF AllocateAct, Leave, NoCall, Call, TypeOK, CallTypeOK
<1>12. ASSUME NEW q \in Ports PROVE Known(q)'
  <2>1. Known(q)
    BY <1>4
  <2>2. ~Unloading
    BY <1>1, <1>3 DEF Freeing
  <2>3. eCurState' \in {Idle, Executing, Pause} /\ q \in bEnabled' => q \in bPopulated'
    <3>1. q \in bEnabled' => q \in bEnabled \/ q \in bPopulated'
      BY <1>8
    <3>2. q \in bPopulated => q \in bPopulated'
      BY <1>8
    <3>3. QED BY <1>7, <2>1, <2>2, <3>1, <3>2 DEF Known
  <2>4. ASSUME eCurState' = Loaded \/ (q \notin bEnabled' /\ ~Is(pendingCmd', "PortDisable", q))
        PROVE  Registered(q)' \subseteq owned' \ Passing'
    <3>1. Registered(q) \subseteq owned \ Passing
      BY <1>7, <1>8, <2>1, <2>4 DEF Known
    <3>2. CASE q # p
      <4>1. Registered(q)' = Registered(q)
        BY <1>8, <3>2 DEF Registered
      <4>2. QED BY <1>6, <1>7, <3>1, <4>1
    <3>3. CASE q = p
      <4>1. h \notin Passing
        BY <1>6, PortAssumption DEF Inv, Tables, Passes, Passing, Live
      <4>2. QED BY <1>5, <1>6, <1>7, <3>1, <3>3, <4>1
    <3>4. QED BY <3>2, <3>3
  <2>5. ~(eCurState' = Loaded /\ (\/ pendingCmd' # None /\ ~Is(pendingCmd', "StateSet", Idle)
                                  \/ \E j \in Controllers : at'[j] = "post"))
    BY <1>1, <1>7, <1>11 DEF Brings
  <2>6. ~Is(pendingCmd', "PortDisable", q)
    BY <1>1, <1>7 DEF Brings, Is
  <2>7. QED BY <2>3, <2>4, <2>5, <2>6 DEF Known
<1>13. \A j \in Controllers : Notifying(j)'
  BY <1>0, <1>1, <1>11 DEF Notifying
<1>14. Passes'
  BY <1>1, <1>6, <1>11 DEF Inv, Tables, Passes
<1>15. QED BY <1>9, <1>10, <1>12, <1>13, <1>14 DEF Tables

-----------------------------------------------------------------------------
(* A header is unregistered                                                 *)

\* FreeBuffer finds the header's only entry.
LEMMA MatchFinds ==
    ASSUME TypeOK, NEW p \in Ports, Table(p), NEW h \in Registered(p)
    PROVE  MatchIdx(p, h) \in Used(p) /\ BufferHdrArry[p][MatchIdx(p, h)] = h
<1>1. PICK i \in Slots : BufferHdrArry[p][i] = h /\ h # NULL
  BY DEF Registered
<1>2. ASSUME NEW j \in 0..(i - 1) PROVE BufferHdrArry[p][j] # h
  <2>1. j \in Slots /\ j # i
    BY PortAssumption DEF Slots
  <2>2. QED BY <1>1, <2>1 DEF Table, Used
<1>3. /\ MatchIdx(p, h) \in Slots
      /\ BufferHdrArry[p][MatchIdx(p, h)] = h
  BY <1>1, <1>2 DEF MatchIdx
<1>4. QED BY <1>1, <1>3 DEF Used

LEMMA UnregisterTable ==
    ASSUME TypeOK, NEW p \in Ports, Table(p), NEW h, UnregisterHeader(p, h)
    PROVE  /\ \A i \in Used(p)' : PortOf(BufferHdrArry'[p][i]) = p
           /\ \A i, j \in Used(p)' : BufferHdrArry'[p][i] = BufferHdrArry'[p][j] => i = j
           /\ Cardinality(Used(p)') = nBufferHdrNum'[p]
           /\ nBufferHdrNum'[p] = nBufferHdrNum[p] - 1
           /\ nBufferHdrNum[p] \in 1..nBufferCountActual
           /\ Registered(p)' = Registered(p) \ {h}
           /\ PortOf(h) = p
<1>1. h \in Registered(p)
  BY DEF UnregisterHeader
<1>2. PICK m : m = MatchIdx(p, h)
  OBVIOUS
<1>3. m \in Used(p) /\ BufferHdrArry[p][m] = h /\ m \in Slots
  BY <1>1, <1>2, MatchFinds DEF Used
<1>4. /\ BufferHdrArry'[p][m] = NULL
      /\ \A i \in Slots : i # m => BufferHdrArry'[p][i] = BufferHdrArry[p][i]
      /\ nBufferHdrNum'[p] = nBufferHdrNum[p] - 1
  BY <1>2, <1>3 DEF UnregisterHeader, TypeOK, PortTypeOK
<1>5. Used(p)' = Used(p) \ {m}
  BY <1>3, <1>4 DEF Used
<1>6. \A i \in Used(p)' : i \in Used(p) /\ BufferHdrArry'[p][i] = BufferHdrArry[p][i]
  BY <1>4, <1>5 DEF Used
<1>7. PortOf(h) = p /\ \A i \in Used(p)' : PortOf(BufferHdrArry'[p][i]) = p
  BY <1>3, <1>6 DEF Table
<1>8. \A i, j \in Used(p)' : BufferHdrArry'[p][i] = BufferHdrArry'[p][j] => i = j
  BY <1>6 DEF Table
<1>9. /\ IsFiniteSet(Used(p)) /\ nBufferHdrNum[p] \in 0..nBufferCountActual
      /\ nBufferHdrNum[p] # 0 /\ nBufferCountActual \in Nat
  BY <1>1, EmptyTable, PortAssumption
<1>10. Cardinality(Used(p)') = nBufferHdrNum[p] - 1
  <2>1. Cardinality(Used(p) \ {m}) = Cardinality(Used(p)) - 1
    BY <1>3, <1>9, FS_RemoveElement
  <2>2. Cardinality(Used(p)) = nBufferHdrNum[p]
    BY DEF Table
  <2>3. QED BY <1>5, <2>1, <2>2
<1>11. Registered(p)' = Registered(p) \ {h}
  <2>1. ASSUME NEW x \in Registered(p)' PROVE x \in Registered(p) \ {h}
    <3>1. PICK i \in Slots : x = BufferHdrArry'[p][i] /\ x # NULL
      BY DEF Registered
    <3>2. i # m /\ x = BufferHdrArry[p][i]
      BY <1>4, <3>1
    <3>3. x # h
      BY <1>3, <3>1, <3>2 DEF Table, Used
    <3>4. QED BY <3>1, <3>2, <3>3 DEF Registered
  <2>2. ASSUME NEW x \in Registered(p) \ {h} PROVE x \in Registered(p)'
    <3>1. PICK i \in Slots : x = BufferHdrArry[p][i] /\ x # NULL /\ x # h
      BY <2>2 DEF Registered
    <3>2. i # m
      BY <1>3, <3>1
    <3>3. QED BY <1>4, <3>1, <3>2 DEF Registered
  <2>3. QED BY <2>1, <2>2
<1>12. nBufferHdrNum[p] \in 1..nBufferCountActual
  BY <1>9
<1>13. QED BY <1>4, <1>7, <1>8, <1>10, <1>11, <1>12

LEMMA RegisteredOwn ==
    ASSUME NEW p \in Ports, Table(p)
    PROVE  \A h \in Registered(p) : PortOf(h) = p
<1> SUFFICES ASSUME NEW h \in Registered(p) PROVE PortOf(h) = p
  OBVIOUS
<1>1. PICK i \in Slots : h = BufferHdrArry[p][i] /\ h # NULL
  BY DEF Registered
<1>2. QED BY <1>1 DEF Table, Used

LEMMA MatchTables ==
    ASSUME Disciplined, TypeOK, Inv, NEW k \in Controllers, FreeMatch(k)
    PROVE  Tables'
<1>0. PICK p \in Ports, h \in Headers \cup {NULL} : p = call[k].port /\ h = call[k].header
  BY DEF TypeOK, CallTypeOK
<1>1. at[k] = "match" /\ call[k].op = "free" /\ \A j \in Controllers : j = k
  BY DEF FreeMatch, Inv, Protocol, Calling, Disciplined
<1>2. CASE Leave(k) /\ UNCHANGED portVars
  BY <1>1, <1>2, LeaveTables DEF FreeMatch, Posts
<1>3. CASE UnregisterHeader(p, h)
  <2>1. Table(p) /\ Known(p) /\ \A q \in Ports : Table(q) /\ Known(q) /\ Sorted(q)
    BY DEF Inv, Tables
  <2>2. /\ \A i \in Used(p)' : PortOf(BufferHdrArry'[p][i]) = p
        /\ \A i, j \in Used(p)' : BufferHdrArry'[p][i] = BufferHdrArry'[p][j] => i = j
        /\ Cardinality(Used(p)') = nBufferHdrNum'[p]
        /\ nBufferHdrNum'[p] = nBufferHdrNum[p] - 1
        /\ nBufferHdrNum[p] \in 1..nBufferCountActual
        /\ Registered(p)' = Registered(p) \ {h}
        /\ PortOf(h) = p
    BY <1>3, <2>1, UnregisterTable
  <2>3. /\ UNCHANGED <<bEnabled, stateVars, threadVars, passing, eCurState, pendingCmd, pCmdQueue, pc>>
        /\ at'[k] \in {"idle", "notify"} /\ call'[k].header \in {NULL, call[k].header}
        /\ at'[k] = "notify" => nBufferHdrNum'[p] = 0 /\ call'[k] = call[k]
    <3>1. UNCHANGED <<bEnabled, stateVars, threadVars, passing>>
      BY <1>3 DEF FreeMatch, UnregisterHeader
    <3>2. UNCHANGED <<eCurState, pendingCmd, pCmdQueue, pc>>
      BY <3>1 DEF stateVars, threadVars
    <3>3. CASE Leave(k)
      <4>1. at'[k] = "idle" /\ call'[k].header = NULL
        BY <3>3 DEF Leave, NoCall, Call, TypeOK, CallTypeOK
      <4>2. QED BY <3>1, <3>2, <4>1
    <3>4. CASE nBufferHdrNum'[p] = 0 /\ at' = [at EXCEPT ![k] = "notify"] /\ call' = call
      <4>1. at'[k] = "notify"
        BY <3>4 DEF TypeOK, CallTypeOK
      <4>2. QED BY <3>1, <3>2, <3>4, <4>1
    <3>5. QED BY <1>0, <3>3, <3>4 DEF FreeMatch
  <2>4. /\ owned' = owned \ {h}
        /\ bPopulated' = IF nBufferHdrNum[p] = 1 THEN bPopulated \ {p} ELSE bPopulated
        /\ \A q \in Ports : Queued(q)' = Queued(q) /\ held'[q] = held[q]
        /\ \A q \in Ports \ {p} : BufferHdrArry'[q] = BufferHdrArry[q] /\ nBufferHdrNum'[q] = nBufferHdrNum[q]
    BY <1>3 DEF UnregisterHeader, TypeOK, PortTypeOK, Queued, BufferNum
  <2>5. Frees(p) /\ (Waiting \/ NoCommand)
    BY <1>0, <1>1, <2>2 DEF Inv, Protocol, Calling, Acting
  <2>6. \/ Unloading /\ Is(pendingCmd, "StateSet", Loaded) /\ eCurState = Idle
        \/ Is(pendingCmd, "PortDisable", p) /\ p \notin bEnabled /\ eCurState # Loaded
        \/ pendingCmd = None /\ eCurState = Loaded
    <3>1. Is(pendingCmd, "PortDisable", p) => pendingCmd # None
      BY DEF Is, None
    <3>2. Is(pendingCmd, "PortDisable", p) /\ eCurState # Loaded => p \notin bEnabled
      BY <2>1, <2>5, <3>1 DEF Known, Waiting, NoCommand, Busy, InProcess
    <3>3. QED BY <2>5, <3>2 DEF Frees, Unloading, NoCommand
  <2>7. \A q : Freeing(q) => Freeing(q)'
    BY <1>1, <2>3 DEF Freeing, Unloading
  <2>8. Freeing(p) /\ (Unloading <=> Unloading')
    BY <1>1, <2>3, <2>6 DEF Freeing, Unloading
  <2>9. \A q \in Ports : Sorted(q)' /\ Live(q) \ {h} \subseteq Live(q)'
    BY <2>1, <2>4 DEF Sorted, Live
  <2>10. ASSUME NEW q \in Ports PROVE Table(q)'
    <3>1. CASE q = p
      <4>1. /\ p \in bPopulated' => nBufferHdrNum'[p] > 0
            /\ nBufferHdrNum'[p] < nBufferCountActual
        BY <2>2, <2>4, PortAssumption
      <4>2. Registered(p)' \subseteq Live(p)'
        BY <2>1, <2>2, <2>9 DEF Table
      <4>3. Freeing(p)'
        BY <2>7, <2>8
      <4>4. QED BY <2>2, <3>1, <4>1, <4>2, <4>3 DEF Table
    <3>2. CASE q # p
      <4>1. /\ BufferHdrArry'[q] = BufferHdrArry[q] /\ nBufferHdrNum'[q] = nBufferHdrNum[q]
            /\ (q \in bPopulated' <=> q \in bPopulated)
        BY <2>4, <3>2
      <4>2. Used(q)' = Used(q) /\ Registered(q)' = Registered(q)
        BY <4>1 DEF Used, Registered
      <4>3. Packed(q)' <=> Packed(q)
        BY <4>1, <4>2 DEF Packed
      <4>4. h \notin Registered(q)
        BY <2>1, <2>2, <3>2, RegisteredOwn
      <4>5. Registered(q)' \subseteq Live(q)'
        BY <2>1, <2>9, <4>2, <4>4 DEF Table
      <4>6. QED BY <2>1, <2>7, <4>1, <4>2, <4>3, <4>5 DEF Table
    <3>3. QED BY <3>1, <3>2
  <2>11. ASSUME NEW q \in Ports PROVE Known(q)'
    <3>1. Passing' = Passing
      BY <2>3 DEF Passing
    <3>2. \A j \in Controllers : at'[j] # "post"
      BY <1>1, <2>3
    <3>3. CASE q # p
      <4>1. /\ BufferHdrArry'[q] = BufferHdrArry[q] /\ nBufferHdrNum'[q] = nBufferHdrNum[q]
            /\ (q \in bPopulated' <=> q \in bPopulated)
        BY <2>4, <3>3
      <4>2. Registered(q)' = Registered(q)
        BY <4>1 DEF Registered
      <4>3. h \notin Registered(q)
        BY <2>1, <2>2, <3>3, RegisteredOwn
      <4>4. Known(q)
        BY <2>1
      <4>5. eCurState' = Loaded \/ (q \notin bEnabled' /\ ~Is(pendingCmd', "PortDisable", q)) =>
              Registered(q)' \subseteq owned' \ Passing'
        BY <2>3, <2>4, <3>1, <4>2, <4>3, <4>4 DEF Known
      <4>6. eCurState' \in {Idle, Executing, Pause} /\ q \in bEnabled' =>
              q \in bPopulated' \/ (nBufferHdrNum'[q] = 0 /\ Unloading')
        BY <2>3, <2>8, <4>1, <4>4 DEF Known
      <4>7. QED BY <1>1, <2>3, <3>2, <4>1, <4>4, <4>5, <4>6, NotPosting DEF Known, Posts
    <3>4. CASE q = p
      <4>1. eCurState' = Loaded \/ (p \notin bEnabled' /\ ~Is(pendingCmd', "PortDisable", p)) =>
              Registered(p)' \subseteq owned' \ Passing'
        BY <2>1, <2>2, <2>3, <2>4, <3>1 DEF Known
      <4>2. eCurState' \in {Idle, Executing, Pause} /\ p \in bEnabled' =>
              p \in bPopulated' \/ (nBufferHdrNum'[p] = 0 /\ Unloading')
        <5>1. SUFFICES ASSUME eCurState \in {Idle, Executing, Pause}, p \in bEnabled
                       PROVE  p \in bPopulated' \/ (nBufferHdrNum'[p] = 0 /\ Unloading')
          BY <2>3
        <5>2. p \in bPopulated /\ Unloading'
          BY <2>1, <2>2, <2>6, <2>8, <5>1 DEF Known, Idle, Executing, Pause, Loaded
        <5>3. nBufferHdrNum[p] = 1 => nBufferHdrNum'[p] = 0
          BY <2>2
        <5>4. QED BY <2>4, <5>2, <5>3
      <4>3. ~(eCurState' = Loaded /\ (\/ pendingCmd' # None /\ ~Is(pendingCmd', "StateSet", Idle)
                                      \/ \E j \in Controllers : at'[j] = "post"))
        BY <2>3, <2>6, <3>2 DEF Loaded, Idle
      <4>4. (/\ Is(pendingCmd', "PortDisable", p) /\ eCurState' # Loaded
             /\ pCmdQueue' = <<>> /\ pc' # "ports" /\ ~Posting') => p \notin bEnabled'
        BY <1>1, <2>1, <2>3, NotPosting DEF Known, Posts
      <4>5. QED BY <3>4, <4>1, <4>2, <4>3, <4>4 DEF Known
    <3>5. QED BY <3>3, <3>4
  <2>12. \A j \in Controllers : Notifying(j)'
    <3>1. at'[k] = "notify" => call'[k].op = "free" /\ call'[k].port = p
      BY <1>0, <1>1, <2>3
    <3>2. QED BY <1>1, <2>3, <3>1 DEF Notifying
  <2>13. Passes'
    BY <1>0, <1>1, <2>3, <2>4 DEF Inv, Tables, Passes
  <2>14. QED BY <2>9, <2>10, <2>11, <2>12, <2>13 DEF Tables
<1>4. QED BY <1>0, <1>2, <1>3 DEF FreeMatch

-----------------------------------------------------------------------------
(* The invariant                                                            *)

LEMMA InvInit == Disciplined /\ Init => Inv
<1> SUFFICES ASSUME Disciplined, Init PROVE Inv
  OBVIOUS
<1>1. /\ eCurState = Loaded /\ pendingCmd = None /\ pCmdQueue = <<>> /\ pc = "cmd"
      /\ bEnabled = Ports /\ bPopulated = {} /\ owned = {}
      /\ \A p \in Ports : /\ nBufferHdrNum[p] = 0 /\ Queued(p) = {} /\ held[p] = {}
                          /\ Used(p) = {} /\ Registered(p) = {}
      /\ \A k \in Controllers : at[k] = "idle"
      /\ \A f \in Feeders : passing[f] = NULL
  BY DEF Init, PortInit, Queued, BufferNum, Used, Registered
<1>2. NoCommand /\ ~Waiting /\ ~Busy /\ ~InProcess
  BY <1>1 DEF NoCommand, Waiting, Busy, InProcess
<1>3. Anchored
  BY <1>1 DEF Disciplined, Anchored
<1>4. Accepting
  BY <1>1, <1>2 DEF Accepting, None, Loaded, WaitForResources
<1>5. Processing
  BY <1>1, <1>2 DEF Processing
<1>6. OwedOnce
  <2>1. \A c \in Commands : ~InHand(c)
    BY <1>1, Forms DEF InHand, Concluding
  <2>2. QED BY <2>1 DEF Init, OwedOnce
<1>7. \A k \in Controllers : Calling(k)
  BY <1>1 DEF Calling, Acting, Posts
<1>8. ASSUME NEW p \in Ports PROVE Table(p) /\ Known(p) /\ Sorted(p)
  <2>1. Freeing(p)
    BY <1>1 DEF Freeing
  <2>2. Cardinality(Used(p)) = 0
    BY <1>1, FS_EmptySet
  <2>3. Table(p)
    BY <1>1, <2>1, <2>2, PortAssumption DEF Table
  <2>4. Known(p)
    BY <1>1 DEF Known, Loaded, Idle, Executing, Pause
  <2>5. QED BY <1>1, <2>3, <2>4 DEF Sorted
<1>9. (\A k \in Controllers : Notifying(k)) /\ Passes
  BY <1>1 DEF Notifying, Passes
<1>10. QED BY <1>3, <1>4, <1>5, <1>6, <1>7, <1>8, <1>9 DEF Inv, Protocol, Tables

LEMMA ControlInv ==
    ASSUME Disciplined, TypeOK, Inv, NEW k \in Controllers, Control(k)
    PROVE  Inv'
<1>1. CASE \E c \in Commands : SendCommand(k, c)
  BY <1>1, SendProtocol, SendTables DEF Inv
<1>2. CASE ResetPending(k)
  BY <1>2, ResetProtocol, ResetTables DEF Inv
<1>3. CASE \E p \in Ports : Allocate(k, p)
  BY <1>3, AllocateProtocol, EnterTables DEF Inv
<1>4. CASE \E h \in Headers : Free(k, h)
  BY <1>4, FreeProtocol, EnterTables DEF Inv
<1>5. CASE (\E p \in Ports : UseEarly(k, p)) \/ WaitTimeout(k) \/ PollOver(k)
  <2>1. Protocol'
    BY <1>5, TimeoutProtocol DEF Inv
  <2>2. Tables'
    BY <1>5, EnterTables
  <2>3. QED BY <2>1, <2>2 DEF Inv
<1>6. CASE Pend(k) \/ ClearProcessed(k) \/ PostCommand(k)
  BY <1>6, PendProtocol, UnprocessedProtocol, PostProtocol, PendTables, PostTables DEF Inv
<1>7. CASE WaitOver(k)
  BY <1>7, WaitProtocol, EnterTables DEF Inv
<1>8. CASE AllocateAct(k)
  BY <1>8, AllocateActProtocol, AllocateTables DEF Inv
<1>9. CASE AllocateRefused(k)
  BY <1>9, AllocateFailsProtocol, EnterTables DEF Inv
<1>10. CASE AllocateFails(k)
  BY <1>10, AllocateFailsProtocol, AllocateFailsTables DEF Inv
<1>11. CASE FreeAct(k) \/ FreeDrain(k) \/ FreeGet(k)
  BY <1>11, FreeingProtocol, FreeingTables DEF Inv
<1>12. CASE FreeMatch(k)
  BY <1>12, MatchProtocol, MatchTables DEF Inv
<1>13. CASE NotifyOn(k) \/ NotifyOff(k)
  BY <1>13, NotifyProtocol, NotifyTables DEF Inv
<1>14. CASE Reply(k)
  BY <1>14, ReplyProtocol, ReplyTables DEF Inv
<1>15. CASE Conclude(k)
  BY <1>15, ConcludeProtocol, ConcludeTables DEF Inv
<1>16. QED
  BY <1>1, <1>2, <1>3, <1>4, <1>5, <1>6, <1>7, <1>8, <1>9, <1>10, <1>11, <1>12, <1>13, <1>14,
     <1>15 DEF Control, Proceed, BufferCall

LEMMA InvNext == Disciplined /\ TypeOK /\ Inv /\ [Next]_vars => Inv'
<1> SUFFICES ASSUME Disciplined, TypeOK, Inv, [Next]_vars PROVE Inv'
  OBVIOUS
<1>1. CASE UNCHANGED vars
  <2>1. Protocol'
    BY <1>1, FlowProtocol DEF Inv, vars, portVars, table, threadVars, ghosts
  <2>2. Tables'
    <3>1. UNCHANGED <<bEnabled, bPopulated, table, owned, flow, stateVars, callVars, passing, pc,
                      now, eCurState, pendingCmd, pCmdQueue, at, call>>
      BY <1>1 DEF vars, portVars, flow, threadVars, stateVars, callVars
    <3>2. \A p \in Ports : (/\ Is(pendingCmd, "PortDisable", p) /\ eCurState # Loaded
                            /\ pCmdQueue' = <<>> /\ pc' # "ports" /\ ~Posting') => p \notin bEnabled
      BY <3>1, SamePosting DEF Inv, Tables, Known
    <3>3. \A k \in Controllers : Notifying(k)'
      <4>1. \A c : Fulfilled(c)' <=> Fulfilled(c)
        BY <3>1 DEF Fulfilled, AllPortsOn, AllPortsOff, table
      <4>2. QED BY <3>1, <4>1 DEF Notifying, Inv, Tables, table
    <3>4. QED BY <3>1, <3>2, <3>3, KeepTables, SameHeaders DEF Inv, Tables, Passes
  <2>3. QED BY <2>1, <2>2 DEF Inv
<1>2. ASSUME NEW f \in Feeders, Feed(f) PROVE Inv'
  BY <1>2, FeedProtocol, PassTables, QueueTables DEF Feed, Inv
<1>3. CASE \/ LoadedToIdle \/ IdleToLoaded \/ IdleToRunning \/ RunningToIdle
           \/ OtherStateSet \/ PortCommand
  BY <1>3, CommandsProtocol, CommandsTables DEF Inv
<1>4. CASE EnablePort
  BY <1>4, PortStepsProtocol, EnableTables DEF Inv
<1>5. CASE DisablePort
  BY <1>5, PortStepsProtocol, DisableTables DEF Inv
<1>6. CASE ReturnPort \/ Drain \/ DrainGet
  BY <1>6, PortStepsProtocol, DrainTables DEF Inv
<1>7. CASE Processed
  BY <1>7, ProcessedProtocol, DrainTables DEF Inv
<1>8. CASE ClearPending
  BY <1>8, ClearProtocol, ClearTables DEF Inv
<1>9. CASE Event
  BY <1>9, EventProtocol, EventTables DEF Inv
<1>10. CASE ProcessBuffer
  BY <1>10, ProcessBufferProtocol, ProcessBufferTables DEF Inv
<1>11. CASE \E k \in Controllers : Control(k)
  BY <1>11, ControlInv
<1>12. QED
  BY <1>1, <1>2, <1>3, <1>4, <1>5, <1>6, <1>7, <1>8, <1>9, <1>10, <1>11
     DEF Next, DoThread, ProcessCmd

\* What ProcessCmd has queued or in work is the command that SendCommand left in
\* pendingCmd: PortNotify and the states look at that one only.
THEOREM PendingAlwaysMatches ==
    ASSUME Disciplined
    PROVE  Spec => []PendingMatches
<1>1. TypeOK /\ Inv => PendingMatches
  <2>1. SUFFICES ASSUME TypeOK, Inv PROVE PendingMatches
    OBVIOUS
  <2>2. CASE pCmdQueue = <<>>
    BY <2>1, <2>2 DEF Inv, Protocol, Accepting, PendingMatches
  <2>3. CASE pCmdQueue # <<>>
    <3>1. pCmdQueue = <<pendingCmd>> /\ ~bProcessed /\ ~InProcess
      BY <2>1, <2>3 DEF Inv, Protocol, Accepting, Busy
    <3>2. QED BY <3>1 DEF PendingMatches
  <2>4. QED BY <2>2, <2>3
<1>2. QED BY <1>1, InvInit, InvNext, TypeCorrect, PTL DEF Spec

\* ProcessCmd and PortNotify never both send the event of a command.
THEOREM AlwaysAnsweredOnce ==
    ASSUME Disciplined
    PROVE  Spec => []AnsweredOnce
<1>1. TypeOK /\ Inv => AnsweredOnce
  <2>1. SUFFICES ASSUME TypeOK, Inv, NEW c \in Commands PROVE owed[c] >= 0
    BY DEF AnsweredOnce
  <2>2. owed[c] = 1 \/ owed[c] = 0
    BY <2>1 DEF Inv, Protocol, OwedOnce
  <2>3. QED BY <2>2
<1>2. QED BY <1>1, InvInit, InvNext, TypeCorrect, PTL DEF Spec

\* Outside Loaded every enabled port has all its buffers, except while the client
\* frees them on the way to Loaded: CheckAllPortsState may count on bPopulated.
THEOREM PortsAlwaysPopulated ==
    ASSUME Disciplined
    PROVE  Spec => []PortsPopulated
<1>1. TypeOK /\ Inv => PortsPopulated
  <2>1. SUFFICES ASSUME TypeOK, Inv, NEW p \in bEnabled,
                        \/ eCurState \in {Executing, Pause}
                        \/ eCurState = Idle /\ pendingCmd # StateSet(Loaded) /\ ~Running(Loaded)
                 PROVE  p \in bPopulated /\ nBufferHdrNum[p] = nBufferCountActual
    BY DEF PortsPopulated
  <2>2. p \in Ports /\ pendingCmd \in Commands \cup {None}
    BY <2>1 DEF TypeOK, PortTypeOK, StateTypeOK
  <2>3. ASSUME NEW k \in Controllers, at[k] = "conclude", Is(call[k].cmd, "StateSet", Loaded)
        PROVE  FALSE
    <3>1. Completable(call[k].cmd) /\ call[k].cmd \in Commands \cup {None}
      BY <2>1, <2>3 DEF Inv, Protocol, Calling, TypeOK, CallTypeOK
    <3>2. eCurState = Idle /\ call[k].cmd = StateSet(Loaded)
      BY <2>3, <3>1, Forms DEF Completable, Is, Idle, Loaded
    <3>3. QED BY <2>1, <2>3, <3>2 DEF Running, Idle, Executing, Pause
  <2>4. ~Unloading
    BY <2>1, <2>2, <2>3, Forms DEF Unloading, Idle, Executing, Pause
  <2>5. ~Freeing(p)
    BY <2>1, <2>4 DEF Freeing, Loaded, Idle, Executing, Pause
  <2>6. Known(p) /\ Table(p)
    BY <2>1, <2>2 DEF Inv, Tables
  <2>7. QED BY <2>1, <2>4, <2>5, <2>6 DEF Known, Table
<1>2. QED BY <1>1, InvInit, InvNext, TypeCorrect, PTL DEF Spec

-----------------------------------------------------------------------------
(* The state's transitions and resources                                    *)

\* The steps of the client that leave the command and the state alone.
QuietCall(k) ==
    \/ \E c \in Commands : SendCommand(k, c)
    \/ \E p \in Ports : Allocate(k, p) \/ UseEarly(k, p)
    \/ \E h \in Headers : Free(k, h)
    \/ PollOver(k) \/ WaitOver(k) \/ WaitTimeout(k) \/ AllocateAct(k) \/ AllocateRefused(k)
    \/ FreeAct(k) \/ FreeDrain(k) \/ FreeGet(k) \/ FreeMatch(k) \/ NotifyOn(k)

LEMMA QuietCalls ==
    ASSUME TypeOK, NEW k \in Controllers, QuietCall(k)
    PROVE  /\ UNCHANGED <<stateVars, threadVars>>
           /\ at[k] \notin Posts \cup {"reply", "conclude"}
           /\ at'[k] \notin Posts \cup {"conclude"}
<1>1. UNCHANGED <<stateVars, threadVars>>
  BY DEF QuietCall, SendCommand, Allocate, UseEarly, Free, PollOver, WaitOver, WaitTimeout,
         AllocateAct, AllocateRefused, FreeAct, FreeDrain, FreeGet, FreeMatch, NotifyOn
<1>2. at[k] \notin Posts \cup {"reply", "conclude"}
  BY DEF QuietCall, SendCommand, Allocate, UseEarly, Free, PollOver, WaitOver, WaitTimeout,
         AllocateAct, AllocateRefused, FreeAct, FreeDrain, FreeGet, FreeMatch, NotifyOn, Posts
<1>3. at \in [Controllers -> Places]
  BY DEF TypeOK, CallTypeOK
<1>4. CASE \/ \E c \in Commands : SendCommand(k, c)
           \/ \E p \in Ports : Allocate(k, p) \/ UseEarly(k, p)
           \/ \E h \in Headers : Free(k, h)
           \/ PollOver(k) \/ WaitOver(k) \/ WaitTimeout(k)
  BY <1>3, <1>4 DEF SendCommand, Allocate, UseEarly, Free, PollOver, WaitOver, WaitTimeout, Leave,
                    Enter, Posts
<1>5. CASE \/ AllocateAct(k) \/ AllocateRefused(k)
           \/ FreeAct(k) \/ FreeDrain(k) \/ FreeGet(k) \/ FreeMatch(k) \/ NotifyOn(k)
  BY <1>3, <1>5 DEF AllocateAct, AllocateRefused, FreeAct, FreeDrain, FreeGet, FreeMatch, NotifyOn,
                    Leave, ReplyIf, Posts
<1>6. QED BY <1>1, <1>2, <1>4, <1>5 DEF QuietCall

\* The steps of the thread that are about buffers.
LEMMA QuietThread ==
    ASSUME ProcessBuffer
    PROVE  UNCHANGED <<stateVars, callVars, now, ret>> /\ ~Busy /\ ~Busy' /\ ~InProcess'
BY DEF ProcessBuffer, TakeBuffer, TakeGet, SendDone, NoBuffer, BufferTurn, Busy, InProcess

LEMMA Transition ==
    ASSUME Disciplined, TypeOK, Inv, [Next]_vars, eCurState' # eCurState
    PROVE  \/ eCurState' = Invalid
           \/ {eCurState, eCurState'} \in
                 {{Loaded, Idle}, {Idle, Executing}, {Idle, Pause}, {Executing, Pause}}
<1>1. ASSUME NEW k \in Controllers, Control(k) PROVE Conclude(k)
  <2>1. ~QuietCall(k)
    BY QuietCalls DEF stateVars
  <2>2. /\ ~Pend(k) /\ ~ClearProcessed(k) /\ ~PostCommand(k) /\ ~ResetPending(k)
        /\ ~AllocateFails(k) /\ ~NotifyOff(k) /\ ~Reply(k)
    BY DEF Pend, ClearProcessed, PostCommand, ResetPending, AllocateFails, NotifyOff, Reply
  <2>3. QED BY <1>1, <2>1, <2>2 DEF Control, Proceed, BufferCall, QuietCall
<1>2. ~(\E f \in Feeders : Feed(f))
  BY DEF Feed, PassBuffer, QueueBuffer, stateVars
<1>3. CASE DoThread
  <2>1. ~ProcessBuffer
    BY QuietThread DEF stateVars
  <2>2. /\ ~LoadedToIdle /\ ~IdleToLoaded /\ ~IdleToRunning /\ ~RunningToIdle
        /\ ~OtherStateSet /\ ~PortCommand
    BY DEF LoadedToIdle, IdleToLoaded, IdleToRunning, RunningToIdle, OtherStateSet, PortCommand,
           Take
  <2>3. ~EnablePort /\ ~DisablePort /\ ~ReturnPort /\ ~Drain /\ ~DrainGet
    BY DEF EnablePort, DisablePort, ReturnPort, Drain, DrainGet, stateVars
  <2>4. ~Processed /\ ~ClearPending
    BY DEF Processed, ClearPending
  <2>5. Event
    BY <1>3, <2>1, <2>2, <2>3, <2>4 DEF DoThread, ProcessCmd
  <2>6. Moves(eCurState, eCurState')
    BY <2>5 DEF Event, Inv, Protocol, Processing, Busy
  <2>7. QED BY <2>6 DEF Moves
<1>4. ASSUME NEW k \in Controllers, Conclude(k)
      PROVE  {eCurState, eCurState'} = {Loaded, Idle}
  <2>1. Completable(call[k].cmd)
    BY <1>4 DEF Conclude, Inv, Protocol, Calling
  <2>2. QED BY <1>4, <2>1 DEF Conclude, Completable, Is
<1>5. CASE UNCHANGED vars
  BY <1>5 DEF vars, stateVars
<1>6. QED BY <1>1, <1>2, <1>3, <1>4, <1>5 DEF Next

\* SetState, called by the thread and by PortNotify, takes only edges of the
\* OpenMAX state diagram.
THEOREM TransitionsLegal ==
    ASSUME Disciplined
    PROVE  Spec => LegalTransitions
<1>1. TypeOK /\ Inv /\ [Next]_vars =>
        [ \/ eCurState' = Invalid
          \/ {eCurState, eCurState'} \in
                {{Loaded, Idle}, {Idle, Executing}, {Idle, Pause}, {Executing, Pause}} ]_eCurState
  BY Transition
<1>2. QED BY <1>1, InvInit, InvNext, TypeCorrect, PTL DEF Spec, LegalTransitions

\* PortNotify has released what Idle needs, and Loaded is to come.
Releasing ==
    \E k \in Controllers :
        \/ at[k] = "reply" /\ Is(pendingCmd, "StateSet", Loaded)
        \/ at[k] = "conclude" /\ Is(call[k].cmd, "StateSet", Loaded)

Instanced ==
    \/ eCurState \in {Executing, Pause} /\ ~(Busy /\ Is(now, "StateSet", Idle))
    \/ /\ eCurState = Idle /\ Busy /\ ret = "None"
       /\ Is(now, "StateSet", Executing) \/ Is(now, "StateSet", Pause)

Resourced ==
    /\ eCurState \in {Idle, Executing, Pause} => resources \/ Releasing
    /\ (/\ eCurState = Loaded /\ Is(pendingCmd, "StateSet", Idle)
        /\ pc = "processed" \/ Waiting) => resources
    /\ \A k \in Controllers : at[k] = "conclude" /\ Is(call[k].cmd, "StateSet", Idle) => resources
    /\ eCurState # Invalid => (instance <=> Instanced)
    /\ Busy /\ Is(now, "StateSet", Idle) /\ eCurState \in {Executing, Pause} => ret = "None"

LEMMA SameResources ==
    ASSUME Resourced, UNCHANGED <<resources, instance, eCurState, pendingCmd>>,
           Busy' <=> Busy,
           Busy => now' = now /\ ret' = ret,
           pc' = "processed" \/ Waiting' => pc = "processed" \/ Waiting,
           Releasing => Releasing',
           \A k \in Controllers : at'[k] = "conclude" => at[k] = "conclude" /\ call'[k] = call[k]
    PROVE  Resourced'
BY DEF Resourced, Instanced

LEMMA QuietResourced ==
    ASSUME Disciplined, TypeOK, Inv, Resourced,
           \/ \E k \in Controllers : QuietCall(k)
           \/ \E f \in Feeders : Feed(f)
           \/ ProcessBuffer
           \/ UNCHANGED vars
    PROVE  Resourced'
<1>1. ASSUME NEW k \in Controllers, QuietCall(k) PROVE Resourced'
  <2>1. UNCHANGED <<resources, instance, eCurState, pendingCmd, pCmdQueue, pc, now, ret>>
    BY <1>1, QuietCalls DEF stateVars, threadVars
  <2>2. (Busy' <=> Busy) /\ (Waiting' <=> Waiting)
    BY <1>1, <2>1, QuietCalls, NotPosting DEF Busy, InProcess, Waiting
  <2>3. \A j \in Controllers : j = k
    BY DEF Disciplined
  <2>4. ~Releasing
    BY <1>1, <2>3, QuietCalls DEF Releasing
  <2>5. at'[k] # "conclude"
    BY <1>1, QuietCalls
  <2>6. QED BY <2>1, <2>2, <2>3, <2>4, <2>5, SameResources
<1>2. ASSUME UNCHANGED <<stateVars, callVars, now, ret>>, Busy' <=> Busy,
             pc' = "processed" => pc = "processed"
      PROVE  Resourced'
  <2>1. UNCHANGED <<resources, instance, eCurState, pendingCmd, pCmdQueue, now, ret, at, call>>
    BY <1>2 DEF stateVars, callVars
  <2>2. (Waiting' <=> Waiting) /\ (Releasing' <=> Releasing)
    BY <1>2, <2>1, SamePosting DEF Waiting, Releasing
  <2>3. QED BY <1>2, <2>1, <2>2, SameResources
<1>3. ASSUME NEW f \in Feeders, Feed(f) PROVE Resourced'
  <2>1. UNCHANGED <<stateVars, callVars, threadVars>>
    BY <1>3 DEF Feed, PassBuffer, QueueBuffer
  <2>2. QED BY <1>2, <2>1 DEF threadVars, Busy, InProcess
<1>4. CASE ProcessBuffer
  BY <1>2, <1>4, QuietThread DEF InProcess
<1>5. CASE UNCHANGED vars
  BY <1>2, <1>5 DEF vars, threadVars, Busy, InProcess
<1>6. QED BY <1>1, <1>3, <1>4, <1>5

\* A step that leaves the state and what was acquired alone.
LEMMA KeepsResources ==
    ASSUME Resourced, UNCHANGED <<resources, instance, eCurState>>,
           Busy' <=> Busy,
           Busy => now' = now /\ ret' = ret,
           (/\ eCurState = Loaded /\ Is(pendingCmd', "StateSet", Idle)
            /\ pc' = "processed" \/ Waiting') => resources,
           Releasing => Releasing',
           \A k \in Controllers :
               at'[k] = "conclude" /\ Is(call'[k].cmd, "StateSet", Idle) => resources
    PROVE  Resourced'
BY DEF Resourced, Instanced

LEMMA CallResourced ==
    ASSUME Disciplined, TypeOK, Inv, Resourced, NEW k \in Controllers,
           \/ Pend(k) \/ ClearProcessed(k) \/ PostCommand(k)
           \/ ResetPending(k) \/ AllocateFails(k) \/ NotifyOff(k)
    PROVE  Resourced'
<1>1. \A j \in Controllers : j = k
  BY DEF Disciplined
<1>2. Calling(k)
  BY DEF Inv, Protocol
<1>3. at \in [Controllers -> Places] /\ call[k].cmd \in Commands \cup {None}
  BY DEF TypeOK, CallTypeOK
<1>4. CASE Pend(k) \/ ClearProcessed(k) \/ PostCommand(k)
  <2>1. ~Busy
    BY <1>2, <1>4 DEF Pend, ClearProcessed, PostCommand, Calling, NoCommand, Posts
  <2>2. /\ UNCHANGED <<resources, instance, eCurState, threadVars>>
        /\ at[k] \in {"post", "pend", "add"} /\ at'[k] \in {"pend", "add", "idle"}
        /\ at'[k] = "idle" => pCmdQueue' # <<>>
    BY <1>3, <1>4 DEF Pend, ClearProcessed, PostCommand, TypeOK, StateTypeOK
  <2>3. ~Waiting'
    BY <2>2 DEF Waiting, Posting, Posts
  <2>4. ~Busy' /\ pc' # "processed"
    BY <2>1, <2>2 DEF Busy, InProcess, threadVars
  <2>5. ~Releasing
    BY <1>1, <2>2 DEF Releasing
  <2>6. QED BY <1>1, <2>1, <2>2, <2>3, <2>4, <2>5, KeepsResources
<1>5. CASE ResetPending(k)
  <2>1. pendingCmd'.cmd # "StateSet"
    BY <1>5 DEF ResetPending, None
  <2>2. at'[k] = "idle" /\ ~Releasing
    BY <1>1, <1>3, <1>5 DEF ResetPending, Releasing, callVars
  <2>3. UNCHANGED <<resources, instance, eCurState, pc, now, ret>>
    BY <1>5 DEF ResetPending, threadVars
  <2>4. Busy' <=> Busy
    BY <2>3 DEF Busy, InProcess
  <2>5. QED BY <1>1, <2>1, <2>2, <2>3, <2>4, KeepsResources DEF Is
<1>6. CASE AllocateFails(k)
  <2>1. at[k] = "act" /\ at'[k] = "idle" /\ ~Releasing
    BY <1>1, <1>3, <1>6 DEF AllocateFails, Releasing, Leave
  <2>2. UNCHANGED <<instance, eCurState, pc, now, ret, pCmdQueue>>
    BY <1>6 DEF AllocateFails, threadVars
  <2>3. Busy' <=> Busy
    BY <2>2 DEF Busy, InProcess
  <2>4. CASE pendingCmd = StateSet(Idle) /\ eCurState = Loaded /\ AllPortsOff
    <3>1. pendingCmd' = None
      BY <1>6, <2>4 DEF AllocateFails
    <3>2. pendingCmd'.cmd # "StateSet"
      BY <3>1 DEF None
    <3>3. QED
      BY <1>1, <2>1, <2>2, <2>3, <2>4, <3>2
         DEF Resourced, Instanced, Is, Loaded, Idle, Executing, Pause, Invalid
  <2>5. CASE ~(pendingCmd = StateSet(Idle) /\ eCurState = Loaded /\ AllPortsOff)
    <3>1. UNCHANGED <<resources, pendingCmd>>
      BY <1>6, <2>5 DEF AllocateFails
    <3>2. Waiting' <=> Waiting
      BY <2>1, <2>2, <2>3, <3>1, NotPosting DEF Waiting, Posts
    <3>3. QED BY <1>1, <2>1, <2>2, <2>3, <3>1, <3>2, SameResources
  <2>6. QED BY <2>4, <2>5
<1>7. CASE NotifyOff(k)
  <2>1. at[k] = "notify" /\ at'[k] \notin Posts \cup {"conclude"} /\ ~Releasing
    BY <1>1, <1>3, <1>7 DEF NotifyOff, Releasing, ReplyIf, Leave, Posts
  <2>2. (Waiting \/ NoCommand) /\ Frees(call[k].port)
    BY <1>2, <1>7 DEF NotifyOff, Calling, Acting
  <2>3. pendingCmd \in Commands \cup {None}
    BY DEF TypeOK, StateTypeOK
  <2>4. ~RolledBack
    BY <2>2, <2>3, Forms
       DEF RolledBack, NoCommand, Frees, Is, StateSet, None, Loaded, Idle
  <2>5. UNCHANGED <<instance, eCurState, pendingCmd, pc, now, ret, pCmdQueue>>
    BY <1>7, <2>4 DEF NotifyOff, threadVars
  <2>6. (Busy' <=> Busy) /\ (Waiting' <=> Waiting)
    BY <2>1, <2>5, NotPosting DEF Busy, InProcess, Waiting, Posts
  <2>7. CASE Unloaded
    <3>1. at'[k] = "reply" /\ Is(pendingCmd, "StateSet", Loaded)
      BY <1>3, <1>7, <2>3, <2>7, Forms DEF NotifyOff, ReplyIf, Unloaded
    <3>2. Releasing'
      BY <2>5, <3>1 DEF Releasing
    <3>3. ~Is(pendingCmd', "StateSet", Idle)
      BY <2>5, <3>1 DEF Is, Loaded, Idle
    <3>4. QED BY <1>1, <2>1, <2>5, <2>6, <3>2, <3>3 DEF Resourced, Instanced
  <2>8. CASE ~Unloaded
    <3>1. UNCHANGED resources
      BY <1>7, <2>4, <2>8 DEF NotifyOff
    <3>2. QED BY <1>1, <2>1, <2>5, <2>6, <3>1, SameResources
  <2>9. QED BY <2>7, <2>8
<1>8. QED BY <1>4, <1>5, <1>6, <1>7

LEMMA ReplyResourced ==
    ASSUME Disciplined, TypeOK, Inv, Resourced, NEW k \in Controllers,
           Reply(k) \/ Conclude(k)
    PROVE  Resourced'
<1>1. \A j \in Controllers : j = k
  BY DEF Disciplined
<1>2. Calling(k)
  BY DEF Inv, Protocol
<1>3. /\ at \in [Controllers -> Places]
      /\ call \in [Controllers -> [op : {"none", "allocate", "free"}, port : Ports,
                                 header : Headers \cup {NULL}, state : States,
                                 cmd : Commands \cup {None}]]
  BY DEF TypeOK, CallTypeOK
<1>4. CASE Reply(k)
  <2>1. Waiting /\ Completable(pendingCmd)
    BY <1>2, <1>4 DEF Reply, Calling, Inv, Protocol, Accepting
  <2>2. at'[k] = "conclude" /\ call'[k].cmd = pendingCmd
    BY <1>3, <1>4 DEF Reply
  <2>3. UNCHANGED <<resources, instance, eCurState, pc, now, ret>> /\ pendingCmd' = None
    BY <1>4 DEF Reply, threadVars
  <2>4. Busy' <=> Busy
    BY <2>3 DEF Busy, InProcess
  <2>5. Releasing => Releasing'
    BY <1>1, <1>4, <2>2 DEF Reply, Releasing
  <2>6. Is(pendingCmd, "StateSet", Idle) => resources
    BY <2>1 DEF Completable, Resourced, Is, Idle, Loaded
  <2>7. ~Is(pendingCmd', "StateSet", Idle)
    BY <2>3 DEF Is, None
  <2>8. QED BY <1>1, <2>2, <2>3, <2>4, <2>5, <2>6, <2>7, KeepsResources
<1>5. CASE Conclude(k)
  <2>1. NoCommand /\ Completable(call[k].cmd)
    BY <1>2, <1>5 DEF Conclude, Calling
  <2>2. at'[k] = "idle" /\ ~Releasing'
    BY <1>1, <1>3, <1>5 DEF Conclude, Leave, Releasing
  <2>3. UNCHANGED <<resources, instance, pc, now, ret, pendingCmd, pCmdQueue>>
    BY <1>5 DEF Conclude, threadVars
  <2>4. ~Busy /\ ~Busy' /\ ~Waiting' /\ pc' # "processed"
    BY <2>1, <2>3 DEF NoCommand, Busy, InProcess, Waiting
  <2>5. CASE Is(call[k].cmd, "StateSet", Idle)
    <3>1. eCurState = Loaded /\ eCurState' = Idle /\ resources
      BY <1>5, <2>1, <2>5 DEF Conclude, Completable, Is, Resourced, Loaded, Idle
    <3>2. instance <=> FALSE
      BY <3>1 DEF Resourced, Instanced, Loaded, Idle, Executing, Pause, Invalid
    <3>3. QED BY <1>1, <2>2, <2>3, <2>4, <3>1, <3>2
                 DEF Resourced, Instanced, Loaded, Idle, Executing, Pause, Invalid
  <2>6. CASE Is(call[k].cmd, "StateSet", Loaded)
    <3>1. eCurState = Idle /\ eCurState' = Loaded
      BY <1>5, <2>1, <2>6 DEF Conclude, Completable, Is, Loaded, Idle
    <3>2. instance <=> FALSE
      BY <2>4, <3>1 DEF Resourced, Instanced, Loaded, Idle, Executing, Pause, Invalid
    <3>3. QED BY <1>1, <2>2, <2>3, <2>4, <3>1, <3>2
                 DEF Resourced, Instanced, Loaded, Idle, Executing, Pause, Invalid
  <2>7. CASE call[k].cmd.cmd # "StateSet"
    <3>1. eCurState' = eCurState
      BY <1>5, <2>7 DEF Conclude
    <3>2. ~Releasing
      BY <1>1, <1>5, <2>7 DEF Conclude, Releasing, Is
    <3>3. QED BY <1>1, <2>2, <2>3, <2>4, <3>1, <3>2, KeepsResources
  <2>8. QED BY <2>1, <2>5, <2>6, <2>7 DEF Completable, Is
<1>6. QED BY <1>4, <1>5

\* No error gives up a transition while the thread tells the client of it.
LEMMA EventGivesUpNothing ==
    ASSUME Protocol, Event
    PROVE  UNCHANGED <<resources, pendingCmd>>
<1>1. pendingCmd = None
  BY DEF Event, Protocol, Accepting
<1>2. ~RolledBack
  BY <1>1 DEF RolledBack, None, StateSet
<1>3. QED BY <1>2 DEF Event

\* The commands that the thread takes.
LEMMA TakeResourced ==
    ASSUME Disciplined, TypeOK, Inv, Resourced,
           \/ LoadedToIdle \/ IdleToLoaded \/ IdleToRunning \/ RunningToIdle
           \/ OtherStateSet \/ PortCommand
    PROVE  Resourced'
<1>1. ASSUME NEW c, NEW result, NEW ports, Take(c, result, ports)
      PROVE  /\ c = pendingCmd /\ c \in Commands /\ Checked(c) /\ ~Busy
             /\ now' = c /\ ret' = result /\ (pc' = "processed" \/ pc' = "ports") /\ Busy'
             /\ pc' = "processed" <=> ports = <<>>
             /\ UNCHANGED <<eCurState, pendingCmd, callVars>>
             /\ ~Waiting'
  <2>1. pCmdQueue = <<pendingCmd>> /\ pendingCmd # None /\ ~Busy /\ Checked(pendingCmd)
    BY <1>1 DEF Take, Inv, Protocol, Accepting
  <2>2. c = pendingCmd
    BY <1>1, <2>1 DEF Take
  <2>3. pendingCmd \in Commands
    BY <2>1 DEF TypeOK, StateTypeOK
  <2>4. pc' = "processed" \/ pc' = "ports"
    BY <1>1 DEF Take
  <2>5. Busy'
    BY <2>4 DEF Busy, InProcess
  <2>6. QED BY <1>1, <2>1, <2>2, <2>3, <2>4, <2>5 DEF Take, Waiting
<1>2. ASSUME UNCHANGED callVars, UNCHANGED pendingCmd
      PROVE  Releasing' <=> Releasing
  BY <1>2 DEF Releasing, callVars
<1>3. CASE LoadedToIdle
  <2>1. PICK result, ports : Take(StateSet(Idle), result, ports)
    BY <1>3 DEF LoadedToIdle
  <2>2. eCurState = Loaded /\ resources' = TRUE /\ UNCHANGED instance
    BY <1>3 DEF LoadedToIdle, Disciplined
  <2>3. /\ now' = StateSet(Idle) /\ UNCHANGED <<eCurState, pendingCmd, callVars>>
    BY <1>1, <2>1
  <2>4. Is(now', "StateSet", Idle)
    BY <2>3 DEF Is, StateSet
  <2>5. QED
    BY <2>2, <2>3, <2>4
       DEF Resourced, Instanced, Loaded, Idle, Executing, Pause, Invalid, callVars, Is
<1>4. CASE IdleToLoaded
  <2>1. PICK result, ports : Take(StateSet(Loaded), result, ports)
    BY <1>4 DEF IdleToLoaded
  <2>2. bEnabled # {}
    BY DEF Inv, Protocol, Anchored
  <2>3. eCurState = Idle /\ UNCHANGED <<resources, instance>>
    BY <1>4, <2>2 DEF IdleToLoaded
  <2>4. now' = StateSet(Loaded) /\ UNCHANGED <<eCurState, pendingCmd, callVars>> /\ ~Busy
    BY <1>1, <2>1
  <2>5. \A s : Is(now', "StateSet", s) => s = Loaded
    BY <2>4 DEF Is, StateSet
  <2>6. ~Instanced /\ ~Instanced'
    BY <2>3, <2>4, <2>5 DEF Instanced, Is, StateSet, Loaded, Idle, Executing, Pause
  <2>7. QED
    BY <1>2, <2>3, <2>4, <2>6
       DEF Resourced, Loaded, Idle, Executing, Pause, Invalid, callVars
<1>5. CASE IdleToRunning
  <2>1. PICK s \in {Executing, Pause} :
            \/ Take(StateSet(s), "None", <<>>) /\ instance' = TRUE
            \/ Take(StateSet(s), "Error", <<>>) /\ instance' = FALSE
    BY <1>5 DEF IdleToRunning, InstanceDeInit
  <2>2. eCurState = Idle /\ UNCHANGED resources
    BY <1>5 DEF IdleToRunning
  <2>3. now' = StateSet(s) /\ UNCHANGED <<eCurState, pendingCmd, callVars>> /\ Busy'
    BY <1>1, <2>1
  <2>4. /\ Is(now', "StateSet", s)
        /\ (ret' = "None" /\ instance') \/ (ret' = "Error" /\ ~instance')
    BY <1>1, <2>1, <2>3 DEF Is, StateSet
  <2>5. Instanced' <=> instance'
    BY <2>1, <2>2, <2>3, <2>4 DEF Instanced, Idle, Executing, Pause
  <2>6. QED
    BY <1>2, <2>2, <2>3, <2>5
       DEF Resourced, Loaded, Idle, Executing, Pause, Invalid, callVars
<1>6. CASE RunningToIdle
  <2>1. Take(StateSet(Idle), "None", AllPorts) /\ instance' = FALSE /\ UNCHANGED resources
    BY <1>6 DEF RunningToIdle, InstanceDeInit
  <2>2. eCurState \in {Executing, Pause}
    BY <1>6 DEF RunningToIdle
  <2>3. now' = StateSet(Idle) /\ ret' = "None" /\ UNCHANGED <<eCurState, pendingCmd, callVars>>
        /\ Busy'
    BY <1>1, <2>1
  <2>4. Is(now', "StateSet", Idle)
    BY <2>3 DEF Is, StateSet
  <2>5. ~Instanced'
    BY <2>2, <2>3, <2>4 DEF Instanced, Idle, Executing, Pause
  <2>6. QED
    BY <1>2, <2>1, <2>2, <2>3, <2>5
       DEF Resourced, Loaded, Idle, Executing, Pause, Invalid, callVars
<1>7. CASE OtherStateSet
  <2>1. PICK s \in States : \/ Accepted(s) /\ Take(StateSet(s), "None", <<>>)
                            \/ Refused(s) /\ Take(StateSet(s), "Error", <<>>)
    BY <1>7 DEF OtherStateSet
  <2>2. UNCHANGED <<resources, instance>>
    BY <1>7 DEF OtherStateSet
  <2>3. /\ now' = StateSet(s) /\ pendingCmd = StateSet(s) /\ Checked(StateSet(s)) /\ ~Busy
        /\ UNCHANGED <<eCurState, pendingCmd, callVars>>
    BY <1>1, <2>1
  <2>4. s # eCurState
    BY <2>3 DEF Checked, StateSet
  <2>5. \/ ret' = "Error" /\ Refused(s)
        \/ Accepted(s)
    BY <1>1, <2>1
  <2>6. eCurState # WaitForResources
    BY DEF Inv, Protocol, Accepting
  <2>7. ~(eCurState = Loaded /\ s = Idle) /\ ~(eCurState \in {Executing, Pause} /\ s = Idle)
    BY <2>4, <2>5, <2>6
       DEF Accepted, Refused, Loaded, Idle, Executing, Pause, Invalid, WaitForResources
  <2>8. ~(eCurState = Idle /\ s \in {Executing, Pause})
    BY <2>4, <2>5, <2>6
       DEF Accepted, Refused, Loaded, Idle, Executing, Pause, Invalid, WaitForResources
  <2>9. \A t : Is(now', "StateSet", t) <=> t = s
    BY <2>3 DEF Is, StateSet
  <2>10. \A t : Is(pendingCmd', "StateSet", t) <=> t = s
    BY <2>3 DEF Is, StateSet
  <2>11. Instanced' <=> Instanced
    BY <2>3, <2>7, <2>8, <2>9 DEF Instanced
  <2>12. QED
    BY <1>2, <2>2, <2>3, <2>7, <2>9, <2>10, <2>11 DEF Resourced, callVars
<1>8. CASE PortCommand
  <2>1. PICK c \in Commands :
            /\ c.cmd \in PortCommands \cup {"MarkBuffer"}
            /\ \E result, ports : Take(c, result, ports)
    BY <1>8 DEF PortCommand
  <2>2. now' = c /\ pendingCmd = c /\ ~Busy /\ UNCHANGED <<eCurState, pendingCmd, callVars>>
    BY <1>1, <2>1
  <2>3. UNCHANGED <<resources, instance>>
    BY <1>8 DEF PortCommand
  <2>4. \A t : ~Is(now', "StateSet", t) /\ ~Is(pendingCmd', "StateSet", t)
    BY <2>1, <2>2 DEF Is, PortCommands
  <2>5. Instanced' <=> Instanced
    BY <2>2, <2>4 DEF Instanced
  <2>6. QED BY <1>2, <2>2, <2>3, <2>4, <2>5 DEF Resourced, callVars
<1>9. QED BY <1>3, <1>4, <1>5, <1>6, <1>7, <1>8

\* The rest of ProcessCmd.
LEMMA StepResourced ==
    ASSUME Disciplined, TypeOK, Inv, Resourced,
           \/ EnablePort \/ DisablePort \/ ReturnPort \/ Drain \/ DrainGet
           \/ Processed \/ ClearPending \/ Event
    PROVE  Resourced'
<1>1. CASE EnablePort \/ DisablePort
  <2>1. UNCHANGED <<stateVars, callVars, now>> /\ pc = "ports"
        /\ pc' \in {"ports", "drain", "processed"} /\ now.cmd \in {"PortEnable", "PortDisable"}
    BY <1>1 DEF EnablePort, DisablePort, ToProcessed
  <2>2. Busy /\ Busy' /\ InProcess
    BY <2>1 DEF Busy, InProcess
  <2>3. pendingCmd = now
    BY <2>2 DEF Inv, Protocol, Accepting
  <2>4. \A t : ~Is(now, "StateSet", t) /\ ~Is(now', "StateSet", t) /\ ~Is(pendingCmd', "StateSet", t)
    BY <2>1, <2>3 DEF Is, stateVars
  <2>5. UNCHANGED <<resources, instance, eCurState, pendingCmd, at, call>>
    BY <2>1 DEF stateVars, callVars
  <2>6. Releasing' <=> Releasing
    BY <2>5 DEF Releasing
  <2>7. Instanced' <=> Instanced
    BY <2>4, <2>5 DEF Instanced
  <2>8. QED BY <2>4, <2>5, <2>6, <2>7 DEF Resourced
<1>2. CASE ReturnPort \/ Drain \/ DrainGet
  <2>1. UNCHANGED <<stateVars, callVars, now, ret>> /\ pc \in {"ports", "drain", "get"}
        /\ pc' \in {"ports", "drain", "get", "processed"}
    BY <1>2 DEF ReturnPort, Drain, DrainGet, ToProcessed
  <2>2. Busy /\ Busy' /\ InProcess
    BY <2>1 DEF Busy, InProcess
  <2>3. UNCHANGED <<resources, instance, eCurState, pendingCmd, at, call>> /\ ~Waiting'
    BY <2>1, <2>2 DEF stateVars, callVars, Waiting
  <2>4. Releasing' <=> Releasing
    BY <2>3 DEF Releasing
  <2>5. ~(eCurState = Loaded /\ Is(pendingCmd, "StateSet", Idle) /\ pc' = "processed")
    <3>0. SUFFICES ASSUME eCurState = Loaded, Is(pendingCmd, "StateSet", Idle), pc' = "processed"
                   PROVE  FALSE
      OBVIOUS
    <3>1. pc = "drain" /\ pendingCmd = now
      BY <1>2, <2>2, <3>0 DEF ReturnPort, Drain, DrainGet, Inv, Protocol, Accepting
    <3>2. Completable(now)
      BY <3>0, <3>1 DEF Completable
    <3>3. ret = "NotComplete" /\ now.cmd # "PortDisable"
      BY <3>0, <3>1, <3>2 DEF Inv, Protocol, Processing, Is
    <3>4. now.cmd = "PortDisable" \/ ret = "None"
      BY <3>1 DEF Inv, Protocol, Processing
    <3>5. QED BY <3>3, <3>4
  <2>6. QED BY <2>1, <2>2, <2>3, <2>4, <2>5, KeepsResources DEF Resourced
<1>3. CASE Processed
  <2>1. UNCHANGED <<resources, instance, eCurState, pendingCmd, pCmdQueue, at, call, now, ret>>
        /\ pc = "processed" /\ pc' \in {"buf", "clear"} /\ (pc' = "buf" <=> ret = "NotComplete")
    BY <1>3 DEF Processed, callVars
  <2>2. Busy /\ InProcess /\ pendingCmd = now
    BY <2>1 DEF Busy, InProcess, Inv, Protocol, Accepting
  <2>3. (Busy' <=> pc' = "clear") /\ (Waiting' => pc' = "buf")
    BY <2>1 DEF Busy, InProcess, Waiting
  <2>4. Releasing' <=> Releasing
    BY <2>1 DEF Releasing
  <2>5. CASE pc' = "clear"
    BY <2>1, <2>2, <2>3, <2>4, <2>5, KeepsResources DEF Resourced
  <2>6. CASE pc' = "buf"
    <3>1. Completable(now) /\ ret = "NotComplete"
      BY <2>1, <2>6 DEF Inv, Protocol, Processing
    <3>2. ~(Is(now, "StateSet", Idle) /\ eCurState \in {Executing, Pause})
      BY <3>1 DEF Completable, Is, Loaded, Idle, Executing, Pause
    <3>3. Instanced' <=> Instanced
      BY <2>1, <2>3, <2>6, <3>1, <3>2 DEF Instanced
    <3>4. QED BY <2>1, <2>3, <2>4, <2>6, <3>3 DEF Resourced
  <2>7. QED BY <2>1, <2>5, <2>6
<1>4. CASE ClearPending
  <2>1. UNCHANGED <<resources, instance, eCurState, at, call, now, ret>> /\ pendingCmd' = None
        /\ pc = "clear" /\ pc' = "event"
    BY <1>4 DEF ClearPending, callVars
  <2>2. Busy /\ Busy' /\ InProcess
    BY <2>1 DEF Busy, InProcess
  <2>3. ~Is(pendingCmd', "StateSet", Idle)
    BY <2>1 DEF Is, None
  <2>4. ~Releasing
    <3>1. ~Waiting /\ ~NoCommand
      BY <2>2 DEF Waiting, NoCommand, Busy
    <3>2. QED BY <3>1 DEF Releasing, Inv, Protocol, Calling
  <2>5. QED BY <2>1, <2>2, <2>3, <2>4, KeepsResources DEF Resourced
<1>5. CASE Event
  <2>1. /\ UNCHANGED <<resources, instance, pendingCmd, at, call, now, ret>>
        /\ pc = "event" /\ pc' = "buf"
    <3>1. pc = "event" /\ replies = 1
      BY <1>5 DEF Event, Inv, Protocol, Processing
    <3>2. UNCHANGED <<resources, pendingCmd>>
      BY <1>5, EventGivesUpNothing DEF Inv
    <3>3. QED BY <1>5, <3>1, <3>2 DEF Event, callVars
  <2>2. Busy /\ ~Busy' /\ pendingCmd = None
    BY <2>1 DEF Busy, InProcess, Inv, Protocol, Accepting
  <2>3. ~Is(pendingCmd', "StateSet", Idle) /\ ~Releasing
    <3>1. ~Waiting /\ ~NoCommand
      BY <2>2 DEF Waiting, NoCommand
    <3>2. QED BY <2>1, <2>2, <3>1 DEF Is, None, Releasing, Inv, Protocol, Calling
  <2>4. \A k \in Controllers : at'[k] # "conclude"
    <3>1. ~NoCommand
      BY <2>2 DEF NoCommand
    <3>2. QED BY <2>1, <3>1 DEF Inv, Protocol, Calling
  <2>5. CASE ret = "None" /\ now.cmd = "StateSet"
    <3>1. Moves(eCurState, now.nParam) /\ eCurState' = now.nParam
      BY <1>5, <2>2, <2>5 DEF Event, Inv, Protocol, Processing
    <3>2. CASE eCurState' = Invalid
      BY <2>1, <2>2, <2>3, <2>4, <3>2
         DEF Resourced, Loaded, Idle, Executing, Pause, Invalid
    <3>3. CASE eCurState = Idle /\ eCurState' \in {Executing, Pause}
      <4>1. Is(now, "StateSet", eCurState')
        BY <2>5, <3>1 DEF Is
      <4>2. Instanced
        BY <2>2, <2>5, <3>3, <4>1 DEF Instanced
      <4>3. Instanced'
        BY <2>2, <3>3 DEF Instanced
      <4>4. resources /\ instance
        BY <2>3, <3>3, <4>2 DEF Resourced, Idle, Invalid
      <4>5. QED BY <2>1, <2>2, <2>4, <4>3, <4>4, <2>3 DEF Resourced
    <3>4. CASE eCurState \in {Executing, Pause} /\ eCurState' \in {Idle, Executing, Pause}
      <4>1. Is(now, "StateSet", Idle) <=> eCurState' = Idle
        BY <2>5, <3>1 DEF Is
      <4>2. Instanced <=> eCurState' # Idle
        BY <2>2, <3>4, <4>1 DEF Instanced, Idle, Executing, Pause
      <4>3. Instanced' <=> eCurState' # Idle
        BY <2>2, <3>4 DEF Instanced, Idle, Executing, Pause
      <4>4. resources /\ (instance <=> Instanced)
        BY <2>3, <3>4 DEF Resourced, Executing, Pause, Invalid
      <4>5. QED BY <2>1, <2>2, <2>4, <4>2, <4>3, <4>4, <2>3 DEF Resourced
    <3>5. QED BY <3>1, <3>2, <3>3, <3>4 DEF Moves
  <2>6. CASE ~(ret = "None" /\ now.cmd = "StateSet")
    <3>1. eCurState' = eCurState
      BY <1>5, <2>6 DEF Event
    <3>2. ~(Is(now, "StateSet", Idle) /\ eCurState \in {Executing, Pause})
      BY <2>2, <2>6 DEF Resourced, Is
    <3>3. Instanced' <=> Instanced
      BY <2>2, <2>6, <3>1, <3>2 DEF Instanced, Is
    <3>4. QED BY <2>1, <2>2, <2>3, <2>4, <3>1, <3>3 DEF Resourced
  <2>7. QED BY <2>5, <2>6
<1>6. QED BY <1>1, <1>2, <1>3, <1>4, <1>5

LEMMA ResourcedInit == Init => Resourced
<1> SUFFICES ASSUME Init PROVE Resourced
  OBVIOUS
<1>1. eCurState = Loaded /\ pendingCmd = None /\ instance = FALSE /\ pc = "cmd"
  BY DEF Init
<1>2. ~Busy /\ ~Waiting /\ \A k \in Controllers : at[k] = "idle"
  BY <1>1 DEF Init, Busy, InProcess, Waiting
<1>3. QED BY <1>1, <1>2 DEF Resourced, Instanced, Loaded, Idle, Executing, Pause

LEMMA ResourcedNext ==
    Disciplined /\ TypeOK /\ Inv /\ Resourced /\ [Next]_vars => Resourced'
<1> SUFFICES ASSUME Disciplined, TypeOK, Inv, Resourced, [Next]_vars PROVE Resourced'
  OBVIOUS
<1>1. ASSUME NEW k \in Controllers, Control(k) PROVE Resourced'
  <2>1. \/ QuietCall(k)
        \/ Pend(k) \/ ClearProcessed(k) \/ PostCommand(k)
        \/ ResetPending(k) \/ AllocateFails(k) \/ NotifyOff(k)
        \/ Reply(k) \/ Conclude(k)
    BY <1>1 DEF Control, Proceed, BufferCall, QuietCall
  <2>2. QED BY <2>1, QuietResourced, CallResourced, ReplyResourced
<1>2. CASE DoThread
  BY <1>2, QuietResourced, TakeResourced, StepResourced DEF DoThread, ProcessCmd
<1>3. CASE (\E f \in Feeders : Feed(f)) \/ UNCHANGED vars
  BY <1>3, QuietResourced
<1>4. QED BY <1>1, <1>2, <1>3 DEF Next

\* DoLoaded2Idle, DoIdle2Loaded, InstanceInit and InstanceDeInit are called in the
\* order of the states, on whichever thread completes the transition.
THEOREM ResourcesAlwaysMatch ==
    ASSUME Disciplined
    PROVE  Spec => []ResourcesMatchState
<1>1. TypeOK /\ Inv /\ Resourced => ResourcesMatchState
  <2> SUFFICES ASSUME TypeOK, Inv, Resourced PROVE ResourcesMatchState
    OBVIOUS
  <2>1. /\ pendingCmd \in Commands \cup {None} /\ now \in Commands \cup {None}
        /\ \A k \in Controllers : call[k].cmd \in Commands \cup {None}
    BY DEF TypeOK, StateTypeOK, ThreadTypeOK, CallTypeOK
  <2>2. Releasing => Running(Loaded)
    BY <2>1, Forms DEF Releasing, Running
  <2>3. \A s : Busy /\ Is(now, "StateSet", s) => Running(s)
    BY <2>1, Forms DEF Busy, Running
  <2>4. QED
    BY <2>2, <2>3
       DEF Resourced, Instanced, ResourcesMatchState, Loaded, Idle, Executing, Pause, Invalid
<1>2. QED BY <1>1, InvInit, InvNext, ResourcedInit, ResourcedNext, TypeCorrect, PTL DEF Spec

-----------------------------------------------------------------------------
(* Where the headers are                                                    *)

\* Disabling a port does not race with a feeder that has passed IsEnabled.
Raceless == Feeders = {} \/ \A c \in Commands : c.cmd # "PortDisable"

Distinct(s) == \A i, j \in 1..Len(s) : s[i] = s[j] => i = j

\* A header is with the client, or queued once, or with the component.
Apart(p) ==
    /\ owned \cap Queued(p) = {}
    /\ owned \cap held[p] = {}
    /\ Queued(p) \cap held[p] = {}
    /\ Distinct(pPortQueue[p])

\* The thread has still to return what the component holds of a port.
Returning(p) == \E i \in 1..Len(todo) : todo[i] = p /\ (i > 1 \/ pc = "ports")

Holding ==
    /\ eCurState \in {Loaded, Idle} => \A p \in Ports : held[p] = {}
    /\ Busy /\ Is(now, "StateSet", Idle) /\ eCurState \in {Executing, Pause} =>
          \A p \in Ports : held[p] = {} \/ Returning(p)
    /\ pc \in {"processed", "clear", "event"} => todo = <<>>
    /\ pc = "take" => eCurState = Executing
    /\ Feeders = {} => \A p \in Ports : pPortQueue[p] = <<>> /\ held[p] = {}

\* FreeBuffer has seen the queue empty.
Matched(k) == at[k] = "match" => call[k].header \notin Queued(call[k].port)

Flow ==
    /\ \A p \in Ports : Apart(p) /\ Live(p) \subseteq Registered(p)
    /\ Holding
    /\ \A k \in Controllers : Matched(k)

LEMMA DistinctTail ==
    ASSUME NEW s \in Seq(Headers), s # <<>>, Distinct(s)
    PROVE  Distinct(Tail(s)) /\ Head(s) \notin InSeq(Tail(s))
<1>1. /\ Head(s) = s[1] /\ Len(s) \in Nat /\ Len(s) > 0 /\ Len(Tail(s)) = Len(s) - 1
      /\ \A i \in 1..Len(Tail(s)) : Tail(s)[i] = s[i + 1]
  OBVIOUS
<1>2. Distinct(Tail(s))
  <2>1. SUFFICES ASSUME NEW i \in 1..Len(Tail(s)), NEW j \in 1..Len(Tail(s)), Tail(s)[i] = Tail(s)[j]
                 PROVE  i = j
    BY DEF Distinct
  <2>2. /\ i + 1 \in 1..Len(s) /\ j + 1 \in 1..Len(s) /\ s[i + 1] = s[j + 1]
        /\ i \in Int /\ j \in Int
    BY <1>1, <2>1
  <2>3. i + 1 = j + 1
    BY <2>2 DEF Distinct
  <2>4. QED BY <2>2, <2>3
<1>3. ASSUME NEW i \in 1..Len(Tail(s)), Tail(s)[i] = Head(s) PROVE FALSE
  <2>1. i + 1 \in 1..Len(s) /\ 1 \in 1..Len(s) /\ s[i + 1] = s[1] /\ i > 0 /\ i \in Int
    BY <1>1, <1>3
  <2>2. i + 1 = 1
    BY <2>1 DEF Distinct
  <2>3. QED BY <2>1, <2>2
<1>4. QED BY <1>2, <1>3 DEF InSeq

LEMMA DistinctAppend ==
    ASSUME NEW s \in Seq(Headers), NEW h \in Headers, Distinct(s), h \notin InSeq(s)
    PROVE  Distinct(Append(s, h))
<1>1. /\ Len(Append(s, h)) = Len(s) + 1 /\ Len(s) \in Nat
      /\ \A i \in 1..Len(s) : Append(s, h)[i] = s[i] /\ Append(s, h)[i] # h
      /\ Append(s, h)[Len(s) + 1] = h
      /\ 1..(Len(s) + 1) = 1..Len(s) \cup {Len(s) + 1}
  BY DEF InSeq
<1>2. QED BY <1>1 DEF Distinct

\* The steps of MovedHeaders keep each header in one place.
LEMMA MovedApart ==
    ASSUME TypeOK, Tables, NEW q \in Ports, \A p \in Ports : Apart(p),
           \/ GetAndSendBuffer(q) \/ GetAndHoldBuffer(q) \/ ReturnHeld(q)
           \/ \E h \in Headers : PortOf(h) = q /\ SendHeld(h)
    PROVE  \A p \in Ports : Apart(p)' /\ Queued(p)' \subseteq Queued(p)
<1>1. /\ held \in [Ports -> SUBSET Headers] /\ owned \subseteq Headers
      /\ pPortQueue \in [Ports -> Seq(Headers)]
      /\ \A p \in Ports : Sorted(p) /\ Apart(p)
  BY DEF TypeOK, PortTypeOK, Tables
<1>2. ASSUME pPortQueue[q] # <<>>, pPortQueue' = [pPortQueue EXCEPT ![q] = Tail(@)]
      PROVE  /\ Queued(q) = Queued(q)' \cup {Head(pPortQueue[q])}
             /\ Head(pPortQueue[q]) \notin Queued(q)'
             /\ PortOf(Head(pPortQueue[q])) = q
             /\ \A p \in Ports : p # q => Queued(p)' = Queued(p)
             /\ \A p \in Ports : Distinct(pPortQueue'[p])
  <2>1. /\ Queued(q) = Queued(q)' \cup {Head(pPortQueue[q])}
        /\ \A p \in Ports : p # q => Queued(p)' = Queued(p)
    BY <1>2, GetMoves
  <2>2. pPortQueue'[q] = Tail(pPortQueue[q]) /\ \A p \in Ports : p # q => pPortQueue'[p] = pPortQueue[p]
    BY <1>1, <1>2
  <2>3. Distinct(pPortQueue'[q]) /\ Head(pPortQueue[q]) \notin InSeq(pPortQueue'[q])
    BY <1>1, <1>2, <2>2, DistinctTail DEF Apart
  <2>4. Queued(q)' = InSeq(pPortQueue'[q])
    BY DEF Queued, BufferNum, InSeq
  <2>5. PortOf(Head(pPortQueue[q])) = q
    BY <1>1, <2>1 DEF Sorted
  <2>6. QED BY <1>1, <2>1, <2>2, <2>3, <2>4, <2>5 DEF Apart
<1>3. CASE GetAndSendBuffer(q)
  <2>1. PICK h : h = Head(pPortQueue[q])
    OBVIOUS
  <2>2. /\ Queued(q) = Queued(q)' \cup {h} /\ h \notin Queued(q)' /\ PortOf(h) = q
        /\ \A p \in Ports : p # q => Queued(p)' = Queued(p)
        /\ \A p \in Ports : Distinct(pPortQueue'[p])
        /\ owned' = owned \cup {h} /\ held' = held
    BY <1>2, <1>3, <2>1 DEF GetAndSendBuffer
  <2>3. ASSUME NEW p \in Ports PROVE Apart(p)'
    <3>1. Sorted(p) /\ Apart(p)
      BY <1>1
    <3>2. CASE p = q
      BY <2>2, <3>1, <3>2 DEF Apart
    <3>3. CASE p # q
      BY <2>2, <3>1, <3>3 DEF Apart, Sorted
    <3>4. QED BY <3>2, <3>3
  <2>4. QED BY <2>2, <2>3
<1>4. CASE GetAndHoldBuffer(q)
  <2>1. PICK h : h = Head(pPortQueue[q])
    OBVIOUS
  <2>2. /\ Queued(q) = Queued(q)' \cup {h} /\ h \notin Queued(q)' /\ PortOf(h) = q
        /\ \A p \in Ports : p # q => Queued(p)' = Queued(p)
        /\ \A p \in Ports : Distinct(pPortQueue'[p])
        /\ owned' = owned /\ held'[q] = held[q] \cup {h}
        /\ \A p \in Ports : p # q => held'[p] = held[p]
    BY <1>1, <1>2, <1>4, <2>1 DEF GetAndHoldBuffer
  <2>3. ASSUME NEW p \in Ports PROVE Apart(p)'
    <3>1. Apart(p)
      BY <1>1
    <3>2. CASE p = q
      BY <2>2, <3>1, <3>2 DEF Apart
    <3>3. CASE p # q
      BY <2>2, <3>1, <3>3 DEF Apart
    <3>4. QED BY <3>2, <3>3
  <2>4. QED BY <2>2, <2>3
<1>5. ASSUME NEW B \in SUBSET held[q], owned' = owned \cup B, held'[q] = held[q] \ B,
             \A p \in Ports : p # q => held'[p] = held[p],
             pPortQueue' = pPortQueue
      PROVE  \A p \in Ports : Apart(p)' /\ Queued(p)' \subseteq Queued(p)
  <2>1. \A p \in Ports : Queued(p)' = Queued(p)
    BY <1>5 DEF Queued, BufferNum
  <2>2. \A h \in B : PortOf(h) = q
    BY <1>1 DEF Sorted
  <2>3. ASSUME NEW p \in Ports PROVE Apart(p)'
    <3>1. Sorted(p) /\ Apart(p) /\ Sorted(q) /\ Apart(q)
      BY <1>1
    <3>2. CASE p = q
      BY <1>5, <2>1, <3>1, <3>2 DEF Apart
    <3>3. CASE p # q
      BY <1>5, <2>1, <2>2, <3>1, <3>3 DEF Apart, Sorted
    <3>4. QED BY <3>2, <3>3
  <2>4. QED BY <2>1, <2>3
<1>6. CASE ReturnHeld(q)
  <2>1. /\ owned' = owned \cup held[q] /\ held'[q] = held[q] \ held[q] /\ pPortQueue' = pPortQueue
        /\ \A p \in Ports : p # q => held'[p] = held[p]
    BY <1>1, <1>6 DEF ReturnHeld
  <2>2. QED BY <1>5, <2>1
<1>7. ASSUME NEW h \in Headers, PortOf(h) = q, SendHeld(h)
      PROVE  \A p \in Ports : Apart(p)' /\ Queued(p)' \subseteq Queued(p)
  <2>1. /\ owned' = owned \cup {h} /\ held'[q] = held[q] \ {h} /\ pPortQueue' = pPortQueue
        /\ {h} \in SUBSET held[q]
        /\ \A p \in Ports : p # q => held'[p] = held[p]
    BY <1>1, <1>7 DEF SendHeld
  <2>2. QED BY <1>5, <2>1
<1>8. QED BY <1>3, <1>4, <1>6, <1>7

\* Nothing moves.
LEMMA SameApart ==
    ASSUME UNCHANGED flow, \A p \in Ports : Apart(p)
    PROVE  \A p \in Ports : Apart(p)' /\ Queued(p)' \subseteq Queued(p)
<1>1. UNCHANGED <<pPortQueue, held, owned>>
  BY DEF flow
<1>2. \A p : Queued(p)' = Queued(p)
  BY <1>1 DEF Queued, BufferNum
<1>3. QED BY <1>1, <1>2 DEF Apart

LEMMA AddApart ==
    ASSUME TypeOK, Tables, NEW h \in Headers, AddBuffer(h), h \in owned, \A p \in Ports : Apart(p)
    PROVE  \A p \in Ports : Apart(p)' /\ Queued(p)' \subseteq Queued(p) \cup {h}
<1>1. PICK q \in Ports : q = PortOf(h)
  BY HeaderPort
<1>2. /\ owned' = owned \ {h} /\ held' = held
      /\ Queued(q)' = Queued(q) \cup {h}
      /\ \A p \in Ports : p # q => Queued(p)' = Queued(p)
  BY <1>1, AddMoves
<1>3. pPortQueue \in [Ports -> Seq(Headers)]
  BY DEF TypeOK, PortTypeOK
<1>4. /\ pPortQueue'[q] = Append(pPortQueue[q], h)
      /\ \A p \in Ports : p # q => pPortQueue'[p] = pPortQueue[p]
  BY <1>1, <1>3 DEF AddBuffer
<1>5. h \notin InSeq(pPortQueue[q]) /\ h \notin held[q]
  BY QueuedIs DEF Apart
<1>6. Distinct(pPortQueue'[q])
  BY <1>3, <1>4, <1>5, DistinctAppend DEF Apart
<1>7. ASSUME NEW p \in Ports PROVE Apart(p)'
  <2>1. CASE p = q
    BY <1>2, <1>5, <1>6, <2>1 DEF Apart
  <2>2. CASE p # q
    BY <1>2, <1>4, <2>2 DEF Apart
  <2>3. QED BY <2>1, <2>2
<1>8. QED BY <1>2, <1>7

LEMMA RegisterApart ==
    ASSUME TypeOK, Tables, NEW p \in Ports, Packed(p), NEW h \in Headers, RegisterHeader(p, h),
           \A q \in Ports : Apart(q) /\ Live(q) \subseteq Registered(q)
    PROVE  \A q \in Ports : Apart(q)' /\ Queued(q)' \subseteq Queued(q)
                            /\ Live(q)' \subseteq Registered(q)'
<1>1. Registered(p)' = Registered(p) \cup {h}
  BY RegisterTable DEF Tables
<1>2. /\ owned' = owned \cup {h} /\ PortOf(h) = p /\ h \notin Live(p)
      /\ \A q : Queued(q)' = Queued(q)
      /\ UNCHANGED <<pPortQueue, held>>
  BY DEF RegisterHeader, Queued, BufferNum
<1>3. \A q \in Ports : q # p => BufferHdrArry'[q] = BufferHdrArry[q]
  BY DEF RegisterHeader, TypeOK, PortTypeOK
<1>4. ASSUME NEW q \in Ports PROVE Apart(q)' /\ Live(q)' \subseteq Registered(q)'
  <2>1. Sorted(q) /\ Apart(q) /\ Live(q) \subseteq Registered(q)
    BY DEF Tables
  <2>2. CASE q = p
    BY <1>1, <1>2, <2>1, <2>2 DEF Apart, Live
  <2>3. CASE q # p
    <3>1. Registered(q)' = Registered(q)
      BY <1>3, <2>3 DEF Registered
    <3>2. h \notin Queued(q) /\ h \notin held[q]
      BY <1>2, <2>1, <2>3 DEF Sorted
    <3>3. QED BY <1>2, <2>1, <2>3, <3>1, <3>2 DEF Apart, Live
  <2>4. QED BY <2>2, <2>3
<1>5. QED BY <1>2, <1>4

LEMMA UnregisterApart ==
    ASSUME TypeOK, Tables, NEW p \in Ports, NEW h, UnregisterHeader(p, h),
           h \notin Queued(p), h \notin held[p],
           \A q \in Ports : Apart(q) /\ Live(q) \subseteq Registered(q)
    PROVE  \A q \in Ports : Apart(q)' /\ Queued(q)' \subseteq Queued(q)
                            /\ Live(q)' \subseteq Registered(q)'
<1>1. Registered(p)' = Registered(p) \ {h}
  BY UnregisterTable DEF Tables
<1>2. /\ owned' = owned \ {h}
      /\ \A q : Queued(q)' = Queued(q)
      /\ UNCHANGED <<pPortQueue, held>>
  BY DEF UnregisterHeader, Queued, BufferNum
<1>3. \A q \in Ports : q # p => BufferHdrArry'[q] = BufferHdrArry[q]
  BY DEF UnregisterHeader, TypeOK, PortTypeOK
<1>4. ASSUME NEW q \in Ports PROVE Apart(q)' /\ Live(q)' \subseteq Registered(q)'
  <2>1. Apart(q) /\ Live(q) \subseteq Registered(q)
    OBVIOUS
  <2>2. CASE q = p
    BY <1>1, <1>2, <2>1, <2>2 DEF Apart, Live
  <2>3. CASE q # p
    <3>1. Registered(q)' = Registered(q)
      BY <1>3, <2>3 DEF Registered
    <3>2. QED BY <1>2, <2>1, <3>1 DEF Apart, Live
  <2>4. QED BY <2>2, <2>3
<1>5. QED BY <1>2, <1>4

\* A step that adds nothing to what the component holds.
LEMMA StillHolding ==
    ASSUME Holding, UNCHANGED <<eCurState, pc, todo, now>>,
           \A p \in Ports : held'[p] \subseteq held[p],
           Feeders = {} => \A p \in Ports : pPortQueue'[p] = pPortQueue[p]
    PROVE  Holding'
<1>1. (Busy' <=> Busy) /\ \A p : Returning(p)' <=> Returning(p)
  BY DEF Busy, InProcess, Returning
<1>2. QED BY <1>1 DEF Holding

\* FreeBuffer finds nothing that the component holds of the port.
LEMMA NotHeld ==
    ASSUME Raceless, TypeOK, Inv, Flow, NEW k \in Controllers,
           at[k] \in Acting, call[k].op = "free"
    PROVE  held[call[k].port] = {}
<1>1. call[k].port \in Ports /\ pendingCmd \in Commands \cup {None}
  BY DEF TypeOK, CallTypeOK, StateTypeOK
<1>2. Frees(call[k].port) \/ eCurState = Loaded
  BY DEF Inv, Protocol, Calling
<1>3. Is(pendingCmd, "PortDisable", call[k].port) => Feeders = {}
  BY <1>1, Forms DEF Raceless, Is
<1>4. QED BY <1>1, <1>2, <1>3 DEF Frees, Flow, Holding

\* The client's calls.
LEMMA CallFlow ==
    ASSUME Disciplined, Raceless, TypeOK, Inv, Flow, NEW k \in Controllers, Control(k)
    PROVE  Flow'
<1>1. /\ \A j \in Controllers : j = k
      /\ \A p \in Ports : Apart(p) /\ Live(p) \subseteq Registered(p)
      /\ Holding /\ Matched(k) /\ Tables
  BY DEF Disciplined, Flow, Inv
<1>2. PICK p \in Ports : p = call[k].port
  BY DEF TypeOK, CallTypeOK
<1>3. at \in [Controllers -> Places]
  BY DEF TypeOK, CallTypeOK
<1>4. ASSUME UNCHANGED <<flow, table, pc, todo, now, eCurState>>, at'[k] # "match"
      PROVE  Flow'
  <2>1. \A q \in Ports : Apart(q)'
    BY <1>1, <1>4, SameApart
  <2>2. \A q \in Ports : Live(q)' \subseteq Registered(q)'
    BY <1>1, <1>4, SameHeaders DEF Registered, table
  <2>3. Holding'
    BY <1>1, <1>4, StillHolding DEF flow
  <2>4. QED BY <1>1, <1>4, <2>1, <2>2, <2>3 DEF Flow, Matched
<1>5. ASSUME UNCHANGED <<portVars, threadVars, eCurState>>, at'[k] # "match" PROVE Flow'
  BY <1>4, <1>5 DEF portVars, threadVars
<1>6. CASE \/ \E c \in Commands : SendCommand(k, c)
           \/ \E q \in Ports : Allocate(k, q) \/ UseEarly(k, q)
           \/ \E h \in Headers : Free(k, h)
           \/ PollOver(k) \/ WaitOver(k) \/ WaitTimeout(k) \/ AllocateRefused(k) \/ NotifyOn(k)
  <2>1. UNCHANGED <<portVars, threadVars, stateVars>>
    BY <1>6 DEF SendCommand, Allocate, UseEarly, Free, PollOver, WaitOver, WaitTimeout,
                AllocateRefused, NotifyOn
  <2>2. at'[k] # "match"
    <3>1. CASE \/ \E c \in Commands : SendCommand(k, c)
               \/ \E q \in Ports : Allocate(k, q) \/ UseEarly(k, q)
               \/ \E h \in Headers : Free(k, h)
      BY <1>3, <3>1 DEF SendCommand, Allocate, UseEarly, Free, Enter
    <3>2. CASE PollOver(k) \/ WaitOver(k) \/ WaitTimeout(k) \/ AllocateRefused(k) \/ NotifyOn(k)
      BY <1>3, <3>2 DEF PollOver, WaitOver, WaitTimeout, AllocateRefused, NotifyOn, Leave, ReplyIf
    <3>3. QED BY <1>6, <3>1, <3>2
  <2>3. QED BY <1>5, <2>1, <2>2 DEF stateVars
<1>7. CASE \/ Pend(k) \/ ClearProcessed(k) \/ PostCommand(k)
           \/ ResetPending(k) \/ AllocateFails(k) \/ NotifyOff(k) \/ Reply(k)
  <2>1. UNCHANGED <<portVars, threadVars, eCurState>>
    BY <1>7 DEF Pend, ClearProcessed, PostCommand, ResetPending, AllocateFails, NotifyOff, Reply
  <2>2. at'[k] # "match"
    BY <1>1, <1>3, <1>7 DEF Pend, ClearProcessed, PostCommand, ResetPending, AllocateFails,
                            NotifyOff, Reply, Leave, ReplyIf, callVars
  <2>3. QED BY <1>5, <2>1, <2>2
<1>8. CASE Conclude(k)
  <2>1. UNCHANGED <<flow, table, pc, todo, now>> /\ at'[k] = "idle"
    BY <1>3, <1>8 DEF Conclude, Leave, portVars, threadVars
  <2>2. NoCommand /\ Completable(call[k].cmd)
    BY <1>8 DEF Conclude, Inv, Protocol, Calling
  <2>3. eCurState' = eCurState \/ {eCurState, eCurState'} = {Loaded, Idle}
    BY <1>8, <2>2 DEF Conclude, Completable, Is
  <2>4. CASE eCurState' = eCurState
    BY <1>4, <2>1, <2>4
  <2>5. CASE {eCurState, eCurState'} = {Loaded, Idle}
    <3>1. \A q \in Ports : Apart(q)' /\ Live(q)' \subseteq Registered(q)'
      BY <1>1, <2>1, SameApart, SameHeaders DEF Registered, table
    <3>2. ~Busy' /\ pc \notin {"processed", "clear", "event"} /\ UNCHANGED <<held, pPortQueue>>
      BY <2>1, <2>2 DEF NoCommand, Busy, InProcess, flow
    <3>3. pc # "take"
      BY <1>1, <2>5 DEF Holding, Loaded, Idle, Executing
    <3>4. Holding'
      BY <1>1, <2>1, <2>5, <3>2, <3>3 DEF Holding
    <3>5. QED BY <1>1, <2>1, <3>1, <3>4 DEF Flow, Matched
  <2>6. QED BY <2>3, <2>4, <2>5
<1>9. CASE AllocateAct(k)
  <2>1. at[k] = "act" /\ call[k].op = "allocate" /\ at'[k] # "match"
    BY <1>3, <1>9 DEF AllocateAct, Leave
  <2>2. PICK h \in Headers : RegisterHeader(p, h)
    BY <1>2, <1>9 DEF AllocateAct
  <2>3. Packed(p)
    <3>1. Waiting /\ Brings(p)
      BY <1>2, <2>1 DEF Inv, Protocol, Calling, Acting
    <3>2. ~Freeing(p)
      BY <1>1, <2>1, <3>1 DEF Freeing, Unloading, Waiting, Brings, Is, Idle, Loaded
    <3>3. QED BY <1>1, <3>2 DEF Tables, Table
  <2>4. \A q \in Ports : Apart(q)' /\ Live(q)' \subseteq Registered(q)'
    BY <1>1, <2>2, <2>3, RegisterApart
  <2>5. UNCHANGED <<eCurState, pc, todo, now, held, pPortQueue>>
    BY <1>9, <2>2 DEF AllocateAct, RegisterHeader, stateVars, threadVars
  <2>6. Holding'
    BY <1>1, <2>5, StillHolding
  <2>7. QED BY <1>1, <2>1, <2>4, <2>6 DEF Flow, Matched
<1>10. CASE FreeAct(k) \/ FreeDrain(k) \/ FreeGet(k)
  <2>1. /\ call[k].op = "free" /\ at[k] \in Acting /\ UNCHANGED <<table, eCurState, pc, todo, now, call>>
    BY <1>10 DEF FreeAct, FreeDrain, FreeGet, GetAndSendBuffer, Inv, Protocol, Calling, Acting,
                 stateVars, threadVars, portVars
  <2>2. UNCHANGED flow \/ GetAndSendBuffer(p) \/ ReturnHeld(p)
    BY <1>2, <1>10 DEF FreeAct, FreeDrain, FreeGet, portVars
  <2>3. \A q \in Ports : Apart(q)' /\ Queued(q)' \subseteq Queued(q) /\ Live(q)' = Live(q)
    BY <1>1, <2>2, SameApart, MovedApart, SameHeaders, MovedHeaders
  <2>4. \A q \in Ports : Live(q)' \subseteq Registered(q)'
    BY <1>1, <2>1, <2>3 DEF Registered, table
  <2>5. Holding'
    <3>1. \A q \in Ports : held'[q] \subseteq held[q]
      BY <2>2 DEF flow, GetAndSendBuffer, ReturnHeld, TypeOK, PortTypeOK
    <3>2. Feeders = {} => pPortQueue' = pPortQueue
      BY <1>1, <2>2 DEF flow, GetAndSendBuffer, ReturnHeld, Holding
    <3>3. QED BY <1>1, <2>1, <3>1, <3>2, StillHolding
  <2>6. Matched(k)'
    <3>1. SUFFICES ASSUME at'[k] = "match" PROVE Queued(p) = {}
      BY <1>2, <2>1, <2>3 DEF Matched
    <3>2. BufferNum(p) = 0
      <4>1. BufferNum(p) \in Nat
        BY DEF BufferNum, TypeOK, PortTypeOK
      <4>2. QED BY <1>2, <1>3, <1>10, <3>1, <4>1
                DEF FreeAct, FreeDrain, FreeGet, IsAllBuffersReturned
    <3>3. QED BY <3>2 DEF Queued
  <2>7. QED BY <1>1, <2>3, <2>4, <2>5, <2>6 DEF Flow
<1>11. CASE FreeMatch(k)
  <2>1. at[k] = "match" /\ call[k].op = "free" /\ at'[k] # "match"
    BY <1>3, <1>11 DEF FreeMatch, Leave, Inv, Protocol, Calling
  <2>2. held[p] = {} /\ call[k].header \notin Queued(p)
    BY <1>1, <1>2, <2>1, NotHeld DEF Acting, Matched
  <2>3. CASE UnregisterHeader(p, call[k].header)
    <3>1. \A q \in Ports : Apart(q)' /\ Live(q)' \subseteq Registered(q)'
      BY <1>1, <2>2, <2>3, UnregisterApart
    <3>2. UNCHANGED <<eCurState, pc, todo, now, held, pPortQueue>>
      BY <1>11, <2>3 DEF FreeMatch, UnregisterHeader, stateVars, threadVars
    <3>3. Holding'
      BY <1>1, <3>2, StillHolding
    <3>4. QED BY <1>1, <2>1, <3>1, <3>3 DEF Flow, Matched
  <2>4. CASE UNCHANGED portVars
    <3>1. UNCHANGED <<threadVars, eCurState>>
      BY <1>11 DEF FreeMatch, stateVars
    <3>2. QED BY <1>5, <2>1, <2>4, <3>1
  <2>5. QED BY <1>2, <1>11, <2>3, <2>4 DEF FreeMatch
<1>12. QED BY <1>6, <1>7, <1>8, <1>9, <1>10, <1>11 DEF Control, Proceed, BufferCall

\* The feeders' calls.
LEMMA FeedFlow ==
    ASSUME TypeOK, Inv, Flow, NEW f \in Feeders, Feed(f)
    PROVE  Flow'
<1>1. Tables /\ Holding /\ \A p \in Ports : Apart(p) /\ Live(p) \subseteq Registered(p)
  BY DEF Inv, Flow
<1>2. UNCHANGED <<callVars, table, pc, todo, now, eCurState, held>>
  BY DEF Feed, PassBuffer, QueueBuffer, AddBuffer, portVars, flow, stateVars, threadVars
<1>3. CASE UNCHANGED portVars
  <2>1. \A p \in Ports : Apart(p)' /\ Queued(p)' \subseteq Queued(p) /\ Live(p)' \subseteq Registered(p)'
    BY <1>1, <1>2, <1>3, SameApart, SameHeaders DEF portVars, Registered, table
  <2>2. Holding'
    BY <1>1, <1>2, <1>3, StillHolding DEF portVars, flow
  <2>3. \A k \in Controllers : call[k].port \in Ports
    BY DEF TypeOK, CallTypeOK
  <2>4. QED BY <1>2, <2>1, <2>2, <2>3 DEF Flow, Matched, callVars
<1>4. CASE QueueBuffer(f)
  <2>1. PICK h \in Headers : h = passing[f] /\ h # NULL
    BY <1>4 DEF QueueBuffer, TypeOK, CallTypeOK
  <2>2. AddBuffer(h) /\ h \in owned /\ \A k \in Controllers : call[k].header # h
    BY <1>1, <1>4, <2>1 DEF QueueBuffer, Tables, Passes
  <2>3. \A p \in Ports : Apart(p)' /\ Queued(p)' \subseteq Queued(p) \cup {h}
    BY <1>1, <2>2, AddApart
  <2>4. \A p \in Ports : Live(p)' \subseteq Registered(p)'
    BY <1>1, <1>2, <2>2, AddMoves DEF Registered, table
  <2>5. Holding'
    BY <1>1, <1>2, StillHolding
  <2>6. \A k \in Controllers : call[k].port \in Ports
    BY DEF TypeOK, CallTypeOK
  <2>7. QED BY <1>2, <2>2, <2>3, <2>4, <2>5, <2>6 DEF Flow, Matched, callVars
<1>5. QED BY <1>3, <1>4 DEF Feed, PassBuffer

\* The thread leaves the headers alone, or moves some of a port.
LEMMA ThreadFlow ==
    ASSUME TypeOK, Inv, Flow, Holding', UNCHANGED <<callVars, table>>,
           \/ UNCHANGED flow
           \/ \E q \in Ports :
                 \/ GetAndSendBuffer(q) \/ GetAndHoldBuffer(q) \/ ReturnHeld(q)
                 \/ \E h \in Headers : PortOf(h) = q /\ SendHeld(h)
    PROVE  Flow'
<1>1. Tables /\ \A p \in Ports : Apart(p) /\ Live(p) \subseteq Registered(p)
  BY DEF Inv, Flow
<1>2. \A p \in Ports : Apart(p)' /\ Queued(p)' \subseteq Queued(p) /\ Live(p)' = Live(p)
  BY <1>1, SameApart, SameHeaders, MovedApart, MovedHeaders
<1>3. \A k \in Controllers : call[k].port \in Ports
  BY DEF TypeOK, CallTypeOK
<1>4. QED BY <1>1, <1>2, <1>3 DEF Flow, Matched, callVars, Registered, table

LEMMA ProcessBufferFlow ==
    ASSUME TypeOK, Inv, Flow, ProcessBuffer
    PROVE  Flow'
<1>1. /\ UNCHANGED <<callVars, table, eCurState>>
      /\ ~Busy' /\ Holding
      /\ held \in [Ports -> SUBSET Headers]
  BY QuietThread DEF ProcessBuffer, TakeBuffer, TakeGet, SendDone, NoBuffer, GetAndHoldBuffer,
         SendHeld, portVars, stateVars, Flow, TypeOK, PortTypeOK
<1>2. CASE \E p \in Ports : TakeBuffer(p)
  <2>1. pc' = "take" /\ eCurState = Executing /\ UNCHANGED flow
    BY <1>2 DEF TakeBuffer, portVars
  <2>2. Holding'
    BY <1>1, <2>1 DEF Holding, flow, Loaded, Idle, Executing
  <2>3. QED BY <1>1, <2>1, <2>2, ThreadFlow
<1>3. CASE TakeGet
  <2>1. PICK q \in Ports : GetAndHoldBuffer(q)
    BY <1>3, NextPortType DEF TakeGet, TypeOK, ThreadTypeOK
  <2>2. pc = "take" /\ pc' = "cmd" /\ eCurState = Executing /\ Feeders # {}
    BY <1>1, <1>3, <2>1 DEF TakeGet, Holding, GetAndHoldBuffer
  <2>3. Holding'
    BY <1>1, <2>2 DEF Holding, Loaded, Idle, Executing
  <2>4. QED BY <1>1, <2>1, <2>3, ThreadFlow
<1>4. ASSUME NEW h \in Headers, SendDone(h) PROVE Flow'
  <2>1. SendHeld(h) /\ PortOf(h) \in Ports /\ pc' = "cmd" /\ eCurState = Executing
    BY <1>4, HeaderPort DEF SendDone
  <2>2. Feeders # {}
    BY <1>1, <2>1 DEF Holding, SendHeld
  <2>3. Holding'
    BY <1>1, <2>1, <2>2 DEF Holding, Loaded, Idle, Executing
  <2>4. QED BY <1>1, <2>1, <2>3, ThreadFlow
<1>5. CASE NoBuffer
  <2>1. pc' = "cmd" /\ UNCHANGED flow
    BY <1>5 DEF NoBuffer, portVars
  <2>2. Holding'
    BY <1>1, <2>1 DEF Holding, flow
  <2>3. QED BY <1>1, <2>1, <2>2, ThreadFlow
<1>6. QED BY <1>2, <1>3, <1>4, <1>5 DEF ProcessBuffer

\* Only Executing and Pause have buffers to return on the way to Idle.
LEMMA CommandsFlow ==
    ASSUME TypeOK, Inv, Flow,
           \/ LoadedToIdle \/ IdleToLoaded \/ IdleToRunning \/ RunningToIdle
           \/ OtherStateSet \/ PortCommand
    PROVE  Flow'
<1>1. PICK c, result, ports : Take(c, result, ports)
  BY DEF LoadedToIdle, IdleToLoaded, IdleToRunning, RunningToIdle, OtherStateSet, PortCommand
<1>2. /\ UNCHANGED <<portVars, callVars, eCurState>> /\ now' = c
      /\ pc' = IF ports = <<>> THEN "processed" ELSE "ports"
      /\ todo' = ports /\ Holding
      /\ c = pendingCmd
  BY <1>1 DEF Take, Flow, Inv, Protocol, Accepting
<1>3. UNCHANGED <<flow, table, held, pPortQueue>>
  BY <1>2 DEF portVars, flow
<1>4. ASSUME Is(now', "StateSet", Idle), eCurState \in {Executing, Pause}
      PROVE  \A p \in Ports : Returning(p)'
  <2>1. ~PortCommand
    BY <1>4 DEF PortCommand, Take, Is, PortCommands
  <2>2. ~LoadedToIdle /\ ~IdleToLoaded /\ ~IdleToRunning
    BY <1>4 DEF LoadedToIdle, IdleToLoaded, IdleToRunning, Loaded, Idle, Executing, Pause
  <2>3. ~OtherStateSet
    <3>1. SUFFICES ASSUME OtherStateSet PROVE FALSE
      OBVIOUS
    <3>2. PICK s \in States : now' = StateSet(s) /\ (Accepted(s) \/ Refused(s))
      BY <3>1 DEF OtherStateSet, Take
    <3>3. s = Idle
      BY <1>4, <3>2 DEF Is, StateSet
    <3>4. QED
      BY <1>4, <3>2, <3>3 DEF Accepted, Refused, Loaded, Idle, Executing, Pause, Invalid,
                              WaitForResources
  <2>4. RunningToIdle
    BY <2>1, <2>2, <2>3
  <2>5. Take(StateSet(Idle), "None", AllPorts)
    BY <2>4 DEF RunningToIdle
  <2>6. /\ nPorts \in Nat \ {0} /\ Len(AllPorts) = nPorts /\ AllPorts # <<>>
        /\ \A i \in 1..nPorts : AllPorts[i] = i - 1
    BY PortAssumption DEF AllPorts
  <2>7. todo' = AllPorts /\ pc' = "ports"
    BY <2>5, <2>6 DEF Take
  <2>8. SUFFICES ASSUME NEW p \in Ports PROVE Returning(p)'
    OBVIOUS
  <2>9. p + 1 \in 1..Len(AllPorts) /\ AllPorts[p + 1] = p
    BY <2>6 DEF Ports
  <2>10. QED BY <2>7, <2>9 DEF Returning
<1>5. Holding'
  BY <1>2, <1>3, <1>4 DEF Holding
<1>6. QED BY <1>2, <1>3, <1>5, ThreadFlow

\* The rest of ProcessCmd.
LEMMA StepsFlow ==
    ASSUME TypeOK, Inv, Flow,
           \/ EnablePort \/ DisablePort \/ ReturnPort \/ Drain \/ DrainGet
           \/ Processed \/ ClearPending \/ Event
    PROVE  Flow'
<1>1. /\ Holding /\ todo \in Seq(Ports) /\ held \in [Ports -> SUBSET Headers]
      /\ pc \in {"ports", "drain", "get"} => todo # <<>>
      /\ Head(todo) \in Ports \/ todo = <<>>
  BY NextPortType DEF Flow, TypeOK, ThreadTypeOK, PortTypeOK
<1>2. UNCHANGED <<callVars, table, now>>
  BY DEF EnablePort, DisablePort, ReturnPort, Drain, DrainGet, Processed, ClearPending, Event,
         GetAndSendBuffer, portVars
<1>3. /\ Len(todo) \in Nat
      /\ todo # <<>> => /\ Len(Tail(todo)) = Len(todo) - 1
                        /\ \A i \in 1..Len(Tail(todo)) : Tail(todo)[i] = todo[i + 1]
                        /\ Head(todo) = todo[1]
                        /\ Len(todo) = 1 => Tail(todo) = <<>>
  <2>1. /\ Len(todo) \in Nat
        /\ todo # <<>> => /\ Len(Tail(todo)) = Len(todo) - 1
                          /\ \A i \in 1..Len(Tail(todo)) : Tail(todo)[i] = todo[i + 1]
                          /\ Head(todo) = todo[1]
    BY <1>1
  <2>2. todo # <<>> /\ Len(todo) = 1 => Tail(todo) \in Seq(Ports) /\ Len(Tail(todo)) = 0
    BY <1>1, <2>1
  <2>3. \A s \in Seq(Ports) : Len(s) = 0 => s = <<>>
    OBVIOUS
  <2>4. QED BY <2>1, <2>2, <2>3
<1>4. CASE EnablePort \/ DisablePort
  <2>1. /\ pc = "ports" /\ now.cmd \in {"PortEnable", "PortDisable"} /\ UNCHANGED eCurState
        /\ UNCHANGED flow \/ ReturnHeld(Head(todo))
        /\ \/ pc' = "drain"
           \/ todo' = Tail(todo) /\ pc' = IF Len(todo) = 1 THEN "processed" ELSE "ports"
    BY <1>4 DEF EnablePort, DisablePort, ToProcessed, stateVars
  <2>2. pc' \in {"ports", "drain", "processed"} /\ (pc' = "processed" => todo' = <<>>)
    BY <1>1, <1>3, <2>1
  <2>3. ~Is(now', "StateSet", Idle)
    BY <1>2, <2>1 DEF Is
  <2>4. /\ \A p \in Ports : held'[p] \subseteq held[p]
        /\ pPortQueue' = pPortQueue
    BY <1>1, <2>1 DEF flow, ReturnHeld
  <2>5. Holding'
    BY <1>1, <2>1, <2>2, <2>3, <2>4 DEF Holding
  <2>6. QED BY <1>1, <1>2, <2>1, <2>5, ThreadFlow
<1>5. CASE ReturnPort
  <2>1. /\ pc = "ports" /\ pc' = "drain" /\ UNCHANGED <<eCurState, todo>>
        /\ ReturnHeld(Head(todo)) /\ Head(todo) \in Ports
    BY <1>1, <1>5 DEF ReturnPort, stateVars
  <2>2. /\ held'[Head(todo)] = {} /\ pPortQueue' = pPortQueue
        /\ \A p \in Ports : p # Head(todo) => held'[p] = held[p]
    BY <1>1, <2>1 DEF ReturnHeld
  <2>3. Busy
    BY <2>1 DEF Busy, InProcess
  <2>4. ASSUME NEW p \in Ports, Returning(p), p # Head(todo) PROVE Returning(p)'
    <3>1. PICK i \in 1..Len(todo) : todo[i] = p
      BY <2>4 DEF Returning
    <3>2. i # 1 /\ i \in Int /\ i >= 1
      BY <1>1, <1>3, <2>1, <2>4, <3>1
    <3>3. i > 1
      BY <3>2
    <3>4. QED BY <2>1, <3>1, <3>3 DEF Returning
  <2>5. Holding'
    BY <1>1, <1>2, <2>1, <2>2, <2>3, <2>4 DEF Holding
  <2>6. QED BY <1>2, <2>1, <2>5, ThreadFlow
<1>6. CASE Drain
  <2>1. /\ pc = "drain" /\ UNCHANGED <<eCurState, flow>>
        /\ \/ pc' = "get" /\ todo' = todo
           \/ todo' = Tail(todo) /\ pc' = IF Len(todo) = 1 THEN "processed" ELSE "ports"
    BY <1>6 DEF Drain, ToProcessed, stateVars, portVars
  <2>2. Busy /\ UNCHANGED <<held, pPortQueue>>
    BY <2>1 DEF Busy, InProcess, flow
  <2>3. ASSUME NEW p \in Ports, Returning(p) PROVE Returning(p)'
    <3>1. PICK i \in 1..Len(todo) : todo[i] = p /\ i > 1 /\ i \in Int
      BY <2>1, <2>3 DEF Returning
    <3>2. CASE pc' = "get" /\ todo' = todo
      BY <3>1, <3>2 DEF Returning
    <3>3. CASE todo' = Tail(todo) /\ pc' = IF Len(todo) = 1 THEN "processed" ELSE "ports"
      <4>1. pc' = "ports" /\ i - 1 \in 1..Len(Tail(todo)) /\ Tail(todo)[i - 1] = p
        BY <1>1, <1>3, <2>1, <3>1, <3>3
      <4>2. QED BY <3>3, <4>1 DEF Returning
    <3>4. QED BY <2>1, <3>2, <3>3
  <2>4. pc' \in {"get", "ports", "processed"} /\ (pc' = "processed" => todo' = <<>>)
    BY <1>1, <1>3, <2>1
  <2>5. Holding'
    BY <1>1, <1>2, <2>1, <2>2, <2>3, <2>4 DEF Holding
  <2>6. QED BY <1>2, <2>1, <2>5, ThreadFlow
<1>7. CASE DrainGet
  <2>1. /\ pc = "get" /\ pc' = "drain" /\ UNCHANGED <<eCurState, todo, held>>
        /\ GetAndSendBuffer(Head(todo)) /\ Head(todo) \in Ports
    BY <1>1, <1>7 DEF DrainGet, GetAndSendBuffer, stateVars
  <2>2. Feeders # {} /\ Busy
    BY <1>1, <2>1 DEF Holding, GetAndSendBuffer, Busy, InProcess
  <2>3. \A p : Returning(p)' <=> Returning(p)
    BY <2>1 DEF Returning
  <2>4. Holding'
    BY <1>1, <1>2, <2>1, <2>2, <2>3 DEF Holding
  <2>5. QED BY <1>2, <2>1, <2>4, ThreadFlow
<1>8. CASE Processed \/ ClearPending
  <2>1. /\ pc \in {"processed", "clear"} /\ pc' \in {"clear", "event", "buf"}
        /\ UNCHANGED <<eCurState, todo, flow>>
    BY <1>8 DEF Processed, ClearPending, portVars
  <2>2. Busy /\ UNCHANGED <<held, pPortQueue>> /\ todo = <<>>
    BY <1>1, <2>1 DEF Busy, InProcess, flow, Holding
  <2>3. \A p : ~Returning(p)
    BY <2>2 DEF Returning
  <2>4. Holding'
    BY <1>1, <1>2, <2>1, <2>2, <2>3 DEF Holding
  <2>5. QED BY <1>2, <2>1, <2>4, ThreadFlow
<1>9. CASE Event
  <2>1. /\ pc = "event" /\ pc' \in {"buf", "clear"} /\ UNCHANGED <<todo, flow>>
        /\ eCurState' = IF ret = "None" /\ now.cmd = "StateSet" THEN now.nParam ELSE eCurState
    BY <1>9 DEF Event, portVars
  <2>2. Busy /\ UNCHANGED <<held, pPortQueue>> /\ todo = <<>> /\ pc' = "buf"
    BY <1>1, <1>9, <2>1 DEF Busy, InProcess, flow, Holding, Event, Inv, Protocol, Processing
  <2>3. \A p : ~Returning(p)
    BY <2>2 DEF Returning
  <2>4. ~Busy'
    BY <2>2 DEF Busy, InProcess
  <2>5. CASE ret = "None" /\ now.cmd = "StateSet"
    <3>1. Moves(eCurState, now.nParam) /\ eCurState' = now.nParam
      BY <2>1, <2>2, <2>5 DEF Inv, Protocol, Processing
    <3>2. ASSUME eCurState' \notin {Loaded, Idle} PROVE Holding'
      BY <1>1, <2>2, <2>4, <3>2 DEF Holding
    <3>3. ASSUME eCurState' \in {Loaded, Idle} PROVE Holding'
      <4>1. eCurState \in {Executing, Pause} /\ eCurState' = Idle
        BY <3>1, <3>3 DEF Moves, Loaded, Idle, Executing, Pause, Invalid
      <4>2. Is(now, "StateSet", Idle)
        BY <2>5, <3>1, <4>1 DEF Is
      <4>3. \A p \in Ports : held[p] = {}
        BY <1>1, <2>2, <2>3, <4>1, <4>2 DEF Holding
      <4>4. QED BY <1>1, <2>2, <2>4, <4>3 DEF Holding
    <3>4. Holding'
      BY <3>2, <3>3
    <3>5. QED BY <1>2, <2>1, <3>4, ThreadFlow
  <2>6. CASE ~(ret = "None" /\ now.cmd = "StateSet")
    <3>1. eCurState' = eCurState
      BY <2>1, <2>6
    <3>2. Holding'
      BY <1>1, <2>2, <2>4, <3>1 DEF Holding
    <3>3. QED BY <1>2, <2>1, <3>2, ThreadFlow
  <2>7. QED BY <2>5, <2>6
<1>10. QED BY <1>4, <1>5, <1>6, <1>7, <1>8, <1>9

LEMMA FlowInit == Init => Flow
<1> SUFFICES ASSUME Init PROVE Flow
  OBVIOUS
<1>1. \A p \in Ports : pPortQueue[p] = <<>> /\ held[p] = {} /\ owned = {}
  BY DEF Init, PortInit
<1>2. \A p \in Ports : Queued(p) = {}
  BY <1>1 DEF Queued, BufferNum
<1>3. \A p \in Ports : Apart(p) /\ Live(p) = {}
  BY <1>1, <1>2 DEF Apart, Distinct, Live
<1>4. pc = "cmd" /\ ~Busy /\ \A k \in Controllers : at[k] = "idle"
  BY DEF Init, Busy, InProcess
<1>5. QED BY <1>1, <1>3, <1>4 DEF Flow, Holding, Matched

LEMMA FlowNext ==
    Disciplined /\ Raceless /\ TypeOK /\ Inv /\ Flow /\ [Next]_vars => Flow'
<1> SUFFICES ASSUME Disciplined, Raceless, TypeOK, Inv, Flow, [Next]_vars PROVE Flow'
  OBVIOUS
<1>1. CASE DoThread
  BY <1>1, ProcessBufferFlow, CommandsFlow, StepsFlow DEF DoThread, ProcessCmd
<1>2. CASE UNCHANGED vars
  <2>1. UNCHANGED <<callVars, table, flow, pc, todo, now, eCurState, held, pPortQueue>>
    BY <1>2 DEF vars, portVars, stateVars, threadVars, flow
  <2>2. Holding'
    BY <2>1, StillHolding DEF Flow
  <2>3. QED BY <2>1, <2>2, ThreadFlow
<1>3. QED BY <1>1, <1>2, CallFlow, FeedFlow DEF Next

\* The headers that exist are those in the tables: what the client frees is found,
\* and what the component queues or holds was not freed behind its back.
THEOREM HeadersAlwaysRegistered ==
    ASSUME Disciplined, Raceless
    PROVE  Spec => []HeadersRegistered
<1>1. TypeOK /\ Inv /\ Flow => HeadersRegistered
  BY DEF Inv, Tables, Table, Flow, HeadersRegistered
<1>2. QED BY <1>1, InvInit, InvNext, FlowInit, FlowNext, TypeCorrect, PTL DEF Spec

-----------------------------------------------------------------------------
(* What is left in Loaded                                                   *)

LeavingLoaded ==
    \/ Is(pendingCmd, "StateSet", Idle)
    \/ \E k \in Controllers : at[k] = "conclude" /\ Is(call[k].cmd, "StateSet", Idle)

\* A port has headers while it is enabled, and until a command on it is over.
Left(p) ==
    nBufferHdrNum[p] > 0 =>
        /\ eCurState = Loaded => LeavingLoaded
        /\ \/ p \in bEnabled
           \/ Is(pendingCmd, "PortDisable", p)
           \/ Is(pendingCmd, "PortEnable", p) /\ p \notin bPopulated

Tidy ==
    /\ eCurState = Loaded /\ resources => LeavingLoaded
    /\ Releasing => ~resources
    /\ \A k \in Controllers :
          at[k] = "reply" /\ pendingCmd.cmd = "PortEnable" => pendingCmd.nParam \in bPopulated
    /\ resets = 0 => \A p \in Ports : Left(p)

LEMMA StillTidy ==
    ASSUME Tidy, UNCHANGED <<eCurState, resources, pendingCmd, bEnabled, bPopulated, nBufferHdrNum, resets>>,
           \A k \in Controllers :
               /\ at'[k] = "reply" => at[k] = "reply"
               /\ at'[k] = "conclude" <=> at[k] = "conclude"
               /\ at[k] = "conclude" => call'[k] = call[k]
    PROVE  Tidy'
<1>1. (LeavingLoaded' <=> LeavingLoaded) /\ (Releasing' => Releasing)
  BY DEF LeavingLoaded, Releasing
<1>2. \A p : Left(p)' <=> Left(p)
  BY <1>1 DEF Left
<1>3. QED BY <1>1, <1>2 DEF Tidy

LEMMA CallTidy ==
    ASSUME Disciplined, TypeOK, Inv, Tidy, NEW k \in Controllers,
           \/ Pend(k) \/ ClearProcessed(k) \/ PostCommand(k)
           \/ QuietCall(k) \/ NotifyOff(k) \/ Reply(k) \/ ResetPending(k)
    PROVE  Tidy'
<1>1. /\ \A j \in Controllers : j = k
      /\ at \in [Controllers -> Places] /\ call[k].port \in Ports
      /\ pendingCmd \in Commands \cup {None}
      /\ \A p \in Ports : nBufferHdrNum[p] \in Int
  BY DEF Disciplined, TypeOK, CallTypeOK, StateTypeOK, PortTypeOK
<1>2. PICK p \in Ports : p = call[k].port
  BY <1>1
<1>3. Calling(k) /\ Notifying(k)
  BY DEF Inv, Protocol, Tables
<1>4. CASE QuietCall(k)
  <2>1. /\ UNCHANGED <<eCurState, resources, pendingCmd, resets>>
        /\ at[k] \notin {"reply", "conclude"} /\ at'[k] # "conclude"
    <3>1. UNCHANGED resets
      BY <1>4 DEF QuietCall, SendCommand, Allocate, UseEarly, Free, PollOver, WaitOver, WaitTimeout,
              AllocateAct, AllocateRefused, FreeAct, FreeDrain, FreeGet, FreeMatch, NotifyOn
    <3>2. QED BY <1>4, <3>1, QuietCalls DEF stateVars
  <2>2. /\ LeavingLoaded' <=> LeavingLoaded
        /\ ~Releasing'  \/ at'[k] = "reply"
    BY <1>1, <2>1 DEF LeavingLoaded, Releasing
  <2>3. CASE AllocateAct(k)
    <3>1. at'[k] # "reply" /\ Brings(p) /\ Waiting
      BY <1>1, <1>2, <1>3, <2>3 DEF AllocateAct, Leave, Calling, Acting
    <3>2. PICK h \in Headers : RegisterHeader(p, h)
      BY <1>2, <2>3 DEF AllocateAct
    <3>3. /\ nBufferHdrNum'[p] = nBufferHdrNum[p] + 1
          /\ \A q \in Ports : q # p => nBufferHdrNum'[q] = nBufferHdrNum[q]
          /\ bEnabled \subseteq bEnabled'
          /\ \A q \in Ports : q # p => (q \in bPopulated' => q \in bPopulated)
          /\ p \in bPopulated' => p \in bEnabled'
      BY <3>2 DEF RegisterHeader, TypeOK, PortTypeOK
    <3>4. ASSUME resets = 0, NEW q \in Ports PROVE Left(q)'
      <4>1. CASE q = p
        BY <2>1, <2>2, <3>1, <3>3, <4>1 DEF Left, Brings, LeavingLoaded, Idle, Loaded
      <4>2. CASE q # p
        BY <2>1, <2>2, <3>3, <3>4, <4>2 DEF Left, Tidy
      <4>3. QED BY <4>1, <4>2
    <3>5. QED BY <1>1, <2>1, <2>2, <3>1, <3>4 DEF Tidy
  <2>4. CASE FreeMatch(k)
    <3>1. UNCHANGED bEnabled /\ at'[k] # "reply"
      BY <1>1, <2>4 DEF FreeMatch, UnregisterHeader, Leave, portVars
    <3>2. /\ \A q \in Ports : nBufferHdrNum'[q] > 0 => nBufferHdrNum[q] > 0
          /\ bPopulated' \subseteq bPopulated
      <4>1. CASE UNCHANGED portVars
        BY <4>1 DEF portVars, table
      <4>2. CASE UnregisterHeader(p, call[k].header)
        BY <1>1, <4>2 DEF UnregisterHeader, TypeOK, PortTypeOK
      <4>3. QED BY <1>2, <2>4, <4>1, <4>2 DEF FreeMatch
    <3>3. ASSUME resets = 0, NEW q \in Ports PROVE Left(q)'
      BY <2>1, <2>2, <3>1, <3>2, <3>3 DEF Left, Tidy
    <3>4. QED BY <1>1, <2>1, <2>2, <3>1, <3>3 DEF Tidy
  <2>5. CASE NotifyOn(k)
    <3>1. /\ UNCHANGED <<bEnabled, bPopulated, nBufferHdrNum>>
          /\ at[k] = "notify" /\ call[k].op = "allocate"
      BY <2>5 DEF NotifyOn, portVars, table
    <3>2. p \in bPopulated /\ Brings(p)
      BY <1>2, <1>3, <3>1 DEF Notifying, Calling, Acting
    <3>3. at'[k] = "reply" /\ pendingCmd.cmd = "PortEnable" => pendingCmd.nParam \in bPopulated
      BY <3>2 DEF Brings, Is
    <3>4. ~Releasing'
      <4>1. ~Is(pendingCmd', "StateSet", Loaded)
        BY <2>1, <3>2 DEF Brings, Is, Idle, Loaded
      <4>2. QED BY <1>1, <2>1, <4>1 DEF Releasing
    <3>5. \A q : Left(q)' <=> Left(q)
      BY <2>1, <2>2, <3>1 DEF Left
    <3>6. QED BY <1>1, <2>1, <2>2, <3>1, <3>3, <3>4, <3>5 DEF Tidy
  <2>6. CASE ~AllocateAct(k) /\ ~FreeMatch(k) /\ ~NotifyOn(k)
    <3>1. UNCHANGED <<bEnabled, bPopulated, nBufferHdrNum>>
      BY <1>4, <2>6 DEF QuietCall, SendCommand, Allocate, UseEarly, Free, PollOver, WaitOver, WaitTimeout,
              AllocateRefused, FreeAct, FreeDrain, FreeGet, GetAndSendBuffer, portVars, table
    <3>2. at'[k] # "reply"
      <4>1. CASE \/ \E c \in Commands : SendCommand(k, c)
                 \/ \E q \in Ports : Allocate(k, q) \/ UseEarly(k, q)
                 \/ \E h \in Headers : Free(k, h)
        BY <1>1, <4>1 DEF SendCommand, Allocate, UseEarly, Free, Enter
      <4>2. CASE \/ PollOver(k) \/ WaitOver(k) \/ WaitTimeout(k) \/ AllocateRefused(k)
                 \/ FreeAct(k) \/ FreeDrain(k) \/ FreeGet(k)
        BY <1>1, <4>2 DEF PollOver, WaitOver, WaitTimeout, AllocateRefused, FreeAct, FreeDrain, FreeGet,
                          Leave
      <4>3. QED BY <1>4, <2>6, <4>1, <4>2 DEF QuietCall
    <3>3. QED BY <1>1, <2>1, <3>1, <3>2, StillTidy
  <2>7. QED BY <2>3, <2>4, <2>5, <2>6
<1>5. CASE NotifyOff(k)
  <2>1. /\ at[k] = "notify" /\ call[k].op = "free" /\ at'[k] \in {"reply", "idle"}
        /\ at'[k] = "reply" => Unloaded \/ Disabled(p)
    BY <1>1, <1>2, <1>5 DEF NotifyOff, ReplyIf, Leave
  <2>2. (Waiting \/ NoCommand) /\ Frees(p)
    BY <1>2, <1>3, <2>1 DEF Calling, Acting
  <2>3. ~RolledBack
    BY <1>1, <2>2, Forms DEF RolledBack, NoCommand, Frees, Is, StateSet, None, Loaded, Idle
  <2>4. UNCHANGED <<eCurState, pendingCmd, resets, bEnabled, bPopulated, nBufferHdrNum>>
    BY <1>5, <2>3 DEF NotifyOff, portVars, table
  <2>5. LeavingLoaded' <=> LeavingLoaded
    BY <1>1, <2>1, <2>4 DEF LeavingLoaded
  <2>6. \A q : Left(q)' <=> Left(q)
    BY <2>4, <2>5 DEF Left
  <2>7. resources' = FALSE \/ (resources' = resources /\ ~Unloaded)
    BY <1>5, <2>3 DEF NotifyOff, DoIdle2Loaded
  <2>8. Releasing' => Unloaded
    <3>1. SUFFICES ASSUME Releasing' PROVE Unloaded
      OBVIOUS
    <3>2. at'[k] = "reply" /\ Is(pendingCmd, "StateSet", Loaded)
      BY <1>1, <2>1, <2>4, <3>1 DEF Releasing
    <3>3. ~Disabled(p)
      BY <3>2 DEF Is, Disabled
    <3>4. QED BY <2>1, <3>2, <3>3
  <2>9. at'[k] = "reply" => pendingCmd.cmd # "PortEnable"
    BY <2>1 DEF Unloaded, Disabled, StateSet
  <2>10. QED BY <1>1, <2>4, <2>5, <2>6, <2>7, <2>8, <2>9 DEF Tidy
<1>6. CASE Reply(k)
  <2>1. at[k] = "reply" /\ at'[k] = "conclude" /\ call'[k].cmd = pendingCmd /\ pendingCmd' = None
        /\ UNCHANGED <<eCurState, resources, resets, bEnabled, bPopulated, nBufferHdrNum>>
    BY <1>1, <1>6 DEF Reply, portVars, table, TypeOK, CallTypeOK
  <2>2. LeavingLoaded => LeavingLoaded'
    BY <1>1, <2>1 DEF LeavingLoaded
  <2>3. Releasing' => Releasing
    BY <1>1, <2>1 DEF Releasing, Is, None
  <2>4. ASSUME resets = 0, NEW q \in Ports PROVE Left(q)'
    <3>1. Left(q) /\ Fulfilled(pendingCmd)
      BY <1>3, <2>1, <2>4 DEF Tidy, Notifying
    <3>2. Is(pendingCmd, "PortDisable", q) => nBufferHdrNum[q] = 0
      BY <3>1 DEF Is, Fulfilled
    <3>3. Is(pendingCmd, "PortEnable", q) => q \in bPopulated
      BY <2>1 DEF Is, Tidy
    <3>4. QED BY <2>1, <2>2, <3>1, <3>2, <3>3 DEF Left
  <2>5. QED BY <1>1, <2>1, <2>2, <2>3, <2>4 DEF Tidy
<1>7. CASE Pend(k)
  <2>1. /\ at[k] = "post" /\ at'[k] = "pend" /\ NoCommand
        /\ UNCHANGED <<eCurState, resources, resets, bEnabled, bPopulated, nBufferHdrNum>>
    BY <1>1, <1>3, <1>7 DEF Pend, Calling, portVars, table
  <2>2. ~LeavingLoaded /\ ~Releasing /\ ~Releasing' /\ pendingCmd.cmd = "None"
    BY <1>1, <2>1 DEF LeavingLoaded, Releasing, NoCommand, Is, None
  <2>3. ASSUME resets = 0, NEW q \in Ports PROVE Left(q)'
    BY <2>1, <2>2, <2>3 DEF Left, Tidy, Is
  <2>4. QED BY <1>1, <2>1, <2>2, <2>3 DEF Tidy
<1>8. CASE ResetPending(k)
  <2>1. /\ at[k] = "idle" /\ at'[k] = "idle" /\ eCurState # Loaded /\ resets' # 0
        /\ UNCHANGED <<eCurState, resources>>
    BY <1>1, <1>8 DEF ResetPending, callVars, Disciplined, TypeOK, CallTypeOK, ComponentAssumption
  <2>2. ~Releasing'
    BY <1>1, <2>1 DEF Releasing
  <2>3. QED BY <1>1, <2>1, <2>2 DEF Tidy
<1>9. CASE ClearProcessed(k) \/ PostCommand(k)
  <2>1. /\ at'[k] \in {"add", "idle"} /\ at[k] \in Posts
        /\ UNCHANGED <<eCurState, resources, pendingCmd, resets, bEnabled, bPopulated, nBufferHdrNum>>
    BY <1>1, <1>9 DEF ClearProcessed, PostCommand, Posts, portVars, table
  <2>2. QED BY <1>1, <2>1, StillTidy DEF Posts
<1>10. QED BY <1>4, <1>5, <1>6, <1>7, <1>8, <1>9

LEMMA ConcludeTidy ==
    ASSUME Disciplined, TypeOK, Inv, Tidy, NEW k \in Controllers, Conclude(k)
    PROVE  Tidy'
<1>1. /\ \A j \in Controllers : j = k
      /\ \A p \in Ports : nBufferHdrNum[p] \in Int /\ Known(p)
      /\ Calling(k) /\ Notifying(k)
  BY DEF Disciplined, TypeOK, PortTypeOK, Inv, Protocol, Tables
<1>2. PICK c : c = call[k].cmd
  OBVIOUS
<1>3. /\ at[k] = "conclude" /\ at'[k] = "idle" /\ NoCommand /\ Completable(c) /\ Fulfilled(c)
      /\ eCurState' = IF c.cmd = "StateSet" THEN c.nParam ELSE eCurState
      /\ UNCHANGED <<pendingCmd, resources, resets, bEnabled, bPopulated, nBufferHdrNum>>
  BY <1>1, <1>2 DEF Conclude, Leave, Calling, Notifying, portVars, table, TypeOK, CallTypeOK
<1>4. ~Releasing' /\ ~LeavingLoaded' /\ \A name, s : name # "None" => ~Is(pendingCmd, name, s)
  BY <1>1, <1>3 DEF Releasing, LeavingLoaded, NoCommand, Is, None
<1>5. CASE Is(c, "StateSet", Loaded)
  <2>1. Releasing /\ eCurState = Idle /\ eCurState' = Loaded
    BY <1>2, <1>3, <1>5 DEF Releasing, Completable, Is, Loaded, Idle
  <2>2. ASSUME resets = 0, NEW p \in Ports PROVE nBufferHdrNum[p] = 0
    <3>1. CASE p \in bEnabled
      BY <1>1, <1>3, <1>5, <2>1, <3>1 DEF Fulfilled, AllPortsOff, Known
    <3>2. CASE p \notin bEnabled
      <4>1. ~(nBufferHdrNum[p] > 0)
        BY <1>4, <2>2, <3>2 DEF Tidy, Left
      <4>2. nBufferHdrNum[p] \in 0..nBufferCountActual
        BY EmptyTable DEF Inv, Tables
      <4>3. QED BY <4>1, <4>2, PortAssumption
    <3>3. QED BY <3>1, <3>2
  <2>3. QED BY <1>1, <1>3, <1>4, <2>1, <2>2 DEF Tidy, Left
<1>6. CASE ~Is(c, "StateSet", Loaded)
  <2>1. eCurState' # Loaded \/ (eCurState' = eCurState /\ eCurState # Loaded)
    BY <1>3, <1>6 DEF Completable, Is, Loaded, Idle
  <2>2. \A p : Left(p) => Left(p)'
    BY <1>3, <2>1 DEF Left
  <2>3. QED BY <1>1, <1>3, <1>4, <2>1, <2>2 DEF Tidy
<1>7. QED BY <1>5, <1>6

LEMMA ThreadTidy ==
    ASSUME Disciplined, TypeOK, Inv, Tidy, DoThread
    PROVE  Tidy'
<1>1. UNCHANGED <<callVars, resets>>
  BY DEF DoThread, ProcessCmd, ProcessBuffer, LoadedToIdle, IdleToLoaded, IdleToRunning,
         RunningToIdle, OtherStateSet, PortCommand, Take, EnablePort, DisablePort, ReturnPort, Drain,
         DrainGet, Processed, ClearPending, Event, TakeBuffer, TakeGet, SendDone, NoBuffer
<1>2. ASSUME UNCHANGED <<eCurState, resources, pendingCmd, bEnabled, bPopulated, nBufferHdrNum>>
      PROVE  Tidy'
  BY <1>1, <1>2, StillTidy DEF callVars
<1>3. CASE ProcessBuffer
  <2>1. UNCHANGED <<stateVars, bEnabled, bPopulated, nBufferHdrNum>>
    BY <1>3 DEF ProcessBuffer, TakeBuffer, TakeGet, SendDone, NoBuffer, GetAndHoldBuffer, SendHeld,
                portVars, table
  <2>2. QED BY <1>2, <2>1 DEF stateVars
<1>4. CASE LoadedToIdle
  <2>1. PICK result, ports : Take(StateSet(Idle), result, ports)
    BY <1>4 DEF LoadedToIdle
  <2>2. /\ UNCHANGED <<eCurState, pendingCmd, bEnabled, bPopulated, nBufferHdrNum>>
        /\ pCmdQueue # <<>> /\ StateSet(Idle) = Head(pCmdQueue)
    BY <2>1 DEF Take, portVars, table
  <2>3. pendingCmd = StateSet(Idle)
    BY <2>2 DEF Inv, Protocol, Accepting
  <2>4. Is(pendingCmd, "StateSet", Idle)
    BY <2>3 DEF Is, StateSet
  <2>5. LeavingLoaded /\ LeavingLoaded' /\ \A p : Left(p) => Left(p)'
    BY <2>2, <2>4 DEF LeavingLoaded, Left
  <2>6. ~Releasing
    BY <2>2 DEF Releasing, Inv, Protocol, Calling, Waiting, NoCommand
  <2>7. ~Releasing' /\ UNCHANGED <<at, call>>
    BY <1>1, <2>2, <2>6 DEF Releasing, callVars
  <2>8. QED BY <1>1, <2>2, <2>5, <2>7 DEF Tidy
<1>5. CASE IdleToLoaded \/ IdleToRunning \/ RunningToIdle \/ OtherStateSet \/ PortCommand
  <2>1. UNCHANGED <<portVars, eCurState, pendingCmd>>
    BY <1>5 DEF IdleToLoaded, IdleToRunning, RunningToIdle, OtherStateSet, PortCommand, Take
  <2>2. bEnabled # {}
    BY DEF Inv, Protocol, Anchored
  <2>3. UNCHANGED resources
    BY <1>5, <2>2 DEF IdleToLoaded, IdleToRunning, RunningToIdle, OtherStateSet, PortCommand
  <2>4. QED BY <1>2, <2>1, <2>3 DEF portVars, table
<1>6. CASE EnablePort \/ DisablePort
  <2>1. /\ UNCHANGED <<stateVars, bPopulated, nBufferHdrNum>>
        /\ pc = "ports" /\ now.cmd \in {"PortEnable", "PortDisable"}
        /\ \/ now.cmd = "PortDisable" /\ bEnabled' = bEnabled \ {Head(todo)}
           \/ bEnabled \subseteq bEnabled'
    BY <1>6 DEF EnablePort, DisablePort, table
  <2>2. UNCHANGED <<eCurState, resources, pendingCmd>>
    BY <2>1 DEF stateVars
  <2>3. pendingCmd = now /\ Head(todo) = now.nParam
    BY <2>1 DEF Inv, Protocol, Accepting, Processing, InProcess
  <2>4. \A q \in Ports : q \in bEnabled => q \in bEnabled' \/ Is(pendingCmd, "PortDisable", q)
    BY <2>1, <2>3 DEF Is
  <2>5. LeavingLoaded' <=> LeavingLoaded
    BY <1>1, <2>2 DEF LeavingLoaded, callVars
  <2>6. Releasing' <=> Releasing
    BY <1>1, <2>2 DEF Releasing, callVars
  <2>7. ASSUME resets = 0, NEW q \in Ports PROVE Left(q)'
    BY <2>1, <2>2, <2>4, <2>5, <2>7 DEF Tidy, Left
  <2>8. QED BY <1>1, <2>1, <2>2, <2>5, <2>6, <2>7 DEF Tidy, callVars
<1>7. CASE ReturnPort \/ Drain \/ DrainGet \/ Processed
  <2>1. UNCHANGED <<eCurState, resources, pendingCmd, bEnabled, bPopulated, nBufferHdrNum>>
    BY <1>7 DEF ReturnPort, Drain, DrainGet, Processed, GetAndSendBuffer, portVars, table, stateVars
  <2>2. QED BY <1>2, <2>1
<1>8. CASE ClearPending
  <2>1. /\ UNCHANGED <<eCurState, resources, bEnabled, bPopulated, nBufferHdrNum, at, call>>
        /\ pc = "clear" /\ pendingCmd' = None
    BY <1>8 DEF ClearPending, portVars, table, callVars
  <2>2. pendingCmd = now /\ now # None /\ Busy /\ ~Completable(now)
    BY <2>1 DEF Inv, Protocol, Accepting, Processing, InProcess, Busy
  <2>3. \A j \in Controllers : at[j] \notin {"reply", "conclude"}
    BY <2>2 DEF Inv, Protocol, Calling, Waiting, NoCommand
  <2>4. ~Releasing' /\ ~Releasing /\ (LeavingLoaded <=> Is(pendingCmd, "StateSet", Idle))
    BY <2>1, <2>3 DEF Releasing, LeavingLoaded
  <2>5. ~(eCurState = Loaded /\ LeavingLoaded)
    BY <2>2, <2>4 DEF Completable
  <2>6. ASSUME resets = 0, NEW q \in Ports PROVE Left(q)'
    <3>1. SUFFICES ASSUME nBufferHdrNum[q] > 0 PROVE q \in bEnabled /\ eCurState # Loaded
      BY <2>1 DEF Left
    <3>2. Left(q)
      BY <2>6 DEF Tidy
    <3>3. eCurState # Loaded
      BY <2>5, <3>1, <3>2 DEF Left
    <3>4. now.cmd \notin {"PortEnable", "PortDisable"}
      BY <2>2, <3>3 DEF Completable
    <3>5. QED BY <2>2, <3>1, <3>2, <3>3, <3>4 DEF Left, Is
  <2>7. QED BY <1>1, <2>1, <2>3, <2>4, <2>5, <2>6 DEF Tidy
<1>9. CASE Event
  <2>1. UNCHANGED <<resources, pendingCmd, bEnabled, bPopulated, nBufferHdrNum, at, call>>
    BY <1>9, EventGivesUpNothing DEF Event, Inv, portVars, table, callVars
  <2>2. eCurState' = eCurState \/ eCurState' # Loaded
    <3>1. Busy
      BY <1>9 DEF Event, Busy
    <3>2. ret = "None" /\ now.cmd = "StateSet" => Moves(eCurState, now.nParam)
      BY <3>1 DEF Inv, Protocol, Processing
    <3>3. QED BY <1>9, <3>2 DEF Event, Moves, Loaded, Idle, Executing, Pause, Invalid
  <2>3. (LeavingLoaded' <=> LeavingLoaded) /\ (Releasing' <=> Releasing)
    BY <2>1 DEF LeavingLoaded, Releasing
  <2>4. \A p : Left(p) => Left(p)'
    BY <2>1, <2>2, <2>3 DEF Left
  <2>5. QED BY <1>1, <2>1, <2>2, <2>3, <2>4 DEF Tidy
<1>10. QED BY <1>3, <1>4, <1>5, <1>6, <1>7, <1>8, <1>9 DEF DoThread, ProcessCmd

LEMMA TidyInit == Init => Tidy
<1> SUFFICES ASSUME Init PROVE Tidy
  OBVIOUS
<1>1. /\ resources = FALSE /\ \A k \in Controllers : at[k] = "idle"
      /\ \A p \in Ports : nBufferHdrNum[p] = 0
  BY DEF Init, PortInit
<1>2. QED BY <1>1 DEF Tidy, Left, Releasing

LEMMA TidyNext ==
    /\ Disciplined /\ "DoAllocateBuffer" \notin Failures /\ TypeOK /\ Inv /\ Tidy /\ [Next]_vars
    => Tidy'
<1> SUFFICES ASSUME Disciplined, "DoAllocateBuffer" \notin Failures, TypeOK, Inv, Tidy, [Next]_vars
             PROVE  Tidy'
  OBVIOUS
<1>1. ASSUME NEW k \in Controllers, Control(k) PROVE Tidy'
  <2>1. ~AllocateFails(k)
    BY DEF AllocateFails
  <2>2. \/ Pend(k) \/ ClearProcessed(k) \/ PostCommand(k)
        \/ QuietCall(k) \/ NotifyOff(k) \/ Reply(k) \/ ResetPending(k)
        \/ Conclude(k)
    BY <1>1, <2>1 DEF Control, Proceed, BufferCall, QuietCall
  <2>3. QED BY <2>2, CallTidy, ConcludeTidy
<1>2. ASSUME NEW f \in Feeders, Feed(f) PROVE Tidy'
  <2>1. UNCHANGED <<stateVars, callVars, resets, bEnabled, bPopulated, nBufferHdrNum>>
    BY <1>2 DEF Feed, PassBuffer, QueueBuffer, AddBuffer, portVars, table
  <2>2. QED BY <2>1, StillTidy DEF stateVars, callVars
<1>3. CASE UNCHANGED vars
  <2>1. UNCHANGED <<stateVars, callVars, resets, bEnabled, bPopulated, nBufferHdrNum>>
    BY <1>3 DEF vars, portVars, table
  <2>2. QED BY <2>1, StillTidy DEF stateVars, callVars
<1>4. QED BY <1>1, <1>2, <1>3, ThreadTidy DEF Next

\* The thread takes the pending command and no other.
LEMMA StrayNext ==
    Disciplined /\ TypeOK /\ Inv /\ ~stray /\ [Next]_vars => ~stray'
<1> SUFFICES ASSUME Disciplined, TypeOK, Inv, ~stray, [Next]_vars PROVE ~stray'
  OBVIOUS
<1>1. ASSUME NEW k \in Controllers, Control(k) PROVE UNCHANGED stray
  <2>1. \/ QuietCall(k)
        \/ Pend(k) \/ ClearProcessed(k) \/ PostCommand(k)
        \/ ResetPending(k) \/ AllocateFails(k) \/ NotifyOff(k)
        \/ Reply(k) \/ Conclude(k)
    BY <1>1 DEF Control, Proceed, BufferCall, QuietCall
  <2>2. UNCHANGED threadVars
    BY <2>1, QuietCalls DEF Pend, ClearProcessed, PostCommand, ResetPending, AllocateFails,
                            NotifyOff, Reply, Conclude
  <2>3. QED BY <2>2 DEF threadVars
<1>2. CASE \/ LoadedToIdle \/ IdleToLoaded \/ IdleToRunning \/ RunningToIdle
           \/ OtherStateSet \/ PortCommand
  <2>1. PICK c, result, ports : Take(c, result, ports)
    BY <1>2 DEF LoadedToIdle, IdleToLoaded, IdleToRunning, RunningToIdle, OtherStateSet, PortCommand
  <2>2. c = pendingCmd
    BY <2>1 DEF Take, Inv, Protocol, Accepting
  <2>3. QED BY <2>1, <2>2 DEF Take
<1>3. CASE \/ EnablePort \/ DisablePort \/ ReturnPort \/ Drain \/ DrainGet
           \/ Processed \/ ClearPending \/ Event
  BY <1>3 DEF EnablePort, DisablePort, ReturnPort, Drain, DrainGet, Processed, ClearPending, Event
<1>4. CASE ProcessBuffer
  BY <1>4 DEF ProcessBuffer, TakeBuffer, TakeGet, SendDone, NoBuffer
<1>5. CASE (\E f \in Feeders : Feed(f)) \/ UNCHANGED vars
  BY <1>5 DEF Feed, PassBuffer, QueueBuffer, vars, threadVars
<1>6. QED BY <1>1, <1>2, <1>3, <1>4, <1>5 DEF Next, DoThread, ProcessCmd

\* When a session is over nothing of it is left, but for the headers of a PortEnable
\* that the client gave up: those are the client's.  For these clients without the
\* exception for a command that was given up before it was taken: there is none.
THEOREM LoadedAlwaysEmpty ==
    ASSUME Disciplined, Raceless, "DoAllocateBuffer" \notin Failures
    PROVE  Spec => [](LoadedHoldsNothing /\ ~stray)
<1>1. TypeOK /\ Inv /\ Resourced /\ Flow /\ Tidy => LoadedHoldsNothing
  <2> SUFFICES ASSUME TypeOK, Inv, Resourced, Flow, Tidy, eCurState = Loaded, Quiescent
               PROVE  /\ ~resources /\ ~instance
                      /\ \A p \in Ports : Live(p) \subseteq (IF bPatient /\ resets = 0 THEN {} ELSE owned)
    BY DEF LoadedHoldsNothing
  <2>1. /\ pendingCmd.cmd = "None" /\ \A k \in Controllers : at[k] = "idle"
        /\ ~LeavingLoaded
    BY DEF Quiescent, LeavingLoaded, Is, None
  <2>2. ~resources
    BY <2>1 DEF Tidy
  <2>3. ~instance
    BY DEF Resourced, Instanced, Loaded, Idle, Executing, Pause, Invalid
  <2>4. ASSUME NEW p \in Ports PROVE Live(p) \subseteq (IF bPatient /\ resets = 0 THEN {} ELSE owned)
    <3>1. Live(p) \subseteq Registered(p) /\ Registered(p) \subseteq owned
      BY DEF Flow, Inv, Tables, Known
    <3>2. ASSUME resets = 0 PROVE Live(p) = {}
      <4>1. ~(nBufferHdrNum[p] > 0)
        BY <2>1, <3>2 DEF Tidy, Left
      <4>2. nBufferHdrNum[p] \in 0..nBufferCountActual
        BY EmptyTable DEF Inv, Tables
      <4>3. nBufferHdrNum[p] = 0
        BY <4>1, <4>2, PortAssumption
      <4>4. Registered(p) = {}
        BY <4>3, EmptyTable DEF Inv, Tables
      <4>5. QED BY <3>1, <4>4
    <3>3. QED BY <3>1, <3>2
  <2>5. QED BY <2>2, <2>3, <2>4
<1>2. Init => ~stray
  BY DEF Init
<1>3. QED
  BY <1>1, <1>2, StrayNext, InvInit, InvNext, ResourcedInit, ResourcedNext, FlowInit, FlowNext,
     TidyInit, TidyNext, TypeCorrect, PTL DEF Spec
=============================================================================
