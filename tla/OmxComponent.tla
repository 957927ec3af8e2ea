---------------------------- MODULE OmxComponent -----------------------------
(***************************************************************************)
(* An OpenMAX component of fsl_imx_omx: the command and state machine of   *)
(* component/common (ComponentBase, State, LoadedState, IdleState,         *)
(* ExecutingState, PauseState, InvalidState) over the ports of OmxPort.    *)
(*                                                                         *)
(* Three kinds of threads share its state without a lock:                  *)
(*   - the component's thread runs ProcessCmd and ProcessBuffer in turn    *)
(*     (how it is woken is the subject of OmxThread);                      *)
(*   - controllers send commands and use, allocate and free buffers; a     *)
(*     command that needs buffers is completed on their thread, by         *)
(*     PortNotify;                                                         *)
(*   - feeders call EmptyThisBuffer and FillThisBuffer.                    *)
(* An action is a stretch of code in which a thread reads or writes        *)
(* pendingCmd, the state, or a port's queue at most once.                  *)
(***************************************************************************)
EXTENDS OmxPort

CONSTANTS
    Controllers,
    Senders,    \* the controllers that send commands
    Feeders,
    Commands,   \* the commands sent, [cmd, nParam]
    Failures,   \* the component's own operations that may fail
    MaxResets,  \* bound: SendCommand(OMX_CommandMax) calls
    bWaits,     \* a client sends a command only when the last one got its event or was
                \* given up, and (a bound) none once one was taken that was given up
    bPatient,   \* and holds its buffers meanwhile, brings or frees just what the
                \* command needs, and in Loaded frees what is left before it goes on
    bTurns      \* its threads make their buffer calls one after the other, not just
                \* those for the same port

\* OMX_STATETYPE.
Invalid == 0
Loaded == 1
Idle == 2
Executing == 3
Pause == 4
WaitForResources == 5
States == {Invalid, Loaded, Idle, Executing, Pause, WaitForResources}

OMX_ALL == -1
PortCommands == {"PortDisable", "PortEnable", "Flush"}
None == [cmd |-> "None", nParam |-> 0]     \* OMX_CommandMax
StateSet(s) == [cmd |-> "StateSet", nParam |-> s]

ASSUME ComponentAssumption ==
    /\ Senders \subseteq Controllers
    /\ Commands \subseteq [cmd : {"StateSet"}, nParam : States]
                     \cup [cmd : PortCommands \cup {"MarkBuffer"}, nParam : Int]
    /\ MaxResets \in Nat
    /\ bWaits \in BOOLEAN /\ bPatient \in BOOLEAN
    /\ bPatient => bWaits
    /\ bTurns \in BOOLEAN

VARIABLES
    eCurState,      \* and CurState, which SetState writes with it
    pendingCmd,
    bProcessed,     \* pendingCmd.bProcessed
    pCmdQueue,
    resources,      \* what DoLoaded2Idle acquires and DoIdle2Loaded releases
    instance,       \* what InstanceInit acquires and InstanceDeInit releases
    pc,             \* the component thread's place
    now, ret,       \* the command in ProcessCmd and its result so far
    stray,          \* a ghost: a command was taken that was not the pending one
    todo,           \* ports the thread has still to go through
    nBuffer,        \* Flush's count of buffers to return
    replies,        \* events ProcessCmd has still to send
    at, call,       \* a controller's place, and what it called
    passing,        \* the header of a feeder between IsEnabled and AddBuffer
    owed,           \* events owed for each command, to state properties with
    dueBack,        \* headers a port must give back before it is done
    resets

threadVars == <<pc, now, ret, stray, todo, nBuffer, replies>>
callVars == <<at, call>>
ghosts == <<owed, dueBack>>
stateVars == <<eCurState, pendingCmd, bProcessed, pCmdQueue, resources, instance>>
vars == <<portVars, stateVars, threadVars, callVars, passing, ghosts, resets>>

Call(op, p, h, s, c) == [op |-> op, port |-> p, header |-> h, state |-> s, cmd |-> c]
NoCall == Call("none", 0, NULL, Loaded, None)

Init ==
    /\ PortInit
    /\ eCurState = Loaded
    /\ pendingCmd = None
    /\ bProcessed \in BOOLEAN           \* not initialised by ConstructComponent
    /\ pCmdQueue = <<>>
    /\ resources = FALSE
    /\ instance = FALSE
    /\ pc = "cmd"
    /\ now = None
    /\ ret = "None"
    /\ stray = FALSE
    /\ todo = <<>>
    /\ nBuffer = 0
    /\ replies = 0
    /\ at = [k \in Controllers |-> "idle"]
    /\ call = [k \in Controllers |-> NoCall]
    /\ passing = [f \in Feeders |-> NULL]
    /\ owed = [c \in Commands |-> 0]
    /\ dueBack = [p \in Ports |-> {}]
    /\ resets = 0

Owe(c) == owed' = [owed EXCEPT ![c] = @ + 1]
Answer(c) == owed' = [owed EXCEPT ![c] = @ - 1]
Answered == \A c \in Commands : owed[c] <= 0
Passing == {passing[f] : f \in Feeders}

\* CheckAllPortsState.
AllPortsOn == bEnabled \subseteq bPopulated
AllPortsOff == bEnabled \cap bPopulated = {}

-----------------------------------------------------------------------------
(* Controllers: SendCommand *)

\* Bound: commands that were given up and are still queued when another is sent.
MaxGivenUp == 1

\* CheckCommand.
CheckCommand(c) ==
    /\ c.cmd = "StateSet" => c.nParam # eCurState
    /\ c.cmd = "PortDisable" =>
          IF c.nParam = OMX_ALL THEN bEnabled # {} ELSE c.nParam \in bEnabled
    /\ c.cmd = "PortEnable" =>
          IF c.nParam = OMX_ALL THEN bEnabled # Ports
          ELSE c.nParam \in Ports \ bEnabled

\* DoSendCommand up to CheckCommand; in any other case it returns an error.
SendCommand(k, c) ==
    /\ at[k] = "idle"
    /\ eCurState \notin {Invalid, WaitForResources}
    /\ pendingCmd = None
    /\ CheckCommand(c)
    /\ bWaits => Answered /\ ~stray /\ Len(pCmdQueue) <= MaxGivenUp
    /\ bPatient /\ eCurState = Loaded => owned = {}
    /\ at' = [at EXCEPT ![k] = "post"]
    /\ call' = [call EXCEPT ![k] = Call("none", 0, NULL, Loaded, c)]
    /\ UNCHANGED <<portVars, stateVars, threadVars, passing, ghosts, resets>>

\* The command becomes the pending one ...
Pend(k) ==
    /\ at[k] = "post"
    /\ pendingCmd' = call[k].cmd
    /\ Owe(call[k].cmd)
    /\ at' = [at EXCEPT ![k] = "pend"]
    /\ UNCHANGED <<portVars, eCurState, bProcessed, pCmdQueue, resources, instance, threadVars,
                   call, passing, dueBack, resets>>

\* Mutation: bProcessed still says what it said of the last command.
KeepProcessed(k) ==
    /\ at[k] = "pend"
    /\ at' = [at EXCEPT ![k] = "add"]
    /\ UNCHANGED <<portVars, stateVars, threadVars, call, passing, ghosts, resets>>

\* ... then it is not yet processed, as bProcessed may have said until now ...
ClearProcessed(k) ==
    /\ at[k] = "pend"
    /\ bProcessed' = FALSE
    /\ at' = [at EXCEPT ![k] = "add"]
    /\ UNCHANGED <<portVars, eCurState, pendingCmd, pCmdQueue, resources, instance, threadVars,
                   call, passing, ghosts, resets>>

\* ... and then it is queued, even if it is no longer the pending one.
PostCommand(k) ==
    /\ at[k] = "add"
    /\ pCmdQueue' = Append(pCmdQueue, call[k].cmd)
    /\ at' = [at EXCEPT ![k] = "idle"]
    /\ call' = [call EXCEPT ![k] = NoCall]
    /\ UNCHANGED <<portVars, eCurState, pendingCmd, bProcessed, resources, instance,
                   threadVars, passing, ghosts, resets>>

\* SendCommand(OMX_CommandMax): "reset Cmd pool if pendingCmd is dead".  The
\* client waits no more for its event.  GMComponent::PortEnable does so when
\* it fails to bring the buffers.
ResetPending(k) ==
    /\ at[k] = "idle"
    /\ eCurState \notin {Invalid, WaitForResources}
    /\ pendingCmd # None
    /\ resets < MaxResets
    /\ bPatient => /\ pendingCmd.cmd = "PortEnable" /\ eCurState # Loaded
                   /\ bProcessed
                   /\ \A j \in Controllers : at[j] = "idle"
    /\ resets' = resets + 1
    /\ pendingCmd' = None
    /\ Answer(pendingCmd)
    /\ UNCHANGED <<portVars, eCurState, bProcessed, pCmdQueue, resources, instance,
                   threadVars, callVars, passing, dueBack>>

-----------------------------------------------------------------------------
(* Controllers: UseBuffer, AllocateBuffer, FreeBuffer *)

\* The states' conditions on UseBuffer and AllocateBuffer.  OMX_ALL is not a
\* port index: IS_PORT_ENABLING and IS_PORT_DISABLING compare with the index.
MayAllocate(p) ==
    \/ eCurState = Loaded /\ pendingCmd = StateSet(Idle)
    \/ eCurState = Idle /\ p \notin bEnabled
    \/ /\ eCurState \in {Executing, Pause}
       /\ pendingCmd = [cmd |-> "PortEnable", nParam |-> p]

MayFree(p) ==
    \/ eCurState = Loaded
    \/ eCurState = Idle /\ pendingCmd = StateSet(Loaded)
    \/ /\ eCurState \in {Idle, Executing, Pause}
       /\ pendingCmd = [cmd |-> "PortDisable", nParam |-> p]

\* What a patient client brings and frees.
Wanted(p) ==
    \/ eCurState = Loaded /\ pendingCmd = StateSet(Idle) /\ p \in bEnabled
    \/ /\ pendingCmd.cmd = "PortEnable" /\ pendingCmd.nParam \in {p, OMX_ALL}
       /\ p \notin bEnabled
Unwanted(p) ==
    \/ pendingCmd = StateSet(Loaded)
    \/ pendingCmd.cmd = "PortDisable" /\ pendingCmd.nParam \in {p, OMX_ALL}
    \/ eCurState = Loaded /\ Answered

NobodyAt(p) ==
    \A k \in Controllers : at[k] \in {"idle", "post", "pend", "add"} \/ (~bTurns /\ call[k].port # p)

Enter(k, place, op, p, h) ==
    /\ at' = [at EXCEPT ![k] = place]
    /\ call' = [call EXCEPT ![k] = Call(op, p, h, eCurState, None)]

Leave(k) ==
    /\ at' = [at EXCEPT ![k] = "idle"]
    /\ call' = [call EXCEPT ![k] = NoCall]

\* UseBuffer or AllocateBuffer, up to its wait for bProcessed.
Allocate(k, p) ==
    /\ at[k] = "idle" /\ NobodyAt(p)
    /\ MayAllocate(p)
    /\ bPatient => Wanted(p) /\ p \notin bPopulated
    /\ Enter(k, "wait", "allocate", p, NULL)
    /\ UNCHANGED <<portVars, stateVars, threadVars, passing, ghosts, resets>>

\* LoadedState::UseBuffer before anyone asked for Idle: it polls for that.
UseEarly(k, p) ==
    /\ at[k] = "idle" /\ NobodyAt(p)
    /\ eCurState = Loaded
    /\ pendingCmd # StateSet(Idle)
    /\ ~bPatient
    /\ Enter(k, "poll", "allocate", p, NULL)
    /\ UNCHANGED <<portVars, stateVars, threadVars, passing, ghosts, resets>>

PollOver(k) ==
    /\ at[k] = "poll"
    /\ pendingCmd = StateSet(Idle)
    /\ at' = [at EXCEPT ![k] = "pollwait"]
    /\ UNCHANGED <<portVars, stateVars, threadVars, call, passing, ghosts, resets>>

\* Any header that exists and that no thread passes or frees: a client may
\* leave it to FreeBuffer to return the ones that the port has queued, as
\* GMComponent::PortFreeBuffers does.
Free(k, h) ==
    /\ at[k] = "idle" /\ NobodyAt(PortOf(h))
    /\ h \in Live(PortOf(h)) \ Passing
    /\ MayFree(PortOf(h))
    /\ bPatient => Unwanted(PortOf(h))
    /\ Enter(k, IF eCurState = Loaded THEN "act" ELSE "wait", "free", PortOf(h), h)
    /\ UNCHANGED <<portVars, stateVars, threadVars, passing, ghosts, resets>>

\* WAIT_CONDTION(bProcessed) is over, and in Loaded the command is looked at
\* once more; on another command the call returns an error.
WaitOver(k) ==
    /\ at[k] \in {"wait", "pollwait"}
    /\ bProcessed
    /\ IF at[k] = "wait" /\ call[k].state = Loaded /\ pendingCmd.cmd # "StateSet"
       THEN Leave(k)
       ELSE at' = [at EXCEPT ![k] = "act"] /\ UNCHANGED call
    /\ UNCHANGED <<portVars, stateVars, threadVars, passing, ghosts, resets>>

\* OMX_ErrorTimeout, or OMX_ErrorIncorrectStateOperation after the polls.  A
\* wait that expires read bProcessed before it was set, and might as well have
\* expired then.
WaitTimeout(k) ==
    /\ at[k] = "poll" \/ (at[k] \in {"wait", "pollwait"} /\ ~bProcessed)
    /\ Leave(k)
    /\ UNCHANGED <<portVars, stateVars, threadVars, passing, ghosts, resets>>

\* Port::UseBuffer and Port::AllocateBuffer, up to PortNotify.
AllocateAct(k) ==
    /\ at[k] = "act"
    /\ call[k].op = "allocate"
    /\ \E h \in Headers : RegisterHeader(call[k].port, h)
    /\ IF call[k].port \in bPopulated'
       THEN at' = [at EXCEPT ![k] = "notify"] /\ UNCHANGED call
       ELSE Leave(k)
    /\ UNCHANGED <<stateVars, threadVars, passing, ghosts, resets>>

\* The port is populated or full: the call returns an error.
AllocateRefused(k) ==
    /\ at[k] = "act"
    /\ call[k].op = "allocate"
    /\ \/ call[k].port \in bPopulated
       \/ nBufferHdrNum[call[k].port] >= nBufferCountActual
    /\ Leave(k)
    /\ UNCHANGED <<portVars, stateVars, threadVars, passing, ghosts, resets>>

\* Mutation: the resources are kept.
DoIdle2LoadedNot == UNCHANGED resources

DoIdle2Loaded == resources' = FALSE

\* No memory for the header or the buffer: SendEvent(OMX_EventError), which
\* gives up a Loaded -> Idle transition while no port is populated.
AllocateFails(k) ==
    /\ "DoAllocateBuffer" \in Failures
    /\ at[k] = "act"
    /\ call[k].op = "allocate"
    /\ call[k].port \notin bPopulated
    /\ nBufferHdrNum[call[k].port] < nBufferCountActual
    /\ IF /\ pendingCmd = StateSet(Idle) /\ eCurState = Loaded
          /\ AllPortsOff
       THEN /\ DoIdle2Loaded
            /\ pendingCmd' = None
            /\ Answer(pendingCmd)
       ELSE UNCHANGED <<resources, pendingCmd, owed>>
    /\ Leave(k)
    /\ UNCHANGED <<portVars, eCurState, bProcessed, pCmdQueue, instance, threadVars,
                   passing, dueBack, resets>>

\* Port::FreeBuffer: IsAllBuffersReturned, else ComponentReturnBuffer.
FreeAct(k) ==
    /\ at[k] = "act"
    /\ call[k].op = "free"
    /\ LET p == call[k].port
       IN  IF IsAllBuffersReturned(p)
           THEN /\ at' = [at EXCEPT ![k] = "match"]
                /\ UNCHANGED flow
           ELSE /\ at' = [at EXCEPT ![k] = "drain"]
                /\ ReturnHeld(p)
    /\ UNCHANGED <<bEnabled, bPopulated, table, stateVars, threadVars, call, passing,
                   ghosts, resets>>

\* Mutation: the loop goes on when the queue is empty.
FreeDrainOn(k) ==
    /\ at[k] = "drain"
    /\ at' = [at EXCEPT ![k] = "get"]
    /\ UNCHANGED <<portVars, stateVars, threadVars, call, passing, ghosts, resets>>

\* ReturnBuffers: while(BufferNum() > 0) { GetBuffer(); SendBuffer(); }
FreeDrain(k) ==
    /\ at[k] = "drain"
    /\ at' = [at EXCEPT ![k] = IF BufferNum(call[k].port) > 0 THEN "get" ELSE "match"]
    /\ UNCHANGED <<portVars, stateVars, threadVars, call, passing, ghosts, resets>>

FreeGet(k) ==
    /\ at[k] = "get"
    /\ LET p == call[k].port
       IN  /\ GetAndSendBuffer(p)
           /\ dueBack' = [dueBack EXCEPT ![p] = @ \ {Head(pPortQueue[p])}]
    /\ at' = [at EXCEPT ![k] = "drain"]
    /\ UNCHANGED <<stateVars, threadVars, call, passing, owed, resets>>

\* The rest of Port::FreeBuffer, up to PortNotify.
FreeMatch(k) ==
    /\ at[k] = "match"
    /\ LET p == call[k].port
       IN  \/ /\ UnregisterHeader(p, call[k].header)
              /\ IF nBufferHdrNum'[p] = 0
                 THEN at' = [at EXCEPT ![k] = "notify"] /\ UNCHANGED call
                 ELSE Leave(k)
           \/ /\ call[k].header \notin Registered(p)
              /\ Leave(k)
              /\ UNCHANGED portVars
    /\ UNCHANGED <<stateVars, threadVars, passing, ghosts, resets>>

-----------------------------------------------------------------------------
(* Controllers: PortNotify *)

\* Mutation: the first port that is populated completes the transition.
CompletedOnFirst(p) ==
    \/ pendingCmd = StateSet(Idle)
    \/ pendingCmd.cmd = "PortEnable" /\ pendingCmd.nParam \in {p, OMX_ALL}

\* Mutation: PORT_ON asks whether the ports are off.
CompletedOff(p) ==
    \/ pendingCmd = StateSet(Idle) /\ AllPortsOff
    \/ pendingCmd.cmd = "PortEnable" /\ pendingCmd.nParam = p

\* Does the port that was populated complete the pending command?
CompletedOn(p) ==
    \/ pendingCmd = StateSet(Idle) /\ AllPortsOn
    \/ /\ pendingCmd.cmd = "PortEnable"
       /\ IF pendingCmd.nParam = OMX_ALL THEN AllPortsOn ELSE pendingCmd.nParam = p

\* Mutation: PORT_OFF asks whether the ports are on.
UnloadedOn == pendingCmd = StateSet(Loaded) /\ AllPortsOn

\* Does the port whose last header was freed?  It may also give up Loaded ->
\* Idle.  A PortDisable of OMX_ALL looks at the ports with PORT_ON.
Unloaded == pendingCmd = StateSet(Loaded) /\ AllPortsOff
RolledBack == pendingCmd = StateSet(Idle) /\ eCurState = Loaded /\ AllPortsOff
Disabled(p) ==
    /\ pendingCmd.cmd = "PortDisable"
    /\ IF pendingCmd.nParam = OMX_ALL THEN AllPortsOn ELSE pendingCmd.nParam = p

ReplyIf(k, completed) ==
    IF completed THEN at' = [at EXCEPT ![k] = "reply"] /\ UNCHANGED call ELSE Leave(k)

NotifyOn(k) ==
    /\ at[k] = "notify"
    /\ call[k].op = "allocate"
    /\ ReplyIf(k, CompletedOn(call[k].port))
    /\ UNCHANGED <<portVars, stateVars, threadVars, passing, ghosts, resets>>

\* PORT_OFF; a transition that is given up gets no event.
NotifyOff(k) ==
    /\ at[k] = "notify"
    /\ call[k].op = "free"
    /\ ReplyIf(k, Unloaded \/ Disabled(call[k].port))
    /\ IF Unloaded \/ RolledBack THEN DoIdle2Loaded ELSE UNCHANGED resources
    /\ IF RolledBack THEN pendingCmd' = None /\ Answer(pendingCmd)
                     ELSE UNCHANGED <<pendingCmd, owed>>
    /\ UNCHANGED <<portVars, eCurState, bProcessed, pCmdQueue, instance, threadVars,
                   passing, dueBack, resets>>

\* SendEvent for the command that is pending by now, up to SetState.
Reply(k) ==
    /\ at[k] = "reply"
    /\ call' = [call EXCEPT ![k].cmd = pendingCmd]
    /\ pendingCmd' = None
    /\ at' = [at EXCEPT ![k] = "conclude"]
    /\ UNCHANGED <<portVars, eCurState, bProcessed, pCmdQueue, resources, instance,
                   threadVars, passing, ghosts, resets>>

Conclude(k) ==
    /\ at[k] = "conclude"
    /\ LET c == call[k].cmd
       IN  /\ eCurState' = IF c.cmd = "StateSet" THEN c.nParam ELSE eCurState
           /\ IF c \in Commands THEN Answer(c) ELSE UNCHANGED owed
    /\ Leave(k)
    /\ UNCHANGED <<portVars, pendingCmd, bProcessed, pCmdQueue, resources, instance,
                   threadVars, passing, dueBack, resets>>

-----------------------------------------------------------------------------
(* Feeders: EmptyThisBuffer, FillThisBuffer *)

\* DoEmptyThisBuffer and DoFillThisBuffer up to IsEnabled.
PassBuffer(f, h) ==
    /\ passing[f] = NULL
    /\ h \in owned \ Passing
    /\ \A k \in Controllers : call[k].header # h
    /\ eCurState \in {Idle, Executing, Pause}
    /\ PortOf(h) \in bEnabled
    /\ bPatient => Answered
    /\ passing' = [passing EXCEPT ![f] = h]
    /\ UNCHANGED <<portVars, stateVars, threadVars, callVars, ghosts, resets>>

QueueBuffer(f) ==
    /\ passing[f] # NULL
    /\ AddBuffer(passing[f])
    /\ passing' = [passing EXCEPT ![f] = NULL]
    /\ UNCHANGED <<stateVars, threadVars, callVars, ghosts, resets>>

-----------------------------------------------------------------------------
(* The component's thread: ProcessCmd *)

AllPorts == [i \in 1..nPorts |-> i - 1]

\* pCmdQueue->Get, and the handler up to the ports it goes through.
Take(c, result, ports) ==
    /\ pc = "cmd"
    /\ pCmdQueue # <<>>
    /\ c = Head(pCmdQueue)
    /\ pCmdQueue' = Tail(pCmdQueue)
    /\ now' = c
    /\ ret' = result
    /\ stray' = (stray \/ c # pendingCmd)
    /\ todo' = ports
    /\ pc' = IF ports = <<>> THEN "processed" ELSE "ports"
    /\ UNCHANGED <<portVars, eCurState, pendingCmd, bProcessed, nBuffer, replies,
                   callVars, passing, ghosts, resets>>

\* LoadedState::ToIdle waits for the buffers of the ports that are enabled.
LoadedToIdle ==
    /\ eCurState = Loaded
    /\ \/ /\ Take(StateSet(Idle), IF bEnabled = {} THEN "None" ELSE "NotComplete", <<>>)
          /\ resources' = TRUE
       \/ /\ "DoLoaded2Idle" \in Failures
          /\ Take(StateSet(Idle), "Error", <<>>)
          /\ DoIdle2Loaded
    /\ UNCHANGED instance

\* IdleState::ToLoaded waits until they are freed.
IdleToLoaded ==
    /\ eCurState = Idle
    /\ Take(StateSet(Loaded), IF bEnabled = {} THEN "None" ELSE "NotComplete", <<>>)
    /\ IF bEnabled = {} THEN DoIdle2Loaded ELSE UNCHANGED resources
    /\ UNCHANGED instance

\* Mutation: the instance is kept.
InstanceDeInitNot == UNCHANGED instance

InstanceDeInit == instance' = FALSE

\* IdleState::ToExecuting and ToPause.
IdleToRunning ==
    /\ eCurState = Idle
    /\ \E s \in {Executing, Pause} :
         \/ Take(StateSet(s), "None", <<>>) /\ instance' = TRUE
         \/ /\ "InstanceInit" \in Failures
            /\ Take(StateSet(s), "Error", <<>>)
            /\ InstanceDeInit
    /\ UNCHANGED resources

\* ExecutingState::ToIdle and PauseState::ToIdle.
RunningToIdle ==
    /\ eCurState \in {Executing, Pause}
    /\ Take(StateSet(Idle), "None", AllPorts)
    /\ InstanceDeInit
    /\ UNCHANGED resources

\* Mutation: Executing and Pause are taken from any state.
AcceptedAnywhere(s) ==
    s = eCurState \/ s \in {Executing, Pause} \/ eCurState = WaitForResources

\* The transitions that need nothing, and those that a state refuses.
Accepted(s) ==
    \/ s = eCurState
    \/ s = Invalid /\ eCurState # Loaded
    \/ {s, eCurState} = {Executing, Pause}
    \/ eCurState = WaitForResources
Refused(s) ==
    /\ s # eCurState
    /\ \/ eCurState = Invalid
       \/ eCurState # WaitForResources /\ s = WaitForResources
       \/ eCurState = Loaded /\ s \in {Invalid, Executing, Pause}
       \/ eCurState \in {Executing, Pause} /\ s = Loaded
       \/ eCurState = Executing /\ s = Pause /\ "DoExec2Pause" \in Failures

OtherStateSet ==
    /\ \E s \in States : \/ Accepted(s) /\ Take(StateSet(s), "None", <<>>)
                         \/ Refused(s) /\ Take(StateSet(s), "Error", <<>>)
    /\ UNCHANGED <<resources, instance>>

\* Flush, PortDisable and PortEnable; OMX_ErrorBadParameter for a bad port.
\* MarkBuffer needs nothing of what is modelled here.
PortCommand ==
    /\ \E c \in Commands :
         \/ /\ c.cmd \in PortCommands
            /\ IF c.nParam = OMX_ALL THEN Take(c, "None", AllPorts)
               ELSE IF c.nParam \in Ports THEN Take(c, "None", <<c.nParam>>)
               ELSE Take(c, "Error", <<>>)
         \/ /\ c.cmd = "MarkBuffer"
            /\ Take(c, IF c.nParam \in Ports THEN "None" ELSE "Error", <<>>)
    /\ UNCHANGED <<resources, instance>>

\* Mutation: one turn too many.
ToProcessedLate == IF Len(todo) = 0 THEN "processed" ELSE "ports"

ToProcessed == IF Len(todo) = 1 THEN "processed" ELSE "ports"

\* Port::Enable and Port::Disable, up to ReturnBuffers.
EnablePort ==
    /\ pc = "ports" /\ now.cmd = "PortEnable"
    /\ LET p == Head(todo)
       IN  /\ ret' = IF p \in bEnabled THEN "Error"
                     ELSE IF eCurState = Loaded THEN "None" ELSE "NotComplete"
           /\ bEnabled' = IF eCurState = Loaded THEN bEnabled \cup {p} ELSE bEnabled
    /\ todo' = Tail(todo)
    /\ pc' = ToProcessed
    /\ UNCHANGED <<bPopulated, table, flow, stateVars, now, nBuffer, replies, stray, callVars,
                   passing, ghosts, resets>>

DisablePort ==
    /\ pc = "ports" /\ now.cmd = "PortDisable"
    /\ LET p == Head(todo)
       IN  /\ bEnabled' = bEnabled \ {p}
           /\ IF p \notin bEnabled \/ eCurState = Loaded
              THEN /\ ret' = IF p \notin bEnabled THEN "Error" ELSE "None"
                   /\ todo' = Tail(todo)
                   /\ pc' = ToProcessed
                   /\ UNCHANGED <<flow, dueBack>>
              ELSE /\ ret' = "NotComplete"
                   /\ ReturnHeld(p)
                   /\ dueBack' = [dueBack EXCEPT ![p] = Queued(p)]
                   /\ pc' = "drain"
                   /\ UNCHANGED todo
    /\ UNCHANGED <<bPopulated, table, stateVars, now, nBuffer, replies, stray, callVars,
                   passing, owed, resets>>

\* Mutation: off by one.
FlushAllButOne(p) == BufferNum(p) - 1

FlushCount(p) == BufferNum(p)

\* ReturnBuffers of ToIdle, and Flush with its count of buffers.
ReturnPort ==
    /\ pc = "ports" /\ now.cmd \in {"StateSet", "Flush"}
    /\ LET p == Head(todo)
       IN  /\ ReturnHeld(p)
           /\ dueBack' = [dueBack EXCEPT ![p] = Queued(p)]
           /\ nBuffer' = IF now.cmd = "Flush" THEN FlushCount(p) ELSE 0
    /\ pc' = "drain"
    /\ UNCHANGED <<bEnabled, bPopulated, table, stateVars, now, ret, todo, replies,
                   stray, callVars, passing, owed, resets>>

\* One turn of the loop: over Flush's count, or while BufferNum() > 0.
Drain ==
    /\ pc = "drain"
    /\ IF IF now.cmd = "Flush" THEN nBuffer > 0 ELSE BufferNum(Head(todo)) > 0
       THEN pc' = "get" /\ UNCHANGED todo
       ELSE pc' = ToProcessed /\ todo' = Tail(todo)
    /\ UNCHANGED <<portVars, stateVars, now, ret, nBuffer, replies, stray, callVars, passing,
                   ghosts, resets>>

DrainGet ==
    /\ pc = "get"
    /\ LET p == Head(todo)
       IN  /\ GetAndSendBuffer(p)
           /\ dueBack' = [dueBack EXCEPT ![p] = @ \ {Head(pPortQueue[p])}]
    /\ nBuffer' = IF now.cmd = "Flush" THEN nBuffer - 1 ELSE nBuffer
    /\ pc' = "drain"
    /\ UNCHANGED <<stateVars, now, ret, todo, replies, stray, callVars, passing, owed, resets>>

\* Mutation: every command gets an event for each port.
EventsForAll(c) == nPorts

EventsFor(c) == IF c.nParam = OMX_ALL THEN nPorts ELSE 1

\* bProcessed = TRUE; with OMX_ErrorNotComplete that is all.
Processed ==
    /\ pc = "processed"
    /\ bProcessed' = TRUE
    /\ IF ret = "NotComplete"
       THEN pc' = "buf" /\ UNCHANGED replies
       ELSE pc' = "clear" /\ replies' = EventsFor(now)
    /\ UNCHANGED <<portVars, eCurState, pendingCmd, pCmdQueue, resources, instance,
                   now, ret, todo, nBuffer, stray, callVars, passing, ghosts, resets>>

\* pendingCmd.cmd = OMX_CommandMax, in SendEvent or before it, whatever command
\* is pending by now.
ClearPending ==
    /\ pc = "clear"
    /\ pendingCmd' = None
    /\ pc' = "event"
    /\ UNCHANGED <<portVars, eCurState, bProcessed, pCmdQueue, resources, instance, now,
                   ret, todo, nBuffer, replies, stray, callVars, passing, ghosts, resets>>

\* The rest of SendEvent: SetState, or what an error gives up if a Loaded -> Idle
\* transition is pending by now, and the EventHandler callback.  With OMX_ALL there is
\* an event for each port, the first of which answers.
Event ==
    /\ pc = "event"
    /\ eCurState' = IF ret = "None" /\ now.cmd = "StateSet" THEN now.nParam ELSE eCurState
    /\ IF ret = "Error" /\ RolledBack
       THEN DoIdle2Loaded /\ pendingCmd' = None
       ELSE UNCHANGED <<resources, pendingCmd>>
    /\ IF now.nParam # OMX_ALL \/ replies = nPorts THEN Answer(now) ELSE UNCHANGED owed
    /\ replies' = replies - 1
    /\ pc' = IF replies = 1 THEN "buf" ELSE "clear"
    /\ UNCHANGED <<portVars, bProcessed, pCmdQueue, instance, now, ret, todo, nBuffer,
                   stray, callVars, passing, dueBack, resets>>

-----------------------------------------------------------------------------
(* The component's thread: ProcessBuffer *)

\* DoThread calls ProcessCmd before each ProcessBuffer.
BufferTurn == pc = "buf" \/ (pc = "cmd" /\ pCmdQueue = <<>>)

\* A filter takes a buffer: BufferNum() > 0, and then GetBuffer.  It does not
\* ask whether the port is enabled.
TakeBuffer(p) ==
    /\ BufferTurn
    /\ eCurState = Executing
    /\ BufferNum(p) > 0
    /\ pc' = "take"
    /\ todo' = <<p>>
    /\ UNCHANGED <<portVars, stateVars, now, ret, nBuffer, replies, stray, callVars, passing,
                   ghosts, resets>>

TakeGet ==
    /\ pc = "take"
    /\ GetAndHoldBuffer(Head(todo))
    /\ pc' = "cmd"
    /\ todo' = <<>>
    /\ UNCHANGED <<stateVars, now, ret, nBuffer, replies, stray, callVars, passing, ghosts, resets>>

\* A buffer is consumed or filled.
SendDone(h) ==
    /\ BufferTurn
    /\ eCurState = Executing
    /\ SendHeld(h)
    /\ pc' = "cmd"
    /\ UNCHANGED <<stateVars, now, ret, todo, nBuffer, replies, stray, callVars, passing, ghosts,
                   resets>>

NoBuffer ==
    /\ pc = "buf"
    /\ pc' = "cmd"
    /\ UNCHANGED <<portVars, stateVars, now, ret, todo, nBuffer, replies, stray, callVars, passing,
                   ghosts, resets>>

-----------------------------------------------------------------------------
ProcessCmd ==
    \/ LoadedToIdle \/ IdleToLoaded \/ IdleToRunning \/ RunningToIdle \/ OtherStateSet
    \/ PortCommand
    \/ EnablePort \/ DisablePort \/ ReturnPort \/ Drain \/ DrainGet
    \/ Processed \/ ClearPending \/ Event

ProcessBuffer ==
    \/ \E p \in Ports : TakeBuffer(p)
    \/ TakeGet
    \/ \E h \in Headers : SendDone(h)
    \/ NoBuffer

DoThread == ProcessCmd \/ ProcessBuffer

\* A call that started goes on to its end.
Proceed(k) ==
    \/ Pend(k) \/ ClearProcessed(k) \/ PostCommand(k)
    \/ PollOver(k) \/ WaitOver(k)
    \/ AllocateAct(k) \/ AllocateRefused(k) \/ AllocateFails(k)
    \/ FreeAct(k) \/ FreeDrain(k) \/ FreeGet(k) \/ FreeMatch(k)
    \/ NotifyOn(k) \/ NotifyOff(k) \/ Reply(k) \/ Conclude(k)

BufferCall(k) ==
    \/ \E p \in Ports : Allocate(k, p)
    \/ \E h \in Headers : Free(k, h)

Control(k) ==
    \/ k \in Senders /\ \E c \in Commands : SendCommand(k, c)
    \/ k \in Senders /\ ResetPending(k)
    \/ BufferCall(k)
    \/ \E p \in Ports : UseEarly(k, p)
    \/ WaitTimeout(k)
    \/ Proceed(k)

Feed(f) == (\E h \in Headers : PassBuffer(f, h)) \/ QueueBuffer(f)

Next ==
    \/ \E k \in Controllers : Control(k)
    \/ \E f \in Feeders : Feed(f)
    \/ DoThread

Spec == Init /\ [][Next]_vars

\* The threads are scheduled, and a patient client brings the buffers that the
\* pending command needs and frees those it has to.
FairSpec ==
    /\ Spec
    /\ WF_vars(DoThread)
    /\ \A k \in Controllers : WF_vars(Proceed(k)) /\ WF_vars(BufferCall(k))
    /\ \A f \in Feeders : WF_vars(QueueBuffer(f))
-----------------------------------------------------------------------------
(* Properties *)

StateTypeOK ==
    /\ eCurState \in States
    /\ pendingCmd \in Commands \cup {None}
    /\ bProcessed \in BOOLEAN
    /\ pCmdQueue \in Seq(Commands)
    /\ resources \in BOOLEAN /\ instance \in BOOLEAN

ThreadTypeOK ==
    /\ pc \in {"cmd", "ports", "drain", "get", "processed", "clear", "event", "buf", "take"}
    /\ now \in Commands \cup {None}
    /\ ret \in {"None", "NotComplete", "Error"}
    /\ stray \in BOOLEAN
    /\ todo \in Seq(Ports)
    /\ pc \in {"ports", "drain", "get", "take"} => todo # <<>>
    /\ nBuffer \in Int /\ replies \in Int

Places == {"idle", "post", "pend", "add", "poll", "pollwait", "wait", "act", "drain", "get",
           "match", "notify", "reply", "conclude"}

CallTypeOK ==
    /\ at \in [Controllers -> Places]
    /\ call \in [Controllers -> [op : {"none", "allocate", "free"}, port : Ports,
                                 header : Headers \cup {NULL}, state : States,
                                 cmd : Commands \cup {None}]]
    /\ \A k \in Controllers : at[k] \in {"post", "pend", "add"} => call[k].cmd \in Commands
    /\ passing \in [Feeders -> Headers \cup {NULL}]
    /\ owed \in [Commands -> Int]
    /\ dueBack \in [Ports -> SUBSET Headers]
    /\ resets \in 0..MaxResets

TypeOK == PortTypeOK /\ StateTypeOK /\ ThreadTypeOK /\ CallTypeOK

\* A command that ProcessCmd has taken and not yet replied to.
InProcess == pc \in {"ports", "drain", "get", "processed", "clear"}
Running(s) ==
    \/ (InProcess \/ pc = "event") /\ now = StateSet(s)
    \/ \E k \in Controllers :
          \/ at[k] = "reply" /\ pendingCmd = StateSet(s)
          \/ at[k] = "conclude" /\ call[k].cmd = StateSet(s)

\* A command that was accepted stays the pending one until it is replied to:
\* PortNotify, IS_PORT_ENABLING and IS_PORT_DISABLING rely on it.
PendingMatches ==
    /\ Len(pCmdQueue) + (IF InProcess THEN 1 ELSE 0) <= 1
    /\ pCmdQueue # <<>> => pendingCmd = Head(pCmdQueue) /\ ~bProcessed
    /\ InProcess => pendingCmd = now

\* An enabled port has all its buffers outside Loaded, except while the
\* component is being unloaded.
PortsPopulated ==
    (eCurState \in {Executing, Pause} \/
     (eCurState = Idle /\ pendingCmd # StateSet(Loaded) /\ ~Running(Loaded)))
    => \A p \in bEnabled : p \in bPopulated /\ nBufferHdrNum[p] = nBufferCountActual

\* Resources are acquired and released with the state they belong to.
ResourcesMatchState ==
    /\ eCurState \in {Idle, Executing, Pause} => resources \/ Running(Loaded)
    /\ eCurState \in {Executing, Pause} => instance \/ Running(Idle)
    /\ eCurState \in {Loaded, Idle} /\ instance => Running(Executing) \/ Running(Pause)

\* "In the Loaded state, the component is not allowed to allocate or hold
\* resources": nothing is left of a session when it is over, but for headers
\* that are with an impatient client, or one that gave up a PortEnable.  Except
\* once the thread took a command that had been given up by then (stray): a thread
\* in UseBuffer may see the command before SendCommand clears bProcessed and queues
\* it, and take the bProcessed of the last one for its own.
Quiescent ==
    /\ pendingCmd = None /\ pCmdQueue = <<>>
    /\ pc \in {"cmd", "buf"} /\ \A k \in Controllers : at[k] = "idle"
LoadedHoldsNothing ==
    (eCurState = Loaded /\ Quiescent) =>
        /\ resources \/ instance => stray
        /\ \A p \in Ports : Live(p) \subseteq (IF bPatient /\ resets = 0 THEN {} ELSE owned)

\* Every header that exists is in its port's table, once: FreeBuffer will find
\* it, and nothing the port queues or holds was freed.
HeadersRegistered == \A p \in Ports : Live(p) = Registered(p)

\* No command gets two events.
AnsweredOnce == \A c \in Commands : owed[c] >= 0

\* Flush, PortDisable and the way to Idle give back what the port had queued,
\* whoever adds or gets buffers meanwhile.
BuffersGivenBack ==
    \A p \in Ports :
        dueBack[p] # {} => pc \in {"drain", "get"} /\ todo # <<>> /\ p = Head(todo)

\* The state changes only along the edges of the OpenMAX state diagram.
LegalTransitions ==
    [][ \/ eCurState' = Invalid
        \/ {eCurState, eCurState'} \in
              {{Loaded, Idle}, {Idle, Executing}, {Idle, Pause}, {Executing, Pause}}
      ]_eCurState

\* Every command that is accepted gets its event.
CommandsConclude == \A c \in Commands : owed[c] > 0 ~> owed[c] = 0

\* FreeBuffer returns.
FreeReturns == \A k \in Controllers : at[k] = "get" ~> at[k] # "get"
=============================================================================
