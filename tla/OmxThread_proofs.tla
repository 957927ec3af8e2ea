-------------------------- MODULE OmxThread_proofs ---------------------------
(***************************************************************************)
(* No wake-up of a component's thread is lost, for any set of clients and  *)
(* any number of calls.  The thread may be past the point where it would   *)
(* see a new message; then the message's Up finds SemCnt = 0, or finds it  *)
(* 1 because a permit is still waiting for the thread.                     *)
(***************************************************************************)
EXTENDS OmxThread, TLAPS

\* The thread goes past ProcessCmd (ProcessBuffer) again before it sleeps on an
\* empty semaphore.
WillLook(m) ==
    \/ SemCnt = 1
    \/ pc \in {"test", "cmd", "stopped"}
    \/ m = BUFFER /\ pc = "buf"

Heeded == \A m \in unseen : WillLook(m) \/ \E c \in Clients : at[c] = "up"

IInv == TypeOK /\ SemCntExact /\ Heeded

LEMMA InitInv == Init => IInv
<1> SUFFICES ASSUME Init PROVE IInv
  OBVIOUS
<1>1. TypeOK
  <2>1. waiting \in [Messages -> Nat] /\ unseen \subseteq Messages
    BY DEF Init
  <2>2. at \in [Clients -> {"idle", "checked", "pended", "up"}] /\ calls \in [Clients -> Nat]
    BY DEF Init
  <2>3. SemCnt \in Int /\ outContextSem \in Int
    BY DEF Init
  <2>4. pc \in Steps /\ destruct \in {"no", "up", "join", "done"}
    BY DEF Init, Steps
  <2>5. /\ bStopThread \in BOOLEAN /\ ret1 \in BOOLEAN /\ ret2 \in BOOLEAN
        /\ pending \in BOOLEAN /\ undone \in BOOLEAN
    BY DEF Init
  <2>6. QED BY <2>1, <2>2, <2>3, <2>4, <2>5 DEF TypeOK
<1>2. SemCntExact /\ Heeded
  BY DEF Init, SemCntExact, Heeded
<1>3. QED BY <1>1, <1>2 DEF IInv

\* Up leaves SemCnt = 1 and the semaphore in step with it.
LEMMA UpExact ==
    ASSUME SemCntExact, Up, pc' = pc
    PROVE  SemCntExact' /\ SemCnt' = 1
BY DEF SemCntExact, Up

LEMMA NextInv == IInv /\ [Next]_vars => IInv'
<1> SUFFICES ASSUME IInv, [Next]_vars PROVE IInv'
  OBVIOUS
<1> USE DEF IInv, TypeOK, Messages, Steps, thread, client, command
<1>1. ASSUME NEW c \in Clients, SendCommand(c) \/ Pend(c) \/ ResetCommand(c) PROVE IInv'
  <2>1. /\ UNCHANGED <<SemCnt, outContextSem, bStopThread, undone, waiting, unseen, thread, destruct>>
        /\ pending' \in BOOLEAN
    BY <1>1 DEF SendCommand, Pend, ResetCommand
  <2>2. /\ at' \in [Clients -> {"idle", "checked", "pended", "up"}] /\ calls' \in [Clients -> Nat]
        /\ \A d \in Clients : at[d] = "up" => at'[d] = "up"
    BY <1>1 DEF SendCommand, Pend, ResetCommand, Call, Goes
  <2>3. TypeOK' /\ SemCntExact'
    BY <2>1, <2>2 DEF SemCntExact
  <2>4. Heeded'
    BY <2>1, <2>2 DEF Heeded, WillLook
  <2>5. QED BY <2>3, <2>4
<1>12. ASSUME NEW c \in Clients, PostCommand(c) \/ PostBuffer(c) PROVE IInv'
  <2>1. PICK m \in Messages, n \in Nat : Leave(m, n)
    BY <1>12, ThreadAssumption DEF PostCommand, PostBuffer
  <2>2. waiting' \in [Messages -> Nat] /\ unseen' \in SUBSET Messages
    BY <2>1 DEF Leave
  <2>3. at' = [at EXCEPT ![c] = "up"] /\ calls' \in [Clients -> Nat]
    BY <1>12 DEF PostCommand, PostBuffer, Call, Goes
  <2>4. UNCHANGED <<SemCnt, outContextSem, bStopThread, command, thread, destruct>>
    BY <1>12 DEF PostCommand, PostBuffer
  <2>5. TypeOK' /\ SemCntExact'
    BY <2>2, <2>3, <2>4 DEF SemCntExact
  <2>6. Heeded'
    BY <2>3 DEF Heeded
  <2>7. QED BY <2>5, <2>6
<1>13. ASSUME Conclude PROVE IInv'
  BY <1>13 DEF Conclude, SemCntExact, Heeded, WillLook
<1>2. ASSUME NEW c \in Clients, ProcessOutContext(c) PROVE IInv'
  <2>1. SemCntExact' /\ SemCnt' = 1
    BY <1>2, UpExact DEF ProcessOutContext
  <2>2. TypeOK'
    BY <1>2, <2>1 DEF ProcessOutContext, Goes, Up
  <2>3. Heeded'
    BY <2>1 DEF Heeded, WillLook
  <2>4. QED BY <2>1, <2>2, <2>3
<1>3. ASSUME DestructComponent PROVE IInv'
  <2>1. CASE SetStop
    BY <2>1 DEF SetStop, SemCntExact, Heeded, WillLook
  <2>2. CASE StopUp
    <3>1. SemCntExact' /\ SemCnt' = 1
      BY <2>2, UpExact DEF StopUp
    <3>2. TypeOK'
      BY <2>2, <3>1 DEF StopUp, Up
    <3>3. Heeded'
      BY <3>1 DEF Heeded, WillLook
    <3>4. QED BY <3>1, <3>2, <3>3
  <2>3. CASE Join
    BY <2>3 DEF Join, SemCntExact, Heeded, WillLook
  <2>4. QED BY <1>3, <2>1, <2>2, <2>3 DEF DestructComponent
<1>4. ASSUME DownWait PROVE IInv'
  <2>1. SemCnt = 1 /\ SemCnt' = 1
    BY <1>4 DEF DownWait, SemCntExact
  <2>2. TypeOK' /\ SemCntExact'
    BY <1>4 DEF DownWait, SemCntExact
  <2>3. Heeded'
    BY <2>1 DEF Heeded, WillLook
  <2>4. QED BY <2>2, <2>3
<1>5. ASSUME DownCount PROVE IInv'
  <2>1. outContextSem' = SemCnt - 1 /\ SemCnt' = SemCnt - 1 /\ SemCnt = 1
    BY <1>5 DEF DownCount, SemCntExact
  <2>2. SemCntExact'
    BY <1>5, <2>1 DEF DownCount, SemCntExact
  <2>3. TypeOK'
    BY <1>5, <2>1 DEF DownCount
  <2>4. Heeded'
    BY <1>5 DEF DownCount, Heeded, WillLook
  <2>5. QED BY <2>2, <2>3, <2>4
<1>6. ASSUME TestStop PROVE IInv'
  <2>1. TypeOK' /\ SemCntExact'
    BY <1>6 DEF TestStop, SemCntExact
  <2>2. Heeded'
    BY <1>6 DEF TestStop, Heeded, WillLook
  <2>3. QED BY <2>1, <2>2
<1>7. ASSUME ProcessCmd PROVE IInv'
  <2>1. TypeOK' /\ SemCntExact'
    <3>1. waiting' \in [Messages -> Nat] /\ unseen' \in SUBSET Messages
      BY <1>7 DEF ProcessCmd, Process
    <3>2. ret1' \in BOOLEAN /\ pending' \in BOOLEAN /\ undone' \in BOOLEAN
      BY <1>7 DEF ProcessCmd
    <3>3. pc' = "buf" /\ UNCHANGED <<SemCnt, outContextSem, bStopThread, client, destruct, ret2>>
          /\ pc = "cmd"
      BY <1>7 DEF ProcessCmd, Process
    <3>4. QED BY <3>1, <3>2, <3>3 DEF SemCntExact
  <2>2. unseen' = unseen \ {COMMAND} /\ pc' = "buf" /\ pc = "cmd"
        /\ UNCHANGED <<SemCnt, at>>
    BY <1>7 DEF ProcessCmd, Process
  <2>3. Heeded'
    BY <2>2 DEF Heeded, WillLook, COMMAND, BUFFER
  <2>4. QED BY <2>1, <2>3
<1>8. ASSUME ProcessBuffer PROVE IInv'
  <2>1. TypeOK' /\ SemCntExact'
    BY <1>8 DEF ProcessBuffer, Process, SemCntExact
  <2>2. unseen' = unseen \ {BUFFER} /\ pc' = "loop" /\ pc = "buf"
        /\ UNCHANGED <<SemCnt, at>>
    BY <1>8 DEF ProcessBuffer, Process
  <2>3. Heeded'
    BY <2>2 DEF Heeded, WillLook, COMMAND, BUFFER
  <2>4. QED BY <2>1, <2>3
<1>9. ASSUME Loop PROVE IInv'
  <2>1. TypeOK' /\ SemCntExact'
    BY <1>9 DEF Loop, SemCntExact
  <2>2. Heeded'
    BY <1>9 DEF Loop, Heeded, WillLook
  <2>3. QED BY <2>1, <2>2
<1>10. CASE UNCHANGED vars
  BY <1>10 DEF vars, SemCntExact, Heeded, WillLook
<1>11. QED
  BY <1>1, <1>2, <1>3, <1>4, <1>5, <1>6, <1>7, <1>8, <1>9, <1>10, <1>12, <1>13
  DEF Next, Proceed, DoThread

\* The types of the thread's state.
THEOREM TypeCorrect == Spec => []TypeOK
<1>1. IInv => TypeOK
  BY DEF IInv
<1>2. QED
  BY <1>1, InitInv, NextInv, PTL DEF Spec

\* outContextSem is a binary semaphore and SemCnt its exact mirror.
THEOREM SemaphoreBinary == Spec => []SemCntExact
<1>1. IInv => SemCntExact
  BY DEF IInv
<1>2. QED
  BY <1>1, InitInv, NextInv, PTL DEF Spec

\* The thread never sleeps on a message whose Up is over.
THEOREM WakeupsNeverLost == Spec => []NoLostWakeup
<1>1. IInv => NoLostWakeup
  BY DEF IInv, SemCntExact, Heeded, WillLook, NoLostWakeup
<1>2. QED
  BY <1>1, InitInv, NextInv, PTL DEF Spec
=============================================================================
