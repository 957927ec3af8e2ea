------------------------------ MODULE OmxThread ------------------------------
(***************************************************************************)
(* The thread of an out-of-context component (component/common/            *)
(* ComponentBase.cpp, DoThread) and how it is woken.  A client call leaves *)
(* a message in the command queue or in a port queue and then calls        *)
(* ProcessOutContext, which is Up().  The thread sleeps in Down().         *)
(* SendCommand (State.cpp) takes one command at a time, pendingCmd, but    *)
(* tests and sets it without a lock, and a client may reset it.            *)
(*                                                                         *)
(* Up coalesces: it posts outContextSem only when SemCnt is 0.  Its body   *)
(* is one action because SemLock is held throughout.  Down is two, since   *)
(* sem_wait comes before the lock: an Up in between finds SemCnt = 1 and   *)
(* is swallowed.                                                           *)
(***************************************************************************)
EXTENDS Integers, FiniteSets

CONSTANTS
    Clients,    \* threads that send commands and buffers
    MaxCalls,   \* bound: calls each client makes
    MaxPasses   \* bound: passes of ProcessBuffer that one buffer is worth

ASSUME ThreadAssumption ==
    /\ IsFiniteSet(Clients)
    /\ MaxCalls \in Nat
    /\ MaxPasses \in Nat

COMMAND == "COMMAND"    \* MSG_TYPE
BUFFER == "BUFFER"
Messages == {COMMAND, BUFFER}
Steps == {"wait", "count", "test", "cmd", "buf", "loop", "stopped"}

VARIABLES
    SemCnt, outContextSem, bStopThread,
    pending,    \* pendingCmd.cmd is not OMX_CommandMax
    undone,     \* a command was not complete when ProcessCmd returned
    waiting,    \* messages of each kind that the thread has not taken
    unseen,     \* kinds that got a message since ProcessCmd (ProcessBuffer)
                \* was last entered
    pc,         \* DoThread's place
    ret1, ret2, \* TRUE: OMX_ErrorNone
    at,         \* where each client stands in SendCommand, EmptyThisBuffer or
                \* FillThisBuffer
    calls,      \* calls each client made
    destruct    \* DestructComponent: "no", "up", "join", "done"

thread == <<pc, ret1, ret2>>
client == <<at, calls>>
command == <<pending, undone>>
vars == <<SemCnt, outContextSem, bStopThread, command, waiting, unseen, thread,
          client, destruct>>

Init ==
    /\ SemCnt = 0
    /\ outContextSem = 0
    /\ bStopThread = FALSE
    /\ pending = FALSE
    /\ undone = FALSE
    /\ waiting = [m \in Messages |-> 0]
    /\ unseen = {}
    /\ pc = "wait"
    /\ ret1 = FALSE
    /\ ret2 = FALSE
    /\ at = [c \in Clients |-> "idle"]
    /\ calls = [c \in Clients |-> 0]
    /\ destruct = "no"

-----------------------------------------------------------------------------
(* Clients *)

Call(c) ==
    /\ at[c] = "idle"
    /\ destruct = "no"
    /\ calls[c] < MaxCalls
    /\ calls' = [calls EXCEPT ![c] = @ + 1]

Goes(c, place) == at' = [at EXCEPT ![c] = place]

\* DoSendCommand refuses a command while another is pending ...
SendCommand(c) ==
    /\ Call(c)
    /\ ~pending
    /\ Goes(c, "checked")
    /\ UNCHANGED <<SemCnt, outContextSem, bStopThread, command, waiting, unseen, thread,
                   destruct>>

\* ... then makes its own the pending one ...
Pend(c) ==
    /\ at[c] = "checked"
    /\ pending' = TRUE
    /\ Goes(c, "pended")
    /\ UNCHANGED <<SemCnt, outContextSem, bStopThread, undone, waiting, unseen, thread,
                   calls, destruct>>

Leave(m, n) ==
    /\ waiting' = [waiting EXCEPT ![m] = @ + n]
    /\ unseen' = unseen \cup {m}

\* ... and queues it: pCmdQueue->Add.
PostCommand(c) ==
    /\ at[c] = "pended"
    /\ Leave(COMMAND, 1)
    /\ Goes(c, "up")
    /\ UNCHANGED <<SemCnt, outContextSem, bStopThread, command, thread, calls, destruct>>

\* SendCommand(OMX_CommandMax) forgets the pending command, queued or not.
ResetCommand(c) ==
    /\ Call(c)
    /\ pending' = FALSE
    /\ UNCHANGED <<SemCnt, outContextSem, bStopThread, undone, waiting, unseen, thread,
                   at, destruct>>

\* AddBuffer in DoEmptyThisBuffer and DoFillThisBuffer.
PostBuffer(c) ==
    /\ Call(c)
    /\ Leave(BUFFER, MaxPasses)
    /\ Goes(c, "up")
    /\ UNCHANGED <<SemCnt, outContextSem, bStopThread, command, thread, destruct>>

\* The buffers a command waited for come in calls of a client, which concludes it.
Conclude ==
    /\ undone
    /\ undone' = FALSE
    /\ pending' = FALSE
    /\ UNCHANGED <<SemCnt, outContextSem, bStopThread, waiting, unseen, thread, client,
                   destruct>>

\* Mutation: Up does not coalesce.
UpAlways ==
    /\ SemCnt' = SemCnt + 1
    /\ outContextSem' = outContextSem + 1

Up ==
    /\ SemCnt' = 1
    /\ outContextSem' = outContextSem + (IF SemCnt = 0 THEN 1 ELSE 0)

ProcessOutContext(c) ==
    /\ at[c] = "up"
    /\ Up
    /\ Goes(c, "idle")
    /\ UNCHANGED <<bStopThread, command, waiting, unseen, thread, calls, destruct>>

\* OMX_FreeHandle: the client makes no other call by then.
SetStop ==
    /\ destruct = "no"
    /\ \A c \in Clients : at[c] = "idle"
    /\ bStopThread' = TRUE
    /\ destruct' = "up"
    /\ UNCHANGED <<SemCnt, outContextSem, command, waiting, unseen, thread, client>>

\* Mutation: the thread is not woken to see bStopThread.
StopNoUp ==
    /\ destruct = "up"
    /\ destruct' = "join"
    /\ UNCHANGED <<SemCnt, outContextSem, bStopThread, command, waiting, unseen, thread,
                   client>>

StopUp ==
    /\ destruct = "up"
    /\ Up
    /\ destruct' = "join"
    /\ UNCHANGED <<bStopThread, command, waiting, unseen, thread, client>>

Join ==
    /\ destruct = "join"
    /\ pc = "stopped"
    /\ destruct' = "done"
    /\ UNCHANGED <<SemCnt, outContextSem, bStopThread, command, waiting, unseen, thread,
                   client>>

-----------------------------------------------------------------------------
(* The component's thread *)

DownWait ==
    /\ pc = "wait"
    /\ outContextSem > 0
    /\ outContextSem' = outContextSem - 1
    /\ pc' = "count"
    /\ UNCHANGED <<SemCnt, bStopThread, command, waiting, unseen, ret1, ret2, client,
                   destruct>>

\* Mutation: SemCnt is not taken back.
DownNoCount ==
    /\ pc = "count"
    /\ pc' = "test"
    /\ UNCHANGED <<SemCnt, outContextSem, bStopThread, command, waiting, unseen, ret1, ret2,
                   client, destruct>>

DownCount ==
    /\ pc = "count"
    /\ SemCnt' = SemCnt - 1
    /\ pc' = "test"
    /\ UNCHANGED <<outContextSem, bStopThread, command, waiting, unseen, ret1, ret2,
                   client, destruct>>

TestStop ==
    /\ pc = "test"
    /\ pc' = IF bStopThread THEN "stopped" ELSE "cmd"
    /\ ret1' = TRUE
    /\ ret2' = TRUE
    /\ UNCHANGED <<SemCnt, outContextSem, bStopThread, command, waiting, unseen, client,
                   destruct>>

\* A message is taken or not.
Process(m, took) ==
    /\ took => waiting[m] > 0
    /\ unseen' = unseen \ {m}
    /\ waiting' = [waiting EXCEPT ![m] = @ - (IF took THEN 1 ELSE 0)]
    /\ UNCHANGED <<SemCnt, outContextSem, bStopThread, client, destruct>>

\* Without a command it is OMX_ErrorNoMore.  One that is done, or fails, is pending no
\* longer; one that is not complete stays pending and is OMX_ErrorNone as well.
ProcessCmd ==
    /\ pc = "cmd"
    /\ LET took == waiting[COMMAND] > 0
       IN  /\ Process(COMMAND, took)
           /\ \/ ~took /\ ret1' = FALSE /\ UNCHANGED command
              \/ took /\ ret1' \in BOOLEAN /\ pending' = FALSE /\ UNCHANGED undone
              \/ took /\ ret1' = TRUE /\ undone' = TRUE /\ UNCHANGED pending
    /\ pc' = "buf"
    /\ UNCHANGED ret2

\* ProcessBuffer may leave buffers where they are: it returns OMX_ErrorNoMore
\* as soon as one port has none, and an error outside Executing.
ProcessBuffer ==
    /\ pc = "buf"
    /\ \E took \in BOOLEAN :
         /\ Process(BUFFER, took)
         /\ ret2' \in BOOLEAN
         /\ ret2' => took
    /\ pc' = "loop"
    /\ UNCHANGED <<command, ret1>>

\* Mutation: the thread sleeps as soon as there is no buffer to process.
LoopAnd ==
    /\ pc = "loop"
    /\ pc' = IF ret1 /\ ret2 THEN "cmd" ELSE "wait"
    /\ UNCHANGED <<SemCnt, outContextSem, bStopThread, command, waiting, unseen, ret1,
                   ret2, client, destruct>>

Loop ==
    /\ pc = "loop"
    /\ pc' = IF ret1 \/ ret2 THEN "cmd" ELSE "wait"
    /\ UNCHANGED <<SemCnt, outContextSem, bStopThread, command, waiting, unseen, ret1,
                   ret2, client, destruct>>

DoThread ==
    DownWait \/ DownCount \/ TestStop \/ ProcessCmd \/ ProcessBuffer \/ Loop

DestructComponent == SetStop \/ StopUp \/ Join

Proceed(c) == Pend(c) \/ PostCommand(c) \/ ProcessOutContext(c)

Next ==
    \/ \E c \in Clients : SendCommand(c) \/ ResetCommand(c) \/ PostBuffer(c) \/ Proceed(c)
    \/ Conclude
    \/ DestructComponent
    \/ DoThread

Spec == Init /\ [][Next]_vars

\* The threads are scheduled; a call that started goes on to its end.
FairSpec ==
    /\ Spec
    /\ WF_vars(DoThread)
    /\ WF_vars(StopUp \/ Join)
    /\ \A c \in Clients : WF_vars(Proceed(c))

-----------------------------------------------------------------------------
(* Properties *)

TypeOK ==
    /\ SemCnt \in Int
    /\ outContextSem \in Int
    /\ bStopThread \in BOOLEAN
    /\ pending \in BOOLEAN /\ undone \in BOOLEAN
    /\ waiting \in [Messages -> Nat]
    /\ unseen \subseteq Messages
    /\ pc \in Steps
    /\ ret1 \in BOOLEAN /\ ret2 \in BOOLEAN
    /\ at \in [Clients -> {"idle", "checked", "pended", "up"}]
    /\ calls \in [Clients -> Nat]
    /\ destruct \in {"no", "up", "join", "done"}

\* SemCnt mirrors the semaphore, plus the permit a thread holds between its
\* sem_wait and its decrement: the semaphore is binary and SemCnt, an unsigned
\* number, never goes below 0.
SemCntExact ==
    /\ SemCnt = outContextSem + (IF pc = "count" THEN 1 ELSE 0)
    /\ outContextSem \in 0..1
    /\ SemCnt \in 0..1

\* No wake-up is lost although Up coalesces: after the last command, or buffer, was
\* left, the thread does not sleep before it has entered ProcessCmd, or ProcessBuffer,
\* unless the call that left it is still on its way to Up.
NoLostWakeup ==
    pc = "wait" /\ outContextSem = 0 =>
        \A m \in unseen : \E c \in Clients : at[c] = "up"

\* The thread sleeps on a command: it was queued with another, behind one Up, and the
\* other failed, which ends the loop of DoThread.
LeftBehind ==
    /\ pc = "wait" /\ outContextSem = 0
    /\ waiting[COMMAND] > 0 /\ COMMAND \notin unseen
    /\ ~ret1

\* Every command is taken from the queue, even when several were queued behind one Up,
\* unless one is left behind by another that failed; and a pass over the ports begins
\* after every buffer.  Or the component is being destroyed.
EventuallyTaken ==
    /\ waiting[COMMAND] > 0 ~> waiting[COMMAND] = 0 \/ LeftBehind \/ bStopThread
    /\ BUFFER \in unseen ~> BUFFER \notin unseen \/ bStopThread

\* DestructComponent returns: the thread sees bStopThread even when its Up is
\* coalesced with an earlier one.
Destroyed == bStopThread ~> destruct = "done"
=============================================================================
