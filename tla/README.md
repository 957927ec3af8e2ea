# Verification of the i.MX OpenMAX framework

This project models the concurrent core of two parts of the tree. Of
`src/fsl_imx_omx`, NXP's OpenMAX IL framework for i.MX Android, it has the message
queue, the component thread, the command, state and buffer machine that every
codec, parser, renderer and source is built on, the cache that streams are
played through and the pipe that recordings are written through. Of
`src/imx-vpu-hantro`, the Hantro decoder, it has the kernel driver that shares the
hardware among processes, and the layer that calls it. TLC checks small
instances; TLAPS proves the theorems listed below for every value of the
constants.

## 1. The system

The repository collects NXP's proprietary Android sources. Most of it is
prebuilt firmware, libraries, vendor headers and test data (`fsl-codec`,
`fsl-proprietary`, `imx-firmware`, `linux-firmware-imx`, `qca-wifi-bt`), which
there is nothing to model in. The code is:

| Part | State it keeps | Operations | Hard behaviour |
|---|---|---|---|
| Queue (`utils/Queue.cpp`) | node pool on two linked lists, `nQSize`, two semaphores, a mutex | Create, Add, Get, Get(nIndex), Access | semaphores are waited on before the mutex; Access and the bound check read without it |
| Component thread (`ComponentBase.cpp` DoThread, Up, Down) | `SemCnt`, `outContextSem`, `bStopThread` | ProcessOutContext, DestructComponent | wake-ups are coalesced; Down is not atomic |
| Command and state machine (`ComponentBase.cpp`, `State.cpp`, the six states) | `eCurState`, `pendingCmd`, `pCmdQueue`, component resources | SendCommand, ProcessCmd, SendEvent, PortNotify, UseBuffer, AllocateBuffer, FreeBuffer, EmptyThisBuffer, FillThisBuffer | a command is completed on the component's thread or on a client's, without a lock; a failed transition is rolled back |
| Port (`Port.cpp`) | `bEnabled`, `bPopulated`, table of headers, `pPortQueue`, marks | UseBuffer, AllocateBuffer, FreeBuffer, Enable, Disable, Flush, ReturnBuffers, AddBuffer, GetBuffer, SendBuffer; tunnel setup and supplier operations | check, then blocking Get; headers freed in any order |
| Filters, renderers (`VideoFilter.cpp`, `AudioFilter.cpp`, `VideoRender.cpp`, `AudioRender.cpp`) | headers they hold, decoder instance | ProcessDataBuffer, FlushComponent, ComponentReturnBuffer, InstanceInit, InstanceDeInit | take buffers while ports are disabled and flushed |
| Client wrapper (`client/GMComponent.cpp`) | `ProcessingCmd`, `DoneCmd`, buffer tables | SendCommand, WaitCommand, StateTransUpWard/DownWard, PortEnable, PortDisable, TunnelTo | retries, timeouts, late events |
| Players, recorders (`client/GMPlayer.cpp`, `GMRecorder.cpp`, ...) | pipelines of components | load, prepare, play, seek, stop | long call sequences over several components |
| Tunnels (`Port.cpp`) | peer and supplier | SetupTunnel, SupplierAllocateBuffers, SupplierFreeBuffers | two components' threads wait for each other |
| Clock (`component/clock/Clock.cpp`) | clock state, media and wall time bases, wait mask | SetState, SetStartTime, SetTimeScale, SetRefTime, MediaTimeRequest | state read without the mutex; blocking buffer gets |
| Streaming cache (`content_pipe/streaming_common`, `https_pipe_v3`) | ring of cache nodes, offsets, reset request, state of the connection | ReadAt, AvailableAt, GetStreamData, ResetCache, Open, Seek, Read | check and copy under separate locks; the network read and seek are outside the lock |
| Reader of a stream (`StreamingPipe.cpp`, `Parser.cpp`, LoadParser) | position, size of the request | SetPosition, CheckAvailableBytes, Read | polls, reads ahead of what was checked, is aborted |
| Asynchronous write pipe (`content_pipe/async_write_pipe`) | byte ring, queue of entries, position and length of its own | Open, Write, SetPosition, Close, writer thread | writes from the ring outside the lock; stop protocol; full ring |
| Shared fd pipe (`content_pipe/shared_fd_pipe`) | position, length, the file | Open, Write, SetPosition, Read | writes that the device cuts |
| V4L2 components (`component/v4l2_common`) | object queues, threads | QueueBuffer, DequeueBuffer, Flush, VThread start/pause/run_once | condition variable without a predicate |
| Core, core manager, resource manager | registries under a mutex | GetHandle, FreeHandle, AddHwBuffer, ... | little |
| Ring buffer, timestamp managers (`utils/`) | sequential | add, get, consume | wrap-around |
| OSAL | none | wrappers of pthread and semaphores | semantics assumed by the models |
| Hantro kernel driver (`pcidriver/hantrodec.c`) | owners of the core and the post-processor, two semaphores, `dec_irq`, the status register | DEC_RESERVE, DEC_RELEASE, PP_RESERVE, PP_RELEASE, DEC_PUSH_REG, DEC_WAIT, the interrupt, open, release | signals in every wait; processes that end; an interrupt after its decode was given up |
| Hantro wrapper layer (`dwl/dwl_linux.c`, `dwl_linux_sc.c`) | what an instance has reserved | DWLReserveHw, DWLReserveHwPipe, DWLEnableHw, DWLWaitHwReady, DWLDisableHw, DWLReleaseHw | two resources reserved one after the other |
| Hantro codecs (`imx-vpu-hantro`) | frame buffer reference counts | decoder, encoder, their own OpenMAX layer | waits for free buffers |
| CnM VPU library, g2d (`imx-vpu-cnm`, `imx-g2d-pxp`) | device registers | ioctl wrappers | process-shared locks |

How the core fits together: a client calls `OMX_SendCommand`; the state object
checks it, records it in `pendingCmd`, adds it to `pCmdQueue` (a Queue) and
wakes the component's thread with `Up`. The thread runs `ProcessCmd` and
`ProcessBuffer` in turn until both have nothing to do. A command that needs
buffers (Loaded -> Idle, Idle -> Loaded, PortEnable, PortDisable) is left
incomplete; the client's `UseBuffer`, `AllocateBuffer` and `FreeBuffer` wait for
`pendingCmd.bProcessed`, and whichever call populates or empties the last port
completes it by `PortNotify`, on the client's thread. `EmptyThisBuffer` and
`FillThisBuffer` add headers to a port's Queue; filters take them, hold them and
send them back through the client's callbacks.

What makes each part correct: the Queue is a bounded FIFO that loses no node
and never returns QUEUE_OVERFLOW; the thread loses no wake-up and can be
stopped; at most one command is in process and it is the pending one; every
accepted command gets exactly one event; ports are populated when the state
says so; nothing is held in Loaded; buffers come back; headers stay in their
port's table until they are freed. A parser reads from the cache the bytes of
its position, or is told why not; a recording is, to the muxer, a file on
which its calls take effect at once; the decoder hardware runs for one instance at
a time and outlives none. `PROJECT.json` lists the hazards one by one,
each at its line, with the properties that cover it.

## 2. The modules

| Module | Stands for | Built on |
|---|---|---|
| `OmxFifo` | what Queue promises: a bounded sequence (abstract) | |
| `OmxQueue` | `utils/Queue.cpp` | implements `OmxFifo` |
| `OmxThread` | DoThread, Up, Down, DestructComponent | |
| `OmxPort` | the state of the ports and the operations on it | |
| `OmxComponent` | commands, states, SendEvent, PortNotify, buffer processing | `OmxPort` |
| `RecordedFile` | what a muxer expects of the pipe it records to (abstract) | `SharedFdPipe` |
| `SharedFdPipe` | the shared fd pipe, a file with a position, as functions | |
| `AsyncWritePipe` | the asynchronous write pipe, one muxer and the writer thread | `SharedFdPipe`; implements `RecordedFile` |
| `StreamingCache` | the cache thread and the ring | |
| `StreamReader` | a parser that reads through StreamingPipe and ReadAt | `StreamingCache` |
| `HantroDec` | hantrodec.c, one step at a time | |
| `HantroDwl` | the wrapper layer, its processes, and the properties of both | `HantroDec` |
| `MC...` | instances for TLC | |
| `OmxQueue_proofs`, `OmxQueueLists_proofs`, `OmxThread_proofs`, `OmxComponent_proofs`, `AsyncWritePipe_proofs`, `StreamReader_proofs`, `HantroDwl_proofs` | theorems | the module they are about |
| `NatSetInduction` | induction over Nat for sets, and the existence of recursive functions: lemmas | |

### OmxQueue

The linked lists are modelled node by node: `NextNode`, `pFreeNodes`, `pHead`
and `pTail` are the members of the class. What is between `mutex_lock` and
`mutex_unlock` is one action (`AddLocked`, `GetLocked`); the semaphore waits
before it (`AddPermit`, `GetPermit`), the bound check of `Get(nIndex)` and the
reads of `Access` are actions of their own because no lock orders them. A NULL
node that would be dereferenced is the label "fault" or "badread", a return of
QUEUE_OVERFLOW the label "overflow", and each is where the thread then stays: an
invariant shows they are unreachable; "fault" and "badread" only as long as no
other thread takes a message between the check and the read, for which the
ghost `overtaken` stands. The refinement mapping `messages` reads the list from `pHead`.
Messages that Create mallocs are uninitialised, so `pMsg` starts with any value.

### OmxThread

`Up` is one action because `SemLock` is held throughout; `Down` is two. A
message is a COMMAND or a BUFFER. `waiting` counts what the thread has not taken
and `unseen` has the kinds that came since it last looked; a buffer is worth
`MaxPasses` passes of ProcessBuffer. Two commands may be queued behind one Up:
`SendCommand` tests `pending` and `Pend` sets it without a lock, so that two clients get past the
test, and `ResetCommand`, which is SendCommand(OMX_CommandMax), forgets a command that is
still queued. `ProcessCmd` takes one and completes it, fails, or leaves it to a client's
call to `Conclude`. ProcessBuffer may decline (wrong state, the
other port is empty): it takes a message or not, and returns OMX_ErrorNone only
if it took one. When ProcessCmd fails and ProcessBuffer has nothing, `Loop` ends, whatever else is
queued: `LeftBehind`.

### OmxPort and OmxComponent

`OmxComponent` has the component's thread (`DoThread`), controllers (commands and
buffer setup) and feeders (EmptyThisBuffer and FillThisBuffer, which differ
only in the direction of the port they check). An action is a stretch of code
in which a thread reads or writes `pendingCmd`, the state, or a port's queue at
most once; so `DoSendCommand` is `SendCommand` (all checks), `Pend` (the command becomes the
pending one), `ClearProcessed` and `PostCommand` (the queue), `SendEvent` is `ClearPending` and `Event` (`Reply` and `Conclude` on a
client's thread), and `ReturnBuffers` is `Drain` and `DrainGet` (`FreeDrain` and
`FreeGet`). `at[k]` is where a controller's call stands, `pc` where the thread
stands. `held` stands for the lists and pointers in which the filters and
renderers keep headers. `resources` and `instance` are what DoLoaded2Idle and
InstanceInit acquire. `owed` and `dueBack` are ghosts: events owed to the client,
and headers a port has still to return, and `stray` whether the thread ever took a command
that was not the pending one. `cmd` and `nParam` are written one after the other in `Pend`; they
are one value here. State numbers are OMX_STATETYPE's.

Things the code really does that the models keep, because a property or a
finding hangs on them: `bProcessed` is not initialised, and is cleared after the command
that it is about can be seen; a reply clears whatever
command is pending; `UseBuffer` in Loaded polls for a command that may never
come; a header is written at `nBufferHdrNum` whether or not that entry is free;
Flush gets as many buffers as it counted; OMX_ALL makes one event per port.

### Clients

The properties depend on the client, so its discipline is part of the constants:

- `bWaits`: it sends a command only when the last one got its event. So does
  `GMComponent::SendCommand`, which waits while `ProcessingCmd.Cmd` is set. Two bounds go with it:
  at most `MaxGivenUp` commands that were given up are still queued, and no command follows
  once the thread took one (`stray`).
- `bPatient`: it brings and frees exactly the buffers the pending command calls
  for, feeds no buffer while a command is pending (a call that has begun may
  still be on its way), and in Loaded frees leftovers before it goes on. So do
  `GMComponent::DoLoaded2Idle`, `DoIdle2Loaded`, `PortAllocateBuffers` and
  `PortFreeBuffers`.
- `bTurns`: its threads make their buffer calls one after the other, not only
  those for the same port.
- `MaxResets`: it may give up a PortEnable by `SendCommand(OMX_CommandMax)`, as
  `GMComponent::PortEnable` does.

Runs say which they assume. The first two theorems about the component assume none
of them; the others name theirs (`Disciplined`, section 5).

### AsyncWritePipe

`Write` copies a block to a ring and adds an entry to `dataInfoQueue`;
`SetPosition` adds an entry and computes the new position and length without the
file; the thread takes entries and applies them to the file behind it. A
critical section is one action, except that a Write without room keeps the
lock while it sleeps (`cpc = "full"`, and `Unlocked` in the guards of the thread).
What the thread does outside the lock is in two actions: it names the bytes
(`StartChunk`), and they are read (`WriteChunk`), with whatever Write has put
there meanwhile, or `Garbage` if they were freed. `dataInfoQueue` is a bounded sequence, which
is what `OmxQueue` implements. Bytes are pairs of a call and a place in its block, so that every
misplaced byte is seen. `FileToBe` applies to the file what is still under way,
and is the refinement mapping to `RecordedFile`: a call takes effect when the
client has put it on its way, and no step of the thread changes `FileToBe`.

`SharedFdPipe` keeps what the code does at a full device: a write is cut, and
one that writes nothing adds the -1 of `write` to the position.

### StreamingCache and StreamReader

The ring is modelled node by node. A block of data is described by `nBase`, the
place in the stream of its first byte, so that the bytes copied can be compared
with those asked for (`exact`). The thread releases the lock for `Seek` and
`Read`, which are what `HttpsProtocol` makes of `url_seek` and `url_read`. The `Network` breaks
down (`down`) and comes back at any time while they run. A Seek that blocks tries again until it
succeeds, is terminated by `bStopThread` or `bReset`, or is refused; one that does not block may fail
(`Faults` with "seek"). Read gives no error either: `ReadBlock` is what it returns, `ReadNothing`
its termination, and when url_read has failed for too long `ReadTimesOut` begins a
seek to where it is, again and again (`EndReseek`), which on a server without ranges never ends.
On http://localhost without a length (`GetHandleError`) the first url_read that fails is the end; the ghost
`cut` says that it was. The reader's call is split where it takes or releases
the lock: `Prelude` (tests without it), `Find` or `FindAgain` (AvailableAt), `Copy` and
`CopyNext` (one node each; "locked" keeps the thread out). A parser polls
CheckAvailableBytes and then calls Read; while `loading` it is LoadParser,
which waits for one byte. `Abort` is a parser that gives up waiting, and reads or not
(`MaxAborts` bounds how often). `outcome` says how the last read ended, `told` whether
the parser had reason to read.

### HantroDec and HantroDwl

`pc[c]` is the place of the thread that uses file `c`, in the driver or, for the
labels of `User`, in the program. `HXDEC_MAX_CORES` is 1, so an owner is a file or
None. Reservation is two steps (`DownDec`, then `GetDecCoreAny` once the core is
free and has the format), release three or four (`ReadStatus`, `StopCore`,
`Disown`, `UpDec`), as nothing locks them together. `Interrupted` is a signal in
any of the four waits. `hw` is the status register: enabled, an interrupt
raised, or neither; `Push` writes it, which also wipes out an interrupt not yet
served. After an interrupted wait H.264 disables the hardware and HEVC writes
the register with the enable bit still set (`DisableHw` allows both).
`Close` is the end of a process, or DWLRelease, at any place of `User`; what it
had is then released by the driver. `job`, `lost` and `stale` are ghosts: who
started the hardware last, permits that nobody can give back, and an interrupt
of an earlier decode that is still to be taken.

Definitions whose comment begins with "Mutation:", and those of `HantroDec` named
`...Not`, `...Anyway`, `FirstToClosePP` and `SeenByNobody`, are no part of any
specification. They are plausible mistakes in the code, kept next to the
definition they would replace; `PROJECT.json` names the property that each must
break, which shows that the property depends on the code.

## 3. What is checked

Every bound is a constant of the cfg.

| Run | Instance | Distinct states | Shows |
|---|---|---|---|
| `queue_threads` | 2 producers, 2 consumers, capacity 3, Get, Get(nIndex) with 2 and 3, Access with 2, 2 messages, non-blocking, fair | 164 128 | FIFO and delivery with both ends contended; the overflow returns are unreachable; unlocked reads meet NULL only when another consumer took a message since |
| `thread_stop` | 2 clients with 3 calls each: commands, resets, buffers; fair | 207 895 | binary semaphore, no lost wake-up; every command is taken unless one that failed left it behind, DestructComponent returns |
| `component_session` | 2 ports x 2 buffers, every state and command, bad ports, failing InstanceInit and DoExec2Pause, one reset, fair | 47 398 | pending command, population, resources, tables, legal transitions; every command gets its event |
| `component_stream` | 2 ports x 2 buffers, 1 feeder, states but Pause, and Flush of a port, fair | 144 853 | headers are never lost; every command gets its event, FreeBuffer returns |
| `component_feed` | 2 ports x 2 buffers, 2 feeders, states, PortDisable, PortEnable, Flush of a port and of all | 2 091 621 | no double event, buffers come back |
| `component_rollback` | 2 controllers, one of which sends; impatient, failing allocation | 14 952 | a given-up transition leaves nothing behind, unless its command was given up before it was queued |
| `pipe_record` | ring of 3, blocks of 1, 2 and 4, four seeks, queue of 2, device of 6, 4 calls, fair | 130 773 | the file a muxer sees; the thread reads live data; position and length are true; Close leaves a complete file; calls return |
| `reader_read` | ring of 4 nodes of 2 bytes, stream of 9, length known or not, server that seeks or not, localhost or not, failing connect, refusals, a network that breaks down and comes back, reads of 2 that pre-cache 3, targets 5 and 8, one wait given up, fair | 645 858 | the bytes read are those of the position and all that was promised, unless a reset was pending; the end is true, but for one made on localhost; once the network holds the reader is served; Close returns |
| `hantro_sharing` | 4 files: a decoder, one with the post-processor, one of a format the core lacks, a post-processor; signals and ends everywhere, fair | 34 752 | permits, owners and hardware agree; those who wait get their turn |

Why these bounds: two ports are needed for "all ports", for the order of
PORT_ON notifications and for OMX_ALL; two buffers for a table that is partly
filled, a queue that is drained in more than one turn and headers freed in
either order; two feeders for an AddBuffer between a count and its use; two
controllers where PortNotify may run twice. A queue of capacity 3 gives an
empty, a full and an intermediate list and a middle element. Two clients
let one Up come between the semaphore and the count of Down while another is
swallowed, and both past the test of the pending command; three calls reset a command and queue a second one behind it. A ring of 3 with blocks of 1, 2 and 4 bytes makes data wrap around,
fill the ring and outgrow it; 4 calls put a write, a seek back, a write over it
and one more behind each other; a device of 6 is full after two or three of
them. A ring of 4 nodes, of which 1 is kept behind the reader, has room for
nodes to drop, to keep and to read ahead, and a stream of 9 bytes ends within a
block and goes round the ring more than once. Two decoders, one of them with the post-processor,
and a third that waits for ever are what makes a wait for the core, for the
post-processor and for both, with a permit in use and one lost. The component's state spaces are finite without further bounds
(`MaxResets` apart), since clients that wait have at most one command under way.

Deadlock is checked in `component_stream`, `pipe_record` and
`hantro_sharing`. In `component_rollback` the client waits for ever after the thread took a command
that had been given up. In `queue_threads` a consumer that dereferenced NULL does not go
on. In `thread_stop` every client has used its calls at the
end. In `component_session` a component in Invalid takes no command any more. In
`component_feed` the client may wait for ever: a Flush of OMX_ALL
swallows the next command, and `FreeBuffer` waits for a buffer that the thread
took. In `reader_read` a closed pipe is the end (what waits before that is the subject of
`Served` and `Closed`).

Fairness. `OmxQueue`: POSIX semaphores and mutexes let some waiter go on but
choose freely among several, so fairness is per set of threads, at each semaphore and at the lock. `OmxThread` and
`OmxComponent`: the kernel schedules the threads (weak fairness of `DoThread` as a
whole), and a call that has begun goes on (`Proceed`). `BufferCall` is weakly fair
because a patient client brings and frees what its command needs, as
`GMComponent` does in a loop. A blocked `Queue::Get` is a disabled action and no
fairness unblocks it. Nothing obliges a client to send commands or a feeder to
feed; a feeder only finishes a call it began.

`AsyncWritePipe`: both threads go on (weak fairness of what a begun call still
has to do, and of the thread); nobody must call Write or Close. `StreamReader`:
both threads are scheduled and `url_read` and `url_seek` return, though they may fail as long as the
network is down. Nothing obliges the network to come back (`Served` is about the runs in which it holds from some
moment on, `Closed` about all), nobody must read or close.
`HantroDwl`: the core finishes, its interrupt is served, a call runs on; a
semaphore of the kernel hands its permits to the waiters in turn, hence strong
fairness of `Down`; and strong fairness of `ReleaseHw`, since a picture is restarted
at most as often as it has stream buffers (`HevcRunAsic`, `EnableHw` from
"decoded"), so that an instance comes to the release. `OmxQueue` has strong
fairness of a plain Get because the loops around Get come back for the oldest
message whatever they take by index in between.

Properties a bounded run could satisfy for the wrong reason are guarded by the
mutants, and by the violation runs below, which reach each of the situations in
question.

## 4. Findings

Each is a run in which TLC violates one property that states what a comment of
the code promises.

| Run | What happens |
|---|---|
| `component_v_idle_fails` | Idle is reached although DoLoaded2Idle failed (patient client) |
| `pipe_v_realloc` | Write waits for `dataInfoQueue` to be empty, not for the thread to be done with the entry it took, and frees the buffer that the thread is writing from; data not yet written is forgotten (blocks 1, 2, 4; `bWithinLimits` FALSE) |
| `reader_v_promise` | The parser is just behind the ring and asks for a reset; the block in flight brings its bytes, CheckAvailableBytes says Ok with the reset still pending, the thread empties the ring, and Read gives nothing |

The same modules show more with other constants. These are not among the listed
runs; the constants to see them with are in brackets (`OmxComponent`: one
controller, which also sends, and no feeder unless said).

- PortDisable of OMX_ALL is never answered when buffers have to be freed: PortNotify
  asks whether all ports are populated (`CommandsConclude` of `FairSpec`; 2 ports x 1
  buffer, `MCLifecycle` with `On("PortDisable", {OMX_ALL})`).
- A filter takes a buffer from a port that is being disabled, since it asks for
  BufferNum() only; the client frees the header it holds (`HeadersRegistered`; 1 port x 1
  buffer, 1 feeder, `MCFeed`).
- FreeBuffer and the component's thread both see the last buffer of a port that is being
  disabled, and FreeBuffer waits for ever in Queue::Get (`FreeReturns` of `FairSpec`; the same).
- A client that does not wait for events can bring a component to Loaded with
  its decoder instance: SendEvent clears `pendingCmd` before it sets the state, a
  StateSet of Loaded is accepted while Idle -> Executing concludes, ToLoaded is then refused in
  Executing but has set `bProcessed`, and the last FreeBuffer completes it
  (`LoadedHoldsNothing`; 1 port x 1 buffer, `MCLifecycle`, `bWaits` and `bPatient` FALSE).
- Two threads that populate the last two ports both see all ports populated and
  both send the event (`AnsweredOnce`; 2 ports x 1 buffer, 2 controllers,
  `MCLifecycle`, `bTurns` FALSE).
- Flush of OMX_ALL sends one event per port and each resets `pendingCmd`; a command that
  the client sent after the first event is forgotten (`CommandsConclude` of
  `FairSpec`; 2 ports x 1 buffer, `MCLifecycle` with `On("Flush", {OMX_ALL})`).
- A thread in UseBuffer sees the command Idle before SendCommand has cleared `bProcessed`, takes the
  `bProcessed` of the last command for its own and does not wait. If its allocation fails then, the transition is
  given up and the client is told; the command is queued after that, the thread carries it out, and
  the component is in Loaded with its resources, with no command pending. OMX_Core.h:77-80 asks for the
  rollback of all of it (`LoadedHoldsNothing` without its exception `stray`; `component_rollback`).
- A command is queued behind another, behind one Up (two clients past the test of `pendingCmd`, or a reset of
  the first), and the first one fails: DoThread's loop ends, and the second stays in
  the queue until somebody makes another call (`EventuallyTaken` without its exception `LeftBehind`; `thread_stop`).
- A header freed from the middle of the table and another one allocated: it
  overwrites the last entry, whose header is lost (`HeadersRegistered`; 1 port x
  3 buffers, `MCUp`, `bPatient` FALSE).

- The muxer seeks backwards with a negative offset from the current position
  or the end: the thread takes the entry for no seek (`Info.nOffset >= 0`), so the
  data that follows goes to the old place, while GetPosition tells the new one
  (`PositionTrue`; `Seeks <- MCBackwards`).
- A Write that finds too little room while an entry with data is queued sleeps
  with the lock that the thread needs, and Close waits in Add when the queue is full of seeks and the
  thread has gone (`CallsReturn`; `bWithinLimits` FALSE).
- A parser that stops waiting, because it has a command to process, and reads
  while the reset it asked for is pending: the thread empties the ring between
  ReadAt's check and its copy, which then copies from blocks that hold other bytes or none,
  with the lock held (`ReadExact` excepts it: `told = "reset"`).
- The result of the seek back to 0 is ignored: blocks from the middle of the
  stream are cached as its beginning (`ReadExact`; `Faults` with "seek").
- A parser that asks for more than the ring holds ahead of the earlier data
  waits for ever (`Served`; `Sizes` {1, 5}), and so does one at the offset just behind a full ring
  (`Wedged`, which `Served` excepts). A server that refuses a reset leaves its parser
  waiting without an error (`Deserted`, excepted too).
- On http://localhost, of a stream whose length is not told, a url_read that fails is the end of the stream: its
  length is fixed there, and the parser is told that it has ended (`EndTrue` without its exception `cut`;
  `reader_read`). After a reset the end may even come to lie before the length found earlier, and the parser waits
  for ever (`CutShort`, which `Served` excepts).
- While the network is down, Read and a blocking Seek try again for ever, and so does the seek of Read after the
  network has come back, if the server has no ranges: url_seek then gives 0, which is neither a success nor a
  refusal (`Unrecovered`, excepted by `Served`). The parser polls without an error; only Close or a seek ends it.
- A wait for a decode is interrupted by a signal, the instance releases the core, the
  interrupt of its decode stays in `dec_irq`, and the next decode's DEC_WAIT returns at
  once, while the hardware runs; dwl_linux.c says "Wait until hardware has stopped
  running." (`WaitsForOwn`, which excepts it with `stale`.)
- appLocalReadFile returns the bytes asked for although Read may have been cut at
  the end of the stream: HttpsPipe_Read says only that it read something.
- An instance whose format the core lacks waits with the permit, and a signal loses it
  (`lost`); one whose DWLReserveHwPipe failed keeps the decoder, since the address of `core_id` is
  passed to DEC_RELEASE. Both keep the others out until the file is closed, the first for
  ever. `Stuck` names them, and `Reserved` is about everyone else.

Found while looking for the invariants of the proofs (`OmxComponent`, patient client, one
controller, `bWaits`):

- With a single port, a PortEnable given up by the client leaves a header in
  the table of the disabled port. Idle -> Loaded then finds no enabled port to wait for and
  is completed by the thread, while the client's FreeBuffer of that header
  completes it too (`PendingMatches`; 1 port x 2 buffers, `MCSession`, `MaxResets` 1).
  `GMComponent` may do so with a component of one port; with a second port that
  stays enabled it cannot happen.
- DoAllocateBuffer fails on the way to Idle when the port has some of its headers: the transition is
  given up, the port is not populated and nothing is freed; the component is in Loaded with headers
  (`LoadedHoldsNothing`; 2 ports x 2 buffers, `MCUp`, `Failures` with "DoAllocateBuffer").

Observed while modelling and not a property: a rollback looks at `bPopulated` only,
so headers of a port that was never full survive it; a reset of PortEnable
leaves the headers already brought in the table of the disabled port; PortDisable
in Loaded of a port that has such headers sends an event at once and another
when they are freed. The seeks before a Close that no Write follows may be lost
with the queue (`ClosedComplete` allows for the extension only). A stream that is
cut short of the length its server told leaves its reader waiting. An Open that a
reset interrupts ends it with one. Seek of the RTP and UDP protocols fails
with OMX_ErrorUndefined, so that live streams count as seekable.

## 5. What is proved

All for every value of the constants, from the assumptions named in the
modules (`QueueAssumption`, `ThreadAssumption`, `PortAssumption`,
`ComponentAssumption`, `SpaceAssumption`, `PipeAssumption`, `FilesAssumption`,
`TypeAssumption`), which ask only for types and finiteness.

### Queue

- `OmxQueue_proofs.SemaphoresAlwaysExact`: `SemaphoresExact`, for any number of
  threads. The inductive invariant adds to it the types of the counters
  and of `pc`. It is needed because a step changes the cardinality of the set
  of threads that own a permit; `AddingSize` and `GettingSize` say by how much. `CapacityRespected` follows: the
  sizes of two finite sets are not negative, so `nQSize` stays in `0..nMaxQSize`.
- `OmxQueueLists_proofs.ListsAlwaysWellFormed`: `ListsWellFormed`. The invariant `ListInv`
  says that two sequences of nodes exist, the used and the free ones, that they are
  what the pointers link (`Linked`), share no node and hold the pool (`Pool`), and where each
  thread stands in them (`Place`). Each critical section is a change of these
  sequences, which the proof names; that the recursive `Walk` along the pointers
  gives the sequence is an induction over its length.
- `FaultsOnlyWhenOvertaken`: `NoFault`, from `Place`: as long as nobody has
  taken a message since the unlocked check of `Get(nIndex)` or `Access`, the
  place it walks to is within the list.
- `QueueImplementsFifo`: `ImplementsFifo`. `messages` is the sequence of the used nodes'
  messages; `AddLocked` appends to it, `GetLocked` takes out one place, and everything else
  leaves it, which needs that no two nodes of the pool are the same.

Induction. The library's induction theorems take an operator as their
parameter, which the provers cannot instantiate. `NatSetInduction` states
induction for sets of numbers instead (from the library's `WFMin`, whose
parameters are sets and relations), and that a recursion along Nat has a solution, which
is what the CHOOSE behind a recursive function of TLA+ needs.

### Component thread

- `OmxThread_proofs.SemaphoreBinary`, `WakeupsNeverLost`, `TypeCorrect`: the
  invariant is about the whole way of a message. As long as a kind is unseen,
  a call that left one has still to come to Up, or a permit is in the semaphore, or the
  thread is at a place from which it will still look at that kind.
  `NoLostWakeup` alone is not inductive: it says nothing of a thread that is on its way
  to sleep.

### Component

For any clients, commands, ports, buffers and failures:

- `TypeCorrect`: the types of the component, its thread and its callers. One lemma
  per group of actions.
- `AllGivenBack`: `BuffersGivenBack`. The invariant `DueQueued`
  says that each header due is still in the port's queue at a position that
  the loop will reach: anywhere while BufferNum() > 0 is the loop's condition, and among
  the first `nBuffer` when Flush counts. Gets by FreeBuffer on another thread move
  headers up and never down, and AddBuffer appends, so the count that Flush
  read once stays enough.

For one client that keeps the protocol of `GMComponent`, any feeders, ports, buffers, resets and
other failures. `Disciplined` asks for: `bPatient`, one controller, no command for
OMX_ALL, `DoLoaded2Idle` that does not fail, and a port which no command disables.
`component_session` and `component_stream` are instances of it (TLC also checked the invariants below
on these, and with a failing DoAllocateBuffer and feeders, before they were proved).
Each condition is needed, since the properties do fail without it:
a failing DoLoaded2Idle is `component_v_idle_fails`; OMX_ALL makes several events; two controllers
may send StateSet and roll back each other's; and see below for a component all of whose ports are disabled.

- `PendingAlwaysMatches`, `AlwaysAnsweredOnce`, `PortsAlwaysPopulated`, `TransitionsLegal` follow from
  `Inv == Protocol /\ Tables`. `Protocol` says who has the command: the caller that has
  checked it, the queue, the thread at one of its places, the client's buffers (`Waiting`),
  or the caller that completes it. In each case it says what `pendingCmd`, `bProcessed`,
  `owed` and the state are, that the others are elsewhere, and what the client may do.
  `Tables` says what each port's table has registered while it is
  empty, being filled, full or being emptied. Neither is inductive without the other: that FreeBuffer
  completes a command once and the thread not at all depends on the port being
  emptied by one call at a time, and the way a port is filled depends on the command in hand.
- `ResourcesAlwaysMatch`: `Resourced` follows DoLoaded2Idle, DoIdle2Loaded, InstanceInit and
  InstanceDeInit through the places between their call and the change of state.
- `HeadersAlwaysRegistered`: `Flow` says where each header is (with the client, on its way
  in, in one queue, held, on its way back), that it is in one place only, and that what the component
  has is in the table. It assumes `Raceless`: no feeders, or no
  PortDisable. A feeder that has passed IsEnabled adds its header to a port that
  has since been disabled, and the thread holds it when the client frees it (section 4).
- `LoadedAlwaysEmpty`: `Tidy` says what may be left while the way to Loaded or
  back is under way. It assumes `Raceless` and that DoAllocateBuffer does not fail: if
  it does while a port is filled in part, no port counts as populated, the transition is
  given up at once, and the headers that were registered stay in Loaded. The run
  `component_rollback` has a client that then frees and goes on, with one buffer a port. For these clients the
  theorem also says that no command is ever `stray`, so that the exception of `LoadedHoldsNothing` is void: a client
  whose one thread sends and brings the buffers cannot look at a command that it has not queued.

### Asynchronous write pipe

- `AsyncWritePipe_proofs.PipeTypeOK`, `PipeReadsLiveData`: for a client within the
  pipe's limits (`bWithinLimits`; without them `pipe_v_realloc` shows that neither
  holds for long). The invariant ties the thread's place to the ring: from the
  moment an entry is checked, its bytes are a part of the data, a chunk ends
  before the ring does, and a Write that waits for room found the ring without
  data, so that the thread is not between two chunks when the buffer is freed. The
  arithmetic of a position modulo the length is in lemmas of its own.
- `PipeImplementsFile`: `ImplementsFile`, for the same clients. The mapping
  `FileToBe` applies everything queued to the file, by a recursion over the entries. `Landing` says
  that it is the last of a chain of files, one for each entry, and the lemmas
  `AppendWay`, `TailWay` and `SplitWay` what a change of the queue does to the chain: a new entry
  adds one file at the end; taking the first and applying it drops one at the front; a chunk
  written divides one entry into two and the last file stays, or the device is full
  on both ways. So Write and SetPosition are
  steps of `RecordedFile`, and the thread and a change of buffer are stutters. Besides the invariant above it needs
  that the queued lengths add up to the data in the ring (`Accounted`), that each entry is
  a seek or data (`Shaped`), that the free room begins where the data ends (`RingTrue`), that the file is as
  long as its bytes (`Sound`), and
  that a stopped pipe has nothing left to apply (`Stopped`); together they are `FileInv`.
- `PipeClosedComplete`: `ClosedComplete`, from `Stopped`.
- `PipePositionTrue`: `PositionTrue`, if moreover no seek has a negative offset
  (`SeeksForward`; section 4 says what one does). `PositionsKnown` says how far the file to be
  is ahead of `nFakePos` and `nUriLen` while Write hands over an entry whose data is in the ring.

### Streaming cache and its reader

- `StreamReader_proofs.TypeCorrect`, for every ring, stream, server and failure. The offsets grow along
  the ring (`Order`), whatever its nodes hold.
- `RingAlwaysHoldsStream`, `ReadAlwaysExact`: `RingHoldsStream` and `ReadExact`, if no
  seek fails (`"seek" \notin Faults`; section 4 says what an ignored failure does; connect
  may fail, the network break down, and servers refuse). `Bytes` says that each block has the bytes
  of its offset and `Found` is what makes a read exact: between the check of AvailableAt
  and the last copy, with the lock released at every node, the node of the reader's
  offset stays in the ring and the bytes promised stay ahead of it, because the thread drops
  only what is before the node being played, and only a reset empties the ring.
- `EndAlwaysTrue`: `EndTrue`, if moreover the server tells no length shorter than the stream
  (`LengthsTrue`): with such a length the code ends the stream there. `EndTrue` excepts an end made of a failure
  (`cut`); `EndExactElsewhere` proves the end exact, without exception, of every stream that is not on
  localhost or whose length is told, however often the network breaks down.

### Hantro driver

- `HantroDwl_proofs.PermitsAlwaysExact`: the count of permits, for any number of
  files. `MoveSize` says how a step of one thread changes the number of threads at a set
  of places. `Places` is the strengthening: what the place of a thread tells about
  the owners, without which a release could give back what another has.
  `PermitAlwaysFindsCore` follows from the count: a permit with a thread at "core" leaves
  none for an owner. `HardwareAlwaysOwned` needs that the core is stopped when a
  releasing thread has read its status (`Stopped`); `ClosedAlwaysHoldsNothing` is part of
  `Places`. `OnlyMissingFormatsLosePermits` says where the leak of ReserveDecoder comes from:
  if the core decodes every format, no permit is ever lost.
- `AlwaysWaitsForOwn`: `WaitsForOwn`, an action property. The invariant `Fresh`: while `stale`
  is not set, a decoder that nobody has, or whose owner is about to start it, neither runs nor has an interrupt
  left, and the `dec_irq` that ends a wait is set only with the hardware stopped.

### Only model-checked

Liveness, everywhere (fairness and ENABLED are out of the prover's reach).
`AnsweredOnce` with OMX_ALL in the
commands, and `LoadedHoldsNothing` of an impatient client, as the runs `component_feed` and
`component_rollback` have them: the theorems are about the clients of `Disciplined`. `TypeOK` of
`OmxThread`, `OmxQueue`, `StreamReader` and `HantroDwl` is proved and in no run.

## 6. Not modelled

- ProcessInContext: every component sets `bInContext = OMX_FALSE`, so it never runs.
- Parameters and configs, port formats, buffer sizes and contents, marks.
- Tunnels and the clock: two components whose threads call into each other need
  two instances of `OmxComponent`, one of which already takes 10^6 states.
- The client's own handshake (`GMComponent`), players and recorders.
- Of the streaming cache: blocks with headers (RTP and UDP), and
  OMX_EventBufferingData and its like, which change nothing here.
- Of the Hantro driver: CORE_WAIT and `ReserveDecPp`, which the multi-core wrapper
  would call and Android.mk does not build; PP_WAIT, which has no caller and would
  never return, as nothing sets `pp_irq`; the polling build of DWLWaitHwReady
  (without DWL_USE_DEC_IRQ). A file is used by one thread.
- V4L2 components, core and resource managers, ring buffer, timestamp managers,
  frame buffer lists of the Hantro decoder: see `PROJECT.json` for each.
- Codecs, format parsers, colour conversion, the CnM library, g2d, vendor headers
  and prebuilt parts, which are most of the tree's lines: signal processing and
  register programming without state that threads share, or nothing to read.
- Memory exhaustion in Queue::Create, ConstructComponent and the pipes' Open, before any
  thread runs.

## 7. Plan

Done: everything in section 2. What would come next, in this order:

1. `DpbLock`: the reference counts of frame buffers between decoder and renderer
   (`h264hwd_dpb_lock.c`), on top of `HantroDwl`.
2. `VThread` of the V4L2 components: signals without a predicate.
3. `GmComponent`: ProcessingCmd, DoneCmd, timeouts and late events against an
   abstraction of `OmxComponent` that has commands and events only; `OmxTunnel`
   and `OmxClock` on the same abstraction.
4. Proofs: the component's
   theorems for OMX_ALL in Flush, and for two controllers that take turns.
