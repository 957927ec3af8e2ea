------------------------------ MODULE HantroDec ------------------------------
(***************************************************************************)
(* The kernel driver of the Hantro decoder (hantrodec.c): one core         *)
(* (HXDEC_MAX_CORES) and one post-processor, reserved by open files.  A    *)
(* file is used by one thread; pc says where it stands, in the driver or   *)
(* in the program that called it.  A semaphore counts the cores that may   *)
(* be taken, dec_owner says who took it, and dec_irq carries the news from *)
(* the interrupt handler to the thread that waits.                         *)
(***************************************************************************)
EXTENDS Naturals, FiniteSets

CONSTANTS
    Files,      \* the open files, one for each instance of a decoder
    None,       \* no owner
    Supported   \* the files whose client type the core can decode

ASSUME FilesAssumption ==
    /\ IsFiniteSet(Files)
    /\ None \notin Files
    /\ Supported \subseteq Files

VARIABLES
    dec_core_sem, pp_core_sem,
    dec_owner, pp_owner,
    dec_irq,    \* bit 0: the core's interrupt came and nobody took it yet
    hw,         \* the status register: enabled, interrupt raised or neither
    pc,
    closing,    \* the file is being closed, its process has gone
    job,        \* a ghost: who started the decoder last
    lost,       \* a ghost: permits that no one holds any more
    stale       \* a ghost: an interrupt of an earlier decode is left, or taken for
                \* the one that still runs

driverVars == <<dec_core_sem, pp_core_sem, dec_owner, pp_owner, dec_irq, hw,
                pc, closing, job, lost, stale>>

sems == <<dec_core_sem, pp_core_sem, lost>>
owners == <<dec_owner, pp_owner>>
device == <<dec_irq, hw, job, stale>>

DriverInit ==
    /\ dec_core_sem = 1
    /\ pp_core_sem = 1
    /\ dec_owner = None /\ pp_owner = None
    /\ dec_irq = FALSE
    /\ hw = "off"
    /\ pc = [c \in Files |-> "idle"]
    /\ closing = [c \in Files |-> FALSE]
    /\ job = None
    /\ lost = 0
    /\ stale = FALSE

Moves(c, from, to) == pc[c] = from /\ pc' = [pc EXCEPT ![c] = to]

-----------------------------------------------------------------------------
(* Reserving *)

\* down_interruptible(&dec_core_sem)
DownDec(c) ==
    /\ Moves(c, "dec down", "core")
    /\ dec_core_sem > 0
    /\ dec_core_sem' = dec_core_sem - 1
    /\ UNCHANGED <<pp_core_sem, lost, owners, device, closing>>

\* The condition of wait_event_interruptible: a core that is free and has the
\* format.
CoreFor(c) == c \in Supported /\ dec_owner = None

GetDecCoreAny(c) ==
    /\ Moves(c, "core", "dec reserved")
    /\ CoreFor(c)
    /\ dec_owner' = c
    /\ UNCHANGED <<sems, pp_owner, device, closing>>

DownPP(c) ==
    /\ Moves(c, "pp down", "pp own")
    /\ pp_core_sem > 0
    /\ pp_core_sem' = pp_core_sem - 1
    /\ UNCHANGED <<dec_core_sem, lost, owners, device, closing>>

OwnPP(c) ==
    /\ Moves(c, "pp own", "pp reserved")
    /\ pp_owner' = c
    /\ UNCHANGED <<sems, dec_owner, device, closing>>

\* A signal while the call sleeps, which it does only if what it waits for is not
\* there: it returns an error to the program.  ReserveDecoder returns from its
\* wait for a core with the permit, which no call gives back.
Interrupted(c) ==
    /\ \/ dec_core_sem = 0 /\ Moves(c, "dec down", "idle") /\ UNCHANGED lost
       \/ pp_core_sem = 0 /\ Moves(c, "pp down", "idle") /\ UNCHANGED lost
       \/ ~CoreFor(c) /\ Moves(c, "core", "idle") /\ lost' = lost + 1
       \/ ~dec_irq /\ Moves(c, "dec wait", "wait failed") /\ UNCHANGED lost
    /\ UNCHANGED <<dec_core_sem, pp_core_sem, owners, device, closing>>

-----------------------------------------------------------------------------
(* Decoding *)

\* DecFlushRegs; the status register is written last, with the enable bit set or
\* clear and no interrupt: one that the handler has not seen is gone.
Push(c, from, to, status) ==
    /\ Moves(c, from, to)
    /\ hw' = status
    /\ job' = IF status = "run" THEN c ELSE job
    /\ stale' = (stale /\ dec_irq)
    /\ UNCHANGED <<sems, owners, dec_irq, closing>>

\* WaitDecReadyAndRefreshRegs: CheckDecIrq takes the bit.
NotTaken == dec_irq

Taken == FALSE

WaitDec(c) ==
    /\ Moves(c, "dec wait", "decoded")
    /\ dec_irq
    /\ dec_irq' = Taken
    /\ stale' = (stale /\ hw # "off")
    /\ UNCHANGED <<sems, owners, hw, job, closing>>

\* The core is done.
Finish ==
    /\ hw = "run"
    /\ hw' = "irq"
    /\ UNCHANGED <<sems, owners, dec_irq, pc, closing, job, stale>>

\* hantrodec_isr
SeenByNobody == dec_irq

Seen == TRUE

Isr ==
    /\ hw = "irq"
    /\ hw' = "off"
    /\ dec_irq' = Seen
    /\ UNCHANGED <<sems, owners, pc, closing, job, stale>>

-----------------------------------------------------------------------------
(* Releasing *)

\* ReleaseDecoder reads the status; a core that is enabled is waited for.
ReadStatusNot(c) ==
    /\ Moves(c, "dec release", "dec disown")
    /\ UNCHANGED <<sems, owners, device, closing>>

ReadStatus(c) ==
    /\ Moves(c, "dec release", IF hw = "run" THEN "dec spin" ELSE "dec disown")
    /\ UNCHANGED <<sems, owners, device, closing>>

\* The loop ends when the core is done, or after 500000 reads at any moment;
\* then the register is cleared.
StopCore(c) ==
    /\ Moves(c, "dec spin", "dec disown")
    /\ hw' = "off"
    /\ UNCHANGED <<sems, owners, dec_irq, job, stale, closing>>

Disown(c) ==
    /\ Moves(c, "dec disown", "dec up")
    /\ dec_owner' = None
    /\ stale' = (dec_irq \/ hw = "irq")
    /\ UNCHANGED <<sems, pp_owner, dec_irq, hw, job, closing>>

\* hantrodec_release looks for the post-processor after the cores.
PPIfClosing(c) == IF pp_owner = c THEN "pp disown" ELSE "gone"

UpDecNot(c) ==
    /\ Moves(c, "dec up", IF closing[c] THEN PPIfClosing(c) ELSE "idle")
    /\ UNCHANGED <<sems, owners, device, closing>>

UpDec(c) ==
    /\ Moves(c, "dec up", IF closing[c] THEN PPIfClosing(c) ELSE "idle")
    /\ dec_core_sem' = dec_core_sem + 1
    /\ UNCHANGED <<pp_core_sem, lost, owners, device, closing>>

\* ReleasePostProcessor; its registers play no part.
DisownPP(c) ==
    /\ Moves(c, "pp disown", "pp up")
    /\ pp_owner' = None
    /\ UNCHANGED <<sems, dec_owner, device, closing>>

UpPP(c) ==
    /\ Moves(c, "pp up", IF closing[c] THEN "gone" ELSE "pp released")
    /\ pp_core_sem' = pp_core_sem + 1
    /\ UNCHANGED <<dec_core_sem, lost, owners, device, closing>>

\* hantrodec_open and hantrodec_release.
Open(c) ==
    /\ Moves(c, "gone", "idle")
    /\ closing' = [closing EXCEPT ![c] = FALSE]
    /\ UNCHANGED <<sems, owners, device>>

FirstToClosePP(c) == PPIfClosing(c)

FirstToCloseAnyway(c) == "dec release"

FirstToClose(c) == IF dec_owner = c THEN "dec release" ELSE PPIfClosing(c)

Close(c, from) ==
    /\ Moves(c, from, FirstToClose(c))
    /\ closing' = [closing EXCEPT ![c] = TRUE]
    /\ UNCHANGED <<sems, owners, device>>
=============================================================================
