------------------------------ MODULE HantroDwl ------------------------------
(***************************************************************************)
(* The decoder's wrapper layer (dwl_linux.c, dwl_linux_sc.c) as the user   *)
(* of the driver: an instance reserves the decoder, the decoder and then   *)
(* the post-processor ("pipe"), or the post-processor alone, starts the    *)
(* hardware, waits for it and releases what it has.  Any process may get a *)
(* signal in a call that sleeps, and may end at any moment between calls.  *)
(***************************************************************************)
EXTENDS HantroDec

CONSTANT client_type    \* what each instance is for

ASSUME TypeAssumption == client_type \in [Files -> {"dec", "pipe", "pp"}]

Init == DriverInit

\* The places where the program, and not the driver, has the thread.
User == {"idle", "dec reserved", "pp reserved", "decoded", "disabled",
         "pp released", "wait failed"}
Labels == User \cup {"dec down", "core", "pp down", "pp own", "dec wait",
                     "dec release", "dec spin", "dec disown", "dec up",
                     "pp disown", "pp up", "gone"}

\* A step of the program that enters a call, or returns from one.
Enter(c, from, to) ==
    /\ Moves(c, from, to)
    /\ UNCHANGED <<sems, owners, device, closing>>

\* DWLReserveHw, DWLReserveHwPipe
ReserveHw(c) ==
    Enter(c, "idle", IF client_type[c] = "pp" THEN "pp down" ELSE "dec down")

\* When the second call fails DWLReserveHwPipe means to release the decoder, but
\* it passes the address of core_id: the driver refuses, and the instance is
\* idle (Interrupted) and owns the decoder.
ReserveHwPipe(c) == client_type[c] = "pipe" /\ Enter(c, "dec reserved", "pp down")

\* Where an instance that has what it needs starts the hardware from.
HasHw(c) == CASE client_type[c] = "dec" -> "dec reserved"
              [] client_type[c] = "pipe" -> "pp reserved"
              [] client_type[c] = "pp" -> "none"

EnableHw(c) ==
    \E from \in {HasHw(c), "decoded"} : Push(c, from, "dec wait", "run")

\* After DWL_HW_WAIT_ERROR the decoders reset the hardware and release it: H.264
\* with the enable bit clear, HEVC (hevc_asic.c) with the bit still set.
DisableHw(c) == \E status \in {"off", "run"} : Push(c, "wait failed", "disabled", status)

ReleaseHw(c) ==
    \/ /\ client_type[c] = "pp"
       /\ Enter(c, "pp reserved", "pp disown")
    \/ \E from \in {"decoded", "disabled"} :
          Enter(c, from, IF client_type[c] = "pipe" THEN "pp disown" ELSE "dec release")

ReleasedPP(c) ==
    Enter(c, "pp released", IF client_type[c] = "pipe" THEN "dec release" ELSE "idle")

\* The instance is given up, or its process killed.
End(c) == \E from \in User : Close(c, from)

\* What follows by itself once a call is made.
Proceed(c) ==
    \/ GetDecCoreAny(c) \/ OwnPP(c) \/ WaitDec(c)
    \/ ReadStatus(c) \/ StopCore(c) \/ Disown(c) \/ UpDec(c)
    \/ DisownPP(c) \/ UpPP(c)
    \/ ReserveHwPipe(c) \/ DisableHw(c) \/ ReleasedPP(c)

Down(c) == DownDec(c) \/ DownPP(c)

Client(c) ==
    \/ Proceed(c) \/ Down(c) \/ Interrupted(c)
    \/ ReserveHw(c) \/ EnableHw(c) \/ ReleaseHw(c)
    \/ End(c) \/ Open(c)

Next == Finish \/ Isr \/ \E c \in Files : Client(c)

vars == driverVars

Spec == Init /\ [][Next]_vars

\* The core finishes and its interrupt is served; calls run on; the kernel's
\* semaphores hand their permits out in turn; an instance that has decoded
\* starts again a finite number of times before it releases the hardware.
FairSpec ==
    /\ Spec
    /\ WF_vars(Finish) /\ WF_vars(Isr)
    /\ \A c \in Files :
          /\ WF_vars(Proceed(c) \/ EnableHw(c))
          /\ SF_vars(Down(c) \/ ReleaseHw(c))

-----------------------------------------------------------------------------
(* Properties *)

\* Types: hantrodec.c's globals, and the places of a file's thread.
TypeOK ==
    /\ dec_core_sem \in 0..1
    /\ pp_core_sem \in 0..1
    /\ {dec_owner, pp_owner, job} \subseteq Files \cup {None}
    /\ hw \in {"off", "run", "irq"}
    /\ pc \in [Files -> Labels]
    /\ closing \in [Files -> BOOLEAN]
    /\ lost \in Nat
    /\ {dec_irq, stale} \subseteq BOOLEAN

\* Who has a permit of the decoder without being its owner: waiting for a core,
\* or on the way from giving it up to posting the semaphore.
DecPermits == {c \in Files : pc[c] \in {"core", "dec up"}}
PPPermits == {c \in Files : pc[c] \in {"pp own", "pp up"}}

Owned(owner) == IF owner = None THEN 0 ELSE 1

\* Each core is one permit: in the semaphore, with its owner, with a thread on
\* the way, or lost by a call that was interrupted.  ReserveDecoder,
\* ReleaseDecoder and their likes for the post-processor, for any mixture of
\* signals and processes that end.
PermitsExact ==
    /\ dec_core_sem + Owned(dec_owner) + Cardinality(DecPermits) + lost = 1
    /\ pp_core_sem + Owned(pp_owner) + Cardinality(PPPermits) = 1

\* A thread that got a permit finds the core free: it sleeps with the permit,
\* and can lose it, only when the core lacks its format (ReserveDecoder).
PermitFindsCore ==
    \A c \in Files : pc[c] = "core" /\ c \in Supported => dec_owner = None

\* The hardware runs for its owner only: a decode that a process left behind is
\* stopped before another one can have the core (ReleaseDecoder).
HardwareOwned == hw = "run" => dec_owner = job /\ job # None

\* Once a file is closed nothing is reserved for it (hantrodec_release).
ClosedHoldsNothing == \A c \in Files : pc[c] = "gone" => c \notin {dec_owner, pp_owner}

\* DEC_WAIT returns before the hardware has stopped only when an earlier owner
\* left its interrupt behind (CheckDecIrq, ReleaseDecoder).
WaitsForOwn ==
    [][\A c \in Files : pc[c] = "dec wait" /\ pc'[c] = "decoded" /\ hw = "run" => stale]_vars

\* The core is out of reach: its permit is lost, or held by a file that waits
\* for a format the core lacks, or by one whose reservation of the pipe failed
\* and that did not release the decoder.
Stuck ==
    \/ lost > 0
    \/ \E c \in Files :
          \/ pc[c] = "core" /\ c \notin Supported
          \/ dec_owner = c /\ pc[c] \in {"idle", "dec down"}

\* A call that waits for the decoder or the post-processor gets it, unless the
\* core is stuck (ReserveDecoder, ReservePostProcessor).
Reserved ==
    \A c \in Files :
        pc[c] \in {"dec down", "pp down"} ~> pc[c] \notin {"dec down", "pp down"} \/ Stuck

\* DEC_WAIT returns, and a file that is closed is gone in the end with all it
\* had given back (hantrodec_isr, hantrodec_release).
CallsReturn ==
    \A c \in Files :
        pc[c] = "dec wait" \/ closing[c]
            ~> \/ pc[c] # "dec wait" /\ ~closing[c]
               \/ pc[c] = "gone"
=============================================================================
