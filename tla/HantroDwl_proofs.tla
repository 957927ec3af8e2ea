--------------------------- MODULE HantroDwl_proofs ---------------------------
(***************************************************************************)
(* The permits of the decoder driver for any number of files: each one is  *)
(* in the semaphore, with the owner, with a thread on its way, or lost.    *)
(* From the count it follows that a thread with a permit finds the core    *)
(* free; who owns the core is known from the place of its thread (Places). *)
(***************************************************************************)
EXTENDS HantroDwl, FiniteSetTheorems, TLAPS

Types ==
    /\ dec_core_sem \in Nat /\ pp_core_sem \in Nat
    /\ dec_owner \in Files \cup {None} /\ pp_owner \in Files \cup {None}
    /\ job \in Files \cup {None}
    /\ hw \in {"off", "run", "irq"}
    /\ pc \in [Files -> Labels]
    /\ closing \in [Files -> BOOLEAN]
    /\ lost \in Nat
    /\ dec_irq \in BOOLEAN /\ stale \in BOOLEAN

PermitLabels == {"core", "dec up", "pp own", "pp up"}

DecHeld == {"dec reserved", "dec wait", "decoded", "wait failed", "disabled",
            "dec release", "dec spin", "dec disown"}
PipeHeld == {"pp down", "pp own", "pp reserved", "pp disown", "pp up", "pp released"}
Running == {"dec wait", "decoded", "wait failed", "disabled"}
Closing == {"dec release", "dec spin", "dec disown", "dec up", "pp disown", "pp up", "gone"}

\* What the place of a thread tells about the owners.
Place(c) ==
    /\ pc[c] \in DecHeld => dec_owner = c
    /\ client_type[c] = "pipe" /\ ~closing[c] /\ pc[c] \in PipeHeld => dec_owner = c
    /\ pc[c] \in {"pp reserved", "pp disown"} => pp_owner = c
    /\ client_type[c] = "pipe" /\ pc[c] \in Running => pp_owner = c
    /\ closing[c] => pc[c] \in Closing
    /\ closing[c] /\ pc[c] \in {"pp disown", "pp up"} => dec_owner # c
    /\ pc[c] = "gone" => dec_owner # c
    /\ pc[c] \in {"gone", "pp up"} => pp_owner # c
Places == \A c \in Files : Place(c)

Stopped == \A c \in Files : pc[c] = "dec disown" => hw # "run"

IInv == Types /\ PermitsExact /\ Places /\ HardwareOwned /\ Stopped

-----------------------------------------------------------------------------
(* Counting *)

At(L) == {c \in Files : pc[c] \in L}

\* A thread that moves joins or leaves a set given by labels, or neither.
LEMMA MoveSize ==
    ASSUME Types, NEW c \in Files, NEW to \in Labels, pc' = [pc EXCEPT ![c] = to], NEW L
    PROVE  /\ Cardinality(At(L)) \in Nat
           /\ Cardinality(At(L)') \in Nat
           /\ pc[c] \notin L /\ to \in L => Cardinality(At(L)') = Cardinality(At(L)) + 1
           /\ pc[c] \in L /\ to \notin L => Cardinality(At(L)') = Cardinality(At(L)) - 1
           /\ (pc[c] \in L <=> to \in L) => Cardinality(At(L)') = Cardinality(At(L))
<1>1. IsFiniteSet(At(L)) /\ IsFiniteSet(At(L)')
  BY FilesAssumption, FS_Subset DEF At
<1>2. Cardinality(At(L)) \in Nat /\ Cardinality(At(L)') \in Nat
  BY <1>1, FS_CardinalityType
<1>3. ASSUME pc[c] \notin L, to \in L
      PROVE  Cardinality(At(L)') = Cardinality(At(L)) + 1
  <2>1. At(L)' = At(L) \cup {c} /\ c \notin At(L)
    BY <1>3 DEF At, Types
  <2>2. QED BY <2>1, <1>1, FS_AddElement
<1>4. ASSUME pc[c] \in L, to \notin L
      PROVE  Cardinality(At(L)') = Cardinality(At(L)) - 1
  <2>1. At(L)' = At(L) \ {c} /\ c \in At(L)
    BY <1>4 DEF At, Types
  <2>2. QED BY <2>1, <1>1, FS_RemoveElement
<1>5. ASSUME pc[c] \in L <=> to \in L
      PROVE  Cardinality(At(L)') = Cardinality(At(L))
  <2>1. At(L)' = At(L)
    BY <1>5 DEF At, Types
  <2>2. QED BY <2>1
<1>6. QED BY <1>2, <1>3, <1>4, <1>5

DecLabels == {"core", "dec up"}
PPLabels == {"pp own", "pp up"}

LEMMA PermitsAt ==
    /\ DecPermits = At(DecLabels) /\ DecPermits' = At(DecLabels)'
    /\ PPPermits = At(PPLabels) /\ PPPermits' = At(PPLabels)'
BY DEF DecPermits, PPPermits, At, DecLabels, PPLabels

\* Whoever has a permit keeps the core, or the post-processor, from being owned.
LEMMA PermitExcludesOwner ==
    ASSUME Types, PermitsExact, NEW c \in Files
    PROVE  /\ pc[c] \in DecLabels => dec_owner = None
           /\ pc[c] \in PPLabels => pp_owner = None
<1>1. IsFiniteSet(DecPermits) /\ IsFiniteSet(PPPermits)
  BY FilesAssumption, FS_Subset DEF DecPermits, PPPermits
<1>2. Cardinality(DecPermits) \in Nat /\ Cardinality(PPPermits) \in Nat
  BY <1>1, FS_CardinalityType
<1>3. ASSUME pc[c] \in DecLabels PROVE dec_owner = None
  <2>1. DecPermits # {}
    BY <1>3 DEF DecPermits, DecLabels
  <2>2. Cardinality(DecPermits) # 0
    BY <1>1, <2>1, FS_EmptySet
  <2>3. QED BY <1>2, <2>2 DEF PermitsExact, Owned, Types
<1>4. ASSUME pc[c] \in PPLabels PROVE pp_owner = None
  <2>1. PPPermits # {}
    BY <1>4 DEF PPPermits, PPLabels
  <2>2. Cardinality(PPPermits) # 0
    BY <1>1, <2>1, FS_EmptySet
  <2>3. QED BY <1>2, <2>2 DEF PermitsExact, Owned, Types
<1>5. QED BY <1>3, <1>4

\* A step between places without a permit, which touches no semaphore and no
\* owner, keeps the count.
LEMMA QuietStep ==
    ASSUME Types, PermitsExact, NEW c \in Files, NEW to \in Labels,
           pc' = [pc EXCEPT ![c] = to],
           pc[c] \notin PermitLabels, to \notin PermitLabels,
           UNCHANGED <<sems, owners>>
    PROVE  PermitsExact'
<1>1. Cardinality(At(DecLabels)') = Cardinality(At(DecLabels))
  BY MoveSize DEF DecLabels, PermitLabels
<1>2. Cardinality(At(PPLabels)') = Cardinality(At(PPLabels))
  BY MoveSize DEF PPLabels, PermitLabels
<1>3. QED BY <1>1, <1>2, PermitsAt DEF PermitsExact, sems, owners

\* Where the hardware is started from, and what starting it does.
LEMMA Enabling ==
    ASSUME Types, NEW c \in Files, EnableHw(c)
    PROVE  /\ \/ pc[c] = "decoded"
              \/ client_type[c] = "dec" /\ pc[c] = "dec reserved"
              \/ client_type[c] = "pipe" /\ pc[c] = "pp reserved"
           /\ pc' = [pc EXCEPT ![c] = "dec wait"]
           /\ hw' = "run" /\ job' = c
           /\ stale' = (stale /\ dec_irq)
           /\ UNCHANGED <<dec_core_sem, pp_core_sem, lost, dec_owner, pp_owner, dec_irq, closing>>
<1>1. PICK from \in {HasHw(c), "decoded"} : Push(c, from, "dec wait", "run")
  BY DEF EnableHw
<1>2. /\ pc[c] = from
      /\ pc' = [pc EXCEPT ![c] = "dec wait"]
      /\ hw' = "run" /\ job' = c
      /\ stale' = (stale /\ dec_irq)
      /\ UNCHANGED <<dec_core_sem, pp_core_sem, lost, dec_owner, pp_owner, dec_irq, closing>>
  BY <1>1 DEF Push, Moves, sems, owners
<1>3. pc[c] # "none"
  BY DEF Types, Labels, User
<1>4. CASE client_type[c] = "dec"
  BY <1>1, <1>2, <1>4 DEF HasHw
<1>5. CASE client_type[c] = "pipe"
  BY <1>1, <1>2, <1>5 DEF HasHw
<1>6. CASE client_type[c] = "pp"
  BY <1>1, <1>2, <1>3, <1>6 DEF HasHw
<1>7. QED BY <1>4, <1>5, <1>6, TypeAssumption

\* Every step keeps the types.
LEMMA TypesKept ==
    ASSUME IInv, [Next]_vars
    PROVE  Types'
<1> USE DEF IInv, vars, driverVars, sems, owners, device
<1>1. ASSUME NEW c \in Files, GetDecCoreAny(c) PROVE Types'
  BY <1>1 DEF GetDecCoreAny, CoreFor, Moves, Types, Labels, User
<1>2. ASSUME NEW c \in Files, OwnPP(c) PROVE Types'
  BY <1>2 DEF OwnPP, Moves, Types, Labels, User
<1>3. ASSUME NEW c \in Files, WaitDec(c) PROVE Types'
  BY <1>3 DEF WaitDec, Moves, Types, Labels, User, Taken
<1>4. ASSUME NEW c \in Files, ReadStatus(c) PROVE Types'
  BY <1>4 DEF ReadStatus, Moves, Types, Labels, User
<1>5. ASSUME NEW c \in Files, StopCore(c) PROVE Types'
  BY <1>5 DEF StopCore, Moves, Types, Labels, User
<1>6. ASSUME NEW c \in Files, Disown(c) PROVE Types'
  BY <1>6 DEF Disown, Moves, Types, Labels, User
<1>7. ASSUME NEW c \in Files, UpDec(c) PROVE Types'
  <2>1. dec_core_sem' = dec_core_sem + 1 /\ UNCHANGED <<pp_core_sem, lost>>
    BY <1>7 DEF UpDec
  <2>2. dec_core_sem \in Nat /\ pp_core_sem \in Nat /\ lost \in Nat
    BY DEF Types
  <2>3. dec_core_sem' \in Nat /\ pp_core_sem' \in Nat /\ lost' \in Nat
    BY <2>1, <2>2
  <2>4. QED BY <1>7, <2>3 DEF UpDec, PPIfClosing, Moves, Types, Labels, User
<1>8. ASSUME NEW c \in Files, DisownPP(c) PROVE Types'
  BY <1>8 DEF DisownPP, Moves, Types, Labels, User
<1>9. ASSUME NEW c \in Files, UpPP(c) PROVE Types'
  <2>1. pp_core_sem' = pp_core_sem + 1 /\ UNCHANGED <<dec_core_sem, lost>>
    BY <1>9 DEF UpPP
  <2>2. dec_core_sem \in Nat /\ pp_core_sem \in Nat /\ lost \in Nat
    BY DEF Types
  <2>3. dec_core_sem' \in Nat /\ pp_core_sem' \in Nat /\ lost' \in Nat
    BY <2>1, <2>2
  <2>4. QED BY <1>9, <2>3 DEF UpPP, Moves, Types, Labels, User
<1>10. ASSUME NEW c \in Files, ReserveHwPipe(c) PROVE Types'
  BY <1>10 DEF ReserveHwPipe, Enter, Moves, Types, Labels, User
<1>11. ASSUME NEW c \in Files, DisableHw(c) PROVE Types'
  BY <1>11 DEF DisableHw, Push, Moves, Types, Labels, User
<1>12. ASSUME NEW c \in Files, ReleasedPP(c) PROVE Types'
  BY <1>12 DEF ReleasedPP, Enter, Moves, Types, Labels, User
<1>13. ASSUME NEW c \in Files, DownDec(c) PROVE Types'
  <2>1. dec_core_sem > 0 /\ dec_core_sem' = dec_core_sem - 1 /\ UNCHANGED <<pp_core_sem, lost>>
    BY <1>13 DEF DownDec
  <2>2. dec_core_sem \in Nat /\ pp_core_sem \in Nat /\ lost \in Nat
    BY DEF Types
  <2>3. dec_core_sem' \in Nat /\ pp_core_sem' \in Nat /\ lost' \in Nat
    BY <2>1, <2>2
  <2>4. QED BY <1>13, <2>3 DEF DownDec, Moves, Types, Labels, User
<1>14. ASSUME NEW c \in Files, DownPP(c) PROVE Types'
  <2>1. pp_core_sem > 0 /\ pp_core_sem' = pp_core_sem - 1 /\ UNCHANGED <<dec_core_sem, lost>>
    BY <1>14 DEF DownPP
  <2>2. dec_core_sem \in Nat /\ pp_core_sem \in Nat /\ lost \in Nat
    BY DEF Types
  <2>3. dec_core_sem' \in Nat /\ pp_core_sem' \in Nat /\ lost' \in Nat
    BY <2>1, <2>2
  <2>4. QED BY <1>14, <2>3 DEF DownPP, Moves, Types, Labels, User
<1>15. ASSUME NEW c \in Files, Interrupted(c) PROVE Types'
  <2>1. lost' \in {lost, lost + 1} /\ UNCHANGED <<dec_core_sem, pp_core_sem>>
    BY <1>15 DEF Interrupted
  <2>2. dec_core_sem \in Nat /\ pp_core_sem \in Nat /\ lost \in Nat
    BY DEF Types
  <2>3. dec_core_sem' \in Nat /\ pp_core_sem' \in Nat /\ lost' \in Nat
    BY <2>1, <2>2
  <2>4. QED BY <1>15, <2>3 DEF Interrupted, Moves, Types, Labels, User
<1>16. ASSUME NEW c \in Files, ReserveHw(c) PROVE Types'
  BY <1>16 DEF ReserveHw, Enter, Moves, Types, Labels, User
<1>17. ASSUME NEW c \in Files, EnableHw(c) PROVE Types'
  BY <1>17, Enabling DEF Types, Labels
<1>18. ASSUME NEW c \in Files, ReleaseHw(c) PROVE Types'
  BY <1>18 DEF ReleaseHw, Enter, Moves, Types, Labels, User
<1>19. ASSUME NEW c \in Files, End(c) PROVE Types'
  BY <1>19 DEF End, Close, FirstToClose, PPIfClosing, User, Moves, Types, Labels, User
<1>20. ASSUME NEW c \in Files, Open(c) PROVE Types'
  BY <1>20 DEF Open, Moves, Types, Labels, User
<1>21. ASSUME Finish PROVE Types'
  BY <1>21 DEF Finish, Types
<1>22. ASSUME Isr PROVE Types'
  BY <1>22 DEF Isr, Types, Seen
<1>23. CASE UNCHANGED vars
  BY <1>23 DEF vars, Types
<1>24. QED
  BY <1>1, <1>2, <1>3, <1>4, <1>5, <1>6, <1>7, <1>8, <1>9, <1>10, <1>11,
     <1>12, <1>13, <1>14, <1>15, <1>16, <1>17, <1>18, <1>19, <1>20, <1>21,
     <1>22, <1>23
  DEF Next, Client, Proceed, Down

\* Every step keeps the count of the permits.
LEMMA PermitsKept ==
    ASSUME IInv, [Next]_vars
    PROVE  PermitsExact'
<1> USE DEF IInv, vars, driverVars, sems, owners, device
<1>1. ASSUME NEW c \in Files, GetDecCoreAny(c) PROVE PermitsExact'
  <2> DEFINE to == "dec reserved"
  <2>1. pc[c] = "core" /\ pc' = [pc EXCEPT ![c] = to]
    BY <1>1 DEF GetDecCoreAny, Moves
  <2>2. to \in Labels /\ to \notin DecLabels /\ to \notin PPLabels
    BY DEF Labels, User, DecLabels, PPLabels, PPIfClosing
  <2> HIDE DEF to
  <2>3. /\ Cardinality(At(DecLabels)) \in Nat
        /\ Cardinality(At(DecLabels)') = Cardinality(At(DecLabels)) - 1
    BY <2>1, <2>2, MoveSize DEF DecLabels
  <2>4. /\ Cardinality(At(PPLabels)) \in Nat
        /\ Cardinality(At(PPLabels)') = Cardinality(At(PPLabels)) 
    BY <2>1, <2>2, MoveSize DEF PPLabels
  <2>5. dec_owner = None /\ dec_owner' = c
    BY <1>1, <2>1 DEF GetDecCoreAny, CoreFor, Moves, Places, Place, DecHeld, PPLabels
  <2>6. c # None
    BY FilesAssumption
  <2>7. Owned(dec_owner') = Owned(dec_owner) + 1 /\ Owned(dec_owner) \in Nat
    BY <2>5, <2>6 DEF Owned
  <2>8. UNCHANGED <<dec_core_sem, pp_core_sem, lost, pp_owner>>
    BY <1>1 DEF GetDecCoreAny
  <2>9. QED BY <2>3, <2>4, <2>7, <2>8, PermitsAt DEF PermitsExact, Types
<1>2. ASSUME NEW c \in Files, OwnPP(c) PROVE PermitsExact'
  <2> DEFINE to == "pp reserved"
  <2>1. pc[c] = "pp own" /\ pc' = [pc EXCEPT ![c] = to]
    BY <1>2 DEF OwnPP, Moves
  <2>2. to \in Labels /\ to \notin DecLabels /\ to \notin PPLabels
    BY DEF Labels, User, DecLabels, PPLabels, PPIfClosing
  <2> HIDE DEF to
  <2>3. /\ Cardinality(At(DecLabels)) \in Nat
        /\ Cardinality(At(DecLabels)') = Cardinality(At(DecLabels)) 
    BY <2>1, <2>2, MoveSize DEF DecLabels
  <2>4. /\ Cardinality(At(PPLabels)) \in Nat
        /\ Cardinality(At(PPLabels)') = Cardinality(At(PPLabels)) - 1
    BY <2>1, <2>2, MoveSize DEF PPLabels
  <2>5. pp_owner = None /\ pp_owner' = c
    BY <1>2, <2>1, PermitExcludesOwner DEF OwnPP, Moves, Places, Place, DecHeld, PPLabels
  <2>6. c # None
    BY FilesAssumption
  <2>7. Owned(pp_owner') = Owned(pp_owner) + 1 /\ Owned(pp_owner) \in Nat
    BY <2>5, <2>6 DEF Owned
  <2>8. UNCHANGED <<dec_core_sem, pp_core_sem, lost, dec_owner>>
    BY <1>2 DEF OwnPP
  <2>9. QED BY <2>3, <2>4, <2>7, <2>8, PermitsAt DEF PermitsExact, Types
<1>3. ASSUME NEW c \in Files, WaitDec(c) PROVE PermitsExact'
  <2> DEFINE to == "decoded"
  <2>1. pc' = [pc EXCEPT ![c] = to] /\ UNCHANGED <<sems, owners>>
        /\ pc[c] \notin PermitLabels
    BY <1>3 DEF WaitDec, Moves, PermitLabels
  <2>2. to \in Labels /\ to \notin PermitLabels
    BY DEF Labels, User, PermitLabels
  <2> HIDE DEF to
  <2>3. QED BY <2>1, <2>2, QuietStep
<1>4. ASSUME NEW c \in Files, ReadStatus(c) PROVE PermitsExact'
  <2> DEFINE to == IF hw = "run" THEN "dec spin" ELSE "dec disown"
  <2>1. pc' = [pc EXCEPT ![c] = to] /\ UNCHANGED <<sems, owners>>
        /\ pc[c] \notin PermitLabels
    BY <1>4 DEF ReadStatus, Moves, PermitLabels
  <2>2. to \in Labels /\ to \notin PermitLabels
    BY DEF Labels, User, PermitLabels
  <2> HIDE DEF to
  <2>3. QED BY <2>1, <2>2, QuietStep
<1>5. ASSUME NEW c \in Files, StopCore(c) PROVE PermitsExact'
  <2> DEFINE to == "dec disown"
  <2>1. pc' = [pc EXCEPT ![c] = to] /\ UNCHANGED <<sems, owners>>
        /\ pc[c] \notin PermitLabels
    BY <1>5 DEF StopCore, Moves, PermitLabels
  <2>2. to \in Labels /\ to \notin PermitLabels
    BY DEF Labels, User, PermitLabels
  <2> HIDE DEF to
  <2>3. QED BY <2>1, <2>2, QuietStep
<1>6. ASSUME NEW c \in Files, Disown(c) PROVE PermitsExact'
  <2> DEFINE to == "dec up"
  <2>1. pc[c] = "dec disown" /\ pc' = [pc EXCEPT ![c] = to]
    BY <1>6 DEF Disown, Moves
  <2>2. to \in Labels /\ to \in DecLabels /\ to \notin PPLabels
    BY DEF Labels, User, DecLabels, PPLabels, PPIfClosing
  <2> HIDE DEF to
  <2>3. /\ Cardinality(At(DecLabels)) \in Nat
        /\ Cardinality(At(DecLabels)') = Cardinality(At(DecLabels)) + 1
    BY <2>1, <2>2, MoveSize DEF DecLabels
  <2>4. /\ Cardinality(At(PPLabels)) \in Nat
        /\ Cardinality(At(PPLabels)') = Cardinality(At(PPLabels)) 
    BY <2>1, <2>2, MoveSize DEF PPLabels
  <2>5. dec_owner = c /\ dec_owner' = None
    BY <1>6, <2>1 DEF Disown, Moves, Places, Place, DecHeld, PPLabels
  <2>6. c # None
    BY FilesAssumption
  <2>7. Owned(dec_owner') = Owned(dec_owner) - 1 /\ Owned(dec_owner) \in Nat
    BY <2>5, <2>6 DEF Owned
  <2>8. UNCHANGED <<dec_core_sem, pp_core_sem, lost, pp_owner>>
    BY <1>6 DEF Disown
  <2>9. QED BY <2>3, <2>4, <2>7, <2>8, PermitsAt DEF PermitsExact, Types
<1>7. ASSUME NEW c \in Files, UpDec(c) PROVE PermitsExact'
  <2> DEFINE to == IF closing[c] THEN PPIfClosing(c) ELSE "idle"
  <2>1. pc[c] = "dec up" /\ pc' = [pc EXCEPT ![c] = to]
    BY <1>7 DEF UpDec, Moves
  <2>2. to \in Labels /\ to \notin DecLabels /\ to \notin PPLabels
    BY DEF Labels, User, DecLabels, PPLabels, PPIfClosing
  <2> HIDE DEF to
  <2>3. /\ Cardinality(At(DecLabels)) \in Nat
        /\ Cardinality(At(DecLabels)') = Cardinality(At(DecLabels)) - 1
    BY <2>1, <2>2, MoveSize DEF DecLabels
  <2>4. /\ Cardinality(At(PPLabels)) \in Nat
        /\ Cardinality(At(PPLabels)') = Cardinality(At(PPLabels)) 
    BY <2>1, <2>2, MoveSize DEF PPLabels
  <2>5. dec_core_sem' = dec_core_sem + 1 /\ UNCHANGED <<pp_core_sem, lost, dec_owner, pp_owner>>
    BY <1>7 DEF UpDec
  <2>6. QED BY <2>3, <2>4, <2>5, PermitsAt DEF PermitsExact, Types, Owned
<1>8. ASSUME NEW c \in Files, DisownPP(c) PROVE PermitsExact'
  <2> DEFINE to == "pp up"
  <2>1. pc[c] = "pp disown" /\ pc' = [pc EXCEPT ![c] = to]
    BY <1>8 DEF DisownPP, Moves
  <2>2. to \in Labels /\ to \notin DecLabels /\ to \in PPLabels
    BY DEF Labels, User, DecLabels, PPLabels, PPIfClosing
  <2> HIDE DEF to
  <2>3. /\ Cardinality(At(DecLabels)) \in Nat
        /\ Cardinality(At(DecLabels)') = Cardinality(At(DecLabels)) 
    BY <2>1, <2>2, MoveSize DEF DecLabels
  <2>4. /\ Cardinality(At(PPLabels)) \in Nat
        /\ Cardinality(At(PPLabels)') = Cardinality(At(PPLabels)) + 1
    BY <2>1, <2>2, MoveSize DEF PPLabels
  <2>5. pp_owner = c /\ pp_owner' = None
    BY <1>8, <2>1 DEF DisownPP, Moves, Places, Place, DecHeld, PPLabels
  <2>6. c # None
    BY FilesAssumption
  <2>7. Owned(pp_owner') = Owned(pp_owner) - 1 /\ Owned(pp_owner) \in Nat
    BY <2>5, <2>6 DEF Owned
  <2>8. UNCHANGED <<dec_core_sem, pp_core_sem, lost, dec_owner>>
    BY <1>8 DEF DisownPP
  <2>9. QED BY <2>3, <2>4, <2>7, <2>8, PermitsAt DEF PermitsExact, Types
<1>9. ASSUME NEW c \in Files, UpPP(c) PROVE PermitsExact'
  <2> DEFINE to == IF closing[c] THEN "gone" ELSE "pp released"
  <2>1. pc[c] = "pp up" /\ pc' = [pc EXCEPT ![c] = to]
    BY <1>9 DEF UpPP, Moves
  <2>2. to \in Labels /\ to \notin DecLabels /\ to \notin PPLabels
    BY DEF Labels, User, DecLabels, PPLabels, PPIfClosing
  <2> HIDE DEF to
  <2>3. /\ Cardinality(At(DecLabels)) \in Nat
        /\ Cardinality(At(DecLabels)') = Cardinality(At(DecLabels)) 
    BY <2>1, <2>2, MoveSize DEF DecLabels
  <2>4. /\ Cardinality(At(PPLabels)) \in Nat
        /\ Cardinality(At(PPLabels)') = Cardinality(At(PPLabels)) - 1
    BY <2>1, <2>2, MoveSize DEF PPLabels
  <2>5. pp_core_sem' = pp_core_sem + 1 /\ UNCHANGED <<dec_core_sem, lost, dec_owner, pp_owner>>
    BY <1>9 DEF UpPP
  <2>6. QED BY <2>3, <2>4, <2>5, PermitsAt DEF PermitsExact, Types, Owned
<1>10. ASSUME NEW c \in Files, ReserveHwPipe(c) PROVE PermitsExact'
  <2> DEFINE to == "pp down"
  <2>1. pc' = [pc EXCEPT ![c] = to] /\ UNCHANGED <<sems, owners>>
        /\ pc[c] \notin PermitLabels
    BY <1>10 DEF ReserveHwPipe, Enter, Moves, PermitLabels
  <2>2. to \in Labels /\ to \notin PermitLabels
    BY DEF Labels, User, PermitLabels
  <2> HIDE DEF to
  <2>3. QED BY <2>1, <2>2, QuietStep
<1>11. ASSUME NEW c \in Files, DisableHw(c) PROVE PermitsExact'
  <2> DEFINE to == "disabled"
  <2>1. pc' = [pc EXCEPT ![c] = to] /\ UNCHANGED <<sems, owners>>
        /\ pc[c] \notin PermitLabels
    BY <1>11 DEF DisableHw, Push, Moves, PermitLabels
  <2>2. to \in Labels /\ to \notin PermitLabels
    BY DEF Labels, User, PermitLabels
  <2> HIDE DEF to
  <2>3. QED BY <2>1, <2>2, QuietStep
<1>12. ASSUME NEW c \in Files, ReleasedPP(c) PROVE PermitsExact'
  <2> DEFINE to == IF client_type[c] = "pipe" THEN "dec release" ELSE "idle"
  <2>1. pc' = [pc EXCEPT ![c] = to] /\ UNCHANGED <<sems, owners>>
        /\ pc[c] \notin PermitLabels
    BY <1>12 DEF ReleasedPP, Enter, Moves, PermitLabels
  <2>2. to \in Labels /\ to \notin PermitLabels
    BY DEF Labels, User, PermitLabels
  <2> HIDE DEF to
  <2>3. QED BY <2>1, <2>2, QuietStep
<1>13. ASSUME NEW c \in Files, DownDec(c) PROVE PermitsExact'
  <2> DEFINE to == "core"
  <2>1. pc[c] = "dec down" /\ pc' = [pc EXCEPT ![c] = to]
    BY <1>13 DEF DownDec, Moves
  <2>2. to \in Labels /\ to \in DecLabels /\ to \notin PPLabels
    BY DEF Labels, User, DecLabels, PPLabels, PPIfClosing
  <2> HIDE DEF to
  <2>3. /\ Cardinality(At(DecLabels)) \in Nat
        /\ Cardinality(At(DecLabels)') = Cardinality(At(DecLabels)) + 1
    BY <2>1, <2>2, MoveSize DEF DecLabels
  <2>4. /\ Cardinality(At(PPLabels)) \in Nat
        /\ Cardinality(At(PPLabels)') = Cardinality(At(PPLabels)) 
    BY <2>1, <2>2, MoveSize DEF PPLabels
  <2>5. dec_core_sem' = dec_core_sem - 1 /\ UNCHANGED <<pp_core_sem, lost, dec_owner, pp_owner>>
    BY <1>13 DEF DownDec
  <2>6. QED BY <2>3, <2>4, <2>5, PermitsAt DEF PermitsExact, Types, Owned
<1>14. ASSUME NEW c \in Files, DownPP(c) PROVE PermitsExact'
  <2> DEFINE to == "pp own"
  <2>1. pc[c] = "pp down" /\ pc' = [pc EXCEPT ![c] = to]
    BY <1>14 DEF DownPP, Moves
  <2>2. to \in Labels /\ to \notin DecLabels /\ to \in PPLabels
    BY DEF Labels, User, DecLabels, PPLabels, PPIfClosing
  <2> HIDE DEF to
  <2>3. /\ Cardinality(At(DecLabels)) \in Nat
        /\ Cardinality(At(DecLabels)') = Cardinality(At(DecLabels)) 
    BY <2>1, <2>2, MoveSize DEF DecLabels
  <2>4. /\ Cardinality(At(PPLabels)) \in Nat
        /\ Cardinality(At(PPLabels)') = Cardinality(At(PPLabels)) + 1
    BY <2>1, <2>2, MoveSize DEF PPLabels
  <2>5. pp_core_sem' = pp_core_sem - 1 /\ UNCHANGED <<dec_core_sem, lost, dec_owner, pp_owner>>
    BY <1>14 DEF DownPP
  <2>6. QED BY <2>3, <2>4, <2>5, PermitsAt DEF PermitsExact, Types, Owned
<1>15. ASSUME NEW c \in Files, Interrupted(c) PROVE PermitsExact'
  <2>1. CASE pc[c] = "core"
    <3>1. lost' = lost + 1 /\ pc' = [pc EXCEPT ![c] = "idle"]
          /\ UNCHANGED <<dec_core_sem, pp_core_sem, owners>>
      BY <1>15, <2>1 DEF Interrupted, Moves
    <3>2. "idle" \in Labels
      BY DEF Labels, User
    <3>3. /\ Cardinality(At(DecLabels)) \in Nat
          /\ Cardinality(At(DecLabels)') = Cardinality(At(DecLabels)) - 1
      BY <2>1, <3>1, <3>2, MoveSize DEF DecLabels
    <3>4. Cardinality(At(PPLabels)') = Cardinality(At(PPLabels))
      BY <2>1, <3>1, <3>2, MoveSize DEF PPLabels
    <3>5. QED BY <3>1, <3>3, <3>4, PermitsAt DEF PermitsExact, Owned, Types
  <2>2. CASE pc[c] # "core"
    <3>1. PICK to \in {"idle", "wait failed"} :
              /\ pc' = [pc EXCEPT ![c] = to] /\ UNCHANGED <<sems, owners>>
              /\ pc[c] \in {"dec down", "pp down", "dec wait"}
      BY <1>15, <2>2 DEF Interrupted, Moves
    <3>2. to \in Labels /\ to \notin PermitLabels /\ pc[c] \notin PermitLabels
      BY <3>1 DEF Labels, User, PermitLabels
    <3>3. QED BY <3>1, <3>2, QuietStep
  <2>3. QED BY <2>1, <2>2
<1>16. ASSUME NEW c \in Files, ReserveHw(c) PROVE PermitsExact'
  <2> DEFINE to == IF client_type[c] = "pp" THEN "pp down" ELSE "dec down"
  <2>1. pc' = [pc EXCEPT ![c] = to] /\ UNCHANGED <<sems, owners>>
        /\ pc[c] \notin PermitLabels
    BY <1>16 DEF ReserveHw, Enter, Moves, PermitLabels
  <2>2. to \in Labels /\ to \notin PermitLabels
    BY DEF Labels, User, PermitLabels
  <2> HIDE DEF to
  <2>3. QED BY <2>1, <2>2, QuietStep
<1>17. ASSUME NEW c \in Files, EnableHw(c) PROVE PermitsExact'
  <2>1. pc' = [pc EXCEPT ![c] = "dec wait"] /\ UNCHANGED <<sems, owners>>
        /\ pc[c] \in {HasHw(c), "decoded"}
    BY <1>17 DEF EnableHw, Push, Moves
  <2>2. pc[c] \notin PermitLabels /\ "dec wait" \notin PermitLabels /\ "dec wait" \in Labels
    BY <2>1, TypeAssumption DEF HasHw, PermitLabels, Labels, Types
  <2>3. QED BY <2>1, <2>2, QuietStep
<1>18. ASSUME NEW c \in Files, ReleaseHw(c) PROVE PermitsExact'
  <2>1. PICK to \in {"pp disown", "dec release"} :
            /\ pc' = [pc EXCEPT ![c] = to] /\ UNCHANGED <<sems, owners>>
            /\ pc[c] \in {"pp reserved", "decoded", "disabled"}
    BY <1>18 DEF ReleaseHw, Enter, Moves
  <2>2. to \in Labels /\ to \notin PermitLabels /\ pc[c] \notin PermitLabels
    BY <2>1 DEF Labels, PermitLabels
  <2>3. QED BY <2>1, <2>2, QuietStep
<1>19. ASSUME NEW c \in Files, End(c) PROVE PermitsExact'
  <2> DEFINE to == FirstToClose(c)
  <2>1. pc' = [pc EXCEPT ![c] = to] /\ UNCHANGED <<sems, owners>>
        /\ pc[c] \notin PermitLabels
    BY <1>19 DEF End, Close, FirstToClose, PPIfClosing, User, Moves, PermitLabels
  <2>2. to \in Labels /\ to \notin PermitLabels
    BY DEF Labels, User, PermitLabels, FirstToClose, PPIfClosing
  <2> HIDE DEF to
  <2>3. QED BY <2>1, <2>2, QuietStep
<1>20. ASSUME NEW c \in Files, Open(c) PROVE PermitsExact'
  <2> DEFINE to == "idle"
  <2>1. pc' = [pc EXCEPT ![c] = to] /\ UNCHANGED <<sems, owners>>
        /\ pc[c] \notin PermitLabels
    BY <1>20 DEF Open, Moves, PermitLabels
  <2>2. to \in Labels /\ to \notin PermitLabels
    BY DEF Labels, User, PermitLabels
  <2> HIDE DEF to
  <2>3. QED BY <2>1, <2>2, QuietStep
<1>21. ASSUME Finish PROVE PermitsExact'
  BY <1>21 DEF Finish, PermitsExact, DecPermits, PPPermits
<1>22. ASSUME Isr PROVE PermitsExact'
  BY <1>22 DEF Isr, PermitsExact, DecPermits, PPPermits
<1>23. CASE UNCHANGED vars
  BY <1>23 DEF vars, PermitsExact, DecPermits, PPPermits
<1>24. QED
  BY <1>1, <1>2, <1>3, <1>4, <1>5, <1>6, <1>7, <1>8, <1>9, <1>10, <1>11,
     <1>12, <1>13, <1>14, <1>15, <1>16, <1>17, <1>18, <1>19, <1>20, <1>21,
     <1>22, <1>23
  DEF Next, Client, Proceed, Down

\* Every step keeps what the places tell of the owners.
LEMMA PlacesKept ==
    ASSUME IInv, [Next]_vars
    PROVE  Places'
<1> USE DEF IInv, vars, driverVars, sems, owners, device
<1>1. ASSUME NEW c \in Files, GetDecCoreAny(c) PROVE Places'
  <2> SUFFICES ASSUME NEW f \in Files PROVE Place(f)'
    BY DEF Places
  <2>1. Place(f) /\ Place(c)
    BY DEF Places
  <2>2. QED BY <1>1, <2>1, PermitExcludesOwner, TypeAssumption, FilesAssumption
    DEF GetDecCoreAny, CoreFor, Moves, Place, Types, DecHeld, PipeHeld, Running, Closing, DecLabels, PPLabels
<1>2. ASSUME NEW c \in Files, OwnPP(c) PROVE Places'
  <2> SUFFICES ASSUME NEW f \in Files PROVE Place(f)'
    BY DEF Places
  <2>1. Place(f) /\ Place(c)
    BY DEF Places
  <2>2. QED BY <1>2, <2>1, PermitExcludesOwner, TypeAssumption, FilesAssumption
    DEF OwnPP, Moves, Place, Types, DecHeld, PipeHeld, Running, Closing, DecLabels, PPLabels
<1>3. ASSUME NEW c \in Files, WaitDec(c) PROVE Places'
  <2> SUFFICES ASSUME NEW f \in Files PROVE Place(f)'
    BY DEF Places
  <2>1. Place(f) /\ Place(c)
    BY DEF Places
  <2>2. QED BY <1>3, <2>1, TypeAssumption, FilesAssumption
    DEF WaitDec, Moves, Place, Types, DecHeld, PipeHeld, Running, Closing
<1>4. ASSUME NEW c \in Files, ReadStatus(c) PROVE Places'
  <2> SUFFICES ASSUME NEW f \in Files PROVE Place(f)'
    BY DEF Places
  <2>1. Place(f) /\ Place(c)
    BY DEF Places
  <2>2. QED BY <1>4, <2>1, TypeAssumption, FilesAssumption
    DEF ReadStatus, Moves, Place, Types, DecHeld, PipeHeld, Running, Closing
<1>5. ASSUME NEW c \in Files, StopCore(c) PROVE Places'
  <2> SUFFICES ASSUME NEW f \in Files PROVE Place(f)'
    BY DEF Places
  <2>1. Place(f) /\ Place(c)
    BY DEF Places
  <2>2. QED BY <1>5, <2>1, TypeAssumption, FilesAssumption
    DEF StopCore, Moves, Place, Types, DecHeld, PipeHeld, Running, Closing
<1>6. ASSUME NEW c \in Files, Disown(c) PROVE Places'
  <2> SUFFICES ASSUME NEW f \in Files PROVE Place(f)'
    BY DEF Places
  <2>1. Place(f) /\ Place(c)
    BY DEF Places
  <2>2. QED BY <1>6, <2>1, TypeAssumption, FilesAssumption
    DEF Disown, Moves, Place, Types, DecHeld, PipeHeld, Running, Closing
<1>7. ASSUME NEW c \in Files, UpDec(c) PROVE Places'
  <2> SUFFICES ASSUME NEW f \in Files PROVE Place(f)'
    BY DEF Places
  <2>1. Place(f) /\ Place(c)
    BY DEF Places
  <2>2. QED BY <1>7, <2>1, PermitExcludesOwner, TypeAssumption, FilesAssumption
    DEF UpDec, PPIfClosing, Moves, Place, Types, DecHeld, PipeHeld, Running, Closing, DecLabels, PPLabels
<1>8. ASSUME NEW c \in Files, DisownPP(c) PROVE Places'
  <2> SUFFICES ASSUME NEW f \in Files PROVE Place(f)'
    BY DEF Places
  <2>1. Place(f) /\ Place(c)
    BY DEF Places
  <2>2. QED BY <1>8, <2>1, TypeAssumption, FilesAssumption
    DEF DisownPP, Moves, Place, Types, DecHeld, PipeHeld, Running, Closing
<1>9. ASSUME NEW c \in Files, UpPP(c) PROVE Places'
  <2> SUFFICES ASSUME NEW f \in Files PROVE Place(f)'
    BY DEF Places
  <2>1. Place(f) /\ Place(c)
    BY DEF Places
  <2>2. QED BY <1>9, <2>1, TypeAssumption, FilesAssumption
    DEF UpPP, Moves, Place, Types, DecHeld, PipeHeld, Running, Closing
<1>10. ASSUME NEW c \in Files, ReserveHwPipe(c) PROVE Places'
  <2> SUFFICES ASSUME NEW f \in Files PROVE Place(f)'
    BY DEF Places
  <2>1. Place(f) /\ Place(c)
    BY DEF Places
  <2>2. QED BY <1>10, <2>1, TypeAssumption, FilesAssumption
    DEF ReserveHwPipe, Enter, Moves, Place, Types, DecHeld, PipeHeld, Running, Closing
<1>11. ASSUME NEW c \in Files, DisableHw(c) PROVE Places'
  <2> SUFFICES ASSUME NEW f \in Files PROVE Place(f)'
    BY DEF Places
  <2>1. Place(f) /\ Place(c)
    BY DEF Places
  <2>2. QED BY <1>11, <2>1, TypeAssumption, FilesAssumption
    DEF DisableHw, Push, Moves, Place, Types, DecHeld, PipeHeld, Running, Closing
<1>12. ASSUME NEW c \in Files, ReleasedPP(c) PROVE Places'
  <2> SUFFICES ASSUME NEW f \in Files PROVE Place(f)'
    BY DEF Places
  <2>1. Place(f) /\ Place(c)
    BY DEF Places
  <2>2. QED BY <1>12, <2>1, TypeAssumption, FilesAssumption
    DEF ReleasedPP, Enter, Moves, Place, Types, DecHeld, PipeHeld, Running, Closing
<1>13. ASSUME NEW c \in Files, DownDec(c) PROVE Places'
  <2> SUFFICES ASSUME NEW f \in Files PROVE Place(f)'
    BY DEF Places
  <2>1. Place(f) /\ Place(c)
    BY DEF Places
  <2>2. QED BY <1>13, <2>1, TypeAssumption, FilesAssumption
    DEF DownDec, Moves, Place, Types, DecHeld, PipeHeld, Running, Closing
<1>14. ASSUME NEW c \in Files, DownPP(c) PROVE Places'
  <2> SUFFICES ASSUME NEW f \in Files PROVE Place(f)'
    BY DEF Places
  <2>1. Place(f) /\ Place(c)
    BY DEF Places
  <2>2. QED BY <1>14, <2>1, TypeAssumption, FilesAssumption
    DEF DownPP, Moves, Place, Types, DecHeld, PipeHeld, Running, Closing
<1>15. ASSUME NEW c \in Files, Interrupted(c) PROVE Places'
  <2> SUFFICES ASSUME NEW f \in Files PROVE Place(f)'
    BY DEF Places
  <2>1. Place(f) /\ Place(c)
    BY DEF Places
  <2>2. QED BY <1>15, <2>1, TypeAssumption, FilesAssumption
    DEF Interrupted, Moves, Place, Types, DecHeld, PipeHeld, Running, Closing
<1>16. ASSUME NEW c \in Files, ReserveHw(c) PROVE Places'
  <2> SUFFICES ASSUME NEW f \in Files PROVE Place(f)'
    BY DEF Places
  <2>1. Place(f) /\ Place(c)
    BY DEF Places
  <2>2. QED BY <1>16, <2>1, TypeAssumption, FilesAssumption
    DEF ReserveHw, Enter, Moves, Place, Types, DecHeld, PipeHeld, Running, Closing
<1>17. ASSUME NEW c \in Files, EnableHw(c) PROVE Places'
  <2> SUFFICES ASSUME NEW f \in Files PROVE Place(f)'
    BY DEF Places
  <2>1. Place(f) /\ Place(c)
    BY DEF Places
  <2>2. QED BY <1>17, <2>1, Enabling
    DEF Place, Types, DecHeld, PipeHeld, Running, Closing
<1>18. ASSUME NEW c \in Files, ReleaseHw(c) PROVE Places'
  <2> SUFFICES ASSUME NEW f \in Files PROVE Place(f)'
    BY DEF Places
  <2>1. Place(f) /\ Place(c)
    BY DEF Places
  <2>2. QED BY <1>18, <2>1, TypeAssumption, FilesAssumption
    DEF ReleaseHw, Enter, Moves, Place, Types, DecHeld, PipeHeld, Running, Closing
<1>19. ASSUME NEW c \in Files, End(c) PROVE Places'
  <2> SUFFICES ASSUME NEW f \in Files PROVE Place(f)'
    BY DEF Places
  <2>1. Place(f) /\ Place(c)
    BY DEF Places
  <2>2. QED BY <1>19, <2>1, TypeAssumption, FilesAssumption, ZenonT(60)
    DEF End, Close, FirstToClose, PPIfClosing, User, Moves, Place, Types, DecHeld, PipeHeld, Running, Closing
<1>20. ASSUME NEW c \in Files, Open(c) PROVE Places'
  <2> SUFFICES ASSUME NEW f \in Files PROVE Place(f)'
    BY DEF Places
  <2>1. Place(f) /\ Place(c)
    BY DEF Places
  <2>2. QED BY <1>20, <2>1, TypeAssumption, FilesAssumption
    DEF Open, Moves, Place, Types, DecHeld, PipeHeld, Running, Closing
<1>21. ASSUME Finish PROVE Places'
  BY <1>21 DEF Finish, Places, Place
<1>22. ASSUME Isr PROVE Places'
  BY <1>22 DEF Isr, Places, Place
<1>23. CASE UNCHANGED vars
  BY <1>23 DEF vars, Places, Place
<1>24. QED
  BY <1>1, <1>2, <1>3, <1>4, <1>5, <1>6, <1>7, <1>8, <1>9, <1>10, <1>11,
     <1>12, <1>13, <1>14, <1>15, <1>16, <1>17, <1>18, <1>19, <1>20, <1>21,
     <1>22, <1>23
  DEF Next, Client, Proceed, Down

\* Every step keeps the hardware with its owner.
LEMMA HardwareKept ==
    ASSUME IInv, [Next]_vars
    PROVE  HardwareOwned' /\ Stopped'
<1> USE DEF IInv, vars, driverVars, sems, owners, device
<1>1. ASSUME NEW c \in Files, GetDecCoreAny(c) PROVE HardwareOwned' /\ Stopped'
  BY <1>1, TypeAssumption, FilesAssumption
  DEF GetDecCoreAny, CoreFor, Moves, HardwareOwned, Stopped, Places, Place, Types, DecHeld, PipeHeld, Closing
<1>2. ASSUME NEW c \in Files, OwnPP(c) PROVE HardwareOwned' /\ Stopped'
  BY <1>2, TypeAssumption, FilesAssumption
  DEF OwnPP, Moves, HardwareOwned, Stopped, Places, Place, Types, DecHeld, PipeHeld, Closing
<1>3. ASSUME NEW c \in Files, WaitDec(c) PROVE HardwareOwned' /\ Stopped'
  BY <1>3, TypeAssumption, FilesAssumption
  DEF WaitDec, Moves, HardwareOwned, Stopped, Places, Place, Types, DecHeld, PipeHeld, Closing
<1>4. ASSUME NEW c \in Files, ReadStatus(c) PROVE HardwareOwned' /\ Stopped'
  BY <1>4, TypeAssumption, FilesAssumption
  DEF ReadStatus, Moves, HardwareOwned, Stopped, Places, Place, Types, DecHeld, PipeHeld, Closing
<1>5. ASSUME NEW c \in Files, StopCore(c) PROVE HardwareOwned' /\ Stopped'
  BY <1>5, TypeAssumption, FilesAssumption
  DEF StopCore, Moves, HardwareOwned, Stopped, Places, Place, Types, DecHeld, PipeHeld, Closing
<1>6. ASSUME NEW c \in Files, Disown(c) PROVE HardwareOwned' /\ Stopped'
  BY <1>6, TypeAssumption, FilesAssumption
  DEF Disown, Moves, HardwareOwned, Stopped, Places, Place, Types, DecHeld, PipeHeld, Closing
<1>7. ASSUME NEW c \in Files, UpDec(c) PROVE HardwareOwned' /\ Stopped'
  BY <1>7, TypeAssumption, FilesAssumption
  DEF UpDec, PPIfClosing, Moves, HardwareOwned, Stopped, Places, Place, Types, DecHeld, PipeHeld, Closing
<1>8. ASSUME NEW c \in Files, DisownPP(c) PROVE HardwareOwned' /\ Stopped'
  BY <1>8, TypeAssumption, FilesAssumption
  DEF DisownPP, Moves, HardwareOwned, Stopped, Places, Place, Types, DecHeld, PipeHeld, Closing
<1>9. ASSUME NEW c \in Files, UpPP(c) PROVE HardwareOwned' /\ Stopped'
  BY <1>9, TypeAssumption, FilesAssumption
  DEF UpPP, Moves, HardwareOwned, Stopped, Places, Place, Types, DecHeld, PipeHeld, Closing
<1>10. ASSUME NEW c \in Files, ReserveHwPipe(c) PROVE HardwareOwned' /\ Stopped'
  BY <1>10, TypeAssumption, FilesAssumption
  DEF ReserveHwPipe, Enter, Moves, HardwareOwned, Stopped, Places, Place, Types, DecHeld, PipeHeld, Closing
<1>11. ASSUME NEW c \in Files, DisableHw(c) PROVE HardwareOwned' /\ Stopped'
  BY <1>11, TypeAssumption, FilesAssumption, ZenonT(60)
  DEF DisableHw, Push, Moves, HardwareOwned, Stopped, Places, Place, Types, DecHeld, PipeHeld, Closing
<1>12. ASSUME NEW c \in Files, ReleasedPP(c) PROVE HardwareOwned' /\ Stopped'
  BY <1>12, TypeAssumption, FilesAssumption
  DEF ReleasedPP, Enter, Moves, HardwareOwned, Stopped, Places, Place, Types, DecHeld, PipeHeld, Closing
<1>13. ASSUME NEW c \in Files, DownDec(c) PROVE HardwareOwned' /\ Stopped'
  BY <1>13, TypeAssumption, FilesAssumption
  DEF DownDec, Moves, HardwareOwned, Stopped, Places, Place, Types, DecHeld, PipeHeld, Closing
<1>14. ASSUME NEW c \in Files, DownPP(c) PROVE HardwareOwned' /\ Stopped'
  BY <1>14, TypeAssumption, FilesAssumption
  DEF DownPP, Moves, HardwareOwned, Stopped, Places, Place, Types, DecHeld, PipeHeld, Closing
<1>15. ASSUME NEW c \in Files, Interrupted(c) PROVE HardwareOwned' /\ Stopped'
  BY <1>15, TypeAssumption, FilesAssumption
  DEF Interrupted, Moves, HardwareOwned, Stopped, Places, Place, Types, DecHeld, PipeHeld, Closing
<1>16. ASSUME NEW c \in Files, ReserveHw(c) PROVE HardwareOwned' /\ Stopped'
  BY <1>16, TypeAssumption, FilesAssumption
  DEF ReserveHw, Enter, Moves, HardwareOwned, Stopped, Places, Place, Types, DecHeld, PipeHeld, Closing
<1>17. ASSUME NEW c \in Files, EnableHw(c) PROVE HardwareOwned' /\ Stopped'
  <2>1. dec_owner = c /\ dec_owner' = c /\ hw' = "run" /\ job' = c
        /\ pc' = [pc EXCEPT ![c] = "dec wait"]
    BY <1>17, Enabling DEF Places, Place, DecHeld, PipeHeld, Closing
  <2>2. HardwareOwned'
    BY <2>1, FilesAssumption DEF HardwareOwned
  <2>3. ASSUME NEW f \in Files, pc'[f] = "dec disown" PROVE FALSE
    <3>1. f # c /\ pc[f] = "dec disown"
      BY <2>1, <2>3 DEF Types
    <3>2. QED BY <2>1, <3>1 DEF Places, Place, DecHeld
  <2>4. QED BY <2>2, <2>3 DEF Stopped
<1>18. ASSUME NEW c \in Files, ReleaseHw(c) PROVE HardwareOwned' /\ Stopped'
  BY <1>18, TypeAssumption, FilesAssumption
  DEF ReleaseHw, Enter, Moves, HardwareOwned, Stopped, Places, Place, Types, DecHeld, PipeHeld, Closing
<1>19. ASSUME NEW c \in Files, End(c) PROVE HardwareOwned' /\ Stopped'
  BY <1>19, TypeAssumption, FilesAssumption
  DEF End, Close, FirstToClose, PPIfClosing, User, Moves, HardwareOwned, Stopped, Places, Place, Types, DecHeld, PipeHeld, Closing
<1>20. ASSUME NEW c \in Files, Open(c) PROVE HardwareOwned' /\ Stopped'
  BY <1>20, TypeAssumption, FilesAssumption
  DEF Open, Moves, HardwareOwned, Stopped, Places, Place, Types, DecHeld, PipeHeld, Closing
<1>21. ASSUME Finish PROVE HardwareOwned' /\ Stopped'
  BY <1>21 DEF Finish, HardwareOwned, Stopped
<1>22. ASSUME Isr PROVE HardwareOwned' /\ Stopped'
  BY <1>22 DEF Isr, HardwareOwned, Stopped
<1>23. CASE UNCHANGED vars
  BY <1>23 DEF vars, HardwareOwned, Stopped
<1>24. QED
  BY <1>1, <1>2, <1>3, <1>4, <1>5, <1>6, <1>7, <1>8, <1>9, <1>10, <1>11,
     <1>12, <1>13, <1>14, <1>15, <1>16, <1>17, <1>18, <1>19, <1>20, <1>21,
     <1>22, <1>23
  DEF Next, Client, Proceed, Down

LEMMA InitInv == Init => IInv
<1> SUFFICES ASSUME Init PROVE IInv
  OBVIOUS
<1>1. DecPermits = {} /\ PPPermits = {}
  BY DEF Init, DriverInit, DecPermits, PPPermits
<1>2. Cardinality(DecPermits) = 0 /\ Cardinality(PPPermits) = 0
  BY <1>1, FS_EmptySet
<1>3. PermitsExact
  BY <1>2 DEF Init, DriverInit, PermitsExact, Owned
<1>4. Types /\ HardwareOwned /\ Stopped
  BY DEF Init, DriverInit, Types, Labels, User, HardwareOwned, Stopped
<1>5. Places
  BY FilesAssumption DEF Init, DriverInit, Places, Place, DecHeld, PipeHeld, Running, Closing
<1>6. QED BY <1>3, <1>4, <1>5 DEF IInv

LEMMA NextInv == IInv /\ [Next]_vars => IInv'
BY TypesKept, PermitsKept, PlacesKept, HardwareKept DEF IInv

LEMMA Counts ==
    ASSUME Types
    PROVE  Cardinality(DecPermits) \in Nat /\ Cardinality(PPPermits) \in Nat
BY FilesAssumption, FS_Subset, FS_CardinalityType DEF DecPermits, PPPermits

\* The types of the driver's globals; the semaphores are binary.
THEOREM TypeCorrect == Spec => []TypeOK
<1>1. IInv => TypeOK
  BY Counts DEF IInv, Types, TypeOK, PermitsExact, Owned
<1>2. QED
  BY <1>1, InitInv, NextInv, PTL DEF Spec

\* Each permit is accounted for, for any number of files, whatever signals they
\* get and whenever their processes end.
THEOREM PermitsAlwaysExact == Spec => []PermitsExact
<1>1. IInv => PermitsExact
  BY DEF IInv
<1>2. QED
  BY <1>1, InitInv, NextInv, PTL DEF Spec

\* A thread that got a permit finds the core free (ReserveDecoder).
THEOREM PermitAlwaysFindsCore == Spec => []PermitFindsCore
<1>1. IInv => PermitFindsCore
  BY PermitExcludesOwner DEF IInv, PermitFindsCore, DecLabels
<1>2. QED
  BY <1>1, InitInv, NextInv, PTL DEF Spec

\* The hardware runs for its owner only (ReleaseDecoder).
THEOREM HardwareAlwaysOwned == Spec => []HardwareOwned
<1>1. IInv => HardwareOwned
  BY DEF IInv
<1>2. QED
  BY <1>1, InitInv, NextInv, PTL DEF Spec

\* A closed file has nothing reserved (hantrodec_release).
THEOREM ClosedAlwaysHoldsNothing == Spec => []ClosedHoldsNothing
<1>1. IInv => ClosedHoldsNothing
  BY DEF IInv, Places, Place, ClosedHoldsNothing
<1>2. QED
  BY <1>1, InitInv, NextInv, PTL DEF Spec

NoPermitLost == lost = 0

\* If the core has the format of every client no signal can lose a permit: what
\* ReserveDecoder leaves out when it is interrupted matters for a client whose
\* format is missing, and for more cores than one.
THEOREM OnlyMissingFormatsLosePermits ==
    ASSUME Supported = Files
    PROVE  Spec => []NoPermitLost
<1>1. Init => NoPermitLost
  BY DEF Init, DriverInit, NoPermitLost
<1>2. IInv /\ NoPermitLost /\ [Next]_vars => NoPermitLost'
  <2> SUFFICES ASSUME IInv, NoPermitLost, [Next]_vars PROVE NoPermitLost'
    OBVIOUS
  <2>1. ASSUME NEW c \in Files, Interrupted(c) PROVE NoPermitLost'
    BY <2>1, PermitExcludesOwner DEF Interrupted, CoreFor, Moves, IInv, DecLabels, NoPermitLost
  <2>2. ASSUME lost' = lost PROVE NoPermitLost'
    BY <2>2 DEF NoPermitLost
  <2>3. ASSUME NEW c \in Files, Proceed(c) PROVE lost' = lost
    BY <2>3 DEF Proceed, GetDecCoreAny, OwnPP, WaitDec, ReadStatus, StopCore, Disown,
                UpDec, DisownPP, UpPP, ReserveHwPipe, DisableHw, ReleasedPP, Enter, Push, sems
  <2>4. ASSUME NEW c \in Files, Down(c) \/ ReserveHw(c) \/ EnableHw(c) \/ ReleaseHw(c)
                                  \/ End(c) \/ Open(c)
        PROVE  lost' = lost
    BY <2>4 DEF Down, DownDec, DownPP, ReserveHw, EnableHw, ReleaseHw, End, Open, Close,
                Enter, Push, sems
  <2>5. ASSUME Finish \/ Isr \/ UNCHANGED vars PROVE lost' = lost
    BY <2>5 DEF Finish, Isr, vars, driverVars, sems
  <2>6. QED BY <2>1, <2>2, <2>3, <2>4, <2>5 DEF Next, Client
<1>3. QED
  BY <1>1, <1>2, InitInv, NextInv, PTL DEF Spec
-----------------------------------------------------------------------------
(* Whose interrupt it is *)

\* The file has what it needs to start the decoder, or is about to get it.
Fit(c) ==
    \/ pc[c] \in {"dec reserved", "decoded"}
    \/ client_type[c] = "pipe" /\ pc[c] \in {"pp down", "pp own", "pp reserved"}

\* No trace of a decode is left where a new one begins, unless the ghost says so:
\* in a core that is free, with a file that may start it, and, while a file
\* waits, next to an interrupt that came before its decode is over.
FreeClean == dec_owner = None => hw # "run" /\ (dec_irq \/ hw = "irq" => stale)
FitClean(c) == Fit(c) => (dec_irq \/ hw # "off" => stale)
WaitClean(c) == pc[c] = "dec wait" => (dec_irq /\ hw # "off" => stale)

Fresh == FreeClean /\ \A c \in Files : FitClean(c) /\ WaitClean(c)

\* A file that is fit for it, or waits, owns the decoder.
LEMMA FitOwns ==
    ASSUME IInv, NEW c \in Files
    PROVE  Fit(c) \/ pc[c] = "dec wait" => dec_owner = c
BY DEF IInv, Places, Place, Fit, DecHeld, PipeHeld, Closing

\* So a step of the owner concerns no other file.
LEMMA OthersUnfit ==
    ASSUME IInv, NEW c \in Files, NEW f \in Files, f # c, dec_owner = c
    PROVE  ~Fit(f) /\ pc[f] # "dec wait"
BY FitOwns

\* A step to another place, without the hardware, keeps it clean.
LEMMA Leaving ==
    ASSUME IInv, Fresh, NEW c \in Files, UNCHANGED <<dec_owner, dec_irq, hw, stale>>,
           \E to \in {"dec release", "dec spin", "dec disown", "pp disown", "pp up", "gone", "idle"} :
              pc' = [pc EXCEPT ![c] = to]
    PROVE  Fresh'
<1>1. FreeClean'
  BY DEF Fresh, FreeClean
<1>2. ASSUME NEW f \in Files PROVE FitClean(f)' /\ WaitClean(f)'
  <2>1. CASE f = c
    BY <2>1 DEF IInv, Types, FitClean, WaitClean, Fit
  <2>2. CASE f # c
    <3>1. pc'[f] = pc[f]
      BY <2>2 DEF IInv, Types
    <3>2. QED BY <3>1 DEF Fresh, FitClean, WaitClean, Fit
  <2>3. QED BY <2>1, <2>2
<1>3. QED BY <1>1, <1>2 DEF Fresh

\* Every step keeps the hardware clean for the next decode.
LEMMA FreshKept ==
    ASSUME IInv, Fresh, [Next]_vars
    PROVE  Fresh'
<1> USE DEF vars, driverVars, sems, owners, device
<1>0. Types /\ Places /\ Stopped
  BY DEF IInv
<1>1. ASSUME NEW c \in Files, GetDecCoreAny(c) PROVE Fresh'
  <2>1. FreeClean'
    BY <1>0, <1>1, FilesAssumption
    DEF GetDecCoreAny, CoreFor, Moves, Fresh, FreeClean, Types, Places, Place, DecHeld, Stopped
  <2>2. ASSUME NEW f \in Files PROVE FitClean(f)' /\ WaitClean(f)'
    <3>1. FitClean(f) /\ WaitClean(f) /\ FreeClean /\ Place(f) /\ Place(c)
      BY <1>0 DEF Fresh, Places
    <3>2. QED BY <3>1, <1>0, <1>1, FitOwns, TypeAssumption, FilesAssumption
      DEF GetDecCoreAny, CoreFor, Moves, FitClean, WaitClean, FreeClean, Fit, Types, Place, DecHeld, Stopped, Closing
  <2>3. QED BY <2>1, <2>2 DEF Fresh
<1>2. ASSUME NEW c \in Files, OwnPP(c) PROVE Fresh'
  <2>1. FreeClean'
    BY <1>0, <1>2, FilesAssumption
    DEF OwnPP, Moves, Fresh, FreeClean, Types, Places, Place, DecHeld, Stopped
  <2>2. ASSUME NEW f \in Files PROVE FitClean(f)' /\ WaitClean(f)'
    <3>1. FitClean(f) /\ WaitClean(f) /\ FreeClean /\ Place(f) /\ Place(c)
      BY <1>0 DEF Fresh, Places
    <3>2. QED BY <3>1, <1>0, <1>2, FitOwns, TypeAssumption, FilesAssumption
      DEF OwnPP, Moves, FitClean, WaitClean, FreeClean, Fit, Types, Place, DecHeld, Stopped, Closing
  <2>3. QED BY <2>1, <2>2 DEF Fresh
<1>3. ASSUME NEW c \in Files, WaitDec(c) PROVE Fresh'
  <2>1. FreeClean'
    BY <1>0, <1>3, FilesAssumption
    DEF WaitDec, Taken, Moves, Fresh, FreeClean, Types, Places, Place, DecHeld, Stopped
  <2>2. ASSUME NEW f \in Files PROVE FitClean(f)' /\ WaitClean(f)'
    <3>1. FitClean(f) /\ WaitClean(f) /\ FreeClean /\ Place(f) /\ Place(c)
      BY <1>0 DEF Fresh, Places
    <3>2. QED BY <3>1, <1>0, <1>3, FitOwns, TypeAssumption, FilesAssumption
      DEF WaitDec, Taken, Moves, FitClean, WaitClean, FreeClean, Fit, Types, Place, DecHeld, Stopped, Closing
  <2>3. QED BY <2>1, <2>2 DEF Fresh
<1>4. ASSUME NEW c \in Files, ReadStatus(c) PROVE Fresh'
  <2>1. /\ UNCHANGED <<dec_owner, dec_irq, hw, stale>>
        /\ \E to \in {"dec release", "dec spin", "dec disown", "pp disown", "pp up", "gone", "idle"} :
              pc' = [pc EXCEPT ![c] = to]
    BY <1>4 DEF ReadStatus, Moves
  <2>2. QED BY <2>1, Leaving
<1>5. ASSUME NEW c \in Files, StopCore(c) PROVE Fresh'
  <2>1. FreeClean'
    BY <1>0, <1>5, FilesAssumption
    DEF StopCore, Moves, Fresh, FreeClean, Types, Places, Place, DecHeld, Stopped
  <2>2. ASSUME NEW f \in Files PROVE FitClean(f)' /\ WaitClean(f)'
    <3>1. FitClean(f) /\ WaitClean(f) /\ FreeClean /\ Place(f) /\ Place(c)
      BY <1>0 DEF Fresh, Places
    <3>2. QED BY <3>1, <1>0, <1>5, FitOwns, TypeAssumption, FilesAssumption
      DEF StopCore, Moves, FitClean, WaitClean, FreeClean, Fit, Types, Place, DecHeld, Stopped, Closing
  <2>3. QED BY <2>1, <2>2 DEF Fresh
<1>6. ASSUME NEW c \in Files, Disown(c) PROVE Fresh'
  <2>1. FreeClean'
    BY <1>0, <1>6, FilesAssumption
    DEF Disown, Moves, Fresh, FreeClean, Types, Places, Place, DecHeld, Stopped
  <2>2. ASSUME NEW f \in Files PROVE FitClean(f)' /\ WaitClean(f)'
    <3>1. FitClean(f) /\ WaitClean(f) /\ FreeClean /\ Place(f) /\ Place(c)
      BY <1>0 DEF Fresh, Places
    <3>2. QED BY <3>1, <1>0, <1>6, FitOwns, TypeAssumption, FilesAssumption
      DEF Disown, Moves, FitClean, WaitClean, FreeClean, Fit, Types, Place, DecHeld, Stopped, Closing
  <2>3. QED BY <2>1, <2>2 DEF Fresh
<1>7. ASSUME NEW c \in Files, UpDec(c) PROVE Fresh'
  <2>1. FreeClean'
    BY <1>0, <1>7, FilesAssumption
    DEF UpDec, PPIfClosing, Moves, Fresh, FreeClean, Types, Places, Place, DecHeld, Stopped
  <2>2. ASSUME NEW f \in Files PROVE FitClean(f)' /\ WaitClean(f)'
    <3>1. FitClean(f) /\ WaitClean(f) /\ FreeClean /\ Place(f) /\ Place(c)
      BY <1>0 DEF Fresh, Places
    <3>2. QED BY <3>1, <1>0, <1>7, FitOwns, TypeAssumption, FilesAssumption
      DEF UpDec, PPIfClosing, Moves, FitClean, WaitClean, FreeClean, Fit, Types, Place, DecHeld, Stopped, Closing
  <2>3. QED BY <2>1, <2>2 DEF Fresh
<1>8. ASSUME NEW c \in Files, DisownPP(c) PROVE Fresh'
  <2>1. /\ UNCHANGED <<dec_owner, dec_irq, hw, stale>>
        /\ \E to \in {"dec release", "dec spin", "dec disown", "pp disown", "pp up", "gone", "idle"} :
              pc' = [pc EXCEPT ![c] = to]
    BY <1>8 DEF DisownPP, Moves
  <2>2. QED BY <2>1, Leaving
<1>9. ASSUME NEW c \in Files, UpPP(c) PROVE Fresh'
  <2>1. FreeClean'
    BY <1>0, <1>9, FilesAssumption
    DEF UpPP, Moves, Fresh, FreeClean, Types, Places, Place, DecHeld, Stopped
  <2>2. ASSUME NEW f \in Files PROVE FitClean(f)' /\ WaitClean(f)'
    <3>1. FitClean(f) /\ WaitClean(f) /\ FreeClean /\ Place(f) /\ Place(c)
      BY <1>0 DEF Fresh, Places
    <3>2. QED BY <3>1, <1>0, <1>9, FitOwns, TypeAssumption, FilesAssumption
      DEF UpPP, Moves, FitClean, WaitClean, FreeClean, Fit, Types, Place, DecHeld, Stopped, Closing
  <2>3. QED BY <2>1, <2>2 DEF Fresh
<1>10. ASSUME NEW c \in Files, ReserveHwPipe(c) PROVE Fresh'
  <2>1. FreeClean'
    BY <1>0, <1>10, FilesAssumption
    DEF ReserveHwPipe, Enter, Moves, Fresh, FreeClean, Types, Places, Place, DecHeld, Stopped
  <2>2. ASSUME NEW f \in Files PROVE FitClean(f)' /\ WaitClean(f)'
    <3>1. FitClean(f) /\ WaitClean(f) /\ FreeClean /\ Place(f) /\ Place(c)
      BY <1>0 DEF Fresh, Places
    <3>2. QED BY <3>1, <1>0, <1>10, FitOwns, TypeAssumption, FilesAssumption
      DEF ReserveHwPipe, Enter, Moves, FitClean, WaitClean, FreeClean, Fit, Types, Place, DecHeld, Stopped, Closing
  <2>3. QED BY <2>1, <2>2 DEF Fresh
<1>11. ASSUME NEW c \in Files, DisableHw(c) PROVE Fresh'
  <2>1. FreeClean'
    BY <1>0, <1>11, FilesAssumption
    DEF DisableHw, Push, Moves, Fresh, FreeClean, Types, Places, Place, DecHeld, Stopped
  <2>2. ASSUME NEW f \in Files PROVE FitClean(f)' /\ WaitClean(f)'
    <3>1. FitClean(f) /\ WaitClean(f) /\ FreeClean /\ Place(f) /\ Place(c)
      BY <1>0 DEF Fresh, Places
    <3>2. QED BY <3>1, <1>0, <1>11, FitOwns, TypeAssumption, FilesAssumption
      DEF DisableHw, Push, Moves, FitClean, WaitClean, FreeClean, Fit, Types, Place, DecHeld, Stopped, Closing
  <2>3. QED BY <2>1, <2>2 DEF Fresh
<1>12. ASSUME NEW c \in Files, ReleasedPP(c) PROVE Fresh'
  <2>1. FreeClean'
    BY <1>0, <1>12, FilesAssumption
    DEF ReleasedPP, Enter, Moves, Fresh, FreeClean, Types, Places, Place, DecHeld, Stopped
  <2>2. ASSUME NEW f \in Files PROVE FitClean(f)' /\ WaitClean(f)'
    <3>1. FitClean(f) /\ WaitClean(f) /\ FreeClean /\ Place(f) /\ Place(c)
      BY <1>0 DEF Fresh, Places
    <3>2. QED BY <3>1, <1>0, <1>12, FitOwns, TypeAssumption, FilesAssumption
      DEF ReleasedPP, Enter, Moves, FitClean, WaitClean, FreeClean, Fit, Types, Place, DecHeld, Stopped, Closing
  <2>3. QED BY <2>1, <2>2 DEF Fresh
<1>13. ASSUME NEW c \in Files, DownDec(c) PROVE Fresh'
  <2>1. FreeClean'
    BY <1>0, <1>13, FilesAssumption
    DEF DownDec, Moves, Fresh, FreeClean, Types, Places, Place, DecHeld, Stopped
  <2>2. ASSUME NEW f \in Files PROVE FitClean(f)' /\ WaitClean(f)'
    <3>1. FitClean(f) /\ WaitClean(f) /\ FreeClean /\ Place(f) /\ Place(c)
      BY <1>0 DEF Fresh, Places
    <3>2. QED BY <3>1, <1>0, <1>13, FitOwns, TypeAssumption, FilesAssumption
      DEF DownDec, Moves, FitClean, WaitClean, FreeClean, Fit, Types, Place, DecHeld, Stopped, Closing
  <2>3. QED BY <2>1, <2>2 DEF Fresh
<1>14. ASSUME NEW c \in Files, DownPP(c) PROVE Fresh'
  <2>1. FreeClean'
    BY <1>0, <1>14, FilesAssumption
    DEF DownPP, Moves, Fresh, FreeClean, Types, Places, Place, DecHeld, Stopped
  <2>2. ASSUME NEW f \in Files PROVE FitClean(f)' /\ WaitClean(f)'
    <3>1. FitClean(f) /\ WaitClean(f) /\ FreeClean /\ Place(f) /\ Place(c)
      BY <1>0 DEF Fresh, Places
    <3>2. QED BY <3>1, <1>0, <1>14, FitOwns, TypeAssumption, FilesAssumption
      DEF DownPP, Moves, FitClean, WaitClean, FreeClean, Fit, Types, Place, DecHeld, Stopped, Closing
  <2>3. QED BY <2>1, <2>2 DEF Fresh
<1>15. ASSUME NEW c \in Files, Interrupted(c) PROVE Fresh'
  <2>1. FreeClean'
    BY <1>0, <1>15, FilesAssumption
    DEF Interrupted, Moves, Fresh, FreeClean, Types, Places, Place, DecHeld, Stopped
  <2>2. ASSUME NEW f \in Files PROVE FitClean(f)' /\ WaitClean(f)'
    <3>1. FitClean(f) /\ WaitClean(f) /\ FreeClean /\ Place(f) /\ Place(c)
      BY <1>0 DEF Fresh, Places
    <3>2. QED BY <3>1, <1>0, <1>15, FitOwns, TypeAssumption, FilesAssumption
      DEF Interrupted, Moves, FitClean, WaitClean, FreeClean, Fit, Types, Place, DecHeld, Stopped, Closing
  <2>3. QED BY <2>1, <2>2 DEF Fresh
<1>16. ASSUME NEW c \in Files, ReserveHw(c) PROVE Fresh'
  <2>1. FreeClean'
    BY <1>0, <1>16, FilesAssumption
    DEF ReserveHw, Enter, Moves, Fresh, FreeClean, Types, Places, Place, DecHeld, Stopped
  <2>2. ASSUME NEW f \in Files PROVE FitClean(f)' /\ WaitClean(f)'
    <3>1. FitClean(f) /\ WaitClean(f) /\ FreeClean /\ Place(f) /\ Place(c)
      BY <1>0 DEF Fresh, Places
    <3>2. QED BY <3>1, <1>0, <1>16, FitOwns, TypeAssumption, FilesAssumption
      DEF ReserveHw, Enter, Moves, FitClean, WaitClean, FreeClean, Fit, Types, Place, DecHeld, Stopped, Closing
  <2>3. QED BY <2>1, <2>2 DEF Fresh
<1>17. ASSUME NEW c \in Files, EnableHw(c) PROVE Fresh'
  <2>1. /\ Fit(c) /\ pc' = [pc EXCEPT ![c] = "dec wait"]
        /\ dec_owner = c /\ dec_owner' = c
        /\ stale' = (stale /\ dec_irq) /\ dec_irq' = dec_irq
    BY <1>0, <1>17, Enabling, FitOwns DEF Fit
  <2>2. FreeClean'
    BY <2>1, FilesAssumption DEF FreeClean
  <2>3. ASSUME NEW f \in Files PROVE FitClean(f)' /\ WaitClean(f)'
    <3>1. CASE f = c
      BY <3>1, <1>0, <2>1 DEF Fresh, FitClean, WaitClean, Fit, Types
    <3>2. CASE f # c
      BY <3>2, <1>0, <2>1, OthersUnfit DEF FitClean, WaitClean, Fit, Types
    <3>3. QED BY <3>1, <3>2
  <2>4. QED BY <2>2, <2>3 DEF Fresh
<1>18. ASSUME NEW c \in Files, ReleaseHw(c) PROVE Fresh'
  <2>1. /\ UNCHANGED <<dec_owner, dec_irq, hw, stale>>
        /\ \E to \in {"dec release", "dec spin", "dec disown", "pp disown", "pp up", "gone", "idle"} :
              pc' = [pc EXCEPT ![c] = to]
    BY <1>18 DEF ReleaseHw, Enter, Moves
  <2>2. QED BY <2>1, Leaving
<1>19. ASSUME NEW c \in Files, End(c) PROVE Fresh'
  <2>1. /\ UNCHANGED <<dec_owner, dec_irq, hw, stale>>
        /\ \E to \in {"dec release", "dec spin", "dec disown", "pp disown", "pp up", "gone", "idle"} :
              pc' = [pc EXCEPT ![c] = to]
    BY <1>19 DEF End, Close, FirstToClose, PPIfClosing, User, Moves
  <2>2. QED BY <2>1, Leaving
<1>20. ASSUME NEW c \in Files, Open(c) PROVE Fresh'
  <2>1. FreeClean'
    BY <1>0, <1>20, FilesAssumption
    DEF Open, Moves, Fresh, FreeClean, Types, Places, Place, DecHeld, Stopped
  <2>2. ASSUME NEW f \in Files PROVE FitClean(f)' /\ WaitClean(f)'
    <3>1. FitClean(f) /\ WaitClean(f) /\ FreeClean /\ Place(f) /\ Place(c)
      BY <1>0 DEF Fresh, Places
    <3>2. QED BY <3>1, <1>0, <1>20, FitOwns, TypeAssumption, FilesAssumption
      DEF Open, Moves, FitClean, WaitClean, FreeClean, Fit, Types, Place, DecHeld, Stopped, Closing
  <2>3. QED BY <2>1, <2>2 DEF Fresh
<1>21. ASSUME Finish PROVE Fresh'
  BY <1>21 DEF Finish, Fresh, FreeClean, FitClean, WaitClean, Fit
<1>22. ASSUME Isr PROVE Fresh'
  BY <1>22 DEF Isr, Seen, Fresh, FreeClean, FitClean, WaitClean, Fit
<1>23. CASE UNCHANGED vars
  BY <1>23 DEF vars, Fresh, FreeClean, FitClean, WaitClean, Fit
<1>24. QED
  BY <1>1, <1>2, <1>3, <1>4, <1>5, <1>6, <1>7, <1>8, <1>9, <1>10, <1>11,
     <1>12, <1>13, <1>14, <1>15, <1>16, <1>17, <1>18, <1>19, <1>20, <1>21,
     <1>22, <1>23
  DEF Next, Client, Proceed, Down

\* Only DEC_WAIT itself ends a wait with success, and only with the bit set.
LEMMA WaitEnds ==
    ASSUME IInv, Next, NEW c \in Files, pc[c] = "dec wait", pc'[c] = "decoded"
    PROVE  dec_irq
<1>0. Types
  BY DEF IInv
<1>1. ASSUME NEW f \in Files, Client(f), f # c PROVE pc'[c] = pc[c]
  <2>1. \E to \in Labels : pc' = [pc EXCEPT ![f] = to]
    <3>1. CASE EnableHw(f)
      BY <3>1, <1>0, Enabling DEF Labels
    <3>2. CASE Proceed(f)
      BY <3>2 DEF Proceed, GetDecCoreAny, OwnPP, WaitDec, ReadStatus, StopCore, Disown, UpDec,
         DisownPP, UpPP, ReserveHwPipe, DisableHw, ReleasedPP, Enter, Push, Moves, PPIfClosing,
         Labels, User
    <3>3. CASE Down(f) \/ Interrupted(f) \/ ReserveHw(f) \/ ReleaseHw(f) \/ End(f) \/ Open(f)
      BY <3>3 DEF Down, DownDec, DownPP, Interrupted, ReserveHw, ReleaseHw, End, Open, Close,
         FirstToClose, PPIfClosing, Enter, Moves, Labels, User
    <3>4. QED BY <1>1, <3>1, <3>2, <3>3 DEF Client
  <2>2. QED BY <2>1, <1>1, <1>0 DEF Types
<1>2. ASSUME Client(c) PROVE dec_irq
  <2>1. CASE EnableHw(c)
    BY <2>1, <1>0, Enabling DEF Types
  <2>2. CASE Proceed(c)
    BY <2>2, <1>0 DEF Proceed, GetDecCoreAny, OwnPP, WaitDec, ReadStatus, StopCore, Disown, UpDec,
       DisownPP, UpPP, ReserveHwPipe, DisableHw, ReleasedPP, Enter, Push, Moves, Types
  <2>3. CASE Down(c) \/ Interrupted(c) \/ ReserveHw(c) \/ ReleaseHw(c) \/ End(c) \/ Open(c)
    BY <2>3, <1>0 DEF Down, DownDec, DownPP, Interrupted, ReserveHw, ReleaseHw, End, Open, Close,
       User, Enter, Moves, Types, FirstToClose, PPIfClosing
  <2>4. QED BY <1>2, <2>1, <2>2, <2>3 DEF Client
<1>3. ASSUME Finish \/ Isr PROVE FALSE
  BY <1>3 DEF Finish, Isr
<1>4. QED BY <1>1, <1>2, <1>3 DEF Next

\* DEC_WAIT answers for the decode that was started, not for an earlier one,
\* unless an owner left its interrupt behind (CheckDecIrq, ReleaseDecoder).
THEOREM AlwaysWaitsForOwn == Spec => WaitsForOwn
<1> DEFINE WaitsStep ==
        \A c \in Files : pc[c] = "dec wait" /\ pc'[c] = "decoded" /\ hw = "run" => stale
<1>1. Init => Fresh
  BY FilesAssumption DEF Init, DriverInit, Fresh, FreeClean, FitClean, WaitClean, Fit
<1>2. IInv /\ Fresh /\ [Next]_vars => Fresh'
  BY FreshKept
<1>3. IInv /\ Fresh /\ [Next]_vars => [WaitsStep]_vars
  <2> SUFFICES ASSUME IInv, Fresh, Next, NEW c \in Files,
                      pc[c] = "dec wait", pc'[c] = "decoded", hw = "run"
               PROVE  stale
    BY DEF vars, driverVars
  <2>1. dec_irq
    BY WaitEnds
  <2>2. QED BY <2>1 DEF Fresh, WaitClean
<1>4. QED
  BY <1>1, <1>2, <1>3, InitInv, NextInv, PTL DEF Spec, WaitsForOwn
=============================================================================
