----------------------- MODULE SendReservation_proofs -----------------------
(***************************************************************************)
(* Proofs about SendReservation, for every set of proposals and outputs,   *)
(* every lock window and every bound on the chain:                         *)
(*   1. TypeCorrect;                                                       *)
(*   2. the three layers of the inductive invariant, one action at a time: *)
(*      LifecycleStep, RecoverableStep, ExclusiveStep;                     *)
(*   3. the safety properties as consequences of the layers, and what a    *)
(*      step may do: MigrationLocksStay, ReclaimProgress, StartupQuiet,    *)
(*      OrphanProgress.                                                    *)
(* The last three are what OrphanReleased and ExpiredReservationReclaimed  *)
(* rest on; that a fair pass is enabled and taken is left to the model     *)
(* checker.                                                                *)
(***************************************************************************)
EXTENDS SendReservationInv, TLAPS

USE DEF Owners, chain, proposal, rows, walletLocks, callState, memory

-----------------------------------------------------------------------------
\* What the memory of a new process looks like.
LEMMA RebootType ==
  ASSUME Reboot
  PROVE  /\ old' \in [Owners -> BOOLEAN]
         /\ call' \in [Owners -> Stages]
         /\ live' \in [Owners -> Heights]
         /\ props' \in SUBSET Owners /\ locks' \in SUBSET Owners
         /\ cancel' \in SUBSET Owners /\ held' \in SUBSET Owners
         /\ gate' \in BOOLEAN /\ boot' \in BOOLEAN
         /\ sync' \in {"idle", "recover"}
<1>1. old' \in [Owners -> BOOLEAN] BY Zenon DEF Reboot
<1>2. live' \in [Owners -> Heights] BY ConstantAssumption DEF Reboot, Heights
<1>3. call' \in [Owners -> Stages] BY DEF Reboot, Stages
<1> QED BY <1>1, <1>2, <1>3 DEF Reboot

\* A pass of recover, complete or not, removes rows and locks and nothing else.
LEMMA RecoveryRows ==
  ASSUME TypeOK, NEW c \in BOOLEAN, Recover(c) \/ RecoverFails(c)
  PROVE  /\ phase' \in [Owners -> Phases]
         /\ \A p \in Owners : phase'[p] \in {phase[p], "none"}
         /\ lockOf' \in [Outputs -> Owners \cup {NoOwner, Migration}]
         /\ UNCHANGED <<old, rowExp, lockExp>>
<1>1. PICK os \in SUBSET Releasable(c) :
        /\ UnlockOutputs(os)
        /\ RemoveRows(os) \/ UNCHANGED phase
        /\ UNCHANGED <<old, rowExp>>
  <2>1. CASE Recover(c) BY <2>1 DEF Recover
  <2>2. CASE RecoverFails(c) BY <2>2 DEF RecoverFails
  <2> QED BY <2>1, <2>2
<1>2. phase' \in [Owners -> Phases] BY <1>1 DEF RemoveRows, TypeOK, Phases
<1>3. \A p \in Owners : phase'[p] \in {phase[p], "none"} BY <1>1 DEF RemoveRows
<1>4. lockOf' \in [Outputs -> Owners \cup {NoOwner, Migration}] /\ lockExp' = lockExp
  BY <1>1 DEF UnlockOutputs, TypeOK
<1> QED BY <1>1, <1>2, <1>3, <1>4

\* Every reachable state of the reservation tables, the proposal store, the
\* outbox and the calls in flight is well typed.
THEOREM TypeCorrect == Spec => []TypeOK
<1>1. Init => TypeOK
  <2> SUFFICES ASSUME Init PROVE TypeOK
    OBVIOUS
  <2>1. PICK os \in SUBSET LegacyOwners : InitLegacy(os) BY DEF Init
  <2>2. old \in [Owners -> BOOLEAN] /\ stored \in [Owners -> BOOLEAN]
    BY Zenon DEF Init
  <2>3. lockOf \in [Outputs -> Owners \cup {NoOwner, Migration}]
    <3> SUFFICES ASSUME NEW n \in Outputs, \E o \in os : n \in inputs[o]
                 PROVE  (CHOOSE o \in os : n \in inputs[o]) \in Owners
      BY <2>1 DEF InitLegacy
    <3> QED BY ConstantAssumption
  <2>4. /\ inputs \in [Owners -> SUBSET Outputs]
        /\ minT \in [Owners -> 0..(MaxHeight + 1)]
        /\ txExp \in [Owners -> Heights] /\ rowExp \in [Owners -> Heights]
        /\ lockExp \in [Outputs -> Heights]
    BY <2>1, ConstantAssumption DEF InitLegacy, Heights
  <2>5. phase \in [Owners -> Phases] /\ wire \in [Owners -> {"no", "maybe", "net"}]
    BY <2>1 DEF InitLegacy, Phases
  <2>6. /\ call \in [Owners -> Stages] /\ live \in [Owners -> Heights]
        /\ outbox \in [Owners -> {"none", "pending", "ack"}]
    BY ConstantAssumption DEF Init, Stages, Heights
  <2>7. tip \in 0..MaxHeight /\ wtip \in 0..tip
    BY ConstantAssumption DEF Init
  <2>8. gate \in BOOLEAN /\ boot \in BOOLEAN
    BY Zenon DEF Init
  <2> QED
    BY <2>2, <2>3, <2>4, <2>5, <2>6, <2>7, <2>8 DEF Init, TypeOK
<1>2. ASSUME TypeOK, [Next]_vars PROVE TypeOK'
  <2> USE ConstantAssumption, <1>2 DEF TypeOK, Phases, Stages, Heights
  <2>1. CASE Tick BY <2>1 DEF Tick
  <2>2. CASE SyncUpdateTip \/ RefreshTip
    BY <2>2 DEF SyncUpdateTip, RefreshTip, RecordTip
  <2>R. ASSUME NEW c \in BOOLEAN, Recover(c) \/ RecoverFails(c)
        PROVE  /\ phase' \in [Owners -> Phases]
               /\ lockOf' \in [Outputs -> Owners \cup {NoOwner, Migration}]
               /\ UNCHANGED <<old, rowExp, lockExp>>
    BY <2>R, RecoveryRows
  <2>3. CASE SyncRecover BY <2>3, <2>R DEF SyncRecover
  <2>4. CASE StartupRecover
    <3>1. Recover(FALSE) \/ RecoverFails(FALSE) BY <2>4 DEF StartupRecover
    <3> QED BY <2>4, <2>R, <3>1 DEF StartupRecover
  <2>5. CASE Die BY <2>5, RebootType DEF Die
  <2>6. CASE BeginShutdown BY <2>6 DEF BeginShutdown
  <2>7. CASE ShutdownSweep
    BY <2>7 DEF ShutdownSweep, UnlockOutputs, RemoveRows
  <2>8. ASSUME NEW n \in Outputs, MigrationLock(n) \/ MigrationUnlock(n)
        PROVE  TypeOK'
    BY <2>8 DEF MigrationLock, MigrationUnlock
  <2>9. ASSUME NEW o \in Owners, OwnerStep(o) PROVE TypeOK'
    <3> USE <2>9 DEF Goto
    <3>1. CASE \E ns \in SUBSET Outputs :
                  Propose(o, ns) \/ ProposeFails(o, ns) \/ DieInPropose(o, ns)
      <4> PICK ns \in SUBSET Outputs :
                Propose(o, ns) \/ ProposeFails(o, ns) \/ DieInPropose(o, ns)
        BY <3>1
      <4> USE DEF PersistRows, Target
      <4>1. CASE Propose(o, ns) BY <4>1 DEF Propose, LockOutputs
      <4>2. CASE ProposeFails(o, ns) BY <4>2 DEF ProposeFails
      <4>3. CASE DieInPropose(o, ns) BY <4>3, RebootType DEF DieInPropose
      <4> QED BY <4>1, <4>2, <4>3
    <3>2. CASE Consume(o) BY <3>2 DEF Consume
    <3>3. CASE ReadLiveTip(o) BY <3>3 DEF ReadLiveTip, RecentTips, LiveExpiry
    <3>4. CASE CreateTransaction(o)
      BY <3>4 DEF CreateTransaction, ExtendRow, LockOutputs
    <3>5. CASE CreatePczt(o) BY <3>5 DEF CreatePczt, ExtendRow, LockOutputs
    <3>6. CASE CreateFails(o) BY <3>6 DEF CreateFails, ExtendRow, LockOutputs
    <3>7. CASE ReleaseProposal(o)
      BY <3>7 DEF ReleaseProposal, ReleaseInputs, ReleaseStops, UnlockOutputs,
                  RemoveRows
    <3>8. CASE FinishProposal(o) BY <3>8 DEF FinishProposal
    <3>9. CASE FinishRows(o) BY <3>9 DEF FinishRows, RemoveRows
    <3>10. CASE Discard(o) BY <3>10 DEF Discard
    <3>11. CASE DiscardUnlock(o)
      BY <3>11 DEF DiscardUnlock, ReleaseInputs, ReleaseStops, UnlockOutputs,
                   RemoveRows
    <3>12. CASE DieInRelease(o) 
      BY <3>12, RebootType DEF DieInRelease, UnlockOutputs
    <3>13. CASE Retain(o) BY <3>13 DEF Retain, ForgetAndRetain, MarkRetain
    <3>14. CASE Checkpoint(o) BY <3>14 DEF Checkpoint
    <3>15. CASE StartKeystone(o) BY <3>15 DEF StartKeystone
    <3>16. CASE StartLedger(o) BY <3>16 DEF StartLedger
    <3>17. CASE ReadBroadcastTip(o) BY <3>17 DEF ReadBroadcastTip
    <3>18. CASE MarkBroadcastStarted(o)
      BY <3>18 DEF MarkBroadcastStarted, MarkRetain
    <3>19. CASE SendTransaction(o) BY <3>19 DEF SendTransaction
    <3>20. CASE AnswerAccepted(o) BY <3>20 DEF AnswerAccepted
    <3>21. CASE AnswerUnknown(o) BY <3>21 DEF AnswerUnknown
    <3>22. CASE AnswerRejected(o) BY <3>22 DEF AnswerRejected
    <3>23. CASE StoreBroadcast(o)
      BY <3>23 DEF StoreBroadcast, StoreTransaction, UnlockOutputs
    <3>24. CASE StoreBroadcastFails(o) BY <3>24 DEF StoreBroadcastFails
    <3>25. CASE RetainAfterStoreFailure(o)
      BY <3>25 DEF RetainAfterStoreFailure, ForgetAndRetain, MarkRetain
    <3>26. CASE RecordOutcome(o) BY <3>26 DEF RecordOutcome, ReleaseOperation
    <3>27. CASE RecordFails(o) BY <3>27 DEF RecordFails
    <3>28. CASE RecoverAfterBroadcast(o)
      BY <3>28, <2>R DEF RecoverAfterBroadcast
    <3>29. CASE Acknowledge(o) BY <3>29 DEF Acknowledge
    <3>30. CASE BroadcastCreated(o) BY <3>30 DEF BroadcastCreated
    <3>31. CASE Resubmit(o) BY <3>31 DEF Resubmit
    <3> QED
      BY <3>1, <3>2, <3>3, <3>4, <3>5, <3>6, <3>7, <3>8, <3>9, <3>10, <3>11,
         <3>12, <3>13, <3>14, <3>15, <3>16, <3>17, <3>18, <3>19, <3>20, <3>21,
         <3>22, <3>23, <3>24, <3>25, <3>26, <3>27, <3>28, <3>29, <3>30, <3>31
         DEF OwnerStep
  <2>10. CASE UNCHANGED vars BY <2>10 DEF vars
  <2> QED
    BY <2>1, <2>2, <2>3, <2>4, <2>5, <2>6, <2>7, <2>8, <2>9, <2>10 DEF Next
<1> QED BY <1>1, <1>2, PTL DEF Spec
-----------------------------------------------------------------------------
\* The states Init allows: no proposal, or rows an older release left behind.
LEMMA InitFacts ==
  ASSUME Init
  PROVE  \E os \in SUBSET Owners :
           /\ \A o \in Owners :
                 /\ o \notin os => /\ inputs[o] = {} /\ txExp[o] = 0
                                   /\ wire[o] = "no" /\ phase[o] = "none"
                 /\ o \in os => /\ inputs[o] # {} /\ txExp[o] = LockBlocks + 1
                                /\ phase[o] = "legacy" /\ rowExp[o] = txExp[o]
                                /\ \A n \in inputs[o] :
                                      lockOf[n] = o /\ lockExp[n] = txExp[o]
           /\ \A n \in Outputs :
                 lockOf[n] # NoOwner => lockOf[n] \in os /\ n \in inputs[lockOf[n]]
<1>1. PICK os \in SUBSET LegacyOwners : InitLegacy(os) BY DEF Init
<1>2. os \in SUBSET Owners BY <1>1, ConstantAssumption
<1>3. ASSUME NEW n \in Outputs, NEW o \in os, n \in inputs[o]
      PROVE  lockOf[n] = o
  <2>1. (CHOOSE r \in os : n \in inputs[r]) \in os
        /\ n \in inputs[CHOOSE r \in os : n \in inputs[r]]
    BY <1>3
  <2>2. (CHOOSE r \in os : n \in inputs[r]) = o
    BY <1>1, <1>3, <2>1 DEF InitLegacy
  <2> QED BY <1>1, <1>3, <2>2 DEF InitLegacy
<1>4. ASSUME NEW n \in Outputs, lockOf[n] # NoOwner
      PROVE  lockOf[n] \in os /\ n \in inputs[lockOf[n]]
  <2>1. PICK o \in os : n \in inputs[o] BY <1>1, <1>4 DEF InitLegacy
  <2> QED BY <1>3, <2>1
<1>5. ASSUME NEW o \in Owners
      PROVE  /\ o \notin os => /\ inputs[o] = {} /\ txExp[o] = 0
                               /\ wire[o] = "no" /\ phase[o] = "none"
             /\ o \in os => /\ inputs[o] # {} /\ txExp[o] = LockBlocks + 1
                            /\ phase[o] = "legacy" /\ rowExp[o] = txExp[o]
                            /\ \A n \in inputs[o] :
                                  lockOf[n] = o /\ lockExp[n] = txExp[o]
  <2>1. inputs[o] \subseteq Outputs BY <1>1, <1>5 DEF InitLegacy
  <2> QED BY <1>1, <1>3, <1>5, <2>1 DEF InitLegacy
<1> QED BY <1>2, <1>4, <1>5

\* Init is consistent,
LEMMA LifecycleInit == Init => Lifecycle
<1> SUFFICES ASSUME Init, NEW o \in Owners PROVE OwnerOK(o)
  BY DEF Lifecycle
<1>1. \/ txExp[o] = 0 /\ wire[o] = "no" /\ phase[o] = "none"
      \/ /\ inputs[o] # {} /\ txExp[o] # 0
         /\ phase[o] = "legacy" /\ rowExp[o] = txExp[o]
  BY InitFacts, ConstantAssumption
<1>2. /\ call[o] = "idle" /\ outbox[o] = "none" /\ ~stored[o] /\ boot
      /\ props = {} /\ locks = {} /\ held = {}
  BY DEF Init
<1> QED
  BY <1>1, <1>2 DEF OwnerOK, Fresh, Unbuilt, StageOK, HeldOK, RowsOK, Sending,
     Recording

\* has no lock without rows,
LEMMA RecoverableInit == Init => Recoverable
<1> SUFFICES ASSUME Init PROVE Recoverable
  OBVIOUS
<1>1. FinishedUnlocked BY DEF Init, FinishedUnlocked
<1>2. LocksAreRecoverable
  BY InitFacts, ConstantAssumption DEF LocksAreRecoverable
<1> QED BY <1>1, <1>2 DEF Recoverable

\* and gives every output to one transaction.
LEMMA ExclusiveInit == Init => Exclusive
<1> SUFFICES ASSUME Init PROVE Exclusive
  OBVIOUS
<1>1. \A o \in Owners : ~stored[o] /\ outbox[o] = "none" /\ call[o] = "idle"
  BY DEF Init
<1>2. ASSUME NEW o \in Owners
      PROVE  RowsRetain(o) /\ Holds(o) /\ SpentUnlocked(o)
  <2>1. /\ wire[o] # "no" => phase[o] = "legacy"
        /\ phase[o] \in {"none", "legacy"}
        /\ wire[o] # "no" => \A n \in inputs[o] :
                                lockOf[n] = o /\ lockExp[n] = txExp[o]
    BY InitFacts
  <2> QED
    BY <1>1, <2>1 DEF RowsRetain, Holds, SpentUnlocked, Reserving, Retained
<1> QED BY <1>1, <1>2 DEF Exclusive, StoredDisjoint
-----------------------------------------------------------------------------
\* One step keeps every proposal consistent.
LEMMA LifecycleStep == TypeOK /\ Lifecycle /\ [Next]_vars => Lifecycle'
<1> SUFFICES ASSUME TypeOK, Lifecycle, [Next]_vars, NEW p \in Owners
             PROVE  OwnerOK(p)'
  BY DEF Lifecycle
<1>0. OwnerOK(p) BY DEF Lifecycle
<1> USE <1>0, ConstantAssumption DEF TypeOK, Phases, Stages, Heights, OwnerOK,
      Fresh, Unbuilt, StageOK, HeldOK, RowsOK, Sending, Recording
<1>1. CASE Tick BY <1>1 DEF Tick
<1>2. CASE SyncUpdateTip \/ RefreshTip
  BY <1>2 DEF SyncUpdateTip, RefreshTip, RecordTip
<1>3. CASE SyncRecover
  <2>1. phase'[p] \in {phase[p], "none"} /\ UNCHANGED <<old, rowExp>>
    BY <1>3, RecoveryRows DEF SyncRecover
  <2> QED BY <1>3, <2>1 DEF SyncRecover
<1>4. CASE StartupRecover
  <2>1. CASE Recover(FALSE) /\ boot' = FALSE
    <3>1. old[p] /\ phase[p] = "session" => p \in Releasable(FALSE)
      BY DEF Releasable, ShouldRelease, Retained
    <3>2. /\ phase'[p] = IF p \in Releasable(FALSE) THEN "none" ELSE phase[p]
          /\ UNCHANGED <<old, rowExp>>
      BY <2>1 DEF Recover, RemoveRows
    <3> QED BY <1>4, <2>1, <3>1, <3>2 DEF StartupRecover
  <2>2. CASE RecoverFails(FALSE) /\ UNCHANGED boot
    BY <1>4, <2>2 DEF StartupRecover, RecoverFails
  <2> QED BY <1>4, <2>1, <2>2 DEF StartupRecover
<1>5. CASE Die BY <1>5 DEF Die, Reboot
<1>6. CASE BeginShutdown BY <1>6 DEF BeginShutdown
<1>7. CASE ShutdownSweep BY <1>7 DEF ShutdownSweep, RemoveRows
<1>8. ASSUME NEW n \in Outputs, MigrationLock(n) \/ MigrationUnlock(n)
      PROVE  OwnerOK(p)'
  BY <1>8 DEF MigrationLock, MigrationUnlock
<1>9. ASSUME NEW o \in Owners, OwnerStep(o) PROVE OwnerOK(p)'
  <2>0. OwnerOK(o) BY DEF Lifecycle
  <2> USE <2>0 DEF Goto
  <2>1. CASE \E ns \in SUBSET Outputs :
                Propose(o, ns) \/ ProposeFails(o, ns) \/ DieInPropose(o, ns)
    <3> PICK ns \in SUBSET Outputs :
              Propose(o, ns) \/ ProposeFails(o, ns) \/ DieInPropose(o, ns)
      BY <2>1
    <3> USE DEF PersistRows, Target, CanPropose
    <3>1. CASE Propose(o, ns) BY <3>1 DEF Propose
    <3>2. CASE ProposeFails(o, ns) BY <3>2 DEF ProposeFails
    <3>3. CASE DieInPropose(o, ns) BY <3>3 DEF DieInPropose, Reboot
    <3> QED BY <3>1, <3>2, <3>3
  <2>2. CASE Consume(o)
    BY <2>2 DEF Consume
  <2>3. CASE ReadLiveTip(o)
    BY <2>3 DEF ReadLiveTip, RecentTips, LiveExpiry
  <2>4. CASE CreateTransaction(o)
    BY <2>4 DEF CreateTransaction, MayCreate, ExtendRow, LockOutputs
  <2>5. CASE CreatePczt(o)
    BY <2>5 DEF CreatePczt, MayCreate, ExtendRow, LockOutputs
  <2>6. CASE CreateFails(o)
    BY <2>6 DEF CreateFails, MayCreate, ExtendRow, LockOutputs
  <2>7. CASE ReleaseProposal(o)
    BY <2>7 DEF ReleaseProposal, ReleaseInputs, ReleaseStops, RemoveRows
  <2>8. CASE FinishProposal(o)
    BY <2>8 DEF FinishProposal
  <2>9. CASE FinishRows(o)
    BY <2>9 DEF FinishRows, RemoveRows
  <2>10. CASE Discard(o)
    BY <2>10 DEF Discard
  <2>11. CASE DiscardUnlock(o)
    BY <2>11 DEF DiscardUnlock, ReleaseInputs, ReleaseStops, RemoveRows, Durable
  <2>12. CASE DieInRelease(o)
    BY <2>12 DEF DieInRelease, Reboot
  <2>13. CASE Retain(o)
    BY <2>13 DEF Retain, ForgetAndRetain, MarkRetain
  <2>14. CASE Checkpoint(o)
    BY <2>14 DEF Checkpoint
  <2>15. CASE StartKeystone(o)
    BY <2>15 DEF StartKeystone
  <2>16. CASE StartLedger(o)
    BY <2>16 DEF StartLedger
  <2>17. CASE ReadBroadcastTip(o)
    BY <2>17 DEF ReadBroadcastTip, RecentTips, ExpiredAt
  <2>18. CASE MarkBroadcastStarted(o)
    BY <2>18 DEF MarkBroadcastStarted, MarkRetain
  <2>19. CASE SendTransaction(o)
    BY <2>19 DEF SendTransaction
  <2>20. CASE AnswerAccepted(o)
    BY <2>20 DEF AnswerAccepted
  <2>21. CASE AnswerUnknown(o)
    BY <2>21 DEF AnswerUnknown
  <2>22. CASE AnswerRejected(o)
    BY <2>22 DEF AnswerRejected
  <2>23. CASE StoreBroadcast(o)
    BY <2>23 DEF StoreBroadcast, StoreTransaction
  <2>24. CASE StoreBroadcastFails(o)
    BY <2>24 DEF StoreBroadcastFails
  <2>25. CASE RetainAfterStoreFailure(o)
    BY <2>25 DEF RetainAfterStoreFailure, ForgetAndRetain, MarkRetain
  <2>26. CASE RecordOutcome(o)
    BY <2>26 DEF RecordOutcome, ReleaseOperation
  <2>27. CASE RecordFails(o)
    BY <2>27 DEF RecordFails
  <2>28. CASE RecoverAfterBroadcast(o)
    <3>1. phase'[p] \in {phase[p], "none"} /\ UNCHANGED <<old, rowExp>>
      BY <2>28, RecoveryRows DEF RecoverAfterBroadcast
    <3> QED BY <2>28, <3>1 DEF RecoverAfterBroadcast
  <2>29. CASE Acknowledge(o)
    BY <2>29 DEF Acknowledge
  <2>30. CASE BroadcastCreated(o)
    BY <2>30 DEF BroadcastCreated
  <2>31. CASE Resubmit(o)
    BY <2>31 DEF Resubmit
  <2> QED
    BY <1>9, <2>1, <2>2, <2>3, <2>4, <2>5, <2>6, <2>7, <2>8, <2>9, <2>10,
       <2>11, <2>12, <2>13, <2>14, <2>15, <2>16, <2>17, <2>18, <2>19, <2>20,
       <2>21, <2>22, <2>23, <2>24, <2>25, <2>26, <2>27, <2>28, <2>29, <2>30, <2>31 DEF OwnerStep
<1>10. CASE UNCHANGED vars BY <1>10 DEF vars
<1> QED
  BY <1>1, <1>2, <1>3, <1>4, <1>5, <1>6, <1>7, <1>8, <1>9, <1>10 DEF Next
-----------------------------------------------------------------------------
\* One step leaves no lock without its rows.
LEMMA RecoverableStep ==
  TypeOK /\ Lifecycle /\ Recoverable /\ [Next]_vars => Recoverable'
<1> DEFINE R(n, p) == /\ lockOf[n] = p => phase[p] # "none" /\ n \in inputs[p]
                      /\ call[p] \in {"finish", "finishRow"} => lockOf[n] # p
<1> SUFFICES ASSUME TypeOK, Lifecycle, Recoverable, [Next]_vars,
                    NEW n \in Outputs, NEW p \in Owners
             PROVE  R(n, p)'
  BY DEF Recoverable, LocksAreRecoverable, FinishedUnlocked
<1>0. \A o \in Owners : R(n, o)
  BY DEF Recoverable, LocksAreRecoverable, FinishedUnlocked
<1> USE <1>0, ConstantAssumption DEF TypeOK, Phases, Stages
<1>1. CASE Tick BY <1>1 DEF Tick
<1>2. CASE SyncUpdateTip \/ RefreshTip
  BY <1>2 DEF SyncUpdateTip, RefreshTip, RecordTip
<1>3. CASE SyncRecover
  <2>1. CASE Recover(TRUE)
    BY <1>3, <2>1 DEF SyncRecover, Recover, UnlockOutputs, RemoveRows
  <2>2. CASE RecoverFails(TRUE)
    BY <1>3, <2>2 DEF SyncRecover, RecoverFails, UnlockOutputs
  <2> QED BY <1>3, <2>1, <2>2 DEF SyncRecover
<1>4. CASE StartupRecover
  <2>1. CASE Recover(FALSE)
    BY <1>4, <2>1 DEF StartupRecover, Recover, UnlockOutputs, RemoveRows
  <2>2. CASE RecoverFails(FALSE)
    BY <1>4, <2>2 DEF StartupRecover, RecoverFails, UnlockOutputs
  <2> QED BY <1>4, <2>1, <2>2 DEF StartupRecover
<1>5. CASE Die BY <1>5 DEF Die, Reboot
<1>6. CASE BeginShutdown BY <1>6 DEF BeginShutdown
<1>7. CASE ShutdownSweep BY <1>7 DEF ShutdownSweep, UnlockOutputs, RemoveRows
<1>8. ASSUME NEW m \in Outputs, MigrationLock(m) \/ MigrationUnlock(m)
      PROVE  R(n, p)'
  BY <1>8 DEF MigrationLock, MigrationUnlock
<1>9. ASSUME NEW o \in Owners, OwnerStep(o) PROVE R(n, p)'
  <2>0. inputs[o] = {} => phase[o] = "none" /\ call[o] = "idle"
    BY DEF Lifecycle, OwnerOK, Fresh
  <2> USE <2>0 DEF Goto
  <2>1. CASE \E ns \in SUBSET Outputs :
                Propose(o, ns) \/ ProposeFails(o, ns) \/ DieInPropose(o, ns)
    <3> PICK ns \in SUBSET Outputs :
              Propose(o, ns) \/ ProposeFails(o, ns) \/ DieInPropose(o, ns)
      BY <2>1
    <3> USE DEF PersistRows, CanPropose
    <3>1. CASE Propose(o, ns) BY <3>1 DEF Propose, LockOutputs
    <3>2. CASE ProposeFails(o, ns) BY <3>2 DEF ProposeFails
    <3>3. CASE DieInPropose(o, ns) BY <3>3 DEF DieInPropose, Reboot
    <3> QED BY <3>1, <3>2, <3>3
  <2>2. CASE Consume(o)
    BY <2>2 DEF Consume
  <2>3. CASE ReadLiveTip(o)
    BY <2>3 DEF ReadLiveTip, RecentTips, LiveExpiry
  <2>4. CASE CreateTransaction(o)
    BY <2>4 DEF CreateTransaction, MayCreate, ExtendRow, LockOutputs
  <2>5. CASE CreatePczt(o)
    BY <2>5 DEF CreatePczt, MayCreate, ExtendRow, LockOutputs
  <2>6. CASE CreateFails(o)
    BY <2>6 DEF CreateFails, MayCreate, ExtendRow, LockOutputs
  <2>7. CASE ReleaseProposal(o)
    BY <2>7 DEF ReleaseProposal, ReleaseInputs, ReleaseStops, UnlockOutputs, RemoveRows
  <2>8. CASE FinishProposal(o)
    BY <2>8 DEF FinishProposal
  <2>9. CASE FinishRows(o)
    BY <2>9 DEF FinishRows, RemoveRows
  <2>10. CASE Discard(o)
    BY <2>10 DEF Discard
  <2>11. CASE DiscardUnlock(o)
    BY <2>11 DEF DiscardUnlock, ReleaseInputs, ReleaseStops, UnlockOutputs, RemoveRows
  <2>12. CASE DieInRelease(o)
    BY <2>12 DEF DieInRelease, Reboot, UnlockOutputs
  <2>13. CASE Retain(o)
    BY <2>13 DEF Retain, ForgetAndRetain, MarkRetain
  <2>14. CASE Checkpoint(o)
    BY <2>14 DEF Checkpoint
  <2>15. CASE StartKeystone(o)
    BY <2>15 DEF StartKeystone
  <2>16. CASE StartLedger(o)
    BY <2>16 DEF StartLedger
  <2>17. CASE ReadBroadcastTip(o)
    BY <2>17 DEF ReadBroadcastTip
  <2>18. CASE MarkBroadcastStarted(o)
    BY <2>18 DEF MarkBroadcastStarted, MarkRetain
  <2>19. CASE SendTransaction(o)
    BY <2>19 DEF SendTransaction
  <2>20. CASE AnswerAccepted(o)
    BY <2>20 DEF AnswerAccepted
  <2>21. CASE AnswerUnknown(o)
    BY <2>21 DEF AnswerUnknown
  <2>22. CASE AnswerRejected(o)
    BY <2>22 DEF AnswerRejected
  <2>23. CASE StoreBroadcast(o)
    BY <2>23 DEF StoreBroadcast, StoreTransaction, UnlockOutputs
  <2>24. CASE StoreBroadcastFails(o)
    BY <2>24 DEF StoreBroadcastFails
  <2>25. CASE RetainAfterStoreFailure(o)
    BY <2>25 DEF RetainAfterStoreFailure, ForgetAndRetain, MarkRetain
  <2>26. CASE RecordOutcome(o)
    BY <2>26 DEF RecordOutcome, ReleaseOperation
  <2>27. CASE RecordFails(o)
    BY <2>27 DEF RecordFails
  <2>28. CASE RecoverAfterBroadcast(o)
    <3>1. CASE Recover(FALSE)
      BY <2>28, <3>1
         DEF RecoverAfterBroadcast, Recover, UnlockOutputs, RemoveRows
    <3>2. CASE RecoverFails(FALSE)
      BY <2>28, <3>2 DEF RecoverAfterBroadcast, RecoverFails, UnlockOutputs
    <3> QED BY <2>28, <3>1, <3>2 DEF RecoverAfterBroadcast
  <2>29. CASE Acknowledge(o)
    BY <2>29 DEF Acknowledge
  <2>30. CASE BroadcastCreated(o)
    BY <2>30 DEF BroadcastCreated
  <2>31. CASE Resubmit(o)
    BY <2>31 DEF Resubmit
  <2> QED
    BY <1>9, <2>1, <2>2, <2>3, <2>4, <2>5, <2>6, <2>7, <2>8, <2>9, <2>10,
       <2>11, <2>12, <2>13, <2>14, <2>15, <2>16, <2>17, <2>18, <2>19, <2>20,
       <2>21, <2>22, <2>23, <2>24, <2>25, <2>26, <2>27, <2>28, <2>29, <2>30, <2>31 DEF OwnerStep
<1>10. CASE UNCHANGED vars BY <1>10 DEF vars
<1> QED
  BY <1>1, <1>2, <1>3, <1>4, <1>5, <1>6, <1>7, <1>8, <1>9, <1>10 DEF Next
-----------------------------------------------------------------------------
\* What the reservation of p keeps everyone else from doing.
LEMMA Protected ==
  ASSUME TypeOK, NEW p \in Owners, Holds(p), Unexpired(p),
         stored[p] \/ Reserving(p), NEW n \in inputs[p]
  PROVE  /\ n \in Outputs
         /\ stored[p] => Spent(n)
         /\ ~stored[p] => LockLive(n) /\ lockOf[n] = p
         /\ ~Selectable(n)
<1>1. n \in Outputs /\ tip \in Nat /\ wtip \in Nat /\ wtip <= tip /\ txExp[p] \in Nat
  BY ConstantAssumption DEF TypeOK, Heights
<1>2. stored[p] => Spent(n)
  BY <1>1 DEF Spent, Unexpired, Target
<1>3. ~stored[p] => LockLive(n) /\ lockOf[n] = p
  BY <1>1 DEF Holds, LockLive, Unexpired, Target
<1> QED BY <1>1, <1>2, <1>3 DEF Selectable

\* No recovery pass releases a reservation that still protects its inputs.
LEMMA NotReleasable ==
  ASSUME TypeOK, NEW p \in Owners, OwnerOK(p), RowsRetain(p),
         ~stored[p], Unexpired(p), Reserving(p), NEW c \in BOOLEAN
  PROVE  ~ShouldRelease(p, c)
BY ConstantAssumption
   DEF TypeOK, Phases, Stages, Heights, OwnerOK, Unbuilt, RowsOK, RowsRetain,
       Unexpired, Reserving, ShouldRelease, Retained, Target

\* A pass of recover, complete or not, leaves the protected inputs alone.
LEMMA RecoveryKeeps ==
  ASSUME TypeOK, NEW p \in Owners, OwnerOK(p),
         RowsRetain(p), Holds(p), SpentUnlocked(p),
         NEW c \in BOOLEAN, Recover(c) \/ RecoverFails(c),
         UNCHANGED <<tip, inputs, txExp, stored, wire, outbox, locks, gate>>,
         call'[p] = call[p] \/ call'[p] = "idle"
  PROVE  RowsRetain(p)' /\ Holds(p)' /\ SpentUnlocked(p)'
<1>1. PICK os \in SUBSET Releasable(c) :
        /\ UnlockOutputs(os)
        /\ RemoveRows(os) \/ UNCHANGED phase
  <2>1. CASE Recover(c)
    BY <2>1 DEF Recover
  <2>2. CASE RecoverFails(c)
    BY <2>2 DEF RecoverFails, rows
  <2> QED BY <2>1, <2>2
<1>2. ~stored[p] /\ Unexpired(p) /\ Reserving(p) => p \notin os
  BY <1>1, NotReleasable DEF Releasable
<1>3. /\ phase'[p] = phase[p] \/ (phase'[p] = "none" /\ p \in os)
      /\ \A n \in Outputs : /\ lockOf[n] \notin os => lockOf'[n] = lockOf[n]
                            /\ lockOf[n] \in os => lockOf'[n] = NoOwner
      /\ lockExp' = lockExp
  BY <1>1 DEF UnlockOutputs, RemoveRows, TypeOK
<1>4. inputs[p] \subseteq Outputs BY DEF TypeOK
<1>5. NoOwner \notin os BY <1>1, ConstantAssumption DEF Releasable
<1>6. RowsRetain(p)'
  BY <1>2, <1>3 DEF RowsRetain, Reserving, Unexpired, Retained
<1>7. Holds(p)'
  <2> SUFFICES ASSUME ~stored[p], Unexpired(p), Reserving(p)', NEW n \in inputs[p]
               PROVE  lockOf'[n] = p /\ lockExp'[n] = txExp[p]
    BY DEF Holds, Unexpired
  <2>1. Reserving(p) BY <1>3 DEF Reserving
  <2> QED BY <2>1, <1>2, <1>3, <1>4 DEF Holds
<1>8. SpentUnlocked(p)'
  BY <1>3, <1>4, <1>5 DEF SpentUnlocked, Unexpired
<1> QED BY <1>6, <1>7, <1>8

\* One step takes no output away from the transaction that reserved it.
LEMMA ExclusiveStep ==
  ASSUME ~StorageFaults
  PROVE  TypeOK /\ Lifecycle /\ Exclusive /\ [Next]_vars => Exclusive'
<1> DEFINE Good(p, q) ==
      /\ RowsRetain(p) /\ Holds(p) /\ SpentUnlocked(p)
      /\ /\ p # q /\ stored[p] /\ stored[q]
         /\ Unexpired(p) /\ Unexpired(q)
         => inputs[p] \cap inputs[q] = {}
<1> SUFFICES ASSUME TypeOK, Lifecycle, Exclusive, [Next]_vars,
                    NEW p \in Owners, NEW q \in Owners
             PROVE  Good(p, q)'
  BY DEF Exclusive, StoredDisjoint
<1>0. \A r, s \in Owners : Good(r, s)
  BY DEF Exclusive, StoredDisjoint
<1>P. \A r \in Owners : OwnerOK(r) BY DEF Lifecycle
<1>L. \A r \in Owners : Unexpired(r) /\ (stored[r] \/ Reserving(r)) =>
        \A n \in inputs[r] : /\ n \in Outputs
                             /\ stored[r] => Spent(n)
                             /\ ~stored[r] => LockLive(n) /\ lockOf[n] = r
                             /\ ~Selectable(n)
  BY <1>0, Protected
<1>G. Good(p, q) /\ Good(q, p) BY <1>0
<1>3. CASE SyncRecover
  <2>1. RowsRetain(p)' /\ Holds(p)' /\ SpentUnlocked(p)'
    BY <1>3, <1>G, <1>P, RecoveryKeeps DEF SyncRecover
  <2> QED BY <1>3, <1>G, <2>1 DEF SyncRecover, Unexpired
<1>4. CASE StartupRecover
  <2>1. RowsRetain(p)' /\ Holds(p)' /\ SpentUnlocked(p)'
    BY <1>4, <1>G, <1>P, RecoveryKeeps DEF StartupRecover
  <2> QED BY <1>4, <1>G, <2>1 DEF StartupRecover, Unexpired
<1>R. ASSUME NEW o \in Owners, RecoverAfterBroadcast(o)
      PROVE  RowsRetain(p)' /\ Holds(p)' /\ SpentUnlocked(p)'
  <2>1. call'[p] = call[p] \/ call'[p] = "idle"
    BY <1>R DEF RecoverAfterBroadcast, Goto, TypeOK
  <2>2. /\ Recover(FALSE) \/ RecoverFails(FALSE)
        /\ UNCHANGED <<tip, inputs, txExp, stored, wire, outbox, locks, gate>>
    BY <1>R DEF RecoverAfterBroadcast
  <2> QED BY <1>G, <1>P, <2>1, <2>2, RecoveryKeeps
<1> USE <1>G, <1>P, ConstantAssumption DEF TypeOK, Phases, Stages, Heights, OwnerOK,
      Fresh, Unbuilt, StageOK, HeldOK, RowsOK, Sending, Recording, RowsRetain,
      Holds, Reserving, SpentUnlocked, Unexpired, Retained
<1>1. CASE Tick BY <1>1 DEF Tick
<1>2. CASE SyncUpdateTip \/ RefreshTip
  BY <1>2 DEF SyncUpdateTip, RefreshTip, RecordTip
<1>5. CASE Die BY <1>5 DEF Die, Reboot
<1>6. CASE BeginShutdown BY <1>6 DEF BeginShutdown
<1>7. CASE ShutdownSweep BY <1>7 DEF ShutdownSweep, UnlockOutputs, RemoveRows, Durable
<1>8. ASSUME NEW m \in Outputs, MigrationLock(m) \/ MigrationUnlock(m)
      PROVE  Good(p, q)'
  BY <1>8, <1>L DEF MigrationLock, MigrationUnlock
<1>9. ASSUME NEW o \in Owners, OwnerStep(o) PROVE Good(p, q)'
  <2>0. Good(o, p) /\ Good(o, q) /\ Good(p, o) /\ Good(q, o) BY <1>0
  <2> USE <2>0 DEF Goto
  <2>1. CASE \E ns \in SUBSET Outputs :
                Propose(o, ns) \/ ProposeFails(o, ns) \/ DieInPropose(o, ns)
    <3> PICK ns \in SUBSET Outputs :
              Propose(o, ns) \/ ProposeFails(o, ns) \/ DieInPropose(o, ns)
      BY <2>1
    <3> USE <1>L DEF PersistRows, CanPropose
    <3>1. CASE Propose(o, ns) BY <3>1 DEF Propose, LockOutputs
    <3>2. CASE ProposeFails(o, ns) BY <3>2 DEF ProposeFails
    <3>3. CASE DieInPropose(o, ns) BY <3>3 DEF DieInPropose, Reboot
    <3> QED BY <3>1, <3>2, <3>3
  <2>2. CASE Consume(o)
    BY <2>2 DEF Consume
  <2>3. CASE ReadLiveTip(o)
    BY <2>3 DEF ReadLiveTip
  <2>4. CASE CreateTransaction(o)
    BY <2>4, <1>L DEF CreateTransaction, MayCreate, ExtendRow, LockOutputs, CanLock
  <2>5. CASE CreatePczt(o)
    BY <2>5, <1>L DEF CreatePczt, MayCreate, ExtendRow, LockOutputs, CanLock
  <2>6. CASE CreateFails(o)
    <3>1. CASE UNCHANGED <<walletLocks, rowExp>> BY <2>6, <3>1 DEF CreateFails
    <3>2. CASE MayCreate(o) /\ LockOutputs(o, inputs[o], live[o])
      BY <2>6, <3>2, <1>L DEF CreateFails, MayCreate, LockOutputs, CanLock
    <3> QED BY <2>6, <3>1, <3>2 DEF CreateFails
  <2>7. CASE ReleaseProposal(o)
    BY <2>7 DEF ReleaseProposal, ReleaseInputs, ReleaseStops, UnlockOutputs, RemoveRows
  <2>8. CASE FinishProposal(o)
    BY <2>8 DEF FinishProposal
  <2>9. CASE FinishRows(o)
    BY <2>9 DEF FinishRows, RemoveRows
  <2>10. CASE Discard(o)
    BY <2>10 DEF Discard
  <2>11. CASE DiscardUnlock(o)
    BY <2>11 DEF DiscardUnlock, ReleaseInputs, ReleaseStops, UnlockOutputs, RemoveRows, Durable
  <2>12. CASE DieInRelease(o)
    BY <2>12 DEF DieInRelease, Reboot, UnlockOutputs, Durable
  <2>13. CASE Retain(o)
    BY <2>13 DEF Retain, ForgetAndRetain, MarkRetain
  <2>14. CASE Checkpoint(o)
    BY <2>14 DEF Checkpoint
  <2>15. CASE StartKeystone(o)
    BY <2>15 DEF StartKeystone
  <2>16. CASE StartLedger(o)
    BY <2>16 DEF StartLedger
  <2>17. CASE ReadBroadcastTip(o)
    BY <2>17 DEF ReadBroadcastTip
  <2>18. CASE MarkBroadcastStarted(o)
    BY <2>18 DEF MarkBroadcastStarted, MarkRetain
  <2>19. CASE SendTransaction(o)
    BY <2>19 DEF SendTransaction
  <2>20. CASE AnswerAccepted(o)
    BY <2>20 DEF AnswerAccepted
  <2>21. CASE AnswerUnknown(o)
    BY <2>21 DEF AnswerUnknown
  <2>22. CASE AnswerRejected(o)
    BY <2>22 DEF AnswerRejected
  <2>23. CASE StoreBroadcast(o)
    BY <2>23 DEF StoreBroadcast, StoreTransaction, UnlockOutputs
  <2>24. CASE StoreBroadcastFails(o)
    BY <2>24 DEF StoreBroadcastFails
  <2>25. CASE RetainAfterStoreFailure(o)
    BY <2>25 DEF RetainAfterStoreFailure, ForgetAndRetain, MarkRetain
  <2>26. CASE RecordOutcome(o)
    BY <2>26 DEF RecordOutcome, ReleaseOperation
  <2>27. CASE RecordFails(o)
    BY <2>27 DEF RecordFails
  <2>28. CASE RecoverAfterBroadcast(o)
    <3>1. RowsRetain(p)' /\ Holds(p)' /\ SpentUnlocked(p)' BY <2>28, <1>R
    <3> QED BY <2>28, <3>1 DEF RecoverAfterBroadcast
  <2>29. CASE Acknowledge(o)
    BY <2>29 DEF Acknowledge
  <2>30. CASE BroadcastCreated(o)
    BY <2>30 DEF BroadcastCreated
  <2>31. CASE Resubmit(o)
    BY <2>31 DEF Resubmit
  <2> QED
    BY <1>9, <2>1, <2>2, <2>3, <2>4, <2>5, <2>6, <2>7, <2>8, <2>9, <2>10,
       <2>11, <2>12, <2>13, <2>14, <2>15, <2>16, <2>17, <2>18, <2>19, <2>20,
       <2>21, <2>22, <2>23, <2>24, <2>25, <2>26, <2>27, <2>28, <2>29, <2>30, <2>31 DEF OwnerStep
<1>10. CASE UNCHANGED vars BY <1>10 DEF vars
<1> QED
  BY <1>1, <1>2, <1>3, <1>4, <1>5, <1>6, <1>7, <1>8, <1>9, <1>10 DEF Next
-----------------------------------------------------------------------------
\* No step builds a second transaction for a proposal, and behind the exit
\* gate no step makes a reservation durable.
LEMMA OwnerSteps ==
  ASSUME TypeOK, Lifecycle, [Next]_vars, NEW p \in Owners
  PROVE  /\ txExp[p] # 0 => txExp'[p] = txExp[p]
         /\ gate /\ phase[p] = "session" => phase'[p] \in {"session", "none"}
<1> DEFINE G == /\ txExp[p] # 0 => txExp'[p] = txExp[p]
                /\ gate /\ phase[p] = "session" =>
                      phase'[p] \in {"session", "none"}
<1> SUFFICES G
  OBVIOUS
<1> USE ConstantAssumption DEF TypeOK, Phases, Stages
<1>1. CASE Tick BY <1>1 DEF Tick
<1>2. CASE SyncUpdateTip \/ RefreshTip
  BY <1>2 DEF SyncUpdateTip, RefreshTip, RecordTip
<1>3. CASE SyncRecover
  BY <1>3 DEF SyncRecover, Recover, RecoverFails, RemoveRows
<1>4. CASE StartupRecover
  BY <1>4 DEF StartupRecover, Recover, RecoverFails, RemoveRows
<1>5. CASE Die BY <1>5 DEF Die
<1>6. CASE BeginShutdown BY <1>6 DEF BeginShutdown
<1>7. CASE ShutdownSweep BY <1>7 DEF ShutdownSweep, RemoveRows
<1>8. ASSUME NEW n \in Outputs, MigrationLock(n) \/ MigrationUnlock(n)
      PROVE  G
  BY <1>8 DEF MigrationLock, MigrationUnlock
<1>9. ASSUME NEW o \in Owners, OwnerStep(o) PROVE G
  <2>0. /\ inputs[o] = {} => phase[o] = "none"
        /\ call[o] = "create" => txExp[o] = 0
        /\ call[o] = "retain" => phase[o] # "session"
        /\ o \in locks /\ o \in Ledger /\ phase[o] = "session" /\ txExp[o] # 0
             => o \in held
    BY DEF Lifecycle, OwnerOK, Fresh, StageOK, RowsOK
  <2> USE <2>0 DEF Goto
  <2>1. CASE \E ns \in SUBSET Outputs :
                Propose(o, ns) \/ ProposeFails(o, ns) \/ DieInPropose(o, ns)
    BY <2>1 DEF Propose, ProposeFails, DieInPropose, PersistRows, CanPropose
  <2>2. CASE Consume(o)
    BY <2>2 DEF Consume
  <2>3. CASE ReadLiveTip(o)
    BY <2>3 DEF ReadLiveTip
  <2>4. CASE CreateTransaction(o)
    BY <2>4 DEF CreateTransaction, MayCreate
  <2>5. CASE CreatePczt(o)
    BY <2>5 DEF CreatePczt, MayCreate
  <2>6. CASE CreateFails(o)
    BY <2>6 DEF CreateFails
  <2>7. CASE ReleaseProposal(o)
    BY <2>7 DEF ReleaseProposal, ReleaseInputs, ReleaseStops, RemoveRows
  <2>8. CASE FinishProposal(o)
    BY <2>8 DEF FinishProposal
  <2>9. CASE FinishRows(o)
    BY <2>9 DEF FinishRows, RemoveRows
  <2>10. CASE Discard(o)
    BY <2>10 DEF Discard
  <2>11. CASE DiscardUnlock(o)
    BY <2>11 DEF DiscardUnlock, ReleaseInputs, ReleaseStops, RemoveRows
  <2>12. CASE DieInRelease(o)
    BY <2>12 DEF DieInRelease
  <2>13. CASE Retain(o)
    BY <2>13 DEF Retain, ForgetAndRetain, MarkRetain
  <2>14. CASE Checkpoint(o)
    BY <2>14 DEF Checkpoint
  <2>15. CASE StartKeystone(o)
    BY <2>15 DEF StartKeystone
  <2>16. CASE StartLedger(o)
    BY <2>16 DEF StartLedger
  <2>17. CASE ReadBroadcastTip(o)
    BY <2>17 DEF ReadBroadcastTip
  <2>18. CASE MarkBroadcastStarted(o)
    BY <2>18 DEF MarkBroadcastStarted, MarkRetain
  <2>19. CASE SendTransaction(o)
    BY <2>19 DEF SendTransaction
  <2>20. CASE AnswerAccepted(o)
    BY <2>20 DEF AnswerAccepted
  <2>21. CASE AnswerUnknown(o)
    BY <2>21 DEF AnswerUnknown
  <2>22. CASE AnswerRejected(o)
    BY <2>22 DEF AnswerRejected
  <2>23. CASE StoreBroadcast(o)
    BY <2>23 DEF StoreBroadcast
  <2>24. CASE StoreBroadcastFails(o)
    BY <2>24 DEF StoreBroadcastFails
  <2>25. CASE RetainAfterStoreFailure(o)
    BY <2>25 DEF RetainAfterStoreFailure, ForgetAndRetain, MarkRetain
  <2>26. CASE RecordOutcome(o)
    BY <2>26 DEF RecordOutcome, ReleaseOperation
  <2>27. CASE RecordFails(o)
    BY <2>27 DEF RecordFails
  <2>28. CASE RecoverAfterBroadcast(o)
    BY <2>28 DEF RecoverAfterBroadcast, Recover, RecoverFails, RemoveRows
  <2>29. CASE Acknowledge(o)
    BY <2>29 DEF Acknowledge
  <2>30. CASE BroadcastCreated(o)
    BY <2>30 DEF BroadcastCreated
  <2>31. CASE Resubmit(o)
    BY <2>31 DEF Resubmit
  <2> QED
    BY <1>9, <2>1, <2>2, <2>3, <2>4, <2>5, <2>6, <2>7, <2>8, <2>9, <2>10,
       <2>11, <2>12, <2>13, <2>14, <2>15, <2>16, <2>17, <2>18, <2>19, <2>20,
       <2>21, <2>22, <2>23, <2>24, <2>25, <2>26, <2>27, <2>28, <2>29, <2>30, <2>31 DEF OwnerStep
<1>10. CASE UNCHANGED vars BY <1>10 DEF vars
<1> QED
  BY <1>1, <1>2, <1>3, <1>4, <1>5, <1>6, <1>7, <1>8, <1>9, <1>10 DEF Next
-----------------------------------------------------------------------------
\* The locks the send flows drop are their own.
LEMMA UnlockKeepsMigration ==
  ASSUME TypeOK, NEW os \in SUBSET Owners, UnlockOutputs(os),
         NEW n \in Outputs, lockOf[n] = Migration
  PROVE  lockOf'[n] = Migration
BY ConstantAssumption DEF UnlockOutputs

\* A pass of recover, complete or not, drops locks of owners with rows only.
LEMMA RecoverKeepsMigration ==
  ASSUME TypeOK, NEW c \in BOOLEAN, Recover(c) \/ RecoverFails(c),
         NEW n \in Outputs, lockOf[n] = Migration
  PROVE  lockOf'[n] = Migration
<1>1. PICK os \in SUBSET Owners : UnlockOutputs(os)
  BY DEF Recover, RecoverFails, Releasable
<1> QED BY <1>1, UnlockKeepsMigration

\* Construction relocks inputs that are free or already its own.
LEMMA RelockKeepsMigration ==
  ASSUME TypeOK, NEW o \in Owners, CanLock(o), NEW p \in Owners \cup {NoOwner},
         NEW e, LockOutputs(p, inputs[o], e), NEW n \in Outputs,
         lockOf[n] = Migration
  PROVE  lockOf'[n] = Migration
<1>1. n \notin inputs[o] BY ConstantAssumption DEF CanLock, LockLive
<1> QED BY <1>1 DEF LockOutputs

\* What a step of one proposal can do to the wallet's locks.
LEMMA LockSteps ==
  ASSUME NEW o \in Owners, OwnerStep(o)
  PROVE  \/ UNCHANGED lockOf
         \/ \E ns \in SUBSET Outputs : Propose(o, ns)
         \/ MayCreate(o) /\ \E p \in {o, NoOwner} : LockOutputs(p, inputs[o], live[o])
         \/ UnlockOutputs({o})
         \/ RecoverAfterBroadcast(o)
<1> DEFINE G == \/ UNCHANGED lockOf
                \/ \E ns \in SUBSET Outputs : Propose(o, ns)
                \/ MayCreate(o) /\ \E p \in {o, NoOwner} : LockOutputs(p, inputs[o], live[o])
                \/ UnlockOutputs({o})
                \/ RecoverAfterBroadcast(o)
<1> SUFFICES G
  OBVIOUS
<1>1. CASE \E ns \in SUBSET Outputs :
              Propose(o, ns) \/ ProposeFails(o, ns) \/ DieInPropose(o, ns)
  BY <1>1 DEF ProposeFails, DieInPropose
<1>2. CASE Consume(o) \/ ReadLiveTip(o) \/ FinishProposal(o) \/ FinishRows(o)
           \/ Discard(o) \/ Retain(o) \/ Checkpoint(o) \/ StartKeystone(o)
  BY <1>2 DEF Consume, ReadLiveTip, FinishProposal, FinishRows, Discard, Retain,
              Checkpoint, StartKeystone
<1>3. CASE CreateTransaction(o) \/ CreatePczt(o) \/ CreateFails(o)
  BY <1>3 DEF CreateTransaction, CreatePczt, CreateFails
<1>4. CASE ReleaseProposal(o) \/ DiscardUnlock(o) \/ DieInRelease(o)
  BY <1>4 DEF ReleaseProposal, DiscardUnlock, DieInRelease, ReleaseInputs,
              ReleaseStops
<1>5. CASE StartLedger(o) \/ ReadBroadcastTip(o) \/ MarkBroadcastStarted(o)
           \/ SendTransaction(o) \/ AnswerAccepted(o) \/ AnswerUnknown(o)
           \/ AnswerRejected(o) \/ StoreBroadcastFails(o)
  BY <1>5 DEF StartLedger, ReadBroadcastTip, MarkBroadcastStarted,
              SendTransaction, AnswerAccepted, AnswerUnknown, AnswerRejected,
              StoreBroadcastFails
<1>6. CASE StoreBroadcast(o)
  BY <1>6 DEF StoreBroadcast, StoreTransaction
<1>7. CASE RetainAfterStoreFailure(o) \/ RecordOutcome(o) \/ RecordFails(o)
           \/ Acknowledge(o) \/ BroadcastCreated(o) \/ Resubmit(o)
  BY <1>7 DEF RetainAfterStoreFailure, RecordOutcome, RecordFails, Acknowledge,
              BroadcastCreated, Resubmit
<1>8. CASE RecoverAfterBroadcast(o) BY <1>8
<1> QED
  BY <1>1, <1>2, <1>3, <1>4, <1>5, <1>6, <1>7, <1>8 DEF OwnerStep

\* An output locked by a migration stays so, unless the migration unlocks it.
LEMMA MigrationKept ==
  ASSUME TypeOK, [Next]_vars, NEW n \in Outputs, lockOf[n] = Migration
  PROVE  lockOf'[n] = Migration \/ MigrationUnlock(n)
<1> DEFINE G == lockOf'[n] = Migration \/ MigrationUnlock(n)
<1> SUFFICES G
  OBVIOUS
<1>1. CASE Tick BY <1>1 DEF Tick
<1>2. CASE SyncUpdateTip \/ RefreshTip
  BY <1>2 DEF SyncUpdateTip, RefreshTip
<1>3. CASE SyncRecover BY <1>3, RecoverKeepsMigration DEF SyncRecover
<1>4. CASE StartupRecover BY <1>4, RecoverKeepsMigration DEF StartupRecover
<1>5. CASE Die BY <1>5 DEF Die
<1>6. CASE BeginShutdown BY <1>6 DEF BeginShutdown
<1>7. CASE ShutdownSweep
  <2>1. PICK os \in SUBSET Owners : UnlockOutputs(os)
    BY <1>7 DEF ShutdownSweep, TypeOK
  <2> QED BY <2>1, UnlockKeepsMigration
<1>8. ASSUME NEW m \in Outputs, MigrationLock(m) \/ MigrationUnlock(m)
      PROVE  G
  BY <1>8 DEF MigrationLock, MigrationUnlock, TypeOK
<1>9. ASSUME NEW o \in Owners, OwnerStep(o) PROVE G
  <2>1. CASE UNCHANGED lockOf BY <2>1
  <2>2. CASE \E ns \in SUBSET Outputs : Propose(o, ns)
    <3>1. PICK ns \in SUBSET Outputs : Propose(o, ns) BY <2>2
    <3>2. n \notin ns
      BY <3>1 DEF Propose, CanPropose, Selectable, LockLive
    <3> QED BY <3>1, <3>2 DEF Propose, LockOutputs
  <2>3. CASE MayCreate(o) /\ \E p \in {o, NoOwner} : LockOutputs(p, inputs[o], live[o])
    BY <2>3, RelockKeepsMigration DEF MayCreate
  <2>4. CASE UnlockOutputs({o})
    BY <2>4, UnlockKeepsMigration
  <2>5. CASE RecoverAfterBroadcast(o)
    BY <2>5, RecoverKeepsMigration DEF RecoverAfterBroadcast
  <2>6. \/ UNCHANGED lockOf
        \/ \E ns \in SUBSET Outputs : Propose(o, ns)
        \/ MayCreate(o) /\ \E p \in {o, NoOwner} : LockOutputs(p, inputs[o], live[o])
        \/ UnlockOutputs({o})
        \/ RecoverAfterBroadcast(o)
    BY <1>9, LockSteps
  <2> QED BY <2>1, <2>2, <2>3, <2>4, <2>5, <2>6
<1>10. CASE UNCHANGED vars BY <1>10 DEF vars
<1> QED
  BY <1>1, <1>2, <1>3, <1>4, <1>5, <1>6, <1>7, <1>8, <1>9, <1>10 DEF Next

-----------------------------------------------------------------------------
(***************************************************************************)
(* What the liveness properties rest on.  The fairness that makes a pass   *)
(* of recover happen is left to the model checker; that nothing undoes the *)
(* need for one, and that a pass does what is needed, is proved here.      *)
(***************************************************************************)

\* Rows an earlier process left keep their expiry, and only a broadcast
\* outcome or their removal changes their phase.
LEMMA OldRowSteps ==
  ASSUME TypeOK, Lifecycle, [Next]_vars, NEW p \in Owners, old[p],
         phase[p] # "none"
  PROVE  /\ old'[p] /\ rowExp'[p] = rowExp[p]
         /\ \/ phase'[p] \in {phase[p], "none"}
            \/ phase[p] = "signed" /\ phase'[p] = "release"
         /\ tip' >= tip
<1> DEFINE G == /\ old'[p] /\ rowExp'[p] = rowExp[p]
                /\ \/ phase'[p] \in {phase[p], "none"}
                   \/ phase[p] = "signed" /\ phase'[p] = "release"
                /\ tip' >= tip
<1> SUFFICES G
  OBVIOUS
<1>R. ASSUME NEW c \in BOOLEAN, Recover(c) \/ RecoverFails(c), UNCHANGED tip
      PROVE  G
  BY <1>R, RecoveryRows DEF TypeOK
<1> USE ConstantAssumption DEF TypeOK, Phases, Stages
<1>1. CASE Tick BY <1>1 DEF Tick
<1>2. CASE SyncUpdateTip \/ RefreshTip
  BY <1>2 DEF SyncUpdateTip, RefreshTip, RecordTip
<1>3. CASE SyncRecover
  BY <1>3, <1>R DEF SyncRecover
<1>4. CASE StartupRecover
  BY <1>4, <1>R DEF StartupRecover
<1>5. CASE Die BY <1>5 DEF Die, Reboot
<1>6. CASE BeginShutdown BY <1>6 DEF BeginShutdown
<1>7. CASE ShutdownSweep BY <1>7 DEF ShutdownSweep, RemoveRows
<1>8. ASSUME NEW n \in Outputs, MigrationLock(n) \/ MigrationUnlock(n)
      PROVE  G
  BY <1>8 DEF MigrationLock, MigrationUnlock
<1>9. ASSUME NEW o \in Owners, OwnerStep(o) PROVE G
  <2>0. (inputs[o] = {} => phase[o] = "none") /\ (o \in locks => ~old[o])
    BY DEF Lifecycle, OwnerOK, Fresh, RowsOK
  <2> USE <2>0 DEF Goto
  <2>1. CASE \E ns \in SUBSET Outputs :
                Propose(o, ns) \/ ProposeFails(o, ns) \/ DieInPropose(o, ns)
    BY <2>1 DEF Propose, ProposeFails, DieInPropose, PersistRows, CanPropose, Reboot
  <2>2. CASE Consume(o)
    BY <2>2 DEF Consume
  <2>3. CASE ReadLiveTip(o)
    BY <2>3 DEF ReadLiveTip
  <2>4. CASE CreateTransaction(o)
    BY <2>4 DEF CreateTransaction, MayCreate, ExtendRow
  <2>5. CASE CreatePczt(o)
    BY <2>5 DEF CreatePczt, MayCreate, ExtendRow
  <2>6. CASE CreateFails(o)
    BY <2>6 DEF CreateFails, MayCreate, ExtendRow
  <2>7. CASE ReleaseProposal(o)
    BY <2>7 DEF ReleaseProposal, ReleaseInputs, ReleaseStops, RemoveRows
  <2>8. CASE FinishProposal(o)
    BY <2>8 DEF FinishProposal
  <2>9. CASE FinishRows(o)
    BY <2>9 DEF FinishRows, RemoveRows
  <2>10. CASE Discard(o)
    BY <2>10 DEF Discard
  <2>11. CASE DiscardUnlock(o)
    BY <2>11 DEF DiscardUnlock, ReleaseInputs, ReleaseStops, RemoveRows
  <2>12. CASE DieInRelease(o)
    BY <2>12 DEF DieInRelease, Reboot
  <2>13. CASE Retain(o)
    BY <2>13 DEF Retain, ForgetAndRetain, MarkRetain
  <2>14. CASE Checkpoint(o)
    BY <2>14 DEF Checkpoint
  <2>15. CASE StartKeystone(o)
    BY <2>15 DEF StartKeystone
  <2>16. CASE StartLedger(o)
    BY <2>16 DEF StartLedger
  <2>17. CASE ReadBroadcastTip(o)
    BY <2>17 DEF ReadBroadcastTip
  <2>18. CASE MarkBroadcastStarted(o)
    BY <2>18 DEF MarkBroadcastStarted, MarkRetain
  <2>19. CASE SendTransaction(o)
    BY <2>19 DEF SendTransaction
  <2>20. CASE AnswerAccepted(o)
    BY <2>20 DEF AnswerAccepted
  <2>21. CASE AnswerUnknown(o)
    BY <2>21 DEF AnswerUnknown
  <2>22. CASE AnswerRejected(o)
    BY <2>22 DEF AnswerRejected
  <2>23. CASE StoreBroadcast(o)
    BY <2>23 DEF StoreBroadcast
  <2>24. CASE StoreBroadcastFails(o)
    BY <2>24 DEF StoreBroadcastFails
  <2>25. CASE RetainAfterStoreFailure(o)
    BY <2>25 DEF RetainAfterStoreFailure, ForgetAndRetain, MarkRetain
  <2>26. CASE RecordOutcome(o)
    BY <2>26 DEF RecordOutcome, ReleaseOperation
  <2>27. CASE RecordFails(o)
    BY <2>27 DEF RecordFails
  <2>28. CASE RecoverAfterBroadcast(o)
    BY <2>28, <1>R DEF RecoverAfterBroadcast
  <2>29. CASE Acknowledge(o)
    BY <2>29 DEF Acknowledge
  <2>30. CASE BroadcastCreated(o)
    BY <2>30 DEF BroadcastCreated
  <2>31. CASE Resubmit(o)
    BY <2>31 DEF Resubmit
  <2> QED
    BY <1>9, <2>1, <2>2, <2>3, <2>4, <2>5, <2>6, <2>7, <2>8, <2>9, <2>10,
       <2>11, <2>12, <2>13, <2>14, <2>15, <2>16, <2>17, <2>18, <2>19, <2>20,
       <2>21, <2>22, <2>23, <2>24, <2>25, <2>26, <2>27, <2>28, <2>29, <2>30, <2>31 DEF OwnerStep
<1>10. CASE UNCHANGED vars BY <1>10 DEF vars
<1> QED
  BY <1>1, <1>2, <1>3, <1>4, <1>5, <1>6, <1>7, <1>8, <1>9, <1>10 DEF Next

\* Only the death of the process makes a new one wait at startup.
LEMMA DeathBoots ==
  ASSUME ~boot, boot', NEW o \in Owners, OwnerStep(o)
  PROVE  Reboot
<1>1. CASE \E ns \in SUBSET Outputs : Propose(o, ns) \/ ProposeFails(o, ns)
  BY <1>1 DEF Propose, ProposeFails
<1>2. CASE \E ns \in SUBSET Outputs : DieInPropose(o, ns)
  BY <1>2 DEF DieInPropose
<1>3. CASE Consume(o) \/ ReadLiveTip(o) \/ CreateTransaction(o) \/ CreatePczt(o)
           \/ CreateFails(o) \/ ReleaseProposal(o) \/ FinishProposal(o)
           \/ FinishRows(o)
  BY <1>3 DEF Consume, ReadLiveTip, CreateTransaction, CreatePczt,
     CreateFails, ReleaseProposal, FinishProposal, FinishRows
<1>4. CASE Discard(o) \/ DiscardUnlock(o) \/ Retain(o) \/ Checkpoint(o)
           \/ StartKeystone(o) \/ StartLedger(o) \/ ReadBroadcastTip(o)
           \/ MarkBroadcastStarted(o) \/ SendTransaction(o)
  BY <1>4 DEF Discard, DiscardUnlock, Retain, Checkpoint, StartKeystone,
     StartLedger, ReadBroadcastTip, MarkBroadcastStarted, SendTransaction
<1>5. CASE DieInRelease(o) BY <1>5 DEF DieInRelease
<1>6. CASE AnswerAccepted(o) \/ AnswerUnknown(o) \/ AnswerRejected(o)
           \/ StoreBroadcast(o) \/ StoreBroadcastFails(o)
           \/ RetainAfterStoreFailure(o) \/ RecordOutcome(o) \/ RecordFails(o)
  BY <1>6 DEF AnswerAccepted, AnswerUnknown, AnswerRejected,
     StoreBroadcast, StoreBroadcastFails, RetainAfterStoreFailure,
     RecordOutcome, RecordFails
<1>7. CASE RecoverAfterBroadcast(o) \/ Acknowledge(o) \/ BroadcastCreated(o)
           \/ Resubmit(o)
  BY <1>7 DEF RecoverAfterBroadcast, Acknowledge, BroadcastCreated, Resubmit
<1> QED BY <1>1, <1>2, <1>3, <1>4, <1>5, <1>6, <1>7 DEF OwnerStep

\* A process that waits for ensure_db_migrated_once runs no call: no step of
\* a proposal is possible.
LEMMA NoCallInBoot ==
  ASSUME BootClean, boot, NEW o \in Owners, OwnerStep(o)
  PROVE  FALSE
<1>1. /\ props = {} /\ locks = {} /\ cancel = {} /\ held = {}
      /\ call[o] = "idle"
  BY DEF BootClean
<1>2. CASE \E ns \in SUBSET Outputs :
             Propose(o, ns) \/ ProposeFails(o, ns) \/ DieInPropose(o, ns)
  BY <1>2 DEF Propose, ProposeFails, DieInPropose, CanPropose
<1>3. CASE Consume(o) \/ ReadLiveTip(o) \/ CreateTransaction(o) \/ CreatePczt(o)
           \/ CreateFails(o) \/ ReleaseProposal(o) \/ FinishProposal(o)
           \/ FinishRows(o)
  BY <1>1, <1>3 DEF Consume, ReadLiveTip, CreateTransaction, CreatePczt, MayCreate,
     CreateFails, ReleaseProposal, FinishProposal, FinishRows
<1>4. CASE Discard(o) \/ DiscardUnlock(o) \/ Retain(o) \/ Checkpoint(o)
           \/ StartKeystone(o) \/ StartLedger(o) \/ ReadBroadcastTip(o)
           \/ MarkBroadcastStarted(o) \/ SendTransaction(o)
  BY <1>1, <1>4 DEF Discard, DiscardUnlock, Retain, Checkpoint,
     StartKeystone, StartLedger, ReadBroadcastTip, MarkBroadcastStarted,
     SendTransaction
<1>5. CASE DieInRelease(o) BY <1>1, <1>5 DEF DieInRelease
<1>6. CASE AnswerAccepted(o) \/ AnswerUnknown(o) \/ AnswerRejected(o)
           \/ StoreBroadcast(o) \/ StoreBroadcastFails(o)
           \/ RetainAfterStoreFailure(o) \/ RecordOutcome(o) \/ RecordFails(o)
  BY <1>1, <1>6 DEF AnswerAccepted, AnswerUnknown, AnswerRejected,
     StoreBroadcast, StoreBroadcastFails, RetainAfterStoreFailure,
     RecordOutcome, RecordFails
<1>7. CASE RecoverAfterBroadcast(o) \/ Acknowledge(o) \/ BroadcastCreated(o)
           \/ Resubmit(o)
  BY <1>1, <1>7 DEF RecoverAfterBroadcast, Acknowledge, BroadcastCreated,
     Resubmit
<1> QED BY <1>2, <1>3, <1>4, <1>5, <1>6, <1>7 DEF OwnerStep

\* Until the startup pass has succeeded, blocks, failed passes and further
\* deaths are all that happens.
LEMMA BootSteps ==
  ASSUME BootClean, [Next]_vars
  PROVE  /\ ~boot /\ boot' => Reboot
         /\ boot => Tick \/ Die \/ StartupRecover \/ UNCHANGED vars
<1>1. CASE Tick BY <1>1 DEF Tick
<1>2. CASE SyncUpdateTip \/ RefreshTip \/ SyncRecover
  <2>1. boot' = boot BY <1>2 DEF SyncUpdateTip, RefreshTip, SyncRecover
  <2>2. ~boot BY <1>2 DEF SyncUpdateTip, RefreshTip, SyncRecover, BootClean
  <2> QED BY <2>1, <2>2
<1>3. CASE StartupRecover BY <1>3 DEF StartupRecover
<1>4. CASE Die BY <1>4 DEF Die
<1>5. CASE BeginShutdown \/ ShutdownSweep
  BY <1>5 DEF BeginShutdown, ShutdownSweep, BootClean
<1>6. CASE \E n \in Outputs : MigrationLock(n) \/ MigrationUnlock(n)
  BY <1>6 DEF MigrationLock, MigrationUnlock
<1>7. CASE \E o \in Owners : OwnerStep(o)
  BY <1>7, NoCallInBoot, DeathBoots
<1>8. CASE UNCHANGED vars BY <1>8 DEF vars
<1> QED
  BY <1>1, <1>2, <1>3, <1>4, <1>5, <1>6, <1>7, <1>8 DEF Next

\* The memory of a process that still waits at startup is empty.
LEMMA BootCleanStep == BootClean /\ [Next]_vars => BootClean'
<1> SUFFICES ASSUME BootClean, [Next]_vars, boot'
             PROVE  /\ props' = {} /\ locks' = {} /\ cancel' = {} /\ held' = {}
                    /\ ~gate' /\ sync' = "idle"
                    /\ \A o \in Owners : call'[o] = "idle" /\ old'[o]
  BY DEF BootClean
<1>1. CASE Reboot BY <1>1 DEF Reboot
<1>2. CASE boot /\ Tick BY <1>2 DEF Tick, BootClean
<1>3. CASE boot /\ StartupRecover
  BY <1>3 DEF StartupRecover, Recover, RecoverFails, BootClean
<1>4. CASE boot /\ UNCHANGED vars BY <1>4 DEF vars, BootClean
<1> QED BY <1>1, <1>2, <1>3, <1>4, BootSteps DEF Die

-----------------------------------------------------------------------------
\* Rows, memory, outbox and the call in flight of every proposal stay
\* consistent, through crashes and whatever storage does.
THEOREM LifecycleCorrect == Spec => []Lifecycle
BY TypeCorrect, LifecycleInit, LifecycleStep, PTL DEF Spec

\* Persisting the rows before the locks and removing them after the unlock
\* means that no send lock is ever without its recovery rows.
THEOREM LocksRecoverable == Spec => []LocksAreRecoverable
<1>1. Recoverable => LocksAreRecoverable BY DEF Recoverable
<1> QED
  BY <1>1, TypeCorrect, LifecycleCorrect, RecoverableInit, RecoverableStep, PTL
     DEF Spec

\* recover_before_balance must succeed before the database is used, so no
\* approval of a dead process holds an output when balances are read.
THEOREM StartupClean == Spec => []NoOrphanAfterStartup
<1>1. Lifecycle => NoOrphanAfterStartup
  BY DEF Lifecycle, OwnerOK, RowsOK, NoOrphanAfterStartup
<1> QED BY <1>1, LifecycleCorrect, PTL

\* consume_stored_proposal takes the proposal away: it is built once.
THEOREM BuiltOnce == Spec => TransactionBuiltOnce
<1>1. TypeOK /\ Lifecycle /\ [Next]_vars
        => [\A o \in Owners : txExp[o] # 0 => txExp'[o] = txExp[o]]_vars
  BY OwnerSteps
<1> QED
  BY <1>1, TypeCorrect, LifecycleCorrect, PTL DEF Spec, TransactionBuiltOnce

\* Nothing that waits for approval is promoted behind the exit gate.
THEOREM GateHolds == Spec => GateStopsPromotion
<1>1. TypeOK /\ Lifecycle /\ [Next]_vars
        => [\A o \in Owners : gate /\ phase[o] = "session" =>
                phase'[o] \in {"session", "none"}]_vars
  BY OwnerSteps
<1> QED
  BY <1>1, TypeCorrect, LifecycleCorrect, PTL DEF Spec, GateStopsPromotion

\* Send bookkeeping leaves an output a migration has locked alone: unlocking
\* goes by owner, and neither note selection nor the relock before
\* construction takes it.
THEOREM MigrationLocksStay == Spec => OnlyMigrationUnlocks
<1>1. TypeOK /\ [Next]_vars
        => [\A n \in Outputs : lockOf[n] = Migration /\ lockOf'[n] # Migration
                => MigrationUnlock(n)]_vars
  BY MigrationKept
<1> QED BY <1>1, TypeCorrect, PTL DEF Spec, OnlyMigrationUnlocks

\* An expired reservation of an earlier process stays reclaimable until its
\* rows and all its locks are gone, whatever happens in between, and the
\* first pass of recover that follows a recorded tip beyond its expiry takes
\* both away.  With the fairness of that pass this is
\* ExpiredReservationReclaimed.
THEOREM ReclaimProgress ==
  Spec => [][\A o \in Owners : Reclaimable(o) =>
                /\ Reclaimable(o)' \/ Reclaimed(o)'
                /\ SyncUpdateTip /\ wtip' = tip /\ Retained(phase[o])
                      => Target' >= rowExp'[o]
                /\ SyncRecovers /\ (Retained(phase[o]) => Target >= rowExp[o])
                      => Reclaimed(o)']_vars
<1> DEFINE Progress(o) ==
      /\ Reclaimable(o)' \/ Reclaimed(o)'
      /\ SyncUpdateTip /\ wtip' = tip /\ Retained(phase[o])
            => Target' >= rowExp'[o]
      /\ SyncRecovers /\ (Retained(phase[o]) => Target >= rowExp[o])
            => Reclaimed(o)'
<1>1. ASSUME TypeOK, TypeOK', Lifecycle, Recoverable', [Next]_vars,
             NEW o \in Owners, Reclaimable(o)
      PROVE  Progress(o)
  <2>1. /\ old'[o] /\ rowExp'[o] = rowExp[o]
        /\ \/ phase'[o] \in {phase[o], "none"}
           \/ phase[o] = "signed" /\ phase'[o] = "release"
        /\ tip' >= tip
    BY <1>1, OldRowSteps DEF Reclaimable
  <2>2. phase'[o] = "none" => Reclaimed(o)'
    BY <1>1 DEF Recoverable, LocksAreRecoverable, Reclaimed
  <2>3. tip \in Nat /\ tip' \in Nat /\ rowExp[o] \in Nat
    BY <1>1, ConstantAssumption DEF TypeOK, Heights
  <2>4. Retained(phase'[o]) => Retained(phase[o]) BY <2>1 DEF Retained
  <2>5. phase'[o] # "none" => Reclaimable(o)'
    BY <1>1, <2>1, <2>3, <2>4 DEF Reclaimable
  <2>6. ASSUME SyncUpdateTip, wtip' = tip, Retained(phase[o])
        PROVE  Target' >= rowExp'[o]
    BY <1>1, <2>1, <2>6 DEF Reclaimable, Target
  <2>7. ASSUME SyncRecovers, Retained(phase[o]) => Target >= rowExp[o]
        PROVE  phase'[o] = "none"
    BY <1>1, <2>7 DEF SyncRecovers, Recover, RemoveRows, Releasable,
                     ShouldRelease, Reclaimable
  <2> QED BY <2>2, <2>5, <2>6, <2>7
<1>2. Spec => []Recoverable
  BY TypeCorrect, LifecycleCorrect, RecoverableInit, RecoverableStep, PTL DEF Spec
<1>3. TypeOK /\ TypeOK' /\ Lifecycle /\ Recoverable' /\ [Next]_vars
        => [\A o \in Owners : Reclaimable(o) => Progress(o)]_vars
  BY <1>1
<1> QED BY <1>2, <1>3, TypeCorrect, LifecycleCorrect, PTL DEF Spec

\* Before ensure_db_migrated_once has succeeded no call of the wallet runs:
\* the chain moves, the pass is tried again or the process dies.
THEOREM StartupQuiet ==
  Spec => [][boot => Tick \/ Die \/ StartupRecover]_vars
<1>1. Init => BootClean BY DEF Init, BootClean
<1>2. BootClean /\ [Next]_vars => [boot => Tick \/ Die \/ StartupRecover]_vars
  BY BootSteps
<1> QED BY <1>1, <1>2, BootCleanStep, PTL DEF Spec

\* An approval the previous process abandoned stays an orphan of a process
\* that waits at startup, through failed passes and further deaths, until the
\* pass that opens the database takes its rows and locks away.  With the
\* fairness of that pass this is OrphanReleased.
THEOREM OrphanProgress ==
  Spec => [][\A o \in Owners : Orphan(o) =>
                /\ Orphan(o)' \/ Reclaimed(o)'
                /\ StartupRecovers => Reclaimed(o)']_vars
<1>1. ASSUME TypeOK, Lifecycle, BootClean, Lifecycle', Recoverable',
             [Next]_vars, NEW o \in Owners, Orphan(o)
      PROVE  /\ Orphan(o)' \/ Reclaimed(o)'
             /\ StartupRecovers => Reclaimed(o)'
  <2>1. old[o] /\ phase[o] = "session" BY <1>1 DEF Orphan, BootClean
  <2>2. old'[o] /\ phase'[o] \in {"session", "none"} BY <1>1, <2>1, OldRowSteps
  <2>3. phase'[o] = "none" => Reclaimed(o)'
    BY <1>1 DEF Recoverable, LocksAreRecoverable, Reclaimed
  <2>4. ~boot' => phase'[o] # "session"
    BY <1>1, <2>2 DEF Lifecycle, OwnerOK, RowsOK
  <2> QED BY <2>2, <2>3, <2>4 DEF Orphan, StartupRecovers
<1>2. TypeOK /\ Lifecycle /\ BootClean /\ Lifecycle' /\ Recoverable' /\ [Next]_vars
        => [\A o \in Owners : Orphan(o) =>
                /\ Orphan(o)' \/ Reclaimed(o)'
                /\ StartupRecovers => Reclaimed(o)']_vars
  BY <1>1
<1>3. Spec => []Recoverable
  BY TypeCorrect, LifecycleCorrect, RecoverableInit, RecoverableStep, PTL DEF Spec
<1>4. Init => BootClean BY DEF Init, BootClean
<1> QED
  BY <1>2, <1>3, <1>4, BootCleanStep, TypeCorrect, LifecycleCorrect, PTL DEF Spec

\* Who holds an output: while releases do not stop half way, an unexpired
\* transaction that may be on the wire keeps its inputs to itself.
THEOREM ExclusiveCorrect == ASSUME ~StorageFaults PROVE Spec => []Exclusive
BY TypeCorrect, LifecycleCorrect, ExclusiveInit, ExclusiveStep, PTL DEF Spec

\* The invariant the results of this module rest on holds of every behaviour:
\* stages and recovery rows whatever fails, exclusive inputs when releases do
\* not stop half way.
THEOREM InductiveCorrect == Spec => []Inductive
<1>1. Spec => []Recoverable
  BY TypeCorrect, LifecycleCorrect, RecoverableInit, RecoverableStep, PTL DEF Spec
<1>2. CASE StorageFaults
  <2>1. Lifecycle /\ Recoverable => Inductive BY <1>2 DEF Inductive
  <2> QED BY <1>1, <2>1, LifecycleCorrect, PTL
<1>3. CASE ~StorageFaults
  <2>1. Lifecycle /\ Recoverable /\ Exclusive => Inductive BY DEF Inductive
  <2>2. Spec => []Exclusive BY <1>3, ExclusiveCorrect
  <2> QED BY <1>1, <2>1, <2>2, LifecycleCorrect, PTL
<1> QED BY <1>2, <1>3

\* An ambiguous broadcast keeps its locks and its retained rows.
THEOREM AmbiguousHeld ==
  ASSUME ~StorageFaults PROVE Spec => []AmbiguousBroadcastHolds
<1>1. TypeOK /\ Lifecycle /\ Exclusive => AmbiguousBroadcastHolds
  <2> SUFFICES ASSUME TypeOK, Lifecycle, Exclusive, NEW o \in Owners,
                      Alive(o), ~stored[o]
               PROVE  /\ Retained(phase[o]) /\ rowExp[o] = txExp[o]
                      /\ \A n \in inputs[o] : lockOf[n] = o /\ lockExp[n] = txExp[o]
    BY DEF AmbiguousBroadcastHolds
  <2>1. wire[o] # "no" /\ Unexpired(o) BY DEF Alive, Unexpired
  <2>2. Retained(phase[o]) BY <2>1 DEF Exclusive, RowsRetain
  <2>3. \A n \in inputs[o] : lockOf[n] = o /\ lockExp[n] = txExp[o]
    BY <2>1 DEF Exclusive, Holds, Reserving
  <2>4. rowExp[o] = txExp[o]
    BY <2>1, <2>2 DEF Lifecycle, OwnerOK, RowsOK, Unbuilt, Retained
  <2> QED BY <2>2, <2>3, <2>4
<1> QED BY <1>1, TypeCorrect, LifecycleCorrect, ExclusiveCorrect, PTL

\* A pending Ledger operation owns its inputs.
THEOREM PendingReserved ==
  ASSUME ~StorageFaults PROVE Spec => []PendingOperationReserved
<1>1. Exclusive => PendingOperationReserved
  BY DEF Exclusive, RowsRetain, Holds, Reserving, Unexpired,
         PendingOperationReserved
<1> QED BY <1>1, ExclusiveCorrect, PTL

\* Two live transactions of the wallet never spend the same output.
THEOREM NoConflict ==
  ASSUME ~StorageFaults PROVE Spec => []NoConflictingBroadcast
<1>1. Exclusive => NoConflictingBroadcast
  <2> SUFFICES ASSUME Exclusive, NEW o \in Owners, NEW p \in Owners, o # p,
                      Alive(o), Alive(p), NEW n \in inputs[o], n \in inputs[p]
               PROVE  FALSE
    BY DEF NoConflictingBroadcast
  <2>1. \A r \in {o, p} : /\ Unexpired(r)
                          /\ stored[r] \/ Reserving(r)
                          /\ stored[r] => lockOf[n] = NoOwner
                          /\ ~stored[r] => lockOf[n] = r
    BY DEF Exclusive, Alive, Unexpired, Reserving, Holds, SpentUnlocked
  <2>2. ~(stored[o] /\ stored[p])
    BY <2>1 DEF Exclusive, StoredDisjoint
  <2> QED BY <2>1, <2>2, ConstantAssumption
<1> QED BY <1>1, ExclusiveCorrect, PTL
=============================================================================
