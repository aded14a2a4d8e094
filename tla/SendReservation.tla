--------------------------- MODULE SendReservation ---------------------------
(***************************************************************************)
(* The reservation of wallet outputs by send proposals, from the review    *)
(* screen to the network: rust/src/wallet/sync/{proposal_locks,mod,send,   *)
(* pczt,broadcast}.rs and the Ledger signed-operation outbox in            *)
(* rust/src/wallet/ledger/operations.rs.                                   *)
(*                                                                         *)
(* A proposal is identified with its lock owner (LockOwner::random gives   *)
(* every proposal a fresh one).  Three stores are kept apart, because they *)
(* are written one after the other and the process may die in between:     *)
(*   - SQLite, side table: phase, old, rowExp (vizor_send_proposal_locks)  *)
(*     and outbox (vizor_ledger_signed_operations);                        *)
(*   - SQLite, wallet tables: lockOf, lockExp, stored;                     *)
(*   - memory: props and locks (PROPOSAL_STORE), gate, the calls in flight.*)
(*                                                                         *)
(* Simplifications.  A section run under with_wallet_db_write_lock is one  *)
(* step; everything the code does outside it (an await, a second section)  *)
(* is another.  A proposal makes one transaction: ZIP-320 pairs and their  *)
(* accepted prefix are not told apart.  The retain_until_expiry column is  *)
(* a function of phase (Retained).  The session id of a row is abstracted  *)
(* to "written by an earlier process".  Chain reorganisations and account  *)
(* deletion are left out.                                                  *)
(***************************************************************************)
EXTENDS Naturals, FiniteSets

CONSTANTS
    Software,      \* proposals of software accounts,
    Keystone,      \* of Keystone accounts
    Ledger,        \* and of Ledger accounts: one fresh lock owner each
    Outputs,       \* the wallet's spendable outputs
    Migratable,    \* the Orchard outputs among them, which a migration locks
    LockBlocks,    \* SEND_PROPOSAL_LOCK_BLOCKS
    MaxHeight,     \* bound: last block height of a behaviour
    Rivals,        \* bound: the proposals of a behaviour are among one of these sets
    NoOwner,       \* an output without a lock
    Migration,     \* the lock owner of a migration run
    LegacyOwners,  \* rows an older release left behind, at most these
    StorageFaults  \* may a release stop after its wallet unlock?

Owners == Software \cup Keystone \cup Ledger

ASSUME ConstantAssumption ==
    /\ Software \cap Keystone = {} /\ Software \cap Ledger = {}
    /\ Keystone \cap Ledger = {}
    /\ Migratable \subseteq Outputs
    /\ LockBlocks \in Nat \ {0}
    /\ MaxHeight \in Nat
    /\ NoOwner \notin Owners /\ Migration \notin Owners /\ NoOwner # Migration
    /\ LegacyOwners \subseteq Owners
    /\ StorageFaults \in BOOLEAN

VARIABLES
    tip,      \* height of the chain
    wtip,     \* chain tip recorded in the wallet database
    inputs,   \* inputs[o]: outputs the proposal spends, {} before it exists
    minT,     \* min_target_height of the proposal
    txExp,    \* expiry height of the transaction built for it, 0 if none
    phase,    \* side-table phase of the rows of o, "none" without rows
    old,      \* the rows of o were written by an earlier process
    rowExp,   \* expiry_height of the rows of o
    lockOf,   \* wallet lock owner of an output
    lockExp,  \* wallet lock expiry of an output
    stored,   \* the transaction of o is in the wallet, its inputs are spent
    outbox,   \* state of the Ledger operation of o
    wire,     \* can a node have the transaction of o?
    props,    \* PROPOSAL_STORE.proposals
    locks,    \* PROPOSAL_STORE.locks
    gate,     \* SHUTTING_DOWN
    call,     \* where the API call working on o stands
    live,     \* expiry height that call computed from the live tip
    cancel,   \* discards between their two critical sections
    held,     \* signed PCZTs the app still holds in memory
    boot,     \* the process waits for ensure_db_migrated_once
    sync      \* a sync run between update_chain_tip and the lock recovery

chain == <<tip, wtip>>
proposal == <<inputs, minT, txExp>>
rows == <<phase, old, rowExp>>
walletLocks == <<lockOf, lockExp>>
callState == <<call, live>>
memory == <<props, locks, gate, cancel, held, boot, sync>>
vars == <<tip, wtip, inputs, minT, txExp, phase, old, rowExp, lockOf,
          lockExp, stored, outbox, wire, props, locks, gate, call, live,
          cancel, held, boot, sync>>

Phases == {"none", "session", "signed", "broadcast", "release", "legacy"}
Stages == {"idle", "tip", "create", "release", "finish", "finishRow",
           "created", "bcTip", "mark", "send", "wait", "accepted", "unknown", "retain",
           "recBroadcasted", "recStorageFailed", "recUnknown", "recExpired",
           "recRejected", "recRetry", "recover"}
Heights == 0..(MaxHeight + LockBlocks + 1)

TypeOK ==
    /\ tip \in 0..MaxHeight /\ wtip \in 0..tip
    /\ inputs \in [Owners -> SUBSET Outputs]
    /\ minT \in [Owners -> 0..(MaxHeight + 1)]
    /\ txExp \in [Owners -> Heights]
    /\ phase \in [Owners -> Phases]
    /\ old \in [Owners -> BOOLEAN]
    /\ rowExp \in [Owners -> Heights]
    /\ lockOf \in [Outputs -> Owners \cup {NoOwner, Migration}]
    /\ lockExp \in [Outputs -> Heights]
    /\ stored \in [Owners -> BOOLEAN]
    /\ outbox \in [Owners -> {"none", "pending", "ack"}]
    /\ wire \in [Owners -> {"no", "maybe", "net"}]
    /\ props \in SUBSET Owners /\ locks \in SUBSET Owners
    /\ gate \in BOOLEAN
    /\ call \in [Owners -> Stages]
    /\ live \in [Owners -> Heights]
    /\ cancel \in SUBSET Owners /\ held \in SUBSET Owners
    /\ boot \in BOOLEAN
    /\ sync \in {"idle", "recover"}
-----------------------------------------------------------------------------
(***************************************************************************)
(* The wallet database (zcash_client_sqlite), as the code uses it.         *)
(***************************************************************************)

\* get_target_and_anchor_heights: the height of the next block.
Target == wtip + 1

\* A lock holds its output while the target height is below its expiry; a
\* migration lock is taken until u32::MAX.
LockLive(n) ==
    \/ lockOf[n] = Migration
    \/ lockOf[n] \in Owners /\ Target < lockExp[n]

\* The wallet knows an unexpired transaction that spends the output.
Spent(n) == \E o \in Owners : stored[o] /\ n \in inputs[o] /\ Target <= txExp[o]

\* Note selection leaves out locked and spent outputs.
Selectable(n) == ~LockLive(n) /\ ~Spent(n)

\* lock_outputs succeeds unless another flow acquired one of the outputs.
CanLock(o) == \A n \in inputs[o] : ~Spent(n) /\ (LockLive(n) => lockOf[n] = o)

LockOutputs(o, ns, expiry) ==
    /\ lockOf' = [n \in Outputs |-> IF n \in ns THEN o ELSE lockOf[n]]
    /\ lockExp' = [n \in Outputs |-> IF n \in ns THEN expiry ELSE lockExp[n]]

\* Mutant: the inputs are unlocked whoever holds them.
UnlockOutputsOfAnyOwner(os) ==
    /\ lockOf' = [n \in Outputs |-> IF \E o \in os : n \in inputs[o] THEN NoOwner ELSE lockOf[n]]
    /\ UNCHANGED lockExp

\* unlock_output / unlock_proposal_inputs: a lock of another owner stays.
UnlockOutputs(os) ==
    /\ lockOf' = [n \in Outputs |-> IF lockOf[n] \in os THEN NoOwner ELSE lockOf[n]]
    /\ UNCHANGED lockExp

\* Storing a transaction marks its inputs spent and clears its own locks.
StoreTransaction(o) ==
    /\ stored' = [stored EXCEPT ![o] = TRUE]
    /\ UnlockOutputs({o})
-----------------------------------------------------------------------------
(***************************************************************************)
(* The side table.                                                         *)
(***************************************************************************)

\* retain_until_expiry = 1
Retained(p) == p \in {"signed", "broadcast", "legacy"}

\* is_durable: what an ordinary cancel must not touch.
Durable(o) == phase[o] \in {"signed", "broadcast"}

\* mark_retain_until_expiry
MarkRetain(o) ==
    phase' = [phase EXCEPT ![o] = IF @ = "signed" THEN @ ELSE "broadcast"]

\* remove
RemoveRows(os) == phase' = [o \in Owners |-> IF o \in os THEN "none" ELSE phase[o]]

\* Mutant: a recoverable reservation, too, waits for its expiry.
ShouldReleaseOnlyExpired(o, checkExpiry) ==
    /\ phase[o] # "none"
    /\ old[o] \/ phase[o] = "release"
    /\ checkExpiry /\ Target >= rowExp[o]

\* Mutant: a retained reservation is never released.
ShouldReleaseNeverRetained(o, checkExpiry) ==
    /\ phase[o] # "none"
    /\ old[o] \/ phase[o] = "release"
    /\ checkExpiry \in BOOLEAN /\ ~Retained(phase[o])

\* read_previous_session_locks and should_release_after_restart
ShouldRelease(o, checkExpiry) ==
    /\ phase[o] # "none"
    /\ old[o] \/ phase[o] = "release"
    /\ ~Retained(phase[o]) \/ (checkExpiry /\ Target >= rowExp[o])

Releasable(checkExpiry) == {o \in Owners : ShouldRelease(o, checkExpiry)}

\* recover: unlock every releasable owner, then delete all their rows.
Recover(checkExpiry) ==
    /\ UnlockOutputs(Releasable(checkExpiry))
    /\ RemoveRows(Releasable(checkExpiry))
    /\ UNCHANGED <<old, rowExp>>

\* recover stopped by an error after some of its unlocks: no row is deleted.
RecoverFails(checkExpiry) ==
    \E os \in SUBSET Releasable(checkExpiry) :
        /\ UnlockOutputs(os)
        /\ UNCHANGED rows
-----------------------------------------------------------------------------
\* The proposals an earlier release left behind: their broadcast may have
\* reached the network, the wallet never stored it.
InitLegacy(os) ==
    /\ inputs \in [Owners -> SUBSET Outputs]
    /\ \A o \in Owners : inputs[o] = {} <=> o \notin os
    /\ \A o, p \in os : o # p => inputs[o] \cap inputs[p] = {}
    /\ txExp = [o \in Owners |-> IF o \in os THEN LockBlocks + 1 ELSE 0]
    /\ minT = [o \in Owners |-> IF o \in os THEN 1 ELSE 0]
    /\ wire = [o \in Owners |-> IF o \in os THEN "maybe" ELSE "no"]
    /\ phase = [o \in Owners |-> IF o \in os THEN "legacy" ELSE "none"]
    /\ rowExp = txExp
    /\ lockOf = [n \in Outputs |-> IF \E o \in os : n \in inputs[o]
                                   THEN CHOOSE o \in os : n \in inputs[o]
                                   ELSE NoOwner]
    /\ lockExp = [n \in Outputs |-> LockBlocks + 1]

Init ==
    /\ tip = 0 /\ wtip = 0
    /\ \E os \in SUBSET LegacyOwners : InitLegacy(os)
    /\ old = [o \in Owners |-> TRUE]
    /\ stored = [o \in Owners |-> FALSE]
    /\ outbox = [o \in Owners |-> "none"]
    /\ props = {} /\ locks = {} /\ cancel = {} /\ held = {}
    /\ gate = FALSE /\ boot = TRUE /\ sync = "idle"
    /\ call = [o \in Owners |-> "idle"]
    /\ live = [o \in Owners |-> 0]
-----------------------------------------------------------------------------
(***************************************************************************)
(* Chain, sync engine, migration, process.                                 *)
(***************************************************************************)

\* A block is mined (external).
Tick ==
    /\ tip < MaxHeight
    /\ tip' = tip + 1
    /\ UNCHANGED <<wtip, proposal, rows, walletLocks, stored, outbox, wire,
                   callState, memory>>

\* update_chain_tip stores the tip a server answered, which the chain may have
\* left behind since; a lower one than the stored tip is ignored.
RecordTip == \E t \in wtip..tip : wtip' = t

\* The first recording of a sync run; a run queued behind the exit gate is
\* dropped.
SyncUpdateTip ==
    /\ sync = "idle" /\ ~boot /\ ~gate
    /\ RecordTip
    /\ sync' = "recover"
    /\ UNCHANGED <<tip, proposal, rows, walletLocks, stored, outbox, wire,
                   callState, props, locks, gate, cancel, held, boot>>

\* The later ones: the periodic refresh, the end of a batch, the drained scan
\* queue, the mempool observer.  No lock recovery follows them.
RefreshTip ==
    /\ ~boot
    /\ RecordTip
    /\ UNCHANGED <<tip, proposal, rows, walletLocks, stored, outbox, wire,
                   callState, memory>>

\* recover_previous_process, the next step of the same run.
SyncRecover ==
    /\ sync = "recover"
    /\ Recover(TRUE) \/ RecoverFails(TRUE)
    /\ sync' = "idle"
    /\ UNCHANGED <<chain, proposal, stored, outbox, wire, callState, props,
                   locks, gate, cancel, held, boot>>

\* Mutant: the database is opened whatever the recovery pass answered.
StartupIgnoresRecovery ==
    /\ boot
    /\ Recover(FALSE) \/ RecoverFails(FALSE)
    /\ boot' = FALSE
    /\ UNCHANGED <<chain, proposal, stored, outbox, wire, callState, props,
                   locks, gate, cancel, held, sync>>

\* ensure_db_migrated_once: recover_before_balance must succeed before the
\* database is used; a failed pass is tried again at the next call.
StartupRecover ==
    /\ boot
    /\ \/ Recover(FALSE) /\ boot' = FALSE
       \/ RecoverFails(FALSE) /\ UNCHANGED boot
    /\ UNCHANGED <<chain, proposal, stored, outbox, wire, callState, props,
                   locks, gate, cancel, held, sync>>

\* ensure_orchard_migration_locks
MigrationLock(n) ==
    /\ ~boot /\ n \in Migratable /\ Selectable(n)
    /\ lockOf' = [lockOf EXCEPT ![n] = Migration]
    /\ UNCHANGED <<chain, proposal, rows, lockExp, stored, outbox, wire,
                   callState, memory>>

\* unlock_orchard_migration_outputs
MigrationUnlock(n) ==
    /\ ~boot /\ lockOf[n] = Migration
    /\ lockOf' = [lockOf EXCEPT ![n] = NoOwner]
    /\ UNCHANGED <<chain, proposal, rows, lockExp, stored, outbox, wire,
                   callState, memory>>

\* What the death of the process does to its memory.
Reboot ==
    /\ props' = {} /\ locks' = {} /\ cancel' = {} /\ held' = {}
    /\ gate' = FALSE /\ boot' = TRUE /\ sync' = "idle"
    /\ call' = [o \in Owners |-> "idle"]
    /\ live' = [o \in Owners |-> 0]
    /\ old' = [o \in Owners |-> TRUE]

\* The process dies between two critical sections.
Die ==
    /\ Reboot
    /\ UNCHANGED <<chain, proposal, phase, rowExp, walletLocks, stored,
                   outbox, wire>>

\* shutdown_signing_reservations closes the gate first...
BeginShutdown ==
    /\ ~boot /\ ~gate
    /\ gate' = TRUE
    /\ UNCHANGED <<chain, proposal, rows, walletLocks, stored, outbox, wire,
                   callState, props, locks, cancel, held, boot, sync>>

\* ...then releases the proposals that are not durable, as many as the
\* deadline allows; with its zero SQLite timeout the removal of the rows may
\* fail after the unlock, which leaves them to startup recovery.
ShutdownSweep ==
    /\ gate
    /\ \E os \in SUBSET {o \in locks : ~Durable(o)} : \E done \in SUBSET os :
          /\ UnlockOutputs(os)
          /\ RemoveRows(done)
          /\ locks' = locks \ done
    /\ UNCHANGED <<chain, proposal, old, rowExp, stored, outbox, wire,
                   callState, props, gate, cancel, held, boot, sync>>
-----------------------------------------------------------------------------
(***************************************************************************)
(* Proposals.                                                              *)
(***************************************************************************)

Goto(o, stage) == call' = [call EXCEPT ![o] = stage]

\* persist: the recovery rows come before the locks they describe.
PersistRows(o, ns) ==
    /\ inputs' = [inputs EXCEPT ![o] = ns]
    /\ minT' = [minT EXCEPT ![o] = Target]
    /\ phase' = [phase EXCEPT ![o] = "session"]
    /\ rowExp' = [rowExp EXCEPT ![o] = Target + LockBlocks]
    /\ UNCHANGED txExp

\* The bound on the proposals of a behaviour.
WithinRivals(o) ==
    \E together \in Rivals : {o} \cup {p \in Owners : inputs[p] # {}} \subseteq together

CanPropose(o, ns) ==
    /\ ~gate /\ ~boot
    /\ inputs[o] = {} /\ WithinRivals(o)
    /\ ns # {} /\ \A n \in ns : Selectable(n)

\* propose_and_store_request
Propose(o, ns) ==
    /\ CanPropose(o, ns)
    /\ PersistRows(o, ns)
    /\ old' = [old EXCEPT ![o] = FALSE]
    /\ LockOutputs(o, ns, Target + LockBlocks)
    /\ props' = props \cup {o} /\ locks' = locks \cup {o}
    /\ UNCHANGED <<chain, stored, outbox, wire, callState, gate, cancel, held,
                   boot, sync>>

\* lock_outputs failed and so did the removal of the rows.
ProposeFails(o, ns) ==
    /\ StorageFaults
    /\ CanPropose(o, ns)
    /\ PersistRows(o, ns)
    /\ old' = [old EXCEPT ![o] = FALSE]
    /\ UNCHANGED <<chain, walletLocks, stored, outbox, wire, callState, memory>>

\* The process dies between persist and lock_outputs.
DieInPropose(o, ns) ==
    /\ CanPropose(o, ns)
    /\ PersistRows(o, ns)
    /\ Reboot
    /\ UNCHANGED <<chain, walletLocks, stored, outbox, wire>>

\* Mutant: the proposal is read and stays in the store.
ConsumeKeepsProposal(o) ==
    /\ ~gate /\ o \in props /\ call[o] = "idle"
    /\ Goto(o, "tip")
    /\ UNCHANGED <<chain, proposal, rows, walletLocks, stored, outbox, wire,
                   live, memory>>

\* consume_stored_proposal, at the head of execute_proposal and of
\* create_pczt_from_proposal: a second call finds no proposal.
Consume(o) ==
    /\ ~gate /\ o \in props /\ call[o] = "idle"
    /\ props' = props \ {o}
    /\ Goto(o, "tip")
    /\ UNCHANGED <<chain, inputs, minT, txExp, rows, walletLocks, stored,
                   outbox, wire, live, locks, gate, cancel, held, boot, sync>>

\* latest_block_for_transaction answers from a cache of the last seconds.
RecentTips == {t \in 0..tip : t + 1 >= tip}

\* Mutant: the window is counted from the block after the target.
LiveExpiryOffByOne(o, t) ==
    (IF t + 1 > minT[o] THEN t + 1 ELSE minT[o]) + LockBlocks + 1

\* send_expiry_height_for_live_tip
LiveExpiry(o, t) == (IF t + 1 > minT[o] THEN t + 1 ELSE minT[o]) + LockBlocks

\* live_send_expiry_height: awaits the live tip; an unreadable tip or one
\* past the proposal's window releases the proposal.
ReadLiveTip(o) ==
    /\ call[o] = "tip"
    /\ \/ \E t \in RecentTips :
             /\ t + 1 < minT[o] + LockBlocks
             /\ live' = [live EXCEPT ![o] = LiveExpiry(o, t)]
             /\ Goto(o, "create")
       \/ Goto(o, "release") /\ UNCHANGED live
    /\ UNCHANGED <<chain, proposal, rows, walletLocks, stored, outbox, wire,
                   memory>>

\* Mutant: the inputs are not locked again before construction.
MayCreateWithoutRelock(o) ==
    /\ call[o] = "create"
    /\ ~gate /\ o \in locks
    /\ o \in Software => Target < minT[o] + LockBlocks
    /\ phase[o] # "none"

\* The checks of the construction section: the capability survived the await
\* and, for a software signer, the wallet has not seen the proposal expire.
MayCreate(o) ==
    /\ call[o] = "create"
    /\ ~gate /\ o \in locks
    /\ o \in Software => Target < minT[o] + LockBlocks
    /\ CanLock(o)
    /\ phase[o] # "none"

ExtendRow(o) == rowExp' = [rowExp EXCEPT ![o] = live[o]]

\* execute_stored_proposal: relock, build, sign and store the transaction,
\* which marks the inputs spent and clears the locks just taken.
CreateTransaction(o) ==
    /\ MayCreate(o) /\ o \in Software
    /\ ExtendRow(o)
    /\ txExp' = [txExp EXCEPT ![o] = live[o]]
    /\ stored' = [stored EXCEPT ![o] = TRUE]
    /\ LockOutputs(NoOwner, inputs[o], live[o])
    /\ Goto(o, "finish")
    /\ live' = [live EXCEPT ![o] = 0]
    /\ UNCHANGED <<chain, inputs, minT, phase, old, outbox, wire, memory>>

\* create_pczt_from_proposal: relock and hand the PCZT to the signer.
CreatePczt(o) ==
    /\ MayCreate(o) /\ o \notin Software
    /\ LockOutputs(o, inputs[o], live[o])
    /\ ExtendRow(o)
    /\ txExp' = [txExp EXCEPT ![o] = live[o]]
    /\ held' = held \cup {o}
    /\ Goto(o, "idle")
    /\ live' = [live EXCEPT ![o] = 0]
    /\ UNCHANGED <<chain, inputs, minT, phase, old, stored, outbox, wire,
                   props, locks, gate, cancel, boot, sync>>

\* Construction fails before the relock, or after it and before or after
\* update_expiry; the caller then releases the proposal.
CreateFails(o) ==
    /\ call[o] = "create"
    /\ \/ UNCHANGED <<walletLocks, rowExp>>
       \/ MayCreate(o) /\ LockOutputs(o, inputs[o], live[o])
          /\ (ExtendRow(o) \/ UNCHANGED rowExp)
    /\ Goto(o, "release")
    /\ live' = [live EXCEPT ![o] = 0]
    /\ UNCHANGED <<chain, proposal, phase, old, stored, outbox, wire, memory>>
-----------------------------------------------------------------------------
(***************************************************************************)
(* Giving a proposal up.                                                   *)
(***************************************************************************)

\* unlock_stored_proposal_locked, past its checks.
ReleaseInputs(o) ==
    /\ UnlockOutputs({o})
    /\ RemoveRows({o})
    /\ locks' = locks \ {o}

\* Mutant: the rows are removed before the wallet unlock.
ReleaseStopsAfterRows(o) ==
    /\ StorageFaults
    /\ RemoveRows({o})
    /\ UNCHANGED <<walletLocks, locks>>

\* It stopped between the wallet unlock and the removal of the rows.
ReleaseStops(o) ==
    /\ StorageFaults
    /\ UnlockOutputs({o})
    /\ UNCHANGED <<phase, locks>>

\* finish_stored_proposal(release_inputs = true), the error path of every
\* call: it may release a durable reservation, and does nothing without the
\* in-memory lock.  The last case is a database that cannot be opened.
ReleaseProposal(o) ==
    /\ call[o] = "release"
    /\ \/ o \in locks /\ (ReleaseInputs(o) \/ ReleaseStops(o))
       \/ UNCHANGED <<walletLocks, phase, locks>>
    /\ Goto(o, "idle")
    /\ UNCHANGED <<chain, proposal, old, rowExp, stored, outbox, wire, live,
                   props, gate, cancel, held, boot, sync>>

\* finish_stored_proposal(release_inputs = false) after a successful store:
\* the memory goes first...
FinishProposal(o) ==
    /\ call[o] = "finish"
    /\ locks' = locks \ {o}
    /\ Goto(o, "finishRow")
    /\ UNCHANGED <<chain, proposal, rows, walletLocks, stored, outbox, wire,
                   live, props, gate, cancel, held, boot, sync>>

\* ...then, without the write lock, the rows; a failure is only logged.
FinishRows(o) ==
    /\ call[o] = "finishRow"
    /\ RemoveRows({o}) \/ UNCHANGED phase
    /\ Goto(o, IF o \in Software THEN "created" ELSE "idle")
    /\ UNCHANGED <<chain, proposal, old, rowExp, walletLocks, stored, outbox,
                   wire, live, memory>>

\* discard_stored_proposal, first section: the proposal can no longer be
\* consumed.
Discard(o) ==
    /\ ~boot /\ o \in props \cup locks /\ o \notin cancel
    /\ props' = props \ {o}
    /\ cancel' = cancel \cup {o}
    /\ UNCHANGED <<chain, proposal, rows, walletLocks, stored, outbox, wire,
                   callState, locks, gate, held, boot, sync>>

\* Mutant: the cancel does not look at the phase of the reservation.
DiscardUnlockDurable(o) ==
    /\ o \in cancel
    /\ IF o \in locks
          THEN ReleaseInputs(o) \/ ReleaseStops(o)
          ELSE UNCHANGED <<walletLocks, phase, locks>>
    /\ cancel' = cancel \ {o}
    /\ UNCHANGED <<chain, proposal, old, rowExp, stored, outbox, wire,
                   callState, props, gate, held, boot, sync>>

\* discard_stored_proposal, second section: rechecks the in-memory lock and
\* leaves a durable reservation alone.
DiscardUnlock(o) ==
    /\ o \in cancel
    /\ IF o \in locks /\ ~Durable(o)
          THEN ReleaseInputs(o) \/ ReleaseStops(o)
          ELSE UNCHANGED <<walletLocks, phase, locks>>
    /\ cancel' = cancel \ {o}
    /\ UNCHANGED <<chain, proposal, old, rowExp, stored, outbox, wire,
                   callState, props, gate, held, boot, sync>>

\* The process dies between the unlock and the removal of the rows, in a
\* discard, in the shutdown sweep or on an error path.
DieInRelease(o) ==
    /\ o \in locks
    /\ call[o] = "release" \/ ((gate \/ o \in cancel) /\ ~Durable(o))
    /\ UnlockOutputs({o})
    /\ Reboot
    /\ UNCHANGED <<chain, proposal, phase, rowExp, stored, outbox, wire>>

\* retain_stored_proposal_lock_until_expiry
ForgetAndRetain(o) ==
    /\ o \in locks /\ phase[o] # "none"
    /\ MarkRetain(o)
    /\ props' = props \ {o} /\ locks' = locks \ {o}

\* retain_proposal_lock_until_expiry, called by the app for a checkpointed
\* Ledger send that it aborts or whose result is uncertain.
Retain(o) ==
    /\ o \in Ledger /\ txExp[o] # 0 /\ o \notin held /\ ~boot
    /\ ForgetAndRetain(o)
    /\ UNCHANGED <<chain, proposal, old, rowExp, walletLocks, stored, outbox,
                   wire, callState, gate, cancel, held, boot, sync>>
-----------------------------------------------------------------------------
(***************************************************************************)
(* Signed PCZTs: Keystone broadcasts at once, Ledger checkpoints first.    *)
(***************************************************************************)

\* Mutant: the checkpoint does not look at the exit gate.
CheckpointBehindGate(o) ==
    /\ o \in Ledger /\ o \in held
    /\ phase[o] = "session" /\ ~old[o]
    /\ phase' = [phase EXCEPT ![o] = "signed"]
    /\ outbox' = [outbox EXCEPT ![o] = "pending"]
    /\ held' = held \ {o}
    /\ UNCHANGED <<chain, proposal, old, rowExp, walletLocks, stored, wire,
                   callState, props, locks, gate, cancel, boot, sync>>

\* checkpoint_batch with checkpoint_owner: one SQLite transaction inserts the
\* operation and transfers the reservation, or does neither.
Checkpoint(o) ==
    /\ o \in Ledger /\ o \in held
    /\ ~gate
    /\ phase[o] = "session" /\ ~old[o]
    /\ phase' = [phase EXCEPT ![o] = "signed"]
    /\ outbox' = [outbox EXCEPT ![o] = "pending"]
    /\ held' = held \ {o}
    /\ UNCHANGED <<chain, proposal, old, rowExp, walletLocks, stored, wire,
                   callState, props, locks, gate, cancel, boot, sync>>

\* store_and_broadcast_pczts_for_proposal: the app makes this call once.
StartKeystone(o) ==
    /\ o \in Keystone /\ o \in held /\ call[o] = "idle"
    /\ held' = held \ {o}
    /\ Goto(o, IF ~gate /\ o \in locks THEN "bcTip" ELSE "release")
    /\ UNCHANGED <<chain, proposal, rows, walletLocks, stored, outbox, wire,
                   live, props, locks, gate, cancel, boot, sync>>

\* operations::broadcast: one call per operation (BroadcastGuard), only while
\* it is pending; the process that signed it may be gone.
StartLedger(o) ==
    /\ ~boot /\ outbox[o] = "pending" /\ call[o] = "idle"
    /\ Goto(o, "bcTip")
    /\ UNCHANGED <<chain, proposal, rows, walletLocks, stored, outbox, wire,
                   live, memory>>

\* pczt_broadcast_expiry_error
ExpiredAt(o, t) == t >= txExp[o]

\* store_and_broadcast_pczts_inner up to the first RPC: validation, route or
\* tip failure, expiry.
ReadBroadcastTip(o) ==
    /\ call[o] = "bcTip"
    /\ \/ \E t \in RecentTips : ~ExpiredAt(o, t) /\ Goto(o, "mark")
       \/ \E t \in RecentTips :
             /\ ExpiredAt(o, t)
             /\ Goto(o, IF o \in Ledger THEN "recExpired" ELSE "release")
       \/ Goto(o, IF o \in Ledger THEN "recRetry" ELSE "release")
    /\ UNCHANGED <<chain, proposal, rows, walletLocks, stored, outbox, wire,
                   live, memory>>

\* Mutant: the send starts before the mark is persisted.
MarkBroadcastNotPersisted(o) ==
    /\ call[o] = "mark"
    /\ Goto(o, "send")
    /\ UNCHANGED <<chain, proposal, rows, walletLocks, stored, outbox, wire,
                   live, memory>>

\* mark_proposal_broadcast_started persists the point of no automatic
\* cancellation; its failure ends the call without a release.  A Ledger
\* operation is durable already.
MarkBroadcastStarted(o) ==
    /\ call[o] = "mark"
    /\ \/ o \in Ledger /\ Goto(o, "send") /\ UNCHANGED phase
       \/ /\ o \in Keystone /\ ~gate /\ o \in locks /\ phase[o] # "none"
          /\ MarkRetain(o)
          /\ Goto(o, "send")
       \/ o \in Keystone /\ Goto(o, "idle") /\ UNCHANGED phase
    /\ UNCHANGED <<chain, proposal, old, rowExp, walletLocks, stored, outbox,
                   wire, live, memory>>

\* The bytes leave: from here on a node may have the transaction.
SendTransaction(o) ==
    /\ call[o] = "send"
    /\ wire' = [wire EXCEPT ![o] = IF @ = "no" THEN "maybe" ELSE @]
    /\ Goto(o, "wait")
    /\ UNCHANGED <<chain, proposal, rows, walletLocks, stored, outbox, live,
                   memory>>

\* send_response_rejection_error: "already known" answers count as accepted,
\* so a rejection means that the node does not have the transaction.
AnswerAccepted(o) ==
    /\ call[o] = "wait"
    /\ wire' = [wire EXCEPT ![o] = "net"]
    /\ Goto(o, "accepted")
    /\ UNCHANGED <<chain, proposal, rows, walletLocks, stored, outbox, live,
                   memory>>

AnswerUnknown(o) ==
    /\ call[o] = "wait"
    /\ Goto(o, "unknown")
    /\ UNCHANGED <<chain, proposal, rows, walletLocks, stored, outbox, wire,
                   live, memory>>

AnswerRejected(o) ==
    /\ call[o] = "wait" /\ wire[o] = "maybe"
    /\ wire' = [wire EXCEPT ![o] = "no"]
    /\ Goto(o, IF o \in Ledger THEN "recRejected" ELSE "release")
    /\ UNCHANGED <<chain, proposal, rows, walletLocks, stored, outbox, live,
                   memory>>

\* The accepted or ambiguous transaction is stored, atomically, with a
\* fallback; Keystone then finishes its proposal.
StoreBroadcast(o) ==
    /\ call[o] \in {"accepted", "unknown"}
    /\ StoreTransaction(o)
    /\ Goto(o, IF o \in Keystone THEN "finish"
               ELSE IF call[o] = "accepted" THEN "recBroadcasted"
               ELSE "recUnknown")
    /\ UNCHANGED <<chain, proposal, rows, outbox, wire, live, memory>>

\* Both storage attempts failed.
StoreBroadcastFails(o) ==
    /\ call[o] \in {"accepted", "unknown"}
    /\ Goto(o, IF o \in Keystone THEN "retain"
               ELSE IF call[o] = "accepted" THEN "recStorageFailed"
               ELSE "recUnknown")
    /\ UNCHANGED <<chain, proposal, rows, walletLocks, stored, outbox, wire,
                   live, memory>>

\* ...so the reservation is kept until it expires.
RetainAfterStoreFailure(o) ==
    /\ call[o] = "retain"
    /\ ForgetAndRetain(o) \/ UNCHANGED <<phase, props, locks>>
    /\ Goto(o, "idle")
    /\ UNCHANGED <<chain, proposal, old, rowExp, walletLocks, stored, outbox,
                   wire, live, gate, cancel, held, boot, sync>>

\* release_operation, in the transaction that ends the operation.
ReleaseOperation(o) ==
    phase' = [phase EXCEPT ![o] = IF @ = "signed" THEN "release" ELSE @]

\* apply_broadcast_outcome and record_broadcast_failure, each one SQLite
\* transaction.  A swap, pay or gift-card operation waits for an
\* acknowledgement even when it was broadcast.
RecordOutcome(o) ==
    /\ \/ /\ call[o] = "recBroadcasted"
          /\ \E s \in {"none", "ack"} : outbox' = [outbox EXCEPT ![o] = s]
          /\ ReleaseOperation(o)
       \/ /\ call[o] = "recExpired"
          /\ outbox' = [outbox EXCEPT ![o] = "ack"]
          /\ ReleaseOperation(o)
       \/ /\ call[o] \in {"recUnknown", "recStorageFailed"}
          /\ outbox' = [outbox EXCEPT ![o] = "ack"]
          /\ UNCHANGED phase
       \/ /\ call[o] = "recRejected"
          /\ outbox' = [outbox EXCEPT ![o] = "none"]
          /\ ReleaseOperation(o)
       \/ call[o] = "recRetry" /\ UNCHANGED <<outbox, phase>>
    /\ Goto(o, "recover")
    /\ UNCHANGED <<chain, proposal, old, rowExp, walletLocks, stored, wire,
                   live, memory>>

\* The transaction did not commit: the operation is still pending.  After a
\* failed broadcast the call ends here, without the recovery pass.
RecordFails(o) ==
    /\ \/ /\ call[o] \in {"recBroadcasted", "recExpired", "recUnknown",
                           "recStorageFailed"}
          /\ Goto(o, "recover")
       \/ call[o] \in {"recRejected", "recRetry"} /\ Goto(o, "idle")
    /\ UNCHANGED <<chain, proposal, rows, walletLocks, stored, outbox, wire,
                   live, memory>>

\* operations::broadcast ends with recover_before_balance; its failure is
\* only logged.
RecoverAfterBroadcast(o) ==
    /\ call[o] = "recover"
    /\ Recover(FALSE) \/ RecoverFails(FALSE)
    /\ Goto(o, "idle")
    /\ UNCHANGED <<chain, proposal, stored, outbox, wire, live, memory>>

\* acknowledge removes the operation and leaves the reservation alone.
Acknowledge(o) ==
    /\ ~boot /\ outbox[o] = "ack"
    /\ outbox' = [outbox EXCEPT ![o] = "none"]
    /\ UNCHANGED <<chain, proposal, rows, walletLocks, stored, wire, callState,
                   memory>>

\* broadcast_created_transactions: the last step of execute_proposal.  Without
\* a route or after a rejection the transaction stays in the wallet only.
BroadcastCreated(o) ==
    /\ call[o] = "created"
    /\ \E w \in {"no", "maybe", "net"} :
          wire' = [wire EXCEPT ![o] = IF @ = "no" THEN w ELSE @]
    /\ Goto(o, "idle")
    /\ UNCHANGED <<chain, proposal, rows, walletLocks, stored, outbox, live,
                   memory>>

\* resubmit_pending_transactions sends again what the wallet has stored, while
\* the wallet's chain tip is below the expiry.
Resubmit(o) ==
    /\ ~boot /\ stored[o] /\ wire[o] # "net" /\ wtip < txExp[o]
    /\ \E w \in {"maybe", "net"} : wire' = [wire EXCEPT ![o] = w]
    /\ UNCHANGED <<chain, proposal, rows, walletLocks, stored, outbox,
                   callState, memory>>
-----------------------------------------------------------------------------
OwnerStep(o) ==
    \/ \E ns \in SUBSET Outputs :
          Propose(o, ns) \/ ProposeFails(o, ns) \/ DieInPropose(o, ns)
    \/ Consume(o) \/ ReadLiveTip(o) \/ CreateTransaction(o) \/ CreatePczt(o)
    \/ CreateFails(o) \/ ReleaseProposal(o) \/ FinishProposal(o)
    \/ FinishRows(o) \/ Discard(o) \/ DiscardUnlock(o) \/ DieInRelease(o)
    \/ Retain(o) \/ Checkpoint(o) \/ StartKeystone(o) \/ StartLedger(o)
    \/ ReadBroadcastTip(o) \/ MarkBroadcastStarted(o) \/ SendTransaction(o)
    \/ AnswerAccepted(o) \/ AnswerUnknown(o) \/ AnswerRejected(o)
    \/ StoreBroadcast(o) \/ StoreBroadcastFails(o)
    \/ RetainAfterStoreFailure(o) \/ RecordOutcome(o) \/ RecordFails(o)
    \/ RecoverAfterBroadcast(o) \/ Acknowledge(o) \/ BroadcastCreated(o)
    \/ Resubmit(o)

Next ==
    \/ Tick \/ SyncUpdateTip \/ RefreshTip \/ SyncRecover \/ StartupRecover
    \/ Die \/ BeginShutdown \/ ShutdownSweep
    \/ \E n \in Outputs : MigrationLock(n) \/ MigrationUnlock(n)
    \/ \E o \in Owners : OwnerStep(o)

Spec == Init /\ [][Next]_vars
-----------------------------------------------------------------------------
(***************************************************************************)
(* Properties.                                                             *)
(***************************************************************************)

\* The transaction of o may be on the network, or the wallet will submit it,
\* and by the wallet's rule (target height below the expiry) it is unexpired.
Alive(o) ==
    /\ wire[o] # "no" \/ stored[o]
    /\ tip + 1 < txExp[o]

\* Two live transactions never spend the same output: whatever cancels,
\* crashes, restarts, late signatures and lost answers happen, no send can
\* select the inputs of a transaction that may still confirm.
NoConflictingBroadcast ==
    \A o, p \in Owners :
        o # p /\ Alive(o) /\ Alive(p) => inputs[o] \cap inputs[p] = {}

\* Between the first RPC and local storage (including a storage failure and
\* any number of restarts) an ambiguous transaction keeps every input locked
\* under its owner and a retained row that carries the transaction's expiry.
AmbiguousBroadcastHolds ==
    \A o \in Owners :
        Alive(o) /\ ~stored[o] =>
            /\ Retained(phase[o]) /\ rowExp[o] = txExp[o]
            /\ \A n \in inputs[o] : lockOf[n] = o /\ lockExp[n] = txExp[o]

\* A signed Ledger operation that waits in the outbox owns its inputs until
\* it is stored or expires: neither a cancel, an exit, offline recovery nor a
\* failed earlier attempt frees them.
PendingOperationReserved ==
    \A o \in Owners :
        outbox[o] = "pending" /\ ~stored[o] /\ tip + 1 < txExp[o] =>
            /\ phase[o] = "signed"
            /\ \A n \in inputs[o] : lockOf[n] = o

\* Every wallet lock a send holds has its recovery row: a process that dies
\* anywhere leaves nothing that the next one cannot release.
LocksAreRecoverable ==
    \A n \in Outputs : \A o \in Owners :
        lockOf[n] = o => phase[o] # "none" /\ n \in inputs[o]

\* Once the database is open for balances, no output is held for an approval
\* that the previous process abandoned.
NoOrphanAfterStartup ==
    \A o \in Owners : ~boot /\ old[o] => phase[o] # "session"

\* A proposal yields one transaction: neither a repeated call nor an app that
\* lost the answer can build a second one.
TransactionBuiltOnce ==
    [][\A o \in Owners : txExp[o] # 0 => txExp'[o] = txExp[o]]_vars

\* Behind the exit gate a reservation that waits for approval never becomes
\* durable: a signature that arrives late is neither checkpointed nor sent.
GateStopsPromotion ==
    [][\A o \in Owners : gate /\ phase[o] = "session" =>
            phase'[o] \in {"session", "none"}]_vars

\* Send bookkeeping never frees or takes an output a migration run has
\* locked, not even one whose lapsed send lock the migration took over.
OnlyMigrationUnlocks ==
    [][\A n \in Outputs :
            lockOf[n] = Migration /\ lockOf'[n] # Migration => MigrationUnlock(n)]_vars

\* proposal_locks.rs on recovery: "Ambiguous-broadcast locks remain until
\* their recorded expiry height has passed."
RetainedUntilExpiryPassed ==
    [][\A o \in Owners :
            sync = "recover" /\ Retained(phase[o]) /\ phase'[o] = "none"
                => wtip >= rowExp[o]]_vars

\* proposal_locks.rs on checkpoint_owner: "A stale PCZT cannot resurrect a
\* released owner."
StalePcztCannotResurrect ==
    [][\A o \in Ledger :
            outbox[o] = "none" /\ outbox'[o] = "pending" /\ Target < rowExp[o]
                => \A n \in inputs[o] : lockOf[n] = o]_vars

(***************************************************************************)
(* Liveness.  Startup and sync are retried forever, a retry may find the   *)
(* database writable, and a process that closed its gate exits.            *)
(***************************************************************************)
StartupRecovers == StartupRecover /\ ~boot'
SyncRecovers == SyncRecover /\ Recover(TRUE)

Fairness ==
    /\ WF_vars(StartupRecovers)
    /\ SF_vars(SyncUpdateTip /\ wtip' = tip)
    /\ SF_vars(SyncRecovers)
    /\ WF_vars(gate /\ Die)

LiveSpec == Spec /\ Fairness

\* An approval abandoned by a crash is cleaned up, through any number of
\* further crashes and failed passes.
OrphanReleased ==
    \A o \in Owners :
        (boot /\ phase[o] = "session") ~>
            (phase[o] = "none" /\ \A n \in Outputs : lockOf[n] # o)

\* A reservation retained for an ambiguous broadcast does not leak: after its
\* expiry some sync run of a later process reclaims it.
ExpiredReservationReclaimed ==
    \A o \in Owners :
        (old[o] /\ Retained(phase[o]) /\ tip + 1 >= rowExp[o]) ~>
            (phase[o] = "none" /\ \A n \in Outputs : lockOf[n] # o)
=============================================================================
