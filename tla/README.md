# Vizor wallet: TLA+ specifications

Vizor is a Zcash wallet: a Flutter application (`lib/`) over a Rust core
(`rust/src/`), joined by generated bindings. The wallet tables belong to
`zcash_client_sqlite`; the Rust core adds its own tables, caches and threads
around them. These specifications are about that added part: the state that
several calls, tasks, restarts and machines (node, hardware signer) change
together.

```
tlc -workers 2 -config SendPairs.cfg MCSendReservation       # one run
tlapm SendReservation_proofs.tla                             # one module's proofs
```

`PROJECT.json` maps every definition to the lines it translates and lists the
runs, the mutants that show what each property detects, the hazards, the
findings and the theorems.

## 1. Inventory

| Part | State it keeps | Operations | Hard behaviour | What makes it correct |
|---|---|---|---|---|
| Send proposal reservations (`sync/proposal_locks.rs`, `sync/mod.rs`, `send.rs`, `pczt.rs`, `broadcast.rs`) | `PROPOSAL_STORE` in memory; `vizor_send_proposal_locks`; output locks of the wallet tables; the exit gate | propose, execute, create PCZT, discard, retain, broadcast, finish, recover, shut down | three stores written one after the other; awaits between sections; crashes; lost answers of the node; expiry by height | no two live transactions share an input; nothing stays locked for ever |
| Ledger outbox (`ledger/operations.rs`) | `vizor_ledger_signed_operations` | checkpoint, broadcast, record outcome, acknowledge | a signature that arrives late; repeated broadcasts; a crash before the outcome is recorded | a pending operation owns its inputs |
| Summary cache (`wallet_summary_cache.rs`, `db.rs`) | map of slots, slot contents, write epoch, write lock | cached read, write section, evict | lock-free validation against writers; eviction under a reader; panics | linearizable reads |
| Sync engine (`sync_engine/`, `api/sync.rs`, `sync/mod.rs`) | stored blocks, scan queue, recorded tip, completion metadata, session flags | start, cancel, scan, rewind, refresh the tip, repair, complete; status | reorganisations seen through several endpoints, cancels, crashes, bounded rewinds and retries | no height lost; "synced" is about one chain; every run ends |
| Ironwood migration (`sync/migration*.rs`, `send.rs`, `send/ironwood_migration.rs`) | run, parts, pending transactions, signed children, wallet locks | create, sign, promote, schedule, broadcast, confirm, re-sign, stop, retire, reconcile locks | many steps over days, lost answers, expiry, reorganisations, sync and other accounts writing the same rows | no transfer forgotten, no part stranded, locks follow the phase |
| iOS background migration outbox (`ios/`, `migration.rs`) | exported transactions, receipts | export, send, apply receipts | a second sender | a transfer the outbox sent is known to the run |
| Payment links (`sync/payment_link.rs`, `gift_card_tracking.rs`) | link records, claim state | create, claim, track | claim racing a sync or another claimer | a claim is settled once |
| Voting (`wallet/voting/`, `api/voting*.rs`) | rounds, hotkeys, submissions | delegate, vote, recover | submission with lost answers | one vote per note and round |
| Network privacy (`network_privacy.rs`, `network_privacy_provider.dart`) | desired route, status, client, dormancy, direct leases, toggle number | begin enable, enable, fail, disable, dormancy, route a request, direct I/O | overlapping toggles on different threads, connections opened under another policy | no direct I/O after a switch to Tor; every switch concludes |
| Endpoint failover (`rpc_endpoint_failover_provider.dart`) | active endpoint, failures | report, switch, probe | concurrent failures, stale reports | a healthy endpoint is used in the end |
| Secure store (`secret_store.rs`, `secret_payload.rs`) | encrypted secrets | store, unlock, rotate | a crash during rotation | secrets stay readable under one password |
| Accounts and keys (`keys.rs`) | accounts, migrated databases | create, import, delete, migrate | deletion while other calls run | see the parts it touches |
| Ledger transport, Keystone, history, receive cache, Nyctis, shell | device I/O, encodings, queries, UI | | | not state machines of their own, or proofs of concept |

How they interact: every Rust call that writes goes through
`with_wallet_db_write_lock`, which also drives the epoch of the summary cache.
Opening a database runs the offline lock recovery before balances are read; each
sync run records the tip and runs the recovery that may use it. Sends and
migrations compete for the output locks of the wallet tables; the pass after a
sync confirms migration parts and reconciles their locks. The Ledger outbox
takes over a reservation by promoting its rows in the transaction that inserts
the signed operation.

## 2. Plan

Done, in this order:

1. `SendReservation`: reservations and outbox, the part that protects funds;
   `SendReservationInv`, `SendReservation_proofs`.
2. `SummaryCache` against the abstract `SummaryRegister`; `SummaryCache_proofs`.
3. `SyncRun`: the run with its rewinds, retries, repairs and completion marks;
   `SyncRun_proofs`.
4. `MigrationRun`: a run and its parts from signing to the end;
   `MigrationRun_proofs`.
5. `MigrationLocks`: how the wallet locks follow the phase of a run;
   `MigrationLocks_proofs`. `SendReservation` has the other side: sends that meet
   migration locks.
6. `NetworkPrivacy`: route changes against requests; `NetworkPrivacy_proofs`.

Left, in this order:

7. The denomination stages before a run's notes are prepared, and the iOS outbox
   as a second sender of `MigrationRun`'s transactions.
8. `ImmediateMigrationInputLock` and ZIP-320 pairs: the accepted prefix of a
   batch, dependency order of resubmission.
9. Endpoints with a mempool each, which makes a rejection after an ambiguous
   attempt visible to the reservations.
10. Account deletion across all stores; password rotation; payment link claims;
    vote submission; the transparent receive cache.

## 3. SendReservation

One proposal is one lock owner (`LockOwner::random`). Its signer is fixed by the
account: `Software`, `Keystone` or `Ledger`.

| Variable | Code |
|---|---|
| `phase`, `old`, `rowExp` | rows of `vizor_send_proposal_locks`: phase, session of an earlier process, `expiry_height`; the `retain_until_expiry` column is `Retained(phase)` |
| `outbox` | state of the row in `vizor_ledger_signed_operations` |
| `lockOf`, `lockExp`, `stored` | output locks and stored transactions of the wallet database |
| `props`, `locks` | `PROPOSAL_STORE.proposals`, `PROPOSAL_STORE.locks` |
| `gate` | `SHUTTING_DOWN` |
| `call`, `live`, `cancel` | calls in flight, between two critical sections or at an await |
| `held` | signed PCZTs the app has in memory |
| `wire` | whether a node may have the transaction |
| `tip`, `wtip` | the chain, and the tip the wallet recorded |
| `boot`, `sync` | startup recovery pending; a sync run between tip and recovery |

A section under the write lock is one action. Awaits, second sections and SQLite
commits that follow each other are separate, and `Die` may come between any two
(`DieInPropose`, `DieInRelease` inside the sections that write twice):

- `Propose` (select, persist rows, lock outputs, publish), `Consume`,
  `ReadLiveTip`, `CreateTransaction`, `CreatePczt`, `CreateFails`;
- `ReleaseProposal`, `FinishProposal`, `FinishRows`, `Discard`,
  `DiscardUnlock`, `Retain`;
- `Checkpoint`, `StartLedger`, `StartKeystone`, `ReadBroadcastTip`,
  `MarkBroadcastStarted`, `SendTransaction`, the three answers,
  `StoreBroadcast`, `StoreBroadcastFails`, `RecordOutcome`, `RecordFails`,
  `RecoverAfterBroadcast`, `Acknowledge`;
- `BroadcastCreated`, `Resubmit`; `StartupRecover`, `SyncUpdateTip`,
  `RefreshTip`, `SyncRecover`; `BeginShutdown`, `ShutdownSweep`, `Die`;
  `MigrationLock`, `MigrationUnlock`; `Tick`.

`StorageFaults` says whether a release may stop after its wallet unlock and
before its row removal (an SQLite error, or a crash there).

Taken from how the code uses them, and not from source in this repository: a
wallet lock is live while the target height is below its expiry; `lock_outputs`
refuses an output another flow holds live or has spent; storing a transaction
clears its own locks; "already known" counts as accepted, and a rejection means
that no node has the transaction. The app calls the Keystone broadcast once per
proposal. Legacy rows without the retain flag behave like abandoned session
rows. A cached live tip is at most one block old.

Not in the model: reorganisations, mining, account deletion, poisoned mutexes,
`ImmediateMigrationInputLock`, the prefix of a ZIP-320 pair, and amounts.

### Properties

- `NoConflictingBroadcast`: two transactions that may still confirm (by the
  wallet's own expiry rule) never share an input.
- `AmbiguousBroadcastHolds`: from the first RPC until local storage, the
  transaction keeps retained rows and locks with its own expiry.
- `PendingOperationReserved`: an operation in the Ledger outbox owns its inputs.
- `LocksAreRecoverable`, `NoOrphanAfterStartup`: nothing is locked without a row
  that recovery can find; after startup no abandoned approval holds an output.
- `TransactionBuiltOnce`, `GateStopsPromotion`, `OnlyMigrationUnlocks`: what a
  step may never do.
- `OrphanReleased`, `ExpiredReservationReclaimed`: liveness.

### Runs and bounds

| Run | Instance | Distinct states |
|---|---|---|
| `SendPairs` | a software send and a Keystone or a Ledger send, one migratable output, legacy rows of the Keystone send, 2 blocks | 1.57 million |
| `SendFaults` | a Ledger send over two outputs with storage faults, 3 blocks, under `LiveSpec` | 0.33 million |
| `ExpiryDivergence`, `StaleCheckpoint` | the two findings | violation |

Conflicts are between two proposals over one output, so two owners and one output
show them; two outputs show partial locking and partial release. `Rivals` lists
the sets of owners that may meet: an account signs in one way, so a Keystone and a
Ledger send never compete, and the software send stands for the other flow. (That
third pair was checked too, 3.9 million states together.) With `LockBlocks` = 2 a
proposal can be made, expire, be recovered and its output be taken by the other
within 2 blocks (3 in `SendFaults`); the restarts in between are not bounded.
`SendFaults` has one owner: its properties, the two liveness properties included,
are about one.

Fairness (`LiveSpec`): the startup recovery is called again by every use of the
database until it succeeds (`WF`); sync runs are started periodically and on
demand, a run that records the current tip and a recovery pass that succeeds
happen again and again (`SF`, as crashes and faults may disable them); a process
that closed its gate exits (`WF`). Nothing is assumed about users, nodes or
signers.

### Findings

- `ExpiryDivergence`: `should_release_after_restart` compares the *target*
  height with the recorded expiry, so a retained lock is freed while a block at
  its expiry height can still confirm the transaction. The comment says the lock
  remains until the expiry height has passed. The safety properties above hold
  because they use the wallet's rule, in which that last block does not count.
- `StaleCheckpoint`: the release unlocks outputs before it removes the rows. If
  the removal fails, a late checkpoint still finds a `session` row and promotes
  an owner whose outputs are free. The comment on `checkpoint_owner` says that
  cannot happen. `PendingOperationReserved`, `AmbiguousBroadcastHolds` and
  `NoConflictingBroadcast` therefore need `StorageFaults = FALSE`.

### Proofs

`SendReservation_proofs` proves, for every set of proposals and outputs and all
heights: `TypeOK`, `Lifecycle`, `LocksAreRecoverable`, `NoOrphanAfterStartup`,
`TransactionBuiltOnce`, `GateStopsPromotion`, `OnlyMigrationUnlocks`; and,
assuming `~StorageFaults`,
`AmbiguousBroadcastHolds`, `PendingOperationReserved` and
`NoConflictingBroadcast`, and the invariant `Inductive` they follow from.

`NoConflictingBroadcast` is far from inductive: it says nothing about a proposal
that is built and not sent. The invariant `Inductive` has three layers.
`Lifecycle` ties rows, memory, outbox and call stage of one proposal together
(for instance, an unsent PCZT in the app's hands has session rows or none).
`Recoverable` ties locks to rows. `Exclusive` says who holds an output: rows of
what may be on the wire are retained (`RowsRetain`), an unexpired reservation
still has its locks with the transaction's expiry (`Holds`), stored inputs are
unlocked and disjoint (`SpentUnlocked`, `StoredDisjoint`). The key steps are
that a lock another flow could take has lapsed, so its owner is expired
(`Protected`), and that recovery releases no row of a live transaction
(`NotReleasable`, `RecoveryKeeps`). `SendPairs` checks `Inductive` too.

`MigrationLocksStay` (the property `OnlyMigrationUnlocks`) needs the type only:
unlocking and relocking go by owner, and `Migration` is none of the owners.

Of the two liveness properties everything but the fairness is proved.
`ReclaimProgress`: an expired reservation of an earlier process (`Reclaimable`)
remains one until rows and locks are gone together, recording the current tip
makes it releasable, and a recovery pass then removes it. `OrphanProgress`: an
abandoned approval (`Orphan`) remains one through failed passes and restarts
until a pass removes it; this rests on `BootClean` and `StartupQuiet`, that while
the startup recovery is pending no call of the wallet runs. What TLC adds is
that the fair passes are enabled and taken.

## 4. SummaryCache

`get_or_load_with_epoch` with one action per access to shared state: `Call`
(`slot_for`), `Lock`, `Check` (epoch test), `Exists` (`Path::exists`),
`ReadBefore`, `Load` or `LoadFails`, `Publish`, `Return`. Writers are
`WriteBegin`, `Commit`, `WriteEnd`; `DeleteFile` and `Evict` come from account
deletion and wallet reset. A slot is an object of its own (`map`, `slotDb`), so
a reader may hold one that was evicted. A summary is the number of commits it
reflects.

Assumed: no other process writes the database (the code says it does not
coordinate with one) and all writes of this one go through the write lock; a
load is one SQLite snapshot; a path is used with one network; atomics are
sequentially consistent and the epoch does not wrap. Opening the path of a
deleted wallet creates an empty file, which `LoadFails` models (`"empty"`).

`SummaryRegister` is the abstract specification: an answer is the state of the
database at one instant of the call. `Linearizable` is that specification under
the mapping in which a hit is decided when the epoch is checked and a load when
it takes its snapshot. A hit whose file has vanished maps to `Retry`.

| Run | Instance | Properties | Distinct states |
|---|---|---|---|
| `SummaryCache` | 2 symmetric readers, 2 slots, 2 commits, epochs 0..4 | `TypeOK`, `TrustedIsCurrent`, `ReadsOwnWrites`, `DeletedNotServed`, `Linearizable` | 0.33 million |

Two readers allow one in the evicted slot and one in the new slot, or one
waiting for the other. Epochs up to 4 allow a section that begins after another
has ended, so a stale entry can meet a later even epoch. One database is enough
because the epoch is global and slots are per database; the proofs are for any
number.

`SummaryCache_proofs` proves all five for every number of readers, databases,
slots, commits and epochs. `Inv` adds to the properties: the lock is free
exactly when the epoch is even (`Parity`); slots keep their database (`SlotsOK`)
and have one reader inside (`Mutex`); an entry or a load of the current even
epoch has the committed state (`EntryOK`, `LoadOK`); the answer being prepared is
in range (`AnswerOK`); slots made after the eviction of a deleted wallet stay
empty (`DeadOK`). The refinement needs `Mutex`: an entry a reader has accepted
is not overwritten before it is returned.

## 5. SyncRun

One sync run at a time (`SYNC_RUNNING`) against a chain with competing forks.
`blocks` is what the wallet stores, `queue` its pending heights, `dbTip` the tip
it recorded; `policy`, `inProgress` and `completed` are the completion metadata,
and `run` holds the variables of `run_sync_impl`.

| Actions | Code |
|---|---|
| `StartFullSync`, `ClearCancel`, `CancelFullSync`, `BeginShutdown` | session flags of `api/sync.rs` |
| `BeginAttempt`, `Backoff`, `FailRun` | retry loop of `run_sync_inner`, `mark_sync_started` |
| `InitialTip`, `Reconcile`, `PeriodicRefresh`, `PostBatch`, `DrainRefresh`, `DrainRecent` | the tip questions of a run and what each does when the answer is behind, ahead or on another fork |
| `LoopTop`, `SelectRange`, `ScanBatch`, `ScanRewind` | the scan loop and its continuity rewinds |
| `ScanSafeHeight`, `ScanRootConflict`, `WitnessRepair`, `AnchorRepair`, `Vetted` | repairs before completion |
| `Finish`, `MarkCompleted`, `DeferredRefresh` | `mark_sync_completed` and the refresh after it |
| `NetworkFault`, `DatabaseFault`, `DiscoveryInvalidated`, `RewindStops`, `Crash` | failures, in every gap |
| `ImportAccount`, `RewindToHeight`, `ReadLegacyStatus`, `InitializePolicy` | other threads that write the same state |

Every answer may come from any fork and may lag, so endpoint failover is inside
the model. The status `get_sync_progress` computes is `StatusComplete`.

- `NoHeightLost`: a height up to the recorded tip is stored or queued.
- `StatusOneFork`: while the wallet is reported as synced, everything below the
  anchor is of one chain.
- `RunAdvances`: each step of a run brings it nearer to its end, by the measure
  below.
- `Terminates`: every run ends, unless accounts are imported for ever.
- `Converges`: when endpoints agree and nothing fails any more, runs end up with
  a synced status from whatever state earlier runs left.

| Run | Instance | Distinct states |
|---|---|---|
| `SyncRun` | 2 forks from height 0, 2 blocks, batches of 2, rewind distance 2; one rewind, retry, witness pass and anchor pass; under `FairSpec` | 0.24 million |

Two forks and heights above the fork point let a batch, a rewind and a tip answer
each be of a different chain; every budget of 1 is both used and exhausted. The
rewind distance is longer than the part of a fork that a run may have to give
up, as it is in practice: with distance 1 a run could not reach the fork point
within its budget and `Converges` would fail. The anchor is the tip itself
(`AnchorDepth` 0), the hardest case for `StatusOneFork`. Deadlock is not checked:
at the height bound the wallet may simply be done.

`FairSpec` assumes that the executor runs the steps of a session, that the app
starts a run when none is running (it does so periodically), and that a process
that is shutting down ends. Nothing is assumed of endpoints.

`SyncRun_proofs` proves `SyncTyped`, `NothingLost` and `SyncedFromOneFork` for
any chain, distances and budgets from `SyncInv`: blocks are stored up to the tip
only and the run's tip lies within it (`StoreOK`); work is recorded as in
progress, and a run about to complete has vetted what it stores (`SessionOK`); a
completed height is the tip as vetted, or the wallet was rewound below it since
(`CompletionOK`).

`RunsAdvance` proves `RunAdvances` for the same. The measure is lexicographic: the
attempt; the part of the attempt (before, in or after the scan loop); the rewinds
and repairs paid for; the run's tip; the queue, which shrinks; the step of the
pass over the loop. Each has a bound, so a run that keeps moving ends: this is
`Terminates` without its fairness. The proof needs from the invariant that a
batch is taken from the queue (`BatchQueued`), without which a scan could come
round with nothing done. Importing an account, which refills the queue, is the
one step that is exempt.

`NoNeedlessRewind`: while the endpoints answer from the fork the wallet stores
(`Follows`), a run stays on that fork and gives up no block, except in an anchor
repair that misses one. Together with `RunsAdvance` it is the part of `Converges`
that follows the rewind to the right chain; that a run gets there within its
budgets depends on their size and is checked on the instance only.

## 6. MigrationRun

A run moves each prepared note (part) with one transaction. `row` is
`vizor_migration_pending_txs`, `signed` the signed children, `op` the call that
holds the account's guard, with its place in `op.pc`; `wire`, `mined`, `seen` and
`trusted` are the network and what the wallet has scanned of it. Each database
transaction is a step, and `Crash` may come between any two.

| Actions | Code |
|---|---|
| `CreateRun`, `PrepareBatch`, `SigningRequest`, `CompleteBatch`, `CompleteRecovery`, `DiscardRequest` | creating a run, the Keystone signing requests and their completion |
| `Resume`, `BroadcastDue`, `StoreRetry`, `StampPhase`, `Recheck`, `PolicyRebuild`, `MarkExpired`, `Rebuild`, `Promote`, `Finalized` | the call that advances a run |
| `MarkCrossed`, `DuePending`, `MarkBroadcasting`, `MarkAttempted`, `SendTx`, `BroadcastUnknown`, `BroadcastRejected`, `StoreAccepted`, `RecordAccepted` | sending what is due, with lost and ambiguous answers |
| `ReadOverdue`, `RedrawOverdue`, `RedrawSkipped` | the redraw of what is overdue after a send: the rows are read first, the transaction that follows does not read them again |
| `ReadByOther`, `RedrawByOther` | the same by a call of another account, under another guard: `listed` is what it has read, and anything may happen before it writes |
| `Stop`, `StopFinds`, `StopBlocked`, `StopSettled`, `AbandonRun`, `RetireUnbroadcast` | the user's stop |
| `Scan`, `SyncRecover`, `SyncConfirm` | sync |
| `Mine`, `Reorg`, `Age` | the chain and the passing of heights |

- `CompletedMeansMigrated`: a complete run has a trusted transaction per part.
- `NoPartStranded`: past signing, each part has a transaction or a signed child.
- `SoftwareRetirementRecorded`: a retired run signed in software has every
  accepted transfer in the wallet.
- `StopDropsNoScheduledTransfer`: of the transfers a node may hold and the wallet
  does not know, a stop drops only those that wait for a new signature.
- `StopUndoneOnlyByStaleRedraw`: a stopped run sends nothing, and only a redraw
  of another account that works from a list it read before the stop opens it
  again.

| Run | Instance | Distinct states |
|---|---|---|
| `MigrationRun` | 2 symmetric parts, both signers, 2 transactions per part, one setback, redraws by another account of runs signed in software | 1.78 million |
| `RetireUnrecorded` | one Keystone part | violation |
| `StopDropsLive` | one software part, no setback | violation |

Two parts show a run whose parts disagree (one confirmed, one expired); two
transactions per part show the old one being mined after the new one was signed;
the setback is a reorganisation, a renewed signature or a reading of the overdue
list by another account. `MaxSetbacks` is one budget for the three, and `Redrawn`
says whose runs another account redraws, because each multiplies the instance; the
proofs are for any number of each in any mix. Outside the listed runs the same
properties were checked with redraws of runs of both signers (3.24 million
states), and for software signers with two setbacks (5.3 million) and with
readings that cost none (4.6 million).
Deadlock is not checked, a run may end.

Finding `RetireUnrecorded`: the Keystone signing call
(`prepare_orchard_migration_batch_pczt`) retires a run without first storing the
transfers a node has accepted, which the comments in `send.rs` demand. Hence the
restriction of `SoftwareRetirementRecorded`.

Finding `StopDropsLive`: `abandon_run` deletes rows in `scheduled` and in
`needs_resign`, but only `scheduled` and `broadcasted` rows are asked about before
it. A transfer whose answer was lost and which then crossed its expiry window is
`needs_resign`, so a stop drops it although a node may still hold it. The comments
before the deletion (`send.rs:2242`, `send.rs:2293`) and the name of the test
`stopping_a_run_discards_only_unsubmitted_work` say that a stop drops nothing of
the kind. `StopDropsNoLiveTransfer` is that claim; `StopDropsNoScheduledTransfer`
is the part of it that holds. Both are about the current transaction of a part; one
that a new signature has replaced may also still be held, but its row was gone
before the stop.

`MigrationRun_proofs` proves the five properties and `TypeOK` for any set of
parts and any bounds. Each has an invariant: `CompletedInv` (also the phase
a call read earlier and writes back is complete only when all parts are
trusted), `AssignedInv` (which phases and stages of a call need every part
assigned, unless the run was stopped once; a released run has no scheduled row, so
a redraw that begins later finds nothing), `RecordedInv` (past the store retry of
a call, nothing accepted is missing in the wallet), `LiveInv` (a transaction on the
wire is of a generation signed so far, its row was marked before it was sent, and a
stop that goes on has settled what is scheduled). They are proved one by one, each
from `TypeInv` and what the steps may do to rows, phase and call. `StopUndone`
takes from `AssignedInv` that only a list which no longer matches the rows can
change the phase of a stopped run, and from `WireSteps` which steps touch the
network; `OutsideTyped` types that list.

Seen while modelling and outside these properties:

- A redraw sets the phase to `ready_to_migrate` for each transfer of its list that
  needs a new expiry, also when the row is gone (`migration.rs:4946`,
  `migration.rs:4983`). If the user stopped the run between the reading and the
  writing, the stopped run is active again, with parts that have neither a
  transaction nor a signature; a Keystone may sign them anew. This is why
  `NoPartStranded` speaks of runs that were never stopped, and what
  `StopUndoneOnlyByStaleRedraw` leaves open.
- A `needs_resign` part whose own transaction is mined waits until the user stops.
- A redraw revives a terminally failed run that has scheduled rows without any
  race.
- `Missing` counts rows marked `broadcasted`, as the code does; an accepted
  transfer whose answer was lost is not among them, so retirement may leave it
  unrecorded.

Coarser than the code: the autocommit statements of
`reconcile_run_confirmations`, each guarded by the phase, are one step; a scan
stores a transaction at once, while a compact scan leaves `transactions.raw` empty
until enhancement.

## 7. MigrationLocks

The phase of a run and its wallet locks are written by different APIs. `rec` is
the reconciliation that a call (`op`) or the pass after a sync (`sync`) is in:
`ReadLocks`, `ApplyLocks`, `CheckLocks` are the rounds of
`reconcile_wallet_locks_for_run`, `LocksFail` an error in one, `CleanupUnlock`
and `CleanupDelete` the clean-up of a failed `create_run`. `EndRun`,
`CompleteByCall` and `Revive` change the phase, `Discover` and `Spend` the notes,
`Crash` ends both actors.

- `SettledLocksMatch`: when a reconciliation that saw the last change has
  completed and none is under way, the locks are those of the phase.
- `EndedRunUnlocks`, `ActiveRunLocks`: in the end a released run holds nothing
  and an active run holds its spendable notes.

| Run | Instance | Distinct states |
|---|---|---|
| `MigrationLocks` | 2 notes, 3 rounds, a released run revived up to twice, 2 faults, under `FairSpec` | 0.18 million |

The code makes 8 rounds; 3 let a reconciliation see two changes and still give
up, and fewer rounds make it give up sooner. Fairness: the wallet syncs again and
again, and a reconciliation that began goes on. Faults are bounded, so the
liveness says that the locks heal once errors stop.

`MigrationLocks_proofs` proves `TypeOK` and `SettledLocksMatch` for any notes,
rounds, turns and faults. `LocksInv` says what a completed reconciliation can
rely on: unless another actor has a pending read, or this one will check again,
the locks match the phase (`Pending`, `MatchesUnless`). Two theorems hold what the
liveness needs besides fairness: `ReconciliationAdvances`, that a reconciliation
goes forward through at most `MaxRounds` rounds, and `LocksStay`, that locks
which match the phase, with nobody about to apply an older one, stay as long as
phase and notes do.

Seen while modelling: when the clean-up of a failed creation unlocks nothing and
still deletes the run, its locks have no run to reconcile them
(`migration.rs:1488`), and `CheckLocks` of such a run is one step, which
`SettledLocksMatch` excludes; and the comment at `migration.rs:1064`, "The
phase-changing paths also call this function", does not hold for
`reconcile_run_pending_confirmations`, whose change is healed by the next sync.

## 8. NetworkPrivacy

Toggles of the notifier (`pc`, numbered by `gen`) drive the route policy
(`desired`, `status`, `slot`, `epoch`, `initLock`); requests (`req`, `leased`)
ask for a route and hold leases on the direct one.

| Actions | Code |
|---|---|
| `StartToggle`, `Superseded`, `RefuseToggle`, `BreakOff`, `CallEnable`, `CallDisable`, `FailEnable` | `network_privacy_provider.dart`: the notifier and its generation checks |
| `BeginDesired`, `BeginCancel`, `BeginClear` | `begin_tor_enable`, one step per atomic it writes |
| `DrainCheck` | `wait_for_direct_connections_to_close` |
| `EnableTor`, `AcquireInit`, `AcquireTimeout`, `NothingToBootstrap`, `StillDesired`, `StartBootstrap`, `BootSucceeds`, `BootFails`, `Install`, `BootstrapFailed` | `enable_tor`, `bootstrap_tor` |
| `DisableTor`, `DropClient`, `SetDormant`, `ApplyDormant` | `disable_tor`, which a `begin_tor_enable` may meet between its stores, and `set_tor_dormant` |
| `ProbeDesired`, `ProbeStatus`, `StopWaiting` | the route of a request |
| `CountLease`, `LoadEpoch`, `Poll`, `PerformIO`, `SocketReady`, `LetGo`, `RemoveWaker`, `DropLease`, `NotifyDrained` | `DirectRouteLease` |

- `DirectCutOff`: a connection that a switch to Tor has cancelled does no more
  I/O, also when the route is direct again.
- `NoMissedDrain`: a waiting drain is woken by the last connection.
- `NoOrphanClient`, `DormancyFollowsIntent`: no client on the direct route; the
  installed client has the mode the lifecycle last asked for.
- `UnrefusedRouteSettles`, `EnableConcludes`: an enable ends in a client, a failure
  or the direct route however toggles overlap, unless the newest was refused.

| Run | Instance | Distinct states |
|---|---|---|
| `NetworkPrivacy` | 2 toggles, 2 requests, under `FairSpec`, deadlock checked | 0.63 million |
| `EnableAbandoned` | 2 toggles, 1 request | violation |

A toggle may be refused whenever it has not reached the policy, also when it has
superseded an enable. Two toggles are what it takes to overlap; two requests show
a drain that waits for the second one. The invariants were also checked with 4
toggles, and `EnableConcludes` with 3, without requests. Fairness: a toggle under
way goes on, as each of its waits has a deadline (`WF`), and gets the waker
table's mutex when that is free again and again (`SF`). Nothing is assumed of
requests or users.

Finding `EnableAbandoned`: a toggle back to direct supersedes an enable that has
begun and is then refused (its preparation fails, or the sync tasks do not stop).
The enable finds itself superseded and returns, the refused toggle calls nothing,
and the status stays bootstrapping with nothing running, against
`network_privacy_provider.dart:96`: "Every [beginEnable] must be followed by
`configure(enabled: true)` or this". `SettledRoute` is that claim and
`UnrefusedRouteSettles` the part of it that holds; requests wait for their own
deadline in the case between.

`NetworkPrivacy_proofs` proves the type invariant and the five invariants for any
number of toggles and requests. `Counting` (the counter of direct connections is
exact) gives the drain; `LeaseInv` ties a lease's epoch and its waker to the
cancellation; `Owed` says that a route without an outcome has a bootstrap or the
newest toggle under way to conclude it, or the newest toggle was refused, and is a
theorem of its own (`OutcomeOwed`): refusal is the only way to strand it.
`TogglesOnward` adds that no toggle goes back except to count the direct
connections again. `EnableConcludes` rests on the two; that a drain is not notified
for ever, and fairness, are checked on the instance.

Seen while modelling:

- `try_tor_client_for_route` (`network_privacy.rs:615`) reads client, desired
  route and status separately, so a request that meets the publication of a
  client may be refused; it is never sent on the direct route.
- A disable between `bootstrap_tor`'s check and its status store leaves the
  status bootstrapping on the direct route. Only the status is wrong.
- `enable_tor` sets the desired route unconditionally: a call in flight enables
  Tor again after a later disable.

## 9. Model-checked only

Liveness under fairness is beyond the prover, which has no `ENABLED`. The seven
liveness properties are checked on the instances above only; the safety they rest
on is proved for every instance, for `Converges` in part:

| Property | Proved part |
|---|---|
| `OrphanReleased` | `OrphanProgress`, `StartupQuiet` |
| `ExpiredReservationReclaimed` | `ReclaimProgress` |
| `Terminates` | `RunsAdvance` |
| `EndedRunUnlocks`, `ActiveRunLocks` | `ReconciliationAdvances`, `LocksStay` |
| `EnableConcludes` | `OutcomeOwed`, `TogglesOnward` |
| `Converges` | `NoNeedlessRewind`, `RunsAdvance`; not that the budgets suffice |

Every other property of a passing run is also a theorem.

## 10. Not modelled

Encodings, cryptography, fee and note selection strategies, user interface,
platform runners and generated code.

- Migration: drafts and denomination stages, anchor retention, the choice of
  schedules, the immediate migration, and the iOS outbox. A second sender needs a
  copy of the rows in `MigrationRun`, whose instance is already the largest.
- Sync: enhancement of transactions, the mempool watcher, transparent history and
  the prefetch; they change no height that the status depends on.
- Network privacy: the update relay, HTTP over Tor, the saved preference.
- Payment links, swaps: records over sends and syncs, which are modelled.
- Voting: a client of a service whose rules are not in this repository.
- Endpoint failover: any endpoint may answer in `SyncRun`; the choice is not
  modelled.
- Secure store, Ledger transport, Keystone encoding, history queries: conversions,
  device I/O and reads.
- Account deletion, as a step of all these stores at once.

`PROJECT.json` says for each component what is missing.
