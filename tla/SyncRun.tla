------------------------------ MODULE SyncRun ------------------------------
(***************************************************************************)
(* One sync run of the wallet against a chain that forks under it:         *)
(* rust/src/wallet/sync_engine/mod.rs with the session flags of            *)
(* rust/src/api/sync.rs and the completion metadata the status is read     *)
(* from (rust/src/wallet/sync/mod.rs).                                     *)
(*                                                                         *)
(* A run asks for the chain tip, reconciles it with the wallet database,   *)
(* then scans pending ranges until none is left, validates the tip again,  *)
(* repairs what it finds damaged and records the height it completed.      *)
(* Endpoints answer from either of two forks and may lag; a run may be     *)
(* cancelled, shut down or crash at any step, and another thread may       *)
(* rewind the wallet or import an account meanwhile.                       *)
(*                                                                         *)
(* Simplifications.  A block is the fork it belongs to, or Common below    *)
(* the fork point; it has one parent.  The wallet birthday is height 1.    *)
(* Commitment roots agree exactly when the blocks below them do.  The      *)
(* batch a prefetch brings may be of either fork, as may a fresh one, so   *)
(* the prefetch itself is left out.  Cancelling and changing the desired   *)
(* mode have the same effect and are one flag.  Preparation steps that     *)
(* touch neither blocks nor scan queue are one step.                       *)
(***************************************************************************)
EXTENDS Integers

CONSTANTS
    Forks,           \* the competing branches
    Common,          \* a block all branches share
    None,            \* no block, no status call
    ForkPoint,       \* last height of the shared blocks
    MaxHeight,       \* bound: highest block
    BatchSize,       \* blocks of a scan batch
    RewindDistance,  \* REWIND_DISTANCE
    TreeRewinds,     \* COMMITMENT_TREE_REWIND_DISTANCES
    MaxRewinds,      \* MAX_REWINDS_PER_RUN
    MaxRetries,      \* MAX_RETRIES of run_sync_inner
    MaxWitness,      \* MAX_WITNESS_REPAIR_PASSES_PER_RUN
    AnchorRewinds,   \* ANCHOR_ROOT_REPAIR_REWIND_DISTANCES ...
    AnchorPasses,    \* ... and their number
    AnchorDepth      \* blocks between the tip and the anchor

Heights == 1..MaxHeight
Blocks == Forks \cup {Common}

ASSUME SyncAssumption ==
    /\ Forks # {} /\ Common \notin Forks /\ None \notin Blocks /\ None \notin Nat
    /\ MaxHeight \in Nat \ {0} /\ ForkPoint \in 0..MaxHeight
    /\ BatchSize \in Nat \ {0} /\ RewindDistance \in Nat \ {0}
    /\ MaxRewinds \in Nat /\ MaxRetries \in Nat /\ MaxWitness \in Nat
    /\ AnchorDepth \in Nat
    /\ TreeRewinds \in [1..MaxRewinds -> Nat]
    /\ AnchorPasses \in Nat /\ AnchorRewinds \in [1..AnchorPasses -> Nat]

VARIABLES
    blocks,      \* stored block of a height
    queue,       \* heights of the scan queue that are pending
    dbTip,       \* chain tip the database knows, 0 without one
    policy,      \* the completion metadata is there
    inProgress,  \* sync_in_progress
    completed,   \* last_completed_sync_height
    legacy,      \* status call about to initialise the metadata
    pc,          \* where the run stands, "idle" while SYNC_RUNNING is false
    exit,        \* what asks the run to stop
    attempt,     \* attempt of run_sync_inner
    run          \* variables of run_sync_impl

store == <<blocks, queue, dbTip>>
meta == <<policy, inProgress, completed>>
vars == <<blocks, queue, dbTip, policy, inProgress, completed, legacy, pc,
          exit, attempt, run>>

\* Steps of an attempt, from mark_sync_started to mark_sync_completed.
Working == {"tip", "prep", "loop", "range", "scan", "post", "drain", "vet",
            "finish", "mark"}

Runs == [tip : 0..MaxHeight, mustCheck : BOOLEAN,
         kept : BOOLEAN, queued : SUBSET Heights,
         first : 0..MaxHeight, last : 0..MaxHeight, verify : BOOLEAN,
         main : 0..MaxRewinds, ver : 0..MaxRewinds,
         witness : 0..MaxWitness, anchor : 0..AnchorPasses]

NoRun == [tip |-> 0, mustCheck |-> FALSE, kept |-> FALSE, queued |-> {},
          first |-> 0, last |-> 0, verify |-> FALSE, main |-> 0, ver |-> 0, witness |-> 0,
          anchor |-> 0]

TypeOK ==
    /\ blocks \in [Heights -> Blocks \cup {None}]
    /\ queue \in SUBSET Heights /\ dbTip \in 0..MaxHeight
    /\ policy \in BOOLEAN /\ inProgress \in BOOLEAN
    /\ completed \in 0..MaxHeight
    /\ legacy \in 0..MaxHeight \cup {None}
    /\ pc \in Working \cup {"idle", "claimed", "attempt", "backoff",
                            "deferred"}
    /\ exit \in {"none", "cancel", "shutdown"}
    /\ attempt \in 0..MaxRetries
    /\ run \in Runs
-----------------------------------------------------------------------------
(***************************************************************************)
(* The chain and the wallet database (librustzcash, external).             *)
(***************************************************************************)
Block(h, f) == IF h <= ForkPoint THEN Common ELSE f

\* The block a block of fork f at height h builds on.
Parent(h, f) == Block(h - 1, f)

\* A block above height h is stored.
ScannedAbove(bs, h) == \E k \in Heights : k > h /\ bs[k] # None

\* block_fully_scanned has reached the tip.
FullyScanned == \A k \in 1..dbTip : k \notin queue /\ blocks[k] # None

\* Mutant: only the heights above the tip known so far are queued.
UpdatedQueueFromTip(bs, q, h) == q \cup {k \in 1..h : k > dbTip}

\* update_chain_tip queues what is above the highest stored block, and leaves
\* a tip below that block alone.
UpdatedQueue(bs, q, h) ==
    q \cup {k \in 1..h : bs[k] = None /\ ~ScannedAbove(bs, k)}

UpdatedTip(bs, t, h) == IF h < t \/ ScannedAbove(bs, h) THEN t ELSE h

UpdateChainTip(h) ==
    /\ queue' = UpdatedQueue(blocks, queue, h)
    /\ dbTip' = UpdatedTip(blocks, dbTip, h)
    /\ UNCHANGED blocks

Truncated(a) == [h \in Heights |-> IF h <= a THEN blocks[h] ELSE None]

\* truncate_to_height
Truncate(a) ==
    /\ blocks' = Truncated(a)
    /\ queue' = queue \cap (1..a)
    /\ dbTip' = IF a < dbTip THEN a ELSE dbTip

\* Truncation to height a, then the update to tip h that follows it.
RewindTo(a, h) ==
    /\ blocks' = Truncated(a)
    /\ queue' = UpdatedQueue(Truncated(a), queue \cap (1..a), h)
    /\ dbTip' = UpdatedTip(Truncated(a), IF a < dbTip THEN a ELSE dbTip, h)

\* First height at which the batch first..last of fork f does not fit what is
\* stored: its own heights and the block before it.
Conflicts(first, last, f) ==
    {h \in first..last :
        \/ blocks[h] \notin {None, Block(h, f)}
        \/ h = first /\ h > 1 /\ blocks[h - 1] \notin {None, Parent(h, f)}}
-----------------------------------------------------------------------------
(***************************************************************************)
(* Tips an endpoint reports and what they mean for the run.                *)
(***************************************************************************)
Tips == [height : Heights, fork : Forks]

\* classify_refreshed_tip against the stored block of the current tip.
Relation(current, t) ==
    IF t.height < current THEN "behind"
    ELSE IF t.height > current THEN "advanced"
    ELSE IF blocks[current] = None THEN "unverified"
    ELSE IF blocks[current] # Block(current, t.fork) THEN "reorg"
    ELSE "unchanged"

ShouldExit == exit # "none"

\* The run returns: SYNC_RUNNING is released.
Leave == pc' = "idle" /\ attempt' = 0 /\ run' = NoRun

\* Mutant: the last attempt, too, is retried.
FailRunOnceMore(fatal) ==
    /\ run' = NoRun
    /\ IF fatal THEN pc' = "idle" /\ attempt' = 0
                ELSE pc' = "backoff" /\ attempt' = attempt + 1

\* RecoveryStrategy of an error of the attempt: a fatal one ends the run, the
\* others are retried until the retries are used up.
FailRun(fatal) ==
    /\ run' = NoRun
    /\ IF fatal \/ attempt = MaxRetries
       THEN pc' = "idle" /\ attempt' = 0
       ELSE pc' = "backoff" /\ attempt' = attempt + 1

Fails(fatal) == FailRun(fatal) /\ UNCHANGED store

\* The library truncates to a checkpoint at or below the requested height.
AtOrBelow(h) == {h, h - 1} \cap Nat

\* A reorg proved by tip t: the wallet is rewound below it, unless the budget
\* of the main phase is used up.
TipReorg(t, next, new) ==
    IF run.main >= MaxRewinds
    THEN Fails(FALSE)
    ELSE \E a \in AtOrBelow(t.height - 1) :
            /\ RewindTo(a, t.height)
            /\ pc' = next
            /\ run' = [new EXCEPT !.tip = t.height, !.main = @ + 1,
                                  !.mustCheck = TRUE, !.kept = TRUE,
                                  !.queued = queue']
            /\ UNCHANGED attempt
-----------------------------------------------------------------------------
(***************************************************************************)
(* The session: start, cancel, shutdown, crash.                            *)
(***************************************************************************)
Init ==
    /\ \/ blocks = [h \in Heights |-> None] /\ dbTip = 0
       \/ /\ blocks = [h \in Heights |->
                           IF h <= ForkPoint THEN Common ELSE None]
          /\ dbTip = ForkPoint
    /\ queue = {} /\ policy = FALSE /\ inProgress = FALSE /\ completed = 0
    /\ legacy = None /\ pc = "idle" /\ exit = "none" /\ attempt = 0
    /\ run = NoRun

\* run_full_sync_internal wins the running flag ...
StartFullSync ==
    /\ pc = "idle"
    /\ pc' = "claimed"
    /\ UNCHANGED <<store, meta, legacy, exit, attempt, run>>

\* ... and only then sets the desired mode and clears the cancel flag.
ClearCancel ==
    /\ pc = "claimed"
    /\ pc' = "attempt"
    /\ exit' = IF exit = "cancel" THEN "none" ELSE exit
    /\ UNCHANGED <<store, meta, legacy, attempt, run>>

CancelFullSync ==
    /\ exit = "none"
    /\ exit' = "cancel"
    /\ UNCHANGED <<store, meta, legacy, pc, attempt, run>>

BeginShutdown ==
    /\ exit # "shutdown"
    /\ exit' = "shutdown"
    /\ UNCHANGED <<store, meta, legacy, pc, attempt, run>>

\* The process ends at any step and is started again.
Crash ==
    /\ Leave /\ exit' = "none" /\ legacy' = None
    /\ UNCHANGED <<store, meta>>

\* mark_sync_started comes before any work of the attempt.
BeginAttempt ==
    /\ pc = "attempt"
    /\ \/ exit = "shutdown" /\ Leave /\ UNCHANGED meta
       \/ /\ exit # "shutdown"
          /\ policy' = TRUE /\ inProgress' = TRUE
          /\ pc' = "tip"
          /\ UNCHANGED <<completed, attempt, run>>
    /\ UNCHANGED <<store, legacy, exit>>

Backoff ==
    /\ pc = "backoff"
    /\ IF ShouldExit THEN Leave ELSE pc' = "attempt" /\ UNCHANGED <<attempt, run>>
    /\ UNCHANGED <<store, meta, legacy, exit>>

-----------------------------------------------------------------------------
(***************************************************************************)
(* The attempt (run_sync_impl).  An endpoint answers with tip t; it serves *)
(* blocks of fork f.                                                       *)
(***************************************************************************)
\* The initial tip is reconciled with the database before it is trusted.
InitialTip(t) ==
    /\ pc = "tip"
    /\ LET relation == IF dbTip = 0 THEN "advanced" ELSE Relation(dbTip, t)
           new == [run EXCEPT !.tip = t.height,
                              !.mustCheck = relation # "unchanged"]
       IN  \/ ShouldExit /\ Leave /\ UNCHANGED store
           \/ /\ ~ShouldExit /\ relation = "behind"
              /\ Fails(FALSE)
           \/ /\ ~ShouldExit /\ relation = "reorg"
              /\ TipReorg(t, "prep", new)
           \/ /\ ~ShouldExit /\ relation \notin {"behind", "reorg"}
              /\ UpdateChainTip(t.height)
              /\ pc' = "prep" /\ run' = new
              /\ UNCHANGED attempt
    /\ UNCHANGED <<meta, legacy, exit>>

\* Send locks, Ledger discovery, transparent refresh, resubmission, subtree
\* roots; then the ranges of the first pass are read.
Prepare ==
    /\ pc = "prep"
    /\ IF ShouldExit THEN Leave
       ELSE pc' = "loop" /\ run' = [run EXCEPT !.kept = TRUE, !.queued = queue]
            /\ UNCHANGED attempt
    /\ UNCHANGED <<store, meta, legacy, exit>>

\* Top of the loop, less than TIP_REFRESH_INTERVAL after the last refresh.
\* Shutdown is not looked at here.
LoopTop ==
    /\ pc = "loop"
    /\ IF exit = "cancel" THEN Leave
       ELSE pc' = "range" /\ UNCHANGED <<attempt, run>>
    /\ UNCHANGED <<store, meta, legacy, exit>>

\* What a refreshed tip t does to a run that goes on at next: promoted when it
\* is ahead, a reason to rewind when it contradicts the stored block.
Reconcile(t, next) ==
    LET relation == Relation(run.tip, t) IN
    \/ ShouldExit /\ Leave /\ UNCHANGED store
    \/ ~ShouldExit /\ relation = "behind" /\ Fails(FALSE)
    \/ ~ShouldExit /\ relation = "reorg" /\ TipReorg(t, "loop", run)
    \/ /\ ~ShouldExit /\ relation = "advanced"
       /\ UpdateChainTip(t.height)
       /\ pc' = next
       /\ run' = [run EXCEPT !.tip = t.height, !.mustCheck = TRUE]
       /\ UNCHANGED attempt
    \/ /\ ~ShouldExit /\ relation \in {"unchanged", "unverified"}
       /\ pc' = next
       /\ run' = [run EXCEPT !.mustCheck = relation = "unverified"]
       /\ UNCHANGED <<store, attempt>>

PeriodicRefresh(t) ==
    /\ pc = "loop" /\ exit # "cancel"
    /\ Reconcile(t, "range")
    /\ UNCHANGED <<meta, legacy, exit>>

\* Mutant: the ranges kept from the last rewind are used again.
SelectRangeKept ==
    /\ pc = "range"
    /\ LET ranges == IF run.kept THEN run.queued ELSE queue
       IN  \/ /\ ranges = {}
              /\ pc' = "drain" /\ UNCHANGED run
           \/ /\ \E first \in ranges : first > run.tip
              /\ pc' = "finish" /\ UNCHANGED run
           \/ \E first \in ranges, last \in Heights, v \in BOOLEAN :
                /\ first <= last /\ last < first + BatchSize /\ last <= run.tip
                /\ first..last \subseteq ranges
                /\ pc' = "scan"
                /\ run' = [run EXCEPT !.first = first, !.last = last,
                                      !.verify = v]
    /\ UNCHANGED <<store, meta, legacy, exit, attempt>>

\* The next batch: of the ranges kept from the last rewind, else of the queue.
\* A range that starts above the tip ends the loop.
SelectRange ==
    /\ pc = "range"
    /\ LET ranges == IF run.kept THEN run.queued ELSE queue
           new == [run EXCEPT !.kept = FALSE, !.queued = {}]
       IN  \/ /\ ranges = {}
              /\ pc' = "drain" /\ run' = new
           \/ /\ \E first \in ranges : first > run.tip
              /\ pc' = "finish" /\ run' = new
           \/ \E first \in ranges, last \in Heights, v \in BOOLEAN :
                /\ first <= last /\ last < first + BatchSize /\ last <= run.tip
                /\ first..last \subseteq ranges
                /\ pc' = "scan"
                /\ run' = [new EXCEPT !.first = first, !.last = last,
                                      !.verify = v]
    /\ UNCHANGED <<store, meta, legacy, exit, attempt>>

RewindsUsed == IF run.verify THEN run.ver ELSE run.main

\* Mutant: rewinds are not counted.
ScanRewindUncounted(a) ==
    /\ RewindTo(a, run.tip)
    /\ pc' = "loop"
    /\ run' = [run EXCEPT !.first = 0, !.last = 0, !.verify = FALSE]
    /\ UNCHANGED attempt

\* The rewind of a scan that does not connect: from the budget of its phase,
\* to a checkpoint at or below the requested height or, when there is none
\* that low, to the safe height the library reports.
ScanRewind(a) ==
    IF RewindsUsed >= MaxRewinds
    THEN Fails(FALSE)
    ELSE /\ RewindTo(a, run.tip)
         /\ pc' = "loop"
         /\ run' = [run EXCEPT !.first = 0, !.last = 0, !.verify = FALSE,
                      !.ver = IF run.verify THEN @ + 1 ELSE @,
                      !.main = IF run.verify THEN @ ELSE @ + 1]
         /\ UNCHANGED attempt

\* Mutant: the block before the conflict is kept.
JustBelow(at, distance) == at - 1

Below(at, distance) == IF at > distance THEN at - distance ELSE 0

Lowest(hs) == {h \in hs : \A k \in hs : h <= k}

\* Download the batch and scan it.  The batch is written whole or not at all.
ScanBatch(f) ==
    /\ pc = "scan"
    /\ LET bad == Conflicts(run.first, run.last, f)
           batch == run.first..run.last
       IN  \/ ShouldExit /\ Leave /\ UNCHANGED store
           \/ /\ ~ShouldExit /\ bad = {}
              /\ blocks' = [h \in Heights |->
                                IF h \in batch THEN Block(h, f) ELSE blocks[h]]
              /\ queue' = queue \ batch
              /\ pc' = "post"
              /\ run' = [run EXCEPT !.first = 0, !.last = 0, !.verify = FALSE]
              /\ UNCHANGED <<dbTip, attempt>>
           \/ /\ ~ShouldExit /\ bad # {}
              /\ \E at \in Lowest(bad) :
                    \E a \in AtOrBelow(Below(at, RewindDistance)) : ScanRewind(a)
    /\ UNCHANGED <<meta, legacy, exit>>

\* Enhancement, then the tip is fetched again before pending transactions are
\* resubmitted.
PostBatch(t) ==
    /\ pc = "post"
    /\ Reconcile(t, "loop")
    /\ UNCHANGED <<meta, legacy, exit>>

\* The queue is empty: the tip is validated once more, unless that was done
\* less than FINAL_TIP_REFRESH_MIN_AGE ago.
DrainRecent ==
    /\ pc = "drain" /\ ~run.mustCheck
    /\ pc' = "vet"
    /\ UNCHANGED <<store, meta, legacy, exit, attempt, run>>

DrainRefresh(t) ==
    /\ pc = "drain"
    /\ Reconcile(t, IF Relation(run.tip, t) = "advanced" THEN "loop" ELSE "vet")
    /\ UNCHANGED <<meta, legacy, exit>>

\* No checkpoint is low enough: the rewind goes to the height the library
\* names instead, wherever that is.
ScanSafeHeight(f) ==
    /\ pc = "scan" /\ ~ShouldExit
    /\ \E at \in Lowest(Conflicts(run.first, run.last, f)) :
          \E a \in Below(at, RewindDistance)..dbTip : ScanRewind(a)
    /\ UNCHANGED <<meta, legacy, exit>>

\* The scan meets a conflicting commitment tree root: rewinds get longer.
ScanRootConflict ==
    /\ pc = "scan" /\ ~ShouldExit
    /\ LET to == IF RewindsUsed < MaxRewinds
                 THEN Below(run.first, TreeRewinds[RewindsUsed + 1]) ELSE 0
       IN  \E a \in AtOrBelow(to) : ScanRewind(a)
    /\ UNCHANGED <<meta, legacy, exit>>

\* check_witnesses finds damage: the range is queued again.
WitnessRepair ==
    /\ pc = "vet"
    /\ IF run.witness >= MaxWitness
       THEN Fails(TRUE)
       ELSE /\ \E first, last \in 1..run.tip :
                 first <= last /\ queue' = queue \cup (first..last)
            /\ pc' = "loop"
            /\ run' = [run EXCEPT !.witness = @ + 1]
            /\ UNCHANGED <<blocks, dbTip, attempt>>
    /\ UNCHANGED <<meta, legacy, exit>>

Anchor == dbTip - AnchorDepth

\* The roots at the anchor are those of fork f.
AnchorAgrees(f) == \A h \in 1..Anchor : blocks[h] = Block(h, f)

\* They are not: the wallet goes back to a chain state of the endpoint, deeper
\* when that one conflicts with a stored root.
AnchorRepair(f, pass) ==
    /\ pc = "vet" /\ ~AnchorAgrees(f)
    /\ IF pass > AnchorPasses
       THEN Fails(TRUE)
       ELSE /\ RewindTo(Below(Anchor, AnchorRewinds[pass]), run.tip)
            /\ pc' = "loop"
            /\ run' = [run EXCEPT !.anchor = pass]
            /\ UNCHANGED attempt
    /\ UNCHANGED <<meta, legacy, exit>>

\* ensure_complete_scan_state
Complete ==
    /\ queue = {} /\ dbTip = run.tip /\ FullyScanned
    /\ blocks[run.tip] # None

\* Mutant: the roots at the anchor are not compared.
VettedUnchecked(f) ==
    /\ pc = "vet"
    /\ \/ ShouldExit /\ Leave
       \/ ~ShouldExit /\ ~Complete /\ FailRun(FALSE)
       \/ ~ShouldExit /\ Complete /\ pc' = "finish" /\ UNCHANGED <<attempt, run>>
    /\ UNCHANGED <<store, meta, legacy, exit>>

\* Nothing to repair: outstanding data requests are served, then the loop ends.
Vetted(f) ==
    /\ pc = "vet" /\ AnchorAgrees(f)
    /\ \/ ShouldExit /\ Leave
       \/ ~ShouldExit /\ ~Complete /\ FailRun(FALSE)
       \/ ~ShouldExit /\ Complete /\ pc' = "finish" /\ UNCHANGED <<attempt, run>>
    /\ UNCHANGED <<store, meta, legacy, exit>>

Finish ==
    /\ pc = "finish"
    /\ IF Complete THEN pc' = "mark" /\ UNCHANGED <<attempt, run>>
                   ELSE FailRun(FALSE)
    /\ UNCHANGED <<store, meta, legacy, exit>>

MarkCompleted ==
    /\ pc = "mark"
    /\ policy' = TRUE /\ inProgress' = FALSE /\ completed' = run.tip
    /\ pc' = "deferred"
    /\ UNCHANGED <<store, legacy, exit, attempt, run>>

\* Transparent addresses of the other accounts; its errors are only logged.
DeferredRefresh ==
    /\ pc = "deferred"
    /\ Leave
    /\ UNCHANGED <<store, meta, legacy, exit>>

\* A call to an endpoint fails.  The tip refreshes of the loop go on with the
\* tip they have; every other call gives up the attempt.
NetworkFault ==
    /\ \/ /\ pc \in {"tip", "prep", "loop", "scan", "post", "drain", "vet"}
          /\ FailRun(FALSE)
       \/ /\ pc \in {"loop", "post"} /\ ~ShouldExit
          /\ pc' = IF pc = "loop" THEN "range" ELSE "loop"
          /\ run' = [run EXCEPT !.mustCheck = TRUE]
          /\ UNCHANGED attempt
    /\ UNCHANGED <<store, meta, legacy, exit>>

\* A rewind of this run took Ledger discovery with it: another attempt.
DiscoveryInvalidated ==
    /\ pc = "finish"
    /\ FailRun(FALSE)
    /\ UNCHANGED <<store, meta, legacy, exit>>

\* A rewind truncates and then updates the tip under another lock: an error
\* of the second, or the end of the process, leaves the wallet truncated.
RewindStops ==
    /\ pc \in {"tip", "loop", "scan", "post", "drain", "vet"}
    /\ \E a \in 0..dbTip : Truncate(a)
    /\ Leave
    /\ UNCHANGED <<meta, legacy, exit>>

DatabaseFault ==
    /\ pc \in Working
    /\ FailRun(TRUE)
    /\ UNCHANGED <<store, meta, legacy, exit>>
-----------------------------------------------------------------------------
(***************************************************************************)
(* Other callers: status, import, manual rewind.                           *)
(***************************************************************************)
\* A status call that finds no metadata takes a fully scanned wallet of an
\* earlier version for a completed one ...
ReadLegacyStatus ==
    /\ ~policy /\ legacy = None
    /\ legacy' = IF dbTip > 0 /\ FullyScanned THEN dbTip ELSE 0
    /\ UNCHANGED <<store, meta, pc, exit, attempt, run>>

\* ... and writes that down, unless a run has written metadata since.
InitializePolicy ==
    /\ legacy # None
    /\ IF policy THEN UNCHANGED meta
       ELSE /\ policy' = TRUE
            /\ completed' = IF legacy > 0 THEN legacy ELSE completed
            /\ UNCHANGED inProgress
    /\ legacy' = None
    /\ UNCHANGED <<store, pc, exit, attempt, run>>

\* Importing an account with an old birthday queues history again.
ImportAccount ==
    /\ \E birthday \in 1..dbTip : queue' = queue \cup (birthday..dbTip)
    /\ UNCHANGED <<blocks, dbTip, meta, legacy, pc, exit, attempt, run>>

RewindToHeight ==
    /\ pc = "idle"
    /\ \E a \in 0..dbTip : ScannedAbove(blocks, a) /\ Truncate(a)
    /\ UNCHANGED <<meta, legacy, pc, exit, attempt, run>>
-----------------------------------------------------------------------------
\* Steps of the run that are answered with tip t and blocks of fork f.
Engine(t, f) ==
    \/ ClearCancel \/ BeginAttempt \/ Backoff \/ InitialTip(t) \/ Prepare
    \/ LoopTop \/ PeriodicRefresh(t) \/ SelectRange \/ ScanBatch(f)
    \/ PostBatch(t) \/ DrainRecent \/ DrainRefresh(t)
    \/ AnchorRepair(f, run.anchor + 1) \/ Vetted(f) \/ Finish
    \/ MarkCompleted \/ DeferredRefresh

\* Endpoints answer from whatever chain they follow.
Run == \E t \in Tips, f \in Forks : Engine(t, f)

Fault ==
    \/ \E f \in Forks : ScanSafeHeight(f)
    \/ ScanRootConflict \/ WitnessRepair
    \/ \E f \in Forks, pass \in (run.anchor + 1)..(AnchorPasses + 1) :
          AnchorRepair(f, pass)
    \/ NetworkFault \/ DiscoveryInvalidated \/ RewindStops
    \/ DatabaseFault \/ Crash

User ==
    \/ CancelFullSync \/ BeginShutdown \/ ReadLegacyStatus \/ InitializePolicy
    \/ RewindToHeight

Next == StartFullSync \/ Run \/ Fault \/ User \/ ImportAccount

\* A process that was shut down ends.
EndProcess == exit = "shutdown" /\ Crash

\* The executor runs the steps of the session, and the app starts a run again
\* when none is running.
Fairness ==
    /\ WF_vars(StartFullSync)
    /\ WF_vars(Run)
    /\ WF_vars(EndProcess)

Spec == Init /\ [][Next]_vars

FairSpec == Spec /\ Fairness
-----------------------------------------------------------------------------
\* get_sync_progress reports the wallet as synced.
StatusComplete ==
    /\ policy /\ ~inProgress
    /\ dbTip > 0 /\ FullyScanned /\ completed = dbTip

\* The blocks up to height a are those of one chain.
OneFork(a) == \E f \in Forks : \A h \in 1..a : blocks[h] = Block(h, f)

\* While a wallet is reported as synced, everything below the anchor that its
\* spends are built on was scanned from one and the same chain, whichever
\* endpoints answered and however often the run was rewound, cancelled,
\* crashed or retried.
StatusOneFork == StatusComplete => OneFork(Anchor)

\* No height below the tip is lost: after any sequence of truncations, tip
\* updates and batches it is either stored or still queued.
NoHeightLost == \A h \in 1..dbTip : blocks[h] # None \/ h \in queue

\* What makes these two inductive.  Blocks are stored up to the tip only, and
\* the run's own tip and batch lie within it.
StoreOK ==
    /\ NoHeightLost
    /\ \A h \in Heights : h > dbTip => blocks[h] = None
    /\ pc \in Working \ {"tip"} => run.tip <= dbTip
    /\ pc = "scan" => run.first \in 1..run.last /\ run.last <= run.tip

\* Work is recorded as in progress, ranges kept from a rewind are still
\* queued, and a run about to complete has vetted what it stores.
SessionOK ==
    /\ pc \in Working \cup {"backoff"} => policy /\ inProgress
    /\ run.kept => pc \in {"prep", "loop", "range"} /\ run.queued \subseteq queue
    /\ pc = "finish" => queue # {} \/ OneFork(Anchor)
    /\ pc = "mark" => run.tip = dbTip /\ OneFork(Anchor)

\* A height recorded as completed is the tip as it was vetted, or the wallet
\* has been rewound below it since.  Before there is metadata, the blocks are
\* those an earlier version left.
Vouched(height) ==
    height > 0 => dbTip < height \/ (dbTip = height /\ OneFork(Anchor))

CompletionOK ==
    /\ policy /\ ~inProgress => Vouched(completed)
    /\ ~policy =>
         /\ ~inProgress /\ completed = 0 /\ dbTip <= ForkPoint
         /\ \A h \in Heights : blocks[h] \in {Common, None}
         /\ legacy # None => Vouched(legacy)

SyncInv == StoreOK /\ SessionOK /\ CompletionOK

\* A run ends, whatever the endpoints answer and whatever fails: rewinds,
\* repairs and retries are bounded.  Importing accounts forever would not.
Terminates == <>[][~ImportAccount]_vars => []<>(pc = "idle")

Loop == {"loop", "range", "scan", "post", "drain", "vet"}

\* Parts of an attempt, each left once: start, tip, preparation, the scan loop,
\* its end.
Part(p) ==
    CASE p \in Loop -> 4
      [] p \in {"idle", "claimed", "backoff"} -> 0
      [] p = "attempt" -> 1 [] p = "tip" -> 2 [] p = "prep" -> 3
      [] p = "finish" -> 5 [] p = "mark" -> 6 [] p = "deferred" -> 7

\* Rewinds and repairs the attempt has paid for.
Spent == run.main + run.ver + run.witness + run.anchor

\* Steps of one pass of the scan loop.
PassStep(p) ==
    CASE p = "loop" -> 1 [] p = "range" -> 2 [] p \in {"scan", "drain"} -> 3
      [] p = "vet" -> 4 [] OTHER -> 0

\* One step nearer to the end of the run: the first of these measures that
\* changes moves towards its bound.
Advances ==
    \/ pc' = "idle" \/ attempt' > attempt
    \/ /\ attempt' = attempt
       /\ \/ Part(pc') > Part(pc)
          \/ /\ Part(pc') = Part(pc)
             /\ \/ Spent' > Spent
                \/ /\ Spent' = Spent
                   /\ \/ run'.tip > run.tip
                      \/ /\ run'.tip = run.tip
                         /\ \/ queue' \subseteq queue /\ queue' # queue
                            \/ queue' = queue /\ PassStep(pc') > PassStep(pc)

\* Every step of a run pays for itself: a rewind or repair from its budget, a
\* new pass over the loop by a higher tip or a queue that lost heights.  What
\* the app does meanwhile leaves the measures alone, importing apart.
RunAdvances == [][pc # "idle" => Advances \/ User \/ ImportAccount]_vars

\* Steps taken while endpoints agree on tip t and nothing fails.
Calm(t) == StartFullSync \/ Engine(t, t.fork) \/ EndProcess

\* Once the endpoints agree on a chain of full height, runs started again and
\* again report the wallet as synced, whatever state earlier runs left it in.
Converges == \A f \in Forks :
    <>[][Calm([height |-> MaxHeight, fork |-> f])]_vars => []<>StatusComplete
=============================================================================
