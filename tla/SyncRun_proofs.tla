--------------------------- MODULE SyncRun_proofs ---------------------------
(***************************************************************************)
(* SyncRun for any number of forks, heights, rewinds and retries: its type,*)
(* that no height below the tip is lost, that a wallet reported as synced  *)
(* was scanned from one chain up to its anchor, that every step of a run   *)
(* brings it nearer to its end, and that endpoints which agree with the    *)
(* wallet make it rewind nothing.                                          *)
(***************************************************************************)
EXTENDS SyncRun, TLAPS

USE DEF Heights, Blocks

LEMMA NoRunTyped == NoRun \in Runs
  BY SyncAssumption DEF NoRun, Runs

LEMMA RunFields ==
  ASSUME NEW r \in Runs
  PROVE  /\ r.tip \in 0..MaxHeight /\ r.queued \in SUBSET Heights
         /\ r.first \in 0..MaxHeight /\ r.last \in 0..MaxHeight
         /\ r.verify \in BOOLEAN /\ r.kept \in BOOLEAN
         /\ r.main \in 0..MaxRewinds /\ r.ver \in 0..MaxRewinds
         /\ r.witness \in 0..MaxWitness /\ r.anchor \in 0..AnchorPasses
  BY DEF Runs

LEMMA BlockTyped == \A h \in Int, f \in Forks : Block(h, f) \in Blocks
  BY DEF Block

\* A tip update keeps the types of queue and tip.
LEMMA UpdateTyped ==
  ASSUME NEW bs, NEW q \in SUBSET Heights, NEW t \in 0..MaxHeight,
         NEW h \in 0..MaxHeight
  PROVE  /\ UpdatedQueue(bs, q, h) \in SUBSET Heights
         /\ UpdatedTip(bs, t, h) \in 0..MaxHeight
  <1>1. UpdatedQueue(bs, q, h) \in SUBSET Heights
    <2>1. \A k \in 1..h : k \in Heights
      BY SyncAssumption
    <2>2. {k \in 1..h : bs[k] = None /\ ~ScannedAbove(bs, k)} \subseteq 1..h
      OBVIOUS
    <2> QED BY <2>1, <2>2, Zenon DEF UpdatedQueue
  <1>2. UpdatedTip(bs, t, h) \in 0..MaxHeight
    BY SyncAssumption DEF UpdatedTip, ScannedAbove
  <1> QED BY <1>1, <1>2

LEMMA TruncatedTyped ==
  ASSUME TypeOK, NEW a
  PROVE  Truncated(a) \in [Heights -> Blocks \cup {None}]
  BY DEF TypeOK, Truncated

\* Truncation and rewind keep the type of the stored part.
StoreTyped == /\ blocks \in [Heights -> Blocks \cup {None}]
              /\ queue \in SUBSET Heights /\ dbTip \in 0..MaxHeight

LEMMA TruncateTyped ==
  ASSUME TypeOK, NEW a \in Nat, Truncate(a)
  PROVE  StoreTyped'
  BY SyncAssumption, TruncatedTyped DEF TypeOK, Truncate, StoreTyped

LEMMA RewindTyped ==
  ASSUME TypeOK, NEW a \in Nat, NEW h \in 0..MaxHeight, RewindTo(a, h)
  PROVE  StoreTyped'
  <1>1. blocks' \in [Heights -> Blocks \cup {None}]
    BY TruncatedTyped DEF RewindTo
  <1>2. queue \cap (1..a) \in SUBSET Heights
    BY DEF TypeOK
  <1>3. (IF a < dbTip THEN a ELSE dbTip) \in 0..MaxHeight
    BY SyncAssumption DEF TypeOK
  <1>4. queue' \in SUBSET Heights /\ dbTip' \in 0..MaxHeight
    BY <1>2, <1>3, UpdateTyped DEF RewindTo
  <1> QED BY <1>1, <1>4 DEF StoreTyped

LEMMA UpdateTipTyped ==
  ASSUME TypeOK, NEW h \in 0..MaxHeight, UpdateChainTip(h)
  PROVE  StoreTyped'
  BY UpdateTyped DEF TypeOK, UpdateChainTip, StoreTyped

\* Kept types of what a step leaves alone.
LEMMA StoreKept == TypeOK /\ UNCHANGED store => StoreTyped'
  BY DEF TypeOK, store, StoreTyped

MetaTyped == policy \in BOOLEAN /\ inProgress \in BOOLEAN
             /\ completed \in 0..MaxHeight
             /\ legacy \in 0..MaxHeight \cup {None}
RunTyped == /\ pc \in Working \cup {"idle", "claimed", "attempt", "backoff",
                                    "deferred"}
            /\ exit \in {"none", "cancel", "shutdown"}
            /\ attempt \in 0..MaxRetries /\ run \in Runs

LEMMA TypeParts ==
  /\ StoreTyped /\ MetaTyped /\ RunTyped => TypeOK
  /\ StoreTyped' /\ MetaTyped' /\ RunTyped' => TypeOK'
  BY DEF TypeOK, StoreTyped, MetaTyped, RunTyped

LEMMA MetaKept == TypeOK /\ UNCHANGED <<meta, legacy>> => MetaTyped'
  BY DEF TypeOK, meta, MetaTyped

LEMMA LeaveTyped == TypeOK /\ Leave /\ exit' \in {exit, "none"} => RunTyped'
  BY NoRunTyped, SyncAssumption DEF TypeOK, Leave, RunTyped

LEMMA FailRunTyped ==
  ASSUME TypeOK, NEW fatal, FailRun(fatal), exit' = exit
  PROVE  RunTyped'
  BY NoRunTyped, SyncAssumption DEF TypeOK, FailRun, RunTyped

\* The handling of a proved reorg.
LEMMA TipReorgTyped ==
  ASSUME TypeOK, NEW t \in Tips, NEW next \in Working, NEW new \in Runs,
         TipReorg(t, next, new), new.main = run.main, exit' = exit
  PROVE  StoreTyped' /\ RunTyped'
  <1>1. CASE run.main >= MaxRewinds
    BY <1>1, FailRunTyped, StoreKept DEF TipReorg, Fails
  <1>2. CASE ~(run.main >= MaxRewinds)
    <2>1. PICK a \in AtOrBelow(t.height - 1) :
            /\ RewindTo(a, t.height)
            /\ pc' = next
            /\ run' = [new EXCEPT !.tip = t.height, !.main = @ + 1,
                                  !.mustCheck = TRUE, !.kept = TRUE,
                                  !.queued = queue']
            /\ UNCHANGED attempt
      BY <1>2 DEF TipReorg
    <2>2. t.height \in 0..MaxHeight
      BY SyncAssumption DEF Tips
    <2>3. a \in Nat
      BY DEF AtOrBelow
    <2>4. StoreTyped'
      BY <2>1, <2>2, <2>3, RewindTyped
    <2>5. new.main + 1 \in 0..MaxRewinds
      <3>1. run \in Runs BY DEF TypeOK
      <3>2. run.main \in 0..MaxRewinds BY <3>1, RunFields
      <3> QED BY <1>2, <3>2, SyncAssumption
    <2>6. run' \in Runs
      BY <2>1, <2>2, <2>4, <2>5 DEF Runs, StoreTyped
    <2> QED BY <2>1, <2>4, <2>6 DEF TypeOK, RunTyped
  <1> QED BY <1>1, <1>2

LEMMA ReconcileTyped ==
  ASSUME TypeOK, NEW t \in Tips, NEW next \in Working, Reconcile(t, next),
         exit' = exit
  PROVE  StoreTyped' /\ RunTyped'
  <1> DEFINE relation == Relation(run.tip, t)
  <1>0. t.height \in 0..MaxHeight
    BY SyncAssumption DEF Tips
  <1>1. CASE ShouldExit /\ Leave /\ UNCHANGED store
    BY <1>1, LeaveTyped, StoreKept
  <1>2. CASE Fails(FALSE)
    BY <1>2, FailRunTyped, StoreKept DEF Fails
  <1>3. CASE TipReorg(t, "loop", run)
    <2>1. run \in Runs /\ "loop" \in Working BY DEF TypeOK, Working
    <2> QED BY <1>3, <2>1, TipReorgTyped
  <1>4. CASE /\ UpdateChainTip(t.height)
             /\ pc' = next
             /\ run' = [run EXCEPT !.tip = t.height, !.mustCheck = TRUE]
             /\ UNCHANGED attempt
    <2>1. run' \in Runs BY <1>0, <1>4 DEF TypeOK, Runs
    <2> QED BY <1>0, <1>4, <2>1, UpdateTipTyped DEF TypeOK, RunTyped
  <1>5. CASE /\ pc' = next
             /\ run' = [run EXCEPT !.mustCheck = relation = "unverified"]
             /\ UNCHANGED <<store, attempt>>
    <2>1. run' \in Runs BY <1>5 DEF TypeOK, Runs
    <2> QED BY <1>5, <2>1, StoreKept DEF TypeOK, RunTyped
  <1> QED BY <1>1, <1>2, <1>3, <1>4, <1>5 DEF Reconcile

LEMMA ScanRewindTyped ==
  ASSUME TypeOK, NEW a \in Nat, ScanRewind(a), exit' = exit
  PROVE  StoreTyped' /\ RunTyped'
  <1>r. run \in Runs BY DEF TypeOK
  <1>0. run.tip \in 0..MaxHeight BY <1>r, RunFields
  <1>1. CASE RewindsUsed >= MaxRewinds
    BY <1>1, FailRunTyped, StoreKept DEF ScanRewind, Fails
  <1>2. CASE ~(RewindsUsed >= MaxRewinds)
    <2>1. /\ RewindTo(a, run.tip)
          /\ pc' = "loop"
          /\ run' = [run EXCEPT !.first = 0, !.last = 0, !.verify = FALSE,
                       !.ver = IF run.verify THEN @ + 1 ELSE @,
                       !.main = IF run.verify THEN @ ELSE @ + 1]
          /\ UNCHANGED attempt
      BY <1>2 DEF ScanRewind
    <2>2. /\ (IF run.verify THEN run.ver + 1 ELSE run.ver) \in 0..MaxRewinds
          /\ (IF run.verify THEN run.main ELSE run.main + 1) \in 0..MaxRewinds
      <3>1. /\ run.main \in 0..MaxRewinds /\ run.ver \in 0..MaxRewinds
            /\ run.verify \in BOOLEAN
        BY <1>r, RunFields
      <3> QED BY <1>2, <3>1, SyncAssumption DEF RewindsUsed
    <2>3. run' \in Runs
      <3>1. run' = [run EXCEPT !.first = 0, !.last = 0, !.verify = FALSE,
                       !.ver = IF run.verify THEN run.ver + 1 ELSE run.ver,
                       !.main = IF run.verify THEN run.main ELSE run.main + 1]
        BY <2>1
      <3>2. 0 \in 0..MaxHeight BY SyncAssumption
      <3> HIDE <2>1
      <3> QED BY <1>r, <2>2, <3>1, <3>2 DEF Runs
    <2>4. StoreTyped' BY <1>0, <2>1, RewindTyped
    <2> QED BY <2>1, <2>3, <2>4 DEF TypeOK, RunTyped, Working
  <1> QED BY <1>1, <1>2
LEMMA BelowAnchor ==
  ASSUME TypeOK, NEW pass \in 1..AnchorPasses
  PROVE  Below(Anchor, AnchorRewinds[pass]) \in Nat
  <1>1. AnchorRewinds[pass] \in Nat BY SyncAssumption
  <1>2. Anchor \in Int BY SyncAssumption DEF TypeOK, Anchor
  <1> QED BY <1>1, <1>2 DEF Below

LEMMA AnchorRepairTyped ==
  ASSUME TypeOK, NEW f \in Forks, NEW pass \in Nat \ {0}, AnchorRepair(f, pass)
  PROVE  StoreTyped' /\ RunTyped' /\ UNCHANGED <<meta, legacy>>
  <1>r. run \in Runs BY DEF TypeOK
  <1>0. run.tip \in 0..MaxHeight BY <1>r, RunFields
  <1>m. UNCHANGED <<meta, legacy>> /\ exit' = exit BY DEF AnchorRepair
  <1>1. CASE Fails(TRUE)
    BY <1>1, <1>m, FailRunTyped, StoreKept DEF Fails
  <1>2. CASE /\ pass \in 1..AnchorPasses
             /\ RewindTo(Below(Anchor, AnchorRewinds[pass]), run.tip)
             /\ pc' = "loop"
             /\ run' = [run EXCEPT !.anchor = pass]
             /\ UNCHANGED attempt
    <2>1. run' \in Runs BY <1>r, <1>2 DEF Runs
    <2>2. RunTyped' BY <1>2, <1>m, <2>1 DEF TypeOK, RunTyped, Working
    <2>3. Below(Anchor, AnchorRewinds[pass]) \in Nat
      BY BelowAnchor, <1>2
    <2> QED BY <1>0, <1>2, <1>m, <2>2, <2>3, RewindTyped
  <1>3. pass > AnchorPasses \/ pass \in 1..AnchorPasses BY SyncAssumption
  <1>4. ~(pass > AnchorPasses) \/ ~(pass \in 1..AnchorPasses) BY SyncAssumption
  <1> QED BY <1>1, <1>2, <1>3, <1>4 DEF AnchorRepair
-----------------------------------------------------------------------------
LEMMA InitTyped == Init => TypeOK
  <1> SUFFICES ASSUME Init PROVE TypeOK OBVIOUS
  <1>1. StoreTyped
    BY SyncAssumption DEF Init, StoreTyped
  <1>2. MetaTyped
    <2>1. 0 \in 0..MaxHeight BY SyncAssumption
    <2> QED BY <2>1, Zenon DEF Init, MetaTyped
  <1>3. RunTyped
    BY NoRunTyped, SyncAssumption DEF Init, RunTyped
  <1> QED BY <1>1, <1>2, <1>3, TypeParts

\* Steps of the attempt.
LEMMA EngineTyped ==
  ASSUME TypeOK, NEW t \in Tips, NEW f \in Forks, Engine(t, f)
  PROVE  TypeOK'
  <1>r. /\ run \in Runs /\ attempt \in 0..MaxRetries /\ dbTip \in 0..MaxHeight
        /\ exit \in {"none", "cancel", "shutdown"} /\ queue \in SUBSET Heights
        /\ blocks \in [Heights -> Blocks \cup {None}]
    BY DEF TypeOK
  <1>t. t.height \in 0..MaxHeight BY SyncAssumption DEF Tips
  <1>m. CASE UNCHANGED <<meta, legacy>> /\ StoreTyped' /\ RunTyped'
    BY <1>m, MetaKept, TypeParts
  <1>1. CASE ClearCancel
    <2>1. RunTyped' BY <1>1, <1>r DEF ClearCancel, RunTyped
    <2> QED BY <1>1, <2>1, <1>m, StoreKept DEF ClearCancel
  <1>2. CASE BeginAttempt
    <2>1. StoreTyped' BY <1>2, StoreKept DEF BeginAttempt
    <2>2. RunTyped'
      <3>1. CASE Leave BY <1>2, <3>1, LeaveTyped DEF BeginAttempt
      <3>2. CASE pc' = "tip" /\ UNCHANGED <<attempt, run>>
        BY <1>2, <1>r, <3>2 DEF BeginAttempt, RunTyped, Working
      <3> QED BY <1>2, <3>1, <3>2 DEF BeginAttempt
    <2>3. MetaTyped' BY <1>2 DEF BeginAttempt, TypeOK, meta, MetaTyped
    <2> QED BY <2>1, <2>2, <2>3, TypeParts
  <1>3. CASE Backoff
    <2>1. RunTyped'
      <3>1. CASE ShouldExit BY <1>3, <3>1, LeaveTyped DEF Backoff
      <3>2. CASE ~ShouldExit
        BY <1>3, <1>r, <3>2 DEF Backoff, RunTyped
      <3> QED BY <3>1, <3>2
    <2> QED BY <1>3, <2>1, <1>m, StoreKept DEF Backoff
  <1>4. CASE InitialTip(t)
    <2> DEFINE relation == IF dbTip = 0 THEN "advanced" ELSE Relation(dbTip, t)
               new == [run EXCEPT !.tip = t.height,
                                  !.mustCheck = relation # "unchanged"]
    <2>0. new \in Runs /\ new.main = run.main
      <3>1. (relation # "unchanged") \in BOOLEAN OBVIOUS
      <3> HIDE DEF relation
      <3> QED BY <1>r, <1>t, <3>1 DEF Runs
    <2> HIDE DEF new
    <2>1. CASE Leave /\ UNCHANGED store
      BY <1>4, <2>1, LeaveTyped, StoreKept, <1>m DEF InitialTip
    <2>2. CASE Fails(FALSE)
      BY <1>4, <2>2, FailRunTyped, StoreKept, <1>m DEF InitialTip, Fails
    <2>3. CASE TipReorg(t, "prep", new)
      <3>1. "prep" \in Working BY DEF Working
      <3> QED BY <1>4, <2>0, <2>3, <3>1, TipReorgTyped, <1>m DEF InitialTip
    <2>4. CASE /\ UpdateChainTip(t.height)
               /\ pc' = "prep" /\ run' = new
               /\ UNCHANGED attempt
      <3>1. StoreTyped' BY <1>t, <2>4, UpdateTipTyped
      <3>2. RunTyped' BY <1>4, <1>r, <2>0, <2>4 DEF InitialTip, RunTyped, Working
      <3> QED BY <1>4, <3>1, <3>2, <1>m DEF InitialTip
    <2> QED BY <1>4, <2>1, <2>2, <2>3, <2>4 DEF InitialTip, new
  <1>5. CASE Prepare
    <2>1. RunTyped'
      <3>1. CASE Leave BY <1>5, <3>1, LeaveTyped DEF Prepare
      <3>2. CASE pc' = "loop" /\ run' = [run EXCEPT !.kept = TRUE, !.queued = queue]
                 /\ UNCHANGED attempt
        <4>1. run' \in Runs BY <3>2, <1>r DEF Runs
        <4> QED BY <1>5, <1>r, <3>2, <4>1 DEF Prepare, RunTyped, Working
      <3> QED BY <1>5, <3>1, <3>2 DEF Prepare
    <2> QED BY <1>5, <2>1, <1>m, StoreKept DEF Prepare
  <1>6. CASE LoopTop
    <2>1. RunTyped'
      <3>1. CASE Leave BY <1>6, <3>1, LeaveTyped DEF LoopTop
      <3>2. CASE pc' = "range" /\ UNCHANGED <<attempt, run>>
        BY <1>6, <1>r, <3>2 DEF LoopTop, RunTyped, Working
      <3> QED BY <1>6, <3>1, <3>2 DEF LoopTop
    <2> QED BY <1>6, <2>1, <1>m, StoreKept DEF LoopTop
  <1>7. CASE PeriodicRefresh(t)
    <2>1. "range" \in Working BY DEF Working
    <2> QED BY <1>7, <2>1, ReconcileTyped, <1>m DEF PeriodicRefresh
  <1>8. CASE SelectRange
    <2>1. RunTyped'
      <3> DEFINE ranges == IF run.kept THEN run.queued ELSE queue
                 new == [run EXCEPT !.kept = FALSE, !.queued = {}]
      <3>1. new \in Runs BY <1>r DEF Runs
      <3>2. ranges \in SUBSET Heights BY <1>r, RunFields
      <3> HIDE DEF new, ranges
      <3>3. CASE pc' \in {"drain", "finish"} /\ run' = new
        BY <1>8, <1>r, <3>1, <3>3 DEF SelectRange, RunTyped, Working
      <3>4. CASE \E first \in ranges, last \in Heights, v \in BOOLEAN :
                   /\ pc' = "scan"
                   /\ run' = [new EXCEPT !.first = first, !.last = last,
                                         !.verify = v]
        <4>1. PICK first \in ranges, last \in Heights, v \in BOOLEAN :
                   /\ pc' = "scan"
                   /\ run' = [new EXCEPT !.first = first, !.last = last,
                                         !.verify = v]
          BY <3>4
        <4>2. first \in 0..MaxHeight /\ last \in 0..MaxHeight
          BY <3>2, SyncAssumption
        <4>3. run' \in Runs BY <3>1, <4>1, <4>2 DEF Runs
        <4> QED BY <1>8, <1>r, <4>1, <4>3 DEF SelectRange, RunTyped, Working
      <3> QED BY <1>8, <3>3, <3>4 DEF SelectRange, new, ranges
    <2> QED BY <1>8, <2>1, <1>m, StoreKept DEF SelectRange
  <1>9. CASE ScanBatch(f)
    <2> DEFINE bad == Conflicts(run.first, run.last, f)
               batch == run.first..run.last
    <2>1. CASE ShouldExit /\ Leave /\ UNCHANGED store
      BY <1>9, <2>1, LeaveTyped, StoreKept, <1>m DEF ScanBatch
    <2>2. CASE /\ blocks' = [h \in Heights |->
                                IF h \in batch THEN Block(h, f) ELSE blocks[h]]
               /\ queue' = queue \ batch
               /\ pc' = "post"
               /\ run' = [run EXCEPT !.first = 0, !.last = 0, !.verify = FALSE]
               /\ UNCHANGED <<dbTip, attempt>>
      <3>0. 0 \in 0..MaxHeight BY SyncAssumption
      <3>1. run' \in Runs BY <1>r, <2>2, <3>0 DEF Runs
      <3>2. \A h \in Heights : Block(h, f) \in Blocks BY BlockTyped
      <3>3. StoreTyped' BY <1>r, <2>2, <3>2 DEF StoreTyped
      <3>4. RunTyped' BY <1>9, <1>r, <2>2, <3>1 DEF ScanBatch, RunTyped, Working
      <3> QED BY <1>9, <3>3, <3>4, <1>m DEF ScanBatch
    <2>3. CASE \E at \in Lowest(bad) :
                 \E a \in AtOrBelow(Below(at, RewindDistance)) : ScanRewind(a)
      <3>1. PICK a \in Nat : ScanRewind(a) BY <2>3 DEF AtOrBelow
      <3> QED BY <1>9, <3>1, ScanRewindTyped, <1>m DEF ScanBatch
    <2> QED BY <1>9, <2>1, <2>2, <2>3 DEF ScanBatch
  <1>10. CASE PostBatch(t)
    <2>1. "loop" \in Working BY DEF Working
    <2> QED BY <1>10, <2>1, ReconcileTyped, <1>m DEF PostBatch
  <1>11. CASE DrainRecent
    <2>1. RunTyped' BY <1>11, <1>r DEF DrainRecent, RunTyped, Working
    <2> QED BY <1>11, <2>1, <1>m, StoreKept DEF DrainRecent
  <1>12. CASE DrainRefresh(t)
    <2> DEFINE next == IF Relation(run.tip, t) = "advanced" THEN "loop" ELSE "vet"
    <2>1. next \in Working BY DEF Working
    <2> QED BY <1>12, <2>1, ReconcileTyped, <1>m DEF DrainRefresh
  <1>13. CASE AnchorRepair(f, run.anchor + 1)
    <2>1. run.anchor + 1 \in Nat \ {0} BY <1>r, RunFields, SyncAssumption
    <2> QED BY <1>13, <2>1, <1>m, AnchorRepairTyped
  <1>14. CASE Vetted(f)
    <2>1. RunTyped'
      <3>1. CASE Leave BY <1>14, <3>1, LeaveTyped DEF Vetted
      <3>2. CASE FailRun(FALSE) BY <1>14, <3>2, FailRunTyped DEF Vetted
      <3>3. CASE pc' = "finish" /\ UNCHANGED <<attempt, run>>
        BY <1>14, <1>r, <3>3 DEF Vetted, RunTyped, Working
      <3> QED BY <1>14, <3>1, <3>2, <3>3 DEF Vetted
    <2> QED BY <1>14, <2>1, <1>m, StoreKept DEF Vetted
  <1>15. CASE Finish
    <2>1. RunTyped'
      <3>1. CASE FailRun(FALSE) BY <1>15, <3>1, FailRunTyped DEF Finish
      <3>2. CASE pc' = "mark" /\ UNCHANGED <<attempt, run>>
        BY <1>15, <1>r, <3>2 DEF Finish, RunTyped, Working
      <3> QED BY <1>15, <3>1, <3>2 DEF Finish
    <2> QED BY <1>15, <2>1, <1>m, StoreKept DEF Finish
  <1>16. CASE MarkCompleted
    <2>1. StoreTyped' BY <1>16, StoreKept DEF MarkCompleted
    <2>2. RunTyped' BY <1>16, <1>r DEF MarkCompleted, RunTyped
    <2>3. MetaTyped' BY <1>16, <1>r, RunFields DEF MarkCompleted, TypeOK, MetaTyped
    <2> QED BY <2>1, <2>2, <2>3, TypeParts
  <1>17. CASE DeferredRefresh
    BY <1>17, <1>m, StoreKept, LeaveTyped DEF DeferredRefresh
  <1> QED BY <1>1, <1>2, <1>3, <1>4, <1>5, <1>6, <1>7, <1>8, <1>9, <1>10, <1>11,
             <1>12, <1>13, <1>14, <1>15, <1>16, <1>17 DEF Engine

\* Failures, and what other callers do.
LEMMA OthersTyped ==
  ASSUME TypeOK, StartFullSync \/ Fault \/ User \/ ImportAccount
  PROVE  TypeOK'
  <1>r. /\ run \in Runs /\ attempt \in 0..MaxRetries /\ dbTip \in 0..MaxHeight
        /\ exit \in {"none", "cancel", "shutdown"} /\ queue \in SUBSET Heights
        /\ pc \in Working \cup {"idle", "claimed", "attempt", "backoff",
                               "deferred"}
    BY DEF TypeOK
  <1>m. CASE UNCHANGED <<meta, legacy>> /\ StoreTyped' /\ RunTyped'
    BY <1>m, MetaKept, TypeParts
  <1>1. CASE StartFullSync
    <2>1. RunTyped' BY <1>1, <1>r DEF StartFullSync, RunTyped
    <2> QED BY <1>1, <2>1, <1>m, StoreKept DEF StartFullSync
  <1>2. CASE \E f \in Forks : ScanSafeHeight(f)
    <2>1. PICK f \in Forks : ScanSafeHeight(f) BY <1>2
    <2>2. PICK at \in Lowest(Conflicts(run.first, run.last, f)) :
             \E a \in Below(at, RewindDistance)..dbTip : ScanRewind(a)
      BY <2>1 DEF ScanSafeHeight
    <2>3. PICK a \in Below(at, RewindDistance)..dbTip : ScanRewind(a)
      BY <2>2
    <2>4. at \in run.first..run.last BY <2>2 DEF Lowest, Conflicts
    <2>5. Below(at, RewindDistance) \in Nat
      <3>1. at \in Nat BY <1>r, <2>4, RunFields
      <3> QED BY <3>1, SyncAssumption DEF Below
    <2>6. a \in Nat BY <2>3, <2>5
    <2> QED BY <2>1, <2>3, <2>6, ScanRewindTyped, <1>m DEF ScanSafeHeight
  <1>3. CASE ScanRootConflict
    <2>1. PICK a \in Nat : ScanRewind(a)
      BY <1>3 DEF ScanRootConflict, AtOrBelow
    <2> QED BY <1>3, <2>1, ScanRewindTyped, <1>m DEF ScanRootConflict
  <1>4. CASE WitnessRepair
    <2>1. CASE Fails(TRUE)
      BY <1>4, <2>1, FailRunTyped, StoreKept, <1>m DEF WitnessRepair, Fails
    <2>2. CASE /\ run.witness < MaxWitness
               /\ \E first, last \in 1..run.tip :
                    first <= last /\ queue' = queue \cup (first..last)
               /\ pc' = "loop"
               /\ run' = [run EXCEPT !.witness = @ + 1]
               /\ UNCHANGED <<blocks, dbTip, attempt>>
      <3>1. run.tip \in 0..MaxHeight /\ run.witness \in 0..MaxWitness
        BY <1>r, RunFields
      <3>2. PICK first, last \in 1..run.tip : queue' = queue \cup (first..last)
        BY <2>2
      <3>3. queue' \in SUBSET Heights
        <4>1. queue \in SUBSET Heights BY DEF TypeOK
        <4>2. first..last \subseteq Heights BY <3>1, SyncAssumption DEF Heights
        <4> QED BY <3>2, <4>1, <4>2
      <3>4. StoreTyped' BY <2>2, <3>3 DEF TypeOK, StoreTyped
      <3>5. run.witness + 1 \in 0..MaxWitness BY <2>2, <3>1, SyncAssumption
      <3>6. run' \in Runs
        <4>1. run' = [run EXCEPT !.witness = run.witness + 1] BY <2>2
        <4> QED BY <1>r, <3>5, <4>1 DEF Runs
      <3>7. RunTyped' BY <1>4, <1>r, <2>2, <3>6 DEF WitnessRepair, RunTyped, Working
      <3> QED BY <1>4, <3>4, <3>7, <1>m DEF WitnessRepair
    <2>3. run.witness \in Int /\ MaxWitness \in Int
      BY <1>r, RunFields, SyncAssumption
    <2>4. run.witness < MaxWitness <=> ~(run.witness >= MaxWitness) BY <2>3
    <2> QED BY <1>4, <2>1, <2>2, <2>4, Zenon DEF WitnessRepair
  <1>5. CASE \E f \in Forks, pass \in (run.anchor + 1)..(AnchorPasses + 1) :
               AnchorRepair(f, pass)
    <2>1. PICK f \in Forks, pass \in (run.anchor + 1)..(AnchorPasses + 1) :
               AnchorRepair(f, pass)
      BY <1>5
    <2>2. pass \in Nat \ {0} BY <1>r, RunFields, SyncAssumption
    <2> QED BY <2>1, <2>2, AnchorRepairTyped, <1>m
  <1>6. CASE NetworkFault
    <2>1. CASE FailRun(FALSE)
      BY <1>6, <2>1, FailRunTyped, StoreKept, <1>m DEF NetworkFault
    <2>2. CASE /\ pc' = IF pc = "loop" THEN "range" ELSE "loop"
               /\ run' = [run EXCEPT !.mustCheck = TRUE]
               /\ UNCHANGED attempt
      <3>1. run' \in Runs BY <1>r, <2>2 DEF Runs
      <3>2. RunTyped' BY <1>6, <1>r, <2>2, <3>1 DEF NetworkFault, RunTyped, Working
      <3> QED BY <1>6, <3>2, <1>m, StoreKept DEF NetworkFault
    <2> QED BY <1>6, <2>1, <2>2 DEF NetworkFault
  <1>7. CASE DiscoveryInvalidated
    BY <1>7, FailRunTyped, StoreKept, <1>m DEF DiscoveryInvalidated
  <1>8. CASE RewindStops
    <2>1. PICK a \in 0..dbTip : Truncate(a) BY <1>8 DEF RewindStops
    <2>2. a \in Nat BY <1>r
    <2> QED BY <1>8, <2>1, <2>2, TruncateTyped, LeaveTyped, <1>m DEF RewindStops
  <1>9. CASE DatabaseFault
    BY <1>9, FailRunTyped, StoreKept, <1>m DEF DatabaseFault
  <1>10. CASE Crash
    <2>1. StoreTyped' /\ RunTyped'
      BY <1>10, StoreKept, LeaveTyped DEF Crash
    <2>2. MetaTyped' BY <1>10 DEF Crash, TypeOK, meta, MetaTyped
    <2> QED BY <2>1, <2>2, TypeParts
  <1>11. CASE CancelFullSync \/ BeginShutdown
    <2>1. RunTyped' BY <1>11, <1>r DEF CancelFullSync, BeginShutdown, RunTyped
    <2> QED BY <1>11, <2>1, <1>m, StoreKept DEF CancelFullSync, BeginShutdown
  <1>12. CASE ReadLegacyStatus
    <2>1. StoreTyped' BY <1>12, StoreKept DEF ReadLegacyStatus
    <2>2. RunTyped' BY <1>12, <1>r DEF ReadLegacyStatus, RunTyped
    <2>3. (IF dbTip > 0 /\ FullyScanned THEN dbTip ELSE 0) \in 0..MaxHeight
      BY <1>r, SyncAssumption DEF FullyScanned
    <2>4. MetaTyped' BY <1>12, <2>3 DEF ReadLegacyStatus, TypeOK, meta, MetaTyped
    <2> QED BY <2>1, <2>2, <2>4, TypeParts
  <1>13. CASE InitializePolicy
    <2>1. StoreTyped' BY <1>13, StoreKept DEF InitializePolicy
    <2>2. RunTyped' BY <1>13, <1>r DEF InitializePolicy, RunTyped
    <2>3. MetaTyped' BY <1>13 DEF InitializePolicy, TypeOK, meta, MetaTyped
    <2> QED BY <2>1, <2>2, <2>3, TypeParts
  <1>14. CASE RewindToHeight
    <2>1. PICK a \in 0..dbTip : Truncate(a) BY <1>14 DEF RewindToHeight
    <2>2. a \in Nat BY <1>r
    <2>3. RunTyped' BY <1>14, <1>r DEF RewindToHeight, RunTyped
    <2> QED BY <1>14, <2>1, <2>2, <2>3, TruncateTyped, <1>m DEF RewindToHeight
  <1>15. CASE ImportAccount
    <2>1. PICK birthday \in 1..dbTip : queue' = queue \cup (birthday..dbTip)
      BY <1>15 DEF ImportAccount
    <2>2. queue' \in SUBSET Heights BY <1>r, <2>1, SyncAssumption
    <2>3. StoreTyped' BY <1>15, <2>2 DEF ImportAccount, TypeOK, StoreTyped
    <2>4. RunTyped' BY <1>15, <1>r DEF ImportAccount, RunTyped
    <2> QED BY <1>15, <2>3, <2>4, <1>m DEF ImportAccount
  <1> QED BY <1>1, <1>2, <1>3, <1>4, <1>5, <1>6, <1>7, <1>8, <1>9, <1>10, <1>11,
             <1>12, <1>13, <1>14, <1>15 DEF Fault, User

\* The state of a sync run keeps its type: rewinds, repairs and retries stay
\* within their budgets and heights within the chain.
THEOREM SyncTyped == Spec => []TypeOK
  <1>1. TypeOK /\ [Next]_vars => TypeOK'
    <2>1. CASE Run BY <2>1, EngineTyped DEF Run
    <2>2. CASE StartFullSync \/ Fault \/ User \/ ImportAccount
      BY <2>2, OthersTyped
    <2>3. ASSUME TypeOK, UNCHANGED vars PROVE TypeOK'
      BY <2>3 DEF vars, TypeOK
    <2> QED BY <2>1, <2>2, <2>3 DEF Next
  <1> QED BY <1>1, InitTyped, PTL DEF Spec
-----------------------------------------------------------------------------
(***************************************************************************)
(* The stored part, under truncation and tip updates.                      *)
(***************************************************************************)
Covered(bs, q, t) == /\ \A h \in 1..t : bs[h] # None \/ h \in q
                     /\ \A h \in Heights : h > t => bs[h] = None

LEMMA UpdateCovers ==
  ASSUME NEW bs, NEW q, NEW t \in 0..MaxHeight, NEW h \in 0..MaxHeight,
         Covered(bs, q, t)
  PROVE  /\ Covered(bs, UpdatedQueue(bs, q, h), UpdatedTip(bs, t, h))
         /\ h <= UpdatedTip(bs, t, h)
  <1> DEFINE qq == UpdatedQueue(bs, q, h)
             tt == UpdatedTip(bs, t, h)
  <1>0. MaxHeight \in Nat BY SyncAssumption
  <1>1. CASE h < t \/ ScannedAbove(bs, h)
    <2>1. tt = t BY <1>1 DEF UpdatedTip
    <2>2. h <= t BY <1>0, <1>1 DEF ScannedAbove, Covered
    <2>3. q \subseteq qq BY DEF UpdatedQueue
    <2>4. Covered(bs, qq, t) BY <2>3 DEF Covered
    <2> QED BY <2>1, <2>2, <2>4
  <1>2. CASE ~(h < t \/ ScannedAbove(bs, h))
    <2>1. tt = h BY <1>2 DEF UpdatedTip
    <2>2. \A k \in Heights : k > h => bs[k] = None
      BY <1>2 DEF ScannedAbove
    <2>3. ASSUME NEW k \in 1..h, bs[k] = None PROVE k \in qq
      <3>1. CASE k <= t BY <1>0, <2>3, <3>1 DEF Covered, UpdatedQueue
      <3>2. CASE ~(k <= t)
        <4>1. ~ScannedAbove(bs, k)
          BY <1>0, <3>2, <2>3 DEF Covered, ScannedAbove
        <4> QED BY <2>3, <4>1 DEF UpdatedQueue
      <3> QED BY <3>1, <3>2
    <2>4. Covered(bs, qq, h)
      <3> HIDE DEF qq
      <3> QED BY <2>2, <2>3 DEF Covered
    <2> QED BY <1>0, <2>1, <2>4
  <1> QED BY <1>1, <1>2

LEMMA TruncationCovers ==
  ASSUME TypeOK, NEW a \in Nat, Covered(blocks, queue, dbTip)
  PROVE  Covered(Truncated(a), queue \cap (1..a),
                 IF a < dbTip THEN a ELSE dbTip)
  <1>0. MaxHeight \in Nat /\ dbTip \in 0..MaxHeight
    BY SyncAssumption DEF TypeOK
  <1> QED BY <1>0 DEF Covered, Truncated

\* What every step of the store keeps.
Sound == Covered(blocks, queue, dbTip)

LEMMA TruncateSound ==
  ASSUME TypeOK, Sound, NEW a \in Nat, Truncate(a)
  PROVE  Sound'
  BY TruncationCovers DEF Truncate, Sound

LEMMA RewindSound ==
  ASSUME TypeOK, Sound, NEW a \in Nat, NEW h \in 0..MaxHeight, RewindTo(a, h)
  PROVE  Sound' /\ h <= dbTip'
  <1> DEFINE t == IF a < dbTip THEN a ELSE dbTip
  <1>1. Covered(Truncated(a), queue \cap (1..a), t)
    BY TruncationCovers DEF Sound
  <1>2. t \in 0..MaxHeight BY SyncAssumption DEF TypeOK
  <1> HIDE DEF t
  <1>3. /\ Covered(Truncated(a), UpdatedQueue(Truncated(a), queue \cap (1..a), h),
                   UpdatedTip(Truncated(a), t, h))
        /\ h <= UpdatedTip(Truncated(a), t, h)
    BY <1>1, <1>2, UpdateCovers
  <1> QED BY <1>3 DEF RewindTo, Sound, t

LEMMA UpdateTipSound ==
  ASSUME TypeOK, Sound, NEW h \in 0..MaxHeight, UpdateChainTip(h)
  PROVE  Sound' /\ h <= dbTip' /\ queue \subseteq queue'
  <1>1. dbTip \in 0..MaxHeight BY DEF TypeOK
  <1>2. /\ Covered(blocks, UpdatedQueue(blocks, queue, h),
                   UpdatedTip(blocks, dbTip, h))
        /\ h <= UpdatedTip(blocks, dbTip, h)
    BY <1>1, UpdateCovers DEF Sound
  <1>3. queue \subseteq UpdatedQueue(blocks, queue, h) BY DEF UpdatedQueue
  <1> QED BY <1>2, <1>3 DEF UpdateChainTip, Sound

LEMMA SoundKept == Sound /\ UNCHANGED store => Sound'
  BY DEF Sound, store
-----------------------------------------------------------------------------
(***************************************************************************)
(* The inductive invariant.                                                *)
(***************************************************************************)
LEMMA StoreParts ==
  /\ StoreOK => Sound
  /\ /\ Sound'
     /\ pc' \in Working \ {"tip"} => run'.tip <= dbTip'
     /\ pc' = "scan" => run'.first \in 1..run'.last /\ run'.last <= run'.tip
     => StoreOK'
  BY DEF StoreOK, Sound, Covered, NoHeightLost

\* While a run works, the metadata says so, and nothing is claimed.
LEMMA InSession ==
  ASSUME SyncInv, pc \in Working \cup {"backoff"}, UNCHANGED meta
  PROVE  policy' /\ inProgress' /\ CompletionOK'
  BY DEF SyncInv, SessionOK, CompletionOK, meta

\* A run that ends or waits claims nothing.
LEMMA EndedOK ==
  ASSUME Sound', run' = NoRun, pc' \in {"idle", "backoff"},
         pc' = "backoff" => policy' /\ inProgress'
  PROVE  StoreOK' /\ SessionOK'
  <1>1. StoreOK' BY StoreParts DEF Working
  <1>2. SessionOK' BY DEF SessionOK, Working, NoRun
  <1> QED BY <1>1, <1>2

LEMMA LeaveInv ==
  ASSUME SyncInv, Leave, Sound', CompletionOK'
  PROVE  SyncInv'
  BY EndedOK DEF Leave, SyncInv

LEMMA FailInv ==
  ASSUME SyncInv, pc \in Working, UNCHANGED meta, Sound',
         NEW fatal, FailRun(fatal)
  PROVE  SyncInv'
  <1>1. policy' /\ inProgress' /\ CompletionOK' BY InSession
  <1>2. run' = NoRun /\ pc' \in {"idle", "backoff"} BY DEF FailRun
  <1> QED BY <1>1, <1>2, EndedOK DEF SyncInv

\* The run goes on at one of the steps that claim nothing.
Onward == {"prep", "loop", "range", "post", "drain", "vet"}

LEMMA OnwardInv ==
  ASSUME SyncInv, pc \in Working, UNCHANGED meta, Sound',
         pc' \in Onward, run'.tip <= dbTip',
         run'.kept => pc' \in {"prep", "loop", "range"}
                      /\ run'.queued \subseteq queue'
  PROVE  SyncInv'
  <1>1. policy' /\ inProgress' /\ CompletionOK' BY InSession
  <1>2. StoreOK' BY StoreParts DEF Onward
  <1>3. SessionOK' BY <1>1 DEF SessionOK, Onward
  <1> QED BY <1>1, <1>2, <1>3 DEF SyncInv

LEMMA TipReorgInv ==
  ASSUME TypeOK, SyncInv, pc \in Working, UNCHANGED meta,
         NEW t \in Tips, NEW next \in {"prep", "loop"}, NEW new \in Runs,
         TipReorg(t, next, new)
  PROVE  SyncInv'
  <1>0. Sound BY StoreParts DEF SyncInv
  <1>1. CASE run.main >= MaxRewinds
    BY <1>0, <1>1, FailInv, SoundKept DEF TipReorg, Fails
  <1>2. CASE ~(run.main >= MaxRewinds)
    <2>1. PICK a \in AtOrBelow(t.height - 1) :
            /\ RewindTo(a, t.height)
            /\ pc' = next
            /\ run' = [new EXCEPT !.tip = t.height, !.main = @ + 1,
                                  !.mustCheck = TRUE, !.kept = TRUE,
                                  !.queued = queue']
      BY <1>2 DEF TipReorg
    <2>2. t.height \in 0..MaxHeight BY SyncAssumption DEF Tips
    <2>3. a \in Nat BY DEF AtOrBelow
    <2>4. Sound' /\ t.height <= dbTip' BY <1>0, <2>1, <2>2, <2>3, RewindSound
    <2>5. run'.tip = t.height /\ run'.queued = queue' BY <2>1 DEF Runs
    <2>6. pc' \in Onward /\ pc' \in {"prep", "loop", "range"} BY <2>1 DEF Onward
    <2> QED BY <2>4, <2>5, <2>6, OnwardInv
  <1> QED BY <1>1, <1>2

LEMMA ReconcileInv ==
  ASSUME TypeOK, SyncInv, pc \in Working \ {"tip"}, UNCHANGED meta,
         NEW t \in Tips, NEW next \in {"range", "loop", "vet"},
         run.kept => next \in {"loop", "range"}, Reconcile(t, next)
  PROVE  SyncInv'
  <1>0. Sound /\ run \in Runs /\ run.tip <= dbTip
    BY StoreParts DEF SyncInv, StoreOK, TypeOK
  <1>k. run.kept => run.queued \subseteq queue BY DEF SyncInv, SessionOK
  <1>n. next \in Onward BY DEF Onward
  <1>t. t.height \in 0..MaxHeight BY SyncAssumption DEF Tips
  <1>1. CASE Leave /\ UNCHANGED store
    BY <1>0, <1>1, LeaveInv, InSession, SoundKept
  <1>2. CASE Fails(FALSE)
    BY <1>0, <1>2, FailInv, SoundKept DEF Fails
  <1>3. CASE TipReorg(t, "loop", run)
    BY <1>0, <1>3, TipReorgInv
  <1>4. CASE /\ UpdateChainTip(t.height)
             /\ pc' = next
             /\ run' = [run EXCEPT !.tip = t.height, !.mustCheck = TRUE]
    <2>1. Sound' /\ t.height <= dbTip' /\ queue \subseteq queue'
      BY <1>0, <1>4, <1>t, UpdateTipSound
    <2>2. /\ run'.tip = t.height /\ run'.kept = run.kept
          /\ run'.queued = run.queued
      BY <1>0, <1>4 DEF Runs
    <2>3. run'.kept => pc' \in {"prep", "loop", "range"}
                       /\ run'.queued \subseteq queue'
      BY <1>4, <1>k, <2>1, <2>2
    <2> QED BY <1>4, <1>n, <2>1, <2>2, <2>3, OnwardInv
  <1>5. CASE /\ pc' = next
             /\ \E b \in BOOLEAN : run' = [run EXCEPT !.mustCheck = b]
             /\ UNCHANGED store
    <2>1. Sound' /\ dbTip' = dbTip /\ queue' = queue
      BY <1>0, <1>5, SoundKept DEF store
    <2>2. /\ run'.tip = run.tip /\ run'.kept = run.kept
          /\ run'.queued = run.queued
      BY <1>0, <1>5 DEF Runs
    <2>3. run'.kept => pc' \in {"prep", "loop", "range"}
                       /\ run'.queued \subseteq queue'
      BY <1>5, <1>k, <2>1, <2>2
    <2>4. run'.tip <= dbTip' BY <1>0, <2>1, <2>2
    <2> QED BY <1>5, <1>n, <2>1, <2>3, <2>4, OnwardInv
  <1> QED BY <1>1, <1>2, <1>3, <1>4, <1>5 DEF Reconcile

LEMMA ScanRewindInv ==
  ASSUME TypeOK, SyncInv, pc = "scan", UNCHANGED meta,
         NEW a \in Nat, ScanRewind(a)
  PROVE  SyncInv'
  <1>0. /\ Sound /\ run \in Runs /\ run.tip \in 0..MaxHeight /\ ~run.kept
        /\ pc \in Working
    BY StoreParts, RunFields DEF SyncInv, SessionOK, TypeOK, Working
  <1>1. CASE Fails(FALSE)
    BY <1>0, <1>1, FailInv, SoundKept DEF Fails
  <1>2. CASE /\ RewindTo(a, run.tip)
             /\ pc' = "loop"
             /\ run' = [run EXCEPT !.first = 0, !.last = 0, !.verify = FALSE,
                          !.ver = IF run.verify THEN @ + 1 ELSE @,
                          !.main = IF run.verify THEN @ ELSE @ + 1]
    <2>1. Sound' /\ run.tip <= dbTip' BY <1>0, <1>2, RewindSound
    <2>2. run'.tip = run.tip /\ ~run'.kept BY <1>0, <1>2 DEF Runs
    <2> QED BY <1>0, <1>2, <2>1, <2>2, OnwardInv DEF Onward
  <1> QED BY <1>1, <1>2 DEF ScanRewind

LEMMA AnchorRepairInv ==
  ASSUME TypeOK, SyncInv, NEW f \in Forks, NEW pass \in Nat \ {0},
         AnchorRepair(f, pass)
  PROVE  SyncInv'
  <1>0. /\ Sound /\ run \in Runs /\ run.tip \in 0..MaxHeight /\ ~run.kept
        /\ pc \in Working /\ UNCHANGED meta
    BY StoreParts, RunFields
    DEF SyncInv, SessionOK, TypeOK, Working, AnchorRepair
  <1>1. CASE Fails(TRUE)
    BY <1>0, <1>1, FailInv, SoundKept DEF Fails
  <1>2. CASE /\ pass \in 1..AnchorPasses
             /\ RewindTo(Below(Anchor, AnchorRewinds[pass]), run.tip)
             /\ pc' = "loop"
             /\ run' = [run EXCEPT !.anchor = pass]
    <2>1. Sound' /\ run.tip <= dbTip'
      BY <1>0, <1>2, BelowAnchor, RewindSound
    <2>2. run'.tip = run.tip /\ ~run'.kept BY <1>0, <1>2 DEF Runs
    <2> QED BY <1>0, <1>2, <2>1, <2>2, OnwardInv DEF Onward
  <1>3. pass > AnchorPasses \/ pass \in 1..AnchorPasses BY SyncAssumption
  <1>4. ~(pass > AnchorPasses) \/ ~(pass \in 1..AnchorPasses) BY SyncAssumption
  <1> QED BY <1>1, <1>2, <1>3, <1>4 DEF AnchorRepair

\* Claims survive a step that changes neither blocks, tip nor metadata.
LEMMA ClaimsKept ==
  ASSUME CompletionOK, UNCHANGED <<blocks, dbTip, meta>>,
         legacy' \in {legacy, None}
  PROVE  CompletionOK'
  BY DEF CompletionOK, Vouched, OneFork, Anchor, meta

LEMMA EngineInv ==
  ASSUME TypeOK, SyncInv, NEW t \in Tips, NEW f \in Forks, Engine(t, f)
  PROVE  SyncInv'
  <1>0. Sound /\ run \in Runs /\ dbTip \in 0..MaxHeight
    BY StoreParts DEF SyncInv, TypeOK
  <1>t. t.height \in 0..MaxHeight BY SyncAssumption DEF Tips
  <1>k. run.kept => pc \in {"prep", "loop", "range"} /\ run.queued \subseteq queue
    BY DEF SyncInv, SessionOK
  <1>c. CompletionOK BY DEF SyncInv
  <1>1. CASE ClearCancel
    <2>1. CompletionOK' BY <1>1, <1>c, ClaimsKept DEF ClearCancel, store
    <2>2. Sound' BY <1>0, <1>1, SoundKept DEF ClearCancel
    <2>3. StoreOK' BY <1>1, <2>2, StoreParts DEF ClearCancel, Working
    <2>4. SessionOK' BY <1>1, <1>k DEF ClearCancel, SessionOK, Working
    <2> QED BY <2>1, <2>3, <2>4 DEF SyncInv
  <1>2. CASE BeginAttempt
    <2>s. Sound' BY <1>0, <1>2, SoundKept DEF BeginAttempt
    <2>1. CASE Leave /\ UNCHANGED meta
      <3>1. CompletionOK' BY <1>2, <1>c, <2>1, ClaimsKept DEF BeginAttempt, store
      <3> QED BY <2>s, <2>1, <3>1, LeaveInv
    <2>2. CASE /\ policy' = TRUE /\ inProgress' = TRUE /\ pc' = "tip"
               /\ UNCHANGED run
      <3>1. CompletionOK' BY <2>2 DEF CompletionOK
      <3>2. StoreOK' BY <2>s, <2>2, StoreParts
      <3>3. SessionOK' BY <1>2, <1>k, <2>2 DEF BeginAttempt, SessionOK
      <3> QED BY <3>1, <3>2, <3>3 DEF SyncInv
    <2> QED BY <1>2, <2>1, <2>2 DEF BeginAttempt
  <1>3. CASE Backoff
    <2>s. Sound' BY <1>0, <1>3, SoundKept DEF Backoff
    <2>c. CompletionOK' BY <1>3, <1>c, ClaimsKept DEF Backoff, store
    <2>1. CASE Leave BY <2>s, <2>c, <2>1, LeaveInv
    <2>2. CASE pc' = "attempt" /\ UNCHANGED run
      <3>1. StoreOK' BY <2>s, <2>2, StoreParts DEF Working
      <3>2. SessionOK' BY <1>3, <1>k, <2>2 DEF Backoff, SessionOK, Working
      <3> QED BY <2>c, <3>1, <3>2 DEF SyncInv
    <2> QED BY <1>3, <2>1, <2>2 DEF Backoff
  <1>4. CASE InitialTip(t)
    <2> DEFINE relation == IF dbTip = 0 THEN "advanced" ELSE Relation(dbTip, t)
               new == [run EXCEPT !.tip = t.height,
                                  !.mustCheck = relation # "unchanged"]
    <2>w. pc \in Working /\ UNCHANGED meta /\ ~run.kept
      BY <1>4, <1>k DEF InitialTip, Working
    <2>0. new \in Runs /\ new.tip = t.height /\ new.kept = run.kept
      <3>1. (relation # "unchanged") \in BOOLEAN OBVIOUS
      <3> HIDE DEF relation
      <3> QED BY <1>0, <1>t, <3>1 DEF Runs
    <2> HIDE DEF new
    <2>1. CASE Leave /\ UNCHANGED store
      BY <1>0, <2>w, <2>1, LeaveInv, InSession, SoundKept
    <2>2. CASE Fails(FALSE)
      BY <1>0, <2>w, <2>2, FailInv, SoundKept DEF Fails
    <2>3. CASE TipReorg(t, "prep", new)
      BY <2>0, <2>w, <2>3, TipReorgInv
    <2>4. CASE /\ UpdateChainTip(t.height)
               /\ pc' = "prep" /\ run' = new
      <3>1. Sound' /\ t.height <= dbTip' BY <1>0, <1>t, <2>4, UpdateTipSound
      <3> QED BY <2>0, <2>w, <2>4, <3>1, OnwardInv DEF Onward
    <2> QED BY <1>4, <2>1, <2>2, <2>3, <2>4 DEF InitialTip, new
  <1>5. CASE Prepare
    <2>w. pc \in Working /\ UNCHANGED meta /\ run.tip <= dbTip
      BY <1>5 DEF Prepare, Working, SyncInv, StoreOK
    <2>s. Sound' /\ queue' = queue /\ dbTip' = dbTip
      BY <1>0, <1>5, SoundKept DEF Prepare, store
    <2>1. CASE Leave BY <2>w, <2>s, <2>1, LeaveInv, InSession
    <2>2. CASE pc' = "loop" /\ run' = [run EXCEPT !.kept = TRUE, !.queued = queue]
      <3>1. run'.tip = run.tip /\ run'.queued = queue BY <1>0, <2>2 DEF Runs
      <3> QED BY <2>w, <2>s, <2>2, <3>1, OnwardInv DEF Onward
    <2> QED BY <1>5, <2>1, <2>2 DEF Prepare
  <1>6. CASE LoopTop
    <2>w. pc \in Working /\ UNCHANGED meta /\ run.tip <= dbTip
      BY <1>6 DEF LoopTop, Working, SyncInv, StoreOK
    <2>s. Sound' /\ queue' = queue /\ dbTip' = dbTip
      BY <1>0, <1>6, SoundKept DEF LoopTop, store
    <2>1. CASE Leave BY <2>w, <2>s, <2>1, LeaveInv, InSession
    <2>2. CASE pc' = "range" /\ UNCHANGED run
      BY <1>k, <2>w, <2>s, <2>2, OnwardInv DEF Onward
    <2> QED BY <1>6, <2>1, <2>2 DEF LoopTop
  <1>7. CASE PeriodicRefresh(t)
    <2>1. pc \in Working \ {"tip"} /\ UNCHANGED meta /\ Reconcile(t, "range")
      BY <1>7 DEF PeriodicRefresh, Working
    <2> QED BY <2>1, ReconcileInv
  <1>8. CASE SelectRange
    <2> DEFINE ranges == IF run.kept THEN run.queued ELSE queue
               new == [run EXCEPT !.kept = FALSE, !.queued = {}]
    <2>w. /\ pc \in Working /\ UNCHANGED meta /\ run.tip <= dbTip
          /\ run.tip \in 0..MaxHeight
      BY <1>0, <1>8, RunFields DEF SelectRange, Working, SyncInv, StoreOK
    <2>s. Sound' /\ queue' = queue /\ dbTip' = dbTip
      BY <1>0, <1>8, SoundKept DEF SelectRange, store
    <2>i. policy' /\ inProgress' /\ CompletionOK' BY <2>w, InSession
    <2>n. new \in Runs /\ new.tip = run.tip /\ ~new.kept BY <1>0 DEF Runs
    <2>r. ranges \subseteq queue /\ ranges \subseteq Heights
      BY <1>k DEF TypeOK
    <2> HIDE DEF new, ranges
    <2>1. CASE pc' = "drain" /\ run' = new
      BY <2>w, <2>s, <2>n, <2>1, OnwardInv DEF Onward
    <2>2. CASE /\ \E first \in ranges : first > run.tip
               /\ pc' = "finish" /\ run' = new
      <3>1. queue' # {} BY <2>r, <2>s, <2>2
      <3>2. StoreOK' BY <2>w, <2>s, <2>n, <2>2, StoreParts
      <3>3. SessionOK' BY <2>i, <2>n, <2>2, <3>1 DEF SessionOK
      <3> QED BY <2>i, <3>2, <3>3 DEF SyncInv
    <2>3. CASE \E first \in ranges, last \in Heights, v \in BOOLEAN :
                 /\ first <= last /\ last <= run.tip
                 /\ pc' = "scan"
                 /\ run' = [new EXCEPT !.first = first, !.last = last,
                                       !.verify = v]
      <3>1. PICK first \in ranges, last \in Heights, v \in BOOLEAN :
                 /\ first <= last /\ last <= run.tip
                 /\ pc' = "scan"
                 /\ run' = [new EXCEPT !.first = first, !.last = last,
                                       !.verify = v]
        BY <2>3
      <3>2. /\ run'.tip = run.tip /\ ~run'.kept
            /\ run'.first = first /\ run'.last = last
        BY <2>n, <3>1 DEF Runs
      <3>3. first \in 1..last BY <2>r, <3>1, SyncAssumption
      <3>4. StoreOK' BY <2>w, <2>s, <3>1, <3>2, <3>3, StoreParts
      <3>5. SessionOK' BY <2>i, <3>1, <3>2 DEF SessionOK
      <3> QED BY <2>i, <3>4, <3>5 DEF SyncInv
    <2> QED BY <1>8, <2>1, <2>2, <2>3 DEF SelectRange, new, ranges
  <1>9. CASE ScanBatch(f)
    <2> DEFINE bad == Conflicts(run.first, run.last, f)
               batch == run.first..run.last
    <2>w. /\ pc = "scan" /\ pc \in Working /\ UNCHANGED meta
          /\ run.tip <= dbTip /\ ~run.kept
          /\ run.first \in 1..run.last /\ run.last <= run.tip
          /\ run.last \in 0..MaxHeight /\ run.tip \in 0..MaxHeight
      BY <1>0, <1>9, <1>k, RunFields DEF ScanBatch, Working, SyncInv, StoreOK
    <2>1. CASE Leave /\ UNCHANGED store
      BY <1>0, <2>w, <2>1, LeaveInv, InSession, SoundKept
    <2>2. CASE /\ blocks' = [h \in Heights |->
                                IF h \in batch THEN Block(h, f) ELSE blocks[h]]
               /\ queue' = queue \ batch
               /\ pc' = "post"
               /\ run' = [run EXCEPT !.first = 0, !.last = 0, !.verify = FALSE]
               /\ dbTip' = dbTip
      <3>1. \A h \in Heights : Block(h, f) # None
        BY BlockTyped, SyncAssumption
      <3>2. Sound'
        <4>1. \A h \in 1..dbTip : h \in Heights BY <1>0, SyncAssumption
        <4>2. \A h \in batch : h \in 1..dbTip BY <1>0, <2>w
        <4>3. \A h \in 1..dbTip : blocks'[h] # None \/ h \in queue'
          BY <1>0, <2>2, <3>1, <4>1 DEF Sound, Covered
        <4>4. \A h \in Heights : h > dbTip => blocks'[h] = None
          <5> SUFFICES ASSUME NEW h \in Heights, h > dbTip
                       PROVE  blocks'[h] = None
            OBVIOUS
          <5>1. h \notin batch BY <1>0, <4>2
          <5> QED BY <1>0, <2>2, <5>1 DEF Sound, Covered
        <4> QED BY <2>2, <4>3, <4>4 DEF Sound, Covered
      <3>3. run'.tip = run.tip /\ ~run'.kept BY <1>0, <2>w, <2>2 DEF Runs
      <3> QED BY <2>w, <2>2, <3>2, <3>3, OnwardInv DEF Onward
    <2>3. CASE \E at \in Lowest(bad) :
                 \E a \in AtOrBelow(Below(at, RewindDistance)) : ScanRewind(a)
      <3>1. PICK a \in Nat : ScanRewind(a) BY <2>3 DEF AtOrBelow
      <3> QED BY <2>w, <3>1, ScanRewindInv
    <2> QED BY <1>9, <2>1, <2>2, <2>3 DEF ScanBatch
  <1>10. CASE PostBatch(t)
    <2>1. pc \in Working \ {"tip"} /\ UNCHANGED meta /\ Reconcile(t, "loop")
      BY <1>10 DEF PostBatch, Working
    <2> QED BY <2>1, ReconcileInv
  <1>11. CASE DrainRecent
    <2>w. pc \in Working /\ UNCHANGED meta /\ run.tip <= dbTip /\ ~run.kept
      BY <1>11, <1>k DEF DrainRecent, Working, SyncInv, StoreOK
    <2>s. Sound' /\ dbTip' = dbTip
      BY <1>0, <1>11, SoundKept DEF DrainRecent, store
    <2> QED BY <1>11, <2>w, <2>s, OnwardInv DEF DrainRecent, Onward
  <1>12. CASE DrainRefresh(t)
    <2> DEFINE next == IF Relation(run.tip, t) = "advanced" THEN "loop" ELSE "vet"
    <2>1. /\ pc \in Working \ {"tip"} /\ UNCHANGED meta /\ Reconcile(t, next)
          /\ ~run.kept
      BY <1>12, <1>k DEF DrainRefresh, Working
    <2>2. next \in {"range", "loop", "vet"} OBVIOUS
    <2> HIDE DEF next
    <2> QED BY <2>1, <2>2, ReconcileInv
  <1>13. CASE AnchorRepair(f, run.anchor + 1)
    <2>1. run.anchor + 1 \in Nat \ {0} BY <1>0, RunFields, SyncAssumption
    <2> QED BY <1>13, <2>1, AnchorRepairInv
  <1>14. CASE Vetted(f)
    <2>w. pc \in Working /\ UNCHANGED meta /\ run.tip <= dbTip /\ ~run.kept
      BY <1>14, <1>k DEF Vetted, Working, SyncInv, StoreOK
    <2>s. Sound' /\ UNCHANGED <<blocks, dbTip, queue>>
      BY <1>0, <1>14, SoundKept DEF Vetted, store
    <2>i. policy' /\ inProgress' /\ CompletionOK' BY <2>w, InSession
    <2>1. CASE Leave BY <2>s, <2>i, <2>1, LeaveInv
    <2>2. CASE FailRun(FALSE) BY <2>w, <2>s, <2>2, FailInv
    <2>3. CASE pc' = "finish" /\ UNCHANGED run
      <3>1. OneFork(Anchor)' BY <1>14, <2>s DEF Vetted, AnchorAgrees, OneFork, Anchor
      <3>2. StoreOK' BY <2>w, <2>s, <2>3, StoreParts
      <3>3. SessionOK' BY <2>w, <2>i, <2>3, <3>1 DEF SessionOK
      <3> QED BY <2>i, <3>2, <3>3 DEF SyncInv
    <2> QED BY <1>14, <2>1, <2>2, <2>3 DEF Vetted
  <1>15. CASE Finish
    <2>w. pc \in Working /\ UNCHANGED meta /\ run.tip <= dbTip /\ ~run.kept
      BY <1>15, <1>k DEF Finish, Working, SyncInv, StoreOK
    <2>s. Sound' /\ UNCHANGED <<blocks, dbTip, queue>>
      BY <1>0, <1>15, SoundKept DEF Finish, store
    <2>i. policy' /\ inProgress' /\ CompletionOK' BY <2>w, InSession
    <2>1. CASE FailRun(FALSE) BY <2>w, <2>s, <2>1, FailInv
    <2>2. CASE Complete /\ pc' = "mark" /\ UNCHANGED run
      <3>1. OneFork(Anchor)
        BY <1>15, <2>2 DEF Finish, Complete, SyncInv, SessionOK
      <3>2. OneFork(Anchor)' BY <2>s, <3>1 DEF OneFork, Anchor
      <3>3. run'.tip = dbTip' BY <2>s, <2>2 DEF Complete
      <3>4. StoreOK' BY <2>w, <2>s, <2>2, StoreParts
      <3>5. SessionOK' BY <2>w, <2>i, <2>2, <3>2, <3>3 DEF SessionOK
      <3> QED BY <2>i, <3>4, <3>5 DEF SyncInv
    <2> QED BY <1>15, <2>1, <2>2 DEF Finish
  <1>16. CASE MarkCompleted
    <2>1. run.tip = dbTip /\ OneFork(Anchor) /\ ~run.kept
      BY <1>16, <1>k DEF MarkCompleted, SyncInv, SessionOK
    <2>s. Sound' /\ UNCHANGED <<blocks, dbTip, queue>>
      BY <1>0, <1>16, SoundKept DEF MarkCompleted, store
    <2>2. OneFork(Anchor)' BY <2>s, <2>1 DEF OneFork, Anchor
    <2>3. CompletionOK'
      BY <1>16, <2>s, <2>1, <2>2 DEF MarkCompleted, CompletionOK, Vouched
    <2>4. StoreOK' BY <1>16, <2>s, StoreParts DEF MarkCompleted, Working
    <2>5. SessionOK' BY <1>16, <2>1 DEF MarkCompleted, SessionOK, Working
    <2> QED BY <2>3, <2>4, <2>5 DEF SyncInv
  <1>17. CASE DeferredRefresh
    <2>1. CompletionOK' BY <1>17, <1>c, ClaimsKept DEF DeferredRefresh, store
    <2> QED BY <1>0, <1>17, <2>1, SoundKept, LeaveInv DEF DeferredRefresh
  <1> QED BY <1>1, <1>2, <1>3, <1>4, <1>5, <1>6, <1>7, <1>8, <1>9, <1>10, <1>11,
             <1>12, <1>13, <1>14, <1>15, <1>16, <1>17 DEF Engine

LEMMA OthersInv ==
  ASSUME TypeOK, SyncInv, StartFullSync \/ Fault \/ User \/ ImportAccount
  PROVE  SyncInv'
  <1>0. Sound /\ run \in Runs /\ dbTip \in 0..MaxHeight /\ queue \in SUBSET Heights
    BY StoreParts DEF SyncInv, TypeOK
  <1>k. run.kept => pc \in {"prep", "loop", "range"} /\ run.queued \subseteq queue
    BY DEF SyncInv, SessionOK
  <1>c. StoreOK /\ SessionOK /\ CompletionOK BY DEF SyncInv
  <1>1. CASE StartFullSync
    <2>1. CompletionOK' BY <1>1, <1>c, ClaimsKept DEF StartFullSync, store
    <2>2. Sound' BY <1>0, <1>1, SoundKept DEF StartFullSync
    <2>3. StoreOK' BY <1>1, <2>2, StoreParts DEF StartFullSync, Working
    <2>4. SessionOK' BY <1>1, <1>k DEF StartFullSync, SessionOK, Working
    <2> QED BY <2>1, <2>3, <2>4 DEF SyncInv
  <1>2. CASE \E f \in Forks : ScanSafeHeight(f)
    <2>1. PICK f \in Forks : ScanSafeHeight(f) BY <1>2
    <2>2. PICK at \in Lowest(Conflicts(run.first, run.last, f)) :
             \E a \in Below(at, RewindDistance)..dbTip : ScanRewind(a)
      BY <2>1 DEF ScanSafeHeight
    <2>3. PICK a \in Below(at, RewindDistance)..dbTip : ScanRewind(a)
      BY <2>2
    <2>4. at \in run.first..run.last BY <2>2 DEF Lowest, Conflicts
    <2>5. Below(at, RewindDistance) \in Nat
      <3>1. at \in Nat BY <1>0, <2>4, RunFields
      <3> QED BY <3>1, SyncAssumption DEF Below
    <2>6. a \in Nat BY <2>3, <2>5
    <2> QED BY <2>1, <2>3, <2>6, ScanRewindInv DEF ScanSafeHeight
  <1>3. CASE ScanRootConflict
    <2>1. PICK a \in Nat : ScanRewind(a)
      BY <1>3 DEF ScanRootConflict, AtOrBelow
    <2> QED BY <1>3, <2>1, ScanRewindInv DEF ScanRootConflict
  <1>4. CASE WitnessRepair
    <2>w. pc \in Working /\ UNCHANGED meta /\ run.tip <= dbTip /\ ~run.kept
      BY <1>4, <1>c, <1>k DEF WitnessRepair, Working, StoreOK
    <2>1. CASE Fails(TRUE)
      BY <1>0, <2>w, <2>1, FailInv, SoundKept DEF Fails
    <2>2. CASE /\ \E first, last \in 1..run.tip :
                    first <= last /\ queue' = queue \cup (first..last)
               /\ pc' = "loop"
               /\ run' = [run EXCEPT !.witness = @ + 1]
               /\ UNCHANGED <<blocks, dbTip>>
      <3>1. queue \subseteq queue' BY <2>2
      <3>2. Sound' BY <1>0, <2>2, <3>1 DEF Sound, Covered
      <3>3. run'.tip = run.tip /\ ~run'.kept BY <1>0, <2>w, <2>2 DEF Runs
      <3> QED BY <2>w, <2>2, <3>2, <3>3, OnwardInv DEF Onward
    <2> QED BY <1>4, <2>1, <2>2 DEF WitnessRepair
  <1>5. CASE \E f \in Forks, pass \in (run.anchor + 1)..(AnchorPasses + 1) :
               AnchorRepair(f, pass)
    <2>1. PICK f \in Forks, pass \in (run.anchor + 1)..(AnchorPasses + 1) :
               AnchorRepair(f, pass)
      BY <1>5
    <2>2. pass \in Nat \ {0} BY <1>0, RunFields, SyncAssumption
    <2> QED BY <2>1, <2>2, AnchorRepairInv
  <1>6. CASE NetworkFault
    <2>w. pc \in Working /\ UNCHANGED meta
      BY <1>6 DEF NetworkFault, Working
    <2>s. Sound' /\ queue' = queue /\ dbTip' = dbTip
      BY <1>0, <1>6, SoundKept DEF NetworkFault, store
    <2>1. CASE FailRun(FALSE) BY <2>w, <2>s, <2>1, FailInv
    <2>2. CASE /\ pc \in {"loop", "post"}
               /\ pc' = IF pc = "loop" THEN "range" ELSE "loop"
               /\ run' = [run EXCEPT !.mustCheck = TRUE]
      <3>1. /\ run'.tip = run.tip /\ run'.kept = run.kept
            /\ run'.queued = run.queued
        BY <1>0, <2>2 DEF Runs
      <3>2. run.tip <= dbTip BY <1>c, <2>2 DEF StoreOK, Working
      <3> QED BY <1>k, <2>w, <2>s, <2>2, <3>1, <3>2, OnwardInv DEF Onward
    <2> QED BY <1>6, <2>1, <2>2 DEF NetworkFault
  <1>7. CASE DiscoveryInvalidated
    BY <1>0, <1>7, FailInv, SoundKept DEF DiscoveryInvalidated, Working
  <1>8. CASE RewindStops
    <2>1. PICK a \in 0..dbTip : Truncate(a) BY <1>8 DEF RewindStops
    <2>2. Sound' BY <1>0, <2>1, TruncateSound
    <2>3. CompletionOK' BY <1>8, InSession DEF RewindStops, Working
    <2> QED BY <1>8, <2>2, <2>3, LeaveInv DEF RewindStops
  <1>9. CASE DatabaseFault
    BY <1>0, <1>9, FailInv, SoundKept DEF DatabaseFault
  <1>10. CASE Crash
    <2>1. CompletionOK' BY <1>10, <1>c, ClaimsKept DEF Crash, store
    <2> QED BY <1>0, <1>10, <2>1, SoundKept, LeaveInv DEF Crash
  <1>11. CASE CancelFullSync \/ BeginShutdown
    <2>1. UNCHANGED <<store, meta, legacy, pc, run>>
      BY <1>11 DEF CancelFullSync, BeginShutdown
    <2>2. CompletionOK' BY <1>c, <2>1, ClaimsKept DEF store
    <2>3. StoreOK' BY <1>c, <2>1 DEF StoreOK, NoHeightLost, store
    <2>4. SessionOK' BY <1>c, <2>1 DEF SessionOK, OneFork, Anchor, store, meta
    <2> QED BY <2>2, <2>3, <2>4 DEF SyncInv
  <1>12. CASE ReadLegacyStatus
    <2>1. UNCHANGED <<store, meta, pc, run>> /\ ~policy BY <1>12 DEF ReadLegacyStatus
    <2>2. /\ ~inProgress /\ completed = 0 /\ dbTip <= ForkPoint
          /\ \A h \in Heights : blocks[h] \in {Common, None}
      BY <1>c, <2>1 DEF CompletionOK
    <2>3. FullyScanned => OneFork(Anchor)
      <3> SUFFICES ASSUME FullyScanned PROVE OneFork(Anchor) OBVIOUS
      <3>1. PICK f \in Forks : TRUE BY SyncAssumption
      <3>2. \A h \in 1..Anchor : h \in 1..dbTip /\ h \in Heights
        BY <1>0, SyncAssumption DEF Anchor
      <3>3. \A h \in 1..Anchor : blocks[h] = Common
        BY <2>2, <3>2 DEF FullyScanned
      <3>4. \A h \in 1..Anchor : Block(h, f) = Common
        <4> SUFFICES ASSUME NEW h \in 1..Anchor PROVE Block(h, f) = Common
          OBVIOUS
        <4>1. h <= ForkPoint BY <1>0, <2>2, <3>2, SyncAssumption
        <4> QED BY <4>1 DEF Block
      <3> QED BY <3>3, <3>4 DEF OneFork
    <2>4. OneFork(Anchor) => OneFork(Anchor)'
      BY <2>1 DEF OneFork, Anchor, store
    <2>5. Vouched(legacy)'
      BY <1>0, <1>12, <2>1, <2>3, <2>4 DEF ReadLegacyStatus, Vouched, store
    <2>6. CompletionOK' BY <2>1, <2>2, <2>5 DEF CompletionOK, store, meta
    <2>7. StoreOK' BY <1>c, <2>1 DEF StoreOK, NoHeightLost, store
    <2>8. SessionOK' BY <1>c, <2>1 DEF SessionOK, OneFork, Anchor, store, meta
    <2> QED BY <2>6, <2>7, <2>8 DEF SyncInv
  <1>13. CASE InitializePolicy
    <2>1. UNCHANGED <<store, inProgress, pc, run>> /\ legacy # None
      BY <1>13 DEF InitializePolicy, meta
    <2>2. StoreOK' BY <1>c, <2>1 DEF StoreOK, NoHeightLost, store
    <2>3. CASE policy
      <3>1. UNCHANGED meta BY <1>13, <2>3 DEF InitializePolicy
      <3>2. legacy' = None BY <1>13 DEF InitializePolicy
      <3>3. CompletionOK' BY <1>c, <2>1, <3>1, <3>2, ClaimsKept DEF store
      <3>4. SessionOK' BY <1>c, <2>1, <3>1 DEF SessionOK, OneFork, Anchor, store, meta
      <3> QED BY <2>2, <3>3, <3>4 DEF SyncInv
    <2>4. CASE ~policy
      <3>1. /\ policy' = TRUE
            /\ completed' = IF legacy > 0 THEN legacy ELSE completed
        BY <1>13, <2>4 DEF InitializePolicy
      <3>2. Vouched(legacy) /\ completed = 0
        BY <1>c, <2>1, <2>4 DEF CompletionOK
      <3>3. Vouched(completed)'
        BY <2>1, <3>1, <3>2 DEF Vouched, OneFork, Anchor, store
      <3>4. CompletionOK' BY <3>1, <3>3 DEF CompletionOK
      <3>5. SessionOK' BY <1>c, <2>1, <3>1 DEF SessionOK, OneFork, Anchor, store
      <3> QED BY <2>2, <3>4, <3>5 DEF SyncInv
    <2> QED BY <2>3, <2>4
  <1>14. CASE RewindToHeight
    <2>1. PICK a \in 0..dbTip : ScannedAbove(blocks, a) /\ Truncate(a)
      BY <1>14 DEF RewindToHeight
    <2>2. UNCHANGED <<meta, legacy, pc, run>> /\ pc = "idle"
      BY <1>14 DEF RewindToHeight
    <2>3. a < dbTip
      BY <1>0, <2>1 DEF ScannedAbove, Sound, Covered
    <2>4. dbTip' = a /\ blocks' = Truncated(a) BY <2>1, <2>3 DEF Truncate
    <2>5. Sound' BY <1>0, <2>1, TruncateSound
    <2>6. StoreOK' BY <2>2, <2>5, StoreParts DEF Working
    <2>7. SessionOK' BY <1>k, <2>2 DEF SessionOK, Working
    <2>8. \A h \in Heights : blocks'[h] \in {blocks[h], None}
      BY <2>4 DEF Truncated
    <2>9. ASSUME NEW height \in 0..MaxHeight, Vouched(height)
          PROVE  height > 0 => dbTip' < height
      BY <1>0, <2>3, <2>4, <2>9, SyncAssumption DEF Vouched
    <2>10. CompletionOK'
      <3>1. CASE policy
        <4>1. completed \in 0..MaxHeight BY DEF TypeOK
        <4>2. ~inProgress => (completed > 0 => dbTip' < completed)
          BY <1>c, <2>9, <3>1, <4>1 DEF CompletionOK
        <4> QED BY <2>2, <3>1, <4>2 DEF CompletionOK, Vouched, meta
      <3>2. CASE ~policy
        <4>1. /\ ~inProgress /\ completed = 0 /\ dbTip <= ForkPoint
              /\ \A h \in Heights : blocks[h] \in {Common, None}
              /\ legacy # None => Vouched(legacy)
          BY <1>c, <3>2 DEF CompletionOK
        <4>2. legacy # None => legacy \in 0..MaxHeight BY DEF TypeOK
        <4>3. legacy # None => (legacy > 0 => dbTip' < legacy)
          BY <2>9, <4>1, <4>2
        <4>4. dbTip' <= ForkPoint BY <1>0, <2>3, <2>4, <4>1, SyncAssumption
        <4>5. \A h \in Heights : blocks'[h] \in {Common, None} BY <2>8, <4>1
        <4> QED BY <2>2, <3>2, <4>1, <4>3, <4>4, <4>5
                DEF CompletionOK, Vouched, meta
      <3> QED BY <3>1, <3>2
    <2> QED BY <2>6, <2>7, <2>10 DEF SyncInv
  <1>15. CASE ImportAccount
    <2>1. /\ UNCHANGED <<blocks, dbTip, meta, legacy, pc, run>>
          /\ queue \subseteq queue'
      BY <1>15 DEF ImportAccount
    <2>2. CompletionOK' BY <1>c, <2>1, ClaimsKept
    <2>3. StoreOK' BY <1>c, <2>1 DEF StoreOK, NoHeightLost
    <2>4. SessionOK' BY <1>c, <2>1 DEF SessionOK, OneFork, Anchor, meta
    <2> QED BY <2>2, <2>3, <2>4 DEF SyncInv
  <1> QED BY <1>1, <1>2, <1>3, <1>4, <1>5, <1>6, <1>7, <1>8, <1>9, <1>10, <1>11,
             <1>12, <1>13, <1>14, <1>15 DEF Fault, User

LEMMA InitInv == Init => SyncInv
  <1> SUFFICES ASSUME Init PROVE SyncInv OBVIOUS
  <1>0. TypeOK BY InitTyped
  <1>1. StoreOK
    <2>1. NoHeightLost BY SyncAssumption DEF Init, NoHeightLost
    <2>2. \A h \in Heights : h > dbTip => blocks[h] = None
      BY SyncAssumption DEF Init
    <2> QED BY <2>1, <2>2 DEF Init, StoreOK, Working
  <1>2. SessionOK BY DEF Init, SessionOK, NoRun, Working
  <1>3. CompletionOK
    <2>1. dbTip <= ForkPoint BY SyncAssumption DEF Init
    <2>2. \A h \in Heights : blocks[h] \in {Common, None} BY DEF Init
    <2> QED BY <2>1, <2>2 DEF Init, CompletionOK
  <1> QED BY <1>1, <1>2, <1>3 DEF SyncInv

\* The inductive invariant of a sync run.
THEOREM SyncInvariant == Spec => []SyncInv
  <1>1. TypeOK /\ SyncInv /\ [Next]_vars => SyncInv'
    <2> SUFFICES ASSUME TypeOK, SyncInv, [Next]_vars PROVE SyncInv' OBVIOUS
    <2>1. CASE Run BY <2>1, EngineInv DEF Run
    <2>2. CASE StartFullSync \/ Fault \/ User \/ ImportAccount
      BY <2>2, OthersInv
    <2>3. CASE UNCHANGED vars
      <3>1. StoreOK' BY <2>3 DEF vars, SyncInv, StoreOK, NoHeightLost
      <3>2. SessionOK' BY <2>3 DEF vars, SyncInv, SessionOK, OneFork, Anchor
      <3>3. CompletionOK'
        BY <2>3 DEF vars, SyncInv, CompletionOK, Vouched, OneFork, Anchor
      <3> QED BY <3>1, <3>2, <3>3 DEF SyncInv
    <2> QED BY <2>1, <2>2, <2>3 DEF Next
  <1> QED BY <1>1, InitInv, SyncTyped, PTL DEF Spec

\* No height below the tip is lost by truncations, tip updates, batches,
\* repairs, imports and crashes in any order.
THEOREM NothingLost == Spec => []NoHeightLost
  <1>1. SyncInv => NoHeightLost BY DEF SyncInv, StoreOK
  <1> QED BY <1>1, SyncInvariant, PTL

\* A wallet reported as synced was scanned from one chain up to its anchor.
THEOREM SyncedFromOneFork == Spec => []StatusOneFork
  <1>1. SyncInv /\ TypeOK => StatusOneFork
    BY DEF SyncInv, CompletionOK, Vouched, StatusOneFork, StatusComplete, TypeOK
  <1> QED BY <1>1, SyncInvariant, SyncTyped, PTL

-----------------------------------------------------------------------------
(***************************************************************************)
(* A run ends: every step of it moves a measure towards its bound.  Only   *)
(* that the steps are taken is left to the model checker.                  *)
(***************************************************************************)

\* The ways in which a step advances.
LEMMA PartUp == attempt' = attempt /\ Part(pc') > Part(pc) => Advances
  BY DEF Advances

LEMMA SpentUp ==
  attempt' = attempt /\ Part(pc') = Part(pc) /\ Spent' > Spent => Advances
  BY DEF Advances

LEMMA LeaveAdvances == Leave => Advances
  BY DEF Leave, Advances

LEMMA FailAdvances ==
  ASSUME TypeOK, NEW fatal, FailRun(fatal)
  PROVE  Advances
  BY SyncAssumption DEF TypeOK, FailRun, Advances

LEMMA TipUp ==
  ASSUME attempt' = attempt, Part(pc') = Part(pc), Spent' = Spent,
         run'.tip > run.tip
  PROVE  Advances
  BY DEF Advances

LEMMA PassUp ==
  ASSUME attempt' = attempt, Part(pc') = Part(pc), Spent' = Spent,
         run'.tip = run.tip, queue' = queue, PassStep(pc') > PassStep(pc)
  PROVE  Advances
  BY DEF Advances

LEMMA LoopPart == \A p \in Loop : Part(p) = 4
  BY DEF Part, Loop

\* A tip that proves a reorg costs a rewind of the main phase.
LEMMA TipReorgAdvances ==
  ASSUME TypeOK, NEW t \in Tips, pc \in Loop, TipReorg(t, "loop", run)
  PROVE  Advances
  <1>1. CASE run.main >= MaxRewinds
    BY <1>1, FailAdvances DEF TipReorg, Fails
  <1>2. CASE ~(run.main >= MaxRewinds)
    <2>1. /\ pc' = "loop" /\ attempt' = attempt
          /\ run' = [run EXCEPT !.tip = t.height, !.main = @ + 1,
                                !.mustCheck = TRUE, !.kept = TRUE,
                                !.queued = queue']
      BY <1>2 DEF TipReorg
    <2>2. run \in Runs BY DEF TypeOK
    <2>3. /\ run'.main = run.main + 1 /\ run'.ver = run.ver
          /\ run'.witness = run.witness /\ run'.anchor = run.anchor
      BY <2>1, <2>2 DEF Runs
    <2>4. Spent' > Spent
      BY <2>2, <2>3, RunFields, SyncAssumption DEF Spent
    <2>5. Part(pc') = Part(pc) BY <2>1, LoopPart DEF Loop
    <2> QED BY <2>1, <2>4, <2>5, SpentUp
  <1> QED BY <1>1, <1>2

\* A refreshed tip is ahead, costs a rewind, or lets the pass go on.
LEMMA ReconcileAdvances ==
  ASSUME TypeOK, NEW t \in Tips, NEW next \in Loop, pc \in Loop,
         Reconcile(t, next),
         Relation(run.tip, t) # "advanced" => PassStep(next) > PassStep(pc)
  PROVE  Advances
  <1> DEFINE relation == Relation(run.tip, t)
  <1>r. run \in Runs /\ run.tip \in Nat BY SyncAssumption, RunFields DEF TypeOK
  <1>1. CASE Leave BY <1>1, LeaveAdvances
  <1>2. CASE Fails(FALSE) BY <1>2, FailAdvances DEF Fails
  <1>3. CASE TipReorg(t, "loop", run) BY <1>3, TipReorgAdvances
  <1>4. CASE /\ relation = "advanced" /\ pc' = next /\ UNCHANGED attempt
             /\ run' = [run EXCEPT !.tip = t.height, !.mustCheck = TRUE]
    <2>1. t.height > run.tip
      BY <1>4, <1>r, SyncAssumption DEF Relation, Tips
    <2>2. run'.tip = t.height /\ Spent' = Spent BY <1>4, <1>r DEF Runs, Spent
    <2>3. Part(pc') = Part(pc) BY <1>4, LoopPart
    <2> QED BY <1>4, <2>1, <2>2, <2>3, TipUp
  <1>5. CASE /\ relation \in {"unchanged", "unverified"}
             /\ pc' = next
             /\ run' = [run EXCEPT !.mustCheck = relation = "unverified"]
             /\ UNCHANGED <<store, attempt>>
    <2> HIDE DEF relation
    <2>1. run'.tip = run.tip /\ Spent' = Spent BY <1>5, <1>r DEF Runs, Spent
    <2>2. Part(pc') = Part(pc) BY <1>5, LoopPart
    <2>3. PassStep(pc') > PassStep(pc) BY <1>5 DEF relation
    <2> QED BY <1>5, <2>1, <2>2, <2>3, PassUp DEF store
  <1> QED BY <1>1, <1>2, <1>3, <1>4, <1>5 DEF Reconcile

\* The rewind of a scan comes from the budget of its phase.
LEMMA ScanRewindAdvances ==
  ASSUME TypeOK, pc = "scan", NEW a, ScanRewind(a)
  PROVE  Advances
  <1>1. CASE RewindsUsed >= MaxRewinds
    BY <1>1, FailAdvances DEF ScanRewind, Fails
  <1>2. CASE ~(RewindsUsed >= MaxRewinds)
    <2>1. /\ pc' = "loop" /\ attempt' = attempt
          /\ run' = [run EXCEPT !.first = 0, !.last = 0, !.verify = FALSE,
                       !.ver = IF run.verify THEN @ + 1 ELSE @,
                       !.main = IF run.verify THEN @ ELSE @ + 1]
      BY <1>2 DEF ScanRewind
    <2>2. run \in Runs BY DEF TypeOK
    <2>3. /\ run'.main + run'.ver = run.main + run.ver + 1
          /\ run'.witness = run.witness /\ run'.anchor = run.anchor
      BY <2>1, <2>2, RunFields, SyncAssumption DEF Runs
    <2>4. Spent' > Spent
      <3>1. /\ run.main \in Nat /\ run.ver \in Nat
            /\ run.witness \in Nat /\ run.anchor \in Nat
        BY <2>2, RunFields
      <3>2. run'.main \in Nat /\ run'.ver \in Nat
        BY <2>1, <2>2, <3>1 DEF Runs
      <3> QED BY <2>3, <3>1, <3>2 DEF Spent
    <2>5. Part(pc') = Part(pc) BY <2>1, LoopPart DEF Loop
    <2> QED BY <2>1, <2>4, <2>5, SpentUp
  <1> QED BY <1>1, <1>2

\* An anchor repair moves on in its list of distances.
LEMMA AnchorRepairAdvances ==
  ASSUME TypeOK, NEW f, NEW pass \in Nat, pass > run.anchor,
         AnchorRepair(f, pass)
  PROVE  Advances
  <1>1. CASE Fails(TRUE) BY <1>1, FailAdvances DEF Fails
  <1>2. CASE /\ pc' = "loop" /\ UNCHANGED attempt
             /\ run' = [run EXCEPT !.anchor = pass]
    <2>1. run \in Runs BY DEF TypeOK
    <2>2. Spent' > Spent
      <3>1. /\ run'.main = run.main /\ run'.ver = run.ver
            /\ run'.witness = run.witness /\ run'.anchor = pass
        BY <1>2, <2>1 DEF Runs
      <3> QED BY <2>1, <3>1, RunFields, SyncAssumption DEF Spent
    <2>3. Part(pc') = Part(pc) BY <1>2, LoopPart DEF Loop, AnchorRepair
    <2> QED BY <1>2, <2>2, <2>3, SpentUp
  <1> QED BY <1>1, <1>2 DEF AnchorRepair

\* The batch a scan works on is still queued.
BatchQueued == pc = "scan" => run.first \in queue

LEMMA LeaveScan == Leave => BatchQueued'
  BY DEF Leave, BatchQueued

LEMMA FailScan == \A fatal : FailRun(fatal) => BatchQueued'
  BY DEF FailRun, BatchQueued

LEMMA ReconcileScan ==
  ASSUME NEW t, NEW next, next # "scan", Reconcile(t, next)
  PROVE  BatchQueued'
  <1>1. CASE Leave \/ Fails(FALSE) BY <1>1, LeaveScan, FailScan DEF Fails
  <1>2. CASE TipReorg(t, "loop", run)
    BY <1>2, FailScan DEF TipReorg, Fails, BatchQueued
  <1>3. CASE pc' = next BY <1>3 DEF BatchQueued
  <1> QED BY <1>1, <1>2, <1>3 DEF Reconcile

LEMMA EngineAdvances ==
  ASSUME TypeOK, SyncInv, BatchQueued, NEW t \in Tips, NEW f \in Forks,
         Engine(t, f)
  PROVE  Advances /\ BatchQueued'
  <1>r. run \in Runs BY DEF TypeOK
  <1>l. CASE Leave BY <1>l, LeaveAdvances, LeaveScan
  <1>f. ASSUME NEW fatal, FailRun(fatal) PROVE Advances /\ BatchQueued'
    BY <1>f, FailAdvances, FailScan
  <1>p. CASE attempt' = attempt /\ Part(pc') > Part(pc) /\ pc' # "scan"
    BY <1>p, PartUp DEF BatchQueued
  <1>1. CASE ClearCancel BY <1>1, <1>p DEF ClearCancel, Part, Loop
  <1>2. CASE BeginAttempt BY <1>2, <1>l, <1>p DEF BeginAttempt, Part, Loop
  <1>3. CASE Backoff BY <1>3, <1>l, <1>p DEF Backoff, Part, Loop
  <1>4. CASE InitialTip(t)
    <2>1. CASE pc' = "prep" /\ UNCHANGED attempt
      BY <1>4, <2>1, <1>p DEF InitialTip, Part, Loop
    <2>2. Leave \/ FailRun(FALSE) \/ (pc' = "prep" /\ UNCHANGED attempt)
      BY <1>4 DEF InitialTip, TipReorg, Fails
    <2> QED BY <2>1, <2>2, <1>l, <1>f
  <1>5. CASE Prepare BY <1>5, <1>l, <1>p DEF Prepare, Part, Loop
  <1>6. CASE LoopTop
    <2>1. CASE pc' = "range" /\ UNCHANGED <<attempt, run, queue>>
      <3>1. Part(pc') = Part(pc) /\ PassStep(pc') > PassStep(pc)
        BY <1>6, <2>1 DEF LoopTop, Part, PassStep, Loop
      <3> QED BY <2>1, <3>1, PassUp DEF BatchQueued, Spent
    <2> QED BY <1>6, <2>1, <1>l DEF LoopTop, store
  <1>7. CASE PeriodicRefresh(t)
    <2>1. /\ pc \in Loop /\ "range" \in Loop /\ PassStep("range") > PassStep(pc)
          /\ Reconcile(t, "range") /\ "range" # "scan"
      BY <1>7 DEF PeriodicRefresh, Loop, PassStep
    <2> QED BY <2>1, ReconcileAdvances, ReconcileScan
  <1>8. CASE SelectRange
    <2> DEFINE ranges == IF run.kept THEN run.queued ELSE queue
               new == [run EXCEPT !.kept = FALSE, !.queued = {}]
    <2>0. /\ new \in Runs /\ new.tip = run.tip /\ new.main = run.main
          /\ new.ver = run.ver /\ new.witness = run.witness
          /\ new.anchor = run.anchor
      BY <1>r DEF Runs
    <2>1. ranges \subseteq queue BY DEF SyncInv, SessionOK
    <2> HIDE DEF new, ranges
    <2>2. CASE pc' = "finish"
      BY <1>8, <2>2, <1>p DEF SelectRange, Part, Loop
    <2>3. CASE pc' = "drain" /\ run' = new
      <3>1. Part(pc') = Part(pc) /\ PassStep(pc') > PassStep(pc)
        BY <1>8, <2>3 DEF SelectRange, Part, PassStep, Loop
      <3>2. Spent' = Spent /\ run'.tip = run.tip BY <2>0, <2>3 DEF Spent
      <3> QED BY <1>8, <2>3, <3>1, <3>2, PassUp DEF SelectRange, store, BatchQueued
    <2>4. CASE \E first \in ranges, last \in Heights, v \in BOOLEAN :
                 /\ pc' = "scan"
                 /\ run' = [new EXCEPT !.first = first, !.last = last,
                                       !.verify = v]
      <3>1. PICK first \in ranges, last \in Heights, v \in BOOLEAN :
                 /\ pc' = "scan"
                 /\ run' = [new EXCEPT !.first = first, !.last = last,
                                       !.verify = v]
        BY <2>4
      <3>0. pc = "range" BY <1>8 DEF SelectRange
      <3>2. Part(pc') = Part(pc) /\ PassStep(pc') > PassStep(pc)
        BY <3>0, <3>1 DEF Part, PassStep, Loop
      <3>3. /\ run'.tip = new.tip /\ run'.main = new.main /\ run'.ver = new.ver
            /\ run'.witness = new.witness /\ run'.anchor = new.anchor
            /\ run'.first = first
        BY <2>0, <3>1 DEF Runs
      <3>4. Spent' = Spent /\ run'.tip = run.tip BY <2>0, <3>3 DEF Spent
      <3>5. queue' = queue /\ attempt' = attempt BY <1>8 DEF SelectRange, store
      <3>6. Advances BY <3>2, <3>4, <3>5, PassUp
      <3> QED BY <2>1, <3>3, <3>5, <3>6 DEF BatchQueued
    <2> QED BY <1>8, <2>2, <2>3, <2>4 DEF SelectRange, new, ranges
  <1>9. CASE ScanBatch(f)
    <2> DEFINE batch == run.first..run.last
    <2>1. CASE \E a : ScanRewind(a)
      <3>1. PICK a : ScanRewind(a) BY <2>1
      <3>2. Advances BY <1>9, <3>1, ScanRewindAdvances DEF ScanBatch
      <3>3. BatchQueued'
        BY <3>1, FailScan DEF ScanRewind, Fails, BatchQueued
      <3> QED BY <3>2, <3>3
    <2>2. CASE /\ queue' = queue \ batch
               /\ pc' = "post"
               /\ run' = [run EXCEPT !.first = 0, !.last = 0, !.verify = FALSE]
               /\ UNCHANGED <<dbTip, attempt>>
      <3>1. run.first \in batch
        <4>1. run.first \in 1..run.last BY <1>9 DEF ScanBatch, SyncInv, StoreOK
        <4>2. run.last \in 0..MaxHeight BY <1>r, RunFields
        <4> QED BY <4>1, <4>2, SyncAssumption
      <3>2. run.first \in queue BY <1>9 DEF ScanBatch, BatchQueued
      <3> HIDE DEF batch
      <3>3. queue' \subseteq queue /\ queue' # queue BY <2>2, <3>1, <3>2
      <3>4. Part(pc') = Part(pc) BY <1>9, <2>2, LoopPart DEF ScanBatch, Loop
      <3>5. Spent' = Spent /\ run'.tip = run.tip BY <1>r, <2>2 DEF Runs, Spent
      <3>6. Advances BY <2>2, <3>3, <3>4, <3>5 DEF Advances
      <3> QED BY <2>2, <3>6 DEF BatchQueued
    <2> QED BY <1>9, <2>1, <2>2, <1>l DEF ScanBatch
  <1>10. CASE PostBatch(t)
    <2>1. /\ pc \in Loop /\ "loop" \in Loop /\ PassStep("loop") > PassStep(pc)
          /\ Reconcile(t, "loop") /\ "loop" # "scan"
      BY <1>10 DEF PostBatch, Loop, PassStep
    <2> QED BY <2>1, ReconcileAdvances, ReconcileScan
  <1>11. CASE DrainRecent
    <2>1. Part(pc') = Part(pc) /\ PassStep(pc') > PassStep(pc)
      BY <1>11 DEF DrainRecent, Part, PassStep, Loop
    <2> QED BY <1>11, <2>1, PassUp DEF DrainRecent, store, Spent, BatchQueued
  <1>12. CASE DrainRefresh(t)
    <2> DEFINE next == IF Relation(run.tip, t) = "advanced" THEN "loop" ELSE "vet"
    <2>1. /\ pc \in Loop /\ next \in Loop
          /\ Relation(run.tip, t) # "advanced" => PassStep(next) > PassStep(pc)
          /\ Reconcile(t, next) /\ next # "scan"
      BY <1>12 DEF DrainRefresh, Loop, PassStep
    <2> HIDE DEF next
    <2> QED BY <2>1, ReconcileAdvances, ReconcileScan
  <1>13. CASE AnchorRepair(f, run.anchor + 1)
    <2>1. run.anchor + 1 \in Nat /\ run.anchor + 1 > run.anchor
      BY <1>r, RunFields, SyncAssumption
    <2>2. BatchQueued'
      BY <1>13, FailScan DEF AnchorRepair, Fails, BatchQueued
    <2> QED BY <1>13, <2>1, <2>2, AnchorRepairAdvances
  <1>14. CASE Vetted(f)
    <2>1. CASE pc' = "finish" /\ UNCHANGED attempt
      BY <1>14, <2>1, <1>p DEF Vetted, Part, Loop
    <2>2. Leave \/ FailRun(FALSE) \/ (pc' = "finish" /\ UNCHANGED attempt)
      BY <1>14 DEF Vetted
    <2> QED BY <2>1, <2>2, <1>l, <1>f
  <1>15. CASE Finish
    <2>1. CASE pc' = "mark" /\ UNCHANGED attempt
      BY <1>15, <2>1, <1>p DEF Finish, Part, Loop
    <2>2. FailRun(FALSE) \/ (pc' = "mark" /\ UNCHANGED attempt)
      BY <1>15 DEF Finish
    <2> QED BY <2>1, <2>2, <1>f
  <1>16. CASE MarkCompleted
    BY <1>16, <1>p DEF MarkCompleted, Part, Loop
  <1>17. CASE DeferredRefresh BY <1>17, <1>l DEF DeferredRefresh
  <1> QED BY <1>1, <1>2, <1>3, <1>4, <1>5, <1>6, <1>7, <1>8, <1>9, <1>10, <1>11,
             <1>12, <1>13, <1>14, <1>15, <1>16, <1>17 DEF Engine

LEMMA FaultAdvances ==
  ASSUME TypeOK, SyncInv, Fault
  PROVE  Advances /\ BatchQueued'
  <1>r. run \in Runs BY DEF TypeOK
  <1>l. CASE Leave BY <1>l, LeaveAdvances, LeaveScan
  <1>f. ASSUME NEW fatal, FailRun(fatal) PROVE Advances /\ BatchQueued'
    BY <1>f, FailAdvances, FailScan
  <1>s. ASSUME pc = "scan", NEW a, ScanRewind(a) PROVE Advances /\ BatchQueued'
    BY <1>s, ScanRewindAdvances, FailScan DEF ScanRewind, Fails, BatchQueued
  <1>1. CASE \E f \in Forks : ScanSafeHeight(f)
    BY <1>1, <1>s DEF ScanSafeHeight
  <1>2. CASE ScanRootConflict BY <1>2, <1>s DEF ScanRootConflict
  <1>3. CASE WitnessRepair
    <2>1. CASE Fails(TRUE) BY <2>1, <1>f DEF Fails
    <2>2. CASE /\ pc' = "loop" /\ UNCHANGED attempt
               /\ run' = [run EXCEPT !.witness = @ + 1]
      <3>1. /\ run'.main = run.main /\ run'.ver = run.ver
            /\ run'.witness = run.witness + 1 /\ run'.anchor = run.anchor
        BY <1>r, <2>2 DEF Runs
      <3>2. Spent' > Spent BY <1>r, <3>1, RunFields, SyncAssumption DEF Spent
      <3>3. Part(pc') = Part(pc) BY <1>3, <2>2, LoopPart DEF WitnessRepair, Loop
      <3> QED BY <2>2, <3>2, <3>3, SpentUp DEF BatchQueued
    <2> QED BY <1>3, <2>1, <2>2 DEF WitnessRepair
  <1>4. ASSUME NEW f \in Forks, NEW pass \in (run.anchor + 1)..(AnchorPasses + 1),
               AnchorRepair(f, pass)
        PROVE  Advances /\ BatchQueued'
    <2>1. pass \in Nat /\ pass > run.anchor
      BY <1>r, RunFields, SyncAssumption
    <2>2. BatchQueued'
      BY <1>4, FailScan DEF AnchorRepair, Fails, BatchQueued
    <2> QED BY <1>4, <2>1, <2>2, AnchorRepairAdvances
  <1>5. CASE NetworkFault
    <2>1. CASE /\ pc \in {"loop", "post"}
               /\ pc' = IF pc = "loop" THEN "range" ELSE "loop"
               /\ run' = [run EXCEPT !.mustCheck = TRUE]
               /\ UNCHANGED attempt
      <3>1. Part(pc') = Part(pc) /\ PassStep(pc') > PassStep(pc)
        BY <2>1 DEF Part, PassStep, Loop
      <3>2. Spent' = Spent /\ run'.tip = run.tip BY <1>r, <2>1 DEF Runs, Spent
      <3>3. queue' = queue BY <1>5 DEF NetworkFault, store
      <3> QED BY <2>1, <3>1, <3>2, <3>3, PassUp DEF BatchQueued
    <2> QED BY <1>5, <2>1, <1>f DEF NetworkFault
  <1>6. CASE DiscoveryInvalidated BY <1>6, <1>f DEF DiscoveryInvalidated
  <1>7. CASE RewindStops BY <1>7, <1>l DEF RewindStops
  <1>8. CASE DatabaseFault BY <1>8, <1>f DEF DatabaseFault
  <1>9. CASE Crash BY <1>9, <1>l DEF Crash
  <1> QED BY <1>1, <1>2, <1>3, <1>4, <1>5, <1>6, <1>7, <1>8, <1>9 DEF Fault

\* Every step of a run pays for itself, so a run takes boundedly many steps
\* between two imports: attempts, parts of an attempt, rewinds and repairs,
\* heights of the tip, queued heights and steps of a pass are all finite.
THEOREM RunsAdvance == Spec => RunAdvances
<1>1. Init => BatchQueued BY DEF Init, BatchQueued
<1>2. ASSUME TypeOK, SyncInv, BatchQueued, [Next]_vars
      PROVE  /\ BatchQueued'
             /\ [pc # "idle" => Advances \/ User \/ ImportAccount]_vars
  <2>1. CASE StartFullSync BY <2>1 DEF StartFullSync, BatchQueued
  <2>2. CASE Run BY <1>2, <2>2, EngineAdvances DEF Run
  <2>3. CASE Fault BY <1>2, <2>3, FaultAdvances
  <2>4. CASE User
    <3>1. UNCHANGED <<pc, run>> /\ (pc # "idle" => UNCHANGED queue)
      BY <2>4 DEF User, CancelFullSync, BeginShutdown, ReadLegacyStatus,
                  InitializePolicy, RewindToHeight, store
    <3> QED BY <1>2, <2>4, <3>1 DEF BatchQueued
  <2>5. CASE ImportAccount BY <1>2, <2>5 DEF ImportAccount, BatchQueued
  <2>6. CASE UNCHANGED vars BY <1>2, <2>6 DEF vars, BatchQueued
  <2> QED BY <1>2, <2>1, <2>2, <2>3, <2>4, <2>5, <2>6 DEF Next
<1>3. TypeOK /\ SyncInv /\ BatchQueued /\ [Next]_vars
        => /\ BatchQueued'
           /\ [pc # "idle" => Advances \/ User \/ ImportAccount]_vars
  BY <1>2
<1> QED BY <1>1, <1>3, SyncTyped, SyncInvariant, PTL DEF Spec, RunAdvances
-----------------------------------------------------------------------------
(***************************************************************************)
(* While endpoints agree with the wallet.                                  *)
(***************************************************************************)
\* What the wallet stores is of fork f.
Follows(f) == \A h \in Heights : blocks[h] \in {None, Block(h, f)}

KeepsBlocks == \A h \in Heights : blocks[h] # None => blocks'[h] = blocks[h]

\* A step of a run whose endpoints all answer from the fork of tip t.
AgreedStep(t) == StartFullSync \/ Engine(t, t.fork) \/ EndProcess

LEMMA NoFalseReorg ==
  ASSUME TypeOK, NEW t \in Tips, Follows(t.fork), NEW height \in 0..MaxHeight
  PROVE  Relation(height, t) # "reorg"
  <1>1. CASE height = 0
    <2>1. t.height > height BY <1>1, SyncAssumption DEF Tips
    <2> QED BY <2>1, SyncAssumption DEF Relation, Tips
  <1>2. CASE height # 0
    <2>1. height \in Heights BY <1>2, SyncAssumption
    <2>2. blocks[height] \in {None, Block(height, t.fork)} BY <2>1 DEF Follows
    <2> QED BY <2>2 DEF Relation
  <1> QED BY <1>1, <1>2

LEMMA NoConflicts ==
  ASSUME TypeOK, NEW f \in Forks, Follows(f),
         NEW first \in 1..MaxHeight, NEW last \in 1..MaxHeight
  PROVE  Conflicts(first, last, f) = {}
  <1> SUFFICES ASSUME NEW h \in first..last
               PROVE  /\ blocks[h] \in {None, Block(h, f)}
                      /\ h > 1 => blocks[h - 1] \in {None, Parent(h, f)}
    BY DEF Conflicts
  <1>1. h \in Heights /\ (h > 1 => h - 1 \in Heights) BY SyncAssumption
  <1> QED BY <1>1 DEF Follows, Parent

LEMMA ReconcileKeeps ==
  ASSUME TypeOK, NEW t \in Tips, Follows(t.fork), NEW next, Reconcile(t, next)
  PROVE  UNCHANGED blocks
  <1>1. run.tip \in 0..MaxHeight BY RunFields DEF TypeOK
  <1>2. Relation(run.tip, t) # "reorg" BY <1>1, NoFalseReorg
  <1> QED BY <1>2 DEF Reconcile, Fails, UpdateChainTip, store

LEMMA FollowsKept ==
  ASSUME NEW f, Follows(f), UNCHANGED blocks
  PROVE  Follows(f)' /\ KeepsBlocks
  BY DEF Follows, KeepsBlocks, Block

LEMMA AgreedSteps ==
  ASSUME TypeOK, SyncInv, NEW t \in Tips, Follows(t.fork), AgreedStep(t)
  PROVE  /\ Follows(t.fork)'
         /\ KeepsBlocks \/ AnchorRepair(t.fork, run.anchor + 1)
  <1>f. t.fork \in Forks BY DEF Tips
  <1>1. CASE \/ StartFullSync \/ EndProcess \/ ClearCancel \/ BeginAttempt
             \/ Backoff \/ Prepare \/ LoopTop \/ SelectRange \/ DrainRecent
             \/ Vetted(t.fork) \/ Finish \/ MarkCompleted \/ DeferredRefresh
    <2>1. UNCHANGED blocks
      BY <1>1 DEF StartFullSync, EndProcess, Crash, ClearCancel, BeginAttempt,
         Backoff, Prepare, LoopTop, SelectRange, DrainRecent, Vetted, Finish,
         MarkCompleted, DeferredRefresh, store
    <2> QED BY <2>1, FollowsKept
  <1>2. CASE InitialTip(t)
    <2>1. Relation(dbTip, t) # "reorg" BY NoFalseReorg DEF TypeOK
    <2>2. UNCHANGED blocks
      BY <1>2, <2>1 DEF InitialTip, Fails, UpdateChainTip, store
    <2> QED BY <2>2, FollowsKept
  <1>3. CASE PeriodicRefresh(t) \/ PostBatch(t) \/ DrainRefresh(t)
    <2>1. \E next : Reconcile(t, next)
      BY <1>3 DEF PeriodicRefresh, PostBatch, DrainRefresh
    <2> QED BY <2>1, ReconcileKeeps, FollowsKept
  <1>4. CASE ScanBatch(t.fork)
    <2> DEFINE batch == run.first..run.last
    <2>0. /\ run.first \in 0..MaxHeight /\ run.last \in 0..MaxHeight
          /\ run.first \in 1..run.last
      BY <1>4, RunFields DEF ScanBatch, SyncInv, StoreOK, TypeOK
    <2>1. run.first \in 1..MaxHeight /\ run.last \in 1..MaxHeight
      BY <2>0, SyncAssumption
    <2>2. Conflicts(run.first, run.last, t.fork) = {}
      BY <1>f, <2>1, NoConflicts
    <2>3. \/ UNCHANGED blocks
          \/ blocks' = [h \in Heights |-> IF h \in batch THEN Block(h, t.fork)
                                                         ELSE blocks[h]]
      BY <1>4, <2>2 DEF ScanBatch, store
    <2>4. CASE blocks' = [h \in Heights |-> IF h \in batch THEN Block(h, t.fork)
                                                           ELSE blocks[h]]
      <3> HIDE DEF batch
      <3> QED BY <2>4 DEF Follows, KeepsBlocks, Block
    <2> QED BY <2>3, <2>4, FollowsKept
  <1>5. CASE AnchorRepair(t.fork, run.anchor + 1)
    <2>1. \A h \in Heights : blocks'[h] \in {None, blocks[h]}
      BY <1>5 DEF AnchorRepair, Fails, RewindTo, Truncated, store
    <2> QED BY <1>5, <2>1 DEF Follows, Block
  <1> QED BY <1>1, <1>2, <1>3, <1>4, <1>5 DEF AgreedStep, Engine

\* A wallet on the chain its endpoints serve stays on it and gives up no block
\* of it: neither classify_refreshed_tip nor the continuity check of a batch
\* rewinds without a contradiction, whatever earlier runs left in the queue.
\* Only the anchor repair may, for want of a block below the anchor.
THEOREM NoNeedlessRewind ==
  Spec => [][\A t \in Tips : Follows(t.fork) /\ AgreedStep(t) =>
                /\ Follows(t.fork)'
                /\ KeepsBlocks \/ AnchorRepair(t.fork, run.anchor + 1)]_vars
<1>1. TypeOK /\ SyncInv =>
        \A t \in Tips : Follows(t.fork) /\ AgreedStep(t) =>
            /\ Follows(t.fork)'
            /\ KeepsBlocks \/ AnchorRepair(t.fork, run.anchor + 1)
  BY AgreedSteps
<1> QED BY <1>1, SyncTyped, SyncInvariant, PTL
=============================================================================
