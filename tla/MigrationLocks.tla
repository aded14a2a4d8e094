--------------------------- MODULE MigrationLocks ---------------------------
(***************************************************************************)
(* The wallet locks of one migration run and the phase they follow:        *)
(* reconcile_wallet_locks_for_run and reconcile_wallet_locks_after_sync of *)
(* rust/src/wallet/sync/migration.rs, ensure_orchard_migration_locks and   *)
(* unlock_orchard_migration_outputs of migration_wallet_ops.rs.            *)
(*                                                                         *)
(* The phase and the locks are written by different APIs, never in one     *)
(* transaction.  A call that holds the account's guard ("op") and the pass *)
(* after a sync ("sync") may reconcile at the same time, and either may    *)
(* stop between two steps.  Only the class of the phase matters here;      *)
(* MigrationRun has the phases.                                            *)
(***************************************************************************)
EXTENDS Integers

CONSTANTS
    Notes,      \* wallet_lock_candidates of the run
    MaxRounds,  \* rounds of one reconciliation, 8 in the code
    MaxTurns,   \* bound: times a released run becomes active again
    MaxFaults   \* bound: storage errors and crashes

ASSUME LocksAssumption ==
    MaxRounds \in Nat \ {0} /\ MaxTurns \in Nat /\ MaxFaults \in Nat

VARIABLES
    phase,    \* "new", "active", "released" or, after a failed creation, "deleted"
    note,     \* what the wallet API says of each candidate
    lock,     \* notes locked for the run's owner
    rec,      \* the reconciliation each actor is in
    creating, \* the op's reconciliation belongs to create_run
    turns,
    faults,
    fresh,    \* actors whose reconciliation has read the phase since the last change
    settled   \* such a reconciliation has completed

ghosts == <<fresh, settled>>
vars == <<phase, note, lock, rec, creating, turns, faults, fresh, settled>>

Actors == {"op", "sync"}
Recs == [st : {"idle", "read", "apply", "check", "unlock", "delete"},
         release : BOOLEAN, round : 0..MaxRounds]
NoRec == [st |-> "idle", release |-> FALSE, round |-> 0]
Begin == [NoRec EXCEPT !.st = "read"]

TypeOK ==
    /\ phase \in {"new", "active", "released", "deleted"}
    /\ note \in [Notes -> {"unseen", "spendable", "spent"}]
    /\ lock \in SUBSET Notes
    /\ rec \in [Actors -> Recs]
    /\ creating \in BOOLEAN
    /\ fresh \in SUBSET Actors /\ settled \in BOOLEAN
    /\ turns \in 0..MaxTurns /\ faults \in 0..MaxFaults

Idle(a) == rec[a].st = "idle"
Spendable == {n \in Notes : note[n] = "spendable"}

\* migration_phase_releases_wallet_locks
Releases == phase = "released"

Init ==
    /\ phase = "new"
    /\ note \in [Notes -> {"unseen", "spendable"}]
    /\ lock = {} /\ rec = [a \in Actors |-> NoRec] /\ creating = FALSE
    /\ turns = 0 /\ faults = 0 /\ fresh = {} /\ settled = FALSE

\* A change of the phase, the notes or the locks that calls for a reconciliation
Disturb == fresh' = {} /\ settled' = FALSE
-----------------------------------------------------------------------------
(***************************************************************************)
(* Changes of the phase                                                    *)
(***************************************************************************)
\* create_run_with_staged_denominations_and_signed_children
CreateRun ==
    /\ Idle("op") /\ phase = "new"
    /\ phase' = "active"
    /\ creating' = TRUE /\ Disturb
    /\ rec' = [rec EXCEPT !["op"] = Begin]
    /\ UNCHANGED <<note, lock, turns, faults>>

\* retire_run_for_rebuild and abandon_run; abandoning again only reconciles.
EndRun ==
    /\ Idle("op") /\ phase \in {"active", "released"}
    /\ phase' = "released"
    /\ Disturb
    /\ rec' = [rec EXCEPT !["op"] = Begin]
    /\ UNCHANGED <<note, lock, creating, turns, faults>>

\* reconcile_run_pending_confirmations completes a run and leaves its locks.
CompleteByCall ==
    /\ Idle("op") /\ phase = "active"
    /\ phase' = "released" /\ Disturb
    /\ UNCHANGED <<note, lock, rec, creating, turns, faults>>

\* A phase written without looking at the one it replaces (mark_run_phase, or
\* reschedule_wallet_overdue_pending_txs of another account)
Revive ==
    /\ phase = "released" /\ turns < MaxTurns
    /\ phase' = "active" /\ Disturb
    /\ turns' = turns + 1
    /\ UNCHANGED <<note, lock, rec, creating, faults>>

\* Mutant: the pass only looks at active runs.
SyncPassActiveOnly(ph) ==
    /\ Idle("sync") /\ phase = "active"
    /\ phase' = ph /\ Disturb
    /\ rec' = [rec EXCEPT !["sync"] = IF ph = "active" THEN Begin ELSE NoRec]
    /\ UNCHANGED <<note, lock, creating, turns, faults>>

\* Mutant: the pass skips a run it has locked before.
SyncPassCached(ph) ==
    /\ Idle("sync") /\ phase \in {"active", "released"}
    /\ ph = phase /\ (phase = "active" => lock = {})
    /\ Disturb
    /\ rec' = [rec EXCEPT !["sync"] = Begin]
    /\ UNCHANGED <<phase, note, lock, creating, turns, faults>>

\* reconcile_wallet_locks_after_sync: the scanned chain completes the run or
\* shows that it failed wrongly, then every run is reconciled.
SyncPass(ph) ==
    /\ Idle("sync") /\ phase \in {"active", "released"}
    /\ phase = "released" /\ ph = "active" => turns < MaxTurns
    /\ phase' = ph
    /\ turns' = IF phase = "released" /\ ph = "active" THEN turns + 1 ELSE turns
    /\ IF ph = phase THEN UNCHANGED ghosts ELSE Disturb
    /\ rec' = [rec EXCEPT !["sync"] = Begin]
    /\ UNCHANGED <<note, lock, creating, faults>>

-----------------------------------------------------------------------------
(***************************************************************************)
(* reconcile_wallet_locks_for_run_inner                                    *)
(***************************************************************************)
\* The call ends: op's returns to its caller, which for a run that was just
\* created removes it after an error.
Ends(a, ok) ==
    /\ rec' = [rec EXCEPT ![a] = IF a = "op" /\ creating /\ ~ok
                                 THEN [NoRec EXCEPT !.st = "unlock"] ELSE NoRec]
    /\ creating' = IF a = "op" THEN FALSE ELSE creating

\* wallet_lock_reconciliation_snapshot
ReadLocks(a) ==
    /\ rec[a].st = "read"
    /\ IF phase = "deleted"
       THEN Ends(a, TRUE)
       ELSE /\ rec' = [rec EXCEPT ![a].st = "apply", ![a].release = Releases]
            /\ UNCHANGED creating
    /\ fresh' = fresh \cup {a}
    /\ UNCHANGED <<phase, note, lock, turns, faults, settled>>

\* unlock_orchard_migration_outputs, ensure_orchard_migration_locks: the latter
\* skips notes the wallet cannot spend yet.
ApplyLocks(a) ==
    /\ rec[a].st = "apply"
    /\ lock' = IF rec[a].release THEN {} ELSE lock \cup Spendable
    /\ rec' = [rec EXCEPT ![a].st = "check"]
    /\ UNCHANGED <<phase, note, creating, turns, faults, ghosts>>

\* Without a target height nothing is locked; a finished scan has one.
ApplyWaits ==
    /\ rec["op"].st = "apply" /\ ~rec["op"].release
    /\ rec' = [rec EXCEPT !["op"].st = "check"]
    /\ Disturb
    /\ UNCHANGED <<phase, note, lock, creating, turns, faults>>

\* Mutant: what was applied is not compared with the phase again.
CheckLocksNever(a) ==
    /\ rec[a].st = "check"
    /\ Ends(a, TRUE)
    /\ lock' = IF phase = "deleted" THEN {} ELSE lock
    /\ settled' = (settled \/ a \in fresh)
    /\ UNCHANGED <<phase, note, turns, faults, fresh>>

\* Mutant: the rounds are not bounded.
CheckLocksForever(a) ==
    /\ rec[a].st = "check"
    /\ lock' = IF phase = "deleted" THEN {} ELSE lock
    /\ IF phase = "deleted" \/ rec[a].release = Releases
       THEN /\ Ends(a, TRUE)
            /\ settled' = (settled \/ a \in fresh) /\ UNCHANGED fresh
       ELSE /\ rec' = [rec EXCEPT ![a].st = "read", ![a].round = @ + 1]
            /\ UNCHANGED <<creating, ghosts>>
    /\ UNCHANGED <<phase, note, turns, faults>>

\* The second snapshot: a deleted run keeps no lock, a changed one is
\* reconciled again, up to a bound.
CheckLocks(a) ==
    /\ rec[a].st = "check"
    /\ lock' = IF phase = "deleted" THEN {} ELSE lock
    /\ IF phase = "deleted" \/ rec[a].release = Releases
       THEN /\ Ends(a, TRUE)
            /\ settled' = (settled \/ a \in fresh) /\ UNCHANGED fresh
       ELSE IF rec[a].round + 1 < MaxRounds
       THEN /\ rec' = [rec EXCEPT ![a].st = "read", ![a].round = @ + 1]
            /\ UNCHANGED <<creating, ghosts>>
       ELSE Ends(a, FALSE) /\ Disturb
    /\ UNCHANGED <<phase, note, turns, faults>>

\* A storage error, or a note that a send has locked
LocksFail(a) ==
    /\ rec[a].st \in {"read", "apply", "check"} /\ faults < MaxFaults
    /\ Ends(a, FALSE)
    /\ faults' = faults + 1 /\ Disturb
    /\ UNCHANGED <<phase, note, lock, turns>>

\* cleanup_failed_created_run: the run is kept unless its locks were removed.
CleanupUnlock(ok) ==
    /\ rec["op"].st = "unlock"
    /\ ok \/ faults < MaxFaults
    /\ faults' = IF ok THEN faults ELSE faults + 1
    /\ lock' = IF ok THEN {} ELSE lock
    /\ rec' = [rec EXCEPT !["op"] = IF ok THEN [NoRec EXCEPT !.st = "delete"] ELSE NoRec]
    /\ Disturb
    /\ UNCHANGED <<phase, note, creating, turns>>

CleanupDelete(ok) ==
    /\ rec["op"].st = "delete"
    /\ ok \/ faults < MaxFaults
    /\ faults' = IF ok THEN faults ELSE faults + 1
    /\ phase' = IF ok THEN "deleted" ELSE phase
    /\ rec' = [rec EXCEPT !["op"] = NoRec]
    /\ Disturb
    /\ UNCHANGED <<note, lock, creating, turns>>
-----------------------------------------------------------------------------
\* A scan finds the output of a denomination transaction ...
Discover(n) ==
    /\ note[n] = "unseen"
    /\ note' = [note EXCEPT ![n] = "spendable"]
    /\ Disturb
    /\ UNCHANGED <<phase, lock, rec, creating, turns, faults>>

\* ... or that a note was spent.
Spend(n) ==
    /\ note[n] = "spendable"
    /\ note' = [note EXCEPT ![n] = "spent"]
    /\ UNCHANGED <<phase, lock, rec, creating, turns, faults, ghosts>>

Crash ==
    /\ faults < MaxFaults /\ \E a \in Actors : ~Idle(a)
    /\ rec' = [a \in Actors |-> NoRec]
    /\ creating' = FALSE /\ Disturb
    /\ faults' = faults + 1
    /\ UNCHANGED <<phase, note, lock, turns>>

Reconciling(a) == ReadLocks(a) \/ ApplyLocks(a) \/ CheckLocks(a)

Next ==
    \/ CreateRun \/ EndRun \/ CompleteByCall \/ Revive \/ ApplyWaits \/ Crash
    \/ \E ph \in {"active", "released"} : SyncPass(ph)
    \/ \E a \in Actors : Reconciling(a) \/ LocksFail(a)
    \/ \E ok \in BOOLEAN : CleanupUnlock(ok) \/ CleanupDelete(ok)
    \/ \E n \in Notes : Discover(n) \/ Spend(n)

Spec == Init /\ [][Next]_vars

\* The wallet syncs again and again, and a pass that began goes on.
FairSpec ==
    /\ Spec
    /\ WF_vars(\E ph \in {"active", "released"} : SyncPass(ph))
    /\ WF_vars(Reconciling("sync"))
    /\ WF_vars(Reconciling("op"))
-----------------------------------------------------------------------------
(***************************************************************************)
(* Properties                                                              *)
(***************************************************************************)
Matches == IF Releases THEN lock = {} ELSE Spendable \subseteq lock

\* When no reconciliation is under way and one has completed since the last
\* change that calls for it, the locks are those of the phase: two that cross
\* do not leave what the older one applied (reconcile_wallet_locks_for_run).
SettledLocksMatch ==
    settled /\ (\A a \in Actors : Idle(a)) /\ phase # "deleted" => Matches

\* A run that has ended gives its notes back, also when the call that ended it
\* reconciled nothing or died (reconcile_wallet_locks_after_sync).
EndedRunUnlocks ==
    <>[](phase = "released") => <>[](lock = {})

\* The notes of an active run are locked in the end, also those a later scan
\* discovers, and those of a run that was released by mistake.
ActiveRunLocks ==
    <>[](phase = "active") => <>[](Spendable \subseteq lock)
=============================================================================
