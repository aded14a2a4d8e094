---------------------------- MODULE MigrationRun ----------------------------
(***************************************************************************)
(* The life cycle of one Ironwood migration run whose notes are prepared:  *)
(* rust/src/wallet/sync/migration.rs and the calls of                      *)
(* rust/src/wallet/sync/send.rs and send/ironwood_migration.rs that drive  *)
(* it.                                                                     *)
(*                                                                         *)
(* A run moves each of its notes (a part) to the new pool with one         *)
(* transaction.  The transactions are signed in advance, proved, given a   *)
(* random broadcast height and an expiry that is canonical for it, sent    *)
(* one at a time when due, signed again when they expire or cross an       *)
(* expiry boundary, and confirmed from what sync has scanned.  Calls of    *)
(* one account exclude each other (ActiveIronwoodMigration); sync does     *)
(* not take that guard, nor does a call of another account that redraws    *)
(* the overdue transfers of the whole wallet.  Every database transaction  *)
(* of a call is a step of its own, so is the reading that a later one      *)
(* relies on, and the process may die between them.                        *)
(*                                                                         *)
(* Simplifications.  Generation g of a part is the g-th transaction signed *)
(* for its note.  Heights are what they mean to a transaction: its         *)
(* broadcast height is not reached ("early"), reached ("due"), the tip     *)
(* has left the window its expiry is canonical for ("crossed"), or the     *)
(* expiry is passed ("expired").  A scan brings the wallet to the chain.   *)
(* The statements of reconcile_run_confirmations are one step.  The output *)
(* locks that follow the phase are in MigrationLocks.  The outbox from     *)
(* which iOS background tasks send is not part of the model.               *)
(***************************************************************************)
EXTENDS Integers, FiniteSets

CONSTANTS
    Parts,      \* the prepared notes of the run
    NoPart,     \* a call that has chosen none
    Signers,    \* "Software", "Keystone"
    MaxGen,     \* bound: transactions signed for one part
    MaxSetbacks, \* bound: transactions that leave the chain, signatures renewed and
                \* readings of what is overdue by a call of another account
    Redrawn     \* bound: who signs for a run that another account redraws

Gens == 1..MaxGen
Txs == Parts \X Gens  \* a transaction: a part and its generation

ASSUME MigrationAssumption ==
    /\ Parts # {} /\ IsFiniteSet(Parts) /\ NoPart \notin Parts
    /\ Signers \in SUBSET {"Software", "Keystone"}
    /\ MaxGen \in Nat \ {0} /\ MaxSetbacks \in Nat

VARIABLES
    phase,    \* phase of the run, "none" without one
    already,  \* last_error says that the node already has the transaction
    row,      \* vizor_migration_pending_txs
    age,      \* how the current transaction of a part relates to the tip
    signed,   \* vizor_migration_signed_child_pczts
    signer,   \* who signs for the account
    stored,   \* parts whose current transaction the wallet database has
    op,       \* the call that holds the account's guard
    request,  \* keystone_migration_requests
    wire,     \* transactions some node may still hold
    mined,    \* the transaction of a part that is in the chain, 0 without one
    seen,     \* what the wallet has scanned of mined ...
    trusted,  \* ... and at the trusted depth, where it stays
    setbacks,
    listed,   \* transfers a call of another account has read as overdue
    stopped   \* whether the user has stopped the run (history)

run == <<phase, already, row, age, signed, signer>>
wallet == <<stored, seen, trusted>>
chain == <<wire, mined, setbacks>>
calls == <<op, request>>
outside == <<listed, stopped>>
vars == <<phase, already, row, age, signed, signer, stored, op, request, wire,
          mined, seen, trusted, setbacks, listed, stopped>>

Released == {"complete", "failed_terminal", "abandoned"}
Working == {"ready_to_migrate", "broadcast_scheduled", "broadcasting",
            "waiting_migration_confirmations", "failed_recoverable"}
Phases == Released \cup Working \cup {"none"}

\* A row is there exactly when its part has a transaction.  Without one, gen is
\* still the last that was signed.
NoRow == [st |-> "none", gen |-> 0, att |-> FALSE]
Rows == [st : {"scheduled", "broadcasted", "needs_resign", "confirmed"},
         gen : Gens, att : BOOLEAN]
        \cup [st : {"none"}, gen : 0..MaxGen, att : {FALSE}]

\* flow is "resume" and "sign" up to the steps only those calls have, "send"
\* in broadcast_due_scheduled_migration_txs, "stop" in an abandonment.
Ops == [pc : {"idle", "store", "stamp", "recheck", "policy", "expire",
              "rebuild", "prepare", "finalize", "crossed", "due", "mark",
              "attempt", "send", "unknown", "rejected", "accepted", "record",
              "redraw", "reschedule", "query", "abandon"},
        flow : {"none", "resume", "sign", "send", "stop"},
        part : Parts \cup {NoPart}, ph : Phases, read : SUBSET Txs]
NoRequest == [parts |-> {}, recovery |-> FALSE]
Idle == [pc |-> "idle", flow |-> "none", part |-> NoPart, ph |-> "none",
         read |-> {}]

TypeOK ==
    /\ phase \in Phases /\ already \in BOOLEAN
    /\ row \in [Parts -> Rows]
    /\ age \in [Parts -> {"early", "due", "crossed", "expired"}]
    /\ signed \in SUBSET Parts /\ signer \in Signers
    /\ stored \in SUBSET Parts
    /\ op \in Ops
    /\ request \in [parts : SUBSET Parts, recovery : BOOLEAN]
    /\ wire \in [Parts -> SUBSET Gens] /\ mined \in [Parts -> 0..MaxGen]
    /\ seen \in [Parts -> 0..MaxGen]
    /\ trusted \in SUBSET Parts /\ setbacks \in 0..MaxSetbacks
    /\ listed \in SUBSET Txs /\ stopped \in BOOLEAN
-----------------------------------------------------------------------------
(***************************************************************************)
(* Rows                                                                    *)
(***************************************************************************)
\* migration_phase_releases_wallet_locks; active_run
Releases(ph) == ph \in Released
Active == phase \in Working

In(states) == {p \in Parts : row[p].st \in states}
Present == {p \in Parts : row[p].st # "none"}

\* unpromoted_signed_child_pczt_count_with_conn
Unpromoted == signed \ Present

\* migration_part_assignment_complete_with_conn
AssignmentComplete == Parts = Present \cup signed

\* broadcasted_pending_txs_missing_local_identity
Missing == {p \in In({"broadcasted"}) : p \notin stored}

\* pending_row_is_expired_for_resign
Expired(r, p) ==
    /\ age[p] = "expired"
    /\ \/ r.st = "scheduled"
       \/ r.st = "broadcasted" /\ p \in stored

\* A note the wallet API returns as spendable: neither a scanned nor a stored,
\* unexpired transaction spends it.
Spendable(p) ==
    /\ seen[p] = 0
    /\ p \in stored => age[p] = "expired"
-----------------------------------------------------------------------------
(***************************************************************************)
(* reconcile_run_confirmations: rows follow the scanned chain, a finished  *)
(* run becomes complete.  A run that has ended is left alone.              *)
(***************************************************************************)
Demoted(p) == row[p].st = "confirmed" /\ seen[p] # row[p].gen

ReconciledRow(p) ==
    IF row[p].st \in {"scheduled", "broadcasted"} /\ seen[p] = row[p].gen
    THEN [row[p] EXCEPT !.st = "confirmed"]
    ELSE IF Demoted(p) THEN [row[p] EXCEPT !.st = "scheduled"] ELSE row[p]

ReconciledRows == IF Active THEN [p \in Parts |-> ReconciledRow(p)] ELSE row

\* A demoted row is due at once: its schedule restarts at its target height.
ReconciledAge ==
    [p \in Parts |-> IF Active /\ Demoted(p) /\ age[p] = "early" THEN "due"
                     ELSE age[p]]

AllConfirmed == \A p \in Present : ReconciledRow(p).st = "confirmed"

\* Mutant: every transaction there is has confirmed, planned or not.
FinishedUnplanned ==
    Present # {} /\ AllConfirmed /\ Present \subseteq trusted

\* Every planned part has a transaction, and all are at the trusted depth.
Finished ==
    /\ Present = Parts /\ AllConfirmed /\ Unpromoted = {}
    /\ \A p \in Parts : p \in trusted

ReconciledPhase ==
    IF ~Active THEN phase
    ELSE IF Finished THEN "complete"
    ELSE IF \/ \E p \in Parts : Demoted(p)
            \/ phase = "waiting_migration_confirmations" /\ Unpromoted # {}
            \/ /\ phase = "waiting_migration_confirmations"
               /\ Present # {} /\ AllConfirmed /\ Present # Parts
         THEN "broadcast_scheduled"
    ELSE phase

\* Signed children are kept until the run completes.
ReconciledSigned == IF Active /\ Finished THEN {} ELSE signed

Reconcile ==
    /\ row' = ReconciledRows
    /\ age' = ReconciledAge
    /\ phase' = ReconciledPhase
    /\ signed' = ReconciledSigned
    /\ UNCHANGED <<already, signer>>

\* The reconciliation and a change of the rows in marks to needs_resign, in
\* one database transaction; marks holds rows as the reconciliation left them.
ReconcileAndMark(marks) ==
    /\ row' = [p \in Parts |-> IF p \in marks
                               THEN [ReconciledRows[p] EXCEPT !.st = "needs_resign"]
                               ELSE ReconciledRows[p]]
    /\ age' = ReconciledAge
    /\ phase' = IF marks = {} THEN ReconciledPhase ELSE "ready_to_migrate"
    /\ signed' = ReconciledSigned
    /\ UNCHANGED <<already, signer>>

\* update_run_after_pending_broadcast, for the rows the update leaves
PhaseAfterBroadcast(rows) ==
    IF \E p \in Parts : rows[p].st = "needs_resign" THEN "ready_to_migrate"
    ELSE IF \/ \E p \in Parts : rows[p].st = "scheduled"
            \/ \E p \in Parts : rows[p].st = "none"
            \/ Unpromoted # {}
         THEN "broadcast_scheduled"
    ELSE "waiting_migration_confirmations"

\* mark_pending_broadcasted, whatever the row says meanwhile.
MarkPendingBroadcasted(p) ==
    /\ row' = [row EXCEPT ![p].st = IF @ = "none" THEN @ ELSE "broadcasted"]
    /\ phase' = PhaseAfterBroadcast(row')
    /\ UNCHANGED <<already, age, signed, signer>>

\* A new transaction for each part of ps, scheduled ahead of the tip.
Resigned(ps) ==
    /\ setbacks + Cardinality(ps) <= MaxSetbacks
    /\ \A p \in ps : row[p].gen < MaxGen
    /\ row' = [p \in Parts |-> IF p \in ps
                               THEN [st |-> "scheduled", gen |-> row[p].gen + 1,
                                     att |-> FALSE]
                               ELSE row[p]]
    /\ setbacks' = setbacks + Cardinality(ps)
    /\ age' = [p \in Parts |-> IF p \in ps THEN "early" ELSE age[p]]
    /\ stored' = stored \ ps

\* reschedule_overdue_pending_txs_with_options, the reading
OverdueTxs ==
    {<<p, row[p].gen>> : p \in {q \in In({"scheduled"}) : age[q] # "early"}}

\* ... and the transaction that follows.  A row that is still there and
\* scheduled gets a later height, or needs a new signature when that height has
\* another expiry.  For one transfer of resign the run is set back to signing,
\* whether its row was found or not and whatever the phase has become.
Reschedule(read, resign) ==
    LET found == {p \in In({"scheduled"}) : <<p, row[p].gen>> \in read}
        again == {p \in found : <<p, row[p].gen>> \in resign}
    IN /\ row' = [p \in Parts |-> IF p \in again
                                  THEN [row[p] EXCEPT !.st = "needs_resign"]
                                  ELSE row[p]]
       /\ age' = [p \in Parts |-> IF p \in found \ again /\ age[p] = "due"
                                  THEN "early" ELSE age[p]]
       /\ phase' = IF resign = {} THEN phase ELSE "ready_to_migrate"
       /\ already' = IF resign = {} THEN already ELSE FALSE
       /\ UNCHANGED <<signed, signer>>

\* retire_run_for_rebuild
RetireRun ==
    /\ phase' = "failed_terminal"
    /\ already' = FALSE
    /\ op' = Idle
    /\ UNCHANGED <<row, age, signed, signer, request>>
-----------------------------------------------------------------------------
(***************************************************************************)
(* Creating and signing                                                    *)
(***************************************************************************)
InitNew ==
    /\ phase = "none" /\ already = FALSE
    /\ row = [p \in Parts |-> NoRow]
    /\ age = [p \in Parts |-> "early"]
    /\ signed = {} /\ signer \in Signers
    /\ stored = {}
    /\ op = Idle /\ request = NoRequest
    /\ wire = [p \in Parts |-> {}] /\ mined = [p \in Parts |-> 0]
    /\ seen = [p \in Parts |-> 0] /\ trusted = {} /\ setbacks = 0
    /\ listed = {} /\ stopped = FALSE

\* A run an older release ended when the node answered that it already had
\* the transaction (recover_latest_idempotent_broadcast_failure).
InitFalseTerminal ==
    /\ phase = "failed_terminal" /\ already = TRUE
    /\ row = [p \in Parts |-> [st |-> "scheduled", gen |-> 1, att |-> TRUE]]
    /\ age = [p \in Parts |-> "due"]
    /\ signed = Parts /\ signer \in Signers
    /\ stored = {}
    /\ op = Idle /\ request = NoRequest
    /\ wire = [p \in Parts |-> {1}] /\ mined = [p \in Parts |-> 0]
    /\ seen = [p \in Parts |-> 0] /\ trusted = {} /\ setbacks = 0
    /\ listed = {} /\ stopped = FALSE

Init == InitNew \/ InitFalseTerminal

\* create_run_with_staged_denominations_and_signed_children, no stages: the
\* software signer signs every part before, the Keystone in batches after.
CreateRun ==
    /\ op = Idle /\ phase = "none"
    /\ phase' = "ready_to_migrate"
    /\ signed' = IF signer = "Software" THEN Parts ELSE {}
    /\ op' = IF signer = "Software"
             THEN [Idle EXCEPT !.pc = "finalize", !.flow = "send"] ELSE Idle
    /\ UNCHANGED <<already, row, age, signer, wallet, chain, request, outside>>

\* prepare_orchard_migration_batch_pczt: no storage retry comes first.
PrepareBatch ==
    /\ op = Idle /\ Active /\ signer = "Keystone"
    /\ op' = [Idle EXCEPT !.pc = "policy", !.flow = "sign"]
    /\ UNCHANGED <<run, wallet, chain, request, outside>>

\* The parts that need a new signature, else the next unassigned ones.
SigningRequest(ps) ==
    /\ op.pc = "prepare"
    /\ ps # {} /\ request = NoRequest
    /\ IF In({"needs_resign"}) # {}
       THEN /\ ps \subseteq In({"needs_resign"})
            /\ \A p \in ps : Spendable(p)
       ELSE ps \subseteq Parts \ (Present \cup signed)
    /\ request' = [parts |-> ps, recovery |-> In({"needs_resign"}) # {}]
    /\ op' = Idle
    /\ UNCHANGED <<run, wallet, chain, outside>>

\* A request is in progress or there is nothing to sign; or the notes cannot
\* be spent yet (mark_prepared_notes_waiting).
SigningRequestFails(waiting) ==
    /\ op.pc = "prepare"
    /\ waiting => In({"needs_resign"}) # {} /\ request = NoRequest
    /\ phase' = IF waiting THEN "ready_to_migrate" ELSE phase
    /\ op' = Idle
    /\ UNCHANGED <<already, row, age, signed, signer, wallet, chain, request,
                   outside>>

\* complete_orchard_migration_batch_pczt, initial signatures: an error, which
\* keeps the request, unless the run is ready (persist_signed_child_pczts_for_run)
CompleteBatch ==
    /\ op = Idle /\ request.parts # {} /\ ~request.recovery
    /\ phase = "ready_to_migrate"
    /\ signed' = signed \cup request.parts
    /\ request' = NoRequest
    /\ UNCHANGED <<phase, already, row, age, signer, wallet, chain, op,
                   outside>>

\* complete_orchard_migration_batch_pczt, replacements
\* (replace_resigned_pending_parts)
CompleteRecovery ==
    /\ op = Idle /\ request.parts # {} /\ request.recovery
    /\ Active /\ request.parts \subseteq In({"needs_resign"})
    /\ Resigned(request.parts)
    /\ phase' = "broadcast_scheduled" /\ already' = FALSE
    /\ request' = NoRequest
    /\ UNCHANGED <<signed, signer, seen, trusted, wire, mined, op, outside>>

\* discard_keystone_migration_request, which takes no guard
DiscardRequest ==
    /\ request # NoRequest
    /\ request' = NoRequest
    /\ UNCHANGED <<run, wallet, chain, op, outside>>
-----------------------------------------------------------------------------
(***************************************************************************)
(* Resuming: migrate_orchard_to_ironwood and                               *)
(* broadcast_due_orchard_migration_transactions_inner                      *)
(***************************************************************************)
Resume ==
    /\ op = Idle /\ Active /\ signer = "Software"
    /\ op' = [Idle EXCEPT !.pc = "store", !.flow = "resume"]
    /\ UNCHANGED <<run, wallet, chain, request, outside>>

\* Due transfers are sent first, else missing proofs are made, unless the
\* phase read at the start says that the run is elsewhere.
BroadcastDue ==
    /\ op = Idle /\ Active
    /\ Reconcile
    /\ op' = IF \/ \E p \in Parts : row'[p].st = "scheduled" /\ age'[p] # "early"
                \/ Unpromoted = {} /\ Present # {}
             THEN [Idle EXCEPT !.pc = "store", !.flow = "send"]
             ELSE IF /\ Unpromoted # {}
                     /\ phase \in {"ready_to_migrate", "broadcast_scheduled"}
             THEN [Idle EXCEPT !.pc = "finalize", !.flow = "send"]
             ELSE Idle
    /\ UNCHANGED <<wallet, chain, request, outside>>

Goto(pc) == op' = [op EXCEPT !.pc = pc]

\* retry_store_broadcasted_migration_txs_missing_local, up to the phase it
\* reads to write it back with a message.
StoreRetry(ps) ==
    /\ op.pc = "store"
    /\ ps \subseteq Missing
    /\ stored' = stored \cup ps
    /\ op' = IF Missing = {} THEN [op EXCEPT !.pc = "recheck"]
             ELSE [op EXCEPT !.pc = "stamp", !.ph = phase]
    /\ UNCHANGED <<run, chain, seen, trusted, request, outside>>

\* mark_run_phase with the phase read before, which sync may have changed. A
\* call that failed to store the transaction it just sent may go on to redraw.
StampPhase ==
    /\ op.pc = "stamp"
    /\ phase' = op.ph
    /\ op' = IF op.part = NoPart THEN [op EXCEPT !.pc = "recheck", !.ph = "none"]
             ELSE [op EXCEPT !.pc = "redraw", !.ph = "none"]
    /\ UNCHANGED <<already, row, age, signed, signer, wallet, chain, request,
                   outside>>

\* Mutant: the call goes on although accepted transactions are not stored.
RecheckIgnoresMissing ==
    /\ op.pc = "recheck"
    /\ Reconcile
    /\ Goto("policy")
    /\ UNCHANGED <<wallet, chain, request, outside>>

\* retry_store_then_pending_migration_policy_rebuild_message: accepted
\* transactions that are still not stored end the call.
Recheck ==
    /\ op.pc = "recheck"
    /\ Reconcile
    /\ op' = IF \E p \in Parts : row'[p].st = "broadcasted"
                                 /\ p \notin stored
             THEN Idle ELSE [op EXCEPT !.pc = "policy"]
    /\ UNCHANGED <<wallet, chain, request, outside>>

\* scheduled_inputs_spent_by_mined_transactions: the row's own transaction
\* does not count.
SpentOutside(p) ==
    /\ row[p].st \in {"scheduled", "broadcasted", "needs_resign"}
    /\ seen[p] \notin {0, row[p].gen}

\* pending_migration_policy_rebuild_message: an outdated fee, which any
\* unconfirmed transaction may have, or an input spent elsewhere.
PolicyRebuild(feeChanged) ==
    /\ op.pc = "policy"
    /\ \/ feeChanged /\ In({"scheduled", "broadcasted", "needs_resign"}) # {}
       \/ \E p \in Parts : SpentOutside(p)
    /\ RetireRun
    /\ UNCHANGED <<wallet, chain, outside>>

PolicyKeeps ==
    /\ op.pc = "policy"
    /\ \A p \in Parts : ~SpentOutside(p)
    /\ Goto("expire")
    /\ UNCHANGED <<run, wallet, chain, request, outside>>

\* mark_expired_pending_parts_for_resign
MarkExpired ==
    /\ op.pc = "expire"
    /\ LET marks == {p \in Parts : Expired(ReconciledRows[p], p)}
       IN /\ ReconcileAndMark(marks)
          /\ op' = CASE op.flow = "resume" -> [op EXCEPT !.pc = "rebuild"]
                     [] op.flow = "sign" -> [op EXCEPT !.pc = "prepare"]
                     [] op.flow \notin {"resume", "sign"} ->
                          IF marks = {} THEN [op EXCEPT !.pc = "crossed"] ELSE Idle
    /\ UNCHANGED <<wallet, chain, request, outside>>

\* rebuild_expired_software_migration_parts: all parts at once.
Rebuild ==
    /\ op.pc = "rebuild"
    /\ LET ps == In({"needs_resign"})
       IN /\ \A p \in ps : Spendable(p) /\ p \in signed
          /\ Resigned(ps)
          /\ phase' = IF ps = {} THEN phase ELSE "broadcast_scheduled"
          /\ already' = (ps = {} /\ already)
    /\ op' = IF Unpromoted = {} THEN [op EXCEPT !.pc = "store", !.flow = "send"]
             ELSE [op EXCEPT !.pc = "finalize", !.flow = "send"]
    /\ UNCHANGED <<signed, signer, seen, trusted, wire, mined, request,
                   outside>>

\* A note that is spent, or has no witness yet, ends the call.
RebuildFails ==
    /\ op.pc = "rebuild"
    /\ In({"needs_resign"}) # {}
    /\ op' = Idle
    /\ UNCHANGED <<run, wallet, chain, request, outside>>

\* Mutant: a batch that is signed is promoted before the others are.
PromoteEarly(p) ==
    /\ op.pc = "finalize"
    /\ p \in Unpromoted /\ row[p].gen < MaxGen
    /\ row' = [row EXCEPT ![p].st = "scheduled", ![p].gen = @ + 1]
    /\ age' = [age EXCEPT ![p] = "early"]
    /\ phase' = "broadcast_scheduled"
    /\ op' = [op EXCEPT !.part = p]
    /\ UNCHANGED <<already, signed, signer, wallet, chain, request, outside>>

\* Mutant: the row is written before its transaction is extracted.
PromoteUnextracted(p) ==
    /\ op.pc = "finalize"
    /\ p \in Unpromoted /\ AssignmentComplete
    /\ row' = [row EXCEPT ![p].st = "scheduled"]
    /\ age' = [age EXCEPT ![p] = "early"]
    /\ phase' = "broadcast_scheduled"
    /\ op' = [op EXCEPT !.part = p]
    /\ UNCHANGED <<already, signed, signer, wallet, chain, request, outside>>

\* promote_signed_child_pczts_to_pending_txs, one proved child at a time and
\* only when every part has its signature
Promote(p) ==
    /\ op.pc = "finalize"
    /\ p \in Unpromoted /\ AssignmentComplete /\ row[p].gen < MaxGen
    /\ row' = [row EXCEPT ![p].st = "scheduled", ![p].gen = @ + 1]
    /\ age' = [age EXCEPT ![p] = "early"]
    /\ phase' = "broadcast_scheduled"
    /\ op' = [op EXCEPT !.part = p]
    /\ UNCHANGED <<already, signed, signer, wallet, chain, request, outside>>

\* The end of finalize_presigned_migration_children.  A child whose witness is
\* not ready is deferred; without any promotion the call ends.
Finalized(deferred, goesOn) ==
    /\ op.pc = "finalize"
    /\ deferred => Unpromoted # {} /\ AssignmentComplete
    /\ goesOn => op.part # NoPart
    /\ phase' = IF deferred THEN "ready_to_migrate" ELSE phase
    /\ op' = IF goesOn THEN [op EXCEPT !.pc = "store", !.part = NoPart] ELSE Idle
    /\ UNCHANGED <<already, row, age, signed, signer, wallet, chain, request,
                   outside>>
-----------------------------------------------------------------------------
(***************************************************************************)
(* Sending: broadcast_due_scheduled_migration_txs                          *)
(***************************************************************************)
\* mark_due_parts_with_noncanonical_broadcast_height_for_resign
MarkCrossed ==
    /\ op.pc = "crossed"
    /\ LET marks == {p \in Parts : /\ ReconciledRows[p].st = "scheduled"
                                   /\ ReconciledAge[p] \in {"crossed", "expired"}}
       IN /\ ReconcileAndMark(marks)
          /\ op' = IF marks = {} THEN [op EXCEPT !.pc = "due"] ELSE Idle
    /\ UNCHANGED <<wallet, chain, request, outside>>

\* due_pending_txs: the earliest due transfer the wallet has not seen mined
DuePending(p) ==
    /\ op.pc = "due"
    /\ Reconcile
    /\ row'[p].st = "scheduled" /\ age'[p] # "early" /\ seen[p] # row[p].gen
    /\ op' = [op EXCEPT !.pc = "mark", !.part = p]
    /\ UNCHANGED <<wallet, chain, request, outside>>

\* Nothing is due, or the background work was cancelled.
NoneDue ==
    /\ op.pc = "due"
    /\ Reconcile
    /\ op' = Idle
    /\ UNCHANGED <<wallet, chain, request, outside>>

\* mark_run_phase, whatever the phase has become meanwhile. A cancellation
\* sets the run back to scheduled.
MarkBroadcasting ==
    /\ op.pc = "mark"
    /\ phase' = "broadcasting"
    /\ Goto("attempt")
    /\ UNCHANGED <<already, row, age, signed, signer, wallet, chain, request,
                   outside>>

CancelBroadcast ==
    /\ op.pc = "attempt"
    /\ phase' = "broadcast_scheduled"
    /\ op' = Idle
    /\ UNCHANGED <<already, row, age, signed, signer, wallet, chain, request,
                   outside>>

\* Mutant: the attempt is not recorded before the transaction is sent.
MarkAttemptedUnsaved ==
    /\ op.pc = "attempt"
    /\ IF row[op.part].st = "scheduled" THEN Goto("send") ELSE op' = Idle
    /\ UNCHANGED <<run, wallet, chain, request, outside>>

\* mark_pending_broadcast_attempted: an error unless still scheduled
MarkAttempted ==
    /\ op.pc = "attempt"
    /\ IF row[op.part].st = "scheduled"
       THEN row' = [row EXCEPT ![op.part].att = TRUE] /\ Goto("send")
       ELSE op' = Idle /\ UNCHANGED row
    /\ UNCHANGED <<phase, already, age, signed, signer, wallet, chain, request,
                   outside>>

\* A node takes the transaction if it can still be mined.
Acceptable(p) == age[p] # "expired" /\ mined[p] \in {0, row[p].gen}

\* broadcast_raw_transaction_isolated: the answer, and what happened to the
\* transaction.  Without an answer nothing is known of it.
SendTx(answer, reached) ==
    /\ op.pc = "send"
    /\ answer = "accepted" => reached
    /\ answer = "rejected" => ~reached
    /\ reached => Acceptable(op.part)
    /\ wire' = IF reached /\ mined[op.part] = 0
               THEN [wire EXCEPT ![op.part] = @ \cup {row[op.part].gen}]
               ELSE wire
    /\ Goto(answer)
    /\ UNCHANGED <<run, wallet, mined, setbacks, request, outside>>

BroadcastUnknown ==
    /\ op.pc = "unknown"
    /\ phase' = "failed_recoverable"
    /\ op' = Idle
    /\ UNCHANGED <<already, row, age, signed, signer, wallet, chain, request,
                   outside>>

\* migration_broadcast_failure_requires_rebuild
BroadcastRejected ==
    /\ op.pc = "rejected"
    /\ RetireRun
    /\ UNCHANGED <<wallet, chain, outside>>

\* record_accepted_scheduled_migration_tx: store, then mark; when storing
\* fails, the row is marked all the same and the phase written again.
StoreAccepted(stores) ==
    /\ op.pc = "accepted"
    /\ stored' = IF stores THEN stored \cup {op.part} ELSE stored
    /\ Goto("record")
    /\ UNCHANGED <<run, chain, seen, trusted, request, outside>>

RecordAccepted ==
    /\ op.pc = "record"
    /\ MarkPendingBroadcasted(op.part)
    /\ op' = IF op.part \in stored
             THEN [op EXCEPT !.pc = "redraw"]
             ELSE [op EXCEPT !.pc = "stamp", !.ph = phase']
    /\ UNCHANGED <<wallet, chain, request, outside>>

\* reschedule_overdue_pending_txs, or reschedule_wallet_overdue_pending_txs,
\* after an accepted transfer: it is left out while it is not stored.
ReadOverdue ==
    /\ op.pc = "redraw"
    /\ LET read == {t \in OverdueTxs : t[1] = op.part => op.part \in stored}
       IN op' = IF read = {} THEN Idle
                ELSE [op EXCEPT !.pc = "reschedule", !.read = read]
    /\ UNCHANGED <<run, wallet, chain, request, outside>>

\* A height ahead of the tip is never canonical for a crossed expiry.
RedrawOverdue(resign) ==
    /\ op.pc = "reschedule"
    /\ resign \subseteq op.read
    /\ \A t \in op.read \ resign : age[t[1]] \in {"early", "due"}
    /\ Reschedule(op.read, resign)
    /\ op' = Idle
    /\ UNCHANGED <<wallet, chain, request, outside>>

RedrawSkipped ==
    /\ op.pc \in {"redraw", "reschedule"}
    /\ op' = Idle
    /\ UNCHANGED <<run, wallet, chain, request, outside>>

\* reschedule_wallet_overdue_pending_txs by a call for another account, which
\* holds another guard and looks at no phase: it reads the run and its overdue
\* transfers ...
ReadByOther ==
    /\ OverdueTxs \notin {{}, listed} /\ setbacks < MaxSetbacks
    /\ signer \in Redrawn
    /\ listed' = OverdueTxs
    /\ setbacks' = setbacks + 1
    /\ UNCHANGED <<run, wallet, wire, mined, calls, stopped>>

\* ... and writes what follows from them and the tip it read at its start.
RedrawByOther(resign) ==
    /\ listed # {} /\ resign \subseteq listed
    /\ Reschedule(listed, resign)
    /\ listed' = {}
    /\ UNCHANGED <<wallet, chain, calls, stopped>>
-----------------------------------------------------------------------------
(***************************************************************************)
(* Stopping                                                                *)
(***************************************************************************)
\* abandon_orchard_migration; a second call finishes what a first began
Stop ==
    /\ op = Idle /\ (Active \/ phase = "abandoned")
    /\ op' = [Idle EXCEPT !.pc = "query", !.flow = "stop"]
    /\ UNCHANGED <<run, wallet, chain, request, outside>>

\* scheduled_migration_stop_candidates that need the network
StopCandidates ==
    IF phase = "abandoned" THEN {}
    ELSE {p \in In({"scheduled"}) : row[p].att} \cup Missing

OnNetwork(p) == row[p].gen \in wire[p] \/ row[p].gen = mined[p]

\* reconcile_scheduled_migration_txs_before_abandon: a candidate a node knows
\* is stored and marked, one at a time
StopFinds(p) ==
    /\ op.pc = "query"
    /\ p \in StopCandidates /\ OnNetwork(p)
    /\ stored' = stored \cup {p}
    /\ MarkPendingBroadcasted(p)
    /\ UNCHANGED <<chain, seen, trusted, calls, outside>>

\* Unknown before its expiry, or no answer: the stop fails.
StopBlocked ==
    /\ op.pc = "query"
    /\ StopCandidates # {}
    /\ op' = Idle
    /\ UNCHANGED <<run, wallet, chain, request, outside>>

StopSettled ==
    /\ op.pc = "query"
    /\ \A p \in StopCandidates : ~OnNetwork(p) /\ age[p] = "expired"
    /\ Goto("abandon")
    /\ UNCHANGED <<run, wallet, chain, request, outside>>

Dropped(r) == [r EXCEPT !.st = "none", !.att = FALSE]

\* Mutant: scheduled transfers stay behind with their run.
AbandonKeepsScheduled ==
    /\ op.pc = "abandon"
    /\ op' = Idle
    /\ IF Active
       THEN LET dropped == In({"needs_resign"})
            IN /\ phase' = "abandoned" /\ stopped' = TRUE
               /\ signed' = {}
               /\ row' = [p \in Parts |-> IF p \in dropped THEN Dropped(row[p])
                                          ELSE row[p]]
               /\ age' = [p \in Parts |-> IF p \in dropped THEN "early" ELSE age[p]]
               /\ stored' = stored \ dropped
               /\ request' = NoRequest
       ELSE UNCHANGED <<phase, signed, row, age, stored, request, stopped>>
    /\ UNCHANGED <<already, signer, seen, trusted, chain, listed>>

\* abandon_run
AbandonRun ==
    /\ op.pc = "abandon"
    /\ op' = Idle
    /\ IF Active
       THEN LET dropped == In({"scheduled", "needs_resign"})
            IN /\ phase' = "abandoned" /\ stopped' = TRUE
               /\ signed' = {}
               /\ row' = [p \in Parts |-> IF p \in dropped THEN Dropped(row[p])
                                          ELSE row[p]]
               /\ age' = [p \in Parts |-> IF p \in dropped THEN "early" ELSE age[p]]
               /\ stored' = stored \ dropped
               /\ request' = NoRequest
       ELSE UNCHANGED <<phase, signed, row, age, stored, request, stopped>>
    /\ UNCHANGED <<already, signer, seen, trusted, chain, listed>>

\* retire_unbroadcast_orchard_migration: the node knows of no transaction well
\* after its broadcast height, which one held elsewhere does not contradict.
RetireUnbroadcast ==
    /\ op = Idle /\ Active
    /\ In({"scheduled", "broadcasted"}) # {}
    /\ \A p \in In({"scheduled", "broadcasted"}) :
          row[p].st = "scheduled" /\ age[p] # "early" /\ row[p].gen # mined[p]
    /\ RetireRun
    /\ UNCHANGED <<wallet, chain, outside>>
-----------------------------------------------------------------------------
(***************************************************************************)
(* Sync, the chain and the process                                         *)
(***************************************************************************)
\* The wallet scans up to the tip and records the transactions it finds; ps
\* are those at the trusted depth.  The pass below follows on the same thread.
Scan(ps) ==
    /\ \A p \in ps : mined[p] # 0
    /\ seen # mined \/ ~(ps \subseteq trusted)
    /\ seen' = mined /\ trusted' = trusted \cup ps
    /\ stored' = stored \cup {p \in Present : mined[p] = row[p].gen}
    /\ UNCHANGED <<run, chain, calls, outside>>

\* recover_latest_idempotent_broadcast_failure
SyncRecover ==
    /\ phase = "failed_terminal" /\ already /\ In({"scheduled"}) # {}
    /\ phase' = "broadcast_scheduled" /\ already' = FALSE
    /\ UNCHANGED <<row, age, signed, signer, wallet, chain, calls, outside>>

\* reconcile_wallet_locks_after_sync, confirmations of the active run
SyncConfirm ==
    /\ Active
    /\ Reconcile
    /\ UNCHANGED <<wallet, chain, calls, outside>>

Mine(p, g) ==
    /\ g \in wire[p] /\ mined[p] = 0
    /\ mined' = [mined EXCEPT ![p] = g]
    /\ wire' = [wire EXCEPT ![p] = {}]
    /\ UNCHANGED <<run, wallet, calls, setbacks, outside>>

\* The transaction leaves the chain and returns to the mempools.
Reorg(p) ==
    /\ mined[p] # 0 /\ p \notin trusted /\ setbacks < MaxSetbacks
    /\ mined' = [mined EXCEPT ![p] = 0]
    /\ wire' = [wire EXCEPT ![p] = {mined[p]}]
    /\ setbacks' = setbacks + 1
    /\ UNCHANGED <<run, wallet, calls, outside>>

\* The tip grows past the broadcast height, the boundary and the expiry.  A
\* call reads it once, at its start.  The height of a transaction that is to be
\* replaced only matters if the wallet has it.
Age(p) ==
    /\ op = Idle /\ p \in Present /\ (row[p].st = "needs_resign" => p \in stored)
    /\ age[p] # "expired"
    /\ age' = [age EXCEPT ![p] = CASE @ = "early" -> "due"
                                   [] @ = "due" -> "crossed"
                                   [] @ = "crossed" -> "expired"]
    /\ wire' = IF age'[p] = "expired"
               THEN [wire EXCEPT ![p] = @ \ {row[p].gen}] ELSE wire
    /\ UNCHANGED <<phase, already, row, signed, signer, wallet, calls, mined,
                   setbacks, outside>>

\* The process ends: guards, requests and calls are lost.
Crash ==
    /\ op # Idle \/ request # NoRequest \/ listed # {}
    /\ op' = Idle /\ request' = NoRequest /\ listed' = {}
    /\ UNCHANGED <<run, wallet, chain, stopped>>

Signing ==
    \/ CreateRun \/ PrepareBatch \/ DiscardRequest
    \/ CompleteBatch \/ CompleteRecovery
    \/ \E w \in BOOLEAN : SigningRequestFails(w)
    \/ \E ps \in SUBSET Parts : SigningRequest(ps)

Advancing ==
    \/ Resume \/ BroadcastDue \/ StampPhase \/ Recheck \/ PolicyKeeps
    \/ MarkExpired \/ Rebuild \/ RebuildFails
    \/ \E b \in BOOLEAN : PolicyRebuild(b)
    \/ \E ps \in SUBSET Parts : StoreRetry(ps)
    \/ \E p \in Parts : Promote(p)
    \/ \E d, b \in BOOLEAN : Finalized(d, b)

Sending ==
    \/ MarkCrossed \/ NoneDue \/ MarkBroadcasting \/ CancelBroadcast
    \/ MarkAttempted \/ BroadcastUnknown \/ BroadcastRejected \/ RecordAccepted
    \/ ReadOverdue \/ RedrawSkipped \/ ReadByOther
    \/ \E p \in Parts : DuePending(p)
    \/ \E a \in {"accepted", "unknown", "rejected"}, b \in BOOLEAN : SendTx(a, b)
    \/ \E b \in BOOLEAN : StoreAccepted(b)
    \/ \E ts \in SUBSET op.read : RedrawOverdue(ts)
    \/ \E ts \in SUBSET listed : RedrawByOther(ts)

Stopping ==
    \/ Stop \/ StopBlocked \/ StopSettled \/ AbandonRun \/ RetireUnbroadcast
    \/ \E p \in Parts : StopFinds(p)

Environment ==
    \/ SyncRecover \/ SyncConfirm \/ Crash
    \/ \E ps \in SUBSET Parts : Scan(ps)
    \/ \E p \in Parts : Reorg(p) \/ Age(p)
    \/ \E p \in Parts, g \in Gens : Mine(p, g)

Next == Signing \/ Advancing \/ Sending \/ Stopping \/ Environment

Spec == Init /\ [][Next]_vars
-----------------------------------------------------------------------------
(***************************************************************************)
(* Properties                                                              *)
(***************************************************************************)
\* A run is complete only when a transaction of each of its parts is in the
\* chain at the trusted depth, through reorganisations, transactions signed
\* anew and races of sync with the calls (reconcile_run_confirmations).
CompletedMeansMigrated ==
    phase = "complete" => \A p \in Parts : mined[p] # 0 /\ p \in trusted

\* Once a run is past signing, each part has a transaction or a signed child
\* to make one from: no part is left without a signature when transfers begin
\* (migration_part_assignment_complete).  A run the user stopped has dropped
\* its parts, and a redraw that opens it again does not bring them back.
NoPartStranded ==
    phase \in Working \ {"ready_to_migrate"} /\ ~stopped =>
        \A p \in Parts : row[p].st # "none" \/ p \in signed

\* A retired run has every transaction a node accepted in the wallet, so that
\* its locks are not given up for spends the wallet does not know.
RetirementRecorded ==
    phase = "failed_terminal" => Missing = {}

\* What holds of it: the calls that send and resume store accepted
\* transactions first (retry_store_then_pending_migration_policy_rebuild_message),
\* so a run signed in software is retired with all of them recorded.
SoftwareRetirementRecorded ==
    signer = "Software" => RetirementRecorded

\* The transfers a stop drops that a node may hold and the wallet has not got.
LiveDropped ==
    {p \in Parts : /\ row[p].st # "none" /\ row'[p].st = "none"
                   /\ row[p].gen \in wire[p] /\ p \notin stored}

\* A stop discards unsubmitted work only: no transfer that a node may hold and
\* the wallet does not know (abandon_run).
StopDropsNoLiveTransfer ==
    [][phase' = "abandoned" /\ phase # "abandoned" => LiveDropped = {}]_vars

\* What holds of it, whatever was lost before: answers, marks or the process.
\* A transfer that is still scheduled is asked about before it is dropped
\* (reconcile_scheduled_migration_txs_before_abandon); one that waits for a new
\* signature is not, although its old transaction may have been sent.
StopDropsNoScheduledTransfer ==
    [][phase' = "abandoned" /\ phase # "abandoned" =>
         \A p \in LiveDropped : row[p].st = "needs_resign"]_vars

\* A stopped run is opened again by nothing but a redraw of another account that
\* works from what it read before the stop: no call of the account, no sync and
\* no redraw that begins later does it, although they write the phase without
\* reading it again (mark_run_phase, reschedule_wallet_overdue_pending_txs).
\* While the run is stopped it sends nothing; only a transaction that leaves the
\* chain returns to the nodes.
StopUndoneOnlyByStaleRedraw ==
    [][phase = "abandoned" =>
         /\ phase' # "abandoned" =>
              \E t \in listed : row[t[1]].gen # t[2] \/ row[t[1]].st # "scheduled"
         /\ \A p \in Parts : wire'[p] \subseteq wire[p] \cup {mined[p]}]_vars
=============================================================================
