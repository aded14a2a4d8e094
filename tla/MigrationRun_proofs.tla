------------------------ MODULE MigrationRun_proofs ------------------------
(***************************************************************************)
(* MigrationRun for any number of parts, signatures and reorganisations:   *)
(* its type, that a complete run is migrated, that no part is stranded,    *)
(* that a run signed in software is retired with its accepted transactions *)
(* recorded, that a stop drops no scheduled transfer a node may hold, and  *)
(* what alone can undo a stop.                                             *)
(***************************************************************************)
EXTENDS MigrationRun, FiniteSetTheorems, TLAPS

States == {"scheduled", "broadcasted", "needs_resign", "confirmed"}

LEMMA RowFields ==
  ASSUME NEW r \in Rows
  PROVE  /\ r.st \in States \cup {"none"} /\ r.gen \in 0..MaxGen
         /\ r.att \in BOOLEAN
         /\ r.st # "none" => r.gen \in Gens
         /\ r.st = "none" => r.att = FALSE
  <1>1. CASE r \in [st : {"none"}, gen : 0..MaxGen, att : {FALSE}]
    BY <1>1, MigrationAssumption DEF States
  <1>2. CASE r \in [st : States, gen : Gens, att : BOOLEAN]
    BY <1>2, MigrationAssumption DEF Gens, States
  <1> QED BY <1>1, <1>2 DEF Rows, States

LEMMA RowMoved ==
  ASSUME NEW r \in Rows, r.st # "none", NEW s \in States
  PROVE  /\ [r EXCEPT !.st = s] \in Rows
         /\ [r EXCEPT !.st = s].st = s /\ [r EXCEPT !.st = s].gen = r.gen
         /\ [r EXCEPT !.st = s].att = r.att
  BY DEF Rows, NoRow, States

LEMMA RowAttempted ==
  ASSUME NEW r \in Rows, r.st # "none"
  PROVE  /\ [r EXCEPT !.att = TRUE] \in Rows
         /\ [r EXCEPT !.att = TRUE].st = r.st /\ [r EXCEPT !.att = TRUE].gen = r.gen
         /\ [r EXCEPT !.att = TRUE].att = TRUE
  <1>1. r \in [st : States, gen : Gens, att : BOOLEAN]
    BY DEF Rows, NoRow, States
  <1>2. [r EXCEPT !.att = TRUE] \in [st : States, gen : Gens, att : BOOLEAN]
    BY <1>1
  <1> QED BY <1>1, <1>2 DEF Rows, States

LEMMA NewRow ==
  ASSUME NEW g \in Gens, NEW b \in BOOLEAN
  PROVE  /\ [st |-> "scheduled", gen |-> g, att |-> b] \in Rows
         /\ [st |-> "scheduled", gen |-> g, att |-> b].st = "scheduled"
  BY DEF Rows

\* A row that is deleted, and one that is written where none was.
LEMMA RowDropped ==
  ASSUME NEW r \in Rows
  PROVE  /\ Dropped(r) \in Rows
         /\ Dropped(r).st = "none" /\ Dropped(r).gen = r.gen
  <1>1. r.gen \in 0..MaxGen
    BY RowFields
  <1>2. Dropped(r) \in [st : {"none"}, gen : 0..MaxGen, att : {FALSE}]
    <2>1. CASE r \in [st : {"none"}, gen : 0..MaxGen, att : {FALSE}]
      BY <2>1 DEF Dropped
    <2>2. CASE r \in [st : States, gen : Gens, att : BOOLEAN]
      BY <2>2, <1>1 DEF Dropped
    <2> QED BY <2>1, <2>2 DEF Rows, States
  <1>3. Dropped(r).st = "none" /\ Dropped(r).gen = r.gen
    BY DEF Dropped, Rows
  <1> QED BY <1>2, <1>3 DEF Rows

LEMMA RowAdded ==
  ASSUME NEW r \in Rows, r.st = "none", r.gen < MaxGen
  PROVE  /\ [r EXCEPT !.st = "scheduled", !.gen = @ + 1] \in Rows
         /\ [r EXCEPT !.st = "scheduled", !.gen = @ + 1].st = "scheduled"
         /\ [r EXCEPT !.st = "scheduled", !.gen = @ + 1].gen = r.gen + 1
         /\ [r EXCEPT !.st = "scheduled", !.gen = @ + 1].att = FALSE
  <1>1. r \in [st : {"none"}, gen : 0..MaxGen, att : {FALSE}]
    BY DEF Rows
  <1>2. r.gen + 1 \in Gens
    BY <1>1, MigrationAssumption DEF Gens
  <1>3. ASSUME NEW g \in Gens
       PROVE  [r EXCEPT !.st = "scheduled", !.gen = g]
                 \in [st : {"scheduled"}, gen : {g}, att : {FALSE}]
    BY <1>1
  <1> QED BY <1>2, <1>3 DEF Rows

LEMMA IdleTyped == Idle \in Ops
  BY DEF Idle, Ops, Phases, Released, Working, Txs

LEMMA OpFields ==
  ASSUME NEW o \in Ops
  PROVE  /\ o.ph \in Phases /\ o.part \in Parts \cup {NoPart}
         /\ o.read \in SUBSET Txs
  BY DEF Ops

-----------------------------------------------------------------------------
(***************************************************************************)
(* Types.  The groups of variables are typed on their own; a call that     *)
(* sends has chosen a part with a transaction.                             *)
(***************************************************************************)
Sends == {"mark", "attempt", "send", "unknown", "rejected", "accepted",
          "record", "redraw", "reschedule"}

RunTyped == /\ phase \in Phases /\ already \in BOOLEAN
            /\ row \in [Parts -> Rows]
            /\ age \in [Parts -> {"early", "due", "crossed", "expired"}]
            /\ signed \in SUBSET Parts /\ signer \in Signers
WalletTyped == /\ stored \in SUBSET Parts /\ seen \in [Parts -> 0..MaxGen]
               /\ trusted \in SUBSET Parts
ChainTyped == /\ wire \in [Parts -> SUBSET Gens] /\ mined \in [Parts -> 0..MaxGen]
              /\ setbacks \in 0..MaxSetbacks
CallsTyped == /\ op \in Ops
              /\ request \in [parts : SUBSET Parts, recovery : BOOLEAN]
OutsideTyped == listed \in SUBSET Txs /\ stopped \in BOOLEAN

\* The part of a call has a row, and a call that sends has a part.
Chosen == /\ op.part = NoPart \/ op.part \in Present
          /\ op.pc \in Sends => op.part # NoPart

TypeInv == RunTyped /\ WalletTyped /\ ChainTyped /\ CallsTyped /\ Chosen

LEMMA TypeParts ==
  RunTyped /\ WalletTyped /\ ChainTyped /\ CallsTyped /\ OutsideTyped <=> TypeOK
  BY DEF TypeOK, RunTyped, WalletTyped, ChainTyped, CallsTyped, OutsideTyped

LEMMA RunKept == RunTyped /\ UNCHANGED run => RunTyped'
  BY DEF RunTyped, run

LEMMA WalletKept == WalletTyped /\ UNCHANGED wallet => WalletTyped'
  BY DEF WalletTyped, wallet

LEMMA ChainKept == ChainTyped /\ UNCHANGED chain => ChainTyped'
  BY DEF ChainTyped, chain

LEMMA CallsKept == CallsTyped /\ UNCHANGED calls => CallsTyped'
  BY DEF CallsTyped, calls

LEMMA CallIdle ==
  CallsTyped /\ op' = Idle /\ request' \in {request, NoRequest} => CallsTyped'
  <1>1. NoRequest \in [parts : SUBSET Parts, recovery : BOOLEAN]
    BY DEF NoRequest
  <1> QED BY <1>1, IdleTyped DEF CallsTyped

\* What a reconciliation makes of the rows, whoever calls it.
LEMMA ReconciledRowsTyped ==
  ASSUME RunTyped, NEW p \in Parts
  PROVE  /\ ReconciledRow(p) \in Rows /\ ReconciledRows[p] \in Rows
         /\ ReconciledRows[p].st = "none" <=> row[p].st = "none"
         /\ ReconciledRows[p].gen = row[p].gen
         /\ ReconciledRows[p].att = row[p].att
         /\ ReconciledRows[p] = IF Active THEN ReconciledRow(p) ELSE row[p]
         /\ DOMAIN ReconciledRows = Parts
  <1>1. row[p] \in Rows
    BY DEF RunTyped
  <1>2. /\ ReconciledRow(p) \in Rows
        /\ ReconciledRow(p).st = "none" <=> row[p].st = "none"
        /\ ReconciledRow(p).gen = row[p].gen
        /\ ReconciledRow(p).att = row[p].att
    BY <1>1, RowMoved, RowFields DEF ReconciledRow, Demoted, States
  <1>3. ReconciledRows[p] = IF Active THEN ReconciledRow(p) ELSE row[p]
    BY DEF ReconciledRows
  <1>4. DOMAIN ReconciledRows = Parts
    BY DEF ReconciledRows, RunTyped
  <1> QED BY <1>1, <1>2, <1>3, <1>4

LEMMA ReconciledTyped ==
  ASSUME RunTyped
  PROVE  /\ ReconciledRows \in [Parts -> Rows]
         /\ ReconciledAge \in [Parts -> {"early", "due", "crossed", "expired"}]
         /\ ReconciledPhase \in Phases /\ ReconciledSigned \in SUBSET Parts
  <1>1. ReconciledRows \in [Parts -> Rows]
    <2>1. CASE Active
      <3>1. ReconciledRows = [p \in Parts |-> ReconciledRow(p)]
        BY <2>1 DEF ReconciledRows
      <3> QED BY <3>1, ReconciledRowsTyped
    <2>2. CASE ~Active
      BY <2>2 DEF ReconciledRows, RunTyped
    <2> QED BY <2>1, <2>2
  <1>2. ReconciledAge \in [Parts -> {"early", "due", "crossed", "expired"}]
    BY DEF ReconciledAge, RunTyped
  <1>3. ReconciledPhase \in Phases
    BY DEF ReconciledPhase, RunTyped, Phases, Released, Working
  <1>4. ReconciledSigned \in SUBSET Parts
    BY DEF ReconciledSigned, RunTyped
  <1> QED BY <1>1, <1>2, <1>3, <1>4

LEMMA ReconcileTyped == RunTyped /\ Reconcile => RunTyped'
  BY ReconciledTyped DEF RunTyped, Reconcile

\* No row is added or removed.
RowsStay == \A p \in Parts : row'[p].st = "none" <=> row[p].st = "none"

LEMMA ReconcileStays == RunTyped /\ Reconcile => RowsStay
  BY ReconciledRowsTyped DEF Reconcile, RowsStay, Present

LEMMA MarkTyped ==
  ASSUME RunTyped, NEW marks \in SUBSET Parts, ReconcileAndMark(marks),
         \A p \in marks : ReconciledRows[p].st # "none"
  PROVE  /\ RunTyped' /\ RowsStay
  <1>1. \A p \in Parts : row'[p] \in Rows /\ (row'[p].st = "none" <=> row[p].st = "none")
    <2> TAKE p \in Parts
    <2>1. CASE p \in marks
      <3>1. row'[p] = [ReconciledRows[p] EXCEPT !.st = "needs_resign"]
        BY <2>1 DEF ReconcileAndMark
      <3>2. /\ ReconciledRows[p] \in Rows /\ ReconciledRows[p].st # "none"
            /\ row[p].st # "none"
        BY <2>1, ReconciledRowsTyped
      <3>3. "needs_resign" \in States
        BY DEF States
      <3> QED BY <3>1, <3>2, <3>3, RowMoved
    <2>2. CASE p \notin marks
      <3>1. row'[p] = ReconciledRows[p]
        BY <2>2 DEF ReconcileAndMark
      <3> QED BY <3>1, ReconciledRowsTyped
    <2> QED BY <2>1, <2>2
  <1>2. row' \in [Parts -> Rows]
    <2>1. row' = [p \in Parts |-> row'[p]]
      BY DEF ReconcileAndMark
    <2> QED BY <1>1, <2>1
  <1>3. phase' \in Phases
    BY ReconciledTyped DEF ReconcileAndMark, Phases, Working
  <1>4. RunTyped'
    BY <1>2, <1>3, ReconciledTyped DEF ReconcileAndMark, RunTyped
  <1> QED BY <1>1, <1>4 DEF RowsStay, Present

LEMMA BroadcastedTyped ==
  ASSUME RunTyped, NEW p \in Parts, MarkPendingBroadcasted(p)
  PROVE  /\ RunTyped' /\ RowsStay
  <1>1. \A q \in Parts : row'[q] \in Rows /\ (row'[q].st = "none" <=> row[q].st = "none")
    <2> TAKE q \in Parts
    <2>1. row[q] \in Rows /\ row[p] \in Rows
      BY DEF RunTyped
    <2>2. CASE q = p /\ row[p].st # "none"
      <3>1. row'[q] = [row[p] EXCEPT !.st = "broadcasted"]
        BY <2>2 DEF MarkPendingBroadcasted, RunTyped
      <3> QED BY <2>1, <2>2, <3>1, RowMoved DEF States
    <2>3. CASE q = p /\ row[p].st = "none"
      <3>1. row'[q] = [row[p] EXCEPT !.st = "none"]
        BY <2>3 DEF MarkPendingBroadcasted, RunTyped
      <3>2. [row[p] EXCEPT !.st = "none"] = row[p]
        BY <2>1, <2>3 DEF Rows
      <3> QED BY <2>1, <2>3, <3>1, <3>2
    <2>4. CASE q # p
      BY <2>1, <2>4 DEF MarkPendingBroadcasted, RunTyped
    <2> QED BY <2>2, <2>3, <2>4
  <1>2. row' \in [Parts -> Rows]
    <2>1. row' = [q \in Parts |-> row'[q]]
      BY DEF MarkPendingBroadcasted, RunTyped
    <2> QED BY <1>1, <2>1
  <1>3. phase' \in Phases
    BY DEF MarkPendingBroadcasted, PhaseAfterBroadcast, Phases, Working
  <1>4. RunTyped'
    BY <1>2, <1>3 DEF MarkPendingBroadcasted, RunTyped
  <1> QED BY <1>1, <1>4 DEF RowsStay, Present

LEMMA CardinalityTyped ==
  ASSUME NEW ps \in SUBSET Parts PROVE Cardinality(ps) \in Nat
  BY MigrationAssumption, FS_Subset, FS_CardinalityType

LEMMA ResignedTyped ==
  ASSUME RunTyped, WalletTyped, setbacks \in 0..MaxSetbacks,
         NEW ps \in SUBSET In({"needs_resign"}), Resigned(ps)
  PROVE  /\ row' \in [Parts -> Rows]
         /\ age' \in [Parts -> {"early", "due", "crossed", "expired"}]
         /\ setbacks' \in 0..MaxSetbacks /\ stored' \in SUBSET Parts
         /\ RowsStay
  <1>1. \A p \in Parts : row'[p] \in Rows /\ (row'[p].st = "none" <=> row[p].st = "none")
    <2> TAKE p \in Parts
    <2>1. row[p] \in Rows
      BY DEF RunTyped
    <2>2. CASE p \in ps
      <3>1. row'[p] = [st |-> "scheduled", gen |-> row[p].gen + 1, att |-> FALSE]
        BY <2>2 DEF Resigned
      <3>2. row[p].gen + 1 \in Gens
        <4>1. row[p].st # "none" /\ row[p].gen < MaxGen
          BY <2>2 DEF Resigned, In
        <4>2. row[p].gen \in Gens
          BY <2>1, <4>1, RowFields
        <4> QED BY <4>1, <4>2, MigrationAssumption DEF Gens
      <3>3. FALSE \in BOOLEAN
        OBVIOUS
      <3>4. row[p].st # "none"
        BY <2>2 DEF In
      <3> QED BY <3>1, <3>2, <3>3, <3>4, NewRow
    <2>3. CASE p \notin ps
      BY <2>1, <2>3 DEF Resigned
    <2> QED BY <2>2, <2>3
  <1>2. row' \in [Parts -> Rows]
    <2>1. row' = [q \in Parts |-> row'[q]]
      BY DEF Resigned
    <2> QED BY <1>1, <2>1
  <1>3. setbacks' \in 0..MaxSetbacks
    BY CardinalityTyped, MigrationAssumption DEF Resigned, In
  <1>4. /\ age' \in [Parts -> {"early", "due", "crossed", "expired"}]
        /\ stored' \in SUBSET Parts
    BY DEF Resigned, RunTyped, WalletTyped
  <1> QED BY <1>1, <1>2, <1>3, <1>4 DEF RowsStay, Present

LEMMA RescheduleTyped ==
  ASSUME RunTyped, NEW read, NEW resign, Reschedule(read, resign)
  PROVE  /\ RunTyped' /\ RowsStay
  <1> DEFINE found == {p \in In({"scheduled"}) : <<p, row[p].gen>> \in read}
             again == {p \in found : <<p, row[p].gen>> \in resign}
  <1>1. \A p \in Parts : row'[p] \in Rows /\ (row'[p].st = "none" <=> row[p].st = "none")
    <2> TAKE p \in Parts
    <2>1. row[p] \in Rows
      BY DEF RunTyped
    <2>2. CASE p \in again
      <3>1. row'[p] = [row[p] EXCEPT !.st = "needs_resign"]
        BY <2>2 DEF Reschedule
      <3>2. row[p].st # "none"
        BY <2>2 DEF In
      <3> QED BY <2>1, <3>1, <3>2, RowMoved DEF States
    <2>3. CASE p \notin again
      BY <2>1, <2>3 DEF Reschedule
    <2> QED BY <2>2, <2>3
  <1>2. row' \in [Parts -> Rows]
    <2>1. row' = [q \in Parts |-> row'[q]]
      BY DEF Reschedule
    <2> QED BY <1>1, <2>1
  <1>3. phase' \in Phases /\ already' \in BOOLEAN
    BY DEF Reschedule, RunTyped, Phases, Working
  <1>4. age' \in [Parts -> {"early", "due", "crossed", "expired"}]
    BY DEF Reschedule, RunTyped
  <1>5. RunTyped'
    BY <1>2, <1>3, <1>4 DEF Reschedule, RunTyped
  <1> QED BY <1>1, <1>5 DEF RowsStay, Present

LEMMA OverdueTyped == RunTyped => OverdueTxs \in SUBSET Txs
  <1> SUFFICES ASSUME RunTyped, NEW p \in In({"scheduled"})
               PROVE  <<p, row[p].gen>> \in Txs
    BY DEF OverdueTxs
  <1>1. p \in Parts /\ row[p] \in Rows /\ row[p].st # "none"
    BY DEF In, RunTyped
  <1> QED BY <1>1, RowFields DEF Txs

LEMMA RetireTyped ==
  RunTyped /\ CallsTyped /\ RetireRun => RunTyped' /\ CallsTyped'
  <1> SUFFICES ASSUME RunTyped, CallsTyped, RetireRun PROVE RunTyped' /\ CallsTyped'
    OBVIOUS
  <1>1. RunTyped'
    BY DEF RetireRun, RunTyped, Phases, Released
  <1>2. CallsTyped'
    BY CallIdle DEF RetireRun
  <1> QED BY <1>1, <1>2
-----------------------------------------------------------------------------
LEMMA ChosenIdle == op' = Idle => Chosen'
  BY DEF Chosen, Idle, Sends

LEMMA ChosenNone == op'.part = NoPart /\ op'.pc \notin Sends => Chosen'
  BY DEF Chosen

LEMMA ChosenStays ==
  ASSUME Chosen, RowsStay, op'.part = op.part,
         op'.pc \in Sends => op.part # NoPart
  PROVE  Chosen'
  BY DEF Chosen, RowsStay, Present

LEMMA RowsSame == row' = row => RowsStay
  BY DEF RowsStay, Present

LEMMA ChosenCalls == Chosen /\ RowsStay /\ UNCHANGED calls => Chosen'
  BY DEF Chosen, RowsStay, Present, calls

LEMMA SigningTyped == TypeInv /\ Signing => TypeInv'
  <1> SUFFICES ASSUME RunTyped, WalletTyped, ChainTyped, CallsTyped, Chosen,
                      Signing PROVE TypeInv'
    BY DEF TypeInv
  <1>1. CASE CreateRun
    <2>1. RunTyped'
      BY <1>1 DEF CreateRun, RunTyped, Phases, Released, Working
    <2>2. WalletTyped'
      BY <1>1, WalletKept DEF CreateRun
    <2>3. ChainTyped'
      BY <1>1, ChainKept DEF CreateRun
    <2>4. CallsTyped'
      BY <1>1 DEF CreateRun, CallsTyped, Ops, Idle, Phases, Released, Working
    <2>5. Chosen'
      BY <1>1, ChosenNone DEF CreateRun, Sends, Idle
    <2> QED BY <2>1, <2>2, <2>3, <2>4, <2>5 DEF TypeInv
  <1>2. CASE PrepareBatch
    <2>1. RunTyped'
      BY <1>2, RunKept DEF PrepareBatch
    <2>2. WalletTyped'
      BY <1>2, WalletKept DEF PrepareBatch
    <2>3. ChainTyped'
      BY <1>2, ChainKept DEF PrepareBatch
    <2>4. CallsTyped'
      BY <1>2 DEF PrepareBatch, CallsTyped, Ops, Idle, Phases, Released, Working
    <2>5. Chosen'
      BY <1>2, ChosenNone DEF PrepareBatch, Sends, Idle
    <2> QED BY <2>1, <2>2, <2>3, <2>4, <2>5 DEF TypeInv
  <1>3. CASE DiscardRequest
    <2>1. RunTyped'
      BY <1>3, RunKept DEF DiscardRequest
    <2>2. WalletTyped'
      BY <1>3, WalletKept DEF DiscardRequest
    <2>3. ChainTyped'
      BY <1>3, ChainKept DEF DiscardRequest
    <2>4. CallsTyped'
      BY <1>3 DEF DiscardRequest, CallsTyped, NoRequest
    <2>5. Chosen'
      BY <1>3 DEF DiscardRequest, run, Chosen, Present
    <2> QED BY <2>1, <2>2, <2>3, <2>4, <2>5 DEF TypeInv
  <1>4. CASE CompleteBatch
    <2>1. RunTyped'
      BY <1>4 DEF CompleteBatch, RunTyped, CallsTyped
    <2>2. WalletTyped'
      BY <1>4, WalletKept DEF CompleteBatch
    <2>3. ChainTyped'
      BY <1>4, ChainKept DEF CompleteBatch
    <2>4. CallsTyped'
      BY <1>4 DEF CompleteBatch, CallsTyped, NoRequest
    <2>5. Chosen'
      BY <1>4, ChosenIdle DEF CompleteBatch
    <2> QED BY <2>1, <2>2, <2>3, <2>4, <2>5 DEF TypeInv
  <1>5. CASE CompleteRecovery
    <2>0. request.parts \in SUBSET In({"needs_resign"}) /\ setbacks \in 0..MaxSetbacks
      BY <1>5 DEF CompleteRecovery, ChainTyped
    <2>1. RunTyped'
      BY <1>5, <2>0, ResignedTyped DEF CompleteRecovery, RunTyped, Phases, Working
    <2>2. WalletTyped'
      BY <1>5, <2>0, ResignedTyped DEF CompleteRecovery, WalletTyped
    <2>3. ChainTyped'
      BY <1>5, <2>0, ResignedTyped DEF CompleteRecovery, ChainTyped
    <2>4. CallsTyped'
      BY <1>5 DEF CompleteRecovery, CallsTyped, NoRequest
    <2>5. Chosen'
      BY <1>5, ChosenIdle DEF CompleteRecovery
    <2> QED BY <2>1, <2>2, <2>3, <2>4, <2>5 DEF TypeInv
  <1>6. ASSUME NEW w \in BOOLEAN, SigningRequestFails(w)
       PROVE  TypeInv'
    <2>1. RunTyped'
      BY <1>6 DEF SigningRequestFails, RunTyped, Phases, Released, Working
    <2>2. WalletTyped'
      BY <1>6, WalletKept DEF SigningRequestFails
    <2>3. ChainTyped'
      BY <1>6, ChainKept DEF SigningRequestFails
    <2>4. CallsTyped'
      BY <1>6, CallIdle DEF SigningRequestFails
    <2>5. Chosen'
      BY <1>6, ChosenIdle DEF SigningRequestFails
    <2> QED BY <2>1, <2>2, <2>3, <2>4, <2>5 DEF TypeInv
  <1>7. ASSUME NEW ps \in SUBSET Parts, SigningRequest(ps)
       PROVE  TypeInv'
    <2>1. RunTyped'
      BY <1>7, RunKept DEF SigningRequest
    <2>2. WalletTyped'
      BY <1>7, WalletKept DEF SigningRequest
    <2>3. ChainTyped'
      BY <1>7, ChainKept DEF SigningRequest
    <2>4. CallsTyped'
      BY <1>7, IdleTyped DEF SigningRequest, CallsTyped
    <2>5. Chosen'
      BY <1>7, ChosenIdle DEF SigningRequest
    <2> QED BY <2>1, <2>2, <2>3, <2>4, <2>5 DEF TypeInv
  <1> QED BY <1>1, <1>2, <1>3, <1>4, <1>5, <1>6, <1>7 DEF Signing

LEMMA AdvancingTyped == TypeInv /\ Advancing => TypeInv'
  <1> SUFFICES ASSUME RunTyped, WalletTyped, ChainTyped, CallsTyped, Chosen,
                      Advancing PROVE TypeInv'
    BY DEF TypeInv
  <1>1. CASE Resume
    <2>1. RunTyped'
      BY <1>1, RunKept DEF Resume
    <2>2. WalletTyped'
      BY <1>1, WalletKept DEF Resume
    <2>3. ChainTyped'
      BY <1>1, ChainKept DEF Resume
    <2>4. CallsTyped'
      BY <1>1 DEF Resume, CallsTyped, Ops, Idle, Phases, Released, Working
    <2>5. Chosen'
      BY <1>1, ChosenNone DEF Resume, Sends, Idle
    <2> QED BY <2>1, <2>2, <2>3, <2>4, <2>5 DEF TypeInv
  <1>2. CASE BroadcastDue
    <2>1. RunTyped'
      BY <1>2, ReconcileTyped DEF BroadcastDue
    <2>2. WalletTyped'
      BY <1>2, WalletKept DEF BroadcastDue
    <2>3. ChainTyped'
      BY <1>2, ChainKept DEF BroadcastDue
    <2>4. CallsTyped'
      BY <1>2 DEF BroadcastDue, CallsTyped, Ops, Idle, Phases, Released, Working
    <2>5. Chosen'
      BY <1>2, ChosenNone DEF BroadcastDue, Sends, Idle
    <2> QED BY <2>1, <2>2, <2>3, <2>4, <2>5 DEF TypeInv
  <1>3. CASE StampPhase
    <2>1. RunTyped'
      BY <1>3, OpFields DEF StampPhase, RunTyped, CallsTyped
    <2>2. WalletTyped'
      BY <1>3, WalletKept DEF StampPhase
    <2>3. ChainTyped'
      BY <1>3, ChainKept DEF StampPhase
    <2>4. CallsTyped'
      BY <1>3 DEF StampPhase, CallsTyped, Ops, Idle, Phases, Released, Working
    <2>5. Chosen'
      BY <1>3, ChosenStays, RowsSame DEF StampPhase, Sends, run, Chosen,
         CallsTyped, Ops, Idle
    <2> QED BY <2>1, <2>2, <2>3, <2>4, <2>5 DEF TypeInv
  <1>4. CASE Recheck
    <2>1. RunTyped'
      BY <1>4, ReconcileTyped DEF Recheck
    <2>2. WalletTyped'
      BY <1>4, WalletKept DEF Recheck
    <2>3. ChainTyped'
      BY <1>4, ChainKept DEF Recheck
    <2>4. CallsTyped'
      BY <1>4 DEF Recheck, CallsTyped, Ops, Idle, Phases, Released, Working
    <2>5. Chosen'
      BY <1>4, ChosenStays, ChosenIdle, ReconcileStays DEF Recheck, Sends,
         Chosen, CallsTyped, Ops
    <2> QED BY <2>1, <2>2, <2>3, <2>4, <2>5 DEF TypeInv
  <1>5. CASE PolicyKeeps
    <2>1. RunTyped'
      BY <1>5, RunKept DEF PolicyKeeps
    <2>2. WalletTyped'
      BY <1>5, WalletKept DEF PolicyKeeps
    <2>3. ChainTyped'
      BY <1>5, ChainKept DEF PolicyKeeps
    <2>4. CallsTyped'
      BY <1>5 DEF PolicyKeeps, CallsTyped, Ops, Idle, Phases, Released, Working,
         Goto
    <2>5. Chosen'
      BY <1>5, ChosenStays, RowsSame DEF PolicyKeeps, Sends, run, Chosen,
         CallsTyped, Ops, Idle, Goto
    <2> QED BY <2>1, <2>2, <2>3, <2>4, <2>5 DEF TypeInv
  <1>6. CASE MarkExpired
    <2> DEFINE marks == {p \in Parts : Expired(ReconciledRows[p], p)}
    <2>0. ReconcileAndMark(marks) /\ marks \in SUBSET Parts
      BY <1>6 DEF MarkExpired
    <2>m. \A p \in marks : ReconciledRows[p].st # "none"
      BY DEF Expired
    <2>r. RunTyped' /\ RowsStay
      BY <2>0, <2>m, MarkTyped
    <2> HIDE DEF marks
    <2>1. RunTyped'
      BY <2>r
    <2>2. WalletTyped'
      BY <1>6, WalletKept DEF MarkExpired
    <2>3. ChainTyped'
      BY <1>6, ChainKept DEF MarkExpired
    <2>4. CallsTyped'
      BY <1>6 DEF MarkExpired, CallsTyped, Ops, Idle, Phases, Released, Working
    <2>5. Chosen'
      BY <1>6, <2>r, ChosenStays, ChosenIdle DEF MarkExpired, Sends, Chosen,
         CallsTyped, Ops
    <2> QED BY <2>1, <2>2, <2>3, <2>4, <2>5 DEF TypeInv
  <1>7. CASE Rebuild
    <2>0. In({"needs_resign"}) \in SUBSET In({"needs_resign"}) /\ setbacks \in 0..MaxSetbacks
      BY DEF ChainTyped
    <2>r. Resigned(In({"needs_resign"}))
      BY <1>7 DEF Rebuild
    <2>1. RunTyped'
      BY <1>7, <2>0, <2>r, ResignedTyped DEF Rebuild, RunTyped, Phases, Working
    <2>2. WalletTyped'
      BY <1>7, <2>0, <2>r, ResignedTyped DEF Rebuild, WalletTyped
    <2>3. ChainTyped'
      BY <1>7, <2>0, <2>r, ResignedTyped DEF Rebuild, ChainTyped
    <2>4. CallsTyped'
      BY <1>7 DEF Rebuild, CallsTyped, Ops, Idle, Phases, Released, Working
    <2>5. Chosen'
      BY <1>7, <2>0, <2>r, ResignedTyped, ChosenStays DEF Rebuild, Sends,
         CallsTyped, Ops
    <2> QED BY <2>1, <2>2, <2>3, <2>4, <2>5 DEF TypeInv
  <1>8. CASE RebuildFails
    <2>1. RunTyped'
      BY <1>8, RunKept DEF RebuildFails
    <2>2. WalletTyped'
      BY <1>8, WalletKept DEF RebuildFails
    <2>3. ChainTyped'
      BY <1>8, ChainKept DEF RebuildFails
    <2>4. CallsTyped'
      BY <1>8, CallIdle DEF RebuildFails
    <2>5. Chosen'
      BY <1>8, ChosenIdle DEF RebuildFails
    <2> QED BY <2>1, <2>2, <2>3, <2>4, <2>5 DEF TypeInv
  <1>9. ASSUME NEW b \in BOOLEAN, PolicyRebuild(b)
       PROVE  TypeInv'
    <2>1. RunTyped'
      BY <1>9, RetireTyped DEF PolicyRebuild
    <2>2. WalletTyped'
      BY <1>9, WalletKept DEF PolicyRebuild
    <2>3. ChainTyped'
      BY <1>9, ChainKept DEF PolicyRebuild
    <2>4. CallsTyped'
      BY <1>9, RetireTyped DEF PolicyRebuild
    <2>5. Chosen'
      BY <1>9, ChosenIdle DEF PolicyRebuild, RetireRun
    <2> QED BY <2>1, <2>2, <2>3, <2>4, <2>5 DEF TypeInv
  <1>10. ASSUME NEW ps \in SUBSET Parts, StoreRetry(ps)
       PROVE  TypeInv'
    <2>1. RunTyped'
      BY <1>10, RunKept DEF StoreRetry
    <2>2. WalletTyped'
      BY <1>10 DEF StoreRetry, WalletTyped
    <2>3. ChainTyped'
      BY <1>10, ChainKept DEF StoreRetry
    <2>4. CallsTyped'
      BY <1>10 DEF StoreRetry, CallsTyped, Ops, RunTyped
    <2>5. Chosen'
      BY <1>10, ChosenStays, RowsSame DEF StoreRetry, Sends, run, Chosen,
         CallsTyped, Ops, Idle
    <2> QED BY <2>1, <2>2, <2>3, <2>4, <2>5 DEF TypeInv
  <1>11. ASSUME NEW p \in Parts, Promote(p)
       PROVE  TypeInv'
    <2>0. [row[p] EXCEPT !.st = "scheduled", !.gen = @ + 1] \in Rows
      BY <1>11, RowAdded DEF Promote, Unpromoted, Present, RunTyped
    <2>1. RunTyped'
      <3>1. row' = [row EXCEPT ![p] =
                      [row[p] EXCEPT !.st = "scheduled", !.gen = @ + 1]]
        BY <1>11 DEF Promote, RunTyped
      <3>2. row' \in [Parts -> Rows]
        BY <2>0, <3>1 DEF RunTyped
      <3> QED BY <1>11, <3>2 DEF Promote, RunTyped, Phases, Working
    <2>2. WalletTyped'
      BY <1>11, WalletKept DEF Promote
    <2>3. ChainTyped'
      BY <1>11, ChainKept DEF Promote
    <2>4. CallsTyped'
      BY <1>11 DEF Promote, CallsTyped, Ops, Idle, Phases, Released, Working
    <2>5. Chosen'
      BY <1>11, MigrationAssumption DEF Promote, Chosen, Present, RunTyped,
         CallsTyped, Ops, Sends
    <2> QED BY <2>1, <2>2, <2>3, <2>4, <2>5 DEF TypeInv
  <1>12. ASSUME NEW d \in BOOLEAN, NEW b \in BOOLEAN, Finalized(d, b)
       PROVE  TypeInv'
    <2>1. RunTyped'
      BY <1>12 DEF Finalized, RunTyped, Phases, Released, Working
    <2>2. WalletTyped'
      BY <1>12, WalletKept DEF Finalized
    <2>3. ChainTyped'
      BY <1>12, ChainKept DEF Finalized
    <2>4. CallsTyped'
      BY <1>12 DEF Finalized, CallsTyped, Ops, Idle, Phases, Released, Working
    <2>5. Chosen'
      BY <1>12, ChosenNone DEF Finalized, Sends, Idle, CallsTyped, Ops
    <2> QED BY <2>1, <2>2, <2>3, <2>4, <2>5 DEF TypeInv
  <1> QED BY <1>1, <1>2, <1>3, <1>4, <1>5, <1>6, <1>7, <1>8, <1>9, <1>10, <1>11,
     <1>12 DEF Advancing

LEMMA SendingTyped == TypeInv /\ Sending => TypeInv'
  <1> SUFFICES ASSUME RunTyped, WalletTyped, ChainTyped, CallsTyped, Chosen,
                      Sending PROVE TypeInv'
    BY DEF TypeInv
  <1>1. CASE MarkCrossed
    <2> DEFINE marks == {p \in Parts : /\ ReconciledRows[p].st = "scheduled"
                                          /\ ReconciledAge[p] \in {"crossed", "expired"}}
    <2>0. ReconcileAndMark(marks) /\ marks \in SUBSET Parts
      BY <1>1 DEF MarkCrossed
    <2>m. \A p \in marks : ReconciledRows[p].st # "none"
      BY DEF marks
    <2>r. RunTyped' /\ RowsStay
      BY <2>0, <2>m, MarkTyped
    <2> HIDE DEF marks
    <2>1. RunTyped'
      BY <2>r
    <2>2. WalletTyped'
      BY <1>1, WalletKept DEF MarkCrossed
    <2>3. ChainTyped'
      BY <1>1, ChainKept DEF MarkCrossed
    <2>4. CallsTyped'
      BY <1>1 DEF MarkCrossed, CallsTyped, Ops, Idle, Phases, Released, Working
    <2>5. Chosen'
      BY <1>1, <2>r, ChosenStays, ChosenIdle DEF MarkCrossed, Sends, Chosen,
         CallsTyped, Ops
    <2> QED BY <2>1, <2>2, <2>3, <2>4, <2>5 DEF TypeInv
  <1>2. CASE NoneDue
    <2>1. RunTyped'
      BY <1>2, ReconcileTyped DEF NoneDue
    <2>2. WalletTyped'
      BY <1>2, WalletKept DEF NoneDue
    <2>3. ChainTyped'
      BY <1>2, ChainKept DEF NoneDue
    <2>4. CallsTyped'
      BY <1>2, CallIdle DEF NoneDue
    <2>5. Chosen'
      BY <1>2, ChosenIdle DEF NoneDue
    <2> QED BY <2>1, <2>2, <2>3, <2>4, <2>5 DEF TypeInv
  <1>3. CASE MarkBroadcasting
    <2>1. RunTyped'
      BY <1>3 DEF MarkBroadcasting, RunTyped, Phases, Released, Working
    <2>2. WalletTyped'
      BY <1>3, WalletKept DEF MarkBroadcasting
    <2>3. ChainTyped'
      BY <1>3, ChainKept DEF MarkBroadcasting
    <2>4. CallsTyped'
      BY <1>3 DEF MarkBroadcasting, CallsTyped, Ops, Idle, Phases, Released,
         Working, Goto
    <2>5. Chosen'
      BY <1>3, ChosenStays, RowsSame DEF MarkBroadcasting, Sends, run, Chosen,
         CallsTyped, Ops, Idle, Goto
    <2> QED BY <2>1, <2>2, <2>3, <2>4, <2>5 DEF TypeInv
  <1>4. CASE CancelBroadcast
    <2>1. RunTyped'
      BY <1>4 DEF CancelBroadcast, RunTyped, Phases, Released, Working
    <2>2. WalletTyped'
      BY <1>4, WalletKept DEF CancelBroadcast
    <2>3. ChainTyped'
      BY <1>4, ChainKept DEF CancelBroadcast
    <2>4. CallsTyped'
      BY <1>4, CallIdle DEF CancelBroadcast
    <2>5. Chosen'
      BY <1>4, ChosenIdle DEF CancelBroadcast
    <2> QED BY <2>1, <2>2, <2>3, <2>4, <2>5 DEF TypeInv
  <1>5. CASE MarkAttempted
    <2>0. op.part \in Parts /\ row[op.part] \in Rows /\ op.part # NoPart
      BY <1>5 DEF MarkAttempted, Chosen, Sends, Present, RunTyped
    <2>r. row' \in [Parts -> Rows] /\ RowsStay
      <3>1. CASE row[op.part].st = "scheduled"
        <4>1. /\ [row[op.part] EXCEPT !.att = TRUE] \in Rows
              /\ [row[op.part] EXCEPT !.att = TRUE].st = row[op.part].st
          BY <2>0, <3>1, RowAttempted
        <4>2. row' = [row EXCEPT ![op.part] = [row[op.part] EXCEPT !.att = TRUE]]
          BY <1>5, <3>1 DEF MarkAttempted
        <4> QED BY <2>0, <3>1, <4>1, <4>2 DEF RunTyped, RowsStay, Present
      <3>2. CASE row[op.part].st # "scheduled"
        BY <1>5, <3>2, RowsSame DEF MarkAttempted, RunTyped
      <3> QED BY <3>1, <3>2
    <2>1. RunTyped'
      BY <1>5, <2>r DEF MarkAttempted, RunTyped
    <2>2. WalletTyped'
      BY <1>5, WalletKept DEF MarkAttempted
    <2>3. ChainTyped'
      BY <1>5, ChainKept DEF MarkAttempted
    <2>4. CallsTyped'
      BY <1>5 DEF MarkAttempted, CallsTyped, Ops, Idle, Phases, Released,
         Working, Goto
    <2>5. Chosen'
      BY <1>5, <2>0, <2>r, ChosenStays, ChosenIdle DEF MarkAttempted, Goto,
         CallsTyped, Ops
    <2> QED BY <2>1, <2>2, <2>3, <2>4, <2>5 DEF TypeInv
  <1>6. CASE BroadcastUnknown
    <2>1. RunTyped'
      BY <1>6 DEF BroadcastUnknown, RunTyped, Phases, Released, Working
    <2>2. WalletTyped'
      BY <1>6, WalletKept DEF BroadcastUnknown
    <2>3. ChainTyped'
      BY <1>6, ChainKept DEF BroadcastUnknown
    <2>4. CallsTyped'
      BY <1>6, CallIdle DEF BroadcastUnknown
    <2>5. Chosen'
      BY <1>6, ChosenIdle DEF BroadcastUnknown
    <2> QED BY <2>1, <2>2, <2>3, <2>4, <2>5 DEF TypeInv
  <1>7. CASE BroadcastRejected
    <2>1. RunTyped'
      BY <1>7, RetireTyped DEF BroadcastRejected
    <2>2. WalletTyped'
      BY <1>7, WalletKept DEF BroadcastRejected
    <2>3. ChainTyped'
      BY <1>7, ChainKept DEF BroadcastRejected
    <2>4. CallsTyped'
      BY <1>7, RetireTyped DEF BroadcastRejected
    <2>5. Chosen'
      BY <1>7, ChosenIdle DEF BroadcastRejected, RetireRun
    <2> QED BY <2>1, <2>2, <2>3, <2>4, <2>5 DEF TypeInv
  <1>8. CASE RecordAccepted
    <2>0. op.part \in Parts /\ op.part # NoPart
      BY <1>8 DEF RecordAccepted, Chosen, Sends, Present
    <2>r. RunTyped' /\ RowsStay
      BY <1>8, <2>0, BroadcastedTyped DEF RecordAccepted
    <2>1. RunTyped'
      BY <2>r
    <2>2. WalletTyped'
      BY <1>8, WalletKept DEF RecordAccepted
    <2>3. ChainTyped'
      BY <1>8, ChainKept DEF RecordAccepted
    <2>4. CallsTyped'
      BY <1>8, <2>r DEF RecordAccepted, CallsTyped, Ops, RunTyped
    <2>5. Chosen'
      BY <1>8, <2>0, <2>r, ChosenStays DEF RecordAccepted, CallsTyped, Ops
    <2> QED BY <2>1, <2>2, <2>3, <2>4, <2>5 DEF TypeInv
  <1>9. CASE RedrawSkipped
    <2>1. RunTyped'
      BY <1>9, RunKept DEF RedrawSkipped
    <2>2. WalletTyped'
      BY <1>9, WalletKept DEF RedrawSkipped
    <2>3. ChainTyped'
      BY <1>9, ChainKept DEF RedrawSkipped
    <2>4. CallsTyped'
      BY <1>9, CallIdle DEF RedrawSkipped
    <2>5. Chosen'
      BY <1>9, ChosenIdle DEF RedrawSkipped
    <2> QED BY <2>1, <2>2, <2>3, <2>4, <2>5 DEF TypeInv
  <1>10. ASSUME NEW p \in Parts, DuePending(p)
       PROVE  TypeInv'
    <2>1. RunTyped'
      BY <1>10, ReconcileTyped DEF DuePending
    <2>2. WalletTyped'
      BY <1>10, WalletKept DEF DuePending
    <2>3. ChainTyped'
      BY <1>10, ChainKept DEF DuePending
    <2>4. CallsTyped'
      BY <1>10 DEF DuePending, CallsTyped, Ops, Idle, Phases, Released, Working
    <2>5. Chosen'
      <3>1. row'[p].st # "none" /\ op' = [op EXCEPT !.pc = "mark", !.part = p]
        BY <1>10 DEF DuePending
      <3>2. op'.part = p /\ p # NoPart
        BY <3>1, MigrationAssumption DEF CallsTyped, Ops
      <3> QED BY <3>1, <3>2 DEF Chosen, Present
    <2> QED BY <2>1, <2>2, <2>3, <2>4, <2>5 DEF TypeInv
  <1>11. ASSUME NEW a \in {"accepted", "unknown", "rejected"}, NEW b \in BOOLEAN,
  SendTx(a, b)
       PROVE  TypeInv'
    <2>0. op.part \in Parts /\ row[op.part].gen \in Gens
      BY <1>11, RowFields DEF SendTx, Chosen, Sends, Present, RunTyped
    <2>1. RunTyped'
      BY <1>11, RunKept DEF SendTx
    <2>2. WalletTyped'
      BY <1>11, WalletKept DEF SendTx
    <2>3. ChainTyped'
      BY <1>11, <2>0 DEF SendTx, ChainTyped
    <2>4. CallsTyped'
      BY <1>11 DEF SendTx, CallsTyped, Ops, Idle, Phases, Released, Working, Goto
    <2>5. Chosen'
      BY <1>11, ChosenStays, RowsSame DEF SendTx, Sends, run, Chosen, CallsTyped,
         Ops, Idle, Goto
    <2> QED BY <2>1, <2>2, <2>3, <2>4, <2>5 DEF TypeInv
  <1>12. ASSUME NEW b \in BOOLEAN, StoreAccepted(b)
       PROVE  TypeInv'
    <2>0. op.part \in Parts
      BY <1>12 DEF StoreAccepted, Chosen, Sends, Present
    <2>1. RunTyped'
      BY <1>12, RunKept DEF StoreAccepted
    <2>2. WalletTyped'
      BY <1>12, <2>0 DEF StoreAccepted, WalletTyped
    <2>3. ChainTyped'
      BY <1>12, ChainKept DEF StoreAccepted
    <2>4. CallsTyped'
      BY <1>12 DEF StoreAccepted, CallsTyped, Ops, Idle, Phases, Released,
         Working, Goto
    <2>5. Chosen'
      BY <1>12, ChosenStays, RowsSame DEF StoreAccepted, Sends, run, Chosen,
         CallsTyped, Ops, Idle, Goto
    <2> QED BY <2>1, <2>2, <2>3, <2>4, <2>5 DEF TypeInv
  <1>13. ASSUME NEW ts, RedrawOverdue(ts)
       PROVE  TypeInv'
    <2>1. RunTyped'
      BY <1>13, RescheduleTyped DEF RedrawOverdue
    <2>2. WalletTyped'
      BY <1>13, WalletKept DEF RedrawOverdue
    <2>3. ChainTyped'
      BY <1>13, ChainKept DEF RedrawOverdue
    <2>4. CallsTyped'
      BY <1>13, CallIdle DEF RedrawOverdue
    <2>5. Chosen'
      BY <1>13, ChosenIdle DEF RedrawOverdue
    <2> QED BY <2>1, <2>2, <2>3, <2>4, <2>5 DEF TypeInv
  <1>14. ASSUME NEW ts, RedrawByOther(ts)
       PROVE  TypeInv'
    <2>1. RunTyped'
      BY <1>14, RescheduleTyped DEF RedrawByOther
    <2>2. WalletTyped'
      BY <1>14, WalletKept DEF RedrawByOther
    <2>3. ChainTyped'
      BY <1>14, ChainKept DEF RedrawByOther
    <2>4. CallsTyped'
      BY <1>14, CallsKept DEF RedrawByOther
    <2>5. Chosen'
      BY <1>14, RescheduleTyped, ChosenCalls DEF RedrawByOther
    <2> QED BY <2>1, <2>2, <2>3, <2>4, <2>5 DEF TypeInv
  <1>15. CASE ReadOverdue
    <2>1. RunTyped'
      BY <1>15, RunKept DEF ReadOverdue
    <2>2. WalletTyped'
      BY <1>15, WalletKept DEF ReadOverdue
    <2>3. ChainTyped'
      BY <1>15, ChainKept DEF ReadOverdue
    <2>t. OverdueTxs \in SUBSET Txs
      BY OverdueTyped
    <2>4. CallsTyped'
      <3>1. CASE op' = Idle
        BY <1>15, <3>1, CallIdle DEF ReadOverdue
      <3>2. CASE op' # Idle
        <4>1. PICK read \in SUBSET Txs :
                 op' = [op EXCEPT !.pc = "reschedule", !.read = read]
          BY <1>15, <3>2, <2>t DEF ReadOverdue
        <4> QED BY <1>15, <4>1 DEF ReadOverdue, CallsTyped, Ops
      <3> QED BY <3>1, <3>2
    <2>5. Chosen'
      <3>1. CASE op' = Idle
        BY <3>1, ChosenIdle
      <3>2. CASE op' # Idle
        BY <1>15, <3>2, ChosenStays, RowsSame DEF ReadOverdue, Sends, run, Chosen,
           CallsTyped, Ops
      <3> QED BY <3>1, <3>2
    <2> QED BY <2>1, <2>2, <2>3, <2>4, <2>5 DEF TypeInv
  <1>16. CASE ReadByOther
    <2>1. RunTyped'
      BY <1>16, RunKept DEF ReadByOther
    <2>2. WalletTyped'
      BY <1>16, WalletKept DEF ReadByOther
    <2>3. ChainTyped'
      BY <1>16, MigrationAssumption DEF ReadByOther, ChainTyped
    <2>4. CallsTyped'
      BY <1>16, CallsKept DEF ReadByOther
    <2>5. Chosen'
      BY <1>16, RowsSame, ChosenCalls DEF ReadByOther, run
    <2> QED BY <2>1, <2>2, <2>3, <2>4, <2>5 DEF TypeInv
  <1> QED BY <1>1, <1>2, <1>3, <1>4, <1>5, <1>6, <1>7, <1>8, <1>9, <1>10, <1>11,
     <1>12, <1>13, <1>14, <1>15, <1>16 DEF Sending

LEMMA StoppingTyped == TypeInv /\ Stopping => TypeInv'
  <1> SUFFICES ASSUME RunTyped, WalletTyped, ChainTyped, CallsTyped, Chosen,
                      Stopping PROVE TypeInv'
    BY DEF TypeInv
  <1>1. CASE Stop
    <2>1. RunTyped'
      BY <1>1, RunKept DEF Stop
    <2>2. WalletTyped'
      BY <1>1, WalletKept DEF Stop
    <2>3. ChainTyped'
      BY <1>1, ChainKept DEF Stop
    <2>4. CallsTyped'
      BY <1>1 DEF Stop, CallsTyped, Ops, Idle, Phases, Released, Working
    <2>5. Chosen'
      BY <1>1, ChosenNone DEF Stop, Sends, Idle
    <2> QED BY <2>1, <2>2, <2>3, <2>4, <2>5 DEF TypeInv
  <1>2. CASE StopBlocked
    <2>1. RunTyped'
      BY <1>2, RunKept DEF StopBlocked
    <2>2. WalletTyped'
      BY <1>2, WalletKept DEF StopBlocked
    <2>3. ChainTyped'
      BY <1>2, ChainKept DEF StopBlocked
    <2>4. CallsTyped'
      BY <1>2, CallIdle DEF StopBlocked
    <2>5. Chosen'
      BY <1>2, ChosenIdle DEF StopBlocked
    <2> QED BY <2>1, <2>2, <2>3, <2>4, <2>5 DEF TypeInv
  <1>3. CASE StopSettled
    <2>1. RunTyped'
      BY <1>3, RunKept DEF StopSettled
    <2>2. WalletTyped'
      BY <1>3, WalletKept DEF StopSettled
    <2>3. ChainTyped'
      BY <1>3, ChainKept DEF StopSettled
    <2>4. CallsTyped'
      BY <1>3 DEF StopSettled, CallsTyped, Ops, Idle, Phases, Released, Working,
         Goto
    <2>5. Chosen'
      BY <1>3, ChosenStays, RowsSame DEF StopSettled, Sends, run, Chosen,
         CallsTyped, Ops, Idle, Goto
    <2> QED BY <2>1, <2>2, <2>3, <2>4, <2>5 DEF TypeInv
  <1>4. CASE AbandonRun
    <2>0. row' \in [Parts -> Rows]
      BY <1>4, RowDropped DEF AbandonRun, RunTyped
    <2>1. RunTyped'
      BY <1>4, <2>0 DEF AbandonRun, RunTyped, Phases, Released
    <2>2. WalletTyped'
      BY <1>4 DEF AbandonRun, WalletTyped
    <2>3. ChainTyped'
      BY <1>4, ChainKept DEF AbandonRun
    <2>4. CallsTyped'
      BY <1>4, CallIdle DEF AbandonRun
    <2>5. Chosen'
      BY <1>4, ChosenIdle DEF AbandonRun
    <2> QED BY <2>1, <2>2, <2>3, <2>4, <2>5 DEF TypeInv
  <1>5. CASE RetireUnbroadcast
    <2>1. RunTyped'
      BY <1>5, RetireTyped DEF RetireUnbroadcast
    <2>2. WalletTyped'
      BY <1>5, WalletKept DEF RetireUnbroadcast
    <2>3. ChainTyped'
      BY <1>5, ChainKept DEF RetireUnbroadcast
    <2>4. CallsTyped'
      BY <1>5, RetireTyped DEF RetireUnbroadcast
    <2>5. Chosen'
      BY <1>5, ChosenIdle DEF RetireUnbroadcast, RetireRun
    <2> QED BY <2>1, <2>2, <2>3, <2>4, <2>5 DEF TypeInv
  <1>6. ASSUME NEW p \in Parts, StopFinds(p)
       PROVE  TypeInv'
    <2>1. RunTyped'
      BY <1>6, BroadcastedTyped DEF StopFinds
    <2>2. WalletTyped'
      BY <1>6 DEF StopFinds, WalletTyped
    <2>3. ChainTyped'
      BY <1>6, ChainKept DEF StopFinds
    <2>4. CallsTyped'
      BY <1>6, CallsKept DEF StopFinds
    <2>5. Chosen'
      BY <1>6, BroadcastedTyped, ChosenCalls DEF StopFinds
    <2> QED BY <2>1, <2>2, <2>3, <2>4, <2>5 DEF TypeInv
  <1> QED BY <1>1, <1>2, <1>3, <1>4, <1>5, <1>6 DEF Stopping

LEMMA EnvironmentTyped == TypeInv /\ Environment => TypeInv'
  <1> SUFFICES ASSUME RunTyped, WalletTyped, ChainTyped, CallsTyped, Chosen,
                      Environment PROVE TypeInv'
    BY DEF TypeInv
  <1>1. CASE SyncRecover
    <2>1. RunTyped'
      BY <1>1 DEF SyncRecover, RunTyped, Phases, Released, Working
    <2>2. WalletTyped'
      BY <1>1, WalletKept DEF SyncRecover
    <2>3. ChainTyped'
      BY <1>1, ChainKept DEF SyncRecover
    <2>4. CallsTyped'
      BY <1>1, CallsKept DEF SyncRecover
    <2>5. Chosen'
      BY <1>1, RowsSame, ChosenCalls DEF SyncRecover
    <2> QED BY <2>1, <2>2, <2>3, <2>4, <2>5 DEF TypeInv
  <1>2. CASE SyncConfirm
    <2>1. RunTyped'
      BY <1>2, ReconcileTyped DEF SyncConfirm
    <2>2. WalletTyped'
      BY <1>2, WalletKept DEF SyncConfirm
    <2>3. ChainTyped'
      BY <1>2, ChainKept DEF SyncConfirm
    <2>4. CallsTyped'
      BY <1>2, CallsKept DEF SyncConfirm
    <2>5. Chosen'
      BY <1>2, ReconcileStays, ChosenCalls DEF SyncConfirm
    <2> QED BY <2>1, <2>2, <2>3, <2>4, <2>5 DEF TypeInv
  <1>3. CASE Crash
    <2>1. RunTyped'
      BY <1>3, RunKept DEF Crash
    <2>2. WalletTyped'
      BY <1>3, WalletKept DEF Crash
    <2>3. ChainTyped'
      BY <1>3, ChainKept DEF Crash
    <2>4. CallsTyped'
      BY <1>3, CallIdle DEF Crash
    <2>5. Chosen'
      BY <1>3, ChosenIdle DEF Crash
    <2> QED BY <2>1, <2>2, <2>3, <2>4, <2>5 DEF TypeInv
  <1>4. ASSUME NEW ps \in SUBSET Parts, Scan(ps)
       PROVE  TypeInv'
    <2>1. RunTyped'
      BY <1>4, RunKept DEF Scan
    <2>2. WalletTyped'
      BY <1>4 DEF Scan, WalletTyped, ChainTyped, Present
    <2>3. ChainTyped'
      BY <1>4, ChainKept DEF Scan
    <2>4. CallsTyped'
      BY <1>4, CallsKept DEF Scan
    <2>5. Chosen'
      BY <1>4, RowsSame, ChosenCalls DEF Scan, run
    <2> QED BY <2>1, <2>2, <2>3, <2>4, <2>5 DEF TypeInv
  <1>5. ASSUME NEW p \in Parts, Reorg(p)
       PROVE  TypeInv'
    <2>1. RunTyped'
      BY <1>5, RunKept DEF Reorg
    <2>2. WalletTyped'
      BY <1>5, WalletKept DEF Reorg
    <2>3. ChainTyped'
      BY <1>5, MigrationAssumption DEF Reorg, ChainTyped, Gens
    <2>4. CallsTyped'
      BY <1>5, CallsKept DEF Reorg
    <2>5. Chosen'
      BY <1>5, RowsSame, ChosenCalls DEF Reorg, run
    <2> QED BY <2>1, <2>2, <2>3, <2>4, <2>5 DEF TypeInv
  <1>6. ASSUME NEW p \in Parts, Age(p)
       PROVE  TypeInv'
    <2>1. RunTyped'
      BY <1>6 DEF Age, RunTyped
    <2>2. WalletTyped'
      BY <1>6, WalletKept DEF Age
    <2>3. ChainTyped'
      BY <1>6 DEF Age, ChainTyped
    <2>4. CallsTyped'
      BY <1>6, CallsKept DEF Age
    <2>5. Chosen'
      BY <1>6, RowsSame, ChosenCalls DEF Age
    <2> QED BY <2>1, <2>2, <2>3, <2>4, <2>5 DEF TypeInv
  <1>7. ASSUME NEW p \in Parts, NEW g \in Gens, Mine(p, g)
       PROVE  TypeInv'
    <2>1. RunTyped'
      BY <1>7, RunKept DEF Mine
    <2>2. WalletTyped'
      BY <1>7, WalletKept DEF Mine
    <2>3. ChainTyped'
      BY <1>7, MigrationAssumption DEF Mine, ChainTyped, Gens
    <2>4. CallsTyped'
      BY <1>7, CallsKept DEF Mine
    <2>5. Chosen'
      BY <1>7, RowsSame, ChosenCalls DEF Mine, run
    <2> QED BY <2>1, <2>2, <2>3, <2>4, <2>5 DEF TypeInv
  <1> QED BY <1>1, <1>2, <1>3, <1>4, <1>5, <1>6, <1>7 DEF Environment

LEMMA TypeInvInit == Init => TypeInv
  <1>1. ASSUME InitNew PROVE TypeInv
    <2>1. RunTyped
      <3>1. NoRow \in Rows
        BY MigrationAssumption DEF NoRow, Rows
      <3> QED BY <1>1, <3>1 DEF InitNew, RunTyped, Phases
    <2>2. WalletTyped /\ ChainTyped
      BY <1>1, MigrationAssumption DEF InitNew, WalletTyped, ChainTyped
    <2>3. CallsTyped /\ Chosen
      BY <1>1, IdleTyped DEF InitNew, CallsTyped, Chosen, NoRequest, Sends, Idle
    <2> QED BY <2>1, <2>2, <2>3 DEF TypeInv
  <1>2. ASSUME InitFalseTerminal PROVE TypeInv
    <2>1. RunTyped
      <3>1. [st |-> "scheduled", gen |-> 1, att |-> TRUE] \in Rows
        BY MigrationAssumption DEF Rows, Gens
      <3> QED BY <1>2, <3>1 DEF InitFalseTerminal, RunTyped, Phases, Released
    <2>2. WalletTyped /\ ChainTyped
      BY <1>2, MigrationAssumption DEF InitFalseTerminal, WalletTyped,
         ChainTyped, Gens
    <2>3. CallsTyped /\ Chosen
      BY <1>2, IdleTyped
      DEF InitFalseTerminal, CallsTyped, Chosen, NoRequest, Sends, Idle
    <2> QED BY <2>1, <2>2, <2>3 DEF TypeInv
  <1> QED BY <1>1, <1>2 DEF Init

LEMMA TypeInvStep == TypeInv /\ [Next]_vars => TypeInv'
  <1>1. ASSUME TypeInv, UNCHANGED vars PROVE TypeInv'
    BY <1>1, RunKept, WalletKept, ChainKept, CallsKept, ChosenCalls, RowsSame
    DEF TypeInv, vars, run, wallet, chain, calls
  <1> QED BY <1>1, SigningTyped, AdvancingTyped, SendingTyped, StoppingTyped,
             EnvironmentTyped DEF Next

LEMMA TypeInvAlways == Spec => []TypeInv
  BY TypeInvInit, TypeInvStep, PTL DEF Spec

\* Only three steps change what another call has read, and only a stop makes
\* the run a stopped one.
OutsideStep ==
    \/ UNCHANGED outside
    \/ ReadByOther
    \/ listed' = {} /\ stopped' = stopped
    \/ AbandonRun /\ stopped' = TRUE /\ listed' = listed

LEMMA OutsideSteps == Next => OutsideStep
  <1>1. Signing => UNCHANGED outside
    BY DEF Signing, CreateRun, PrepareBatch, DiscardRequest, CompleteBatch,
       CompleteRecovery, SigningRequestFails, SigningRequest
  <1>2. Advancing => UNCHANGED outside
    BY DEF Advancing, Resume, BroadcastDue, StampPhase, Recheck, PolicyKeeps,
       MarkExpired, Rebuild, RebuildFails, PolicyRebuild, StoreRetry, Promote,
       Finalized
  <1>3. Sending => OutsideStep
    BY DEF Sending, MarkCrossed, NoneDue, MarkBroadcasting, CancelBroadcast,
       MarkAttempted, BroadcastUnknown, BroadcastRejected, RecordAccepted,
       RedrawSkipped, ReadOverdue, DuePending, SendTx, StoreAccepted,
       RedrawOverdue, RedrawByOther, OutsideStep
  <1>4. Stopping => OutsideStep
    BY DEF Stopping, Stop, StopBlocked, StopSettled, AbandonRun,
       RetireUnbroadcast, StopFinds, OutsideStep, outside
  <1>5. Environment => OutsideStep
    BY DEF Environment, SyncRecover, SyncConfirm, Crash, Scan, Reorg, Age, Mine,
       OutsideStep
  <1> QED BY <1>1, <1>2, <1>3, <1>4, <1>5 DEF Next, OutsideStep

LEMMA OutsideAlways == Spec => []OutsideTyped
  <1>1. Init => OutsideTyped
    BY DEF Init, InitNew, InitFalseTerminal, OutsideTyped
  <1>2. OutsideTyped /\ TypeInv /\ [Next]_vars => OutsideTyped'
    <2>1. ASSUME OutsideTyped, TypeInv, Next PROVE OutsideTyped'
      BY <2>1, OutsideSteps, OverdueTyped
      DEF OutsideStep, OutsideTyped, outside, ReadByOther, TypeInv
    <2>2. ASSUME OutsideTyped, UNCHANGED vars PROVE OutsideTyped'
      BY <2>2 DEF OutsideTyped, vars
    <2> QED BY <2>1, <2>2
  <1> QED BY <1>1, <1>2, TypeInvAlways, PTL DEF Spec

\* Rows, signed children, the call and its part keep their types: in particular
\* a row is never written without the transaction it stands for.
THEOREM MigrationTyped == Spec => []TypeOK
  <1>1. TypeInv /\ OutsideTyped => TypeOK
    BY TypeParts DEF TypeInv
  <1> QED BY <1>1, TypeInvAlways, OutsideAlways, PTL
-----------------------------------------------------------------------------
(***************************************************************************)
(* Completion.  A phase of "complete" that a call has read counts as much  *)
(* as the stored one, since the call may write it back.                    *)
(***************************************************************************)
CompletedInv ==
    /\ \A p \in trusted : mined[p] # 0
    /\ phase = "complete" \/ op.ph = "complete" => Parts \subseteq trusted

LEMMA CompletedReconcile ==
  CompletedInv /\ ReconciledPhase = "complete" => Parts \subseteq trusted
  BY DEF CompletedInv, ReconciledPhase, Finished

LEMMA SigningCompleted == TypeInv /\ CompletedInv /\ Signing => CompletedInv'
  <1> SUFFICES ASSUME WalletTyped, ChainTyped, CallsTyped, CompletedInv, Signing
               PROVE  CompletedInv'
    BY DEF TypeInv
  <1>1. CASE CreateRun
    BY <1>1 DEF CreateRun, CompletedInv, wallet, chain, Idle
  <1>2. CASE PrepareBatch
    BY <1>2 DEF PrepareBatch, CompletedInv, run, wallet, chain, Idle
  <1>3. CASE DiscardRequest
    BY <1>3 DEF DiscardRequest, CompletedInv, run, wallet, chain
  <1>4. CASE CompleteBatch
    BY <1>4 DEF CompleteBatch, CompletedInv, wallet, chain
  <1>5. CASE CompleteRecovery
    BY <1>5 DEF CompleteRecovery, CompletedInv
  <1>6. ASSUME NEW w \in BOOLEAN, SigningRequestFails(w)
       PROVE  CompletedInv'
    BY <1>6 DEF SigningRequestFails, CompletedInv, wallet, chain, Idle
  <1>7. ASSUME NEW ps \in SUBSET Parts, SigningRequest(ps)
       PROVE  CompletedInv'
    BY <1>7 DEF SigningRequest, CompletedInv, run, wallet, chain, Idle
  <1> QED BY <1>1, <1>2, <1>3, <1>4, <1>5, <1>6, <1>7 DEF Signing

LEMMA AdvancingCompleted == TypeInv /\ CompletedInv /\ Advancing => CompletedInv'
  <1> SUFFICES ASSUME WalletTyped, ChainTyped, CallsTyped, CompletedInv, Advancing
               PROVE  CompletedInv'
    BY DEF TypeInv
  <1>1. CASE Resume
    BY <1>1 DEF Resume, CompletedInv, run, wallet, chain, Idle
  <1>2. CASE BroadcastDue
    BY <1>2, CompletedReconcile DEF BroadcastDue, Reconcile, CompletedInv,
       wallet, chain, Idle
  <1>3. CASE StampPhase
    BY <1>3 DEF StampPhase, CompletedInv, wallet, chain, CallsTyped, Ops
  <1>4. CASE Recheck
    BY <1>4, CompletedReconcile DEF Recheck, Reconcile, CompletedInv, wallet,
       chain, Idle, CallsTyped, Ops
  <1>5. CASE PolicyKeeps
    BY <1>5 DEF PolicyKeeps, CompletedInv, run, wallet, chain, Goto, CallsTyped, Ops
  <1>6. CASE MarkExpired
    BY <1>6, CompletedReconcile DEF MarkExpired, ReconcileAndMark, CompletedInv,
       wallet, chain, Idle,
       CallsTyped, Ops
  <1>7. CASE Rebuild
    BY <1>7 DEF Rebuild, CompletedInv, CallsTyped, Ops
  <1>8. CASE RebuildFails
    BY <1>8 DEF RebuildFails, CompletedInv, run, wallet, chain, Idle
  <1>9. ASSUME NEW b \in BOOLEAN, PolicyRebuild(b)
       PROVE  CompletedInv'
    BY <1>9 DEF PolicyRebuild, CompletedInv, wallet, chain, Idle, RetireRun
  <1>10. ASSUME NEW ps \in SUBSET Parts, StoreRetry(ps)
       PROVE  CompletedInv'
    BY <1>10 DEF StoreRetry, CompletedInv, run, chain, CallsTyped, Ops
  <1>11. ASSUME NEW p \in Parts, Promote(p)
       PROVE  CompletedInv'
    BY <1>11 DEF Promote, CompletedInv, wallet, chain, CallsTyped, Ops
  <1>12. ASSUME NEW d \in BOOLEAN, NEW b \in BOOLEAN, Finalized(d, b)
       PROVE  CompletedInv'
    BY <1>12 DEF Finalized, CompletedInv, wallet, chain, Idle, CallsTyped, Ops
  <1> QED BY <1>1, <1>2, <1>3, <1>4, <1>5, <1>6, <1>7, <1>8, <1>9, <1>10, <1>11,
     <1>12 DEF Advancing

LEMMA SendingCompleted == TypeInv /\ CompletedInv /\ Sending => CompletedInv'
  <1> SUFFICES ASSUME WalletTyped, ChainTyped, CallsTyped, CompletedInv, Sending
               PROVE  CompletedInv'
    BY DEF TypeInv
  <1>1. CASE MarkCrossed
    BY <1>1, CompletedReconcile DEF MarkCrossed, ReconcileAndMark, CompletedInv,
       wallet, chain, Idle,
       CallsTyped, Ops
  <1>2. CASE NoneDue
    BY <1>2, CompletedReconcile DEF NoneDue, Reconcile, CompletedInv, wallet,
       chain, Idle
  <1>3. CASE MarkBroadcasting
    BY <1>3 DEF MarkBroadcasting, CompletedInv, wallet, chain, Goto, CallsTyped, Ops
  <1>4. CASE CancelBroadcast
    BY <1>4 DEF CancelBroadcast, CompletedInv, wallet, chain, Idle
  <1>5. CASE MarkAttempted
    BY <1>5 DEF MarkAttempted, CompletedInv, wallet, chain, Idle, Goto,
       CallsTyped, Ops
  <1>6. CASE BroadcastUnknown
    BY <1>6 DEF BroadcastUnknown, CompletedInv, wallet, chain, Idle
  <1>7. CASE BroadcastRejected
    BY <1>7 DEF BroadcastRejected, CompletedInv, wallet, chain, Idle, RetireRun
  <1>8. CASE RecordAccepted
    BY <1>8 DEF RecordAccepted, CompletedInv, wallet, chain, CallsTyped, Ops,
       MarkPendingBroadcasted, PhaseAfterBroadcast
  <1>9. CASE RedrawSkipped
    BY <1>9 DEF RedrawSkipped, CompletedInv, run, wallet, chain, Idle
  <1>10. ASSUME NEW p \in Parts, DuePending(p)
       PROVE  CompletedInv'
    BY <1>10, CompletedReconcile DEF DuePending, Reconcile, CompletedInv, wallet,
       chain, CallsTyped, Ops
  <1>11. ASSUME NEW a \in {"accepted", "unknown", "rejected"}, NEW b \in BOOLEAN,
  SendTx(a, b)
       PROVE  CompletedInv'
    BY <1>11 DEF SendTx, CompletedInv, run, wallet, Goto, CallsTyped, Ops
  <1>12. ASSUME NEW b \in BOOLEAN, StoreAccepted(b)
       PROVE  CompletedInv'
    BY <1>12 DEF StoreAccepted, CompletedInv, run, chain, Goto, CallsTyped, Ops
  <1>13. ASSUME NEW ts \in SUBSET op.read, RedrawOverdue(ts)
       PROVE  CompletedInv'
    BY <1>13 DEF RedrawOverdue, CompletedInv, wallet, chain, Idle, Reschedule
  <1>14. ASSUME NEW ts \in SUBSET listed, RedrawByOther(ts)
       PROVE  CompletedInv'
    BY <1>14 DEF RedrawByOther, CompletedInv, wallet, chain, calls, Reschedule
  <1>15. CASE ReadOverdue
    BY <1>15 DEF ReadOverdue, CompletedInv, run, wallet, chain, Idle, CallsTyped, Ops
  <1>16. CASE ReadByOther
    BY <1>16 DEF ReadByOther, CompletedInv, run, wallet, calls
  <1> QED BY <1>1, <1>2, <1>3, <1>4, <1>5, <1>6, <1>7, <1>8, <1>9, <1>10, <1>11,
     <1>12, <1>13, <1>14, <1>15, <1>16 DEF Sending

LEMMA StoppingCompleted == TypeInv /\ CompletedInv /\ Stopping => CompletedInv'
  <1> SUFFICES ASSUME WalletTyped, ChainTyped, CallsTyped, CompletedInv, Stopping
               PROVE  CompletedInv'
    BY DEF TypeInv
  <1>1. CASE Stop
    BY <1>1 DEF Stop, CompletedInv, run, wallet, chain, Idle
  <1>2. CASE StopBlocked
    BY <1>2 DEF StopBlocked, CompletedInv, run, wallet, chain, Idle
  <1>3. CASE StopSettled
    BY <1>3 DEF StopSettled, CompletedInv, run, wallet, chain, Goto, CallsTyped, Ops
  <1>4. CASE AbandonRun
    BY <1>4 DEF AbandonRun, CompletedInv, chain, Idle
  <1>5. CASE RetireUnbroadcast
    BY <1>5 DEF RetireUnbroadcast, CompletedInv, wallet, chain, Idle, RetireRun
  <1>6. ASSUME NEW p \in Parts, StopFinds(p)
       PROVE  CompletedInv'
    BY <1>6 DEF StopFinds, CompletedInv, chain, calls, MarkPendingBroadcasted,
       PhaseAfterBroadcast
  <1> QED BY <1>1, <1>2, <1>3, <1>4, <1>5, <1>6 DEF Stopping

LEMMA EnvironmentCompleted == TypeInv /\ CompletedInv /\ Environment => CompletedInv'
  <1> SUFFICES ASSUME WalletTyped, ChainTyped, CallsTyped, CompletedInv, Environment
               PROVE  CompletedInv'
    BY DEF TypeInv
  <1>1. CASE SyncRecover
    BY <1>1 DEF SyncRecover, CompletedInv, wallet, chain, calls
  <1>2. CASE SyncConfirm
    BY <1>2, CompletedReconcile DEF SyncConfirm, Reconcile, CompletedInv, wallet,
       chain, calls
  <1>3. CASE Crash
    BY <1>3 DEF Crash, CompletedInv, run, wallet, chain, Idle
  <1>4. ASSUME NEW ps \in SUBSET Parts, Scan(ps)
       PROVE  CompletedInv'
    BY <1>4 DEF Scan, CompletedInv, run, chain, calls
  <1>5. ASSUME NEW p \in Parts, Reorg(p)
       PROVE  CompletedInv'
    BY <1>5 DEF Reorg, CompletedInv, run, wallet, calls, ChainTyped, WalletTyped
  <1>6. ASSUME NEW p \in Parts, Age(p)
       PROVE  CompletedInv'
    BY <1>6 DEF Age, CompletedInv, wallet, calls
  <1>7. ASSUME NEW p \in Parts, NEW g \in Gens, Mine(p, g)
       PROVE  CompletedInv'
    BY <1>7, MigrationAssumption DEF Mine, CompletedInv, run, wallet, calls,
       Gens, ChainTyped, WalletTyped
  <1> QED BY <1>1, <1>2, <1>3, <1>4, <1>5, <1>6, <1>7 DEF Environment

LEMMA CompletedInit == Init => CompletedInv
  BY DEF Init, InitNew, InitFalseTerminal, CompletedInv, Idle

LEMMA CompletedStep == TypeInv /\ CompletedInv /\ [Next]_vars => CompletedInv'
  <1>1. ASSUME CompletedInv, UNCHANGED vars PROVE CompletedInv'
    BY <1>1 DEF CompletedInv, vars
  <1> QED BY <1>1, SigningCompleted, AdvancingCompleted, SendingCompleted,
             StoppingCompleted, EnvironmentCompleted DEF Next

\* A run is reported complete only when every part has a transaction in the
\* chain at the trusted depth, for any number of parts, reorganisations and
\* renewed signatures.
THEOREM CompletedMigrated == Spec => []CompletedMeansMigrated
  <1>1. CompletedInv => CompletedMeansMigrated
    BY DEF CompletedInv, CompletedMeansMigrated
  <1>2. Spec => []CompletedInv
    BY CompletedInit, CompletedStep, TypeInvAlways, PTL DEF Spec
  <1> QED BY <1>1, <1>2, PTL
-----------------------------------------------------------------------------
(***************************************************************************)
(* Assignment.  Rows exist only once every part has its signature; a run   *)
(* that is gone has no scheduled transfer that could bring it back; a call *)
(* that runs on, and a phase it has read, stay within this.                *)
(***************************************************************************)
Over == {"none", "abandoned"}
Late == Working \ {"ready_to_migrate"}
Quiet == {"idle", "query", "abandon"}

\* A run that was stopped and opened again has given up the parts it dropped.
Assigned == stopped \/ AssignmentComplete

AssignedInv ==
    /\ phase \notin Over /\ Present # {} => Assigned
    /\ phase = "none" => Present = {} /\ listed = {}
    /\ phase = "abandoned" => stopped
    /\ phase \in Over => In({"scheduled"}) = {}
    /\ phase \in Late => Assigned
    /\ op.pc \notin Quiet => phase \notin Over
    /\ op.pc \in Sends => Assigned
    /\ op.pc = "stamp" => op.ph \notin Over /\ (op.ph \in Late => Assigned)

\* What a step that keeps the rows may do to the phase and to the call.
PhaseStep ==
    \/ phase' = phase /\ (phase \in Over => row' = row)
    \/ /\ phase \notin Over /\ phase' \notin Over
       /\ phase' \in Late => Assigned
    \/ phase = "abandoned" /\ phase' = "ready_to_migrate"

CallStep ==
    /\ op'.pc \notin Quiet => phase' \notin Over
    /\ op'.pc \in Sends => Assigned
    /\ op'.pc = "stamp" => op'.ph \notin Over /\ (op'.ph \in Late => Assigned)

\* What no step undoes: a stop, and that nobody has read a run not created.
Lasting ==
    /\ stopped => stopped'
    /\ phase = "none" => listed' = {}

LEMMA LastingSteps == AssignedInv /\ Next => Lasting
  <1> SUFFICES ASSUME AssignedInv, Next PROVE Lasting
    OBVIOUS
  <1>1. phase = "none" => ~ReadByOther
    BY DEF AssignedInv, Over, ReadByOther, OverdueTxs, In
  <1> QED BY <1>1, OutsideSteps
          DEF OutsideStep, Lasting, AssignedInv, outside, ReadByOther

LEMMA AssignedKept ==
  ASSUME AssignedInv, Lasting, RowsStay,
         AssignmentComplete => AssignmentComplete', PhaseStep, CallStep
  PROVE  AssignedInv'
  <1>1. Present' = Present
    BY DEF RowsStay, Present
  <1>2. phase' \in Over => phase' = phase /\ In({"scheduled"})' = In({"scheduled"})
    BY DEF PhaseStep, In, Over
  <1>3. phase' \in Late => Assigned
    BY DEF PhaseStep, AssignedInv, Late
  <1>4. phase' \notin Over => phase \notin Over \/ stopped
    BY DEF PhaseStep, AssignedInv
  <1>5. Assigned => Assigned'
    BY DEF Assigned, Lasting
  <1>6. phase' \in Over => AssignedInv'
    BY <1>1, <1>2, <1>5 DEF AssignedInv, CallStep, Over, Late, Working, Lasting
  <1>7. phase' \notin Over => AssignedInv'
    BY <1>1, <1>3, <1>4, <1>5 DEF AssignedInv, CallStep, Over, Assigned
  <1> QED BY <1>6, <1>7

LEMMA AssignmentKept ==
  ASSUME RunTyped, RunTyped', RowsStay, signed \subseteq signed',
         AssignmentComplete
  PROVE  AssignmentComplete'
  BY DEF RunTyped, RowsStay, AssignmentComplete, Present

\* A reconciliation gives up the signed children of a finished run only.
LEMMA ReconciledSignedKept ==
  ASSUME RunTyped, RunTyped', RowsStay, signed' = ReconciledSigned,
         AssignmentComplete
  PROVE  AssignmentComplete'
  <1>1. CASE Active /\ Finished
    BY <1>1 DEF RunTyped, RowsStay, AssignmentComplete, Present, Finished
  <1>2. CASE ~(Active /\ Finished)
    BY <1>2, AssignmentKept DEF ReconciledSigned
  <1> QED BY <1>1, <1>2

LEMMA ReconcileAssigned ==
  ASSUME RunTyped, RowsStay, Reconcile, AssignmentComplete
  PROVE  AssignmentComplete'
  BY ReconcileTyped, ReconciledSignedKept DEF Reconcile

LEMMA MarkAssigned ==
  ASSUME RunTyped, RunTyped', RowsStay, NEW marks, ReconcileAndMark(marks),
         AssignmentComplete
  PROVE  AssignmentComplete'
  BY ReconciledSignedKept DEF ReconcileAndMark

LEMMA ReconciledPhaseStep ==
  ASSUME RunTyped, AssignedInv
  PROVE  \/ ReconciledPhase = phase /\ (phase \in Over => ReconciledRows = row)
         \/ /\ phase \notin Over /\ ReconciledPhase \notin Over
            /\ ReconciledPhase \in Late => Assigned
  <1>1. CASE ~Active
    BY <1>1 DEF ReconciledPhase, ReconciledRows
  <1>2. CASE Active /\ Finished
    BY <1>2 DEF ReconciledPhase, Active, Over, Late, Working
  <1>3. CASE Active /\ ~Finished
    <2>1. phase \notin Over
      BY <1>3 DEF Active, Over, Working
    <2>2. \A p \in Parts : Demoted(p) => p \in Present
      BY DEF Demoted, Present
    <2>3. phase = "waiting_migration_confirmations" => Assigned
      BY DEF AssignedInv, Late, Working
    <2> QED BY <1>3, <2>1, <2>2, <2>3 DEF ReconciledPhase, AssignedInv, Over
  <1> QED BY <1>1, <1>2, <1>3

LEMMA ReconcilePhase ==
  ASSUME RunTyped, AssignedInv, Reconcile PROVE PhaseStep
  BY ReconciledPhaseStep DEF Reconcile, PhaseStep

LEMMA MarkPhase ==
  ASSUME RunTyped, AssignedInv, phase \notin Over, NEW marks,
         ReconcileAndMark(marks)
  PROVE  PhaseStep
  BY ReconciledPhaseStep DEF ReconcileAndMark, PhaseStep, Over, Late

LEMMA ReschedulePhase ==
  ASSUME RunTyped, AssignedInv, NEW read, NEW resign, phase # "none",
         Reschedule(read, resign)
  PROVE  PhaseStep
  <1>1. CASE resign = {}
    <2>1. phase \in Over => row' = row
      <3>1. phase \in Over => In({"scheduled"}) = {}
        BY DEF AssignedInv
      <3>2. In({"scheduled"}) = {} => row' = [p \in Parts |-> row[p]]
        BY DEF Reschedule
      <3> QED BY <3>1, <3>2 DEF RunTyped
    <2> QED BY <1>1, <2>1 DEF Reschedule, PhaseStep
  <1>2. CASE resign # {}
    BY <1>2 DEF Reschedule, PhaseStep, Over, Late
  <1> QED BY <1>1, <1>2

LEMMA SigningAssigned ==
  TypeInv /\ TypeInv' /\ AssignedInv /\ Lasting /\ Signing => AssignedInv'
  <1> SUFFICES ASSUME RunTyped, RunTyped', ChainTyped, WalletTyped, CallsTyped,
                      Chosen, AssignedInv, Lasting, Signing
               PROVE  AssignedInv'
    BY DEF TypeInv
  <1>1. CASE CreateRun
    <2>1. Present = {} /\ Present' = {}
      BY <1>1 DEF CreateRun, AssignedInv, Present
    <2>2. phase' = "ready_to_migrate" /\ op'.pc \notin Sends \cup {"stamp"}
      BY <1>1 DEF CreateRun, Idle, Sends
    <2> QED BY <2>1, <2>2 DEF AssignedInv, Over, Late, In, Present
  <1>2. CASE PrepareBatch
    <2>1. RowsStay
      BY <1>2, RowsSame DEF PrepareBatch, run
    <2>2. AssignmentComplete => AssignmentComplete'
      BY <1>2, <2>1, AssignmentKept DEF PrepareBatch, run
    <2>3. PhaseStep
      BY <1>2 DEF PrepareBatch, PhaseStep, AssignedInv, Over, Late, Working, run,
         Active
    <2>4. CallStep
      BY <1>2 DEF PrepareBatch, CallStep, AssignedInv, Over, Late, Working,
         Quiet, Sends, Idle, run, Active
    <2> QED BY <2>1, <2>2, <2>3, <2>4, AssignedKept
  <1>3. CASE DiscardRequest
    <2>1. RowsStay
      BY <1>3, RowsSame DEF DiscardRequest, run
    <2>2. AssignmentComplete => AssignmentComplete'
      BY <1>3, <2>1, AssignmentKept DEF DiscardRequest, run
    <2>3. PhaseStep
      BY <1>3 DEF DiscardRequest, PhaseStep, AssignedInv, Over, Late, Working, run
    <2>4. CallStep
      BY <1>3 DEF DiscardRequest, CallStep, AssignedInv, Over, Late, Working,
         Quiet, Sends, Idle, run
    <2> QED BY <2>1, <2>2, <2>3, <2>4, AssignedKept
  <1>4. CASE CompleteBatch
    <2>1. RowsStay
      BY <1>4, RowsSame DEF CompleteBatch
    <2>2. AssignmentComplete => AssignmentComplete'
      BY <1>4, <2>1, AssignmentKept DEF CompleteBatch
    <2>3. PhaseStep
      BY <1>4 DEF CompleteBatch, PhaseStep, AssignedInv, Over, Late, Working
    <2>4. CallStep
      BY <1>4 DEF CompleteBatch, CallStep, AssignedInv, Over, Late, Working,
         Quiet, Sends, Idle, CallsTyped, Ops
    <2> QED BY <2>1, <2>2, <2>3, <2>4, AssignedKept
  <1>5. CASE CompleteRecovery
    <2>0. request.parts \in SUBSET In({"needs_resign"}) /\ setbacks \in 0..MaxSetbacks
      BY <1>5 DEF CompleteRecovery, ChainTyped
    <2>1. RowsStay
      BY <1>5, <2>0, ResignedTyped DEF CompleteRecovery
    <2>2. AssignmentComplete => AssignmentComplete'
      BY <1>5, <2>1, AssignmentKept DEF CompleteRecovery
    <2>3. PhaseStep
      BY <1>5, <2>0 DEF CompleteRecovery, PhaseStep, AssignedInv, Over, Late,
         Working, Active, In, Present
    <2>4. CallStep
      BY <1>5 DEF CompleteRecovery, CallStep, AssignedInv, Over, Late, Working,
         Quiet, Sends, Idle
    <2> QED BY <2>1, <2>2, <2>3, <2>4, AssignedKept
  <1>6. ASSUME NEW w \in BOOLEAN, SigningRequestFails(w)
       PROVE  AssignedInv'
    <2>1. RowsStay
      BY <1>6, RowsSame DEF SigningRequestFails
    <2>2. AssignmentComplete => AssignmentComplete'
      BY <1>6, <2>1, AssignmentKept DEF SigningRequestFails
    <2>3. PhaseStep
      BY <1>6 DEF SigningRequestFails, PhaseStep, AssignedInv, Over, Late,
         Working, Quiet
    <2>4. CallStep
      BY <1>6 DEF SigningRequestFails, CallStep, AssignedInv, Over, Late,
         Working, Quiet, Sends, Idle
    <2> QED BY <2>1, <2>2, <2>3, <2>4, AssignedKept
  <1>7. ASSUME NEW ps \in SUBSET Parts, SigningRequest(ps)
       PROVE  AssignedInv'
    <2>1. RowsStay
      BY <1>7, RowsSame DEF SigningRequest, run
    <2>2. AssignmentComplete => AssignmentComplete'
      BY <1>7, <2>1, AssignmentKept DEF SigningRequest, run
    <2>3. PhaseStep
      BY <1>7 DEF SigningRequest, PhaseStep, AssignedInv, Over, Late, Working, run
    <2>4. CallStep
      BY <1>7 DEF SigningRequest, CallStep, AssignedInv, Over, Late, Working,
         Quiet, Sends, Idle, run
    <2> QED BY <2>1, <2>2, <2>3, <2>4, AssignedKept
  <1> QED BY <1>1, <1>2, <1>3, <1>4, <1>5, <1>6, <1>7 DEF Signing

LEMMA AdvancingAssigned ==
  TypeInv /\ TypeInv' /\ AssignedInv /\ Lasting /\ Advancing => AssignedInv'
  <1> SUFFICES ASSUME RunTyped, RunTyped', ChainTyped, WalletTyped, CallsTyped,
                      Chosen, AssignedInv, Lasting, Advancing
               PROVE  AssignedInv'
    BY DEF TypeInv
  <1>1. CASE Resume
    <2>1. RowsStay
      BY <1>1, RowsSame DEF Resume, run
    <2>2. AssignmentComplete => AssignmentComplete'
      BY <1>1, <2>1, AssignmentKept DEF Resume, run
    <2>3. PhaseStep
      BY <1>1 DEF Resume, PhaseStep, AssignedInv, Over, Late, Working, run, Active
    <2>4. CallStep
      BY <1>1 DEF Resume, CallStep, AssignedInv, Over, Late, Working, Quiet,
         Sends, Idle, run, Active
    <2> QED BY <2>1, <2>2, <2>3, <2>4, AssignedKept
  <1>2. CASE BroadcastDue
    <2>1. RowsStay
      BY <1>2, ReconcileStays DEF BroadcastDue
    <2>2. AssignmentComplete => AssignmentComplete'
      BY <1>2, <2>1, ReconcileAssigned DEF BroadcastDue
    <2>3. PhaseStep
      BY <1>2, ReconcilePhase DEF BroadcastDue
    <2>4. CallStep
      BY <1>2 DEF BroadcastDue, CallStep, AssignedInv, Over, Late, Working,
         Quiet, Sends, Idle, Active, Reconcile, ReconciledPhase
    <2> QED BY <2>1, <2>2, <2>3, <2>4, AssignedKept
  <1>3. CASE StampPhase
    <2>0. /\ phase \notin Over /\ op.ph \notin Over
          /\ op.part # NoPart => Assigned
      BY <1>3 DEF StampPhase, AssignedInv, Quiet, Chosen
    <2>1. RowsStay
      BY <1>3, RowsSame DEF StampPhase
    <2>2. AssignmentComplete => AssignmentComplete'
      BY <1>3, <2>1, AssignmentKept DEF StampPhase
    <2>3. PhaseStep
      BY <1>3, <2>0 DEF StampPhase, PhaseStep, AssignedInv
    <2>4. CallStep
      BY <1>3, <2>0 DEF StampPhase, CallStep, AssignedInv, Sends, CallsTyped, Ops
    <2> QED BY <2>1, <2>2, <2>3, <2>4, AssignedKept
  <1>4. CASE Recheck
    <2>1. RowsStay
      BY <1>4, ReconcileStays DEF Recheck
    <2>2. AssignmentComplete => AssignmentComplete'
      BY <1>4, <2>1, ReconcileAssigned DEF Recheck
    <2>3. PhaseStep
      BY <1>4, ReconcilePhase DEF Recheck
    <2>4. CallStep
      BY <1>4, <2>3 DEF Recheck, PhaseStep, CallStep, AssignedInv, Over, Quiet,
         Sends, Idle, CallsTyped, Ops
    <2> QED BY <2>1, <2>2, <2>3, <2>4, AssignedKept
  <1>5. CASE PolicyKeeps
    <2>1. RowsStay
      BY <1>5, RowsSame DEF PolicyKeeps, run, Goto
    <2>2. AssignmentComplete => AssignmentComplete'
      BY <1>5, <2>1, AssignmentKept DEF PolicyKeeps, run, Goto
    <2>3. PhaseStep
      BY <1>5 DEF PolicyKeeps, PhaseStep, AssignedInv, Over, Late, Working, run,
         Goto
    <2>4. CallStep
      BY <1>5 DEF PolicyKeeps, CallStep, AssignedInv, Over, Late, Working, Quiet,
         Sends, Idle, run, Goto, CallsTyped, Ops
    <2> QED BY <2>1, <2>2, <2>3, <2>4, AssignedKept
  <1>6. CASE MarkExpired
    <2> DEFINE marks == {p \in Parts : Expired(ReconciledRows[p], p)}
    <2>0. ReconcileAndMark(marks) /\ marks \in SUBSET Parts
      BY <1>6 DEF MarkExpired
    <2>m. \A p \in marks : ReconciledRows[p].st # "none"
      BY DEF Expired
    <2>p. phase \notin Over
      BY <1>6 DEF MarkExpired, AssignedInv, Quiet
    <2> HIDE DEF marks
    <2>1. RowsStay
      BY <2>0, <2>m, MarkTyped
    <2>2. AssignmentComplete => AssignmentComplete'
      BY <2>0, <2>1, MarkAssigned
    <2>3. PhaseStep
      BY <2>0, <2>p, MarkPhase
    <2>4. CallStep
      BY <1>6, <2>p, <2>3 DEF MarkExpired, PhaseStep, CallStep, AssignedInv,
         Over, Quiet, Sends, Idle, CallsTyped, Ops
    <2> QED BY <2>1, <2>2, <2>3, <2>4, AssignedKept
  <1>7. CASE Rebuild
    <2>0. /\ In({"needs_resign"}) \in SUBSET In({"needs_resign"})
          /\ setbacks \in 0..MaxSetbacks /\ Resigned(In({"needs_resign"}))
      BY <1>7 DEF Rebuild, ChainTyped
    <2>1. RowsStay
      BY <1>7, <2>0, ResignedTyped
    <2>2. AssignmentComplete => AssignmentComplete'
      BY <1>7, <2>1, AssignmentKept DEF Rebuild
    <2>3. PhaseStep
      <3>1. phase \notin Over
        BY <1>7 DEF Rebuild, AssignedInv, Quiet
      <3>2. CASE In({"needs_resign"}) = {}
        BY <1>7, <3>1, <3>2 DEF Rebuild, Resigned, PhaseStep, In
      <3>3. CASE In({"needs_resign"}) # {}
        BY <1>7, <3>1, <3>3 DEF Rebuild, PhaseStep, AssignedInv, Over, In, Present
      <3> QED BY <3>2, <3>3
    <2>4. CallStep
      BY <1>7, <2>3 DEF Rebuild, PhaseStep, CallStep, AssignedInv, Over, Quiet,
         Sends, CallsTyped, Ops
    <2> QED BY <2>1, <2>2, <2>3, <2>4, AssignedKept
  <1>8. CASE RebuildFails
    <2>1. RowsStay
      BY <1>8, RowsSame DEF RebuildFails, run
    <2>2. AssignmentComplete => AssignmentComplete'
      BY <1>8, <2>1, AssignmentKept DEF RebuildFails, run
    <2>3. PhaseStep
      BY <1>8 DEF RebuildFails, PhaseStep, AssignedInv, Over, Late, Working, run
    <2>4. CallStep
      BY <1>8 DEF RebuildFails, CallStep, AssignedInv, Over, Late, Working,
         Quiet, Sends, Idle, run
    <2> QED BY <2>1, <2>2, <2>3, <2>4, AssignedKept
  <1>9. ASSUME NEW b \in BOOLEAN, PolicyRebuild(b)
       PROVE  AssignedInv'
    <2>1. RowsStay
      BY <1>9, RowsSame DEF PolicyRebuild, RetireRun
    <2>2. AssignmentComplete => AssignmentComplete'
      BY <1>9, <2>1, AssignmentKept DEF PolicyRebuild, RetireRun
    <2>3. PhaseStep
      BY <1>9 DEF PolicyRebuild, PhaseStep, AssignedInv, Over, Late, Working,
         RetireRun, Quiet
    <2>4. CallStep
      BY <1>9 DEF PolicyRebuild, CallStep, AssignedInv, Over, Late, Working,
         Quiet, Sends, Idle, RetireRun
    <2> QED BY <2>1, <2>2, <2>3, <2>4, AssignedKept
  <1>10. ASSUME NEW ps \in SUBSET Parts, StoreRetry(ps)
       PROVE  AssignedInv'
    <2>1. RowsStay
      BY <1>10, RowsSame DEF StoreRetry, run
    <2>2. AssignmentComplete => AssignmentComplete'
      BY <1>10, <2>1, AssignmentKept DEF StoreRetry, run
    <2>3. PhaseStep
      BY <1>10 DEF StoreRetry, PhaseStep, AssignedInv, Over, Late, Working, run
    <2>4. CallStep
      BY <1>10 DEF StoreRetry, CallStep, AssignedInv, Over, Late, Working, Quiet,
         Sends, Idle, run, CallsTyped, Ops
    <2> QED BY <2>1, <2>2, <2>3, <2>4, AssignedKept
  <1>11. ASSUME NEW p \in Parts, Promote(p)
       PROVE  AssignedInv'
    <2>1. Present' = Present \cup {p} /\ signed' = signed /\ AssignmentComplete
      BY <1>11 DEF Promote, Present, RunTyped
    <2>2. AssignmentComplete'
      BY <2>1 DEF AssignmentComplete, Present, RunTyped
    <2>3. phase' = "broadcast_scheduled" /\ op'.pc = "finalize"
      BY <1>11 DEF Promote, CallsTyped, Ops
    <2> QED BY <2>2, <2>3 DEF AssignedInv, Assigned, Over, Sends
  <1>12. ASSUME NEW d \in BOOLEAN, NEW b \in BOOLEAN, Finalized(d, b)
       PROVE  AssignedInv'
    <2>1. RowsStay
      BY <1>12, RowsSame DEF Finalized
    <2>2. AssignmentComplete => AssignmentComplete'
      BY <1>12, <2>1, AssignmentKept DEF Finalized
    <2>3. PhaseStep
      BY <1>12 DEF Finalized, PhaseStep, AssignedInv, Over, Late, Working, Quiet,
         AssignmentComplete
    <2>4. CallStep
      BY <1>12 DEF Finalized, CallStep, AssignedInv, Over, Late, Working, Quiet,
         Sends, Idle, CallsTyped, Ops
    <2> QED BY <2>1, <2>2, <2>3, <2>4, AssignedKept
  <1> QED BY <1>1, <1>2, <1>3, <1>4, <1>5, <1>6, <1>7, <1>8, <1>9, <1>10, <1>11,
     <1>12 DEF Advancing

LEMMA SendingAssigned ==
  TypeInv /\ TypeInv' /\ AssignedInv /\ Lasting /\ Sending => AssignedInv'
  <1> SUFFICES ASSUME RunTyped, RunTyped', ChainTyped, WalletTyped, CallsTyped,
                      Chosen, AssignedInv, Lasting, Sending
               PROVE  AssignedInv'
    BY DEF TypeInv
  <1>1. CASE MarkCrossed
    <2> DEFINE marks == {p \in Parts : /\ ReconciledRows[p].st = "scheduled"
                                          /\ ReconciledAge[p] \in {"crossed", "expired"}}
    <2>0. ReconcileAndMark(marks) /\ marks \in SUBSET Parts
      BY <1>1 DEF MarkCrossed
    <2>m. \A p \in marks : ReconciledRows[p].st # "none"
      BY DEF Expired
    <2>p. phase \notin Over
      BY <1>1 DEF MarkCrossed, AssignedInv, Quiet
    <2> HIDE DEF marks
    <2>1. RowsStay
      BY <2>0, <2>m, MarkTyped
    <2>2. AssignmentComplete => AssignmentComplete'
      BY <2>0, <2>1, MarkAssigned
    <2>3. PhaseStep
      BY <2>0, <2>p, MarkPhase
    <2>4. CallStep
      BY <1>1, <2>p, <2>3 DEF MarkCrossed, PhaseStep, CallStep, AssignedInv,
         Over, Quiet, Sends, Idle, CallsTyped, Ops
    <2> QED BY <2>1, <2>2, <2>3, <2>4, AssignedKept
  <1>2. CASE NoneDue
    <2>1. RowsStay
      BY <1>2, ReconcileStays DEF NoneDue
    <2>2. AssignmentComplete => AssignmentComplete'
      BY <1>2, <2>1, ReconcileAssigned DEF NoneDue
    <2>3. PhaseStep
      BY <1>2, ReconcilePhase DEF NoneDue
    <2>4. CallStep
      BY <1>2 DEF NoneDue, CallStep, AssignedInv, Over, Late, Working, Quiet,
         Sends, Idle
    <2> QED BY <2>1, <2>2, <2>3, <2>4, AssignedKept
  <1>3. CASE MarkBroadcasting
    <2>1. RowsStay
      BY <1>3, RowsSame DEF MarkBroadcasting, Goto
    <2>2. AssignmentComplete => AssignmentComplete'
      BY <1>3, <2>1, AssignmentKept DEF MarkBroadcasting, Goto
    <2>3. PhaseStep
      BY <1>3 DEF MarkBroadcasting, PhaseStep, AssignedInv, Over, Late, Working,
         Goto, Quiet, Sends
    <2>4. CallStep
      BY <1>3 DEF MarkBroadcasting, CallStep, AssignedInv, Over, Late, Working,
         Quiet, Sends, Idle, Goto, CallsTyped, Ops
    <2> QED BY <2>1, <2>2, <2>3, <2>4, AssignedKept
  <1>4. CASE CancelBroadcast
    <2>1. RowsStay
      BY <1>4, RowsSame DEF CancelBroadcast
    <2>2. AssignmentComplete => AssignmentComplete'
      BY <1>4, <2>1, AssignmentKept DEF CancelBroadcast
    <2>3. PhaseStep
      BY <1>4 DEF CancelBroadcast, PhaseStep, AssignedInv, Over, Late, Working,
         Quiet, Sends
    <2>4. CallStep
      BY <1>4 DEF CancelBroadcast, CallStep, AssignedInv, Over, Late, Working,
         Quiet, Sends, Idle
    <2> QED BY <2>1, <2>2, <2>3, <2>4, AssignedKept
  <1>5. CASE MarkAttempted
    <2>1. RowsStay
      <3>1. op.part \in Parts /\ row[op.part] \in Rows
        BY <1>5 DEF MarkAttempted, Chosen, Sends, Present, RunTyped
      <3>2. CASE row[op.part].st = "scheduled"
        <4>1. row' = [row EXCEPT ![op.part] = [row[op.part] EXCEPT !.att = TRUE]]
          BY <1>5, <3>2 DEF MarkAttempted
        <4>2. [row[op.part] EXCEPT !.att = TRUE].st = row[op.part].st
          BY <3>1, <3>2, RowAttempted
        <4> QED BY <3>1, <4>1, <4>2 DEF RunTyped, RowsStay
      <3>3. CASE row[op.part].st # "scheduled"
        BY <1>5, <3>3, RowsSame DEF MarkAttempted
      <3> QED BY <3>2, <3>3
    <2>2. AssignmentComplete => AssignmentComplete'
      BY <1>5, <2>1, AssignmentKept DEF MarkAttempted
    <2>3. PhaseStep
      BY <1>5 DEF MarkAttempted, PhaseStep, AssignedInv, Quiet, Over
    <2>4. CallStep
      BY <1>5 DEF MarkAttempted, CallStep, AssignedInv, Over, Late, Working,
         Quiet, Sends, Idle, Goto, CallsTyped, Ops
    <2> QED BY <2>1, <2>2, <2>3, <2>4, AssignedKept
  <1>6. CASE BroadcastUnknown
    <2>1. RowsStay
      BY <1>6, RowsSame DEF BroadcastUnknown
    <2>2. AssignmentComplete => AssignmentComplete'
      BY <1>6, <2>1, AssignmentKept DEF BroadcastUnknown
    <2>3. PhaseStep
      BY <1>6 DEF BroadcastUnknown, PhaseStep, AssignedInv, Over, Late, Working,
         Quiet, Sends
    <2>4. CallStep
      BY <1>6 DEF BroadcastUnknown, CallStep, AssignedInv, Over, Late, Working,
         Quiet, Sends, Idle
    <2> QED BY <2>1, <2>2, <2>3, <2>4, AssignedKept
  <1>7. CASE BroadcastRejected
    <2>1. RowsStay
      BY <1>7, RowsSame DEF BroadcastRejected, RetireRun
    <2>2. AssignmentComplete => AssignmentComplete'
      BY <1>7, <2>1, AssignmentKept DEF BroadcastRejected, RetireRun
    <2>3. PhaseStep
      BY <1>7 DEF BroadcastRejected, PhaseStep, AssignedInv, Over, Late, Working,
         RetireRun, Quiet, Sends
    <2>4. CallStep
      BY <1>7 DEF BroadcastRejected, CallStep, AssignedInv, Over, Late, Working,
         Quiet, Sends, Idle, RetireRun
    <2> QED BY <2>1, <2>2, <2>3, <2>4, AssignedKept
  <1>8. CASE RecordAccepted
    <2>0. op.part \in Parts
      BY <1>8 DEF RecordAccepted, Chosen, Sends, Present
    <2>1. RowsStay
      BY <1>8, <2>0, BroadcastedTyped DEF RecordAccepted
    <2>2. AssignmentComplete => AssignmentComplete'
      BY <1>8, <2>1, AssignmentKept DEF RecordAccepted, MarkPendingBroadcasted
    <2>3. PhaseStep
      BY <1>8, <2>0 DEF RecordAccepted, MarkPendingBroadcasted,
         PhaseAfterBroadcast, PhaseStep,
         AssignedInv, Over, Quiet, Sends
    <2>4. CallStep
      BY <1>8, <2>0, <2>3 DEF RecordAccepted, MarkPendingBroadcasted,
         PhaseAfterBroadcast,
         PhaseStep, CallStep, AssignedInv, Over, Quiet, Sends, CallsTyped, Ops
    <2> QED BY <2>1, <2>2, <2>3, <2>4, AssignedKept
  <1>9. CASE RedrawSkipped
    <2>1. RowsStay
      BY <1>9, RowsSame DEF RedrawSkipped, run
    <2>2. AssignmentComplete => AssignmentComplete'
      BY <1>9, <2>1, AssignmentKept DEF RedrawSkipped, run
    <2>3. PhaseStep
      BY <1>9 DEF RedrawSkipped, PhaseStep, AssignedInv, Over, Late, Working, run
    <2>4. CallStep
      BY <1>9 DEF RedrawSkipped, CallStep, AssignedInv, Over, Late, Working,
         Quiet, Sends, Idle, run
    <2> QED BY <2>1, <2>2, <2>3, <2>4, AssignedKept
  <1>10. ASSUME NEW p \in Parts, DuePending(p)
       PROVE  AssignedInv'
    <2>1. RowsStay
      BY <1>10, ReconcileStays DEF DuePending
    <2>2. AssignmentComplete => AssignmentComplete'
      BY <1>10, <2>1, ReconcileAssigned DEF DuePending
    <2>3. PhaseStep
      BY <1>10, ReconcilePhase DEF DuePending
    <2>4. CallStep
      <3>1. p \in Present
        BY <1>10, <2>1 DEF DuePending, RowsStay, Present
      <3>2. phase \notin Over
        BY <1>10 DEF DuePending, AssignedInv, Quiet
      <3>3. Assigned /\ phase' \notin Over
        BY <2>3, <3>1, <3>2 DEF PhaseStep, AssignedInv, Over
      <3>4. op'.pc = "mark"
        BY <1>10 DEF DuePending, CallsTyped, Ops
      <3> QED BY <3>3, <3>4 DEF CallStep
    <2> QED BY <2>1, <2>2, <2>3, <2>4, AssignedKept
  <1>11. ASSUME NEW a \in {"accepted", "unknown", "rejected"}, NEW b \in BOOLEAN,
  SendTx(a, b)
       PROVE  AssignedInv'
    <2>1. RowsStay
      BY <1>11, RowsSame DEF SendTx, run, Goto
    <2>2. AssignmentComplete => AssignmentComplete'
      BY <1>11, <2>1, AssignmentKept DEF SendTx, run, Goto
    <2>3. PhaseStep
      BY <1>11 DEF SendTx, PhaseStep, AssignedInv, Over, Late, Working, run, Goto
    <2>4. CallStep
      BY <1>11 DEF SendTx, CallStep, AssignedInv, Over, Late, Working, Quiet,
         Sends, Idle, run, Goto, CallsTyped, Ops
    <2> QED BY <2>1, <2>2, <2>3, <2>4, AssignedKept
  <1>12. ASSUME NEW b \in BOOLEAN, StoreAccepted(b)
       PROVE  AssignedInv'
    <2>1. RowsStay
      BY <1>12, RowsSame DEF StoreAccepted, run, Goto
    <2>2. AssignmentComplete => AssignmentComplete'
      BY <1>12, <2>1, AssignmentKept DEF StoreAccepted, run, Goto
    <2>3. PhaseStep
      BY <1>12 DEF StoreAccepted, PhaseStep, AssignedInv, Over, Late, Working,
         run, Goto
    <2>4. CallStep
      BY <1>12 DEF StoreAccepted, CallStep, AssignedInv, Over, Late, Working,
         Quiet, Sends, Idle, run, Goto, CallsTyped, Ops
    <2> QED BY <2>1, <2>2, <2>3, <2>4, AssignedKept
  <1>13. ASSUME NEW ts \in SUBSET op.read, RedrawOverdue(ts)
       PROVE  AssignedInv'
    <2>1. RowsStay
      BY <1>13, RescheduleTyped DEF RedrawOverdue
    <2>2. AssignmentComplete => AssignmentComplete'
      BY <1>13, <2>1, AssignmentKept DEF RedrawOverdue, Reschedule
    <2>3. PhaseStep
      <3>1. phase # "none"
        BY <1>13 DEF RedrawOverdue, AssignedInv, Quiet, Over
      <3> QED BY <1>13, <3>1, ReschedulePhase DEF RedrawOverdue
    <2>4. CallStep
      BY <1>13 DEF RedrawOverdue, CallStep, AssignedInv, Over, Late, Working,
         Quiet, Sends, Idle
    <2> QED BY <2>1, <2>2, <2>3, <2>4, AssignedKept
  <1>14. ASSUME NEW ts \in SUBSET listed, RedrawByOther(ts)
       PROVE  AssignedInv'
    <2>1. RowsStay
      BY <1>14, RescheduleTyped DEF RedrawByOther
    <2>2. AssignmentComplete => AssignmentComplete'
      BY <1>14, <2>1, AssignmentKept DEF RedrawByOther, Reschedule
    <2>3. PhaseStep
      <3>1. phase # "none"
        BY <1>14 DEF RedrawByOther, AssignedInv
      <3> QED BY <1>14, <3>1, ReschedulePhase DEF RedrawByOther
    <2>4. CallStep
      BY <1>14, <2>3 DEF RedrawByOther, PhaseStep, CallStep, AssignedInv, Over,
         calls
    <2> QED BY <2>1, <2>2, <2>3, <2>4, AssignedKept
  <1>15. CASE ReadOverdue
    <2>1. RowsStay
      BY <1>15, RowsSame DEF ReadOverdue, run
    <2>2. AssignmentComplete => AssignmentComplete'
      BY <1>15, <2>1, AssignmentKept DEF ReadOverdue, run
    <2>3. PhaseStep
      BY <1>15 DEF ReadOverdue, PhaseStep, run
    <2>4. CallStep
      <3>1. op'.pc \in {"idle", "reschedule"} /\ phase' = phase
        BY <1>15 DEF ReadOverdue, Idle, run, CallsTyped, Ops
      <3>2. phase \notin Over /\ Assigned
        BY <1>15 DEF ReadOverdue, AssignedInv, Quiet, Sends
      <3> QED BY <3>1, <3>2 DEF CallStep, Quiet, Sends
    <2> QED BY <2>1, <2>2, <2>3, <2>4, AssignedKept
  <1>16. CASE ReadByOther
    <2>1. RowsStay
      BY <1>16, RowsSame DEF ReadByOther, run
    <2>2. AssignmentComplete => AssignmentComplete'
      BY <1>16, <2>1, AssignmentKept DEF ReadByOther, run
    <2>3. PhaseStep
      BY <1>16 DEF ReadByOther, PhaseStep, run
    <2>4. CallStep
      BY <1>16 DEF ReadByOther, CallStep, AssignedInv, run, calls
    <2> QED BY <2>1, <2>2, <2>3, <2>4, AssignedKept
  <1> QED BY <1>1, <1>2, <1>3, <1>4, <1>5, <1>6, <1>7, <1>8, <1>9, <1>10, <1>11,
     <1>12, <1>13, <1>14, <1>15, <1>16 DEF Sending

LEMMA StoppingAssigned ==
  TypeInv /\ TypeInv' /\ AssignedInv /\ Lasting /\ Stopping => AssignedInv'
  <1> SUFFICES ASSUME RunTyped, RunTyped', ChainTyped, WalletTyped, CallsTyped,
                      Chosen, AssignedInv, Lasting, Stopping
               PROVE  AssignedInv'
    BY DEF TypeInv
  <1>1. CASE Stop
    <2>1. RowsStay
      BY <1>1, RowsSame DEF Stop, run
    <2>2. AssignmentComplete => AssignmentComplete'
      BY <1>1, <2>1, AssignmentKept DEF Stop, run
    <2>3. PhaseStep
      BY <1>1 DEF Stop, PhaseStep, AssignedInv, Over, Late, Working, run
    <2>4. CallStep
      BY <1>1 DEF Stop, CallStep, AssignedInv, Over, Late, Working, Quiet, Sends,
         Idle, run, CallsTyped, Ops
    <2> QED BY <2>1, <2>2, <2>3, <2>4, AssignedKept
  <1>2. CASE StopBlocked
    <2>1. RowsStay
      BY <1>2, RowsSame DEF StopBlocked, run
    <2>2. AssignmentComplete => AssignmentComplete'
      BY <1>2, <2>1, AssignmentKept DEF StopBlocked, run
    <2>3. PhaseStep
      BY <1>2 DEF StopBlocked, PhaseStep, AssignedInv, Over, Late, Working, run
    <2>4. CallStep
      BY <1>2 DEF StopBlocked, CallStep, AssignedInv, Over, Late, Working, Quiet,
         Sends, Idle, run
    <2> QED BY <2>1, <2>2, <2>3, <2>4, AssignedKept
  <1>3. CASE StopSettled
    <2>1. RowsStay
      BY <1>3, RowsSame DEF StopSettled, run, Goto
    <2>2. AssignmentComplete => AssignmentComplete'
      BY <1>3, <2>1, AssignmentKept DEF StopSettled, run, Goto
    <2>3. PhaseStep
      BY <1>3 DEF StopSettled, PhaseStep, AssignedInv, Over, Late, Working, run,
         Goto
    <2>4. CallStep
      BY <1>3 DEF StopSettled, CallStep, AssignedInv, Over, Late, Working, Quiet,
         Sends, Idle, run, Goto, CallsTyped, Ops
    <2> QED BY <2>1, <2>2, <2>3, <2>4, AssignedKept
  <1>4. CASE AbandonRun
    <2>1. op'.pc = "idle"
      BY <1>4 DEF AbandonRun, Idle
    <2>2. CASE Active
      <3>1. phase' = "abandoned"
        BY <1>4, <2>2 DEF AbandonRun
      <3>2. In({"scheduled"})' = {}
        <4>1. ASSUME NEW p \in In({"scheduled", "needs_resign"})
             PROVE  row'[p].st = "none"
          <5>1. row'[p] = Dropped(row[p])
            BY <1>4, <2>2 DEF AbandonRun, In
          <5> QED BY <5>1, RowDropped DEF RunTyped, In
        <4>2. ASSUME NEW p \in Parts, p \notin In({"scheduled", "needs_resign"})
             PROVE  row'[p].st # "scheduled"
          BY <1>4, <2>2, <4>2 DEF AbandonRun, In
        <4> QED BY <4>1, <4>2 DEF In
      <3>3. stopped'
        BY <1>4, <2>2 DEF AbandonRun
      <3> QED BY <2>1, <3>1, <3>2, <3>3
              DEF AssignedInv, Over, Late, Working, Quiet, Sends
    <2>3. CASE ~Active
      <3>1. RowsStay /\ signed' = signed /\ phase' = phase /\ row' = row
        BY <1>4, <2>3, RowsSame DEF AbandonRun
      <3> QED BY <2>1, <3>1, AssignmentKept, AssignedKept DEF PhaseStep,
         CallStep, Quiet, Sends
    <2> QED BY <2>2, <2>3
  <1>5. CASE RetireUnbroadcast
    <2>1. RowsStay
      BY <1>5, RowsSame DEF RetireUnbroadcast, RetireRun
    <2>2. AssignmentComplete => AssignmentComplete'
      BY <1>5, <2>1, AssignmentKept DEF RetireUnbroadcast, RetireRun
    <2>3. PhaseStep
      BY <1>5 DEF RetireUnbroadcast, PhaseStep, AssignedInv, Over, Late, Working,
         RetireRun, Active
    <2>4. CallStep
      BY <1>5 DEF RetireUnbroadcast, CallStep, AssignedInv, Over, Late, Working,
         Quiet, Sends, Idle, RetireRun
    <2> QED BY <2>1, <2>2, <2>3, <2>4, AssignedKept
  <1>6. ASSUME NEW p \in Parts, StopFinds(p)
       PROVE  AssignedInv'
    <2>1. RowsStay
      BY <1>6, BroadcastedTyped DEF StopFinds
    <2>2. AssignmentComplete => AssignmentComplete'
      BY <1>6, <2>1, AssignmentKept DEF StopFinds, MarkPendingBroadcasted
    <2>3. PhaseStep
      <3>1. p \in Present /\ phase # "abandoned"
        BY <1>6 DEF StopFinds, StopCandidates, In, Missing, Present
      <3>2. phase \notin Over
        BY <3>1 DEF AssignedInv, Over
      <3> QED BY <1>6, <3>1, <3>2 DEF StopFinds, MarkPendingBroadcasted,
         PhaseAfterBroadcast,
              PhaseStep, AssignedInv, Over
    <2>4. CallStep
      BY <1>6 DEF StopFinds, CallStep, calls, AssignedInv, Quiet, Sends
    <2> QED BY <2>1, <2>2, <2>3, <2>4, AssignedKept
  <1> QED BY <1>1, <1>2, <1>3, <1>4, <1>5, <1>6 DEF Stopping

LEMMA EnvironmentAssigned ==
  TypeInv /\ TypeInv' /\ AssignedInv /\ Lasting /\ Environment => AssignedInv'
  <1> SUFFICES ASSUME RunTyped, RunTyped', ChainTyped, WalletTyped, CallsTyped,
                      Chosen, AssignedInv, Lasting, Environment
               PROVE  AssignedInv'
    BY DEF TypeInv
  <1>1. CASE SyncRecover
    <2>1. RowsStay
      BY <1>1, RowsSame DEF SyncRecover
    <2>2. AssignmentComplete => AssignmentComplete'
      BY <1>1, <2>1, AssignmentKept DEF SyncRecover
    <2>3. PhaseStep
      BY <1>1 DEF SyncRecover, PhaseStep, AssignedInv, Over, In, Present
    <2>4. CallStep
      BY <1>1 DEF SyncRecover, CallStep, AssignedInv, Over, Late, Working, Quiet,
         Sends, Idle, calls
    <2> QED BY <2>1, <2>2, <2>3, <2>4, AssignedKept
  <1>2. CASE SyncConfirm
    <2>1. RowsStay
      BY <1>2, ReconcileStays DEF SyncConfirm
    <2>2. AssignmentComplete => AssignmentComplete'
      BY <1>2, <2>1, ReconcileAssigned DEF SyncConfirm
    <2>3. PhaseStep
      BY <1>2, ReconcilePhase DEF SyncConfirm
    <2>4. CallStep
      BY <1>2, <2>3 DEF SyncConfirm, PhaseStep, CallStep, AssignedInv, Over, calls
    <2> QED BY <2>1, <2>2, <2>3, <2>4, AssignedKept
  <1>3. CASE Crash
    <2>1. RowsStay
      BY <1>3, RowsSame DEF Crash, run
    <2>2. AssignmentComplete => AssignmentComplete'
      BY <1>3, <2>1, AssignmentKept DEF Crash, run
    <2>3. PhaseStep
      BY <1>3 DEF Crash, PhaseStep, AssignedInv, Over, Late, Working, run
    <2>4. CallStep
      BY <1>3 DEF Crash, CallStep, AssignedInv, Over, Late, Working, Quiet,
         Sends, Idle, run
    <2> QED BY <2>1, <2>2, <2>3, <2>4, AssignedKept
  <1>4. ASSUME NEW ps \in SUBSET Parts, Scan(ps)
       PROVE  AssignedInv'
    <2>1. RowsStay
      BY <1>4, RowsSame DEF Scan, run
    <2>2. AssignmentComplete => AssignmentComplete'
      BY <1>4, <2>1, AssignmentKept DEF Scan, run
    <2>3. PhaseStep
      BY <1>4 DEF Scan, PhaseStep, AssignedInv, Over, Late, Working, run
    <2>4. CallStep
      BY <1>4 DEF Scan, CallStep, AssignedInv, Over, Late, Working, Quiet, Sends,
         Idle, run, calls
    <2> QED BY <2>1, <2>2, <2>3, <2>4, AssignedKept
  <1>5. ASSUME NEW p \in Parts, Reorg(p)
       PROVE  AssignedInv'
    <2>1. RowsStay
      BY <1>5, RowsSame DEF Reorg, run
    <2>2. AssignmentComplete => AssignmentComplete'
      BY <1>5, <2>1, AssignmentKept DEF Reorg, run
    <2>3. PhaseStep
      BY <1>5 DEF Reorg, PhaseStep, AssignedInv, Over, Late, Working, run
    <2>4. CallStep
      BY <1>5 DEF Reorg, CallStep, AssignedInv, Over, Late, Working, Quiet,
         Sends, Idle, run, calls
    <2> QED BY <2>1, <2>2, <2>3, <2>4, AssignedKept
  <1>6. ASSUME NEW p \in Parts, Age(p)
       PROVE  AssignedInv'
    <2>1. RowsStay
      BY <1>6, RowsSame DEF Age
    <2>2. AssignmentComplete => AssignmentComplete'
      BY <1>6, <2>1, AssignmentKept DEF Age
    <2>3. PhaseStep
      BY <1>6 DEF Age, PhaseStep, AssignedInv, Over, Late, Working
    <2>4. CallStep
      BY <1>6 DEF Age, CallStep, AssignedInv, Over, Late, Working, Quiet, Sends,
         Idle, calls
    <2> QED BY <2>1, <2>2, <2>3, <2>4, AssignedKept
  <1>7. ASSUME NEW p \in Parts, NEW g \in Gens, Mine(p, g)
       PROVE  AssignedInv'
    <2>1. RowsStay
      BY <1>7, RowsSame DEF Mine, run
    <2>2. AssignmentComplete => AssignmentComplete'
      BY <1>7, <2>1, AssignmentKept DEF Mine, run
    <2>3. PhaseStep
      BY <1>7 DEF Mine, PhaseStep, AssignedInv, Over, Late, Working, run
    <2>4. CallStep
      BY <1>7 DEF Mine, CallStep, AssignedInv, Over, Late, Working, Quiet, Sends,
         Idle, run, calls
    <2> QED BY <2>1, <2>2, <2>3, <2>4, AssignedKept
  <1> QED BY <1>1, <1>2, <1>3, <1>4, <1>5, <1>6, <1>7 DEF Environment

LEMMA AssignedInit == Init => AssignedInv
  BY DEF Init, InitNew, InitFalseTerminal, AssignedInv, Idle, Over, Late, Quiet,
         Sends, Working, Present, In, NoRow, Assigned, AssignmentComplete

LEMMA AssignedStep ==
  TypeInv /\ TypeInv' /\ AssignedInv /\ [Next]_vars => AssignedInv'
  <1>1. ASSUME AssignedInv, UNCHANGED vars PROVE AssignedInv'
    BY <1>1 DEF AssignedInv, vars, Present, In, Assigned, AssignmentComplete
  <1> QED BY <1>1, LastingSteps, SigningAssigned, AdvancingAssigned,
             SendingAssigned, StoppingAssigned, EnvironmentAssigned DEF Next

LEMMA AssignedAlways == Spec => []AssignedInv
  BY AssignedInit, AssignedStep, TypeInvAlways, PTL DEF Spec

\* Once a run is past signing, each of its parts has a transaction or a signed
\* child, whichever call, sync pass or redraw of another account wrote the phase,
\* unless the user has stopped it.
THEOREM NoneStranded == Spec => []NoPartStranded
  <1>1. AssignedInv => NoPartStranded
    BY DEF AssignedInv, NoPartStranded, Assigned, AssignmentComplete, Late,
       Present
  <1> QED BY <1>1, AssignedAlways, PTL
-----------------------------------------------------------------------------
(***************************************************************************)
(* Retirement.  From the check for unstored transactions to the answer of  *)
(* the node, a call of a software account has none; only such a call       *)
(* retires the run, or one that has seen that nothing was sent.            *)
(***************************************************************************)
Settled == {"policy", "expire", "crossed", "due", "mark", "attempt", "send",
            "rejected"}

RecordedInv ==
    /\ /\ signer = "Software"
       /\ phase = "failed_terminal" \/ op.pc \in Settled
       => Missing = {}
    /\ op.pc # "idle" => phase # "failed_terminal" /\ op.ph # "failed_terminal"

RetireStep ==
    phase' = "failed_terminal" =>
        phase = "failed_terminal" \/ op.pc \in Settled \/ Missing = {}

SettledStep ==
    /\ op'.pc \in Settled /\ signer = "Software" =>
          op.pc \in Settled \/ Missing' = {}
    /\ op'.pc # "idle" => phase' # "failed_terminal" /\ op'.ph # "failed_terminal"

LEMMA RecordedKept ==
  ASSUME RecordedInv, Missing' \subseteq Missing, signer' = signer, RetireStep,
         SettledStep
  PROVE  RecordedInv'
  BY DEF RecordedInv, RetireStep, SettledStep

\* No row becomes broadcasted.
RowsUnsent == \A p \in Parts : row'[p].st = "broadcasted" => row[p].st = "broadcasted"

LEMMA MissingShrinks ==
  ASSUME RowsUnsent, stored \subseteq stored' PROVE Missing' \subseteq Missing
  BY DEF RowsUnsent, Missing, In

LEMMA MissingSame ==
  row' = row /\ stored' = stored => Missing' \subseteq Missing
  BY DEF Missing, In

LEMMA ReconciledUnsent ==
  ASSUME RunTyped, NEW p \in Parts, ReconciledRows[p].st = "broadcasted"
  PROVE  row[p].st = "broadcasted"
  <1>1. row[p] \in Rows
    BY DEF RunTyped
  <1>2. ReconciledRow(p).st = "broadcasted" => row[p].st = "broadcasted"
    BY <1>1, RowMoved DEF ReconciledRow, Demoted, States
  <1> QED BY <1>2, ReconciledRowsTyped

LEMMA MissingReconcile ==
  RunTyped /\ Reconcile /\ stored' = stored => Missing' \subseteq Missing
  BY ReconciledUnsent, MissingShrinks DEF Reconcile, RowsUnsent

LEMMA MissingMarked ==
  ASSUME RunTyped, NEW marks \in SUBSET Parts, ReconcileAndMark(marks),
         \A p \in marks : ReconciledRows[p].st # "none", stored' = stored
  PROVE  Missing' \subseteq Missing
  <1>1. RowsUnsent
    <2> SUFFICES ASSUME NEW p \in Parts, row'[p].st = "broadcasted"
                 PROVE  row[p].st = "broadcasted"
      BY DEF RowsUnsent
    <2>1. CASE p \in marks
      <3>1. row'[p] = [ReconciledRows[p] EXCEPT !.st = "needs_resign"]
        BY <2>1 DEF ReconcileAndMark
      <3>2. ReconciledRows[p] \in Rows /\ "needs_resign" \in States
        BY ReconciledRowsTyped DEF States
      <3> QED BY <2>1, <3>1, <3>2, RowMoved
    <2>2. CASE p \notin marks
      BY <2>2, ReconciledUnsent DEF ReconcileAndMark
    <2> QED BY <2>1, <2>2
  <1> QED BY <1>1, MissingShrinks

LEMMA MissingResigned ==
  ASSUME NEW ps \in SUBSET Parts, Resigned(ps) PROVE Missing' \subseteq Missing
  <1> SUFFICES ASSUME NEW p \in Missing' PROVE p \in Missing
    OBVIOUS
  <1>1. p \in Parts /\ row'[p].st = "broadcasted" /\ p \notin stored'
    BY DEF Missing, In
  <1>2. p \notin ps
    BY <1>1 DEF Resigned
  <1> QED BY <1>1, <1>2 DEF Resigned, Missing, In

LEMMA MissingRescheduled ==
  ASSUME RunTyped, NEW read, NEW resign, Reschedule(read, resign),
         stored' = stored
  PROVE  Missing' \subseteq Missing
  <1>1. RowsUnsent
    <2> SUFFICES ASSUME NEW p \in Parts, row'[p].st = "broadcasted"
                 PROVE  row[p].st = "broadcasted"
      BY DEF RowsUnsent
    <2>1. CASE row'[p] = row[p]
      BY <2>1
    <2>2. CASE row'[p] # row[p]
      <3>1. /\ row'[p] = [row[p] EXCEPT !.st = "needs_resign"]
            /\ row[p].st = "scheduled"
        BY <2>2 DEF Reschedule, In
      <3>2. row[p] \in Rows /\ "needs_resign" \in States
        BY DEF RunTyped, States
      <3> QED BY <3>1, <3>2, RowMoved
    <2> QED BY <2>1, <2>2
  <1> QED BY <1>1, MissingShrinks

LEMMA ReconciledNotRetired ==
  ReconciledPhase = "failed_terminal" => phase = "failed_terminal"
  BY DEF ReconciledPhase

LEMMA SigningRecorded == TypeInv /\ RecordedInv /\ Signing => RecordedInv'
  <1> SUFFICES ASSUME RunTyped, CallsTyped, Chosen, RecordedInv, Signing
               PROVE  RecordedInv'
    BY DEF TypeInv
  <1>1. CASE CreateRun
    <2>1. Missing' \subseteq Missing /\ signer' = signer
      BY <1>1, MissingSame DEF CreateRun, wallet
    <2>2. RetireStep
      BY <1>1 DEF CreateRun, RetireStep
    <2>3. SettledStep
      BY <1>1 DEF CreateRun, SettledStep, RecordedInv, Settled, Idle
    <2> QED BY <2>1, <2>2, <2>3, RecordedKept
  <1>2. CASE PrepareBatch
    <2>1. Missing' \subseteq Missing /\ signer' = signer
      BY <1>2, MissingSame DEF PrepareBatch, run, wallet
    <2>2. RetireStep
      BY <1>2 DEF PrepareBatch, RetireStep, run
    <2>3. SettledStep
      BY <1>2 DEF PrepareBatch, SettledStep, RecordedInv, Settled, Idle, run,
         Active, Working
    <2> QED BY <2>1, <2>2, <2>3, RecordedKept
  <1>3. CASE DiscardRequest
    <2>1. Missing' \subseteq Missing /\ signer' = signer
      BY <1>3, MissingSame DEF DiscardRequest, run, wallet
    <2>2. RetireStep
      BY <1>3 DEF DiscardRequest, RetireStep, run
    <2>3. SettledStep
      BY <1>3 DEF DiscardRequest, SettledStep, RecordedInv, Settled, Idle, run
    <2> QED BY <2>1, <2>2, <2>3, RecordedKept
  <1>4. CASE CompleteBatch
    <2>1. Missing' \subseteq Missing /\ signer' = signer
      BY <1>4, MissingSame DEF CompleteBatch, wallet
    <2>2. RetireStep
      BY <1>4 DEF CompleteBatch, RetireStep
    <2>3. SettledStep
      BY <1>4 DEF CompleteBatch, SettledStep, RecordedInv, Settled, Idle
    <2> QED BY <2>1, <2>2, <2>3, RecordedKept
  <1>5. CASE CompleteRecovery
    <2>1. Missing' \subseteq Missing /\ signer' = signer
      <3>1. Resigned(request.parts) /\ request.parts \subseteq Parts
        BY <1>5 DEF CompleteRecovery, In
      <3> QED BY <1>5, <3>1, MissingResigned DEF CompleteRecovery
    <2>2. RetireStep
      BY <1>5 DEF CompleteRecovery, RetireStep
    <2>3. SettledStep
      BY <1>5 DEF CompleteRecovery, SettledStep, Settled, Idle
    <2> QED BY <2>1, <2>2, <2>3, RecordedKept
  <1>6. ASSUME NEW w \in BOOLEAN, SigningRequestFails(w)
       PROVE  RecordedInv'
    <2>1. Missing' \subseteq Missing /\ signer' = signer
      BY <1>6, MissingSame DEF SigningRequestFails, wallet
    <2>2. RetireStep
      BY <1>6 DEF SigningRequestFails, RetireStep
    <2>3. SettledStep
      BY <1>6 DEF SigningRequestFails, SettledStep, RecordedInv, Settled, Idle
    <2> QED BY <2>1, <2>2, <2>3, RecordedKept
  <1>7. ASSUME NEW ps \in SUBSET Parts, SigningRequest(ps)
       PROVE  RecordedInv'
    <2>1. Missing' \subseteq Missing /\ signer' = signer
      BY <1>7, MissingSame DEF SigningRequest, run, wallet
    <2>2. RetireStep
      BY <1>7 DEF SigningRequest, RetireStep, run
    <2>3. SettledStep
      BY <1>7 DEF SigningRequest, SettledStep, RecordedInv, Settled, Idle, run
    <2> QED BY <2>1, <2>2, <2>3, RecordedKept
  <1> QED BY <1>1, <1>2, <1>3, <1>4, <1>5, <1>6, <1>7 DEF Signing

LEMMA AdvancingRecorded == TypeInv /\ RecordedInv /\ Advancing => RecordedInv'
  <1> SUFFICES ASSUME RunTyped, CallsTyped, Chosen, RecordedInv, Advancing
               PROVE  RecordedInv'
    BY DEF TypeInv
  <1>1. CASE Resume
    <2>1. Missing' \subseteq Missing /\ signer' = signer
      BY <1>1, MissingSame DEF Resume, run, wallet
    <2>2. RetireStep
      BY <1>1 DEF Resume, RetireStep, run
    <2>3. SettledStep
      BY <1>1 DEF Resume, SettledStep, RecordedInv, Settled, Idle, run, Active,
         Working
    <2> QED BY <2>1, <2>2, <2>3, RecordedKept
  <1>2. CASE BroadcastDue
    <2>1. Missing' \subseteq Missing /\ signer' = signer
      BY <1>2, MissingReconcile DEF BroadcastDue, Reconcile, wallet
    <2>2. RetireStep
      BY <1>2, ReconciledNotRetired DEF BroadcastDue, Reconcile, RetireStep
    <2>3. SettledStep
      BY <1>2, ReconciledNotRetired DEF BroadcastDue, Reconcile, SettledStep,
         RecordedInv, Settled, Idle, Active, Working
    <2> QED BY <2>1, <2>2, <2>3, RecordedKept
  <1>3. CASE StampPhase
    <2>0. op.ph # "failed_terminal"
      BY <1>3 DEF StampPhase, RecordedInv
    <2>1. Missing' \subseteq Missing /\ signer' = signer
      BY <1>3, MissingSame DEF StampPhase, wallet
    <2>2. RetireStep
      BY <1>3, <2>0 DEF StampPhase, RetireStep
    <2>3. SettledStep
      BY <1>3, <2>0 DEF StampPhase, SettledStep, Settled, CallsTyped, Ops
    <2> QED BY <2>1, <2>2, <2>3, RecordedKept
  <1>4. CASE Recheck
    <2>1. Missing' \subseteq Missing /\ signer' = signer
      BY <1>4, MissingReconcile DEF Recheck, Reconcile, wallet
    <2>2. RetireStep
      BY <1>4, ReconciledNotRetired DEF Recheck, Reconcile, RetireStep
    <2>3. SettledStep
      <3>1. phase' # "failed_terminal"
        BY <1>4, ReconciledNotRetired DEF Recheck, Reconcile, RecordedInv
      <3>2. op'.pc \in Settled => Missing' = {}
        BY <1>4 DEF Recheck, Settled, Idle, Missing, In, wallet
      <3>3. op'.pc # "idle" => op'.ph # "failed_terminal"
        BY <1>4 DEF Recheck, Idle, RecordedInv, CallsTyped, Ops
      <3> QED BY <3>1, <3>2, <3>3 DEF SettledStep
    <2> QED BY <2>1, <2>2, <2>3, RecordedKept
  <1>5. CASE PolicyKeeps
    <2>1. Missing' \subseteq Missing /\ signer' = signer
      BY <1>5, MissingSame DEF PolicyKeeps, run, Goto, wallet
    <2>2. RetireStep
      BY <1>5 DEF PolicyKeeps, RetireStep, run, Goto
    <2>3. SettledStep
      BY <1>5 DEF PolicyKeeps, SettledStep, RecordedInv, Settled, Idle, run,
         Goto, CallsTyped, Ops
    <2> QED BY <2>1, <2>2, <2>3, RecordedKept
  <1>6. CASE MarkExpired
    <2> DEFINE marks == {p \in Parts : Expired(ReconciledRows[p], p)}
    <2>0. ReconcileAndMark(marks) /\ marks \in SUBSET Parts /\ stored' = stored
      BY <1>6 DEF MarkExpired, wallet
    <2>m. \A p \in marks : ReconciledRows[p].st # "none"
      BY DEF Expired
    <2> HIDE DEF marks
    <2>p. phase' = "failed_terminal" => phase = "failed_terminal"
      BY <2>0, ReconciledNotRetired DEF ReconcileAndMark
    <2>1. Missing' \subseteq Missing /\ signer' = signer
      BY <2>0, <2>m, MissingMarked DEF ReconcileAndMark
    <2>2. RetireStep
      BY <2>p DEF RetireStep
    <2>3. SettledStep
      BY <1>6, <2>p DEF MarkExpired, SettledStep, RecordedInv, Settled, Idle,
         CallsTyped, Ops
    <2> QED BY <2>1, <2>2, <2>3, RecordedKept
  <1>7. CASE Rebuild
    <2>1. Missing' \subseteq Missing /\ signer' = signer
      <3>1. Resigned(In({"needs_resign"})) /\ In({"needs_resign"}) \subseteq Parts
        BY <1>7 DEF Rebuild, In
      <3> QED BY <1>7, <3>1, MissingResigned DEF Rebuild
    <2>2. RetireStep
      BY <1>7 DEF Rebuild, RetireStep
    <2>3. SettledStep
      BY <1>7 DEF Rebuild, SettledStep, RecordedInv, Settled, CallsTyped, Ops
    <2> QED BY <2>1, <2>2, <2>3, RecordedKept
  <1>8. CASE RebuildFails
    <2>1. Missing' \subseteq Missing /\ signer' = signer
      BY <1>8, MissingSame DEF RebuildFails, run, wallet
    <2>2. RetireStep
      BY <1>8 DEF RebuildFails, RetireStep, run
    <2>3. SettledStep
      BY <1>8 DEF RebuildFails, SettledStep, RecordedInv, Settled, Idle, run
    <2> QED BY <2>1, <2>2, <2>3, RecordedKept
  <1>9. ASSUME NEW b \in BOOLEAN, PolicyRebuild(b)
       PROVE  RecordedInv'
    <2>1. Missing' \subseteq Missing /\ signer' = signer
      BY <1>9, MissingSame DEF PolicyRebuild, RetireRun, wallet
    <2>2. RetireStep
      BY <1>9 DEF PolicyRebuild, RetireStep, RetireRun, Settled
    <2>3. SettledStep
      BY <1>9 DEF PolicyRebuild, SettledStep, RecordedInv, Settled, Idle, RetireRun
    <2> QED BY <2>1, <2>2, <2>3, RecordedKept
  <1>10. ASSUME NEW ps \in SUBSET Parts, StoreRetry(ps)
       PROVE  RecordedInv'
    <2>1. Missing' \subseteq Missing /\ signer' = signer
      BY <1>10, MissingShrinks DEF StoreRetry, run, RowsUnsent
    <2>2. RetireStep
      BY <1>10 DEF StoreRetry, RetireStep, run
    <2>3. SettledStep
      BY <1>10 DEF StoreRetry, SettledStep, RecordedInv, Settled, run,
         CallsTyped, Ops
    <2> QED BY <2>1, <2>2, <2>3, RecordedKept
  <1>11. ASSUME NEW p \in Parts, Promote(p)
       PROVE  RecordedInv'
    <2>1. Missing' \subseteq Missing /\ signer' = signer
      BY <1>11, MissingShrinks DEF Promote, RowsUnsent, wallet, RunTyped
    <2>2. RetireStep
      BY <1>11 DEF Promote, RetireStep
    <2>3. SettledStep
      BY <1>11 DEF Promote, SettledStep, RecordedInv, Settled, CallsTyped, Ops
    <2> QED BY <2>1, <2>2, <2>3, RecordedKept
  <1>12. ASSUME NEW d \in BOOLEAN, NEW b \in BOOLEAN, Finalized(d, b)
       PROVE  RecordedInv'
    <2>1. Missing' \subseteq Missing /\ signer' = signer
      BY <1>12, MissingSame DEF Finalized, wallet
    <2>2. RetireStep
      BY <1>12 DEF Finalized, RetireStep
    <2>3. SettledStep
      BY <1>12 DEF Finalized, SettledStep, RecordedInv, Settled, Idle,
         CallsTyped, Ops
    <2> QED BY <2>1, <2>2, <2>3, RecordedKept
  <1> QED BY <1>1, <1>2, <1>3, <1>4, <1>5, <1>6, <1>7, <1>8, <1>9, <1>10, <1>11,
     <1>12 DEF Advancing

LEMMA SendingRecorded == TypeInv /\ RecordedInv /\ Sending => RecordedInv'
  <1> SUFFICES ASSUME RunTyped, CallsTyped, Chosen, RecordedInv, Sending
               PROVE  RecordedInv'
    BY DEF TypeInv
  <1>1. CASE MarkCrossed
    <2> DEFINE marks == {p \in Parts : /\ ReconciledRows[p].st = "scheduled"
                                          /\ ReconciledAge[p] \in {"crossed", "expired"}}
    <2>0. ReconcileAndMark(marks) /\ marks \in SUBSET Parts /\ stored' = stored
      BY <1>1 DEF MarkCrossed, wallet
    <2>m. \A p \in marks : ReconciledRows[p].st # "none"
      BY DEF Expired
    <2> HIDE DEF marks
    <2>p. phase' = "failed_terminal" => phase = "failed_terminal"
      BY <2>0, ReconciledNotRetired DEF ReconcileAndMark
    <2>1. Missing' \subseteq Missing /\ signer' = signer
      BY <2>0, <2>m, MissingMarked DEF ReconcileAndMark
    <2>2. RetireStep
      BY <2>p DEF RetireStep
    <2>3. SettledStep
      BY <1>1, <2>p DEF MarkCrossed, SettledStep, RecordedInv, Settled, Idle,
         CallsTyped, Ops
    <2> QED BY <2>1, <2>2, <2>3, RecordedKept
  <1>2. CASE NoneDue
    <2>1. Missing' \subseteq Missing /\ signer' = signer
      BY <1>2, MissingReconcile DEF NoneDue, Reconcile, wallet
    <2>2. RetireStep
      BY <1>2, ReconciledNotRetired DEF NoneDue, Reconcile, RetireStep
    <2>3. SettledStep
      BY <1>2, ReconciledNotRetired DEF NoneDue, Reconcile, SettledStep,
         RecordedInv, Settled, Idle
    <2> QED BY <2>1, <2>2, <2>3, RecordedKept
  <1>3. CASE MarkBroadcasting
    <2>1. Missing' \subseteq Missing /\ signer' = signer
      BY <1>3, MissingSame DEF MarkBroadcasting, Goto, wallet
    <2>2. RetireStep
      BY <1>3 DEF MarkBroadcasting, RetireStep, Goto
    <2>3. SettledStep
      BY <1>3 DEF MarkBroadcasting, SettledStep, RecordedInv, Settled, Idle,
         Goto, CallsTyped, Ops
    <2> QED BY <2>1, <2>2, <2>3, RecordedKept
  <1>4. CASE CancelBroadcast
    <2>1. Missing' \subseteq Missing /\ signer' = signer
      BY <1>4, MissingSame DEF CancelBroadcast, wallet
    <2>2. RetireStep
      BY <1>4 DEF CancelBroadcast, RetireStep
    <2>3. SettledStep
      BY <1>4 DEF CancelBroadcast, SettledStep, RecordedInv, Settled, Idle
    <2> QED BY <2>1, <2>2, <2>3, RecordedKept
  <1>5. CASE MarkAttempted
    <2>1. Missing' \subseteq Missing /\ signer' = signer
      <3>1. op.part \in Parts /\ row[op.part] \in Rows
        BY <1>5 DEF MarkAttempted, Chosen, Sends, Present, RunTyped
      <3>2. RowsUnsent
        <4>1. CASE row[op.part].st = "scheduled"
          <5>1. row' = [row EXCEPT ![op.part] = [row[op.part] EXCEPT !.att = TRUE]]
            BY <1>5, <4>1 DEF MarkAttempted
          <5>2. [row[op.part] EXCEPT !.att = TRUE].st = row[op.part].st
            BY <3>1, <4>1, RowAttempted
          <5> QED BY <3>1, <5>1, <5>2 DEF RunTyped, RowsUnsent
        <4>2. CASE row[op.part].st # "scheduled"
          BY <1>5, <4>2 DEF MarkAttempted, RowsUnsent
        <4> QED BY <4>1, <4>2
      <3> QED BY <1>5, <3>2, MissingShrinks DEF MarkAttempted, wallet
    <2>2. RetireStep
      BY <1>5 DEF MarkAttempted, RetireStep
    <2>3. SettledStep
      BY <1>5 DEF MarkAttempted, SettledStep, RecordedInv, Settled, Idle, Goto,
         CallsTyped, Ops
    <2> QED BY <2>1, <2>2, <2>3, RecordedKept
  <1>6. CASE BroadcastUnknown
    <2>1. Missing' \subseteq Missing /\ signer' = signer
      BY <1>6, MissingSame DEF BroadcastUnknown, wallet
    <2>2. RetireStep
      BY <1>6 DEF BroadcastUnknown, RetireStep
    <2>3. SettledStep
      BY <1>6 DEF BroadcastUnknown, SettledStep, RecordedInv, Settled, Idle
    <2> QED BY <2>1, <2>2, <2>3, RecordedKept
  <1>7. CASE BroadcastRejected
    <2>1. Missing' \subseteq Missing /\ signer' = signer
      BY <1>7, MissingSame DEF BroadcastRejected, RetireRun, wallet
    <2>2. RetireStep
      BY <1>7 DEF BroadcastRejected, RetireStep, RetireRun, Settled
    <2>3. SettledStep
      BY <1>7 DEF BroadcastRejected, SettledStep, RecordedInv, Settled, Idle,
         RetireRun
    <2> QED BY <2>1, <2>2, <2>3, RecordedKept
  <1>8. CASE RecordAccepted
    <2>1. phase' # "failed_terminal"
      BY <1>8 DEF RecordAccepted, MarkPendingBroadcasted, PhaseAfterBroadcast
    <2>2. op'.pc \notin Settled /\ op'.ph # "failed_terminal"
      BY <1>8, <2>1 DEF RecordAccepted, Settled, RecordedInv, CallsTyped, Ops
    <2> QED BY <2>1, <2>2 DEF RecordedInv
  <1>9. CASE RedrawSkipped
    <2>1. Missing' \subseteq Missing /\ signer' = signer
      BY <1>9, MissingSame DEF RedrawSkipped, run, wallet
    <2>2. RetireStep
      BY <1>9 DEF RedrawSkipped, RetireStep, run
    <2>3. SettledStep
      BY <1>9 DEF RedrawSkipped, SettledStep, RecordedInv, Settled, Idle, run
    <2> QED BY <2>1, <2>2, <2>3, RecordedKept
  <1>10. ASSUME NEW p \in Parts, DuePending(p)
       PROVE  RecordedInv'
    <2>1. Missing' \subseteq Missing /\ signer' = signer
      BY <1>10, MissingReconcile DEF DuePending, Reconcile, wallet
    <2>2. RetireStep
      BY <1>10, ReconciledNotRetired DEF DuePending, Reconcile, RetireStep
    <2>3. SettledStep
      BY <1>10, ReconciledNotRetired DEF DuePending, Reconcile, SettledStep,
         RecordedInv, Settled, Idle, CallsTyped, Ops
    <2> QED BY <2>1, <2>2, <2>3, RecordedKept
  <1>11. ASSUME NEW a \in {"accepted", "unknown", "rejected"}, NEW b \in BOOLEAN,
  SendTx(a, b)
       PROVE  RecordedInv'
    <2>1. Missing' \subseteq Missing /\ signer' = signer
      BY <1>11, MissingSame DEF SendTx, run, Goto, wallet
    <2>2. RetireStep
      BY <1>11 DEF SendTx, RetireStep, run, Goto
    <2>3. SettledStep
      BY <1>11 DEF SendTx, SettledStep, RecordedInv, Settled, Idle, run, Goto,
         CallsTyped, Ops
    <2> QED BY <2>1, <2>2, <2>3, RecordedKept
  <1>12. ASSUME NEW b \in BOOLEAN, StoreAccepted(b)
       PROVE  RecordedInv'
    <2>1. Missing' \subseteq Missing /\ signer' = signer
      BY <1>12, MissingShrinks DEF StoreAccepted, run, RowsUnsent
    <2>2. RetireStep
      BY <1>12 DEF StoreAccepted, RetireStep, run
    <2>3. SettledStep
      BY <1>12 DEF StoreAccepted, SettledStep, RecordedInv, Settled, run, Goto,
         CallsTyped, Ops
    <2> QED BY <2>1, <2>2, <2>3, RecordedKept
  <1>13. ASSUME NEW ts \in SUBSET op.read, RedrawOverdue(ts)
       PROVE  RecordedInv'
    <2>0. Reschedule(op.read, ts) /\ stored' = stored
      BY <1>13 DEF RedrawOverdue, wallet
    <2>s. signer' = signer
      BY <2>0 DEF Reschedule
    <2>1. Missing' \subseteq Missing /\ signer' = signer
      BY <2>0, <2>s, MissingRescheduled
    <2>2. RetireStep
      BY <1>13 DEF RedrawOverdue, Reschedule, RetireStep
    <2>3. SettledStep
      BY <1>13 DEF RedrawOverdue, Reschedule, SettledStep, RecordedInv,
         Settled, Idle
    <2> QED BY <2>1, <2>2, <2>3, RecordedKept
  <1>14. ASSUME NEW ts \in SUBSET listed, RedrawByOther(ts)
       PROVE  RecordedInv'
    <2>0. Reschedule(listed, ts) /\ stored' = stored
      BY <1>14 DEF RedrawByOther, wallet
    <2>s. signer' = signer
      BY <2>0 DEF Reschedule
    <2>1. Missing' \subseteq Missing /\ signer' = signer
      BY <2>0, <2>s, MissingRescheduled
    <2>2. RetireStep
      BY <1>14 DEF RedrawByOther, Reschedule, RetireStep
    <2>3. SettledStep
      BY <1>14 DEF RedrawByOther, Reschedule, SettledStep, RecordedInv,
         Settled, calls
    <2> QED BY <2>1, <2>2, <2>3, RecordedKept
  <1>15. CASE ReadOverdue
    <2>1. Missing' \subseteq Missing /\ signer' = signer
      BY <1>15, MissingSame DEF ReadOverdue, run, wallet
    <2>2. RetireStep
      BY <1>15 DEF ReadOverdue, run, RetireStep
    <2>3. SettledStep
      <3>1. /\ op'.pc \in {"idle", "reschedule"} /\ op'.ph \in {"none", op.ph}
            /\ phase' = phase /\ op.pc = "redraw"
        BY <1>15 DEF ReadOverdue, run, Idle, CallsTyped, Ops
      <3> QED BY <3>1 DEF SettledStep, RecordedInv, Settled
    <2> QED BY <2>1, <2>2, <2>3, RecordedKept
  <1>16. CASE ReadByOther
    <2>1. Missing' \subseteq Missing /\ signer' = signer
      BY <1>16, MissingSame DEF ReadByOther, run, wallet
    <2>2. RetireStep
      BY <1>16 DEF ReadByOther, run, RetireStep
    <2>3. SettledStep
      BY <1>16 DEF ReadByOther, run, calls, SettledStep, RecordedInv
    <2> QED BY <2>1, <2>2, <2>3, RecordedKept
  <1> QED BY <1>1, <1>2, <1>3, <1>4, <1>5, <1>6, <1>7, <1>8, <1>9, <1>10, <1>11,
     <1>12, <1>13, <1>14, <1>15, <1>16 DEF Sending

LEMMA StoppingRecorded == TypeInv /\ RecordedInv /\ Stopping => RecordedInv'
  <1> SUFFICES ASSUME RunTyped, CallsTyped, Chosen, RecordedInv, Stopping
               PROVE  RecordedInv'
    BY DEF TypeInv
  <1>1. CASE Stop
    <2>1. Missing' \subseteq Missing /\ signer' = signer
      BY <1>1, MissingSame DEF Stop, run, wallet
    <2>2. RetireStep
      BY <1>1 DEF Stop, RetireStep, run
    <2>3. SettledStep
      BY <1>1 DEF Stop, SettledStep, RecordedInv, Settled, Idle, run, Active,
         Working
    <2> QED BY <2>1, <2>2, <2>3, RecordedKept
  <1>2. CASE StopBlocked
    <2>1. Missing' \subseteq Missing /\ signer' = signer
      BY <1>2, MissingSame DEF StopBlocked, run, wallet
    <2>2. RetireStep
      BY <1>2 DEF StopBlocked, RetireStep, run
    <2>3. SettledStep
      BY <1>2 DEF StopBlocked, SettledStep, RecordedInv, Settled, Idle, run
    <2> QED BY <2>1, <2>2, <2>3, RecordedKept
  <1>3. CASE StopSettled
    <2>1. Missing' \subseteq Missing /\ signer' = signer
      BY <1>3, MissingSame DEF StopSettled, run, Goto, wallet
    <2>2. RetireStep
      BY <1>3 DEF StopSettled, RetireStep, run, Goto
    <2>3. SettledStep
      BY <1>3 DEF StopSettled, SettledStep, RecordedInv, Settled, Idle, run,
         Goto, CallsTyped, Ops
    <2> QED BY <2>1, <2>2, <2>3, RecordedKept
  <1>4. CASE AbandonRun
    <2>1. Missing' \subseteq Missing /\ signer' = signer
      <3>1. ASSUME NEW p \in Missing' PROVE p \in Missing
        <4>1. p \in Parts /\ row'[p].st = "broadcasted" /\ p \notin stored'
          BY DEF Missing, In
        <4>2. CASE Active /\ p \in In({"scheduled", "needs_resign"})
          <5>1. row'[p] = Dropped(row[p])
            BY <1>4, <4>1, <4>2 DEF AbandonRun, In
          <5> QED BY <4>1, <5>1, RowDropped DEF RunTyped
        <4>3. CASE ~(Active /\ p \in In({"scheduled", "needs_resign"}))
          <5>1. row'[p] = row[p] /\ p \notin stored
            BY <1>4, <4>1, <4>3 DEF AbandonRun
          <5> QED BY <4>1, <5>1 DEF Missing, In
        <4> QED BY <4>2, <4>3
      <3> QED BY <1>4, <3>1 DEF AbandonRun
    <2>2. RetireStep
      BY <1>4 DEF AbandonRun, RetireStep
    <2>3. SettledStep
      BY <1>4 DEF AbandonRun, SettledStep, Settled, Idle
    <2> QED BY <2>1, <2>2, <2>3, RecordedKept
  <1>5. CASE RetireUnbroadcast
    <2>1. Missing' \subseteq Missing /\ signer' = signer
      BY <1>5, MissingSame DEF RetireUnbroadcast, RetireRun, wallet
    <2>2. RetireStep
      BY <1>5 DEF RetireUnbroadcast, RetireStep, RetireRun, In, Missing
    <2>3. SettledStep
      BY <1>5 DEF RetireUnbroadcast, SettledStep, RecordedInv, Settled, Idle,
         RetireRun
    <2> QED BY <2>1, <2>2, <2>3, RecordedKept
  <1>6. ASSUME NEW p \in Parts, StopFinds(p)
       PROVE  RecordedInv'
    <2>1. phase' # "failed_terminal" /\ op' = op /\ op.pc \notin Settled
      BY <1>6 DEF StopFinds, MarkPendingBroadcasted, PhaseAfterBroadcast, calls,
         Settled
    <2> QED BY <2>1 DEF RecordedInv
  <1> QED BY <1>1, <1>2, <1>3, <1>4, <1>5, <1>6 DEF Stopping

LEMMA EnvironmentRecorded == TypeInv /\ RecordedInv /\ Environment => RecordedInv'
  <1> SUFFICES ASSUME RunTyped, CallsTyped, Chosen, RecordedInv, Environment
               PROVE  RecordedInv'
    BY DEF TypeInv
  <1>1. CASE SyncRecover
    <2>1. Missing' \subseteq Missing /\ signer' = signer
      BY <1>1, MissingSame DEF SyncRecover, calls, wallet
    <2>2. RetireStep
      BY <1>1 DEF SyncRecover, RetireStep, calls
    <2>3. SettledStep
      BY <1>1 DEF SyncRecover, SettledStep, RecordedInv, Settled, Idle, calls
    <2> QED BY <2>1, <2>2, <2>3, RecordedKept
  <1>2. CASE SyncConfirm
    <2>1. Missing' \subseteq Missing /\ signer' = signer
      BY <1>2, MissingReconcile DEF SyncConfirm, Reconcile, wallet
    <2>2. RetireStep
      BY <1>2, ReconciledNotRetired DEF SyncConfirm, Reconcile, RetireStep
    <2>3. SettledStep
      BY <1>2, ReconciledNotRetired DEF SyncConfirm, Reconcile, SettledStep,
         RecordedInv, Settled, Idle, calls
    <2> QED BY <2>1, <2>2, <2>3, RecordedKept
  <1>3. CASE Crash
    <2>1. Missing' \subseteq Missing /\ signer' = signer
      BY <1>3, MissingSame DEF Crash, run, wallet
    <2>2. RetireStep
      BY <1>3 DEF Crash, RetireStep, run
    <2>3. SettledStep
      BY <1>3 DEF Crash, SettledStep, RecordedInv, Settled, Idle, run
    <2> QED BY <2>1, <2>2, <2>3, RecordedKept
  <1>4. ASSUME NEW ps \in SUBSET Parts, Scan(ps)
       PROVE  RecordedInv'
    <2>1. Missing' \subseteq Missing /\ signer' = signer
      BY <1>4, MissingShrinks DEF Scan, run, RowsUnsent
    <2>2. RetireStep
      BY <1>4 DEF Scan, RetireStep, run
    <2>3. SettledStep
      BY <1>4 DEF Scan, SettledStep, RecordedInv, run, calls
    <2> QED BY <2>1, <2>2, <2>3, RecordedKept
  <1>5. ASSUME NEW p \in Parts, Reorg(p)
       PROVE  RecordedInv'
    <2>1. Missing' \subseteq Missing /\ signer' = signer
      BY <1>5, MissingSame DEF Reorg, run, calls, wallet
    <2>2. RetireStep
      BY <1>5 DEF Reorg, RetireStep, run, calls
    <2>3. SettledStep
      BY <1>5 DEF Reorg, SettledStep, RecordedInv, Settled, Idle, run, calls
    <2> QED BY <2>1, <2>2, <2>3, RecordedKept
  <1>6. ASSUME NEW p \in Parts, Age(p)
       PROVE  RecordedInv'
    <2>1. Missing' \subseteq Missing /\ signer' = signer
      BY <1>6, MissingSame DEF Age, calls, wallet
    <2>2. RetireStep
      BY <1>6 DEF Age, RetireStep, calls
    <2>3. SettledStep
      BY <1>6 DEF Age, SettledStep, RecordedInv, Settled, Idle, calls
    <2> QED BY <2>1, <2>2, <2>3, RecordedKept
  <1>7. ASSUME NEW p \in Parts, NEW g \in Gens, Mine(p, g)
       PROVE  RecordedInv'
    <2>1. Missing' \subseteq Missing /\ signer' = signer
      BY <1>7, MissingSame DEF Mine, run, calls, wallet
    <2>2. RetireStep
      BY <1>7 DEF Mine, RetireStep, run, calls
    <2>3. SettledStep
      BY <1>7 DEF Mine, SettledStep, RecordedInv, Settled, Idle, run, calls
    <2> QED BY <2>1, <2>2, <2>3, RecordedKept
  <1> QED BY <1>1, <1>2, <1>3, <1>4, <1>5, <1>6, <1>7 DEF Environment

LEMMA RecordedInit == Init => RecordedInv
  BY DEF Init, InitNew, InitFalseTerminal, RecordedInv, Missing, In, Idle, Settled

LEMMA RecordedStep == TypeInv /\ RecordedInv /\ [Next]_vars => RecordedInv'
  <1>1. ASSUME RecordedInv, UNCHANGED vars PROVE RecordedInv'
    BY <1>1 DEF RecordedInv, vars, Missing, In
  <1> QED BY <1>1, SigningRecorded, AdvancingRecorded, SendingRecorded,
             StoppingRecorded, EnvironmentRecorded DEF Next

\* A run signed in software is retired with every accepted transaction in the
\* wallet, so that giving up its locks offers no note that is already spent.
THEOREM RetirementsRecorded == Spec => []SoftwareRetirementRecorded
  <1>1. RecordedInv => SoftwareRetirementRecorded
    BY DEF RecordedInv, SoftwareRetirementRecorded, RetirementRecorded
  <1>2. Spec => []RecordedInv
    BY RecordedInit, RecordedStep, TypeInvAlways, PTL DEF Spec
  <1> QED BY <1>1, <1>2, PTL
-----------------------------------------------------------------------------
(***************************************************************************)
(* Stopping.  Only abandon_run abandons a run, and only a redraw of        *)
(* another account that has read the run opens it again.                   *)
(***************************************************************************)
AbandonedStep ==
    \/ phase' = "abandoned" <=> phase = "abandoned"
    \/ AbandonRun
    \/ phase = "abandoned" /\ phase' # "abandoned" /\ listed # {}

LEMMA ReconciledAbandoned ==
  ReconciledPhase = "abandoned" <=> phase = "abandoned"
  BY DEF ReconciledPhase, Active, Working

LEMMA SigningAbandoned == AssignedInv /\ Signing => AbandonedStep
  <1> SUFFICES ASSUME AssignedInv, Signing PROVE AbandonedStep
    OBVIOUS
  <1>1. CASE CreateRun
    BY <1>1 DEF CreateRun, AbandonedStep
  <1>2. CASE PrepareBatch
    BY <1>2 DEF PrepareBatch, AbandonedStep, run
  <1>3. CASE DiscardRequest
    BY <1>3 DEF DiscardRequest, AbandonedStep, run
  <1>4. CASE CompleteBatch
    BY <1>4 DEF CompleteBatch, AbandonedStep
  <1>5. CASE CompleteRecovery
    BY <1>5 DEF CompleteRecovery, AbandonedStep, Active, Working
  <1>6. ASSUME NEW w \in BOOLEAN, SigningRequestFails(w)
       PROVE  AbandonedStep
    BY <1>6 DEF SigningRequestFails, AbandonedStep, AssignedInv, Quiet, Over
  <1>7. ASSUME NEW ps \in SUBSET Parts, SigningRequest(ps)
       PROVE  AbandonedStep
    BY <1>7 DEF SigningRequest, AbandonedStep, run
  <1> QED BY <1>1, <1>2, <1>3, <1>4, <1>5, <1>6, <1>7 DEF Signing

LEMMA AdvancingAbandoned == AssignedInv /\ Advancing => AbandonedStep
  <1> SUFFICES ASSUME AssignedInv, Advancing PROVE AbandonedStep
    OBVIOUS
  <1>1. CASE Resume
    BY <1>1 DEF Resume, AbandonedStep, run
  <1>2. CASE BroadcastDue
    BY <1>2, ReconciledAbandoned DEF BroadcastDue, Reconcile, AbandonedStep
  <1>3. CASE StampPhase
    BY <1>3 DEF StampPhase, AbandonedStep, AssignedInv, Quiet, Over
  <1>4. CASE Recheck
    BY <1>4, ReconciledAbandoned DEF Recheck, Reconcile, AbandonedStep
  <1>5. CASE PolicyKeeps
    BY <1>5 DEF PolicyKeeps, AbandonedStep, run
  <1>6. CASE MarkExpired
    BY <1>6, ReconciledAbandoned DEF MarkExpired, ReconcileAndMark,
       AbandonedStep, AssignedInv,
       Quiet, Over
  <1>7. CASE Rebuild
    BY <1>7 DEF Rebuild, AbandonedStep, AssignedInv, Quiet, Over
  <1>8. CASE RebuildFails
    BY <1>8 DEF RebuildFails, AbandonedStep, run
  <1>9. ASSUME NEW b \in BOOLEAN, PolicyRebuild(b)
       PROVE  AbandonedStep
    BY <1>9 DEF PolicyRebuild, AbandonedStep, AssignedInv, Quiet, Over, RetireRun
  <1>10. ASSUME NEW ps \in SUBSET Parts, StoreRetry(ps)
       PROVE  AbandonedStep
    BY <1>10 DEF StoreRetry, AbandonedStep, run
  <1>11. ASSUME NEW p \in Parts, Promote(p)
       PROVE  AbandonedStep
    BY <1>11 DEF Promote, AbandonedStep, AssignedInv, Quiet, Over
  <1>12. ASSUME NEW d \in BOOLEAN, NEW b \in BOOLEAN, Finalized(d, b)
       PROVE  AbandonedStep
    BY <1>12 DEF Finalized, AbandonedStep, AssignedInv, Quiet, Over
  <1> QED BY <1>1, <1>2, <1>3, <1>4, <1>5, <1>6, <1>7, <1>8, <1>9, <1>10, <1>11,
     <1>12 DEF Advancing

LEMMA SendingAbandoned == AssignedInv /\ Sending => AbandonedStep
  <1> SUFFICES ASSUME AssignedInv, Sending PROVE AbandonedStep
    OBVIOUS
  <1>1. CASE MarkCrossed
    BY <1>1, ReconciledAbandoned DEF MarkCrossed, ReconcileAndMark,
       AbandonedStep, AssignedInv,
       Quiet, Over
  <1>2. CASE NoneDue
    BY <1>2, ReconciledAbandoned DEF NoneDue, Reconcile, AbandonedStep
  <1>3. CASE MarkBroadcasting
    BY <1>3 DEF MarkBroadcasting, AbandonedStep, AssignedInv, Quiet, Over
  <1>4. CASE CancelBroadcast
    BY <1>4 DEF CancelBroadcast, AbandonedStep, AssignedInv, Quiet, Over
  <1>5. CASE MarkAttempted
    BY <1>5 DEF MarkAttempted, AbandonedStep
  <1>6. CASE BroadcastUnknown
    BY <1>6 DEF BroadcastUnknown, AbandonedStep, AssignedInv, Quiet, Over
  <1>7. CASE BroadcastRejected
    BY <1>7 DEF BroadcastRejected, AbandonedStep, AssignedInv, Quiet, Over,
       RetireRun
  <1>8. CASE RecordAccepted
    BY <1>8 DEF RecordAccepted, AbandonedStep, AssignedInv, Quiet, Over,
       MarkPendingBroadcasted, PhaseAfterBroadcast
  <1>9. CASE RedrawSkipped
    BY <1>9 DEF RedrawSkipped, AbandonedStep, run
  <1>10. ASSUME NEW p \in Parts, DuePending(p)
       PROVE  AbandonedStep
    BY <1>10, ReconciledAbandoned DEF DuePending, Reconcile, AbandonedStep
  <1>11. ASSUME NEW a \in {"accepted", "unknown", "rejected"}, NEW b \in BOOLEAN,
  SendTx(a, b)
       PROVE  AbandonedStep
    BY <1>11 DEF SendTx, AbandonedStep, run
  <1>12. ASSUME NEW b \in BOOLEAN, StoreAccepted(b)
       PROVE  AbandonedStep
    BY <1>12 DEF StoreAccepted, AbandonedStep, run
  <1>13. ASSUME NEW ts \in SUBSET op.read, RedrawOverdue(ts)
       PROVE  AbandonedStep
    BY <1>13 DEF RedrawOverdue, AbandonedStep, AssignedInv, Quiet, Over,
       Reschedule
  <1>14. ASSUME NEW ts \in SUBSET listed, RedrawByOther(ts)
       PROVE  AbandonedStep
    BY <1>14 DEF RedrawByOther, Reschedule, AbandonedStep
  <1>15. CASE ReadOverdue
    BY <1>15 DEF ReadOverdue, AbandonedStep, run
  <1>16. CASE ReadByOther
    BY <1>16 DEF ReadByOther, AbandonedStep, run
  <1> QED BY <1>1, <1>2, <1>3, <1>4, <1>5, <1>6, <1>7, <1>8, <1>9, <1>10, <1>11,
     <1>12, <1>13, <1>14, <1>15, <1>16 DEF Sending

LEMMA StoppingAbandoned == AssignedInv /\ Stopping => AbandonedStep
  <1> SUFFICES ASSUME AssignedInv, Stopping PROVE AbandonedStep
    OBVIOUS
  <1>1. CASE Stop
    BY <1>1 DEF Stop, AbandonedStep, run
  <1>2. CASE StopBlocked
    BY <1>2 DEF StopBlocked, AbandonedStep, run
  <1>3. CASE StopSettled
    BY <1>3 DEF StopSettled, AbandonedStep, run
  <1>4. CASE AbandonRun
    BY <1>4 DEF AbandonedStep
  <1>5. CASE RetireUnbroadcast
    BY <1>5 DEF RetireUnbroadcast, AbandonedStep, Active, Working, RetireRun
  <1>6. ASSUME NEW p \in Parts, StopFinds(p)
       PROVE  AbandonedStep
    BY <1>6 DEF StopFinds, AbandonedStep, StopCandidates, MarkPendingBroadcasted,
       PhaseAfterBroadcast
  <1> QED BY <1>1, <1>2, <1>3, <1>4, <1>5, <1>6 DEF Stopping

LEMMA EnvironmentAbandoned == AssignedInv /\ Environment => AbandonedStep
  <1> SUFFICES ASSUME AssignedInv, Environment PROVE AbandonedStep
    OBVIOUS
  <1>1. CASE SyncRecover
    BY <1>1 DEF SyncRecover, AbandonedStep
  <1>2. CASE SyncConfirm
    BY <1>2, ReconciledAbandoned DEF SyncConfirm, Reconcile, AbandonedStep
  <1>3. CASE Crash
    BY <1>3 DEF Crash, AbandonedStep, run
  <1>4. ASSUME NEW ps \in SUBSET Parts, Scan(ps)
       PROVE  AbandonedStep
    BY <1>4 DEF Scan, AbandonedStep, run
  <1>5. ASSUME NEW p \in Parts, Reorg(p)
       PROVE  AbandonedStep
    BY <1>5 DEF Reorg, AbandonedStep, run
  <1>6. ASSUME NEW p \in Parts, Age(p)
       PROVE  AbandonedStep
    BY <1>6 DEF Age, AbandonedStep
  <1>7. ASSUME NEW p \in Parts, NEW g \in Gens, Mine(p, g)
       PROVE  AbandonedStep
    BY <1>7 DEF Mine, AbandonedStep, run
  <1> QED BY <1>1, <1>2, <1>3, <1>4, <1>5, <1>6, <1>7 DEF Environment

LEMMA AbandonedSteps == AssignedInv /\ Next => AbandonedStep
  BY SigningAbandoned, AdvancingAbandoned, SendingAbandoned, StoppingAbandoned,
     EnvironmentAbandoned DEF Next

(***************************************************************************)
(* What the network can hold of a part.  No transaction is newer than the  *)
(* row (Bounded); one that was never attempted is nowhere, one the wallet  *)
(* has scanned is stored (Traced); and when a stop has asked the network,  *)
(* a scheduled transfer is stored or gone (Settles).                       *)
(***************************************************************************)
Bounded(p) == /\ \A g \in wire[p] : g <= row[p].gen
              /\ mined[p] <= row[p].gen /\ seen[p] <= row[p].gen

Traced(p) ==
    row[p].st # "none" =>
        /\ row[p].att = FALSE =>
              row[p].gen \notin wire[p] \cup {mined[p], seen[p]}
        /\ seen[p] = row[p].gen \/ row[p].st = "confirmed" => p \in stored

Settles(p) == p \in stored \/ row[p].gen \notin wire[p] \cup {mined[p]}

LiveInv ==
    /\ \A p \in Parts : Bounded(p) /\ Traced(p)
    /\ op.pc = "send" => row[op.part].att = TRUE
    /\ op.pc = "abandon" => \A p \in In({"scheduled"}) : Settles(p)

\* What most steps leave of it.
RowsFrame ==
    \A p \in Parts :
        /\ row'[p].gen = row[p].gen
        /\ row'[p].att = row[p].att \/ row'[p].att = TRUE
        /\ row'[p].st = "none" <=> row[p].st = "none"
        /\ row'[p].st = "confirmed" => row[p].st = "confirmed" \/ seen[p] = row[p].gen
        /\ row'[p].st = "scheduled" => row[p].st \in {"scheduled", "confirmed"}

ChainFrame == stored \subseteq stored' /\ UNCHANGED <<wire, mined, seen>>

CallFrame ==
    /\ op'.pc = "send" => row'[op'.part].att = TRUE
    /\ op'.pc = "abandon" => op.pc = "abandon"

LEMMA LiveKept ==
  ASSUME LiveInv, RowsFrame, ChainFrame, CallFrame PROVE LiveInv'
  <1>1. ASSUME NEW p \in Parts
        PROVE  /\ Bounded(p)' /\ Traced(p)'
               /\ Settles(p) => Settles(p)'
               /\ row'[p].st = "scheduled" =>
                     row[p].st = "scheduled" \/ Settles(p)
    <2>1. Bounded(p)'
      BY DEF LiveInv, RowsFrame, ChainFrame, Bounded
    <2>2. Traced(p)
      BY DEF LiveInv
    <2>3. Traced(p)'
      BY <2>2 DEF RowsFrame, ChainFrame, Traced
    <2>4. row'[p].st = "scheduled" => row[p].st = "scheduled" \/ Settles(p)
      BY <2>2 DEF RowsFrame, Traced, Settles
    <2>5. Settles(p) => Settles(p)'
      BY DEF RowsFrame, ChainFrame, Settles
    <2> QED BY <2>1, <2>3, <2>4, <2>5
  <1>2. \A p \in In({"scheduled"})' : p \in Parts /\ row'[p].st = "scheduled"
    BY DEF In
  <1>3. op'.pc = "abandon" => \A p \in In({"scheduled"})' : Settles(p)
    BY <1>1, <1>2 DEF LiveInv, CallFrame, In
  <1>4. op'.pc = "abandon" => \A p \in In({"scheduled"})' : Settles(p)'
    BY <1>1, <1>2, <1>3
  <1> QED BY <1>1, <1>4 DEF LiveInv, CallFrame

LEMMA FrameSame == row' = row => RowsFrame
  BY DEF RowsFrame

LEMMA CallUnchanged ==
  ASSUME LiveInv, Chosen, RowsFrame, UNCHANGED calls PROVE CallFrame
  <1>1. op.pc = "send" => op.part \in Parts
    BY DEF Chosen, Sends, Present
  <1> QED BY <1>1 DEF LiveInv, RowsFrame, CallFrame, calls

LEMMA ReconciledFrame ==
  ASSUME RunTyped, NEW p \in Parts
  PROVE  /\ ReconciledRows[p].st = "confirmed" =>
               row[p].st = "confirmed" \/ seen[p] = row[p].gen
         /\ ReconciledRows[p].st = "scheduled" =>
               row[p].st \in {"scheduled", "confirmed"}
  <1>1. row[p] \in Rows
    BY DEF RunTyped
  <1>2. /\ ReconciledRow(p).st = "confirmed" =>
              row[p].st = "confirmed" \/ seen[p] = row[p].gen
        /\ ReconciledRow(p).st = "scheduled" =>
              row[p].st \in {"scheduled", "confirmed"}
    BY <1>1, RowMoved DEF ReconciledRow, Demoted, States
  <1> QED BY <1>2, ReconciledRowsTyped

LEMMA FrameReconcile == RunTyped /\ Reconcile => RowsFrame
  BY ReconciledRowsTyped, ReconciledFrame DEF Reconcile, RowsFrame

LEMMA FrameMarked ==
  ASSUME RunTyped, NEW marks \in SUBSET Parts, ReconcileAndMark(marks),
         \A p \in marks : ReconciledRows[p].st # "none"
  PROVE  RowsFrame
  <1> SUFFICES ASSUME NEW p \in Parts
               PROVE  /\ row'[p].gen = row[p].gen /\ row'[p].att = row[p].att
                      /\ row'[p].st = "none" <=> row[p].st = "none"
                      /\ row'[p].st = "confirmed" =>
                            row[p].st = "confirmed" \/ seen[p] = row[p].gen
                      /\ row'[p].st = "scheduled" =>
                            row[p].st \in {"scheduled", "confirmed"}
    BY DEF RowsFrame
  <1>0. /\ ReconciledRows[p] \in Rows
        /\ ReconciledRows[p].st = "none" <=> row[p].st = "none"
        /\ ReconciledRows[p].gen = row[p].gen
        /\ ReconciledRows[p].att = row[p].att
    BY ReconciledRowsTyped
  <1>1. CASE p \in marks
    <2>1. row'[p] = [ReconciledRows[p] EXCEPT !.st = "needs_resign"]
      BY <1>1 DEF ReconcileAndMark
    <2>2. "needs_resign" \in States
      BY DEF States
    <2> QED BY <1>0, <1>1, <2>1, <2>2, RowMoved
  <1>2. CASE p \notin marks
    <2>1. row'[p] = ReconciledRows[p]
      BY <1>2 DEF ReconcileAndMark
    <2> QED BY <1>0, <2>1, ReconciledFrame
  <1> QED BY <1>1, <1>2

LEMMA FrameBroadcasted ==
  ASSUME RunTyped, NEW p \in Parts, MarkPendingBroadcasted(p)
  PROVE  RowsFrame
  <1>1. row[p] \in Rows
    BY DEF RunTyped
  <1>2. \A q \in Parts \ {p} : row'[q] = row[q]
    BY DEF MarkPendingBroadcasted, RunTyped
  <1>3. CASE row[p].st # "none"
    <2>1. row'[p] = [row[p] EXCEPT !.st = "broadcasted"]
      BY <1>3 DEF MarkPendingBroadcasted, RunTyped
    <2>2. /\ row'[p].st = "broadcasted" /\ row'[p].gen = row[p].gen
          /\ row'[p].att = row[p].att
      BY <1>1, <1>3, <2>1, RowMoved DEF States
    <2> QED BY <1>2, <1>3, <2>2 DEF RowsFrame
  <1>4. CASE row[p].st = "none"
    <2>1. row'[p] = [row[p] EXCEPT !.st = "none"]
      BY <1>4 DEF MarkPendingBroadcasted, RunTyped
    <2>2. row[p] \in [st : {"none"}, gen : 0..MaxGen, att : {FALSE}]
      BY <1>1, <1>4 DEF Rows
    <2>3. /\ row'[p].st = row[p].st /\ row'[p].gen = row[p].gen
          /\ row'[p].att = row[p].att
      BY <2>1, <2>2
    <2> QED BY <1>2, <1>4, <2>3 DEF RowsFrame
  <1> QED BY <1>3, <1>4

LEMMA FrameRescheduled ==
  ASSUME RunTyped, NEW read, NEW resign, Reschedule(read, resign)
  PROVE  RowsFrame
  <1> SUFFICES ASSUME NEW p \in Parts
               PROVE  /\ row'[p].gen = row[p].gen /\ row'[p].att = row[p].att
                      /\ row'[p].st = row[p].st \/ row'[p].st = "needs_resign"
                      /\ row'[p].st = "none" <=> row[p].st = "none"
    BY DEF RowsFrame
  <1>1. CASE row'[p] = row[p]
    BY <1>1
  <1>2. CASE row'[p] # row[p]
    <2>1. /\ row'[p] = [row[p] EXCEPT !.st = "needs_resign"]
          /\ row[p].st = "scheduled"
      BY <1>2 DEF Reschedule, In
    <2>2. row[p] \in Rows /\ "needs_resign" \in States
      BY DEF RunTyped, States
    <2> QED BY <2>1, <2>2, RowMoved
  <1> QED BY <1>1, <1>2

\* The transaction signed anew is one that no node has seen.
LEMMA LiveResigned ==
  ASSUME RunTyped, ChainTyped, WalletTyped, LiveInv,
         NEW ps \in SUBSET In({"needs_resign"}), Resigned(ps),
         UNCHANGED <<wire, mined, seen>>, op'.pc \notin {"send", "abandon"}
  PROVE  LiveInv'
  <1>1. ASSUME NEW p \in Parts PROVE Bounded(p)' /\ Traced(p)'
    <2>1. row[p] \in Rows /\ row[p].gen \in 0..MaxGen
      BY RowFields DEF RunTyped
    <2>2. Bounded(p) /\ Traced(p)
      BY DEF LiveInv
    <2>3. CASE p \in ps
      <3>1. /\ row'[p].gen = row[p].gen + 1 /\ row'[p].att = FALSE
            /\ row'[p].st = "scheduled"
        BY <2>3 DEF Resigned
      <3>2. \A g \in wire[p] : g \in Int
        BY MigrationAssumption DEF ChainTyped, Gens
      <3>3. mined[p] \in Int /\ seen[p] \in Int
        BY MigrationAssumption DEF ChainTyped, WalletTyped
      <3>4. Bounded(p)'
        BY <2>1, <2>2, <3>1, <3>2, <3>3 DEF Bounded
      <3>5. Traced(p)'
        BY <2>1, <2>2, <3>1, <3>2, <3>3 DEF Bounded, Traced
      <3> QED BY <3>4, <3>5
    <2>4. CASE p \notin ps
      <3>1. row'[p] = row[p] /\ (p \in stored => p \in stored')
        BY <2>4 DEF Resigned
      <3> QED BY <2>2, <3>1 DEF Bounded, Traced
    <2> QED BY <2>3, <2>4
  <1> QED BY <1>1 DEF LiveInv

LEMMA SigningLive == TypeInv /\ LiveInv /\ Signing => LiveInv'
  <1> SUFFICES ASSUME RunTyped, WalletTyped, ChainTyped, CallsTyped, Chosen,
                      LiveInv, Signing
               PROVE  LiveInv'
    BY DEF TypeInv
  <1>1. CASE CreateRun
    <2>1. RowsFrame
      BY <1>1, FrameSame DEF CreateRun
    <2>2. ChainFrame
      BY <1>1 DEF CreateRun, ChainFrame, wallet, chain
    <2>3. CallFrame
      BY <1>1 DEF CreateRun, CallFrame, Idle
    <2> QED BY <2>1, <2>2, <2>3, LiveKept
  <1>2. CASE PrepareBatch
    <2>1. RowsFrame
      BY <1>2, FrameSame DEF PrepareBatch, run
    <2>2. ChainFrame
      BY <1>2 DEF PrepareBatch, ChainFrame, wallet, chain, run
    <2>3. CallFrame
      BY <1>2 DEF PrepareBatch, CallFrame, Idle, run
    <2> QED BY <2>1, <2>2, <2>3, LiveKept
  <1>3. CASE DiscardRequest
    <2>1. RowsFrame
      BY <1>3, FrameSame DEF DiscardRequest, run
    <2>2. ChainFrame
      BY <1>3 DEF DiscardRequest, ChainFrame, wallet, chain, run
    <2>3. CallFrame
      BY <1>3 DEF DiscardRequest, CallFrame, Idle, run, LiveInv
    <2> QED BY <2>1, <2>2, <2>3, LiveKept
  <1>4. CASE CompleteBatch
    <2>1. RowsFrame
      BY <1>4, FrameSame DEF CompleteBatch
    <2>2. ChainFrame
      BY <1>4 DEF CompleteBatch, ChainFrame, wallet, chain
    <2>3. CallFrame
      BY <1>4 DEF CompleteBatch, CallFrame, Idle, LiveInv
    <2> QED BY <2>1, <2>2, <2>3, LiveKept
  <1>5. CASE CompleteRecovery
    <2>0. Resigned(request.parts) /\ request.parts \in SUBSET In({"needs_resign"})
      BY <1>5 DEF CompleteRecovery
    <2>1. UNCHANGED <<wire, mined, seen>> /\ op'.pc \notin {"send", "abandon"}
      BY <1>5 DEF CompleteRecovery, Idle, CallsTyped, Ops
    <2> QED BY <2>0, <2>1, LiveResigned
  <1>6. ASSUME NEW w \in BOOLEAN, SigningRequestFails(w)
       PROVE  LiveInv'
    <2>1. RowsFrame
      BY <1>6, FrameSame DEF SigningRequestFails
    <2>2. ChainFrame
      BY <1>6 DEF SigningRequestFails, ChainFrame, wallet, chain
    <2>3. CallFrame
      BY <1>6 DEF SigningRequestFails, CallFrame, Idle
    <2> QED BY <2>1, <2>2, <2>3, LiveKept
  <1>7. ASSUME NEW ps \in SUBSET Parts, SigningRequest(ps)
       PROVE  LiveInv'
    <2>1. RowsFrame
      BY <1>7, FrameSame DEF SigningRequest, run
    <2>2. ChainFrame
      BY <1>7 DEF SigningRequest, ChainFrame, wallet, chain, run
    <2>3. CallFrame
      BY <1>7 DEF SigningRequest, CallFrame, Idle, run
    <2> QED BY <2>1, <2>2, <2>3, LiveKept
  <1> QED BY <1>1, <1>2, <1>3, <1>4, <1>5, <1>6, <1>7 DEF Signing

LEMMA AdvancingLive == TypeInv /\ LiveInv /\ Advancing => LiveInv'
  <1> SUFFICES ASSUME RunTyped, WalletTyped, ChainTyped, CallsTyped, Chosen,
                      LiveInv, Advancing
               PROVE  LiveInv'
    BY DEF TypeInv
  <1>1. CASE Resume
    <2>1. RowsFrame
      BY <1>1, FrameSame DEF Resume, run
    <2>2. ChainFrame
      BY <1>1 DEF Resume, ChainFrame, wallet, chain, run
    <2>3. CallFrame
      BY <1>1 DEF Resume, CallFrame, Idle, run
    <2> QED BY <2>1, <2>2, <2>3, LiveKept
  <1>2. CASE BroadcastDue
    <2>1. RowsFrame
      BY <1>2, FrameReconcile DEF BroadcastDue
    <2>2. ChainFrame
      BY <1>2 DEF BroadcastDue, ChainFrame, wallet, chain
    <2>3. CallFrame
      BY <1>2 DEF BroadcastDue, CallFrame, Idle
    <2> QED BY <2>1, <2>2, <2>3, LiveKept
  <1>3. CASE StampPhase
    <2>1. RowsFrame
      BY <1>3, FrameSame DEF StampPhase
    <2>2. ChainFrame
      BY <1>3 DEF StampPhase, ChainFrame, wallet, chain
    <2>3. CallFrame
      BY <1>3 DEF StampPhase, CallFrame, Idle, CallsTyped, Ops
    <2> QED BY <2>1, <2>2, <2>3, LiveKept
  <1>4. CASE Recheck
    <2>1. RowsFrame
      BY <1>4, FrameReconcile DEF Recheck
    <2>2. ChainFrame
      BY <1>4 DEF Recheck, ChainFrame, wallet, chain
    <2>3. CallFrame
      BY <1>4 DEF Recheck, CallFrame, Idle, CallsTyped, Ops
    <2> QED BY <2>1, <2>2, <2>3, LiveKept
  <1>5. CASE PolicyKeeps
    <2>1. RowsFrame
      BY <1>5, FrameSame DEF PolicyKeeps, run, Goto
    <2>2. ChainFrame
      BY <1>5 DEF PolicyKeeps, ChainFrame, wallet, chain, run, Goto
    <2>3. CallFrame
      BY <1>5 DEF PolicyKeeps, CallFrame, Idle, run, Goto, CallsTyped, Ops
    <2> QED BY <2>1, <2>2, <2>3, LiveKept
  <1>6. CASE MarkExpired
    <2> DEFINE marks == {p \in Parts : Expired(ReconciledRows[p], p)}
    <2>0. ReconcileAndMark(marks) /\ marks \in SUBSET Parts
      BY <1>6 DEF MarkExpired
    <2>m. \A p \in marks : ReconciledRows[p].st # "none"
      BY DEF Expired
    <2> HIDE DEF marks
    <2>1. RowsFrame
      BY <2>0, <2>m, FrameMarked
    <2>2. ChainFrame
      BY <1>6 DEF MarkExpired, ChainFrame, wallet, chain
    <2>3. CallFrame
      BY <1>6 DEF MarkExpired, CallFrame, Idle, CallsTyped, Ops
    <2> QED BY <2>1, <2>2, <2>3, LiveKept
  <1>7. CASE Rebuild
    <2>0. /\ Resigned(In({"needs_resign"}))
          /\ In({"needs_resign"}) \in SUBSET In({"needs_resign"})
      BY <1>7 DEF Rebuild
    <2>1. UNCHANGED <<wire, mined, seen>> /\ op'.pc \notin {"send", "abandon"}
      BY <1>7 DEF Rebuild, Idle, CallsTyped, Ops
    <2> QED BY <2>0, <2>1, LiveResigned
  <1>8. CASE RebuildFails
    <2>1. RowsFrame
      BY <1>8, FrameSame DEF RebuildFails, run
    <2>2. ChainFrame
      BY <1>8 DEF RebuildFails, ChainFrame, wallet, chain, run
    <2>3. CallFrame
      BY <1>8 DEF RebuildFails, CallFrame, Idle, run
    <2> QED BY <2>1, <2>2, <2>3, LiveKept
  <1>9. ASSUME NEW b \in BOOLEAN, PolicyRebuild(b)
       PROVE  LiveInv'
    <2>1. RowsFrame
      BY <1>9, FrameSame DEF PolicyRebuild, RetireRun
    <2>2. ChainFrame
      BY <1>9 DEF PolicyRebuild, ChainFrame, wallet, chain, RetireRun
    <2>3. CallFrame
      BY <1>9 DEF PolicyRebuild, CallFrame, Idle, RetireRun
    <2> QED BY <2>1, <2>2, <2>3, LiveKept
  <1>10. ASSUME NEW ps \in SUBSET Parts, StoreRetry(ps)
       PROVE  LiveInv'
    <2>1. RowsFrame
      BY <1>10, FrameSame DEF StoreRetry, run
    <2>2. ChainFrame
      BY <1>10 DEF StoreRetry, ChainFrame, chain
    <2>3. CallFrame
      BY <1>10 DEF StoreRetry, CallFrame, Idle, CallsTyped, Ops
    <2> QED BY <2>1, <2>2, <2>3, LiveKept
  <1>11. ASSUME NEW p \in Parts, Promote(p)
       PROVE  LiveInv'
    <2>1. /\ row[p] \in Rows /\ row[p].st = "none" /\ row[p].gen < MaxGen
          /\ row[p].gen \in 0..MaxGen
      BY <1>11, RowFields DEF Promote, Unpromoted, Present, RunTyped
    <2>2. /\ row'[p] = [row[p] EXCEPT !.st = "scheduled", !.gen = @ + 1]
          /\ \A q \in Parts \ {p} : row'[q] = row[q]
          /\ UNCHANGED <<wire, mined, seen, stored>>
      BY <1>11 DEF Promote, RunTyped, wallet, chain
    <2>3. /\ row'[p].st = "scheduled" /\ row'[p].gen = row[p].gen + 1
          /\ row'[p].att = FALSE
      BY <2>1, <2>2, RowAdded
    <2>4. /\ \A g \in wire[p] : g \in Int
          /\ mined[p] \in Int /\ seen[p] \in Int
      BY MigrationAssumption DEF ChainTyped, WalletTyped, Gens
    <2>5. op'.pc = "finalize"
      BY <1>11 DEF Promote, CallsTyped, Ops
    <2>6. \A q \in Parts : Bounded(q)' /\ Traced(q)'
      <3> TAKE q \in Parts
      <3>1. Bounded(q) /\ Traced(q)
        BY DEF LiveInv
      <3>2. CASE q = p
        BY <3>1, <3>2, <2>1, <2>2, <2>3, <2>4 DEF Bounded, Traced
      <3>3. CASE q # p
        BY <3>1, <3>3, <2>2 DEF Bounded, Traced
      <3> QED BY <3>2, <3>3
    <2> QED BY <2>5, <2>6 DEF LiveInv
  <1>12. ASSUME NEW d \in BOOLEAN, NEW b \in BOOLEAN, Finalized(d, b)
       PROVE  LiveInv'
    <2>1. RowsFrame
      BY <1>12, FrameSame DEF Finalized
    <2>2. ChainFrame
      BY <1>12 DEF Finalized, ChainFrame, wallet, chain
    <2>3. CallFrame
      BY <1>12 DEF Finalized, CallFrame, Idle, CallsTyped, Ops
    <2> QED BY <2>1, <2>2, <2>3, LiveKept
  <1> QED BY <1>1, <1>2, <1>3, <1>4, <1>5, <1>6, <1>7, <1>8, <1>9, <1>10, <1>11,
     <1>12 DEF Advancing

LEMMA SendingLive == TypeInv /\ LiveInv /\ Sending => LiveInv'
  <1> SUFFICES ASSUME RunTyped, WalletTyped, ChainTyped, CallsTyped, Chosen,
                      LiveInv, Sending
               PROVE  LiveInv'
    BY DEF TypeInv
  <1>1. CASE MarkCrossed
    <2> DEFINE marks == {p \in Parts : /\ ReconciledRows[p].st = "scheduled"
                                          /\ ReconciledAge[p] \in {"crossed", "expired"}}
    <2>0. ReconcileAndMark(marks) /\ marks \in SUBSET Parts
      BY <1>1 DEF MarkCrossed
    <2>m. \A p \in marks : ReconciledRows[p].st # "none"
      BY DEF Expired
    <2> HIDE DEF marks
    <2>1. RowsFrame
      BY <2>0, <2>m, FrameMarked
    <2>2. ChainFrame
      BY <1>1 DEF MarkCrossed, ChainFrame, wallet, chain
    <2>3. CallFrame
      BY <1>1 DEF MarkCrossed, CallFrame, Idle, CallsTyped, Ops
    <2> QED BY <2>1, <2>2, <2>3, LiveKept
  <1>2. CASE NoneDue
    <2>1. RowsFrame
      BY <1>2, FrameReconcile DEF NoneDue
    <2>2. ChainFrame
      BY <1>2 DEF NoneDue, ChainFrame, wallet, chain
    <2>3. CallFrame
      BY <1>2 DEF NoneDue, CallFrame, Idle
    <2> QED BY <2>1, <2>2, <2>3, LiveKept
  <1>3. CASE MarkBroadcasting
    <2>1. RowsFrame
      BY <1>3, FrameSame DEF MarkBroadcasting, Goto
    <2>2. ChainFrame
      BY <1>3 DEF MarkBroadcasting, ChainFrame, wallet, chain, Goto
    <2>3. CallFrame
      BY <1>3 DEF MarkBroadcasting, CallFrame, Idle, Goto, CallsTyped, Ops
    <2> QED BY <2>1, <2>2, <2>3, LiveKept
  <1>4. CASE CancelBroadcast
    <2>1. RowsFrame
      BY <1>4, FrameSame DEF CancelBroadcast
    <2>2. ChainFrame
      BY <1>4 DEF CancelBroadcast, ChainFrame, wallet, chain
    <2>3. CallFrame
      BY <1>4 DEF CancelBroadcast, CallFrame, Idle
    <2> QED BY <2>1, <2>2, <2>3, LiveKept
  <1>5. CASE MarkAttempted
    <2>0. op.part \in Parts /\ row[op.part] \in Rows
      BY <1>5 DEF MarkAttempted, Chosen, Sends, Present, RunTyped
    <2>a. row[op.part].st = "scheduled" =>
            \E r : /\ row' = [row EXCEPT ![op.part] = r]
                  /\ r.att = TRUE /\ r.st = row[op.part].st /\ r.gen = row[op.part].gen
      <3> SUFFICES ASSUME row[op.part].st = "scheduled"
                   PROVE  \E r : /\ row' = [row EXCEPT ![op.part] = r]
                                 /\ r.att = TRUE /\ r.st = row[op.part].st
                                 /\ r.gen = row[op.part].gen
        OBVIOUS
      <3> WITNESS [row[op.part] EXCEPT !.att = TRUE]
      <3>1. row' = [row EXCEPT ![op.part] = [row[op.part] EXCEPT !.att = TRUE]]
        BY <1>5 DEF MarkAttempted
      <3> QED BY <2>0, <3>1, RowAttempted
    <2>1. RowsFrame
      <3>1. CASE row[op.part].st = "scheduled"
        BY <2>0, <2>a, <3>1 DEF RowsFrame, RunTyped
      <3>2. CASE row[op.part].st # "scheduled"
        BY <1>5, <3>2, FrameSame DEF MarkAttempted
      <3> QED BY <3>1, <3>2
    <2>2. ChainFrame
      BY <1>5 DEF MarkAttempted, ChainFrame, wallet, chain
    <2>3. CallFrame
      <3>1. CASE row[op.part].st = "scheduled"
        BY <1>5, <2>0, <2>a, <3>1 DEF MarkAttempted, CallFrame, Goto, CallsTyped,
           Ops, RunTyped
      <3>2. CASE row[op.part].st # "scheduled"
        BY <1>5, <3>2 DEF MarkAttempted, CallFrame, Idle
      <3> QED BY <3>1, <3>2
    <2> QED BY <2>1, <2>2, <2>3, LiveKept
  <1>6. CASE BroadcastUnknown
    <2>1. RowsFrame
      BY <1>6, FrameSame DEF BroadcastUnknown
    <2>2. ChainFrame
      BY <1>6 DEF BroadcastUnknown, ChainFrame, wallet, chain
    <2>3. CallFrame
      BY <1>6 DEF BroadcastUnknown, CallFrame, Idle
    <2> QED BY <2>1, <2>2, <2>3, LiveKept
  <1>7. CASE BroadcastRejected
    <2>1. RowsFrame
      BY <1>7, FrameSame DEF BroadcastRejected, RetireRun
    <2>2. ChainFrame
      BY <1>7 DEF BroadcastRejected, ChainFrame, wallet, chain, RetireRun
    <2>3. CallFrame
      BY <1>7 DEF BroadcastRejected, CallFrame, Idle, RetireRun
    <2> QED BY <2>1, <2>2, <2>3, LiveKept
  <1>8. CASE RecordAccepted
    <2>0. op.part \in Parts
      BY <1>8 DEF RecordAccepted, Chosen, Sends, Present
    <2>1. RowsFrame
      BY <1>8, <2>0, FrameBroadcasted DEF RecordAccepted
    <2>2. ChainFrame
      BY <1>8 DEF RecordAccepted, ChainFrame, wallet, chain
    <2>3. CallFrame
      BY <1>8 DEF RecordAccepted, CallFrame, Idle, CallsTyped, Ops
    <2> QED BY <2>1, <2>2, <2>3, LiveKept
  <1>9. CASE RedrawSkipped
    <2>1. RowsFrame
      BY <1>9, FrameSame DEF RedrawSkipped, run
    <2>2. ChainFrame
      BY <1>9 DEF RedrawSkipped, ChainFrame, wallet, chain, run
    <2>3. CallFrame
      BY <1>9 DEF RedrawSkipped, CallFrame, Idle, run
    <2> QED BY <2>1, <2>2, <2>3, LiveKept
  <1>10. ASSUME NEW p \in Parts, DuePending(p)
       PROVE  LiveInv'
    <2>1. RowsFrame
      BY <1>10, FrameReconcile DEF DuePending
    <2>2. ChainFrame
      BY <1>10 DEF DuePending, ChainFrame, wallet, chain
    <2>3. CallFrame
      BY <1>10 DEF DuePending, CallFrame, Idle, CallsTyped, Ops
    <2> QED BY <2>1, <2>2, <2>3, LiveKept
  <1>11. ASSUME NEW a \in {"accepted", "unknown", "rejected"}, NEW b \in BOOLEAN,
  SendTx(a, b)
       PROVE  LiveInv'
    <2>0. /\ op.part \in Parts /\ row[op.part].gen \in Gens
          /\ row[op.part].att = TRUE
      BY <1>11, RowFields DEF SendTx, Chosen, Sends, Present, RunTyped, LiveInv
    <2>1. op'.pc \notin {"send", "abandon"}
      BY <1>11 DEF SendTx, Goto, CallsTyped, Ops
    <2>2. UNCHANGED <<phase, row, stored, mined, seen>>
      BY <1>11 DEF SendTx, run, wallet
    <2>3. \A q \in Parts : \A g \in wire'[q] :
            g \in wire[q] \/ (q = op.part /\ g = row[op.part].gen)
      BY <1>11, <2>0 DEF SendTx, ChainTyped
    <2>4. \A q \in Parts : Bounded(q)' /\ Traced(q)'
      <3> TAKE q \in Parts
      <3>1. row[q].gen \in 0..MaxGen
        BY RowFields DEF RunTyped
      <3>2. Bounded(q)'
        BY <3>1, <2>2, <2>3 DEF LiveInv, Bounded
      <3>3. Traced(q)'
        BY <2>0, <2>2, <2>3 DEF LiveInv, Traced
      <3> QED BY <3>2, <3>3
    <2> QED BY <2>1, <2>4 DEF LiveInv
  <1>12. ASSUME NEW b \in BOOLEAN, StoreAccepted(b)
       PROVE  LiveInv'
    <2>1. RowsFrame
      BY <1>12, FrameSame DEF StoreAccepted, run
    <2>2. ChainFrame
      BY <1>12 DEF StoreAccepted, ChainFrame, chain
    <2>3. CallFrame
      BY <1>12 DEF StoreAccepted, CallFrame, Idle, Goto, CallsTyped, Ops
    <2> QED BY <2>1, <2>2, <2>3, LiveKept
  <1>13. ASSUME NEW ts \in SUBSET op.read, RedrawOverdue(ts)
       PROVE  LiveInv'
    <2>1. RowsFrame
      BY <1>13, FrameRescheduled DEF RedrawOverdue
    <2>2. ChainFrame
      BY <1>13 DEF RedrawOverdue, ChainFrame, wallet, chain
    <2>3. CallFrame
      BY <1>13 DEF RedrawOverdue, CallFrame, Idle
    <2> QED BY <2>1, <2>2, <2>3, LiveKept
  <1>14. ASSUME NEW ts \in SUBSET listed, RedrawByOther(ts)
       PROVE  LiveInv'
    <2>1. RowsFrame
      BY <1>14, FrameRescheduled DEF RedrawByOther
    <2>2. ChainFrame
      BY <1>14 DEF RedrawByOther, ChainFrame, wallet, chain
    <2>3. CallFrame
      BY <1>14, <2>1, CallUnchanged DEF RedrawByOther
    <2> QED BY <2>1, <2>2, <2>3, LiveKept
  <1>15. CASE ReadOverdue
    <2>1. RowsFrame
      BY <1>15, FrameSame DEF ReadOverdue, run
    <2>2. ChainFrame
      BY <1>15 DEF ReadOverdue, ChainFrame, wallet, chain
    <2>3. CallFrame
      <3>1. op'.pc \in {"idle", "reschedule"}
        BY <1>15 DEF ReadOverdue, Idle, CallsTyped, Ops
      <3> QED BY <3>1 DEF CallFrame
    <2> QED BY <2>1, <2>2, <2>3, LiveKept
  <1>16. CASE ReadByOther
    <2>1. RowsFrame
      BY <1>16, FrameSame DEF ReadByOther, run
    <2>2. ChainFrame
      BY <1>16 DEF ReadByOther, ChainFrame, wallet
    <2>3. CallFrame
      BY <1>16, <2>1, CallUnchanged DEF ReadByOther
    <2> QED BY <2>1, <2>2, <2>3, LiveKept
  <1> QED BY <1>1, <1>2, <1>3, <1>4, <1>5, <1>6, <1>7, <1>8, <1>9, <1>10, <1>11,
     <1>12, <1>13, <1>14, <1>15, <1>16 DEF Sending

LEMMA StoppingLive ==
  TypeInv /\ AssignedInv /\ LiveInv /\ Stopping => LiveInv'
  <1> SUFFICES ASSUME RunTyped, WalletTyped, ChainTyped, CallsTyped, Chosen,
                      AssignedInv, LiveInv, Stopping
               PROVE  LiveInv'
    BY DEF TypeInv
  <1>1. CASE Stop
    <2>1. RowsFrame
      BY <1>1, FrameSame DEF Stop, run
    <2>2. ChainFrame
      BY <1>1 DEF Stop, ChainFrame, wallet, chain, run
    <2>3. CallFrame
      BY <1>1 DEF Stop, CallFrame, Idle, run
    <2> QED BY <2>1, <2>2, <2>3, LiveKept
  <1>2. CASE StopBlocked
    <2>1. RowsFrame
      BY <1>2, FrameSame DEF StopBlocked, run
    <2>2. ChainFrame
      BY <1>2 DEF StopBlocked, ChainFrame, wallet, chain, run
    <2>3. CallFrame
      BY <1>2 DEF StopBlocked, CallFrame, Idle, run
    <2> QED BY <2>1, <2>2, <2>3, LiveKept
  <1>3. CASE StopSettled
    <2>1. UNCHANGED <<phase, row, stored, mined, seen, wire>>
      BY <1>3 DEF StopSettled, run, wallet, chain
    <2>2. op'.pc = "abandon"
      BY <1>3 DEF StopSettled, Goto, CallsTyped, Ops
    <2>a. phase = "abandoned" => In({"scheduled"}) = {}
      BY DEF AssignedInv, Over
    <2>3. ASSUME NEW q \in In({"scheduled"})
          PROVE  Settles(q)
      <3>1. q \in Present /\ row[q] \in Rows /\ Traced(q)
        BY <2>3 DEF In, Present, RunTyped, LiveInv
      <3>2. CASE row[q].att = TRUE
        <4>1. q \in StopCandidates
          BY <2>a, <2>3, <3>2 DEF StopCandidates, In
        <4> QED BY <1>3, <4>1 DEF StopSettled, OnNetwork, Settles
      <3>3. CASE row[q].att = FALSE
        BY <3>1, <3>3 DEF Traced, Settles, Present
      <3> QED BY <3>1, <3>2, <3>3, RowFields
    <2>4. \A q \in Parts : Bounded(q)' /\ Traced(q)'
      BY <2>1 DEF LiveInv, Bounded, Traced
    <2>5. \A q \in In({"scheduled"})' : Settles(q)'
      BY <2>1, <2>3 DEF In, Settles
    <2> QED BY <2>2, <2>4, <2>5 DEF LiveInv
  <1>4. CASE AbandonRun
    <2>1. op'.pc = "idle" /\ UNCHANGED <<wire, mined, seen>>
      BY <1>4 DEF AbandonRun, Idle, chain
    <2>2. CASE Active
      <3>1. \A q \in Parts : Bounded(q)' /\ Traced(q)'
        <4> TAKE q \in Parts
        <4>0. Bounded(q) /\ Traced(q)
          BY DEF LiveInv
        <4>1. CASE q \in In({"scheduled", "needs_resign"})
          <5>1. row'[q] = Dropped(row[q])
            BY <1>4, <2>2, <4>1 DEF AbandonRun
          <5>2. row'[q].st = "none" /\ row'[q].gen = row[q].gen
            BY <5>1, RowDropped DEF RunTyped
          <5> QED BY <2>1, <4>0, <5>2 DEF Bounded, Traced
        <4>2. CASE q \notin In({"scheduled", "needs_resign"})
          <5>1. row'[q] = row[q] /\ (q \in stored => q \in stored')
            BY <1>4, <2>2, <4>2 DEF AbandonRun
          <5> QED BY <2>1, <4>0, <5>1 DEF Bounded, Traced
        <4> QED BY <4>1, <4>2
      <3> QED BY <2>1, <3>1 DEF LiveInv
    <2>3. CASE ~Active
      <3>1. UNCHANGED <<phase, row, stored>>
        BY <1>4, <2>3 DEF AbandonRun
      <3> QED BY <2>1, <3>1 DEF LiveInv, Bounded, Traced
    <2> QED BY <2>2, <2>3
  <1>5. CASE RetireUnbroadcast
    <2>1. RowsFrame
      BY <1>5, FrameSame DEF RetireUnbroadcast, RetireRun
    <2>2. ChainFrame
      BY <1>5 DEF RetireUnbroadcast, ChainFrame, wallet, chain, RetireRun
    <2>3. CallFrame
      BY <1>5 DEF RetireUnbroadcast, CallFrame, Idle, RetireRun
    <2> QED BY <2>1, <2>2, <2>3, LiveKept
  <1>6. ASSUME NEW p \in Parts, StopFinds(p)
       PROVE  LiveInv'
    <2>1. RowsFrame
      BY <1>6, FrameBroadcasted DEF StopFinds
    <2>2. ChainFrame
      BY <1>6 DEF StopFinds, ChainFrame, chain
    <2>3. CallFrame
      BY <1>6, <2>1, CallUnchanged DEF StopFinds
    <2> QED BY <2>1, <2>2, <2>3, LiveKept
  <1> QED BY <1>1, <1>2, <1>3, <1>4, <1>5, <1>6 DEF Stopping

LEMMA RowTyped ==
  ASSUME RunTyped, NEW q \in Parts
  PROVE  /\ row[q] \in Rows /\ row[q].gen \in 0..MaxGen
         /\ row[q].st # "none" => row[q].gen # 0
  <1>1. row[q] \in Rows
    BY DEF RunTyped
  <1>2. 0 \notin Gens
    BY MigrationAssumption DEF Gens
  <1> QED BY <1>1, <1>2, RowFields

LEMMA EnvironmentLive == TypeInv /\ LiveInv /\ Environment => LiveInv'
  <1> SUFFICES ASSUME RunTyped, WalletTyped, ChainTyped, CallsTyped, Chosen,
                      LiveInv, Environment
               PROVE  LiveInv'
    BY DEF TypeInv
  <1>1. CASE SyncRecover
    <2>1. RowsFrame
      BY <1>1, FrameSame DEF SyncRecover
    <2>2. ChainFrame
      BY <1>1 DEF SyncRecover, ChainFrame, wallet, chain
    <2>3. CallFrame
      BY <1>1, <2>1, CallUnchanged DEF SyncRecover
    <2> QED BY <2>1, <2>2, <2>3, LiveKept
  <1>2. CASE SyncConfirm
    <2>1. RowsFrame
      BY <1>2, FrameReconcile DEF SyncConfirm
    <2>2. ChainFrame
      BY <1>2 DEF SyncConfirm, ChainFrame, wallet, chain
    <2>3. CallFrame
      BY <1>2, <2>1, CallUnchanged DEF SyncConfirm
    <2> QED BY <2>1, <2>2, <2>3, LiveKept
  <1>3. CASE Crash
    <2>1. RowsFrame
      BY <1>3, FrameSame DEF Crash, run
    <2>2. ChainFrame
      BY <1>3 DEF Crash, ChainFrame, wallet, chain, run
    <2>3. CallFrame
      BY <1>3 DEF Crash, CallFrame, Idle, run
    <2> QED BY <2>1, <2>2, <2>3, LiveKept
  <1>4. ASSUME NEW ps \in SUBSET Parts, Scan(ps)
       PROVE  LiveInv'
    <2>1. UNCHANGED <<phase, row, op, wire, mined>>
      BY <1>4 DEF Scan, run, chain, calls
    <2>2. /\ seen' = mined /\ stored \subseteq stored'
          /\ \A q \in Present : mined[q] = row[q].gen => q \in stored'
      BY <1>4 DEF Scan
    <2>p. \A q \in Parts : row[q].st # "none" => q \in Present
      BY DEF Present
    <2>3. ASSUME NEW q \in Parts
          PROVE  /\ Bounded(q)' /\ Traced(q)'
                 /\ row[q].st = "scheduled" /\ Settles(q) => Settles(q)'
      <3>1. /\ row[q] \in Rows /\ row[q].gen \in 0..MaxGen
            /\ row[q].st # "none" => row[q].gen # 0
        BY RowTyped
      <3>2. Bounded(q) /\ Traced(q)
        BY DEF LiveInv
      <3>3. Bounded(q)'
        BY <2>1, <2>2, <3>1, <3>2 DEF Bounded
      <3>4. Traced(q)'
        BY <2>1, <2>2, <2>p, <3>1, <3>2 DEF Traced
      <3>5. row[q].st = "scheduled" /\ Settles(q) => Settles(q)'
        BY <2>1, <2>2, <2>p, <3>1, <3>2 DEF Settles
      <3> QED BY <3>3, <3>4, <3>5
    <2>4. op.pc = "abandon" => \A q \in In({"scheduled"})' : Settles(q)
      BY <2>1 DEF LiveInv, In
    <2> QED BY <2>1, <2>3, <2>4 DEF LiveInv, In
  <1>5. ASSUME NEW p \in Parts, Reorg(p)
       PROVE  LiveInv'
    <2>1. UNCHANGED <<phase, row, op, stored, seen>>
      BY <1>5 DEF Reorg, run, wallet, calls
    <2>2. /\ mined[p] \in 1..MaxGen /\ mined'[p] = 0 /\ wire'[p] = {mined[p]}
          /\ \A q \in Parts \ {p} : mined'[q] = mined[q] /\ wire'[q] = wire[q]
      BY <1>5, MigrationAssumption DEF Reorg, ChainTyped
    <2>3. ASSUME NEW q \in Parts
          PROVE  /\ Bounded(q)' /\ Traced(q)'
                 /\ row[q].st = "scheduled" /\ Settles(q) => Settles(q)'
      <3>1. /\ row[q] \in Rows /\ row[q].gen \in 0..MaxGen
            /\ row[q].st # "none" => row[q].gen # 0
        BY RowTyped
      <3>2. Bounded(q) /\ Traced(q)
        BY DEF LiveInv
      <3>3. Bounded(q)'
        BY <2>1, <2>2, <3>1, <3>2 DEF Bounded
      <3>4. Traced(q)'
        BY <2>1, <2>2, <3>1, <3>2 DEF Traced
      <3>5. row[q].st = "scheduled" /\ Settles(q) => Settles(q)'
        BY <2>1, <2>2, <3>1, <3>2 DEF Settles
      <3> QED BY <3>3, <3>4, <3>5
    <2>4. op.pc = "abandon" => \A q \in In({"scheduled"})' : Settles(q)
      BY <2>1 DEF LiveInv, In
    <2> QED BY <2>1, <2>3, <2>4 DEF LiveInv, In
  <1>6. ASSUME NEW p \in Parts, Age(p)
       PROVE  LiveInv'
    <2>1. UNCHANGED <<phase, row, op, stored, seen, mined>>
      BY <1>6 DEF Age, run, wallet, calls
    <2>2. \A q \in Parts : wire'[q] \subseteq wire[q]
      BY <1>6 DEF Age, ChainTyped
    <2>3. ASSUME NEW q \in Parts
          PROVE  /\ Bounded(q)' /\ Traced(q)'
                 /\ row[q].st = "scheduled" /\ Settles(q) => Settles(q)'
      <3>1. /\ row[q] \in Rows /\ row[q].gen \in 0..MaxGen
            /\ row[q].st # "none" => row[q].gen # 0
        BY RowTyped
      <3>2. Bounded(q) /\ Traced(q)
        BY DEF LiveInv
      <3>3. Bounded(q)'
        BY <2>1, <2>2, <3>1, <3>2 DEF Bounded
      <3>4. Traced(q)'
        BY <2>1, <2>2, <3>1, <3>2 DEF Traced
      <3>5. row[q].st = "scheduled" /\ Settles(q) => Settles(q)'
        BY <2>1, <2>2, <3>1, <3>2 DEF Settles
      <3> QED BY <3>3, <3>4, <3>5
    <2>4. op.pc = "abandon" => \A q \in In({"scheduled"})' : Settles(q)
      BY <2>1 DEF LiveInv, In
    <2> QED BY <2>1, <2>3, <2>4 DEF LiveInv, In
  <1>7. ASSUME NEW p \in Parts, NEW g \in Gens, Mine(p, g)
       PROVE  LiveInv'
    <2>1. UNCHANGED <<phase, row, op, stored, seen>>
      BY <1>7 DEF Mine, run, wallet, calls
    <2>2. /\ g \in wire[p] /\ mined'[p] = g /\ wire'[p] = {}
          /\ \A q \in Parts \ {p} : mined'[q] = mined[q] /\ wire'[q] = wire[q]
      BY <1>7 DEF Mine, ChainTyped
    <2>3. ASSUME NEW q \in Parts
          PROVE  /\ Bounded(q)' /\ Traced(q)'
                 /\ row[q].st = "scheduled" /\ Settles(q) => Settles(q)'
      <3>1. /\ row[q] \in Rows /\ row[q].gen \in 0..MaxGen
            /\ row[q].st # "none" => row[q].gen # 0
        BY RowTyped
      <3>2. Bounded(q) /\ Traced(q)
        BY DEF LiveInv
      <3>3. Bounded(q)'
        BY <2>1, <2>2, <3>1, <3>2 DEF Bounded
      <3>4. Traced(q)'
        BY <2>1, <2>2, <3>1, <3>2 DEF Traced
      <3>5. row[q].st = "scheduled" /\ Settles(q) => Settles(q)'
        BY <2>1, <2>2, <3>1, <3>2 DEF Settles
      <3> QED BY <3>3, <3>4, <3>5
    <2>4. op.pc = "abandon" => \A q \in In({"scheduled"})' : Settles(q)
      BY <2>1 DEF LiveInv, In
    <2> QED BY <2>1, <2>3, <2>4 DEF LiveInv, In
  <1> QED BY <1>1, <1>2, <1>3, <1>4, <1>5, <1>6, <1>7 DEF Environment

LEMMA LiveInit == Init => LiveInv
  <1>1. ASSUME InitNew PROVE LiveInv
    BY <1>1 DEF InitNew, LiveInv, Bounded, Traced, NoRow, Idle
  <1>2. ASSUME InitFalseTerminal PROVE LiveInv
    BY <1>2 DEF InitFalseTerminal, LiveInv, Bounded, Traced, Idle
  <1> QED BY <1>1, <1>2 DEF Init

LEMMA LiveStep == TypeInv /\ AssignedInv /\ LiveInv /\ [Next]_vars => LiveInv'
  <1>1. ASSUME LiveInv, UNCHANGED vars PROVE LiveInv'
    BY <1>1 DEF LiveInv, vars, Bounded, Traced, Settles, In
  <1> QED BY <1>1, SigningLive, AdvancingLive, SendingLive,
             StoppingLive, EnvironmentLive DEF Next

LEMMA LiveAlways == Spec => []LiveInv
  BY LiveInit, LiveStep, AssignedAlways, TypeInvAlways, PTL DEF Spec

LEMMA StopStep ==
  ASSUME AssignedInv, LiveInv, Next, phase' = "abandoned", phase # "abandoned",
         NEW p \in LiveDropped
  PROVE  row[p].st = "needs_resign"
  <1>1. AbandonRun
    BY AbandonedSteps DEF AbandonedStep
  <1>2. /\ p \in Parts /\ row[p].st # "none" /\ row'[p].st = "none"
        /\ row[p].gen \in wire[p] /\ p \notin stored
    BY DEF LiveDropped
  <1>3. op.pc = "abandon" /\ p \in In({"scheduled", "needs_resign"})
    BY <1>1, <1>2 DEF AbandonRun
  <1>4. row[p].st # "scheduled"
    BY <1>2, <1>3 DEF LiveInv, Settles, In
  <1> QED BY <1>3, <1>4 DEF In

\* A stop drops a transfer that a node may hold and the wallet has not got only
\* when it waits for a new signature, whatever answers, marks and processes were
\* lost before: one that is still scheduled has been asked about.
THEOREM StopsDropNoScheduled == Spec => StopDropsNoScheduledTransfer
  <1> DEFINE A == phase' = "abandoned" /\ phase # "abandoned" =>
                    \A p \in LiveDropped : row[p].st = "needs_resign"
  <1>1. AssignedInv /\ LiveInv /\ [Next]_vars => [A]_vars
    BY StopStep
  <1>2. StopDropsNoScheduledTransfer <=> [][A]_vars
    BY DEF StopDropsNoScheduledTransfer
  <1> HIDE DEF A
  <1>3. Spec => [][A]_vars
    BY <1>1, AssignedAlways, LiveAlways, PTL DEF Spec
  <1> QED BY <1>2, <1>3

-----------------------------------------------------------------------------
(***************************************************************************)
(* After the stop.  A call that would send or write the phase has seen the *)
(* run alive, and a stopped run has no overdue transfer to read: only what *)
(* another account has read before is left to redraw.                      *)
(***************************************************************************)
LEMMA WireSteps ==
  ASSUME Next
  PROVE  \/ UNCHANGED wire \/ op.pc = "send"
         \/ \E p \in Parts : Reorg(p) \/ Age(p)
         \/ \E p \in Parts, g \in Gens : Mine(p, g)
  <1> USE DEF chain
  <1>1. CASE Signing
    BY <1>1 DEF Signing, CreateRun, PrepareBatch, DiscardRequest, CompleteBatch,
       CompleteRecovery, SigningRequestFails, SigningRequest
  <1>2. CASE Advancing
    BY <1>2 DEF Advancing, Resume, BroadcastDue, StampPhase, Recheck, PolicyKeeps,
       MarkExpired, Rebuild, RebuildFails, PolicyRebuild, StoreRetry, Promote,
       Finalized
  <1>3. CASE Sending
    BY <1>3 DEF Sending, MarkCrossed, NoneDue, MarkBroadcasting, CancelBroadcast,
       MarkAttempted, BroadcastUnknown, BroadcastRejected, RecordAccepted,
       RedrawSkipped, ReadOverdue, DuePending, SendTx, StoreAccepted,
       RedrawOverdue, RedrawByOther, ReadByOther
  <1>4. CASE Stopping
    BY <1>4 DEF Stopping, Stop, StopBlocked, StopSettled, AbandonRun,
       RetireUnbroadcast, StopFinds
  <1>5. CASE Environment
    BY <1>5 DEF Environment, SyncRecover, SyncConfirm, Crash, Scan
  <1> QED BY <1>1, <1>2, <1>3, <1>4, <1>5 DEF Next

LEMMA StoppedSteps ==
  ASSUME TypeInv, OutsideTyped, AssignedInv, Next, phase = "abandoned"
  PROVE  /\ phase' # "abandoned" =>
              \E t \in listed : row[t[1]].gen # t[2] \/ row[t[1]].st # "scheduled"
         /\ \A p \in Parts : wire'[p] \subseteq wire[p] \cup {mined[p]}
  <1>1. ASSUME phase' # "abandoned"
        PROVE  \E t \in listed :
                  row[t[1]].gen # t[2] \/ row[t[1]].st # "scheduled"
    <2>1. listed # {}
      BY <1>1, AbandonedSteps DEF AbandonedStep, AbandonRun, Active, Working
    <2>2. PICK t \in listed : TRUE
      BY <2>1
    <2>3. t[1] \in Parts
      BY DEF OutsideTyped, Txs
    <2>4. t[1] \notin In({"scheduled"})
      BY DEF AssignedInv, Over
    <2>5. row[t[1]].st # "scheduled"
      BY <2>3, <2>4 DEF In
    <2> QED BY <2>5
  <1>2. op.pc # "send" BY DEF AssignedInv, Quiet, Over
  <1>3. wire \in [Parts -> SUBSET Gens] BY DEF TypeInv, ChainTyped
  <1>4. ASSUME NEW q \in Parts, Reorg(q), NEW p \in Parts
        PROVE  wire'[p] \subseteq wire[p] \cup {mined[p]}
    BY <1>3, <1>4 DEF Reorg
  <1>5. ASSUME NEW q \in Parts, Age(q), NEW p \in Parts
        PROVE  wire'[p] \subseteq wire[p] \cup {mined[p]}
    <2>1. \/ wire' = wire
          \/ wire' = [wire EXCEPT ![q] = @ \ {row[q].gen}]
      BY <1>5 DEF Age
    <2> QED BY <1>3, <2>1
  <1>6. ASSUME NEW q \in Parts, NEW g \in Gens, Mine(q, g), NEW p \in Parts
        PROVE  wire'[p] \subseteq wire[p] \cup {mined[p]}
    BY <1>3, <1>6 DEF Mine
  <1> QED BY <1>1, <1>2, <1>4, <1>5, <1>6, WireSteps

\* A stopped run sends nothing, and it is opened again only by a redraw that
\* works from a list another account read before the stop, for any number of
\* parts, signatures and such accounts.
THEOREM StopUndone == Spec => StopUndoneOnlyByStaleRedraw
  <1> DEFINE A == phase = "abandoned" =>
                    /\ phase' # "abandoned" =>
                         \E t \in listed :
                            row[t[1]].gen # t[2] \/ row[t[1]].st # "scheduled"
                    /\ \A p \in Parts : wire'[p] \subseteq wire[p] \cup {mined[p]}
  <1>1. TypeInv /\ OutsideTyped /\ AssignedInv /\ [Next]_vars => [A]_vars
    BY StoppedSteps
  <1>2. StopUndoneOnlyByStaleRedraw <=> [][A]_vars
    BY DEF StopUndoneOnlyByStaleRedraw
  <1> HIDE DEF A
  <1>3. Spec => [][A]_vars
    BY <1>1, AssignedAlways, TypeInvAlways, OutsideAlways, PTL DEF Spec
  <1> QED BY <1>2, <1>3
=============================================================================
