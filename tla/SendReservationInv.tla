------------------------- MODULE SendReservationInv -------------------------
(***************************************************************************)
(* The inductive invariant behind the safety properties of SendReservation,*)
(* in three layers:                                                        *)
(*   - Lifecycle: how the state of one proposal (rows, memory, outbox and  *)
(*     the call that works on it) hangs together;                          *)
(*   - Recoverable: every send lock has its recovery rows;                 *)
(*   - Exclusive: who holds an output, given that a release which fails    *)
(*     fails before its wallet unlock (StorageFaults = FALSE).             *)
(***************************************************************************)
EXTENDS SendReservation

\* Stages of store_and_broadcast_pczts_inner and of the code around it.
Sending == {"bcTip", "mark", "send", "wait", "accepted", "unknown"}
Recording == {"recBroadcasted", "recStorageFailed", "recUnknown",
              "recExpired", "recRejected", "recRetry"}

\* The transaction of o has not expired by the wallet's rule.
Unexpired(o) == tip + 1 < txExp[o]

\* A lock owner that no proposal has drawn yet.
Fresh(o) ==
    /\ txExp[o] = 0 /\ phase[o] = "none"
    /\ o \notin props /\ o \notin locks
    /\ call[o] = "idle"

\* No transaction has been built: nothing can be on the wire.
Unbuilt(o) ==
    /\ wire[o] = "no" /\ ~stored[o] /\ outbox[o] = "none"
    /\ o \notin held
    /\ phase[o] \in {"none", "session"}

\* What each stage of a call implies.
StageOK(o) ==
    /\ call[o] \in {"tip", "create"} => txExp[o] = 0
    /\ call[o] = "create" => live[o] # 0
    /\ call[o] = "release" =>
          /\ wire[o] = "no" /\ ~stored[o]
          /\ txExp[o] = 0 \/ o \in Keystone
    /\ call[o] \in {"finish", "finishRow", "created"} => stored[o]
    /\ call[o] = "retain" => txExp[o] # 0 /\ phase[o] # "session"
    /\ call[o] \in Sending =>
          /\ txExp[o] # 0
          /\ o \in Keystone \/ (o \in Ledger /\ outbox[o] = "pending")
    /\ call[o] \in Recording => o \in Ledger /\ outbox[o] = "pending"
    /\ call[o] \in Sending /\ o \in Keystone =>
          /\ ~stored[o]
          /\ phase[o] = "session" => call[o] \in {"bcTip", "mark"}
    /\ call[o] \in {"bcTip", "mark"} /\ o \in Keystone =>
          wire[o] = "no" /\ phase[o] \in {"session", "none"}
    /\ call[o] \in {"wait", "accepted", "unknown"} => wire[o] # "no"
    /\ call[o] = "recBroadcasted" => stored[o]
    /\ call[o] = "recExpired" => tip >= txExp[o]
    /\ call[o] = "recRejected" => wire[o] = "no" \/ stored[o]

\* A PCZT the app still holds has not been sent, and unless the exit gate
\* closed, its unlock capability goes with its rows.
HeldOK(o) ==
    o \in held =>
        /\ txExp[o] # 0 /\ wire[o] = "no" /\ ~stored[o] /\ outbox[o] = "none"
        /\ call[o] = "idle"
        /\ phase[o] \in {"session", "none"}
        /\ phase[o] = "session" /\ ~gate => o \in locks

RowsOK(o) ==
    /\ phase[o] \in {"signed", "release"} => o \in Ledger
    /\ phase[o] = "legacy" => o \notin locks
    /\ phase[o] # "none" /\ txExp[o] # 0 => rowExp[o] = txExp[o]
    /\ o \in locks => ~old[o]
    /\ o \in locks /\ o \in Ledger /\ phase[o] = "session" /\ txExp[o] # 0 =>
          o \in held
    /\ ~boot /\ old[o] => phase[o] # "session"

OwnerOK(o) ==
    /\ inputs[o] = {} => Fresh(o)
    /\ txExp[o] = 0 => Unbuilt(o)
    /\ o \in props => txExp[o] = 0 /\ call[o] = "idle"
    /\ outbox[o] = "pending" => o \in Ledger
    /\ StageOK(o) /\ HeldOK(o) /\ RowsOK(o)

Lifecycle == \A o \in Owners : OwnerOK(o)

\* A stored transaction has cleared its own locks by the time its rows go.
FinishedUnlocked ==
    \A o \in Owners :
        call[o] \in {"finish", "finishRow"} => \A n \in Outputs : lockOf[n] # o

Recoverable == LocksAreRecoverable /\ FinishedUnlocked

\* The rows promise restarts to keep the inputs of what may be on the wire.
RowsRetain(o) ==
    ~stored[o] /\ Unexpired(o) =>
        /\ wire[o] # "no" => Retained(phase[o])
        /\ outbox[o] = "pending" => phase[o] = "signed"
        /\ call[o] = "send" => phase[o] \in {"signed", "broadcast"}

\* The reservation is still the one the transaction of o was built under.
Reserving(o) ==
    \/ wire[o] # "no"
    \/ phase[o] = "signed"
    \/ call[o] = "send"
    \/ phase[o] = "session" /\ o \in locks /\ ~gate

Holds(o) ==
    ~stored[o] /\ Unexpired(o) /\ Reserving(o) =>
        \A n \in inputs[o] : lockOf[n] = o /\ lockExp[n] = txExp[o]

\* The inputs of a stored transaction are spent: nobody locks them.
SpentUnlocked(o) ==
    stored[o] /\ Unexpired(o) => \A n \in inputs[o] : lockOf[n] = NoOwner

StoredDisjoint ==
    \A o, p \in Owners :
        /\ o # p
        /\ stored[o] /\ Unexpired(o)
        /\ stored[p] /\ Unexpired(p)
        => inputs[o] \cap inputs[p] = {}

Exclusive ==
    /\ \A o \in Owners : RowsRetain(o) /\ Holds(o) /\ SpentUnlocked(o)
    /\ StoredDisjoint

\* Lifecycle and Recoverable hold whatever fails; Exclusive needs releases
\* that do not stop after their wallet unlock.
Inductive ==
    /\ Lifecycle /\ Recoverable
    /\ ~StorageFaults => Exclusive
-----------------------------------------------------------------------------
(***************************************************************************)
(* The parts of the liveness properties that need no fairness.             *)
(***************************************************************************)

\* An earlier process left rows of o that a sync run at the chain's tip may
\* release.
Reclaimable(o) ==
    /\ old[o] /\ phase[o] # "none"
    /\ Retained(phase[o]) => tip + 1 >= rowExp[o]

\* The process that asked for the approval of o is gone and the next one has
\* not opened the database yet.
Orphan(o) == boot /\ phase[o] = "session"

Reclaimed(o) == phase[o] = "none" /\ \A n \in Outputs : lockOf[n] # o

\* A new process does nothing before ensure_db_migrated_once has returned.
BootClean ==
    boot => /\ props = {} /\ locks = {} /\ cancel = {} /\ held = {}
            /\ ~gate /\ sync = "idle"
            /\ \A o \in Owners : call[o] = "idle" /\ old[o]
=============================================================================
