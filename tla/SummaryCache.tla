---------------------------- MODULE SummaryCache ----------------------------
(***************************************************************************)
(* The process-wide cache of wallet summaries and the write epoch that     *)
(* invalidates it: rust/src/wallet/wallet_summary_cache.rs and the write   *)
(* lock of rust/src/wallet/db.rs.                                          *)
(*                                                                         *)
(* Readers never take the write lock.  They share one slot per database,   *)
(* whose mutex they hold through a load, and trust what they find in it    *)
(* only while the epoch is even and the one of its publication.            *)
(*                                                                         *)
(* Simplifications.  A database is used with one network, so a cache key   *)
(* is a database.  A summary is the number of commits it reflects: the     *)
(* load is one SQLite snapshot (get_wallet_summary runs in a transaction). *)
(* Every write goes through the write lock.  Atomics are sequentially      *)
(* consistent and the epoch does not wrap.                                 *)
(***************************************************************************)
EXTENDS Naturals

CONSTANTS
    Readers,     \* threads that ask for summaries
    Dbs,         \* database paths
    NoDb,        \* the write lock is free
    NoEntry,     \* an empty slot
    NoValue,     \* no summary
    MaxCommits,  \* bound: commits per database
    MaxEpoch,    \* bound: last value of the write epoch
    MaxSlots     \* bound: slots that a behaviour allocates

Slots == 1..MaxSlots
Entries == [epoch : Nat, value : Nat]

ASSUME CacheAssumption ==
    /\ NoDb \notin Dbs /\ NoEntry \notin Entries /\ NoValue \notin Nat
    /\ MaxCommits \in Nat /\ MaxEpoch \in Nat /\ MaxSlots \in Nat

VARIABLES
    version,   \* committed state of a database
    file,      \* what is at its path
    evicted,   \* deleted databases whose cache entry was evicted
    epoch,     \* WALLET_DB_WRITE_EPOCH
    writer,    \* database of the section that holds WALLET_DB_WRITE_LOCK
    map,       \* slot of a database in entry_map, 0 without one
    used,      \* slots allocated so far
    slotDb,    \* database a slot was made for
    cached,    \* content of a slot
    pc,        \* where the call of a reader stands
    db, slot,  \* its database and its slot
    before,    \* epoch_before
    val,       \* the summary it loaded
    since,     \* history: version of the database when the call began
    late       \* history: the call began after the eviction of a deleted one

data == <<version, file, evicted>>
lock == <<epoch, writer>>
table == <<map, used, slotDb>>
history == <<since, late>>
vars == <<version, file, evicted, epoch, writer, map, used, slotDb, cached,
          pc, db, slot, before, val, since, late>>

\* Stages in which a reader holds the mutex of its slot.
Inside == {"check", "exists", "before", "load", "after"}

TypeOK ==
    /\ version \in [Dbs -> Nat]
    /\ file \in [Dbs -> {"wallet", "absent", "empty"}]
    /\ evicted \in SUBSET Dbs
    /\ epoch \in Nat /\ writer \in Dbs \cup {NoDb}
    /\ map \in [Dbs -> Slots \cup {0}] /\ used \in 0..MaxSlots
    /\ slotDb \in [Slots -> Dbs]
    /\ cached \in [Slots -> Entries \cup {NoEntry}]
    /\ pc \in [Readers -> {"idle", "lock", "failed", "done"} \cup Inside]
    /\ db \in [Readers -> Dbs]
    /\ slot \in [Readers -> Slots \cup {0}]
    /\ before \in [Readers -> Nat]
    /\ val \in [Readers -> Nat]
    /\ since \in [Readers -> Nat]
    /\ late \in SUBSET Readers

Even(n) == n % 2 = 0

Init ==
    /\ version = [d \in Dbs |-> 0]
    /\ file = [d \in Dbs |-> "wallet"]
    /\ evicted = {}
    /\ epoch = 0 /\ writer = NoDb
    /\ map = [d \in Dbs |-> 0] /\ used = 0
    /\ slotDb \in [Slots -> Dbs]
    /\ cached = [s \in Slots |-> NoEntry]
    /\ pc = [r \in Readers |-> "idle"]
    /\ db \in [Readers -> Dbs]
    /\ slot = [r \in Readers |-> 0]
    /\ before = [r \in Readers |-> 0]
    /\ val = [r \in Readers |-> 0]
    /\ since = [r \in Readers |-> 0]
    /\ late = {}
-----------------------------------------------------------------------------
(***************************************************************************)
(* Writers.                                                                *)
(***************************************************************************)

readerState == <<pc, db, slot, before, val>>

\* with_wallet_db_write_lock, entering run_wallet_db_write: the epoch is odd.
WriteBegin(d) ==
    /\ writer = NoDb /\ epoch < MaxEpoch
    /\ writer' = d
    /\ epoch' = epoch + 1
    /\ UNCHANGED <<data, table, cached, readerState, history>>

\* A SQLite commit inside the section, which may make several or none.
Commit(d) ==
    /\ writer = d /\ file[d] = "wallet" /\ version[d] < MaxCommits
    /\ version' = [version EXCEPT ![d] = @ + 1]
    /\ UNCHANGED <<file, evicted, lock, table, cached, readerState, history>>

\* Mutant: the end of the section restores the epoch.
WriteEndRestoresEpoch ==
    /\ writer # NoDb
    /\ writer' = NoDb
    /\ epoch' = epoch - 1
    /\ UNCHANGED <<data, table, cached, readerState, history>>

\* WriteEpochGuard::drop, also on a panic, then the guard of the mutex.
WriteEnd ==
    /\ writer # NoDb
    /\ writer' = NoDb
    /\ epoch' = epoch + 1
    /\ UNCHANGED <<data, table, cached, readerState, history>>

\* The app deletes the file of a wallet it resets.
DeleteFile(d) ==
    /\ file[d] = "wallet" /\ writer # d
    /\ file' = [file EXCEPT ![d] = "absent"]
    /\ UNCHANGED <<version, evicted, lock, table, cached, readerState, history>>

\* Mutant: a slot that a reader has locked stays in the map.
EvictSkipsBusySlot(d) ==
    /\ writer = d \/ file[d] # "wallet"
    /\ map' = [map EXCEPT ![d] =
                 IF \E r \in Readers : slot[r] = @ /\ pc[r] \in Inside THEN @ ELSE 0]
    /\ evicted' = IF file[d] = "wallet" THEN evicted ELSE evicted \cup {d}
    /\ UNCHANGED <<version, file, lock, used, slotDb, cached, readerState, history>>

\* evict_db: at the end of delete_account, and after a wallet reset.
Evict(d) ==
    /\ writer = d \/ file[d] # "wallet"
    /\ map' = [map EXCEPT ![d] = 0]
    /\ evicted' = IF file[d] = "wallet" THEN evicted ELSE evicted \cup {d}
    /\ UNCHANGED <<version, file, lock, used, slotDb, cached, readerState, history>>
-----------------------------------------------------------------------------
(***************************************************************************)
(* Readers: get_or_load_with_epoch.                                        *)
(***************************************************************************)

Goto(r, stage) == pc' = [pc EXCEPT ![r] = stage]
SetSlot(r, c) == cached' = [cached EXCEPT ![slot[r]] = c]

\* slot_for, under the mutex of the map.
Call(r, d) ==
    /\ pc[r] = "idle"
    /\ \/ map[d] # 0 /\ UNCHANGED table
       \/ /\ map[d] = 0 /\ used < MaxSlots
          /\ used' = used + 1
          /\ map' = [map EXCEPT ![d] = used + 1]
          /\ slotDb' = [slotDb EXCEPT ![used + 1] = d]
    /\ slot' = [slot EXCEPT ![r] = map'[d]]
    /\ db' = [db EXCEPT ![r] = d]
    /\ since' = [since EXCEPT ![r] = version[d]]
    /\ late' = IF d \in evicted THEN late \cup {r} ELSE late \ {r}
    /\ Goto(r, "lock")
    /\ UNCHANGED <<data, lock, cached, before, val>>

\* slot.lock()
Lock(r) ==
    /\ pc[r] = "lock"
    /\ \A q \in Readers : slot[q] = slot[r] => pc[q] \notin Inside
    /\ Goto(r, "check")
    /\ UNCHANGED <<data, lock, table, cached, db, slot, before, val, history>>

\* Mutant: an entry counts while no write is in progress.
TrustedWhenIdle(c) == c # NoEntry /\ Even(epoch)

\* The entry is of the current epoch and no write is in progress.
Trusted(c) == c # NoEntry /\ c.epoch = epoch /\ Even(epoch)

\* The first condition of a hit; a slot that fails it is emptied.
Check(r) ==
    /\ pc[r] = "check"
    /\ \/ /\ Trusted(cached[slot[r]])
          /\ Goto(r, "exists") /\ UNCHANGED cached
       \/ /\ ~Trusted(cached[slot[r]])
          /\ SetSlot(r, NoEntry) /\ Goto(r, "before")
    /\ UNCHANGED <<data, lock, table, db, slot, before, val, history>>

\* The second: Path::exists.  The hit returns the summary of the slot.
Exists(r) ==
    /\ pc[r] = "exists"
    /\ \/ /\ file[db[r]] # "absent"
          /\ val' = [val EXCEPT ![r] = cached[slot[r]].value]
          /\ Goto(r, "done") /\ UNCHANGED cached
       \/ /\ file[db[r]] = "absent"
          /\ SetSlot(r, NoEntry) /\ Goto(r, "before") /\ UNCHANGED val
    /\ UNCHANGED <<data, lock, table, db, slot, before, history>>

ReadBefore(r) ==
    /\ pc[r] = "before"
    /\ before' = [before EXCEPT ![r] = epoch]
    /\ Goto(r, "load")
    /\ UNCHANGED <<data, lock, table, cached, db, slot, val, history>>

\* loader(): one snapshot of the database.
Load(r) ==
    /\ pc[r] = "load" /\ file[db[r]] = "wallet"
    /\ val' = [val EXCEPT ![r] = version[db[r]]]
    /\ Goto(r, "after")
    /\ UNCHANGED <<data, lock, table, cached, db, slot, before, history>>

\* Mutant: the failed load is published.
LoadFailsAndPublishes(r) ==
    /\ pc[r] = "load"
    /\ SetSlot(r, [epoch |-> before[r], value |-> NoValue])
    /\ Goto(r, "failed")
    /\ UNCHANGED <<data, lock, table, db, slot, before, val, history>>

\* The loader fails: SQLite is busy, or opening the path of a deleted wallet
\* has made an empty database.
LoadFails(r) ==
    /\ pc[r] = "load"
    /\ file' = [file EXCEPT ![db[r]] = IF @ = "absent" THEN "empty" ELSE @]
    /\ SetSlot(r, NoEntry)
    /\ Goto(r, "failed")
    /\ UNCHANGED <<version, evicted, lock, table, db, slot, before, val, history>>

\* Mutant: the result is published under the epoch after the load.
PublishUnderLaterEpoch(r) ==
    /\ pc[r] = "after"
    /\ SetSlot(r, IF Even(epoch) THEN [epoch |-> epoch, value |-> val[r]]
                  ELSE NoEntry)
    /\ Goto(r, "done")
    /\ UNCHANGED <<data, lock, table, db, slot, before, val, history>>

\* epoch_after: the result is published only if no write overlapped the load.
Publish(r) ==
    /\ pc[r] = "after"
    /\ SetSlot(r, IF before[r] = epoch /\ Even(epoch)
                  THEN [epoch |-> epoch, value |-> val[r]] ELSE NoEntry)
    /\ Goto(r, "done")
    /\ UNCHANGED <<data, lock, table, db, slot, before, val, history>>

\* The call returns its summary or its error, and its locals are gone.
Return(r) ==
    /\ pc[r] \in {"done", "failed"}
    /\ slot' = [slot EXCEPT ![r] = 0]
    /\ before' = [before EXCEPT ![r] = 0]
    /\ val' = [val EXCEPT ![r] = 0]
    /\ since' = [since EXCEPT ![r] = 0]
    /\ late' = late \ {r}
    /\ Goto(r, "idle")
    /\ UNCHANGED <<data, lock, table, cached, db>>

ReaderStep(r) ==
    \/ Lock(r) \/ Check(r) \/ Exists(r) \/ ReadBefore(r) \/ Load(r)
    \/ LoadFails(r) \/ Publish(r) \/ Return(r)

Next ==
    \/ WriteEnd
    \/ \E d \in Dbs :
          WriteBegin(d) \/ Commit(d) \/ DeleteFile(d) \/ Evict(d)
    \/ \E r \in Readers : ReaderStep(r) \/ \E d \in Dbs : Call(r, d)

Spec == Init /\ [][Next]_vars
-----------------------------------------------------------------------------
(***************************************************************************)
(* Properties.                                                             *)
(***************************************************************************)

\* Whatever slot a reader holds, evicted ones included, an entry it would
\* trust is the committed state of the database: no load that a write
\* overlapped is ever served later.
TrustedIsCurrent ==
    \A s \in Slots : Trusted(cached[s]) => cached[s].value = version[slotDb[s]]

\* A call never answers with a state older than the one committed when it
\* began: the app that awaits a write and then asks for the balance sees it.
ReadsOwnWrites ==
    \A r \in Readers : pc[r] = "done" => val[r] \in since[r]..version[db[r]]

\* After a wallet was deleted and evicted its balances are not served again,
\* although a load that is still running may publish them, and although a
\* failed load leaves a file at the path.
DeletedNotServed ==
    \A r \in Readers : r \in late => pc[r] # "done"

(***************************************************************************)
(* The cache implements SummaryRegister.  The answer of a hit is decided   *)
(* when the epoch is checked, the answer of a load when it takes its       *)
(* snapshot.                                                               *)
(***************************************************************************)
callBar == [r \in Readers |->
    CASE pc[r] = "idle" -> "idle"
      [] pc[r] \in {"exists", "after", "done"} -> "read"
      [] OTHER -> "called"]
answerBar == [r \in Readers |->
    CASE pc[r] = "exists" -> cached[slot[r]].value
      [] pc[r] \in {"after", "done"} -> val[r]
      [] OTHER -> NoValue]

Register == INSTANCE SummaryRegister WITH call <- callBar, answer <- answerBar

\* Every call answers with the state of one instant between its start and its
\* return, as if there were no cache.
Linearizable == Register!Spec
=============================================================================
