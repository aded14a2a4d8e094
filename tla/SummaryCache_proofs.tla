------------------------ MODULE SummaryCache_proofs ------------------------
(***************************************************************************)
(* Proofs about SummaryCache, for every number of readers, databases,      *)
(* commits and evictions.  Inv is inductive:                               *)
(*   - Parity ties the epoch to the write lock;                            *)
(*   - SlotsOK and Mutex say that slots are never shared between databases *)
(*     or readers that are inside;                                         *)
(*   - EntryOK and LoadOK are the seqlock argument: as long as the epoch   *)
(*     has not moved since it was read and is even, nobody has committed;  *)
(*   - AnswerOK bounds what a call will answer;                            *)
(*   - DeadOK follows the slots that were made after an eviction.          *)
(***************************************************************************)
EXTENDS SummaryCache, TLAPS

Parity == writer = NoDb <=> Even(epoch)

SlotsOK ==
    /\ \A d \in Dbs : map[d] # 0 => map[d] <= used /\ slotDb[map[d]] = d
    /\ \A r \in Readers :
          /\ pc[r] # "idle" => slot[r] \in 1..used /\ slotDb[slot[r]] = db[r]
          /\ slot[r] <= used
    /\ \A s \in Slots : s > used => cached[s] = NoEntry

Mutex ==
    \A r, q \in Readers :
        r # q /\ slot[r] = slot[q] /\ pc[r] \in Inside => pc[q] \notin Inside

EntryOK ==
    \A s \in Slots : cached[s] # NoEntry =>
        /\ cached[s].epoch <= epoch /\ Even(cached[s].epoch)
        /\ cached[s].epoch = epoch => cached[s].value = version[slotDb[s]]

LoadOK ==
    \A r \in Readers :
        /\ pc[r] \in {"load", "after"} => before[r] <= epoch
        /\ pc[r] = "after" /\ before[r] = epoch /\ Even(epoch) =>
              val[r] = version[db[r]]

AnswerOK ==
    \A r \in Readers :
        /\ pc[r] # "idle" => since[r] <= version[db[r]]
        /\ pc[r] \in {"after", "done"} => val[r] \in since[r]..version[db[r]]
        /\ pc[r] = "exists" =>
              /\ cached[slot[r]] # NoEntry
              /\ cached[slot[r]].value \in since[r]..version[db[r]]

\* Nothing is in slot s of the table c, and no reader of it has an answer.
DeadIn(c, holds, stage, s) ==
    /\ c[s] = NoEntry
    /\ \A q \in Readers :
          holds[q] = s => stage[q] \notin {"exists", "after", "done"}

Dead(s) == DeadIn(cached, slot, pc, s)

DeadOK ==
    /\ \A d \in evicted : /\ file[d] # "wallet"
                          /\ map[d] # 0 => Dead(map[d])
    /\ \A r \in late : pc[r] # "idle" /\ db[r] \in evicted /\ Dead(slot[r])

Inv == Parity /\ SlotsOK /\ Mutex /\ EntryOK /\ LoadOK /\ AnswerOK /\ DeadOK

USE DEF data, lock, table, history, readerState
-----------------------------------------------------------------------------
\* The epoch alternates between even and odd.
LEMMA Alternates == \A n \in Nat : Even(n) <=> ~Even(n + 1)
  BY DEF Even

\* Init establishes the invariant: the cache is empty and nobody calls.
LEMMA InvInit == Init => TypeOK /\ Inv
<1> SUFFICES ASSUME Init PROVE TypeOK /\ Inv OBVIOUS
<1> USE CacheAssumption DEF Init, Slots
<1>1. TypeOK BY DEF TypeOK, Entries, Inside
<1>2. Parity BY DEF Parity, Even
<1>3. SlotsOK /\ Mutex BY <1>1 DEF SlotsOK, Mutex, Inside
<1>4. EntryOK /\ LoadOK /\ AnswerOK BY <1>1 DEF EntryOK, LoadOK, AnswerOK
<1>5. DeadOK BY DEF DeadOK
<1> QED BY <1>1, <1>2, <1>3, <1>4, <1>5 DEF Inv

\* The state keeps its shape under every step.
LEMMA TypeStep == TypeOK /\ Inv /\ [Next]_vars => TypeOK'
<1> SUFFICES ASSUME TypeOK, Inv, [Next]_vars PROVE TypeOK' OBVIOUS
<1> USE CacheAssumption DEF TypeOK, Slots, Inside, Entries, Goto, SetSlot
<1>1. CASE WriteEnd BY <1>1 DEF WriteEnd
<1>2. ASSUME NEW d \in Dbs,
             WriteBegin(d) \/ Commit(d) \/ DeleteFile(d) \/ Evict(d)
      PROVE  TypeOK'
  <2>1. CASE WriteBegin(d) BY <2>1 DEF WriteBegin
  <2>2. CASE Commit(d)
    <3>1. version' \in [Dbs -> Nat] BY <2>2 DEF Commit
    <3> QED BY <2>2, <3>1 DEF Commit
  <2>3. CASE DeleteFile(d) BY <2>3 DEF DeleteFile
  <2>4. CASE Evict(d) BY <2>4 DEF Evict
  <2> QED BY <1>2, <2>1, <2>2, <2>3, <2>4
<1>3. ASSUME NEW r \in Readers, NEW d \in Dbs, Call(r, d) PROVE TypeOK'
  <2>1. /\ map' \in [Dbs -> Slots \cup {0}] /\ used' \in 0..MaxSlots
        /\ slotDb' \in [Slots -> Dbs]
    <3>1. CASE UNCHANGED table BY <3>1
    <3>2. CASE /\ used < MaxSlots /\ used' = used + 1
               /\ map' = [map EXCEPT ![d] = used + 1]
               /\ slotDb' = [slotDb EXCEPT ![used + 1] = d]
      <4>1. used + 1 \in Slots BY <3>2
      <4> QED BY <3>2, <4>1
    <3> QED BY <1>3, <3>1, <3>2 DEF Call
  <2>2. /\ slot' \in [Readers -> Slots \cup {0}] /\ since' \in [Readers -> Nat]
        /\ late' \in SUBSET Readers
    BY <1>3, <2>1 DEF Call
  <2> QED BY <1>3, <2>1, <2>2 DEF Call
<1>4. ASSUME NEW r \in Readers, ReaderStep(r) PROVE TypeOK'
  <2>1. CASE Lock(r) BY <2>1 DEF Lock
  <2>2. CASE Check(r) BY <2>2 DEF Check
  <2>3. CASE Exists(r)
    <3>1. slot[r] \in Slots /\ cached[slot[r]] \in Entries
      BY <2>3 DEF Exists, Inv, AnswerOK, SlotsOK
    <3>2. cached[slot[r]].value \in Nat BY <3>1
    <3>3. val' \in [Readers -> Nat] BY <2>3, <3>2 DEF Exists
    <3> QED BY <2>3, <3>3 DEF Exists
  <2>4. CASE ReadBefore(r) BY <2>4 DEF ReadBefore
  <2>5. CASE Load(r) BY <2>5 DEF Load
  <2>6. CASE LoadFails(r) BY <2>6 DEF LoadFails
  <2>7. CASE Publish(r)
    <3>1. [epoch |-> epoch, value |-> val[r]] \in Entries OBVIOUS
    <3> QED BY <2>7, <3>1 DEF Publish
  <2>8. CASE Return(r) BY <2>8 DEF Return
  <2> QED
    BY <1>4, <2>1, <2>2, <2>3, <2>4, <2>5, <2>6, <2>7, <2>8 DEF ReaderStep
<1>5. CASE UNCHANGED vars BY <1>5 DEF vars
<1> QED BY <1>1, <1>2, <1>3, <1>4, <1>5 DEF Next
-----------------------------------------------------------------------------
\* Slots stay with their database, and their mutex with one reader.
LEMMA SlotsStep ==
  TypeOK /\ SlotsOK /\ Mutex /\ [Next]_vars => SlotsOK' /\ Mutex'
<1> SUFFICES ASSUME TypeOK, SlotsOK, Mutex, [Next]_vars PROVE SlotsOK' /\ Mutex'
  OBVIOUS
<1> USE CacheAssumption DEF TypeOK, Slots, Inside, SlotsOK, Mutex, Goto, SetSlot
<1>1. CASE WriteEnd BY <1>1 DEF WriteEnd
<1>2. ASSUME NEW d \in Dbs,
             WriteBegin(d) \/ Commit(d) \/ DeleteFile(d) \/ Evict(d)
      PROVE  SlotsOK' /\ Mutex'
  <2>1. CASE WriteBegin(d) BY <2>1 DEF WriteBegin
  <2>2. CASE Commit(d) BY <2>2 DEF Commit
  <2>3. CASE DeleteFile(d) BY <2>3 DEF DeleteFile
  <2>4. CASE Evict(d)
    <3>1. \A c \in Dbs : map'[c] # 0 => map'[c] = map[c] BY <2>4 DEF Evict
    <3> QED BY <2>4, <3>1 DEF Evict
  <2> QED BY <1>2, <2>1, <2>2, <2>3, <2>4
<1>3. ASSUME NEW r \in Readers, NEW d \in Dbs, Call(r, d)
      PROVE  SlotsOK' /\ Mutex'
  <2>1. CASE map[d] # 0 /\ UNCHANGED table
    BY <1>3, <2>1 DEF Call
  <2>2. CASE map[d] = 0 /\ used < MaxSlots
    <3>1. /\ used' = used + 1 /\ used + 1 \in Slots
          /\ map' = [map EXCEPT ![d] = used + 1]
          /\ slotDb' = [slotDb EXCEPT ![used + 1] = d]
          /\ slot' = [slot EXCEPT ![r] = used + 1]
          /\ db' = [db EXCEPT ![r] = d]
          /\ pc' = [pc EXCEPT ![r] = "lock"]
          /\ cached' = cached
      BY <1>3, <2>2 DEF Call
    <3>2. \A s \in Slots : s <= used => slotDb'[s] = slotDb[s] BY <3>1
    <3>3. \A c \in Dbs : map'[c] # 0 => map'[c] <= used' /\ slotDb'[map'[c]] = c
      BY <3>1, <3>2
    <3>4. \A q \in Readers : /\ pc'[q] # "idle" => slot'[q] \in 1..used'
                             /\ slot'[q] <= used'
      <4> TAKE q \in Readers
      <4>1. CASE q = r BY <3>1, <4>1
      <4>2. CASE q # r
        <5>1. pc'[q] = pc[q] /\ slot'[q] = slot[q] BY <3>1, <4>2
        <5> QED BY <3>1, <5>1
      <4> QED BY <4>1, <4>2
    <3>5. \A q \in Readers : pc'[q] # "idle" => slotDb'[slot'[q]] = db'[q]
      <4> TAKE q \in Readers
      <4> HAVE pc'[q] # "idle"
      <4>1. CASE q = r BY <3>1, <4>1
      <4>2. CASE q # r
        <5>1. pc[q] # "idle" /\ slot'[q] = slot[q] /\ db'[q] = db[q]
          BY <3>1, <4>2
        <5>2. slot[q] \in Slots /\ slot[q] <= used BY <5>1
        <5> QED BY <5>1, <5>2, <3>2
      <4> QED BY <4>1, <4>2
    <3>6. Mutex'
      <4>1. /\ pc'[r] \notin Inside
            /\ \A q \in Readers : q # r => pc'[q] = pc[q] /\ slot'[q] = slot[q]
        BY <3>1
      <4> QED BY <4>1
    <3>7. \A s \in Slots : s > used' => cached'[s] = NoEntry BY <3>1
    <3> QED BY <3>3, <3>4, <3>5, <3>6, <3>7
  <2> QED BY <1>3, <2>1, <2>2 DEF Call
<1>4. ASSUME NEW r \in Readers, ReaderStep(r) PROVE SlotsOK' /\ Mutex'
  \* Only the slot of a busy reader is written.
  <2>0. ASSUME NEW c, pc[r] # "idle", cached' = [cached EXCEPT ![slot[r]] = c]
        PROVE  \A s \in Slots : s > used => cached'[s] = NoEntry
    BY <2>0
  <2>1. CASE Lock(r) BY <2>1 DEF Lock
  <2>2. CASE Check(r)
    <3>1. \A s \in Slots : s > used => cached'[s] = NoEntry
      BY <2>0, <2>2 DEF Check
    <3>2. pc[r] = "check" /\ pc'[r] \in {"exists", "before"}
          /\ \A q \in Readers : q # r => pc'[q] = pc[q]
      BY <2>2 DEF Check
    <3> QED BY <2>2, <3>1, <3>2 DEF Check
  <2>3. CASE Exists(r)
    <3>1. \A s \in Slots : s > used => cached'[s] = NoEntry
      BY <2>0, <2>3 DEF Exists
    <3>2. pc[r] = "exists" /\ pc'[r] \in {"done", "before"}
          /\ \A q \in Readers : q # r => pc'[q] = pc[q]
      BY <2>3 DEF Exists
    <3> QED BY <2>3, <3>1, <3>2 DEF Exists
  <2>4. CASE ReadBefore(r) BY <2>4 DEF ReadBefore
  <2>5. CASE Load(r) BY <2>5 DEF Load
  <2>6. CASE LoadFails(r)
    <3>1. \A s \in Slots : s > used => cached'[s] = NoEntry
      BY <2>0, <2>6 DEF LoadFails
    <3> QED BY <2>6, <3>1 DEF LoadFails
  <2>7. CASE Publish(r)
    <3>1. \A s \in Slots : s > used => cached'[s] = NoEntry
      BY <2>0, <2>7 DEF Publish
    <3> QED BY <2>7, <3>1 DEF Publish
  <2>8. CASE Return(r) BY <2>8 DEF Return
  <2> QED
    BY <1>4, <2>1, <2>2, <2>3, <2>4, <2>5, <2>6, <2>7, <2>8 DEF ReaderStep
<1>5. CASE UNCHANGED vars BY <1>5 DEF vars
<1> QED BY <1>1, <1>2, <1>3, <1>4, <1>5 DEF Next

\* A reader that is inside writes one slot, which no other reader inside uses.
LEMMA SlotWritten ==
  ASSUME TypeOK, SlotsOK, Mutex, NEW r \in Readers, pc[r] \in Inside, NEW c,
         cached' = [cached EXCEPT ![slot[r]] = c]
  PROVE  /\ slot[r] \in Slots /\ slotDb[slot[r]] = db[r]
         /\ cached'[slot[r]] = c
         /\ \A s \in Slots : s # slot[r] => cached'[s] = cached[s]
         /\ \A q \in Readers : q # r /\ pc[q] = "exists" =>
               slot[q] \in Slots /\ cached'[slot[q]] = cached[slot[q]]
<1> USE CacheAssumption DEF TypeOK, Slots, Inside, SlotsOK
<1>1. slot[r] \in Slots /\ slotDb[slot[r]] = db[r] OBVIOUS
<1>2. \A q \in Readers : q # r /\ pc[q] = "exists" =>
         slot[q] \in Slots /\ slot[q] # slot[r]
  <2> SUFFICES ASSUME NEW q \in Readers, q # r, pc[q] = "exists"
               PROVE  slot[q] \in Slots /\ slot[q] # slot[r]
    OBVIOUS
  <2>1. slot[q] \in Slots OBVIOUS
  <2>2. slot[q] # slot[r] BY DEF Mutex
  <2> QED BY <2>1, <2>2
<1>3. /\ cached'[slot[r]] = c
      /\ \A s \in Slots : s # slot[r] => cached'[s] = cached[s]
  BY <1>1
<1> QED BY <1>1, <1>2, <1>3

\* A reader that empties its slot and answers nothing disturbs nobody.
LEMMA SlotCleared ==
  ASSUME TypeOK, SlotsOK, Mutex, EntryOK, LoadOK, AnswerOK,
         NEW r \in Readers, pc[r] \in Inside,
         cached' = [cached EXCEPT ![slot[r]] = NoEntry],
         NEW stage \in {"before", "failed"}, pc' = [pc EXCEPT ![r] = stage],
         UNCHANGED <<version, epoch, slotDb, db, slot, before, val, since>>
  PROVE  EntryOK' /\ LoadOK' /\ AnswerOK'
<1>1. /\ cached'[slot[r]] = NoEntry
      /\ \A s \in Slots : s # slot[r] => cached'[s] = cached[s]
      /\ \A q \in Readers : q # r /\ pc[q] = "exists" =>
            cached'[slot[q]] = cached[slot[q]]
  BY SlotWritten
<1>2. \A s \in Slots : cached'[s] # NoEntry => cached'[s] = cached[s] BY <1>1
<1>3. \A q \in Readers : /\ q # r => pc'[q] = pc[q]
                         /\ q = r => pc'[q] = stage
  BY DEF TypeOK
<1>4. EntryOK' BY <1>2 DEF EntryOK
<1>5. LoadOK' BY <1>3 DEF LoadOK
<1>6. AnswerOK'
  <2> SUFFICES ASSUME NEW q \in Readers
               PROVE  /\ pc'[q] # "idle" => since[q] <= version[db[q]]
                      /\ pc'[q] \in {"after", "done"} =>
                            val[q] \in since[q]..version[db[q]]
                      /\ pc'[q] = "exists" =>
                            /\ cached'[slot[q]] # NoEntry
                            /\ cached'[slot[q]].value \in since[q]..version[db[q]]
    BY DEF AnswerOK
  <2>1. CASE q = r BY <2>1, <1>3 DEF AnswerOK, Inside
  <2>2. CASE q # r BY <2>2, <1>1, <1>3 DEF AnswerOK
  <2> QED BY <2>1, <2>2
<1> QED BY <1>4, <1>5, <1>6

\* The seqlock argument, and the bounds it gives for answers.
LEMMA EpochStep ==
  TypeOK /\ Inv /\ [Next]_vars => (Parity /\ EntryOK /\ LoadOK /\ AnswerOK)'
<1> DEFINE G == Parity /\ EntryOK /\ LoadOK /\ AnswerOK
<1> SUFFICES ASSUME TypeOK, Inv, [Next]_vars PROVE G' OBVIOUS
<1>A. Even(epoch) <=> ~Even(epoch + 1) BY Alternates DEF TypeOK
<1>I. SlotsOK /\ Mutex /\ Parity /\ EntryOK /\ LoadOK /\ AnswerOK BY DEF Inv
<1> USE CacheAssumption DEF TypeOK, Slots, Inside, Goto, SetSlot
<1>1. CASE WriteEnd
  <2>1. /\ writer # NoDb /\ writer' = NoDb /\ epoch' = epoch + 1
        /\ UNCHANGED <<version, slotDb, cached, pc, db, slot, before, val, since>>
    BY <1>1 DEF WriteEnd
  <2>2. Parity' /\ ~Even(epoch) BY <2>1, <1>A, <1>I DEF Parity
  <2>3. EntryOK' BY <2>1, <2>2, <1>I DEF EntryOK, Entries
  <2>4. LoadOK' BY <2>1, <2>2, <1>I DEF LoadOK
  <2>5. AnswerOK' BY <2>1, <1>I DEF AnswerOK
  <2> QED BY <2>2, <2>3, <2>4, <2>5
<1>2. ASSUME NEW d \in Dbs,
             WriteBegin(d) \/ Commit(d) \/ DeleteFile(d) \/ Evict(d)
      PROVE  G'
  <2>1. CASE WriteBegin(d)
    <3>1. /\ writer = NoDb /\ writer' = d /\ epoch' = epoch + 1
          /\ UNCHANGED <<version, slotDb, cached, pc, db, slot, before, val, since>>
      BY <2>1 DEF WriteBegin
    <3>2. Parity' /\ ~Even(epoch') BY <3>1, <1>A, <1>I DEF Parity
    <3>3. EntryOK' BY <3>1, <3>2, <1>I DEF EntryOK, Entries
    <3>4. LoadOK' BY <3>1, <3>2, <1>I DEF LoadOK
    <3>5. AnswerOK' BY <3>1, <1>I DEF AnswerOK
    <3> QED BY <3>2, <3>3, <3>4, <3>5
  <2>2. CASE Commit(d)
    <3>1. /\ writer # NoDb
          /\ version' \in [Dbs -> Nat]
          /\ \A c \in Dbs : version[c] <= version'[c]
          /\ UNCHANGED <<epoch, writer, slotDb, cached, pc, db, slot, before, val,
                         since>>
      BY <2>2 DEF Commit
    <3>2. ~Even(epoch) /\ Parity' BY <3>1, <1>I DEF Parity
    <3>3. EntryOK' BY <3>1, <3>2, <1>I DEF EntryOK
    <3>4. LoadOK' BY <3>1, <3>2, <1>I DEF LoadOK
    <3>5. AnswerOK'
      <4> SUFFICES ASSUME NEW q \in Readers
                   PROVE  /\ pc[q] # "idle" => since[q] <= version'[db[q]]
                          /\ pc[q] \in {"after", "done"} =>
                                val[q] \in since[q]..version'[db[q]]
                          /\ pc[q] = "exists" =>
                                /\ cached[slot[q]] # NoEntry
                                /\ cached[slot[q]].value \in since[q]..version'[db[q]]
        BY <3>1 DEF AnswerOK
      <4>1. /\ db[q] \in Dbs /\ version[db[q]] <= version'[db[q]]
            /\ version[db[q]] \in Nat /\ version'[db[q]] \in Nat /\ since[q] \in Nat
        BY <3>1
      <4> QED BY <4>1, <1>I DEF AnswerOK
    <3> QED BY <3>2, <3>3, <3>4, <3>5
  <2>3. CASE DeleteFile(d)
    BY <2>3, <1>I DEF DeleteFile, Parity, EntryOK, LoadOK, AnswerOK
  <2>4. CASE Evict(d)
    BY <2>4, <1>I DEF Evict, Parity, EntryOK, LoadOK, AnswerOK
  <2> QED BY <1>2, <2>1, <2>2, <2>3, <2>4
<1>3. ASSUME NEW r \in Readers, NEW d \in Dbs, Call(r, d) PROVE G'
  <2>1. \A s \in Slots : cached[s] # NoEntry => slotDb'[s] = slotDb[s]
    BY <1>3, <1>I DEF Call, SlotsOK
  <2>2. /\ UNCHANGED <<version, epoch, writer, cached, before, val>>
        /\ pc'[r] = "lock" /\ db'[r] = d /\ since'[r] = version[d]
        /\ \A q \in Readers : q # r =>
              /\ pc'[q] = pc[q] /\ db'[q] = db[q] /\ slot'[q] = slot[q]
              /\ since'[q] = since[q]
    BY <1>3 DEF Call
  <2>3. Parity' BY <2>2, <1>I DEF Parity
  <2>4. EntryOK' BY <2>1, <2>2, <1>I DEF EntryOK
  <2>5. LoadOK' BY <2>2, <1>I DEF LoadOK
  <2>6. AnswerOK'
    <3> SUFFICES ASSUME NEW q \in Readers
                 PROVE  /\ pc'[q] # "idle" => since'[q] <= version[db'[q]]
                        /\ pc'[q] \in {"after", "done"} =>
                              val[q] \in since'[q]..version[db'[q]]
                        /\ pc'[q] = "exists" =>
                              /\ cached[slot'[q]] # NoEntry
                              /\ cached[slot'[q]].value \in since'[q]..version[db'[q]]
      BY <2>2 DEF AnswerOK
    <3>1. CASE q = r BY <2>2, <3>1
    <3>2. CASE q # r BY <2>2, <3>2, <1>I DEF AnswerOK
    <3> QED BY <3>1, <3>2
  <2> QED BY <2>3, <2>4, <2>5, <2>6
<1>4. ASSUME NEW r \in Readers, ReaderStep(r) PROVE G'
  <2>P. Parity' BY <1>4, <1>I DEF ReaderStep, Lock, Check, Exists, ReadBefore, Load,
                        LoadFails, Publish, Return, Parity
  <2>1. CASE Lock(r) BY <2>P, <2>1, <1>I DEF Lock, EntryOK, LoadOK, AnswerOK
  <2>2. CASE Check(r)
    <3>1. CASE Trusted(cached[slot[r]]) /\ Goto(r, "exists") /\ UNCHANGED cached
      <4>1. slot[r] \in Slots /\ slotDb[slot[r]] = db[r]
        BY <2>2, <1>I DEF Check, SlotsOK
      <4>2. cached[slot[r]] # NoEntry /\ cached[slot[r]].value = version[db[r]]
        BY <3>1, <4>1, <1>I DEF Trusted, EntryOK
      <4>3. since[r] <= version[db[r]] /\ version[db[r]] \in Nat /\ since[r] \in Nat
        BY <2>2, <1>I DEF Check, AnswerOK
      <4>4. /\ UNCHANGED <<version, epoch, slotDb, db, slot, before, val, since, cached>>
            /\ pc' = [pc EXCEPT ![r] = "exists"]
        BY <2>2, <3>1 DEF Check
      <4>5. EntryOK' BY <4>4, <1>I DEF EntryOK
      <4>6. LoadOK' BY <4>4, <1>I DEF LoadOK
      <4>7. AnswerOK' BY <4>4, <4>2, <4>3, <1>I DEF AnswerOK
      <4> QED BY <2>P, <4>5, <4>6, <4>7
    <3>2. CASE SetSlot(r, NoEntry) /\ Goto(r, "before")
      <4>1. /\ pc[r] \in Inside /\ cached' = [cached EXCEPT ![slot[r]] = NoEntry]
            /\ pc' = [pc EXCEPT ![r] = "before"]
            /\ UNCHANGED <<version, epoch, slotDb, db, slot, before, val, since>>
        BY <2>2, <3>2 DEF Check
      <4> QED BY <2>P, <4>1, <1>I, SlotCleared
    <3> QED BY <2>2, <3>1, <3>2 DEF Check
  <2>3. CASE Exists(r)
    <3>1. CASE /\ val' = [val EXCEPT ![r] = cached[slot[r]].value]
               /\ Goto(r, "done") /\ UNCHANGED cached
      <4>1. /\ pc[r] = "exists" /\ pc' = [pc EXCEPT ![r] = "done"]
            /\ UNCHANGED <<version, epoch, slotDb, db, slot, before, since, cached>>
        BY <2>3, <3>1 DEF Exists
      <4>2. EntryOK' BY <4>1, <1>I DEF EntryOK
      <4>3. LoadOK' BY <3>1, <4>1, <1>I DEF LoadOK
      <4>4. AnswerOK' BY <3>1, <4>1, <1>I DEF AnswerOK
      <4> QED BY <2>P, <4>2, <4>3, <4>4
    <3>2. CASE SetSlot(r, NoEntry) /\ Goto(r, "before") /\ UNCHANGED val
      <4>1. /\ pc[r] \in Inside /\ cached' = [cached EXCEPT ![slot[r]] = NoEntry]
            /\ pc' = [pc EXCEPT ![r] = "before"]
            /\ UNCHANGED <<version, epoch, slotDb, db, slot, before, val, since>>
        BY <2>3, <3>2 DEF Exists
      <4> QED BY <2>P, <4>1, <1>I, SlotCleared
    <3> QED BY <2>3, <3>1, <3>2 DEF Exists
  <2>4. CASE ReadBefore(r)
    BY <2>P, <2>4, <1>I DEF ReadBefore, EntryOK, LoadOK, AnswerOK
  <2>5. CASE Load(r)
    BY <2>P, <2>5, <1>I DEF Load, EntryOK, LoadOK, AnswerOK
  <2>6. CASE LoadFails(r)
    <3>1. /\ pc[r] \in Inside /\ cached' = [cached EXCEPT ![slot[r]] = NoEntry]
          /\ pc' = [pc EXCEPT ![r] = "failed"]
          /\ UNCHANGED <<version, epoch, slotDb, db, slot, before, val, since>>
      BY <2>6 DEF LoadFails
    <3> QED BY <2>P, <3>1, <1>I, SlotCleared
  <2>7. CASE Publish(r)
    <3> DEFINE c == IF before[r] = epoch /\ Even(epoch)
                    THEN [epoch |-> epoch, value |-> val[r]] ELSE NoEntry
    <3>1. /\ pc[r] = "after" /\ cached' = [cached EXCEPT ![slot[r]] = c]
          /\ pc' = [pc EXCEPT ![r] = "done"]
          /\ UNCHANGED <<version, epoch, slotDb, db, slot, before, val, since>>
      BY <2>7 DEF Publish
    <3>2. c # NoEntry => /\ c.epoch = epoch /\ Even(epoch)
                         /\ c.value = version[db[r]]
      BY <3>1, <1>I DEF LoadOK
    <3> HIDE DEF c
    <3>3. /\ slot[r] \in Slots /\ slotDb[slot[r]] = db[r]
          /\ cached'[slot[r]] = c
          /\ \A s \in Slots : s # slot[r] => cached'[s] = cached[s]
          /\ \A q \in Readers : q # r /\ pc[q] = "exists" =>
                cached'[slot[q]] = cached[slot[q]]
      <4>1. pc[r] \in Inside BY <3>1
      <4> QED BY <3>1, <4>1, <1>I, SlotWritten
    <3>4. EntryOK'
      <4> SUFFICES ASSUME NEW s \in Slots, cached'[s] # NoEntry
                   PROVE  /\ cached'[s].epoch <= epoch /\ Even(cached'[s].epoch)
                          /\ cached'[s].epoch = epoch =>
                                cached'[s].value = version[slotDb[s]]
        BY <3>1 DEF EntryOK
      <4>1. CASE s = slot[r] BY <3>2, <3>3, <4>1
      <4>2. CASE s # slot[r]
        <5>1. cached'[s] = cached[s] BY <3>3, <4>2
        <5> QED BY <5>1, <1>I DEF EntryOK
      <4> QED BY <4>1, <4>2
    <3>5. LoadOK' BY <3>1, <1>I DEF LoadOK
    <3>6. AnswerOK'
      <4> SUFFICES ASSUME NEW q \in Readers
                   PROVE  /\ pc'[q] # "idle" => since[q] <= version[db[q]]
                          /\ pc'[q] \in {"after", "done"} =>
                                val[q] \in since[q]..version[db[q]]
                          /\ pc'[q] = "exists" =>
                                /\ cached'[slot[q]] # NoEntry
                                /\ cached'[slot[q]].value \in since[q]..version[db[q]]
        BY <3>1 DEF AnswerOK
      <4>1. CASE q = r BY <3>1, <4>1, <1>I DEF AnswerOK
      <4>2. CASE q # r BY <3>1, <3>3, <4>2, <1>I DEF AnswerOK
      <4> QED BY <4>1, <4>2
    <3> QED BY <2>P, <3>4, <3>5, <3>6
  <2>8. CASE Return(r) BY <2>P, <2>8, <1>I DEF Return, EntryOK, LoadOK, AnswerOK
  <2> QED
    BY <1>4, <2>1, <2>2, <2>3, <2>4, <2>5, <2>6, <2>7, <2>8 DEF ReaderStep
<1>5. CASE UNCHANGED vars
  BY <1>5, <1>I DEF vars, Parity, EntryOK, LoadOK, AnswerOK
<1> QED BY <1>1, <1>2, <1>3, <1>4, <1>5 DEF Next

\* A slot made for a deleted database after its eviction stays empty.
LEMMA DeadStep == TypeOK /\ Inv /\ [Next]_vars => DeadOK'
<1> SUFFICES ASSUME TypeOK, Inv, [Next]_vars PROVE DeadOK' OBVIOUS
<1> DEFINE DeadNext(s) == DeadIn(cached', slot', pc', s)
<1> USE CacheAssumption DEF TypeOK, Slots, Inside, Goto, SetSlot, Dead
<1>S. SlotsOK /\ Mutex /\ DeadOK /\ SlotsOK' BY SlotsStep DEF Inv
<1>1. CASE WriteEnd BY <1>1, <1>S DEF WriteEnd, DeadOK, DeadIn
<1>2. ASSUME NEW d \in Dbs,
             WriteBegin(d) \/ Commit(d) \/ DeleteFile(d) \/ Evict(d)
      PROVE  DeadOK'
  <2>1. CASE WriteBegin(d) BY <2>1, <1>S DEF WriteBegin, DeadOK, DeadIn
  <2>2. CASE Commit(d) BY <2>2, <1>S DEF Commit, DeadOK, DeadIn
  <2>3. CASE DeleteFile(d) BY <2>3, <1>S DEF DeleteFile, DeadOK, DeadIn
  <2>4. CASE Evict(d)
    <3>1. \A c \in Dbs : map'[c] # 0 => c # d /\ map'[c] = map[c]
      BY <2>4 DEF Evict
    <3>2. \A s : Dead(s) => DeadNext(s) BY <2>4 DEF Evict, DeadIn
    <3>3. \A c \in evicted' : c \in Dbs /\ (c = d \/ c \in evicted)
      BY <2>4 DEF Evict
    <3>4. \A c \in evicted' : file'[c] # "wallet" BY <2>4, <1>S DEF Evict, DeadOK
    <3>5. \A c \in evicted' : map'[c] # 0 => DeadNext(map'[c])
      BY <3>1, <3>2, <3>3, <1>S DEF DeadOK
    <3>6. \A r \in late' : pc'[r] # "idle" /\ db'[r] \in evicted' /\ DeadNext(slot'[r])
      BY <2>4, <3>2, <1>S DEF Evict, DeadOK
    <3> QED BY <3>4, <3>5, <3>6 DEF DeadOK
  <2> QED BY <1>2, <2>1, <2>2, <2>3, <2>4
<1>3. ASSUME NEW r \in Readers, NEW d \in Dbs, Call(r, d) PROVE DeadOK'
  <2>1. \A s : Dead(s) => DeadNext(s) BY <1>3 DEF Call, DeadIn
  <2>2. d \in evicted => DeadNext(map'[d])
    <3>1. CASE map[d] # 0 /\ UNCHANGED table BY <2>1, <3>1, <1>S DEF DeadOK
    <3>2. CASE used < MaxSlots /\ map' = [map EXCEPT ![d] = used + 1]
      <4>1. map'[d] = used + 1 /\ used + 1 \in Slots BY <3>2
      <4>2. cached[used + 1] = NoEntry /\ \A q \in Readers : slot[q] # used + 1
        BY <4>1, <1>S DEF SlotsOK
      <4> QED BY <1>3, <4>1, <4>2 DEF Call, DeadIn
    <3> QED BY <1>3, <3>1, <3>2 DEF Call
  <2>3. \A c \in Dbs : c # d => map'[c] = map[c] BY <1>3 DEF Call
  <2>4. \A c \in evicted' : /\ file'[c] # "wallet"
                            /\ map'[c] # 0 => DeadNext(map'[c])
    BY <1>3, <2>1, <2>2, <2>3, <1>S DEF Call, DeadOK
  <2>5. \A q \in late' : pc'[q] # "idle" /\ db'[q] \in evicted' /\ DeadNext(slot'[q])
    <3> TAKE q \in late'
    <3>1. CASE q = r BY <1>3, <2>2, <3>1 DEF Call
    <3>2. CASE q # r BY <1>3, <2>1, <3>2, <1>S DEF Call, DeadOK
    <3> QED BY <3>1, <3>2
  <2> QED BY <2>4, <2>5 DEF DeadOK
<1>4. ASSUME NEW r \in Readers, ReaderStep(r) PROVE DeadOK'
  \* It is enough that the dead slots of evicted databases stay dead.
  <2>K. ASSUME \A s \in Slots : Dead(s) /\ slotDb[s] \in evicted => DeadNext(s),
               UNCHANGED <<evicted, map, slotDb, db, slot, late>>,
               \A d \in Dbs : file[d] # "wallet" => file'[d] # "wallet",
               \A q \in Readers : pc[q] # "idle" => pc'[q] # "idle"
        PROVE  DeadOK'
    <3>1. \A d \in evicted : map[d] # 0 =>
             map[d] \in Slots /\ slotDb[map[d]] \in evicted
      BY <1>S DEF SlotsOK
    <3>2. \A q \in late : /\ q \in Readers /\ slot[q] \in Slots
                          /\ slotDb[slot[q]] \in evicted
      BY <1>S DEF SlotsOK, DeadOK
    <3> QED BY <2>K, <3>1, <3>2, <1>S DEF DeadOK
  <2>1. CASE Lock(r)
    <3>1. \A s \in Slots : Dead(s) => DeadNext(s) BY <2>1 DEF Lock, DeadIn
    <3> QED BY <2>1, <2>K, <3>1 DEF Lock
  <2>2. CASE Check(r)
    <3>1. \A s \in Slots : Dead(s) => DeadNext(s)
      <4>1. CASE Trusted(cached[slot[r]]) /\ Goto(r, "exists") /\ UNCHANGED cached
        BY <2>2, <4>1 DEF Check, DeadIn, Trusted
      <4>2. CASE SetSlot(r, NoEntry) /\ Goto(r, "before")
        BY <2>2, <4>2 DEF Check, DeadIn
      <4> QED BY <2>2, <4>1, <4>2 DEF Check
    <3> QED BY <2>2, <2>K, <3>1 DEF Check
  <2>3. CASE Exists(r)
    <3>1. \A s \in Slots : Dead(s) => s # slot[r] BY <2>3 DEF Exists, DeadIn
    <3>2. \A s \in Slots : Dead(s) => DeadNext(s) BY <2>3, <3>1 DEF Exists, DeadIn
    <3> QED BY <2>3, <2>K, <3>2 DEF Exists
  <2>4. CASE ReadBefore(r)
    <3>1. \A s \in Slots : Dead(s) => DeadNext(s) BY <2>4 DEF ReadBefore, DeadIn
    <3> QED BY <2>4, <2>K, <3>1 DEF ReadBefore
  <2>5. CASE Load(r)
    <3>1. slotDb[slot[r]] \notin evicted
      BY <2>5, <1>S DEF Load, SlotsOK, DeadOK
    <3>2. \A s \in Slots : Dead(s) /\ s # slot[r] => DeadNext(s)
      BY <2>5 DEF Load, DeadIn
    <3> QED BY <2>5, <2>K, <3>1, <3>2 DEF Load
  <2>6. CASE LoadFails(r)
    <3>1. \A s \in Slots : Dead(s) => DeadNext(s) BY <2>6 DEF LoadFails, DeadIn
    <3>2. \A d \in Dbs : file[d] # "wallet" => file'[d] # "wallet"
      BY <2>6 DEF LoadFails
    <3>3. /\ UNCHANGED <<evicted, map, slotDb, db, slot, late>>
          /\ \A q \in Readers : pc[q] # "idle" => pc'[q] # "idle"
      BY <2>6 DEF LoadFails
    <3> QED BY <2>K, <3>1, <3>2, <3>3
  <2>7. CASE Publish(r)
    <3>1. \A s \in Slots : Dead(s) => s # slot[r] BY <2>7 DEF Publish, DeadIn
    <3>2. \A s \in Slots : Dead(s) => DeadNext(s) BY <2>7, <3>1 DEF Publish, DeadIn
    <3> QED BY <2>7, <2>K, <3>2 DEF Publish
  <2>8. CASE Return(r)
    <3>1. \A s : Dead(s) /\ s # 0 => DeadNext(s) BY <2>8 DEF Return, DeadIn
    <3>2. \A d \in evicted' : /\ file'[d] # "wallet"
                              /\ map'[d] # 0 => DeadNext(map'[d])
      BY <2>8, <3>1, <1>S DEF Return, DeadOK
    <3>3. \A q \in late' : pc'[q] # "idle" /\ db'[q] \in evicted' /\ DeadNext(slot'[q])
      <4> TAKE q \in late'
      <4>1. q \in late /\ q \in Readers /\ q # r BY <2>8 DEF Return
      <4>2. pc'[q] = pc[q] /\ slot'[q] = slot[q] /\ db'[q] = db[q]
        BY <2>8, <4>1 DEF Return
      <4>3. pc[q] # "idle" /\ db[q] \in evicted /\ Dead(slot[q])
        BY <4>1, <1>S DEF DeadOK
      <4>4. slot[q] # 0 BY <4>1, <4>3, <1>S DEF SlotsOK
      <4>5. evicted' = evicted BY <2>8 DEF Return
      <4> QED BY <3>1, <4>2, <4>3, <4>4, <4>5
    <3> QED BY <3>2, <3>3 DEF DeadOK
  <2> QED
    BY <1>4, <2>1, <2>2, <2>3, <2>4, <2>5, <2>6, <2>7, <2>8 DEF ReaderStep
<1>5. CASE UNCHANGED vars BY <1>5, <1>S DEF vars, DeadOK, DeadIn
<1> QED BY <1>1, <1>2, <1>3, <1>4, <1>5 DEF Next
-----------------------------------------------------------------------------
\* Inv is an invariant of the cache.
THEOREM InvCorrect == Spec => [](TypeOK /\ Inv)
<1>1. TypeOK /\ Inv /\ [Next]_vars => TypeOK' /\ Inv'
  BY TypeStep, SlotsStep, EpochStep, DeadStep DEF Inv
<1> QED BY InvInit, <1>1, PTL DEF Spec

\* The cache, its slots and its readers keep their types: no error or half
\* finished load of get_or_load_with_epoch is ever published.
THEOREM CacheTyped == Spec => []TypeOK
  BY InvCorrect, PTL

\* An entry of the current, even epoch is the committed state, for any number
\* of readers, writes and evictions.
THEOREM TrustedCurrent == Spec => []TrustedIsCurrent
<1>1. TypeOK /\ Inv => TrustedIsCurrent
  BY DEF TypeOK, Inv, EntryOK, TrustedIsCurrent, Trusted
<1> QED BY InvCorrect, <1>1, PTL

\* A call answers with a state not older than the one at its start.
THEOREM OwnWritesRead == Spec => []ReadsOwnWrites
<1>1. TypeOK /\ Inv => ReadsOwnWrites BY DEF Inv, AnswerOK, ReadsOwnWrites
<1> QED BY InvCorrect, <1>1, PTL

\* A call that begins after evict_db of a deleted wallet gets no balance.
THEOREM DeletedGone == Spec => []DeletedNotServed
<1>1. TypeOK /\ Inv => DeletedNotServed
  BY DEF Inv, DeadOK, Dead, DeadIn, DeletedNotServed
<1> QED BY InvCorrect, <1>1, PTL
-----------------------------------------------------------------------------
\* What the refinement mapping says of one reader.
BarsOK ==
  /\ callBar = [q \in Readers |-> callBar[q]]
  /\ answerBar = [q \in Readers |-> answerBar[q]]
  /\ \A r \in Readers :
       /\ pc[r] = "idle" => callBar[r] = "idle"
       /\ pc[r] \in {"exists", "after", "done"} => callBar[r] = "read"
       /\ pc[r] \notin {"idle", "exists", "after", "done"} => callBar[r] = "called"
       /\ pc[r] = "exists" => answerBar[r] = cached[slot[r]].value
       /\ pc[r] \in {"after", "done"} => answerBar[r] = val[r]
       /\ pc[r] \notin {"exists", "after", "done"} => answerBar[r] = NoValue

\* The mapping is as BarsOK says, before and after every step.
LEMMA Bars == BarsOK /\ BarsOK'
<1>1. BarsOK BY DEF BarsOK, callBar, answerBar
<1>2. BarsOK' BY DEF BarsOK, callBar, answerBar
<1> QED BY <1>1, <1>2

\* Every step of the cache is a step of the register or changes nothing there.
LEMMA RegisterStep ==
  TypeOK /\ Inv /\ [Next]_vars => [Register!Next]_(Register!vars)
<1> SUFFICES ASSUME TypeOK, Inv, [Next]_vars
             PROVE  Register!Next \/ UNCHANGED Register!vars
  OBVIOUS
<1> DEFINE Same(q) == callBar'[q] = callBar[q] /\ answerBar'[q] = answerBar[q]
           Others(r) == \A q \in Readers : q # r => Same(q)
<1>B. BarsOK /\ BarsOK' BY Bars
\* A reader is where it was when nothing it reads has changed.
<1>S. ASSUME NEW q \in Readers, pc'[q] = pc[q], slot'[q] = slot[q], val'[q] = val[q],
             pc[q] = "exists" => cached'[slot[q]] = cached[slot[q]]
      PROVE  Same(q)
  <2>1. CASE pc[q] = "idle" BY <1>B, <1>S, <2>1 DEF BarsOK
  <2>2. CASE pc[q] = "exists"
    <3>1. cached'[slot'[q]] = cached[slot[q]] BY <1>S, <2>2
    <3>2. cached'[slot'[q]].value = cached[slot[q]].value BY <3>1
    <3>3. /\ callBar'[q] = "read" /\ answerBar'[q] = cached'[slot'[q]].value
          /\ callBar[q] = "read" /\ answerBar[q] = cached[slot[q]].value
      BY <1>B, <1>S, <2>2 DEF BarsOK
    <3> QED BY <3>2, <3>3
  <2>3. CASE pc[q] \in {"after", "done"} BY <1>B, <1>S, <2>3 DEF BarsOK
  <2>4. CASE pc[q] \notin {"idle", "exists", "after", "done"}
    BY <1>B, <1>S, <2>4 DEF BarsOK
  <2> QED BY <2>1, <2>2, <2>3, <2>4
<1>E. (\A q \in Readers : Same(q)) => callBar' = callBar /\ answerBar' = answerBar
  BY <1>B DEF BarsOK
<1>M. ASSUME NEW r \in Readers, Others(r)
      PROVE  /\ callBar' = [callBar EXCEPT ![r] = callBar'[r]]
             /\ answerBar' = [answerBar EXCEPT ![r] = answerBar'[r]]
  <2>1. callBar' = [callBar EXCEPT ![r] = callBar'[r]] BY <1>B, <1>M DEF BarsOK
  <2>2. answerBar' = [answerBar EXCEPT ![r] = answerBar'[r]]
    BY <1>B, <1>M DEF BarsOK
  <2> QED BY <2>1, <2>2
<1> HIDE DEF Same
<1> USE CacheAssumption DEF TypeOK, Slots, Inside, Goto, SetSlot
<1>1. CASE WriteEnd
  <2>1. \A q \in Readers : Same(q) BY <1>1, <1>S DEF WriteEnd
  <2> QED BY <1>1, <1>E, <2>1 DEF WriteEnd, Register!vars
<1>2. ASSUME NEW d \in Dbs,
             WriteBegin(d) \/ Commit(d) \/ DeleteFile(d) \/ Evict(d)
      PROVE  Register!Next \/ UNCHANGED Register!vars
  <2>1. \A q \in Readers : Same(q)
    BY <1>2, <1>S DEF WriteBegin, Commit, DeleteFile, Evict
  <2>2. db' = db BY <1>2 DEF WriteBegin, Commit, DeleteFile, Evict
  <2>3. CASE Commit(d)
    <3>1. Register!Commit(d)
      BY <2>1, <2>2, <2>3, <1>E DEF Commit, Register!Commit
    <3> QED BY <3>1 DEF Register!Next
  <2>4. CASE WriteBegin(d) \/ DeleteFile(d) \/ Evict(d)
    BY <2>1, <2>2, <2>4, <1>E DEF WriteBegin, DeleteFile, Evict, Register!vars
  <2> QED BY <1>2, <2>3, <2>4
<1>3. ASSUME NEW r \in Readers, NEW d \in Dbs, Call(r, d)
      PROVE  Register!Next
  <2>1. Others(r) BY <1>3, <1>S DEF Call
  <2>0. pc[r] = "idle" /\ pc'[r] = "lock" BY <1>3 DEF Call
  <2>2. /\ callBar[r] = "idle" /\ callBar'[r] = "called"
        /\ answerBar'[r] = answerBar[r]
    BY <2>0, <1>B DEF BarsOK
  <2>3. \A q \in Readers : answerBar'[q] = answerBar[q]
    BY <2>1, <2>2 DEF Same
  <2>4. answerBar' = answerBar BY <2>3, <1>B DEF BarsOK
  <2>5. Register!Call(r, d)
    BY <1>3, <2>1, <2>2, <2>4, <1>M DEF Call, Register!Call
  <2> QED BY <2>5 DEF Register!Next
<1>4. ASSUME NEW r \in Readers, ReaderStep(r)
      PROVE  Register!Next \/ UNCHANGED Register!vars
  <2>V. version' = version /\ db' = db /\ \A q \in Readers : q # r => pc'[q] = pc[q]
    BY <1>4 DEF ReaderStep, Lock, Check, Exists, ReadBefore, Load, LoadFails,
                Publish, Return
  \* Another reader in "exists" keeps its entry, by mutual exclusion.
  <2>W. ASSUME slot' = slot, \A q \in Readers : q # r => val'[q] = val[q],
               \A q \in Readers : q # r /\ pc[q] = "exists" =>
                  slot[q] \in Slots /\ cached'[slot[q]] = cached[slot[q]]
        PROVE  Others(r)
    BY <2>V, <2>W, <1>S
  <2>Q. ASSUME Others(r), Same(r) PROVE UNCHANGED Register!vars
    <3>1. \A q \in Readers : Same(q) BY <2>Q
    <3> QED BY <2>V, <3>1, <1>E DEF Register!vars
  <2>1. CASE Lock(r)
    <3>1. Others(r) BY <2>1, <2>V, <1>S DEF Lock
    <3>2. Same(r) BY <2>1, <1>B DEF Lock, BarsOK, Same
    <3> QED BY <3>1, <3>2, <2>Q
  <2>2. CASE Check(r)
    <3>1. CASE Trusted(cached[slot[r]]) /\ Goto(r, "exists") /\ UNCHANGED cached
      <4>1. Others(r) BY <2>2, <3>1, <2>V, <1>S DEF Check
      <4>2. slot[r] \in Slots /\ slotDb[slot[r]] = db[r]
        BY <2>2 DEF Check, Inv, SlotsOK
      <4>3. cached[slot[r]].value = version[db[r]]
        BY <3>1, <4>2 DEF Trusted, Inv, EntryOK
      <4>4. slot' = slot /\ pc[r] = "check" /\ pc'[r] = "exists" /\ cached' = cached
        BY <2>2, <3>1 DEF Check
      <4>5. callBar[r] = "called" /\ callBar'[r] = "read"
        BY <4>4, <1>B DEF BarsOK
      <4>6. answerBar'[r] = version[db[r]] BY <4>3, <4>4, <1>B DEF BarsOK
      <4>7. Register!Read(r)
        BY <2>V, <4>1, <4>5, <4>6, <1>M DEF Register!Read
      <4> QED BY <4>7 DEF Register!Next
    <3>2. CASE SetSlot(r, NoEntry) /\ Goto(r, "before")
      <4>0. /\ pc[r] \in Inside /\ slot' = slot /\ val' = val
            /\ cached' = [cached EXCEPT ![slot[r]] = NoEntry]
        BY <2>2, <3>2 DEF Check
      <4>x. \A q \in Readers : q # r /\ pc[q] = "exists" =>
               slot[q] \in Slots /\ cached'[slot[q]] = cached[slot[q]]
        BY <4>0, SlotWritten DEF Inv
      <4>1. Others(r) BY <4>0, <4>x, <2>W
      <4>2. Same(r) BY <2>2, <3>2, <1>B DEF Check, BarsOK, Same
      <4> QED BY <4>1, <4>2, <2>Q
    <3> QED BY <2>2, <3>1, <3>2 DEF Check
  <2>3. CASE Exists(r)
    <3>1. CASE /\ val' = [val EXCEPT ![r] = cached[slot[r]].value]
               /\ Goto(r, "done") /\ UNCHANGED cached
      <4>1. Others(r) BY <2>3, <3>1, <2>V, <1>S DEF Exists
      <4>2. /\ pc[r] = "exists" /\ pc'[r] = "done"
            /\ val'[r] = cached[slot[r]].value
        BY <2>3, <3>1 DEF Exists
      <4>3. Same(r) BY <4>2, <1>B DEF BarsOK, Same
      <4> QED BY <4>1, <4>3, <2>Q
    <3>2. CASE SetSlot(r, NoEntry) /\ Goto(r, "before") /\ UNCHANGED val
      <4>0. /\ pc[r] \in Inside /\ slot' = slot /\ val' = val
            /\ cached' = [cached EXCEPT ![slot[r]] = NoEntry]
        BY <2>3, <3>2 DEF Exists
      <4>x. \A q \in Readers : q # r /\ pc[q] = "exists" =>
               slot[q] \in Slots /\ cached'[slot[q]] = cached[slot[q]]
        BY <4>0, SlotWritten DEF Inv
      <4>1. Others(r) BY <4>0, <4>x, <2>W
      <4>2. pc[r] = "exists" /\ pc'[r] = "before" BY <2>3, <3>2 DEF Exists
      <4>3. /\ callBar[r] = "read" /\ callBar'[r] = "called"
            /\ answerBar'[r] = NoValue
        BY <4>2, <1>B DEF BarsOK
      <4>4. Register!Retry(r)
        BY <2>V, <4>1, <4>3, <1>M DEF Register!Retry
      <4> QED BY <4>4 DEF Register!Next
    <3> QED BY <2>3, <3>1, <3>2 DEF Exists
  <2>4. CASE ReadBefore(r)
    <3>1. Others(r) BY <2>4, <2>V, <1>S DEF ReadBefore
    <3>2. Same(r) BY <2>4, <1>B DEF ReadBefore, BarsOK, Same
    <3> QED BY <3>1, <3>2, <2>Q
  <2>5. CASE Load(r)
    <3>1. Others(r) BY <2>5, <2>V, <1>S DEF Load
    <3>2. pc[r] = "load" /\ pc'[r] = "after" /\ val'[r] = version[db[r]]
      BY <2>5 DEF Load
    <3>3. /\ callBar[r] = "called" /\ callBar'[r] = "read"
          /\ answerBar'[r] = version[db[r]]
      BY <3>2, <1>B DEF BarsOK
    <3>4. Register!Read(r) BY <2>V, <3>1, <3>3, <1>M DEF Register!Read
    <3> QED BY <3>4 DEF Register!Next
  <2>6. CASE LoadFails(r)
    <3>0. /\ pc[r] \in Inside /\ slot' = slot /\ val' = val
          /\ cached' = [cached EXCEPT ![slot[r]] = NoEntry]
      BY <2>6 DEF LoadFails
    <3>x. \A q \in Readers : q # r /\ pc[q] = "exists" =>
             slot[q] \in Slots /\ cached'[slot[q]] = cached[slot[q]]
      BY <3>0, SlotWritten DEF Inv
    <3>1. Others(r) BY <3>0, <3>x, <2>W
    <3>2. Same(r) BY <2>6, <1>B DEF LoadFails, BarsOK, Same
    <3> QED BY <3>1, <3>2, <2>Q
  <2>7. CASE Publish(r)
    <3> DEFINE c == IF before[r] = epoch /\ Even(epoch)
                    THEN [epoch |-> epoch, value |-> val[r]] ELSE NoEntry
    <3>0. /\ pc[r] \in Inside /\ slot' = slot /\ val' = val
          /\ cached' = [cached EXCEPT ![slot[r]] = c]
      BY <2>7 DEF Publish
    <3> HIDE DEF c
    <3>x. \A q \in Readers : q # r /\ pc[q] = "exists" =>
             slot[q] \in Slots /\ cached'[slot[q]] = cached[slot[q]]
      BY <3>0, SlotWritten DEF Inv
    <3>1. Others(r) BY <3>0, <3>x, <2>W
    <3>2. Same(r) BY <2>7, <1>B DEF Publish, BarsOK, Same
    <3> QED BY <3>1, <3>2, <2>Q
  <2>8. CASE Return(r)
    <3>1. Others(r) BY <2>8, <2>V, <1>S DEF Return
    <3>2. pc[r] # "idle" /\ pc'[r] = "idle" BY <2>8 DEF Return
    <3>3. /\ callBar[r] # "idle" /\ callBar'[r] = "idle"
          /\ answerBar'[r] = NoValue
      BY <3>2, <1>B DEF BarsOK
    <3>4. Register!Return(r) BY <2>V, <3>1, <3>3, <1>M DEF Register!Return
    <3> QED BY <3>4 DEF Register!Next
  <2> QED
    BY <1>4, <2>1, <2>2, <2>3, <2>4, <2>5, <2>6, <2>7, <2>8 DEF ReaderStep
<1>5. CASE UNCHANGED vars
  <2>1. \A q \in Readers : Same(q) BY <1>5, <1>S DEF vars
  <2> QED BY <1>5, <1>E, <2>1 DEF vars, Register!vars
<1> QED BY <1>1, <1>2, <1>3, <1>4, <1>5 DEF Next

\* The cached reads are linearizable: SummaryCache implements SummaryRegister,
\* so get_wallet_summary_cached cannot be told from a read of the database.
THEOREM CacheImplementsRegister == Spec => Linearizable
<1>1. Init => Register!Init
  <2> SUFFICES ASSUME Init PROVE Register!Init OBVIOUS
  <2>1. callBar = [r \in Readers |-> "idle"] BY DEF Init, callBar
  <2>2. answerBar = [r \in Readers |-> NoValue] BY DEF Init, answerBar
  <2> QED BY <2>1, <2>2 DEF Init, Register!Init
<1> QED BY <1>1, InvCorrect, RegisterStep, PTL
        DEF Spec, Linearizable, Register!Spec
=============================================================================
