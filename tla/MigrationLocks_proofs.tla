----------------------- MODULE MigrationLocks_proofs -----------------------
(***************************************************************************)
(* MigrationLocks for any set of notes and any number of rounds, faults    *)
(* and revivals: its type, that crossing reconciliations settle on the     *)
(* locks of the phase, that a reconciliation advances to its end and that  *)
(* the locks it leaves stay.                                               *)
(***************************************************************************)
EXTENDS MigrationLocks, TLAPS

LEMMA RecFields ==
  ASSUME NEW r \in Recs
  PROVE  /\ r.release \in BOOLEAN /\ r.round \in 0..MaxRounds
         /\ r.st \in {"idle", "read", "apply", "check", "unlock", "delete"}
  BY DEF Recs

LEMMA NoRecTyped ==
  /\ NoRec \in Recs /\ Begin \in Recs
  /\ [NoRec EXCEPT !.st = "unlock"] \in Recs
  /\ [NoRec EXCEPT !.st = "delete"] \in Recs
  <1>1. NoRec \in Recs
    BY LocksAssumption DEF NoRec, Recs
  <1>2. \A s \in {"read", "unlock", "delete"} : [NoRec EXCEPT !.st = s] \in Recs
    BY <1>1 DEF Recs
  <1> QED BY <1>1, <1>2 DEF Begin

LEMMA NoRecStates ==
  /\ NoRec.st = "idle" /\ Begin.st = "read"
  /\ [NoRec EXCEPT !.st = "unlock"].st = "unlock"
  /\ [NoRec EXCEPT !.st = "delete"].st = "delete"
  BY DEF NoRec, Begin

\* The end of a reconciliation leaves the actor idle or cleaning up.
LEMMA EndsTyped ==
  ASSUME TypeOK, NEW a \in Actors, NEW ok \in BOOLEAN, Ends(a, ok)
  PROVE  rec' \in [Actors -> Recs] /\ creating' \in BOOLEAN
  BY NoRecTyped DEF TypeOK, Ends

LEMMA EndsRec ==
  ASSUME TypeOK, NEW a \in Actors, NEW ok \in BOOLEAN, Ends(a, ok)
  PROVE  /\ rec'[a].st \in {"idle", "unlock"}
         /\ \A b \in Actors \ {a} : rec'[b] = rec[b]
  BY NoRecStates DEF TypeOK, Ends

LEMMA DisturbTyped == Disturb => fresh' \in SUBSET Actors /\ settled' \in BOOLEAN
  BY DEF Disturb

LEMMA TypeInit == Init => TypeOK
  <1> SUFFICES ASSUME Init PROVE TypeOK
    OBVIOUS
  <1>1. rec \in [Actors -> Recs]
    BY NoRecTyped DEF Init
  <1>2. note \in [Notes -> {"unseen", "spendable", "spent"}]
    BY DEF Init
  <1>3. turns \in 0..MaxTurns /\ faults \in 0..MaxFaults
    BY LocksAssumption DEF Init
  <1> QED BY <1>1, <1>2, <1>3 DEF Init, TypeOK

LEMMA TypeStep == TypeOK /\ [Next]_vars => TypeOK'
  <1> SUFFICES ASSUME TypeOK, [Next]_vars PROVE TypeOK'
    OBVIOUS
  <1>0. "op" \in Actors /\ "sync" \in Actors
    BY DEF Actors
  <1>1. CASE CreateRun
    BY <1>0, <1>1, NoRecTyped, DisturbTyped DEF TypeOK, CreateRun
  <1>2. CASE EndRun
    BY <1>0, <1>2, NoRecTyped, DisturbTyped DEF TypeOK, EndRun
  <1>3. CASE CompleteByCall
    BY <1>3, DisturbTyped DEF TypeOK, CompleteByCall
  <1>4. CASE Revive
    BY <1>4, DisturbTyped, LocksAssumption DEF TypeOK, Revive
  <1>5. CASE ApplyWaits
    <2>1. [rec["op"] EXCEPT !.st = "check"] \in Recs
      BY <1>0 DEF TypeOK, Recs
    <2>2. rec' = [rec EXCEPT !["op"] = [rec["op"] EXCEPT !.st = "check"]]
      BY <1>5 DEF ApplyWaits
    <2> QED BY <1>0, <1>5, <2>1, <2>2, DisturbTyped DEF TypeOK, ApplyWaits
  <1>6. CASE Crash
    <2>1. faults' \in 0..MaxFaults
      BY <1>6, LocksAssumption DEF TypeOK, Crash
    <2>2. rec' \in [Actors -> Recs]
      BY <1>6, NoRecTyped DEF Crash
    <2> QED BY <1>6, <2>1, <2>2, DisturbTyped DEF TypeOK, Crash
  <1>7. ASSUME NEW ph \in {"active", "released"}, SyncPass(ph) PROVE TypeOK'
    <2>1. turns' \in 0..MaxTurns
      BY <1>7, LocksAssumption DEF TypeOK, SyncPass
    <2>2. fresh' \in SUBSET Actors /\ settled' \in BOOLEAN
      BY <1>7, DisturbTyped DEF TypeOK, SyncPass, ghosts
    <2> QED BY <1>0, <1>7, <2>1, <2>2, NoRecTyped DEF TypeOK, SyncPass
  <1>8. ASSUME NEW a \in Actors, ReadLocks(a) PROVE TypeOK'
    <2>1. rec' \in [Actors -> Recs] /\ creating' \in BOOLEAN
      <3>1. CASE phase = "deleted"
        BY <1>8, <3>1, EndsTyped DEF ReadLocks
      <3>2. CASE phase # "deleted"
        <4>1. [rec[a] EXCEPT !.st = "apply", !.release = Releases] \in Recs
          BY DEF TypeOK, Recs, Releases
        <4>2. rec' = [rec EXCEPT ![a] = [rec[a] EXCEPT !.st = "apply", !.release = Releases]]
          BY <1>8, <3>2 DEF ReadLocks
        <4> QED BY <1>8, <3>2, <4>1, <4>2 DEF TypeOK, ReadLocks
      <3> QED BY <3>1, <3>2
    <2> QED BY <1>8, <2>1 DEF TypeOK, ReadLocks
  <1>9. ASSUME NEW a \in Actors, ApplyLocks(a) PROVE TypeOK'
    <2>1. [rec[a] EXCEPT !.st = "check"] \in Recs
      BY DEF TypeOK, Recs
    <2>2. rec' = [rec EXCEPT ![a] = [rec[a] EXCEPT !.st = "check"]]
      BY <1>9 DEF ApplyLocks
    <2> QED BY <1>9, <2>1, <2>2 DEF TypeOK, ApplyLocks, Spendable, ghosts
  <1>10. ASSUME NEW a \in Actors, CheckLocks(a) PROVE TypeOK'
    <2>1. /\ rec' \in [Actors -> Recs] /\ creating' \in BOOLEAN
          /\ fresh' \in SUBSET Actors /\ settled' \in BOOLEAN
      <3>1. CASE phase = "deleted" \/ rec[a].release = Releases
        BY <1>10, <3>1, EndsTyped DEF TypeOK, CheckLocks
      <3>2. CASE /\ ~(phase = "deleted" \/ rec[a].release = Releases)
                 /\ rec[a].round + 1 < MaxRounds
        <4>1. [rec[a] EXCEPT !.st = "read", !.round = @ + 1] \in Recs
          <5>1. rec[a] \in Recs
            BY DEF TypeOK
          <5>2. rec[a].round + 1 \in 0..MaxRounds
            BY <3>2, <5>1, RecFields, LocksAssumption
          <5> QED BY <5>1, <5>2 DEF Recs
        <4>2. rec' = [rec EXCEPT ![a] = [rec[a] EXCEPT !.st = "read", !.round = @ + 1]]
          BY <1>10, <3>2 DEF CheckLocks
        <4> QED BY <1>10, <3>2, <4>1, <4>2 DEF TypeOK, CheckLocks, ghosts
      <3>3. CASE /\ ~(phase = "deleted" \/ rec[a].release = Releases)
                 /\ ~(rec[a].round + 1 < MaxRounds)
        BY <1>10, <3>3, EndsTyped, DisturbTyped DEF CheckLocks
      <3> QED BY <3>1, <3>2, <3>3
    <2> QED BY <1>10, <2>1 DEF TypeOK, CheckLocks
  <1>11. ASSUME NEW a \in Actors, LocksFail(a) PROVE TypeOK'
    <2>1. faults' \in 0..MaxFaults
      BY <1>11, LocksAssumption DEF TypeOK, LocksFail
    <2>2. Ends(a, FALSE) /\ FALSE \in BOOLEAN
      BY <1>11 DEF LocksFail
    <2>3. rec' \in [Actors -> Recs] /\ creating' \in BOOLEAN
      BY <2>2, EndsTyped
    <2> QED BY <1>11, <2>1, <2>3, DisturbTyped DEF TypeOK, LocksFail
  <1>12. ASSUME NEW ok \in BOOLEAN, CleanupUnlock(ok) PROVE TypeOK'
    BY <1>0, <1>12, NoRecTyped, DisturbTyped, LocksAssumption DEF TypeOK, CleanupUnlock
  <1>13. ASSUME NEW ok \in BOOLEAN, CleanupDelete(ok) PROVE TypeOK'
    BY <1>0, <1>13, NoRecTyped, DisturbTyped, LocksAssumption DEF TypeOK, CleanupDelete
  <1>14. ASSUME NEW n \in Notes, Discover(n) PROVE TypeOK'
    BY <1>14, DisturbTyped DEF TypeOK, Discover
  <1>15. ASSUME NEW n \in Notes, Spend(n) PROVE TypeOK'
    BY <1>15 DEF TypeOK, Spend, ghosts
  <1>16. CASE UNCHANGED vars
    BY <1>16 DEF TypeOK, vars
  <1> QED BY <1>1, <1>2, <1>3, <1>4, <1>5, <1>6, <1>7, <1>8, <1>9, <1>10, <1>11,
             <1>12, <1>13, <1>14, <1>15, <1>16 DEF Next, Reconciling

\* The rounds of a reconciliation stay within their bound, and every other
\* variable keeps its type.
THEOREM LocksTyped == Spec => []TypeOK
  BY TypeInit, TypeStep, PTL DEF Spec
-----------------------------------------------------------------------------
(***************************************************************************)
(* An actor that has read the phase since the last change holds that       *)
(* phase.  Locks that differ from the phase are not final: some actor has  *)
(* yet to read or apply, or will see in its check that it applied another  *)
(* phase (Pending).  The last conjunct says so for the actor whose check   *)
(* is about to settle the run, of the other one.                           *)
(***************************************************************************)
Pending(b) ==
    \/ rec[b].st \in {"read", "apply"}
    \/ rec[b].st = "check" /\ rec[b].release # Releases

MatchesUnless(S) == phase = "deleted" \/ Matches \/ \E b \in S : Pending(b)

LocksInv ==
    /\ \A a \in fresh : rec[a].st \in {"apply", "check"} => rec[a].release = Releases
    /\ settled => MatchesUnless(Actors)
    /\ \A a \in fresh : rec[a].st = "check" => MatchesUnless(Actors \ {a})

LEMMA Disturbed == Disturb => LocksInv'
  BY DEF Disturb, LocksInv

\* The locks match the phase after an actor has applied the phase it read.
LEMMA AppliedMatches ==
  ASSUME TypeOK, NEW a \in Actors, ApplyLocks(a), rec[a].release = Releases
  PROVE  Matches'
  BY DEF TypeOK, ApplyLocks, Matches, Releases, Spendable

LEMMA LocksInit == Init => LocksInv
  BY DEF Init, LocksInv

LEMMA LocksStep == TypeOK /\ LocksInv /\ [Next]_vars => LocksInv'
  <1> SUFFICES ASSUME TypeOK, LocksInv, [Next]_vars PROVE LocksInv'
    OBVIOUS
  <1>0. rec \in [Actors -> Recs] /\ fresh \in SUBSET Actors
    BY DEF TypeOK
  <1>1. CASE CreateRun \/ EndRun \/ CompleteByCall \/ Revive \/ ApplyWaits \/ Crash
    BY <1>1, Disturbed DEF CreateRun, EndRun, CompleteByCall, Revive, ApplyWaits, Crash
  <1>2. ASSUME NEW ph \in {"active", "released"}, SyncPass(ph) PROVE LocksInv'
    <2>1. CASE ph # phase
      BY <1>2, <2>1, Disturbed DEF SyncPass
    <2>2. CASE ph = phase
      <3>1. UNCHANGED <<phase, note, lock, fresh, settled>>
        BY <1>2, <2>2 DEF SyncPass, ghosts
      <3>2. rec'["sync"].st = "read" /\ rec'["op"] = rec["op"]
        BY <1>0, <1>2, NoRecStates DEF SyncPass, Actors
      <3>3. Pending("sync")' /\ (Pending("op") => Pending("op")')
        BY <3>1, <3>2 DEF Pending, Releases
      <3>4. /\ Matches' <=> Matches
            /\ Releases' <=> Releases
        BY <3>1 DEF Matches, Releases, Spendable
      <3>5. MatchesUnless(Actors)'
        BY <3>3 DEF MatchesUnless, Actors
      <3>6. \A a \in fresh' : rec'[a].st = "check" => MatchesUnless(Actors \ {a})'
        BY <1>0, <3>1, <3>2, <3>3 DEF MatchesUnless, Actors
      <3>7. \A a \in fresh' : rec'[a].st \in {"apply", "check"} =>
               rec'[a].release = Releases'
        BY <1>0, <3>1, <3>2, <3>4 DEF LocksInv, Releases, Actors
      <3> QED BY <3>5, <3>6, <3>7 DEF LocksInv
    <2> QED BY <2>1, <2>2
  <1>3. ASSUME NEW a \in Actors, ReadLocks(a) PROVE LocksInv'
    <2>1. UNCHANGED <<phase, note, lock, settled>> /\ fresh' = fresh \cup {a}
      BY <1>3 DEF ReadLocks
    <2>2. CASE phase = "deleted"
      <3>1. rec'[a].st \in {"idle", "unlock"} /\ \A b \in Actors \ {a} : rec'[b] = rec[b]
        BY <1>3, <2>2, EndsRec DEF ReadLocks
      <3> QED BY <1>0, <2>1, <2>2, <3>1 DEF LocksInv, MatchesUnless, Releases
    <2>3. CASE phase # "deleted"
      <3>1. /\ rec'[a].st = "apply" /\ rec'[a].release = Releases
            /\ \A b \in Actors \ {a} : rec'[b] = rec[b]
        BY <1>0, <1>3, <2>3 DEF ReadLocks, Recs
      <3>2. Releases' = Releases
        BY <2>1 DEF Releases
      <3>3. Pending(a)' /\ \A b \in Actors \ {a} : rec'[b].st = rec[b].st
        BY <3>1 DEF Pending
      <3>4. \A b \in fresh' : rec'[b].st = "check" => MatchesUnless(Actors \ {b})'
        BY <1>0, <2>1, <3>1, <3>3 DEF MatchesUnless
      <3>5. \A b \in fresh' : rec'[b].st \in {"apply", "check"} =>
               rec'[b].release = Releases'
        BY <1>0, <2>1, <3>1, <3>2 DEF LocksInv
      <3> QED BY <3>3, <3>4, <3>5 DEF LocksInv, MatchesUnless
    <2> QED BY <2>2, <2>3
  <1>4. ASSUME NEW a \in Actors, ApplyLocks(a) PROVE LocksInv'
    <2>1. UNCHANGED <<phase, note, fresh, settled>>
      BY <1>4 DEF ApplyLocks, ghosts
    <2>2. /\ rec'[a].st = "check" /\ rec'[a].release = rec[a].release
          /\ \A b \in Actors \ {a} : rec'[b] = rec[b]
      BY <1>0, <1>4 DEF ApplyLocks, Recs
    <2>3. Releases' = Releases
      BY <2>1 DEF Releases
    <2>4. \A b \in fresh' : rec'[b].st \in {"apply", "check"} =>
             rec'[b].release = Releases'
      BY <1>0, <1>4, <2>1, <2>2, <2>3 DEF LocksInv, ApplyLocks
    <2>5. CASE rec[a].release = Releases
      BY <1>4, <2>4, <2>5, AppliedMatches DEF LocksInv, MatchesUnless
    <2>6. CASE rec[a].release # Releases
      <3>1. Pending(a)'
        BY <2>2, <2>3, <2>6 DEF Pending
      <3>2. a \notin fresh'
        BY <1>4, <2>1, <2>6 DEF LocksInv, ApplyLocks
      <3> QED BY <2>4, <3>1, <3>2 DEF LocksInv, MatchesUnless
    <2> QED BY <2>5, <2>6
  <1>5. ASSUME NEW a \in Actors, CheckLocks(a) PROVE LocksInv'
    <2>1. UNCHANGED <<phase, note>>
      BY <1>5 DEF CheckLocks
    <2>2. Releases' = Releases
      BY <2>1 DEF Releases
    <2>3. CASE phase = "deleted" \/ rec[a].release = Releases
      <3>1. /\ rec'[a].st \in {"idle", "unlock"}
            /\ \A b \in Actors \ {a} : rec'[b] = rec[b]
        BY <1>5, <2>3, EndsRec DEF CheckLocks
      <3>2. fresh' = fresh /\ settled' = (settled \/ a \in fresh)
        BY <1>5, <2>3 DEF CheckLocks
      <3>3. phase = "deleted" \/ (lock' = lock /\ ~Pending(a))
        BY <1>5, <2>3 DEF CheckLocks, Pending
      <3>4. ASSUME NEW S \in SUBSET Actors, MatchesUnless(S)
            PROVE  MatchesUnless(S)'
        <4>1. Matches /\ phase # "deleted" => Matches'
          BY <2>1, <3>3 DEF Matches, Releases, Spendable
        <4>2. \A b \in S : Pending(b) /\ phase # "deleted" => Pending(b)'
          BY <2>2, <3>1, <3>3 DEF Pending
        <4> QED BY <2>1, <3>4, <4>1, <4>2 DEF MatchesUnless
      <3>5. settled' => MatchesUnless(Actors)
        <4>1. a \in fresh => MatchesUnless(Actors \ {a})
          BY <1>5 DEF LocksInv, CheckLocks
        <4>2. a \in fresh => MatchesUnless(Actors)
          BY <4>1 DEF MatchesUnless
        <4> QED BY <3>2, <4>2 DEF LocksInv
      <3>6. settled' => MatchesUnless(Actors)'
        BY <3>4, <3>5
      <3>7. \A b \in fresh' : rec'[b].st = "check" => MatchesUnless(Actors \ {b})'
        <4> SUFFICES ASSUME NEW b \in fresh', rec'[b].st = "check"
                     PROVE  MatchesUnless(Actors \ {b})'
          OBVIOUS
        <4>1. b \in fresh /\ b # a /\ rec[b].st = "check"
          BY <1>0, <3>1, <3>2
        <4>2. MatchesUnless(Actors \ {b})
          BY <4>1 DEF LocksInv
        <4>3. Actors \ {b} \in SUBSET Actors
          OBVIOUS
        <4> QED BY <3>4, <4>2, <4>3
      <3>8. \A b \in fresh' : rec'[b].st \in {"apply", "check"} =>
               rec'[b].release = Releases'
        BY <1>0, <2>2, <3>1, <3>2 DEF LocksInv
      <3> QED BY <3>6, <3>7, <3>8 DEF LocksInv
    <2>4. CASE /\ ~(phase = "deleted" \/ rec[a].release = Releases)
               /\ rec[a].round + 1 < MaxRounds
      <3>1. UNCHANGED <<fresh, settled>>
        BY <1>5, <2>4 DEF CheckLocks, ghosts
      <3>2. rec'[a].st = "read" /\ \A b \in Actors \ {a} : rec'[b] = rec[b]
        BY <1>0, <1>5, <2>4 DEF CheckLocks, Recs
      <3>3. Pending(a)'
        BY <3>2 DEF Pending
      <3>4. \A b \in fresh' : rec'[b].st \in {"apply", "check"} =>
               rec'[b].release = Releases'
        BY <1>0, <2>2, <3>1, <3>2 DEF LocksInv
      <3> QED BY <3>2, <3>3, <3>4 DEF LocksInv, MatchesUnless
    <2>5. CASE /\ ~(phase = "deleted" \/ rec[a].release = Releases)
               /\ ~(rec[a].round + 1 < MaxRounds)
      BY <1>5, <2>5, Disturbed DEF CheckLocks
    <2> QED BY <2>3, <2>4, <2>5
  <1>6. ASSUME NEW a \in Actors, LocksFail(a) PROVE LocksInv'
    BY <1>6, Disturbed DEF LocksFail
  <1>7. ASSUME NEW ok \in BOOLEAN, CleanupUnlock(ok) \/ CleanupDelete(ok)
        PROVE  LocksInv'
    BY <1>7, Disturbed DEF CleanupUnlock, CleanupDelete
  <1>8. ASSUME NEW n \in Notes, Discover(n) PROVE LocksInv'
    BY <1>8, Disturbed DEF Discover
  <1>9. ASSUME NEW n \in Notes, Spend(n) PROVE LocksInv'
    <2>1. UNCHANGED <<phase, lock, rec, fresh, settled>>
      BY <1>9 DEF Spend, ghosts
    <2>2. Spendable' \subseteq Spendable
      BY <1>9 DEF Spend, Spendable, TypeOK
    <2>3. Matches => Matches'
      BY <2>1, <2>2 DEF Matches, Releases
    <2> QED BY <2>1, <2>3 DEF LocksInv, MatchesUnless, Pending, Releases
  <1>10. CASE UNCHANGED vars
    BY <1>10 DEF vars, LocksInv, MatchesUnless, Pending, Matches, Releases, Spendable
  <1> QED BY <1>1, <1>2, <1>3, <1>4, <1>5, <1>6, <1>7, <1>8, <1>9, <1>10
      DEF Next, Reconciling

\* Two reconciliations that cross, with the phase changing under them, leave
\* the locks of the last phase once one that read it has completed.
THEOREM LocksSettle == Spec => []SettledLocksMatch
  <1>1. LocksInv => SettledLocksMatch
    BY DEF LocksInv, SettledLocksMatch, MatchesUnless, Pending, Idle
  <1>2. Spec => []LocksInv
    BY LocksInit, LocksStep, LocksTyped, PTL DEF Spec
  <1> QED BY <1>1, <1>2, PTL
-----------------------------------------------------------------------------
(***************************************************************************)
(* What the eventual unlocking and locking rest on, fairness aside: a      *)
(* reconciliation goes through its rounds to an end, and the locks it      *)
(* leaves stay as long as the phase does.                                  *)
(***************************************************************************)
Working(a) == rec[a].st \in {"read", "apply", "check"}
Stage == [read |-> 0, apply |-> 1, check |-> 2]

\* a is further in its round, or in a later round.
Later(a) ==
    \/ rec[a].round < rec'[a].round
    \/ rec[a].round = rec'[a].round /\ Stage[rec[a].st] < Stage[rec'[a].st]

Advanced(a) ==
    \/ rec'[a] = rec[a]
    \/ rec'[a].st \in {"idle", "unlock"}
    \/ Working(a)' /\ Later(a)

Bounded == \A a \in Actors : Working(a) => rec[a].round < MaxRounds

LEMMA OthersAdvance ==
  ASSUME TypeOK, NEW a \in Actors, \A b \in Actors \ {a} : rec'[b] = rec[b],
         Working(a) => Advanced(a)
  PROVE  \A b \in Actors : Working(b) => Advanced(b)
  BY DEF Advanced

LEMMA BoundedStep == TypeOK /\ Bounded /\ [Next]_vars => Bounded'
  <1> SUFFICES ASSUME TypeOK, Bounded, [Next]_vars PROVE Bounded'
    OBVIOUS
  <1> USE LocksAssumption
  <1>0. rec \in [Actors -> Recs] /\ "op" \in Actors /\ "sync" \in Actors
    BY DEF TypeOK, Actors
  <1>1. NoRec.round = 0 /\ Begin.round = 0 /\ \A s : [NoRec EXCEPT !.st = s].round = 0
    BY DEF NoRec, Begin
  <1>2. CASE CreateRun \/ EndRun \/ \E ph \in {"active", "released"} : SyncPass(ph)
    BY <1>0, <1>1, <1>2 DEF Bounded, Working, CreateRun, EndRun, SyncPass
  <1>3. CASE \/ CompleteByCall \/ Revive \/ UNCHANGED vars
             \/ \E n \in Notes : Discover(n) \/ Spend(n)
    BY <1>3 DEF Bounded, Working, CompleteByCall, Revive, Discover, Spend, vars
  <1>4. CASE ApplyWaits
    BY <1>0, <1>4 DEF Bounded, Working, ApplyWaits, Recs
  <1>5. CASE Crash
    BY <1>1, <1>5 DEF Bounded, Working, Crash
  <1>6. ASSUME NEW a \in Actors, ReadLocks(a) PROVE Bounded'
    <2>1. CASE phase = "deleted"
      BY <1>6, <2>1, EndsRec DEF ReadLocks, Bounded, Working
    <2>2. CASE phase # "deleted"
      BY <1>0, <1>6, <2>2 DEF ReadLocks, Bounded, Working, Recs
    <2> QED BY <2>1, <2>2
  <1>7. ASSUME NEW a \in Actors, ApplyLocks(a) PROVE Bounded'
    BY <1>0, <1>7 DEF ApplyLocks, Bounded, Working, Recs
  <1>8. ASSUME NEW a \in Actors, CheckLocks(a) PROVE Bounded'
    <2>1. CASE Ends(a, TRUE) \/ Ends(a, FALSE)
      <3>1. /\ rec'[a].st \in {"idle", "unlock"}
            /\ \A b \in Actors \ {a} : rec'[b] = rec[b]
        BY <2>1, EndsRec
      <3> QED BY <3>1 DEF Bounded, Working
    <2>2. CASE /\ rec' = [rec EXCEPT ![a].st = "read", ![a].round = @ + 1]
               /\ rec[a].round + 1 < MaxRounds
      BY <1>0, <2>2 DEF Bounded, Working, Recs
    <2> QED BY <1>8, <2>1, <2>2 DEF CheckLocks
  <1>9. ASSUME NEW a \in Actors, LocksFail(a) PROVE Bounded'
    <2>1. Ends(a, FALSE) /\ FALSE \in BOOLEAN
      BY <1>9 DEF LocksFail
    <2> QED BY <2>1, EndsRec DEF Bounded, Working
  <1>10. ASSUME NEW ok \in BOOLEAN, CleanupUnlock(ok) \/ CleanupDelete(ok)
         PROVE  Bounded'
    BY <1>0, <1>1, <1>10, NoRecStates
    DEF Bounded, Working, CleanupUnlock, CleanupDelete
  <1> QED BY <1>2, <1>3, <1>4, <1>5, <1>6, <1>7, <1>8, <1>9, <1>10
      DEF Next, Reconciling

LEMMA AdvanceStep ==
  ASSUME TypeOK, [Next]_vars
  PROVE  \A a \in Actors : Working(a) => Advanced(a)
  <1>0. rec \in [Actors -> Recs] /\ "op" \in Actors /\ "sync" \in Actors
    BY DEF TypeOK, Actors
  <1>1. CASE CreateRun \/ EndRun
    BY <1>0, <1>1, OthersAdvance DEF CreateRun, EndRun, Idle, Working
  <1>2. ASSUME NEW ph \in {"active", "released"}, SyncPass(ph)
        PROVE  \A a \in Actors : Working(a) => Advanced(a)
    BY <1>0, <1>2, OthersAdvance DEF SyncPass, Idle, Working
  <1>3. CASE \/ CompleteByCall \/ Revive \/ UNCHANGED vars
             \/ \E n \in Notes : Discover(n) \/ Spend(n)
    BY <1>3 DEF Advanced, CompleteByCall, Revive, Discover, Spend, vars
  <1>4. CASE ApplyWaits
    <2>1. /\ rec["op"].st = "apply" /\ rec'["op"].st = "check"
          /\ rec'["op"].round = rec["op"].round
          /\ \A b \in Actors \ {"op"} : rec'[b] = rec[b]
      BY <1>0, <1>4 DEF ApplyWaits, Recs
    <2>2. Advanced("op")
      BY <2>1 DEF Advanced, Working, Later, Stage
    <2> QED BY <1>0, <2>1, <2>2, OthersAdvance
  <1>5. CASE Crash
    BY <1>5, NoRecStates DEF Advanced, Crash
  <1>6. ASSUME NEW a \in Actors, Ends(a, TRUE) \/ Ends(a, FALSE)
        PROVE  \A b \in Actors : Working(b) => Advanced(b)
    <2>1. /\ rec'[a].st \in {"idle", "unlock"}
          /\ \A b \in Actors \ {a} : rec'[b] = rec[b]
      BY <1>6, EndsRec
    <2> QED BY <2>1 DEF Advanced
  <1>7. ASSUME NEW a \in Actors, ReadLocks(a)
        PROVE  \A b \in Actors : Working(b) => Advanced(b)
    <2>1. CASE phase = "deleted"
      BY <1>6, <1>7, <2>1 DEF ReadLocks
    <2>2. CASE phase # "deleted"
      <3>1. /\ rec[a].st = "read" /\ rec'[a].st = "apply"
            /\ rec'[a].round = rec[a].round
            /\ \A b \in Actors \ {a} : rec'[b] = rec[b]
        BY <1>0, <1>7, <2>2 DEF ReadLocks, Recs
      <3>2. Advanced(a)
        BY <3>1 DEF Advanced, Working, Later, Stage
      <3> QED BY <3>1, <3>2, OthersAdvance
    <2> QED BY <2>1, <2>2
  <1>8. ASSUME NEW a \in Actors, ApplyLocks(a)
        PROVE  \A b \in Actors : Working(b) => Advanced(b)
    <2>1. /\ rec[a].st = "apply" /\ rec'[a].st = "check"
          /\ rec'[a].round = rec[a].round
          /\ \A b \in Actors \ {a} : rec'[b] = rec[b]
      BY <1>0, <1>8 DEF ApplyLocks, Recs
    <2>2. Advanced(a)
      BY <2>1 DEF Advanced, Working, Later, Stage
    <2> QED BY <2>1, <2>2, OthersAdvance
  <1>9. ASSUME NEW a \in Actors, CheckLocks(a)
        PROVE  \A b \in Actors : Working(b) => Advanced(b)
    <2>1. CASE rec' = [rec EXCEPT ![a].st = "read", ![a].round = @ + 1]
      <3>1. /\ rec'[a].st = "read" /\ rec[a].round < rec'[a].round
            /\ \A b \in Actors \ {a} : rec'[b] = rec[b]
        BY <1>0, <2>1, LocksAssumption DEF Recs
      <3>2. Advanced(a)
        BY <3>1 DEF Advanced, Working, Later
      <3> QED BY <3>1, <3>2, OthersAdvance
    <2> QED BY <1>6, <1>9, <2>1 DEF CheckLocks
  <1>10. ASSUME NEW a \in Actors, LocksFail(a)
         PROVE  \A b \in Actors : Working(b) => Advanced(b)
    BY <1>6, <1>10 DEF LocksFail
  <1>11. ASSUME NEW ok \in BOOLEAN, CleanupUnlock(ok) \/ CleanupDelete(ok)
         PROVE  \A b \in Actors : Working(b) => Advanced(b)
    BY <1>0, <1>11, OthersAdvance DEF CleanupUnlock, CleanupDelete, Working
  <1> QED BY <1>1, <1>2, <1>3, <1>4, <1>5, <1>7, <1>8, <1>9, <1>10, <1>11
      DEF Next, Reconciling

\* A reconciliation never goes back within a round, and there are at most
\* MaxRounds of them: however often the phase changes under it, it is over
\* after 3 * MaxRounds of its own steps (reconcile_wallet_locks_for_run_inner).
\* With fairness this ends every pass that EndedRunUnlocks and ActiveRunLocks
\* wait for.
THEOREM ReconciliationAdvances ==
  Spec => /\ []Bounded
          /\ [][\A a \in Actors : Working(a) => Advanced(a)]_vars
  <1>1. Init => Bounded
    BY NoRecStates DEF Init, Bounded, Working
  <1>2. TypeOK /\ [Next]_vars => [\A a \in Actors : Working(a) => Advanced(a)]_vars
    BY AdvanceStep
  <1>3. Spec => []Bounded
    BY <1>1, BoundedStep, LocksTyped, PTL DEF Spec
  <1> QED BY <1>2, <1>3, LocksTyped, PTL DEF Spec
-----------------------------------------------------------------------------
\* The run has ended, holds no lock, and nobody is about to apply an older phase.
Unlocked ==
    /\ phase = "released" /\ lock = {}
    /\ \A a \in Actors : rec[a].st = "apply" => rec[a].release

\* The run is active, holds its spendable notes, and nobody is about to apply
\* an older phase or to undo its creation.
Locked ==
    /\ phase = "active" /\ Spendable \subseteq lock
    /\ \A a \in Actors : rec[a].st = "apply" => ~rec[a].release
    /\ ~creating /\ rec["op"].st # "unlock"

Stay ==
    /\ Unlocked /\ phase' = "released" => Unlocked'
    /\ Locked /\ phase' = "active" /\ Spendable' \subseteq Spendable => Locked'

LEMMA StayStep == TypeOK /\ [Next]_vars => Stay
  <1> SUFFICES ASSUME TypeOK, [Next]_vars PROVE Stay
    OBVIOUS
  <1>0. /\ rec \in [Actors -> Recs] /\ "op" \in Actors /\ "sync" \in Actors
        /\ creating \in BOOLEAN
    BY DEF TypeOK, Actors
  <1>1. CASE CreateRun
    BY <1>1 DEF Stay, CreateRun, Unlocked, Locked
  <1>2. CASE EndRun
    BY <1>0, <1>2, NoRecStates DEF Stay, EndRun, Unlocked, Locked
  <1>3. CASE CompleteByCall \/ Revive
    BY <1>3 DEF Stay, CompleteByCall, Revive, Unlocked, Locked
  <1>4. ASSUME NEW ph \in {"active", "released"}, SyncPass(ph) PROVE Stay
    <2>1. /\ rec'["sync"].st = "read" /\ rec'["op"] = rec["op"]
          /\ UNCHANGED <<note, lock, creating>>
      BY <1>0, <1>4, NoRecStates DEF SyncPass
    <2> QED BY <2>1 DEF Stay, Unlocked, Locked, Actors, Spendable
  <1>5. CASE ApplyWaits
    <2>1. /\ rec'["op"].st = "check" /\ rec'["sync"] = rec["sync"]
          /\ UNCHANGED <<phase, note, lock, creating>>
      BY <1>0, <1>5 DEF ApplyWaits, Recs
    <2> QED BY <2>1 DEF Stay, Unlocked, Locked, Actors, Spendable
  <1>6. CASE Crash
    <2>1. /\ \A a \in Actors : rec'[a].st = "idle"
          /\ ~creating' /\ UNCHANGED <<phase, note, lock>>
      BY <1>6, NoRecStates DEF Crash
    <2> QED BY <1>0, <2>1 DEF Stay, Unlocked, Locked, Spendable
  <1>7. ASSUME NEW a \in Actors, Ends(a, TRUE) \/ Ends(a, FALSE),
               UNCHANGED <<phase, note>>,
               lock' = IF phase = "deleted" THEN {} ELSE lock
        PROVE  Stay
    <2>1. /\ rec'[a].st \in {"idle", "unlock"}
          /\ \A b \in Actors \ {a} : rec'[b] = rec[b]
      BY <1>7, EndsRec
    <2>2. ~creating => ~creating' /\ (a = "op" => rec'[a].st = "idle")
      BY <1>0, <1>7, NoRecStates DEF Ends
    <2>3. Unlocked /\ phase' = "released" => Unlocked'
      BY <1>7, <2>1 DEF Unlocked
    <2>4. Locked /\ phase' = "active" => Locked'
      BY <1>0, <1>7, <2>1, <2>2 DEF Locked, Spendable
    <2> QED BY <2>3, <2>4 DEF Stay
  <1>8. ASSUME NEW a \in Actors, ReadLocks(a) PROVE Stay
    <2>1. CASE phase = "deleted"
      BY <1>8, <2>1 DEF ReadLocks, Stay, Unlocked, Locked
    <2>2. CASE phase # "deleted"
      <3>1. /\ rec'[a].st = "apply" /\ rec'[a].release = Releases
            /\ \A b \in Actors \ {a} : rec'[b] = rec[b]
            /\ UNCHANGED <<phase, note, lock, creating>>
        BY <1>0, <1>8, <2>2 DEF ReadLocks, Recs
      <3>2. Unlocked /\ phase' = "released" => Unlocked'
        BY <3>1 DEF Unlocked, Releases
      <3>3. Locked /\ phase' = "active" => Locked'
        BY <1>0, <3>1 DEF Locked, Releases, Spendable
      <3> QED BY <3>2, <3>3 DEF Stay
    <2> QED BY <2>1, <2>2
  <1>9. ASSUME NEW a \in Actors, ApplyLocks(a) PROVE Stay
    <2>1. /\ rec[a].st = "apply" /\ rec'[a].st = "check"
          /\ \A b \in Actors \ {a} : rec'[b] = rec[b]
          /\ lock' = IF rec[a].release THEN {} ELSE lock \cup Spendable
          /\ UNCHANGED <<phase, note, creating>>
      BY <1>0, <1>9 DEF ApplyLocks, Recs
    <2>2. Unlocked /\ phase' = "released" => Unlocked'
      BY <2>1 DEF Unlocked
    <2>3. Locked /\ phase' = "active" => Locked'
      BY <1>0, <2>1 DEF Locked, Spendable
    <2> QED BY <2>2, <2>3 DEF Stay
  <1>10. ASSUME NEW a \in Actors, CheckLocks(a) PROVE Stay
    <2>1. UNCHANGED <<phase, note>> /\ lock' = IF phase = "deleted" THEN {} ELSE lock
      BY <1>10 DEF CheckLocks
    <2>2. CASE rec' = [rec EXCEPT ![a].st = "read", ![a].round = @ + 1] /\ creating' = creating
      <3>1. rec'[a].st = "read" /\ \A b \in Actors \ {a} : rec'[b] = rec[b]
        BY <1>0, <2>2 DEF Recs
      <3> QED BY <1>0, <2>1, <2>2, <3>1 DEF Stay, Unlocked, Locked, Spendable
    <2> QED BY <1>7, <1>10, <2>1, <2>2 DEF CheckLocks
  <1>11. ASSUME NEW a \in Actors, LocksFail(a) PROVE Stay
    <2>1. CASE phase = "deleted"
      BY <1>11, <2>1 DEF LocksFail, Stay, Unlocked, Locked
    <2> QED BY <1>7, <1>11, <2>1 DEF LocksFail
  <1>12. ASSUME NEW ok \in BOOLEAN, CleanupUnlock(ok) PROVE Stay
    <2>1. /\ rec["op"].st = "unlock" /\ rec'["op"].st \in {"idle", "delete"}
          /\ \A b \in Actors \ {"op"} : rec'[b] = rec[b]
          /\ phase' = phase /\ (lock' = lock \/ lock' = {})
      BY <1>0, <1>12, NoRecStates DEF CleanupUnlock
    <2> QED BY <2>1 DEF Stay, Unlocked, Locked
  <1>13. ASSUME NEW ok \in BOOLEAN, CleanupDelete(ok) PROVE Stay
    <2>1. /\ rec'["op"].st = "idle" /\ \A b \in Actors \ {"op"} : rec'[b] = rec[b]
          /\ UNCHANGED <<note, lock, creating>>
      BY <1>0, <1>13, NoRecStates DEF CleanupDelete
    <2> QED BY <2>1 DEF Stay, Unlocked, Locked, Spendable
  <1>14. ASSUME NEW n \in Notes, Discover(n) \/ Spend(n) PROVE Stay
    BY <1>14 DEF Stay, Unlocked, Locked, Discover, Spend
  <1>15. CASE UNCHANGED vars
    BY <1>15 DEF vars, Stay, Unlocked, Locked, Spendable
  <1> QED BY <1>1, <1>2, <1>3, <1>4, <1>5, <1>6, <1>8, <1>9, <1>10, <1>11,
             <1>12, <1>13, <1>14, <1>15 DEF Next, Reconciling

\* Locks that are right stay right: an ended run that gave its notes back takes
\* none again while it is ended, and an active run that holds its notes keeps
\* them until it ends or a scan discovers another one, whatever reconciliations
\* cross, fail or die in between (ensure_orchard_migration_locks,
\* unlock_orchard_migration_outputs).  This is the "for ever" of EndedRunUnlocks
\* and ActiveRunLocks.
THEOREM LocksStay == Spec => [][Stay]_vars
  <1>1. TypeOK /\ [Next]_vars => [Stay]_vars
    BY StayStep
  <1> QED BY <1>1, LocksTyped, PTL DEF Spec
=============================================================================
