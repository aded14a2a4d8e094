----------------------- MODULE NetworkPrivacy_proofs -----------------------
(***************************************************************************)
(* NetworkPrivacy for any number of toggles and any finite set of requests. *)
(* The type and the counts first, then the leases, the drain, the client   *)
(* slot, that the toggles leave an outcome behind, and that each of them    *)
(* goes on to its end.                                                     *)
(***************************************************************************)
EXTENDS NetworkPrivacy, FiniteSetTheorems, TLAPS

(* The leases that ACTIVE_DIRECT_IO counts.                                *)
CountedStates ==
    {"counted", "runnable", "polling", "parked", "closing", "removed"}
Counted == {r \in Requests : req[r] \in CountedStates}
Counting == active = Cardinality(Counted)

(* Only toggles that were started move, only the newest one is inside      *)
(* begin_tor_enable, and each bumps the epoch at most once.                *)
Numbering ==
    /\ \A c \in Toggles : pc[c] # "idle" => c <= gen
    /\ \A c \in Toggles : pc[c] \in Beginning => c = gen
    /\ epoch <= gen
    /\ \A c \in Toggles :
           c = gen /\ pc[c] \in {"preflight", "beginning"} => epoch < gen

(* A lease's epoch is of the past, a parked task has a waker somebody will *)
(* wake, a poll excludes the cancellation, and a cancelled lease is older   *)
(* than the current epoch.                                                 *)
LeaseInv ==
    /\ \A r \in Requests : req[r] \in Open => leased[r] <= epoch
    /\ \A r \in Requests : req[r] \in {"polling", "parked"} => r \in wakers
    /\ \A r \in Requests, c \in Toggles :
           ~(req[r] = "polling" /\ pc[c] = "beginning")
    /\ \A r \in cut :
           \/ req[r] = "runnable" /\ leased[r] < epoch
           \/ req[r] \in {"closing", "removed"}

(* Without an outcome somebody still owes one: a toggle inside the         *)
(* bootstrap, or the newest toggle wherever it is.  A client that           *)
(* disable_tor is dropping is no outcome.  A refused toggle owes one that  *)
(* it will not give.                                                       *)
InBootstrap ==
    {"locking", "locked", "checked", "booting", "publishing", "failing"}
Owed ==
    \/ ~desired
    \/ Concluded /\ SlotFree
    \/ \E c \in Toggles : pc[c] \in InBootstrap
    \/ \E c \in Toggles :
           c = gen /\ pc[c] \notin {"idle", "dropping", "refused", "done"}
    \/ Refused

TypeInv == TypeOK /\ Counting /\ Numbering

-----------------------------------------------------------------------------
(* The initial state has its type.                                         *)
LEMMA TypeInit == Init => TypeOK
  <1> SUFFICES ASSUME Init PROVE TypeOK
    OBVIOUS
  <1>1. Cardinality(Requests) \in Nat
    BY RequestsAssumption, FS_CardinalityType
  <1>2. 0 \in 0 .. MaxToggles /\ 0 \in 0 .. Cardinality(Requests)
    BY <1>1, TogglesAssumption
  <1>3. /\ pc \in [Toggles -> ToggleStates]
        /\ req \in [Requests -> RequestStates]
        /\ leased \in [Requests -> 0 .. MaxToggles]
    BY <1>2 DEF Init, ToggleStates, RequestStates
  <1> QED BY <1>2, <1>3 DEF Init, TypeOK, Status

(* The counted leases and their number.                                    *)
LEMMA CountedFinite ==
  /\ IsFiniteSet(Counted) /\ Cardinality(Counted) \in Nat
  /\ Cardinality(Counted) <= Cardinality(Requests)
  /\ Cardinality(Requests) \in Nat
  <1>1. Counted \subseteq Requests
    BY DEF Counted
  <1> QED BY <1>1, RequestsAssumption, FS_Subset, FS_CardinalityType

LEMMA CountedAdds ==
  ASSUME NEW r \in Requests, r \notin Counted, Counted' = Counted \cup {r}
  PROVE  Cardinality(Counted') = Cardinality(Counted) + 1
  BY CountedFinite, FS_AddElement

LEMMA CountedDrops ==
  ASSUME NEW r \in Requests, r \in Counted, Counted' = Counted \ {r}
  PROVE  /\ Cardinality(Counted') = Cardinality(Counted) - 1
         /\ Cardinality(Counted) >= 1
  <1>1. Cardinality(Counted \ {r}) = Cardinality(Counted) - 1
    BY CountedFinite, FS_RemoveElement
  <1>2. Cardinality(Counted) # 0
    BY CountedFinite, FS_EmptySet
  <1> QED BY <1>1, <1>2, CountedFinite

LEMMA CountedTyped ==
  ASSUME Counting PROVE active \in 0 .. Cardinality(Requests)
  BY CountedFinite DEF Counting

LEMMA CountedTypedNext ==
  ASSUME Counting' PROVE active' \in 0 .. Cardinality(Requests)
  <1>1. /\ IsFiniteSet(Counted') /\ Cardinality(Counted') \in Nat
        /\ Cardinality(Counted') <= Cardinality(Requests)
    <2>1. Counted' \subseteq Requests
      BY DEF Counted
    <2> QED BY <2>1, RequestsAssumption, FS_Subset, FS_CardinalityType
  <1> QED BY <1>1, CountedFinite DEF Counting

(* A request that moves within, into or out of the counted states.         *)
LEMMA MoveCounted ==
  ASSUME TypeOK, NEW r \in Requests, NEW from, NEW to, Move(r, from, to)
  PROVE  /\ (from \in CountedStates) = (to \in CountedStates)
                => Counted' = Counted
         /\ from \notin CountedStates /\ to \in CountedStates
                => r \notin Counted /\ Counted' = Counted \cup {r}
         /\ from \in CountedStates /\ to \notin CountedStates
                => r \in Counted /\ Counted' = Counted \ {r}
  <1>1. /\ req[r] = from /\ req'[r] = to
        /\ \A q \in Requests \ {r} : req'[q] = req[q]
    BY DEF Move, TypeOK
  <1> QED BY <1>1 DEF Counted

(* The count of direct connections stays exact.                            *)
LEMMA CountingStep == TypeInv /\ [Next]_vars => Counting'
  <1> SUFFICES ASSUME TypeInv, [Next]_vars PROVE Counting'
    OBVIOUS
  <1>1. ASSUME NEW c \in Toggles, StartToggle(c) PROVE Counting'
    BY <1>1
    DEF StartToggle, Goto, policy, toggles, sleep, leases, TypeInv, TypeOK,
        Counting, Counted
  <1>2. ASSUME NEW c \in Toggles, RefuseToggle(c) PROVE Counting'
    BY <1>2
    DEF RefuseToggle, Goto, policy, toggles, sleep, leases, TypeInv, TypeOK,
        Counting, Counted
  <1>3. ASSUME NEW c \in Toggles, Superseded(c) PROVE Counting'
    BY <1>3
    DEF Superseded, Goto, policy, toggles, sleep, leases, TypeInv, TypeOK,
        Counting, Counted
  <1>4. ASSUME NEW c \in Toggles, BreakOff(c) PROVE Counting'
    BY <1>4
    DEF BreakOff, Goto, policy, toggles, sleep, leases, TypeInv, TypeOK,
        Counting, Counted
  <1>5. ASSUME NEW c \in Toggles, FailEnable(c) PROVE Counting'
    BY <1>5
    DEF FailEnable, SetTorFailed, Goto, policy, toggles, sleep, leases,
        TypeInv, TypeOK, Counting, Counted
  <1>6. ASSUME NEW c \in Toggles, CallEnable(c) PROVE Counting'
    BY <1>6
    DEF CallEnable, Goto, policy, toggles, sleep, leases, TypeInv, TypeOK,
        Counting, Counted
  <1>7. ASSUME NEW c \in Toggles, CallDisable(c) PROVE Counting'
    BY <1>7
    DEF CallDisable, Goto, policy, toggles, sleep, leases, TypeInv, TypeOK,
        Counting, Counted
  <1>8. ASSUME NEW c \in Toggles, BeginDesired(c) PROVE Counting'
    BY <1>8
    DEF BeginDesired, Goto, policy, toggles, sleep, leases, TypeInv, TypeOK,
        Counting, Counted
  <1>9. ASSUME NEW c \in Toggles, BeginCancel(c) PROVE Counting'
    <2>1. Counted' = Counted
      BY <1>9 DEF BeginCancel, TypeInv, TypeOK, Counted, CountedStates
    <2> QED BY <1>9, <2>1 DEF BeginCancel, TypeInv, Counting
  <1>10. ASSUME NEW c \in Toggles, BeginClear(c) PROVE Counting'
    BY <1>10
    DEF BeginClear, Goto, policy, toggles, sleep, leases, TypeInv, TypeOK,
        Counting, Counted
  <1>11. ASSUME NEW c \in Toggles, DrainCheck(c) PROVE Counting'
    BY <1>11
    DEF DrainCheck, Goto, policy, toggles, sleep, leases, TypeInv, TypeOK,
        Counting, Counted
  <1>12. ASSUME NEW c \in Toggles, EnableTor(c) PROVE Counting'
    BY <1>12
    DEF EnableTor, Goto, policy, toggles, sleep, leases, TypeInv, TypeOK,
        Counting, Counted
  <1>13. ASSUME NEW c \in Toggles, AcquireInit(c) PROVE Counting'
    BY <1>13
    DEF AcquireInit, Goto, policy, toggles, sleep, leases, TypeInv, TypeOK,
        Counting, Counted
  <1>14. ASSUME NEW c \in Toggles, AcquireTimeout(c) PROVE Counting'
    BY <1>14
    DEF AcquireTimeout, Goto, policy, toggles, sleep, leases, TypeInv, TypeOK,
        Counting, Counted
  <1>15. ASSUME NEW c \in Toggles, NothingToBootstrap(c) PROVE Counting'
    BY <1>15
    DEF NothingToBootstrap, Goto, policy, toggles, sleep, leases, TypeInv,
        TypeOK, Counting, Counted
  <1>16. ASSUME NEW c \in Toggles, StillDesired(c) PROVE Counting'
    BY <1>16
    DEF StillDesired, Goto, policy, toggles, sleep, leases, TypeInv, TypeOK,
        Counting, Counted
  <1>17. ASSUME NEW c \in Toggles, StartBootstrap(c) PROVE Counting'
    BY <1>17
    DEF StartBootstrap, Goto, policy, toggles, sleep, leases, TypeInv, TypeOK,
        Counting, Counted
  <1>18. ASSUME NEW c \in Toggles, BootSucceeds(c) PROVE Counting'
    BY <1>18
    DEF BootSucceeds, Goto, policy, toggles, sleep, leases, TypeInv, TypeOK,
        Counting, Counted
  <1>19. ASSUME NEW c \in Toggles, BootFails(c) PROVE Counting'
    BY <1>19
    DEF BootFails, Goto, policy, toggles, sleep, leases, TypeInv, TypeOK,
        Counting, Counted
  <1>20. ASSUME NEW c \in Toggles, Install(c) PROVE Counting'
    BY <1>20
    DEF Install, Goto, policy, toggles, sleep, leases, TypeInv, TypeOK,
        Counting, Counted
  <1>21. ASSUME NEW c \in Toggles, BootstrapFailed(c) PROVE Counting'
    BY <1>21
    DEF BootstrapFailed, SetTorFailed, Goto, policy, toggles, sleep, leases,
        TypeInv, TypeOK, Counting, Counted
  <1>22. ASSUME NEW c \in Toggles, DisableTor(c) PROVE Counting'
    BY <1>22
    DEF DisableTor, Goto, policy, toggles, sleep, leases, TypeInv, TypeOK,
        Counting, Counted
  <1>38. ASSUME NEW c \in Toggles, DropClient(c) PROVE Counting'
    BY <1>38
    DEF DropClient, Goto, policy, toggles, sleep, leases, TypeInv, TypeOK,
        Counting, Counted
  <1>23. ASSUME NEW intent \in BOOLEAN, SetDormant(intent) PROVE Counting'
    BY <1>23
    DEF SetDormant, policy, toggles, leases, TypeInv, TypeOK, Counting,
        Counted
  <1>24. CASE ApplyDormant
    BY <1>24
    DEF ApplyDormant, policy, toggles, leases, TypeInv, TypeOK, Counting,
        Counted
  <1>25. ASSUME NEW r \in Requests, ProbeDesired(r) PROVE Counting'
    <2>1. \E from \in {"idle", "waiting"}, to \in {"tor", "direct"} :
              Move(r, from, to)
      BY <1>25 DEF ProbeDesired
    <2>2. Counted' = Counted
      BY <2>1, MoveCounted DEF TypeInv, CountedStates
    <2> QED BY <1>25, <2>2 DEF ProbeDesired, TypeInv, Counting
  <1>26. ASSUME NEW r \in Requests, ProbeStatus(r) PROVE Counting'
    BY <1>26, MoveCounted DEF ProbeStatus, TypeInv, Counting, CountedStates
  <1>27. ASSUME NEW r \in Requests, StopWaiting(r) PROVE Counting'
    BY <1>27, MoveCounted DEF StopWaiting, TypeInv, Counting, CountedStates
  <1>28. ASSUME NEW r \in Requests, CountLease(r) PROVE Counting'
    <2>1. r \notin Counted /\ Counted' = Counted \cup {r}
      BY <1>28, MoveCounted DEF CountLease, TypeInv, CountedStates
    <2> QED BY <1>28, <2>1, CountedAdds DEF CountLease, TypeInv, Counting
  <1>29. ASSUME NEW r \in Requests, LoadEpoch(r) PROVE Counting'
    BY <1>29, MoveCounted DEF LoadEpoch, TypeInv, Counting, CountedStates
  <1>30. ASSUME NEW r \in Requests, Poll(r) PROVE Counting'
    BY <1>30, MoveCounted DEF Poll, TypeInv, Counting, CountedStates
  <1>31. ASSUME NEW r \in Requests, PerformIO(r) PROVE Counting'
    BY <1>31, MoveCounted DEF PerformIO, TypeInv, Counting, CountedStates
  <1>32. ASSUME NEW r \in Requests, SocketReady(r) PROVE Counting'
    BY <1>32, MoveCounted DEF SocketReady, TypeInv, Counting, CountedStates
  <1>33. ASSUME NEW r \in Requests, LetGo(r) PROVE Counting'
    BY <1>33, MoveCounted DEF LetGo, TypeInv, Counting, CountedStates
  <1>34. ASSUME NEW r \in Requests, RemoveWaker(r) PROVE Counting'
    BY <1>34, MoveCounted DEF RemoveWaker, TypeInv, Counting, CountedStates
  <1>35. ASSUME NEW r \in Requests, DropLease(r) PROVE Counting'
    <2>1. \E to \in {"notifying", "idle"} : Move(r, "removed", to)
      BY <1>35 DEF DropLease
    <2>2. r \in Counted /\ Counted' = Counted \ {r}
      BY <2>1, MoveCounted DEF TypeInv, CountedStates
    <2> QED BY <1>35, <2>2, CountedDrops DEF DropLease, TypeInv, Counting
  <1>36. ASSUME NEW r \in Requests, NotifyDrained(r) PROVE Counting'
    BY <1>36, MoveCounted DEF NotifyDrained, TypeInv, Counting, CountedStates
  <1>37. CASE UNCHANGED vars
    BY <1>37
    DEF vars, policy, toggles, sleep, leases, TypeInv, TypeOK, Counting,
        Counted
  <1> QED
    BY <1>1, <1>2, <1>3, <1>4, <1>5, <1>6, <1>7, <1>8, <1>9, <1>10, 
       <1>11, <1>12, <1>13, <1>14, <1>15, <1>16, <1>17, <1>18, 
       <1>19, <1>20, <1>21, <1>22, <1>23, <1>24, <1>25, <1>26, 
       <1>27, <1>28, <1>29, <1>30, <1>31, <1>32, <1>33, <1>34, 
       <1>35, <1>36, <1>37, <1>38
       DEF Next, Toggle, Proceed, Dormancy, Route, Lease

(* The order of the toggles and the bound on the epoch are kept.           *)
LEMMA NumberingStep == TypeInv /\ [Next]_vars => Numbering'
  <1> SUFFICES ASSUME TypeInv, [Next]_vars PROVE Numbering'
    OBVIOUS
  <1>1. ASSUME NEW c \in Toggles, StartToggle(c) PROVE Numbering'
    BY <1>1, TogglesAssumption
    DEF StartToggle, Goto, policy, toggles, sleep, leases, TypeInv, TypeOK,
        Numbering, Toggles, Beginning
  <1>2. ASSUME NEW c \in Toggles, RefuseToggle(c) PROVE Numbering'
    BY <1>2, TogglesAssumption
    DEF RefuseToggle, Goto, policy, toggles, sleep, leases, TypeInv, TypeOK,
        Numbering, Toggles, Beginning
  <1>3. ASSUME NEW c \in Toggles, Superseded(c) PROVE Numbering'
    BY <1>3, TogglesAssumption
    DEF Superseded, Goto, policy, toggles, sleep, leases, TypeInv, TypeOK,
        Numbering, Toggles, Beginning
  <1>4. ASSUME NEW c \in Toggles, BreakOff(c) PROVE Numbering'
    BY <1>4, TogglesAssumption
    DEF BreakOff, Goto, policy, toggles, sleep, leases, TypeInv, TypeOK,
        Numbering, Toggles, Beginning
  <1>5. ASSUME NEW c \in Toggles, FailEnable(c) PROVE Numbering'
    BY <1>5, TogglesAssumption
    DEF FailEnable, SetTorFailed, Goto, policy, toggles, sleep, leases,
        TypeInv, TypeOK, Numbering, Toggles, Beginning
  <1>6. ASSUME NEW c \in Toggles, CallEnable(c) PROVE Numbering'
    BY <1>6, TogglesAssumption
    DEF CallEnable, Goto, policy, toggles, sleep, leases, TypeInv, TypeOK,
        Numbering, Toggles, Beginning
  <1>7. ASSUME NEW c \in Toggles, CallDisable(c) PROVE Numbering'
    BY <1>7, TogglesAssumption
    DEF CallDisable, Goto, policy, toggles, sleep, leases, TypeInv, TypeOK,
        Numbering, Toggles, Beginning
  <1>8. ASSUME NEW c \in Toggles, BeginDesired(c) PROVE Numbering'
    BY <1>8, TogglesAssumption
    DEF BeginDesired, Goto, policy, toggles, sleep, leases, TypeInv, TypeOK,
        Numbering, Toggles, Beginning
  <1>9. ASSUME NEW c \in Toggles, BeginCancel(c) PROVE Numbering'
    BY <1>9, TogglesAssumption
    DEF BeginCancel, Goto, policy, toggles, sleep, leases, TypeInv, TypeOK,
        Numbering, Toggles, Beginning
  <1>10. ASSUME NEW c \in Toggles, BeginClear(c) PROVE Numbering'
    BY <1>10, TogglesAssumption
    DEF BeginClear, Goto, policy, toggles, sleep, leases, TypeInv, TypeOK,
        Numbering, Toggles, Beginning
  <1>11. ASSUME NEW c \in Toggles, DrainCheck(c) PROVE Numbering'
    BY <1>11, TogglesAssumption
    DEF DrainCheck, Goto, policy, toggles, sleep, leases, TypeInv, TypeOK,
        Numbering, Toggles, Beginning
  <1>12. ASSUME NEW c \in Toggles, EnableTor(c) PROVE Numbering'
    BY <1>12, TogglesAssumption
    DEF EnableTor, Goto, policy, toggles, sleep, leases, TypeInv, TypeOK,
        Numbering, Toggles, Beginning
  <1>13. ASSUME NEW c \in Toggles, AcquireInit(c) PROVE Numbering'
    BY <1>13, TogglesAssumption
    DEF AcquireInit, Goto, policy, toggles, sleep, leases, TypeInv, TypeOK,
        Numbering, Toggles, Beginning
  <1>14. ASSUME NEW c \in Toggles, AcquireTimeout(c) PROVE Numbering'
    BY <1>14, TogglesAssumption
    DEF AcquireTimeout, Goto, policy, toggles, sleep, leases, TypeInv, TypeOK,
        Numbering, Toggles, Beginning
  <1>15. ASSUME NEW c \in Toggles, NothingToBootstrap(c) PROVE Numbering'
    BY <1>15, TogglesAssumption
    DEF NothingToBootstrap, Goto, policy, toggles, sleep, leases, TypeInv,
        TypeOK, Numbering, Toggles, Beginning
  <1>16. ASSUME NEW c \in Toggles, StillDesired(c) PROVE Numbering'
    BY <1>16, TogglesAssumption
    DEF StillDesired, Goto, policy, toggles, sleep, leases, TypeInv, TypeOK,
        Numbering, Toggles, Beginning
  <1>17. ASSUME NEW c \in Toggles, StartBootstrap(c) PROVE Numbering'
    BY <1>17, TogglesAssumption
    DEF StartBootstrap, Goto, policy, toggles, sleep, leases, TypeInv, TypeOK,
        Numbering, Toggles, Beginning
  <1>18. ASSUME NEW c \in Toggles, BootSucceeds(c) PROVE Numbering'
    BY <1>18, TogglesAssumption
    DEF BootSucceeds, Goto, policy, toggles, sleep, leases, TypeInv, TypeOK,
        Numbering, Toggles, Beginning
  <1>19. ASSUME NEW c \in Toggles, BootFails(c) PROVE Numbering'
    BY <1>19, TogglesAssumption
    DEF BootFails, Goto, policy, toggles, sleep, leases, TypeInv, TypeOK,
        Numbering, Toggles, Beginning
  <1>20. ASSUME NEW c \in Toggles, Install(c) PROVE Numbering'
    BY <1>20, TogglesAssumption
    DEF Install, Goto, policy, toggles, sleep, leases, TypeInv, TypeOK,
        Numbering, Toggles, Beginning
  <1>21. ASSUME NEW c \in Toggles, BootstrapFailed(c) PROVE Numbering'
    BY <1>21, TogglesAssumption
    DEF BootstrapFailed, SetTorFailed, Goto, policy, toggles, sleep, leases,
        TypeInv, TypeOK, Numbering, Toggles, Beginning
  <1>22. ASSUME NEW c \in Toggles, DisableTor(c) PROVE Numbering'
    BY <1>22, TogglesAssumption
    DEF DisableTor, Goto, policy, toggles, sleep, leases, TypeInv, TypeOK,
        Numbering, Toggles, Beginning
  <1>38. ASSUME NEW c \in Toggles, DropClient(c) PROVE Numbering'
    BY <1>38, TogglesAssumption
    DEF DropClient, Goto, policy, toggles, sleep, leases, TypeInv, TypeOK,
        Numbering, Toggles, Beginning
  <1>23. ASSUME NEW intent \in BOOLEAN, SetDormant(intent) PROVE Numbering'
    BY <1>23, TogglesAssumption
    DEF SetDormant, policy, toggles, leases, TypeInv, TypeOK, Numbering,
        Toggles, Beginning
  <1>24. CASE ApplyDormant
    BY <1>24, TogglesAssumption
    DEF ApplyDormant, policy, toggles, leases, TypeInv, TypeOK, Numbering,
        Toggles, Beginning
  <1>25. ASSUME NEW r \in Requests, ProbeDesired(r) PROVE Numbering'
    BY <1>25, TogglesAssumption
    DEF ProbeDesired, Move, policy, toggles, sleep, leases, TypeInv, TypeOK,
        Numbering, Toggles, Beginning
  <1>26. ASSUME NEW r \in Requests, ProbeStatus(r) PROVE Numbering'
    BY <1>26, TogglesAssumption
    DEF ProbeStatus, Move, policy, toggles, sleep, leases, TypeInv, TypeOK,
        Numbering, Toggles, Beginning
  <1>27. ASSUME NEW r \in Requests, StopWaiting(r) PROVE Numbering'
    BY <1>27, TogglesAssumption
    DEF StopWaiting, Move, policy, toggles, sleep, leases, TypeInv, TypeOK,
        Numbering, Toggles, Beginning
  <1>28. ASSUME NEW r \in Requests, CountLease(r) PROVE Numbering'
    BY <1>28, TogglesAssumption
    DEF CountLease, Move, policy, toggles, sleep, leases, TypeInv, TypeOK,
        Numbering, Toggles, Beginning
  <1>29. ASSUME NEW r \in Requests, LoadEpoch(r) PROVE Numbering'
    BY <1>29, TogglesAssumption
    DEF LoadEpoch, Move, policy, toggles, sleep, leases, TypeInv, TypeOK,
        Numbering, Toggles, Beginning
  <1>30. ASSUME NEW r \in Requests, Poll(r) PROVE Numbering'
    BY <1>30, TogglesAssumption
    DEF Poll, Move, policy, toggles, sleep, leases, TypeInv, TypeOK,
        Numbering, Toggles, Beginning
  <1>31. ASSUME NEW r \in Requests, PerformIO(r) PROVE Numbering'
    BY <1>31, TogglesAssumption
    DEF PerformIO, Move, policy, toggles, sleep, leases, TypeInv, TypeOK,
        Numbering, Toggles, Beginning
  <1>32. ASSUME NEW r \in Requests, SocketReady(r) PROVE Numbering'
    BY <1>32, TogglesAssumption
    DEF SocketReady, Move, policy, toggles, sleep, leases, TypeInv, TypeOK,
        Numbering, Toggles, Beginning
  <1>33. ASSUME NEW r \in Requests, LetGo(r) PROVE Numbering'
    BY <1>33, TogglesAssumption
    DEF LetGo, Move, policy, toggles, sleep, leases, TypeInv, TypeOK,
        Numbering, Toggles, Beginning
  <1>34. ASSUME NEW r \in Requests, RemoveWaker(r) PROVE Numbering'
    BY <1>34, TogglesAssumption
    DEF RemoveWaker, Move, policy, toggles, sleep, leases, TypeInv, TypeOK,
        Numbering, Toggles, Beginning
  <1>35. ASSUME NEW r \in Requests, DropLease(r) PROVE Numbering'
    BY <1>35, TogglesAssumption
    DEF DropLease, Move, policy, toggles, sleep, leases, TypeInv, TypeOK,
        Numbering, Toggles, Beginning
  <1>36. ASSUME NEW r \in Requests, NotifyDrained(r) PROVE Numbering'
    BY <1>36, TogglesAssumption
    DEF NotifyDrained, Move, policy, toggles, sleep, leases, TypeInv, TypeOK,
        Numbering, Toggles, Beginning
  <1>37. CASE UNCHANGED vars
    BY <1>37
    DEF vars, policy, toggles, sleep, leases, TypeInv, TypeOK, Numbering,
        Toggles, Beginning
  <1> QED
    BY <1>1, <1>2, <1>3, <1>4, <1>5, <1>6, <1>7, <1>8, <1>9, <1>10, 
       <1>11, <1>12, <1>13, <1>14, <1>15, <1>16, <1>17, <1>18, 
       <1>19, <1>20, <1>21, <1>22, <1>23, <1>24, <1>25, <1>26, 
       <1>27, <1>28, <1>29, <1>30, <1>31, <1>32, <1>33, <1>34, 
       <1>35, <1>36, <1>37, <1>38
       DEF Next, Toggle, Proceed, Dormancy, Route, Lease

(* Every step keeps the type.                                              *)
LEMMA TypeStep == TypeInv /\ [Next]_vars => TypeOK'
  <1> SUFFICES ASSUME TypeInv, [Next]_vars PROVE TypeOK'
    OBVIOUS
  <1>1. ASSUME NEW c \in Toggles, StartToggle(c) PROVE TypeOK'
    BY <1>1, CountingStep, CountedTypedNext, TogglesAssumption
    DEF StartToggle, Goto, policy, toggles, sleep, leases, TypeInv, TypeOK,
        Status, ToggleStates, RequestStates, Toggles
  <1>2. ASSUME NEW c \in Toggles, RefuseToggle(c) PROVE TypeOK'
    BY <1>2, CountingStep, CountedTypedNext, TogglesAssumption
    DEF RefuseToggle, Goto, policy, toggles, sleep, leases, TypeInv, TypeOK,
        Status, ToggleStates, RequestStates, Toggles
  <1>3. ASSUME NEW c \in Toggles, Superseded(c) PROVE TypeOK'
    BY <1>3, CountingStep, CountedTypedNext, TogglesAssumption
    DEF Superseded, Goto, policy, toggles, sleep, leases, TypeInv, TypeOK,
        Status, ToggleStates, RequestStates, Toggles
  <1>4. ASSUME NEW c \in Toggles, BreakOff(c) PROVE TypeOK'
    BY <1>4, CountingStep, CountedTypedNext, TogglesAssumption
    DEF BreakOff, Goto, policy, toggles, sleep, leases, TypeInv, TypeOK,
        Status, ToggleStates, RequestStates, Toggles
  <1>5. ASSUME NEW c \in Toggles, FailEnable(c) PROVE TypeOK'
    BY <1>5, CountingStep, CountedTypedNext, TogglesAssumption
    DEF FailEnable, SetTorFailed, Goto, policy, toggles, sleep, leases,
        TypeInv, TypeOK, Status, ToggleStates, RequestStates, Toggles
  <1>6. ASSUME NEW c \in Toggles, CallEnable(c) PROVE TypeOK'
    BY <1>6, CountingStep, CountedTypedNext, TogglesAssumption
    DEF CallEnable, Goto, policy, toggles, sleep, leases, TypeInv, TypeOK,
        Status, ToggleStates, RequestStates, Toggles
  <1>7. ASSUME NEW c \in Toggles, CallDisable(c) PROVE TypeOK'
    BY <1>7, CountingStep, CountedTypedNext, TogglesAssumption
    DEF CallDisable, Goto, policy, toggles, sleep, leases, TypeInv, TypeOK,
        Status, ToggleStates, RequestStates, Toggles
  <1>8. ASSUME NEW c \in Toggles, BeginDesired(c) PROVE TypeOK'
    BY <1>8, CountingStep, CountedTypedNext, TogglesAssumption
    DEF BeginDesired, Goto, policy, toggles, sleep, leases, TypeInv, TypeOK,
        Status, ToggleStates, RequestStates, Toggles
  <1>9. ASSUME NEW c \in Toggles, BeginCancel(c) PROVE TypeOK'
    <2>1. epoch' \in 0 .. MaxToggles
      BY <1>9, TogglesAssumption
      DEF BeginCancel, Goto, TypeInv, TypeOK, Numbering, Toggles, Beginning
    <2>2. req' \in [Requests -> RequestStates]
      BY <1>9 DEF BeginCancel, TypeInv, TypeOK, RequestStates
    <2>3. pc' \in [Toggles -> ToggleStates]
      BY <1>9 DEF BeginCancel, Goto, TypeInv, TypeOK, ToggleStates
    <2>4. wakers' \in SUBSET Requests /\ cut' \in SUBSET Requests
      BY <1>9 DEF BeginCancel, TypeInv, TypeOK
    <2> QED BY <1>9, <2>1, <2>2, <2>3, <2>4
        DEF BeginCancel, TypeInv, TypeOK, Status, sleep
  <1>10. ASSUME NEW c \in Toggles, BeginClear(c) PROVE TypeOK'
    BY <1>10, CountingStep, CountedTypedNext, TogglesAssumption
    DEF BeginClear, Goto, policy, toggles, sleep, leases, TypeInv, TypeOK,
        Status, ToggleStates, RequestStates, Toggles
  <1>11. ASSUME NEW c \in Toggles, DrainCheck(c) PROVE TypeOK'
    BY <1>11, CountingStep, CountedTypedNext, TogglesAssumption
    DEF DrainCheck, Goto, policy, toggles, sleep, leases, TypeInv, TypeOK,
        Status, ToggleStates, RequestStates, Toggles
  <1>12. ASSUME NEW c \in Toggles, EnableTor(c) PROVE TypeOK'
    BY <1>12, CountingStep, CountedTypedNext, TogglesAssumption
    DEF EnableTor, Goto, policy, toggles, sleep, leases, TypeInv, TypeOK,
        Status, ToggleStates, RequestStates, Toggles
  <1>13. ASSUME NEW c \in Toggles, AcquireInit(c) PROVE TypeOK'
    BY <1>13, CountingStep, CountedTypedNext, TogglesAssumption
    DEF AcquireInit, Goto, policy, toggles, sleep, leases, TypeInv, TypeOK,
        Status, ToggleStates, RequestStates, Toggles
  <1>14. ASSUME NEW c \in Toggles, AcquireTimeout(c) PROVE TypeOK'
    BY <1>14, CountingStep, CountedTypedNext, TogglesAssumption
    DEF AcquireTimeout, Goto, policy, toggles, sleep, leases, TypeInv, TypeOK,
        Status, ToggleStates, RequestStates, Toggles
  <1>15. ASSUME NEW c \in Toggles, NothingToBootstrap(c) PROVE TypeOK'
    BY <1>15, CountingStep, CountedTypedNext, TogglesAssumption
    DEF NothingToBootstrap, Goto, policy, toggles, sleep, leases, TypeInv,
        TypeOK, Status, ToggleStates, RequestStates, Toggles
  <1>16. ASSUME NEW c \in Toggles, StillDesired(c) PROVE TypeOK'
    BY <1>16, CountingStep, CountedTypedNext, TogglesAssumption
    DEF StillDesired, Goto, policy, toggles, sleep, leases, TypeInv, TypeOK,
        Status, ToggleStates, RequestStates, Toggles
  <1>17. ASSUME NEW c \in Toggles, StartBootstrap(c) PROVE TypeOK'
    BY <1>17, CountingStep, CountedTypedNext, TogglesAssumption
    DEF StartBootstrap, Goto, policy, toggles, sleep, leases, TypeInv, TypeOK,
        Status, ToggleStates, RequestStates, Toggles
  <1>18. ASSUME NEW c \in Toggles, BootSucceeds(c) PROVE TypeOK'
    BY <1>18, CountingStep, CountedTypedNext, TogglesAssumption
    DEF BootSucceeds, Goto, policy, toggles, sleep, leases, TypeInv, TypeOK,
        Status, ToggleStates, RequestStates, Toggles
  <1>19. ASSUME NEW c \in Toggles, BootFails(c) PROVE TypeOK'
    BY <1>19, CountingStep, CountedTypedNext, TogglesAssumption
    DEF BootFails, Goto, policy, toggles, sleep, leases, TypeInv, TypeOK,
        Status, ToggleStates, RequestStates, Toggles
  <1>20. ASSUME NEW c \in Toggles, Install(c) PROVE TypeOK'
    BY <1>20, CountingStep, CountedTypedNext, TogglesAssumption
    DEF Install, Goto, policy, toggles, sleep, leases, TypeInv, TypeOK,
        Status, ToggleStates, RequestStates, Toggles, PendingDormantMode
  <1>21. ASSUME NEW c \in Toggles, BootstrapFailed(c) PROVE TypeOK'
    BY <1>21, CountingStep, CountedTypedNext, TogglesAssumption
    DEF BootstrapFailed, SetTorFailed, Goto, policy, toggles, sleep, leases,
        TypeInv, TypeOK, Status, ToggleStates, RequestStates, Toggles
  <1>22. ASSUME NEW c \in Toggles, DisableTor(c) PROVE TypeOK'
    BY <1>22, CountingStep, CountedTypedNext, TogglesAssumption
    DEF DisableTor, Goto, policy, toggles, sleep, leases, TypeInv, TypeOK,
        Status, ToggleStates, RequestStates, Toggles
  <1>38. ASSUME NEW c \in Toggles, DropClient(c) PROVE TypeOK'
    BY <1>38, CountingStep, CountedTypedNext, TogglesAssumption
    DEF DropClient, Goto, policy, toggles, sleep, leases, TypeInv, TypeOK,
        Status, ToggleStates, RequestStates, Toggles
  <1>23. ASSUME NEW intent \in BOOLEAN, SetDormant(intent) PROVE TypeOK'
    BY <1>23, CountingStep, CountedTypedNext, TogglesAssumption
    DEF SetDormant, policy, toggles, leases, TypeInv, TypeOK, Status,
        ToggleStates, RequestStates, Toggles
  <1>24. CASE ApplyDormant
    BY <1>24, CountingStep, CountedTypedNext, TogglesAssumption
    DEF ApplyDormant, policy, toggles, leases, TypeInv, TypeOK, Status,
        ToggleStates, RequestStates, Toggles, PendingDormantMode
  <1>25. ASSUME NEW r \in Requests, ProbeDesired(r) PROVE TypeOK'
    BY <1>25, CountingStep, CountedTypedNext, TogglesAssumption
    DEF ProbeDesired, Move, policy, toggles, sleep, leases, TypeInv, TypeOK,
        Status, ToggleStates, RequestStates, Toggles
  <1>26. ASSUME NEW r \in Requests, ProbeStatus(r) PROVE TypeOK'
    BY <1>26, CountingStep, CountedTypedNext, TogglesAssumption
    DEF ProbeStatus, Move, policy, toggles, sleep, leases, TypeInv, TypeOK,
        Status, ToggleStates, RequestStates, Toggles
  <1>27. ASSUME NEW r \in Requests, StopWaiting(r) PROVE TypeOK'
    BY <1>27, CountingStep, CountedTypedNext, TogglesAssumption
    DEF StopWaiting, Move, policy, toggles, sleep, leases, TypeInv, TypeOK,
        Status, ToggleStates, RequestStates, Toggles
  <1>28. ASSUME NEW r \in Requests, CountLease(r) PROVE TypeOK'
    BY <1>28, CountingStep, CountedTypedNext, TogglesAssumption
    DEF CountLease, Move, policy, toggles, sleep, leases, TypeInv, TypeOK,
        Status, ToggleStates, RequestStates, Toggles
  <1>29. ASSUME NEW r \in Requests, LoadEpoch(r) PROVE TypeOK'
    BY <1>29, CountingStep, CountedTypedNext, TogglesAssumption
    DEF LoadEpoch, Move, policy, toggles, sleep, leases, TypeInv, TypeOK,
        Status, ToggleStates, RequestStates, Toggles
  <1>30. ASSUME NEW r \in Requests, Poll(r) PROVE TypeOK'
    BY <1>30, CountingStep, CountedTypedNext, TogglesAssumption
    DEF Poll, Move, policy, toggles, sleep, leases, TypeInv, TypeOK, Status,
        ToggleStates, RequestStates, Toggles
  <1>31. ASSUME NEW r \in Requests, PerformIO(r) PROVE TypeOK'
    BY <1>31, CountingStep, CountedTypedNext, TogglesAssumption
    DEF PerformIO, Move, policy, toggles, sleep, leases, TypeInv, TypeOK,
        Status, ToggleStates, RequestStates, Toggles
  <1>32. ASSUME NEW r \in Requests, SocketReady(r) PROVE TypeOK'
    BY <1>32, CountingStep, CountedTypedNext, TogglesAssumption
    DEF SocketReady, Move, policy, toggles, sleep, leases, TypeInv, TypeOK,
        Status, ToggleStates, RequestStates, Toggles
  <1>33. ASSUME NEW r \in Requests, LetGo(r) PROVE TypeOK'
    BY <1>33, CountingStep, CountedTypedNext, TogglesAssumption
    DEF LetGo, Move, policy, toggles, sleep, leases, TypeInv, TypeOK, Status,
        ToggleStates, RequestStates, Toggles
  <1>34. ASSUME NEW r \in Requests, RemoveWaker(r) PROVE TypeOK'
    BY <1>34, CountingStep, CountedTypedNext, TogglesAssumption
    DEF RemoveWaker, Move, policy, toggles, sleep, leases, TypeInv, TypeOK,
        Status, ToggleStates, RequestStates, Toggles
  <1>35. ASSUME NEW r \in Requests, DropLease(r) PROVE TypeOK'
    BY <1>35, CountingStep, CountedTypedNext, TogglesAssumption
    DEF DropLease, Move, policy, toggles, sleep, leases, TypeInv, TypeOK,
        Status, ToggleStates, RequestStates, Toggles
  <1>36. ASSUME NEW r \in Requests, NotifyDrained(r) PROVE TypeOK'
    BY <1>36, CountingStep, CountedTypedNext, TogglesAssumption
    DEF NotifyDrained, Move, policy, toggles, sleep, leases, TypeInv, TypeOK,
        Status, ToggleStates, RequestStates, Toggles
  <1>37. CASE UNCHANGED vars
    BY <1>37
    DEF vars, policy, toggles, sleep, leases, TypeInv, TypeOK, Status,
        ToggleStates, RequestStates, Toggles
  <1> QED
    BY <1>1, <1>2, <1>3, <1>4, <1>5, <1>6, <1>7, <1>8, <1>9, <1>10, 
       <1>11, <1>12, <1>13, <1>14, <1>15, <1>16, <1>17, <1>18, 
       <1>19, <1>20, <1>21, <1>22, <1>23, <1>24, <1>25, <1>26, 
       <1>27, <1>28, <1>29, <1>30, <1>31, <1>32, <1>33, <1>34, 
       <1>35, <1>36, <1>37, <1>38
       DEF Next, Toggle, Proceed, Dormancy, Route, Lease

(* Type, count and numbering together are inductive.                        *)
LEMMA TypeInvCorrect == Spec => []TypeInv
  <1>1. Init => TypeInv
    <2> SUFFICES ASSUME Init PROVE TypeInv
      OBVIOUS
    <2>1. Counted = {}
      BY DEF Init, Counted, CountedStates
    <2>2. Counting
      BY <2>1, FS_EmptySet DEF Init, Counting
    <2>3. Numbering
      BY DEF Init, Numbering, Beginning, Toggles
    <2> QED BY <2>2, <2>3, TypeInit DEF TypeInv
  <1>2. TypeInv /\ [Next]_vars => TypeInv'
    BY TypeStep, CountingStep, NumberingStep DEF TypeInv
  <1> QED BY <1>1, <1>2, PTL DEF Spec

(* The route policy's state keeps its type for any number of toggles and   *)
(* requests: the count of direct connections is exact, so it neither goes  *)
(* below zero nor above the connections there are.                         *)
THEOREM PolicyTyped == Spec => []TypeOK
  BY TypeInvCorrect, PTL DEF TypeInv

-----------------------------------------------------------------------------
(* The leases: a step cancels, polls or drops them consistently.           *)
LEMMA LeaseStep == TypeInv /\ LeaseInv /\ [Next]_vars => LeaseInv'
  <1> SUFFICES ASSUME TypeInv, LeaseInv, [Next]_vars PROVE LeaseInv'
    OBVIOUS
  <1>1. ASSUME NEW c \in Toggles, StartToggle(c) PROVE LeaseInv'
    BY <1>1, TogglesAssumption
    DEF StartToggle, Goto, policy, toggles, sleep, leases, TypeInv, TypeOK,
        LeaseInv, Toggles, Open
  <1>2. ASSUME NEW c \in Toggles, RefuseToggle(c) PROVE LeaseInv'
    BY <1>2, TogglesAssumption
    DEF RefuseToggle, Goto, policy, toggles, sleep, leases, TypeInv, TypeOK,
        LeaseInv, Toggles, Open
  <1>3. ASSUME NEW c \in Toggles, Superseded(c) PROVE LeaseInv'
    BY <1>3, TogglesAssumption
    DEF Superseded, Goto, policy, toggles, sleep, leases, TypeInv, TypeOK,
        LeaseInv, Toggles, Open
  <1>4. ASSUME NEW c \in Toggles, BreakOff(c) PROVE LeaseInv'
    BY <1>4, TogglesAssumption
    DEF BreakOff, Goto, policy, toggles, sleep, leases, TypeInv, TypeOK,
        LeaseInv, Toggles, Open
  <1>5. ASSUME NEW c \in Toggles, FailEnable(c) PROVE LeaseInv'
    BY <1>5, TogglesAssumption
    DEF FailEnable, SetTorFailed, Goto, policy, toggles, sleep, leases,
        TypeInv, TypeOK, LeaseInv, Toggles, Open
  <1>6. ASSUME NEW c \in Toggles, CallEnable(c) PROVE LeaseInv'
    BY <1>6, TogglesAssumption
    DEF CallEnable, Goto, policy, toggles, sleep, leases, TypeInv, TypeOK,
        LeaseInv, Toggles, Open
  <1>7. ASSUME NEW c \in Toggles, CallDisable(c) PROVE LeaseInv'
    BY <1>7, TogglesAssumption
    DEF CallDisable, Goto, policy, toggles, sleep, leases, TypeInv, TypeOK,
        LeaseInv, Toggles, Open
  <1>8. ASSUME NEW c \in Toggles, BeginDesired(c) PROVE LeaseInv'
    BY <1>8, TogglesAssumption
    DEF BeginDesired, Goto, policy, toggles, sleep, leases, TypeInv, TypeOK,
        LeaseInv, Toggles, Open, WakersFree
  <1>9. ASSUME NEW c \in Toggles, BeginCancel(c) PROVE LeaseInv'
    BY <1>9, TogglesAssumption
    DEF BeginCancel, Goto, policy, toggles, sleep, leases, TypeInv, TypeOK,
        LeaseInv, Toggles, Open
  <1>10. ASSUME NEW c \in Toggles, BeginClear(c) PROVE LeaseInv'
    BY <1>10, TogglesAssumption
    DEF BeginClear, Goto, policy, toggles, sleep, leases, TypeInv, TypeOK,
        LeaseInv, Toggles, Open
  <1>11. ASSUME NEW c \in Toggles, DrainCheck(c) PROVE LeaseInv'
    BY <1>11, TogglesAssumption
    DEF DrainCheck, Goto, policy, toggles, sleep, leases, TypeInv, TypeOK,
        LeaseInv, Toggles, Open
  <1>12. ASSUME NEW c \in Toggles, EnableTor(c) PROVE LeaseInv'
    BY <1>12, TogglesAssumption
    DEF EnableTor, Goto, policy, toggles, sleep, leases, TypeInv, TypeOK,
        LeaseInv, Toggles, Open
  <1>13. ASSUME NEW c \in Toggles, AcquireInit(c) PROVE LeaseInv'
    BY <1>13, TogglesAssumption
    DEF AcquireInit, Goto, policy, toggles, sleep, leases, TypeInv, TypeOK,
        LeaseInv, Toggles, Open
  <1>14. ASSUME NEW c \in Toggles, AcquireTimeout(c) PROVE LeaseInv'
    BY <1>14, TogglesAssumption
    DEF AcquireTimeout, Goto, policy, toggles, sleep, leases, TypeInv, TypeOK,
        LeaseInv, Toggles, Open
  <1>15. ASSUME NEW c \in Toggles, NothingToBootstrap(c) PROVE LeaseInv'
    BY <1>15, TogglesAssumption
    DEF NothingToBootstrap, Goto, policy, toggles, sleep, leases, TypeInv,
        TypeOK, LeaseInv, Toggles, Open
  <1>16. ASSUME NEW c \in Toggles, StillDesired(c) PROVE LeaseInv'
    BY <1>16, TogglesAssumption
    DEF StillDesired, Goto, policy, toggles, sleep, leases, TypeInv, TypeOK,
        LeaseInv, Toggles, Open
  <1>17. ASSUME NEW c \in Toggles, StartBootstrap(c) PROVE LeaseInv'
    BY <1>17, TogglesAssumption
    DEF StartBootstrap, Goto, policy, toggles, sleep, leases, TypeInv, TypeOK,
        LeaseInv, Toggles, Open
  <1>18. ASSUME NEW c \in Toggles, BootSucceeds(c) PROVE LeaseInv'
    BY <1>18, TogglesAssumption
    DEF BootSucceeds, Goto, policy, toggles, sleep, leases, TypeInv, TypeOK,
        LeaseInv, Toggles, Open
  <1>19. ASSUME NEW c \in Toggles, BootFails(c) PROVE LeaseInv'
    BY <1>19, TogglesAssumption
    DEF BootFails, Goto, policy, toggles, sleep, leases, TypeInv, TypeOK,
        LeaseInv, Toggles, Open
  <1>20. ASSUME NEW c \in Toggles, Install(c) PROVE LeaseInv'
    BY <1>20, TogglesAssumption
    DEF Install, Goto, policy, toggles, sleep, leases, TypeInv, TypeOK,
        LeaseInv, Toggles, Open
  <1>21. ASSUME NEW c \in Toggles, BootstrapFailed(c) PROVE LeaseInv'
    BY <1>21, TogglesAssumption
    DEF BootstrapFailed, SetTorFailed, Goto, policy, toggles, sleep, leases,
        TypeInv, TypeOK, LeaseInv, Toggles, Open
  <1>22. ASSUME NEW c \in Toggles, DisableTor(c) PROVE LeaseInv'
    BY <1>22, TogglesAssumption
    DEF DisableTor, Goto, policy, toggles, sleep, leases, TypeInv, TypeOK,
        LeaseInv, Toggles, Open
  <1>38. ASSUME NEW c \in Toggles, DropClient(c) PROVE LeaseInv'
    BY <1>38, TogglesAssumption
    DEF DropClient, Goto, policy, toggles, sleep, leases, TypeInv, TypeOK,
        LeaseInv, Toggles, Open
  <1>23. ASSUME NEW intent \in BOOLEAN, SetDormant(intent) PROVE LeaseInv'
    BY <1>23, TogglesAssumption
    DEF SetDormant, policy, toggles, leases, TypeInv, TypeOK, LeaseInv,
        Toggles, Open
  <1>24. CASE ApplyDormant
    BY <1>24, TogglesAssumption
    DEF ApplyDormant, policy, toggles, leases, TypeInv, TypeOK, LeaseInv,
        Toggles, Open
  <1>25. ASSUME NEW r \in Requests, ProbeDesired(r) PROVE LeaseInv'
    BY <1>25, TogglesAssumption
    DEF ProbeDesired, Move, policy, toggles, sleep, leases, TypeInv, TypeOK,
        LeaseInv, Toggles, Open
  <1>26. ASSUME NEW r \in Requests, ProbeStatus(r) PROVE LeaseInv'
    BY <1>26, TogglesAssumption
    DEF ProbeStatus, Move, policy, toggles, sleep, leases, TypeInv, TypeOK,
        LeaseInv, Toggles, Open
  <1>27. ASSUME NEW r \in Requests, StopWaiting(r) PROVE LeaseInv'
    BY <1>27, TogglesAssumption
    DEF StopWaiting, Move, policy, toggles, sleep, leases, TypeInv, TypeOK,
        LeaseInv, Toggles, Open
  <1>28. ASSUME NEW r \in Requests, CountLease(r) PROVE LeaseInv'
    BY <1>28, TogglesAssumption
    DEF CountLease, Move, policy, toggles, sleep, leases, TypeInv, TypeOK,
        LeaseInv, Toggles, Open
  <1>29. ASSUME NEW r \in Requests, LoadEpoch(r) PROVE LeaseInv'
    BY <1>29, TogglesAssumption
    DEF LoadEpoch, Move, policy, toggles, sleep, leases, TypeInv, TypeOK,
        LeaseInv, Toggles, Open
  <1>30. ASSUME NEW r \in Requests, Poll(r) PROVE LeaseInv'
    BY <1>30, TogglesAssumption
    DEF Poll, Move, policy, toggles, sleep, leases, TypeInv, TypeOK, LeaseInv,
        Toggles, Open, WakersFree
  <1>31. ASSUME NEW r \in Requests, PerformIO(r) PROVE LeaseInv'
    BY <1>31, TogglesAssumption
    DEF PerformIO, Move, policy, toggles, sleep, leases, TypeInv, TypeOK,
        LeaseInv, Toggles, Open
  <1>32. ASSUME NEW r \in Requests, SocketReady(r) PROVE LeaseInv'
    BY <1>32, TogglesAssumption
    DEF SocketReady, Move, policy, toggles, sleep, leases, TypeInv, TypeOK,
        LeaseInv, Toggles, Open
  <1>33. ASSUME NEW r \in Requests, LetGo(r) PROVE LeaseInv'
    BY <1>33, TogglesAssumption
    DEF LetGo, Move, policy, toggles, sleep, leases, TypeInv, TypeOK,
        LeaseInv, Toggles, Open
  <1>34. ASSUME NEW r \in Requests, RemoveWaker(r) PROVE LeaseInv'
    BY <1>34, TogglesAssumption
    DEF RemoveWaker, Move, policy, toggles, sleep, leases, TypeInv, TypeOK,
        LeaseInv, Toggles, Open
  <1>35. ASSUME NEW r \in Requests, DropLease(r) PROVE LeaseInv'
    BY <1>35, TogglesAssumption
    DEF DropLease, Move, policy, toggles, sleep, leases, TypeInv, TypeOK,
        LeaseInv, Toggles, Open
  <1>36. ASSUME NEW r \in Requests, NotifyDrained(r) PROVE LeaseInv'
    BY <1>36, TogglesAssumption
    DEF NotifyDrained, Move, policy, toggles, sleep, leases, TypeInv, TypeOK,
        LeaseInv, Toggles, Open
  <1>37. CASE UNCHANGED vars
    BY <1>37
    DEF vars, policy, toggles, sleep, leases, TypeInv, TypeOK, LeaseInv,
        Toggles, Open
  <1> QED
    BY <1>1, <1>2, <1>3, <1>4, <1>5, <1>6, <1>7, <1>8, <1>9, <1>10, 
       <1>11, <1>12, <1>13, <1>14, <1>15, <1>16, <1>17, <1>18, 
       <1>19, <1>20, <1>21, <1>22, <1>23, <1>24, <1>25, <1>26, 
       <1>27, <1>28, <1>29, <1>30, <1>31, <1>32, <1>33, <1>34, 
       <1>35, <1>36, <1>37, <1>38
       DEF Next, Toggle, Proceed, Dormancy, Route, Lease

(* A direct connection that a switch to Tor cancelled does no I/O again and *)
(* parks nowhere it would not be woken from, also when the route has       *)
(* become direct again meanwhile.                                          *)
THEOREM CutOffCorrect == Spec => []DirectCutOff
  <1>1. Init => LeaseInv
    BY DEF Init, LeaseInv, Open
  <1>2. LeaseInv => DirectCutOff
    BY DEF LeaseInv, DirectCutOff
  <1> QED BY <1>1, <1>2, LeaseStep, TypeInvCorrect, PTL DEF Spec

-----------------------------------------------------------------------------
(* A drain that waits is notified by the last connection.                  *)
LEMMA DrainStep == TypeInv /\ NoMissedDrain /\ [Next]_vars => NoMissedDrain'
  <1> SUFFICES ASSUME TypeInv, NoMissedDrain, [Next]_vars PROVE NoMissedDrain'
    OBVIOUS
  <1>1. ASSUME NEW c \in Toggles, StartToggle(c) PROVE NoMissedDrain'
    BY <1>1
    DEF StartToggle, Goto, policy, toggles, sleep, leases, TypeInv, TypeOK,
        NoMissedDrain
  <1>2. ASSUME NEW c \in Toggles, RefuseToggle(c) PROVE NoMissedDrain'
    BY <1>2
    DEF RefuseToggle, Goto, policy, toggles, sleep, leases, TypeInv, TypeOK,
        NoMissedDrain
  <1>3. ASSUME NEW c \in Toggles, Superseded(c) PROVE NoMissedDrain'
    BY <1>3
    DEF Superseded, Goto, policy, toggles, sleep, leases, TypeInv, TypeOK,
        NoMissedDrain
  <1>4. ASSUME NEW c \in Toggles, BreakOff(c) PROVE NoMissedDrain'
    BY <1>4
    DEF BreakOff, Goto, policy, toggles, sleep, leases, TypeInv, TypeOK,
        NoMissedDrain
  <1>5. ASSUME NEW c \in Toggles, FailEnable(c) PROVE NoMissedDrain'
    BY <1>5
    DEF FailEnable, SetTorFailed, Goto, policy, toggles, sleep, leases,
        TypeInv, TypeOK, NoMissedDrain
  <1>6. ASSUME NEW c \in Toggles, CallEnable(c) PROVE NoMissedDrain'
    BY <1>6
    DEF CallEnable, Goto, policy, toggles, sleep, leases, TypeInv, TypeOK,
        NoMissedDrain
  <1>7. ASSUME NEW c \in Toggles, CallDisable(c) PROVE NoMissedDrain'
    BY <1>7
    DEF CallDisable, Goto, policy, toggles, sleep, leases, TypeInv, TypeOK,
        NoMissedDrain
  <1>8. ASSUME NEW c \in Toggles, BeginDesired(c) PROVE NoMissedDrain'
    BY <1>8
    DEF BeginDesired, Goto, policy, toggles, sleep, leases, TypeInv, TypeOK,
        NoMissedDrain
  <1>9. ASSUME NEW c \in Toggles, BeginCancel(c) PROVE NoMissedDrain'
    BY <1>9
    DEF BeginCancel, Goto, policy, toggles, sleep, leases, TypeInv, TypeOK,
        NoMissedDrain
  <1>10. ASSUME NEW c \in Toggles, BeginClear(c) PROVE NoMissedDrain'
    BY <1>10
    DEF BeginClear, Goto, policy, toggles, sleep, leases, TypeInv, TypeOK,
        NoMissedDrain
  <1>11. ASSUME NEW c \in Toggles, DrainCheck(c) PROVE NoMissedDrain'
    BY <1>11
    DEF DrainCheck, Goto, policy, toggles, sleep, leases, TypeInv, TypeOK,
        NoMissedDrain
  <1>12. ASSUME NEW c \in Toggles, EnableTor(c) PROVE NoMissedDrain'
    BY <1>12
    DEF EnableTor, Goto, policy, toggles, sleep, leases, TypeInv, TypeOK,
        NoMissedDrain
  <1>13. ASSUME NEW c \in Toggles, AcquireInit(c) PROVE NoMissedDrain'
    BY <1>13
    DEF AcquireInit, Goto, policy, toggles, sleep, leases, TypeInv, TypeOK,
        NoMissedDrain
  <1>14. ASSUME NEW c \in Toggles, AcquireTimeout(c) PROVE NoMissedDrain'
    BY <1>14
    DEF AcquireTimeout, Goto, policy, toggles, sleep, leases, TypeInv, TypeOK,
        NoMissedDrain
  <1>15. ASSUME NEW c \in Toggles, NothingToBootstrap(c) PROVE NoMissedDrain'
    BY <1>15
    DEF NothingToBootstrap, Goto, policy, toggles, sleep, leases, TypeInv,
        TypeOK, NoMissedDrain
  <1>16. ASSUME NEW c \in Toggles, StillDesired(c) PROVE NoMissedDrain'
    BY <1>16
    DEF StillDesired, Goto, policy, toggles, sleep, leases, TypeInv, TypeOK,
        NoMissedDrain
  <1>17. ASSUME NEW c \in Toggles, StartBootstrap(c) PROVE NoMissedDrain'
    BY <1>17
    DEF StartBootstrap, Goto, policy, toggles, sleep, leases, TypeInv, TypeOK,
        NoMissedDrain
  <1>18. ASSUME NEW c \in Toggles, BootSucceeds(c) PROVE NoMissedDrain'
    BY <1>18
    DEF BootSucceeds, Goto, policy, toggles, sleep, leases, TypeInv, TypeOK,
        NoMissedDrain
  <1>19. ASSUME NEW c \in Toggles, BootFails(c) PROVE NoMissedDrain'
    BY <1>19
    DEF BootFails, Goto, policy, toggles, sleep, leases, TypeInv, TypeOK,
        NoMissedDrain
  <1>20. ASSUME NEW c \in Toggles, Install(c) PROVE NoMissedDrain'
    BY <1>20
    DEF Install, Goto, policy, toggles, sleep, leases, TypeInv, TypeOK,
        NoMissedDrain
  <1>21. ASSUME NEW c \in Toggles, BootstrapFailed(c) PROVE NoMissedDrain'
    BY <1>21
    DEF BootstrapFailed, SetTorFailed, Goto, policy, toggles, sleep, leases,
        TypeInv, TypeOK, NoMissedDrain
  <1>22. ASSUME NEW c \in Toggles, DisableTor(c) PROVE NoMissedDrain'
    BY <1>22
    DEF DisableTor, Goto, policy, toggles, sleep, leases, TypeInv, TypeOK,
        NoMissedDrain
  <1>38. ASSUME NEW c \in Toggles, DropClient(c) PROVE NoMissedDrain'
    BY <1>38
    DEF DropClient, Goto, policy, toggles, sleep, leases, TypeInv, TypeOK,
        NoMissedDrain
  <1>23. ASSUME NEW intent \in BOOLEAN, SetDormant(intent) PROVE NoMissedDrain'
    BY <1>23
    DEF SetDormant, policy, toggles, leases, TypeInv, TypeOK, NoMissedDrain
  <1>24. CASE ApplyDormant
    BY <1>24
    DEF ApplyDormant, policy, toggles, leases, TypeInv, TypeOK, NoMissedDrain
  <1>25. ASSUME NEW r \in Requests, ProbeDesired(r) PROVE NoMissedDrain'
    BY <1>25
    DEF ProbeDesired, Move, policy, toggles, sleep, leases, TypeInv, TypeOK,
        NoMissedDrain
  <1>26. ASSUME NEW r \in Requests, ProbeStatus(r) PROVE NoMissedDrain'
    BY <1>26
    DEF ProbeStatus, Move, policy, toggles, sleep, leases, TypeInv, TypeOK,
        NoMissedDrain
  <1>27. ASSUME NEW r \in Requests, StopWaiting(r) PROVE NoMissedDrain'
    BY <1>27
    DEF StopWaiting, Move, policy, toggles, sleep, leases, TypeInv, TypeOK,
        NoMissedDrain
  <1>28. ASSUME NEW r \in Requests, CountLease(r) PROVE NoMissedDrain'
    <2>1. active' # 0
      BY <1>28, CountedTyped, CountedFinite DEF CountLease, TypeInv
    <2> QED BY <2>1 DEF NoMissedDrain
  <1>29. ASSUME NEW r \in Requests, LoadEpoch(r) PROVE NoMissedDrain'
    BY <1>29
    DEF LoadEpoch, Move, policy, toggles, sleep, leases, TypeInv, TypeOK,
        NoMissedDrain
  <1>30. ASSUME NEW r \in Requests, Poll(r) PROVE NoMissedDrain'
    BY <1>30
    DEF Poll, Move, policy, toggles, sleep, leases, TypeInv, TypeOK,
        NoMissedDrain
  <1>31. ASSUME NEW r \in Requests, PerformIO(r) PROVE NoMissedDrain'
    BY <1>31
    DEF PerformIO, Move, policy, toggles, sleep, leases, TypeInv, TypeOK,
        NoMissedDrain
  <1>32. ASSUME NEW r \in Requests, SocketReady(r) PROVE NoMissedDrain'
    BY <1>32
    DEF SocketReady, Move, policy, toggles, sleep, leases, TypeInv, TypeOK,
        NoMissedDrain
  <1>33. ASSUME NEW r \in Requests, LetGo(r) PROVE NoMissedDrain'
    BY <1>33
    DEF LetGo, Move, policy, toggles, sleep, leases, TypeInv, TypeOK,
        NoMissedDrain
  <1>34. ASSUME NEW r \in Requests, RemoveWaker(r) PROVE NoMissedDrain'
    BY <1>34
    DEF RemoveWaker, Move, policy, toggles, sleep, leases, TypeInv, TypeOK,
        NoMissedDrain
  <1>35. ASSUME NEW r \in Requests, DropLease(r) PROVE NoMissedDrain'
    <2>1. \E to \in {"notifying", "idle"} : Move(r, "removed", to)
      BY <1>35 DEF DropLease
    <2>2. r \in Counted /\ Counted' = Counted \ {r}
      BY <2>1, MoveCounted DEF TypeInv, CountedStates
    <2>3. active \in Nat /\ active >= 1
      BY <2>2, CountedDrops, CountedFinite DEF TypeInv, Counting
    <2>4. active' = 0 => req'[r] = "notifying"
      BY <1>35, <2>3 DEF DropLease, Move, TypeInv, TypeOK
    <2>5. active' = 0 => \E q \in Requests : req'[q] = "notifying"
      BY <2>4
    <2> QED BY <2>5 DEF NoMissedDrain
  <1>36. ASSUME NEW r \in Requests, NotifyDrained(r) PROVE NoMissedDrain'
    BY <1>36
    DEF NotifyDrained, Move, policy, toggles, sleep, leases, TypeInv, TypeOK,
        NoMissedDrain
  <1>37. CASE UNCHANGED vars
    BY <1>37
    DEF vars, policy, toggles, sleep, leases, TypeInv, TypeOK, NoMissedDrain
  <1> QED
    BY <1>1, <1>2, <1>3, <1>4, <1>5, <1>6, <1>7, <1>8, <1>9, <1>10, 
       <1>11, <1>12, <1>13, <1>14, <1>15, <1>16, <1>17, <1>18, 
       <1>19, <1>20, <1>21, <1>22, <1>23, <1>24, <1>25, <1>26, 
       <1>27, <1>28, <1>29, <1>30, <1>31, <1>32, <1>33, <1>34, 
       <1>35, <1>36, <1>37, <1>38
       DEF Next, Toggle, Proceed, Dormancy, Route, Lease

(* No drain sleeps through the close of the last direct connection, for    *)
(* any number of connections opened and dropped around it.                 *)
THEOREM DrainCorrect == Spec => []NoMissedDrain
  <1>1. Init => NoMissedDrain
    BY DEF Init, NoMissedDrain
  <1> QED BY <1>1, DrainStep, TypeInvCorrect, PTL DEF Spec

-----------------------------------------------------------------------------
(* Client and status follow the route.                                     *)
LEMMA OrphanStep == TypeInv /\ NoOrphanClient /\ [Next]_vars => NoOrphanClient'
  <1> SUFFICES ASSUME TypeInv, NoOrphanClient, [Next]_vars PROVE NoOrphanClient'
    OBVIOUS
  <1>1. ASSUME NEW c \in Toggles, StartToggle(c) PROVE NoOrphanClient'
    BY <1>1
    DEF StartToggle, Goto, policy, toggles, sleep, leases, TypeInv, TypeOK,
        NoOrphanClient, SlotFree
  <1>2. ASSUME NEW c \in Toggles, RefuseToggle(c) PROVE NoOrphanClient'
    BY <1>2
    DEF RefuseToggle, Goto, policy, toggles, sleep, leases, TypeInv, TypeOK,
        NoOrphanClient, SlotFree
  <1>3. ASSUME NEW c \in Toggles, Superseded(c) PROVE NoOrphanClient'
    BY <1>3
    DEF Superseded, Goto, policy, toggles, sleep, leases, TypeInv, TypeOK,
        NoOrphanClient, SlotFree
  <1>4. ASSUME NEW c \in Toggles, BreakOff(c) PROVE NoOrphanClient'
    BY <1>4
    DEF BreakOff, Goto, policy, toggles, sleep, leases, TypeInv, TypeOK,
        NoOrphanClient, SlotFree
  <1>5. ASSUME NEW c \in Toggles, FailEnable(c) PROVE NoOrphanClient'
    BY <1>5
    DEF FailEnable, SetTorFailed, Goto, policy, toggles, sleep, leases,
        TypeInv, TypeOK, NoOrphanClient, SlotFree
  <1>6. ASSUME NEW c \in Toggles, CallEnable(c) PROVE NoOrphanClient'
    BY <1>6
    DEF CallEnable, Goto, policy, toggles, sleep, leases, TypeInv, TypeOK,
        NoOrphanClient, SlotFree
  <1>7. ASSUME NEW c \in Toggles, CallDisable(c) PROVE NoOrphanClient'
    BY <1>7
    DEF CallDisable, Goto, policy, toggles, sleep, leases, TypeInv, TypeOK,
        NoOrphanClient, SlotFree
  <1>8. ASSUME NEW c \in Toggles, BeginDesired(c) PROVE NoOrphanClient'
    BY <1>8
    DEF BeginDesired, Goto, policy, toggles, sleep, leases, TypeInv, TypeOK,
        NoOrphanClient, SlotFree
  <1>9. ASSUME NEW c \in Toggles, BeginCancel(c) PROVE NoOrphanClient'
    BY <1>9
    DEF BeginCancel, Goto, policy, toggles, sleep, leases, TypeInv, TypeOK,
        NoOrphanClient, SlotFree
  <1>10. ASSUME NEW c \in Toggles, BeginClear(c) PROVE NoOrphanClient'
    BY <1>10
    DEF BeginClear, Goto, policy, toggles, sleep, leases, TypeInv, TypeOK,
        NoOrphanClient, SlotFree
  <1>11. ASSUME NEW c \in Toggles, DrainCheck(c) PROVE NoOrphanClient'
    BY <1>11
    DEF DrainCheck, Goto, policy, toggles, sleep, leases, TypeInv, TypeOK,
        NoOrphanClient, SlotFree
  <1>12. ASSUME NEW c \in Toggles, EnableTor(c) PROVE NoOrphanClient'
    BY <1>12
    DEF EnableTor, Goto, policy, toggles, sleep, leases, TypeInv, TypeOK,
        NoOrphanClient, SlotFree
  <1>13. ASSUME NEW c \in Toggles, AcquireInit(c) PROVE NoOrphanClient'
    BY <1>13
    DEF AcquireInit, Goto, policy, toggles, sleep, leases, TypeInv, TypeOK,
        NoOrphanClient, SlotFree
  <1>14. ASSUME NEW c \in Toggles, AcquireTimeout(c) PROVE NoOrphanClient'
    BY <1>14
    DEF AcquireTimeout, Goto, policy, toggles, sleep, leases, TypeInv, TypeOK,
        NoOrphanClient, SlotFree
  <1>15. ASSUME NEW c \in Toggles, NothingToBootstrap(c) PROVE NoOrphanClient'
    BY <1>15
    DEF NothingToBootstrap, Goto, policy, toggles, sleep, leases, TypeInv,
        TypeOK, NoOrphanClient, SlotFree
  <1>16. ASSUME NEW c \in Toggles, StillDesired(c) PROVE NoOrphanClient'
    BY <1>16
    DEF StillDesired, Goto, policy, toggles, sleep, leases, TypeInv, TypeOK,
        NoOrphanClient, SlotFree
  <1>17. ASSUME NEW c \in Toggles, StartBootstrap(c) PROVE NoOrphanClient'
    BY <1>17
    DEF StartBootstrap, Goto, policy, toggles, sleep, leases, TypeInv, TypeOK,
        NoOrphanClient, SlotFree
  <1>18. ASSUME NEW c \in Toggles, BootSucceeds(c) PROVE NoOrphanClient'
    BY <1>18
    DEF BootSucceeds, Goto, policy, toggles, sleep, leases, TypeInv, TypeOK,
        NoOrphanClient, SlotFree
  <1>19. ASSUME NEW c \in Toggles, BootFails(c) PROVE NoOrphanClient'
    BY <1>19
    DEF BootFails, Goto, policy, toggles, sleep, leases, TypeInv, TypeOK,
        NoOrphanClient, SlotFree
  <1>20. ASSUME NEW c \in Toggles, Install(c) PROVE NoOrphanClient'
    BY <1>20
    DEF Install, Goto, policy, toggles, sleep, leases, TypeInv, TypeOK,
        NoOrphanClient, SlotFree
  <1>21. ASSUME NEW c \in Toggles, BootstrapFailed(c) PROVE NoOrphanClient'
    BY <1>21
    DEF BootstrapFailed, SetTorFailed, Goto, policy, toggles, sleep, leases,
        TypeInv, TypeOK, NoOrphanClient, SlotFree
  <1>22. ASSUME NEW c \in Toggles, DisableTor(c) PROVE NoOrphanClient'
    BY <1>22
    DEF DisableTor, Goto, policy, toggles, sleep, leases, TypeInv, TypeOK,
        NoOrphanClient, SlotFree
  <1>38. ASSUME NEW c \in Toggles, DropClient(c) PROVE NoOrphanClient'
    BY <1>38
    DEF DropClient, Goto, policy, toggles, sleep, leases, TypeInv, TypeOK,
        NoOrphanClient, SlotFree
  <1>23. ASSUME NEW intent \in BOOLEAN, SetDormant(intent) PROVE NoOrphanClient'
    BY <1>23
    DEF SetDormant, policy, toggles, leases, TypeInv, TypeOK, NoOrphanClient,
        SlotFree
  <1>24. CASE ApplyDormant
    BY <1>24
    DEF ApplyDormant, policy, toggles, leases, TypeInv, TypeOK, NoOrphanClient,
        SlotFree
  <1>25. ASSUME NEW r \in Requests, ProbeDesired(r) PROVE NoOrphanClient'
    BY <1>25
    DEF ProbeDesired, Move, policy, toggles, sleep, leases, TypeInv, TypeOK,
        NoOrphanClient, SlotFree
  <1>26. ASSUME NEW r \in Requests, ProbeStatus(r) PROVE NoOrphanClient'
    BY <1>26
    DEF ProbeStatus, Move, policy, toggles, sleep, leases, TypeInv, TypeOK,
        NoOrphanClient, SlotFree
  <1>27. ASSUME NEW r \in Requests, StopWaiting(r) PROVE NoOrphanClient'
    BY <1>27
    DEF StopWaiting, Move, policy, toggles, sleep, leases, TypeInv, TypeOK,
        NoOrphanClient, SlotFree
  <1>28. ASSUME NEW r \in Requests, CountLease(r) PROVE NoOrphanClient'
    BY <1>28
    DEF CountLease, Move, policy, toggles, sleep, leases, TypeInv, TypeOK,
        NoOrphanClient, SlotFree
  <1>29. ASSUME NEW r \in Requests, LoadEpoch(r) PROVE NoOrphanClient'
    BY <1>29
    DEF LoadEpoch, Move, policy, toggles, sleep, leases, TypeInv, TypeOK,
        NoOrphanClient, SlotFree
  <1>30. ASSUME NEW r \in Requests, Poll(r) PROVE NoOrphanClient'
    BY <1>30
    DEF Poll, Move, policy, toggles, sleep, leases, TypeInv, TypeOK,
        NoOrphanClient, SlotFree
  <1>31. ASSUME NEW r \in Requests, PerformIO(r) PROVE NoOrphanClient'
    BY <1>31
    DEF PerformIO, Move, policy, toggles, sleep, leases, TypeInv, TypeOK,
        NoOrphanClient, SlotFree
  <1>32. ASSUME NEW r \in Requests, SocketReady(r) PROVE NoOrphanClient'
    BY <1>32
    DEF SocketReady, Move, policy, toggles, sleep, leases, TypeInv, TypeOK,
        NoOrphanClient, SlotFree
  <1>33. ASSUME NEW r \in Requests, LetGo(r) PROVE NoOrphanClient'
    BY <1>33
    DEF LetGo, Move, policy, toggles, sleep, leases, TypeInv, TypeOK,
        NoOrphanClient, SlotFree
  <1>34. ASSUME NEW r \in Requests, RemoveWaker(r) PROVE NoOrphanClient'
    BY <1>34
    DEF RemoveWaker, Move, policy, toggles, sleep, leases, TypeInv, TypeOK,
        NoOrphanClient, SlotFree
  <1>35. ASSUME NEW r \in Requests, DropLease(r) PROVE NoOrphanClient'
    BY <1>35
    DEF DropLease, Move, policy, toggles, sleep, leases, TypeInv, TypeOK,
        NoOrphanClient, SlotFree
  <1>36. ASSUME NEW r \in Requests, NotifyDrained(r) PROVE NoOrphanClient'
    BY <1>36
    DEF NotifyDrained, Move, policy, toggles, sleep, leases, TypeInv, TypeOK,
        NoOrphanClient, SlotFree
  <1>37. CASE UNCHANGED vars
    BY <1>37
    DEF vars, policy, toggles, sleep, leases, TypeInv, TypeOK, NoOrphanClient,
        SlotFree
  <1> QED
    BY <1>1, <1>2, <1>3, <1>4, <1>5, <1>6, <1>7, <1>8, <1>9, <1>10, 
       <1>11, <1>12, <1>13, <1>14, <1>15, <1>16, <1>17, <1>18, 
       <1>19, <1>20, <1>21, <1>22, <1>23, <1>24, <1>25, <1>26, 
       <1>27, <1>28, <1>29, <1>30, <1>31, <1>32, <1>33, <1>34, 
       <1>35, <1>36, <1>37, <1>38
       DEF Next, Toggle, Proceed, Dormancy, Route, Lease

(* Whatever toggles overlap, the direct route has no client and no ready   *)
(* status.                                                                 *)
THEOREM NoOrphanCorrect == Spec => []NoOrphanClient
  <1>1. Init => NoOrphanClient
    BY DEF Init, NoOrphanClient
  <1> QED BY <1>1, OrphanStep, TypeInvCorrect, PTL DEF Spec

-----------------------------------------------------------------------------
(* The mode follows the intent.                                            *)
LEMMA DormancyStep == TypeInv /\ DormancyFollowsIntent /\ [Next]_vars => DormancyFollowsIntent'
  <1> SUFFICES ASSUME TypeInv, DormancyFollowsIntent, [Next]_vars PROVE DormancyFollowsIntent'
    OBVIOUS
  <1>1. ASSUME NEW c \in Toggles, StartToggle(c) PROVE DormancyFollowsIntent'
    BY <1>1
    DEF StartToggle, Goto, policy, toggles, sleep, leases, TypeInv, TypeOK,
        DormancyFollowsIntent, PendingDormantMode
  <1>2. ASSUME NEW c \in Toggles, RefuseToggle(c) PROVE DormancyFollowsIntent'
    BY <1>2
    DEF RefuseToggle, Goto, policy, toggles, sleep, leases, TypeInv, TypeOK,
        DormancyFollowsIntent, PendingDormantMode
  <1>3. ASSUME NEW c \in Toggles, Superseded(c) PROVE DormancyFollowsIntent'
    BY <1>3
    DEF Superseded, Goto, policy, toggles, sleep, leases, TypeInv, TypeOK,
        DormancyFollowsIntent, PendingDormantMode
  <1>4. ASSUME NEW c \in Toggles, BreakOff(c) PROVE DormancyFollowsIntent'
    BY <1>4
    DEF BreakOff, Goto, policy, toggles, sleep, leases, TypeInv, TypeOK,
        DormancyFollowsIntent, PendingDormantMode
  <1>5. ASSUME NEW c \in Toggles, FailEnable(c) PROVE DormancyFollowsIntent'
    BY <1>5
    DEF FailEnable, SetTorFailed, Goto, policy, toggles, sleep, leases,
        TypeInv, TypeOK, DormancyFollowsIntent, PendingDormantMode
  <1>6. ASSUME NEW c \in Toggles, CallEnable(c) PROVE DormancyFollowsIntent'
    BY <1>6
    DEF CallEnable, Goto, policy, toggles, sleep, leases, TypeInv, TypeOK,
        DormancyFollowsIntent, PendingDormantMode
  <1>7. ASSUME NEW c \in Toggles, CallDisable(c) PROVE DormancyFollowsIntent'
    BY <1>7
    DEF CallDisable, Goto, policy, toggles, sleep, leases, TypeInv, TypeOK,
        DormancyFollowsIntent, PendingDormantMode
  <1>8. ASSUME NEW c \in Toggles, BeginDesired(c) PROVE DormancyFollowsIntent'
    BY <1>8
    DEF BeginDesired, Goto, policy, toggles, sleep, leases, TypeInv, TypeOK,
        DormancyFollowsIntent, PendingDormantMode
  <1>9. ASSUME NEW c \in Toggles, BeginCancel(c) PROVE DormancyFollowsIntent'
    BY <1>9
    DEF BeginCancel, Goto, policy, toggles, sleep, leases, TypeInv, TypeOK,
        DormancyFollowsIntent, PendingDormantMode
  <1>10. ASSUME NEW c \in Toggles, BeginClear(c) PROVE DormancyFollowsIntent'
    BY <1>10
    DEF BeginClear, Goto, policy, toggles, sleep, leases, TypeInv, TypeOK,
        DormancyFollowsIntent, PendingDormantMode
  <1>11. ASSUME NEW c \in Toggles, DrainCheck(c) PROVE DormancyFollowsIntent'
    BY <1>11
    DEF DrainCheck, Goto, policy, toggles, sleep, leases, TypeInv, TypeOK,
        DormancyFollowsIntent, PendingDormantMode
  <1>12. ASSUME NEW c \in Toggles, EnableTor(c) PROVE DormancyFollowsIntent'
    BY <1>12
    DEF EnableTor, Goto, policy, toggles, sleep, leases, TypeInv, TypeOK,
        DormancyFollowsIntent, PendingDormantMode
  <1>13. ASSUME NEW c \in Toggles, AcquireInit(c) PROVE DormancyFollowsIntent'
    BY <1>13
    DEF AcquireInit, Goto, policy, toggles, sleep, leases, TypeInv, TypeOK,
        DormancyFollowsIntent, PendingDormantMode
  <1>14. ASSUME NEW c \in Toggles, AcquireTimeout(c) PROVE DormancyFollowsIntent'
    BY <1>14
    DEF AcquireTimeout, Goto, policy, toggles, sleep, leases, TypeInv, TypeOK,
        DormancyFollowsIntent, PendingDormantMode
  <1>15. ASSUME NEW c \in Toggles, NothingToBootstrap(c) PROVE DormancyFollowsIntent'
    BY <1>15
    DEF NothingToBootstrap, Goto, policy, toggles, sleep, leases, TypeInv,
        TypeOK, DormancyFollowsIntent, PendingDormantMode
  <1>16. ASSUME NEW c \in Toggles, StillDesired(c) PROVE DormancyFollowsIntent'
    BY <1>16
    DEF StillDesired, Goto, policy, toggles, sleep, leases, TypeInv, TypeOK,
        DormancyFollowsIntent, PendingDormantMode
  <1>17. ASSUME NEW c \in Toggles, StartBootstrap(c) PROVE DormancyFollowsIntent'
    BY <1>17
    DEF StartBootstrap, Goto, policy, toggles, sleep, leases, TypeInv, TypeOK,
        DormancyFollowsIntent, PendingDormantMode
  <1>18. ASSUME NEW c \in Toggles, BootSucceeds(c) PROVE DormancyFollowsIntent'
    BY <1>18
    DEF BootSucceeds, Goto, policy, toggles, sleep, leases, TypeInv, TypeOK,
        DormancyFollowsIntent, PendingDormantMode
  <1>19. ASSUME NEW c \in Toggles, BootFails(c) PROVE DormancyFollowsIntent'
    BY <1>19
    DEF BootFails, Goto, policy, toggles, sleep, leases, TypeInv, TypeOK,
        DormancyFollowsIntent, PendingDormantMode
  <1>20. ASSUME NEW c \in Toggles, Install(c) PROVE DormancyFollowsIntent'
    BY <1>20
    DEF Install, Goto, policy, toggles, sleep, leases, TypeInv, TypeOK,
        DormancyFollowsIntent, PendingDormantMode
  <1>21. ASSUME NEW c \in Toggles, BootstrapFailed(c) PROVE DormancyFollowsIntent'
    BY <1>21
    DEF BootstrapFailed, SetTorFailed, Goto, policy, toggles, sleep, leases,
        TypeInv, TypeOK, DormancyFollowsIntent, PendingDormantMode
  <1>22. ASSUME NEW c \in Toggles, DisableTor(c) PROVE DormancyFollowsIntent'
    BY <1>22
    DEF DisableTor, Goto, policy, toggles, sleep, leases, TypeInv, TypeOK,
        DormancyFollowsIntent, PendingDormantMode
  <1>38. ASSUME NEW c \in Toggles, DropClient(c) PROVE DormancyFollowsIntent'
    BY <1>38
    DEF DropClient, Goto, policy, toggles, sleep, leases, TypeInv, TypeOK,
        DormancyFollowsIntent, PendingDormantMode
  <1>23. ASSUME NEW intent \in BOOLEAN, SetDormant(intent) PROVE DormancyFollowsIntent'
    BY <1>23
    DEF SetDormant, policy, toggles, leases, TypeInv, TypeOK,
        DormancyFollowsIntent, PendingDormantMode
  <1>24. CASE ApplyDormant
    BY <1>24
    DEF ApplyDormant, policy, toggles, leases, TypeInv, TypeOK,
        DormancyFollowsIntent, PendingDormantMode
  <1>25. ASSUME NEW r \in Requests, ProbeDesired(r) PROVE DormancyFollowsIntent'
    BY <1>25
    DEF ProbeDesired, Move, policy, toggles, sleep, leases, TypeInv, TypeOK,
        DormancyFollowsIntent, PendingDormantMode
  <1>26. ASSUME NEW r \in Requests, ProbeStatus(r) PROVE DormancyFollowsIntent'
    BY <1>26
    DEF ProbeStatus, Move, policy, toggles, sleep, leases, TypeInv, TypeOK,
        DormancyFollowsIntent, PendingDormantMode
  <1>27. ASSUME NEW r \in Requests, StopWaiting(r) PROVE DormancyFollowsIntent'
    BY <1>27
    DEF StopWaiting, Move, policy, toggles, sleep, leases, TypeInv, TypeOK,
        DormancyFollowsIntent, PendingDormantMode
  <1>28. ASSUME NEW r \in Requests, CountLease(r) PROVE DormancyFollowsIntent'
    BY <1>28
    DEF CountLease, Move, policy, toggles, sleep, leases, TypeInv, TypeOK,
        DormancyFollowsIntent, PendingDormantMode
  <1>29. ASSUME NEW r \in Requests, LoadEpoch(r) PROVE DormancyFollowsIntent'
    BY <1>29
    DEF LoadEpoch, Move, policy, toggles, sleep, leases, TypeInv, TypeOK,
        DormancyFollowsIntent, PendingDormantMode
  <1>30. ASSUME NEW r \in Requests, Poll(r) PROVE DormancyFollowsIntent'
    BY <1>30
    DEF Poll, Move, policy, toggles, sleep, leases, TypeInv, TypeOK,
        DormancyFollowsIntent, PendingDormantMode
  <1>31. ASSUME NEW r \in Requests, PerformIO(r) PROVE DormancyFollowsIntent'
    BY <1>31
    DEF PerformIO, Move, policy, toggles, sleep, leases, TypeInv, TypeOK,
        DormancyFollowsIntent, PendingDormantMode
  <1>32. ASSUME NEW r \in Requests, SocketReady(r) PROVE DormancyFollowsIntent'
    BY <1>32
    DEF SocketReady, Move, policy, toggles, sleep, leases, TypeInv, TypeOK,
        DormancyFollowsIntent, PendingDormantMode
  <1>33. ASSUME NEW r \in Requests, LetGo(r) PROVE DormancyFollowsIntent'
    BY <1>33
    DEF LetGo, Move, policy, toggles, sleep, leases, TypeInv, TypeOK,
        DormancyFollowsIntent, PendingDormantMode
  <1>34. ASSUME NEW r \in Requests, RemoveWaker(r) PROVE DormancyFollowsIntent'
    BY <1>34
    DEF RemoveWaker, Move, policy, toggles, sleep, leases, TypeInv, TypeOK,
        DormancyFollowsIntent, PendingDormantMode
  <1>35. ASSUME NEW r \in Requests, DropLease(r) PROVE DormancyFollowsIntent'
    BY <1>35
    DEF DropLease, Move, policy, toggles, sleep, leases, TypeInv, TypeOK,
        DormancyFollowsIntent, PendingDormantMode
  <1>36. ASSUME NEW r \in Requests, NotifyDrained(r) PROVE DormancyFollowsIntent'
    BY <1>36
    DEF NotifyDrained, Move, policy, toggles, sleep, leases, TypeInv, TypeOK,
        DormancyFollowsIntent, PendingDormantMode
  <1>37. CASE UNCHANGED vars
    BY <1>37
    DEF vars, policy, toggles, sleep, leases, TypeInv, TypeOK,
        DormancyFollowsIntent, PendingDormantMode
  <1> QED
    BY <1>1, <1>2, <1>3, <1>4, <1>5, <1>6, <1>7, <1>8, <1>9, <1>10, 
       <1>11, <1>12, <1>13, <1>14, <1>15, <1>16, <1>17, <1>18, 
       <1>19, <1>20, <1>21, <1>22, <1>23, <1>24, <1>25, <1>26, 
       <1>27, <1>28, <1>29, <1>30, <1>31, <1>32, <1>33, <1>34, 
       <1>35, <1>36, <1>37, <1>38
       DEF Next, Toggle, Proceed, Dormancy, Route, Lease

(* A client is in the mode of the latest intent as soon as the call that   *)
(* stated it has returned, whether it was installed before, during or      *)
(* after the call.                                                         *)
THEOREM DormancyCorrect == Spec => []DormancyFollowsIntent
  <1>1. Init => DormancyFollowsIntent
    BY DEF Init, DormancyFollowsIntent
  <1> QED BY <1>1, DormancyStep, TypeInvCorrect, PTL DEF Spec

-----------------------------------------------------------------------------
(* An outcome is never owed by nobody.                                     *)
LEMMA OwedStep == TypeInv /\ Owed /\ [Next]_vars => Owed'
  <1> SUFFICES ASSUME TypeInv, Owed, [Next]_vars PROVE Owed'
    OBVIOUS
  <1>1. ASSUME NEW c \in Toggles, StartToggle(c) PROVE Owed'
    BY <1>1
    DEF StartToggle, Goto, policy, toggles, sleep, leases, TypeInv, TypeOK,
        Numbering, Owed, Refused, Concluded, SlotFree, InBootstrap, Toggles,
        Beginning
  <1>2. ASSUME NEW c \in Toggles, RefuseToggle(c) PROVE Owed'
    BY <1>2
    DEF RefuseToggle, Goto, policy, toggles, sleep, leases, TypeInv, TypeOK,
        Numbering, Owed, Refused, Concluded, SlotFree, InBootstrap, Toggles,
        Beginning
  <1>3. ASSUME NEW c \in Toggles, Superseded(c) PROVE Owed'
    BY <1>3
    DEF Superseded, Goto, policy, toggles, sleep, leases, TypeInv, TypeOK,
        Numbering, Owed, Refused, Concluded, SlotFree, InBootstrap, Toggles,
        Beginning
  <1>4. ASSUME NEW c \in Toggles, BreakOff(c) PROVE Owed'
    BY <1>4
    DEF BreakOff, Goto, policy, toggles, sleep, leases, TypeInv, TypeOK,
        Numbering, Owed, Refused, Concluded, SlotFree, InBootstrap, Toggles,
        Beginning
  <1>5. ASSUME NEW c \in Toggles, FailEnable(c) PROVE Owed'
    BY <1>5
    DEF FailEnable, SetTorFailed, Goto, policy, toggles, sleep, leases,
        TypeInv, TypeOK, Numbering, Owed, Refused, Concluded, SlotFree,
        InBootstrap, Toggles, Beginning
  <1>6. ASSUME NEW c \in Toggles, CallEnable(c) PROVE Owed'
    BY <1>6
    DEF CallEnable, Goto, policy, toggles, sleep, leases, TypeInv, TypeOK,
        Numbering, Owed, Refused, Concluded, SlotFree, InBootstrap, Toggles,
        Beginning
  <1>7. ASSUME NEW c \in Toggles, CallDisable(c) PROVE Owed'
    BY <1>7
    DEF CallDisable, Goto, policy, toggles, sleep, leases, TypeInv, TypeOK,
        Numbering, Owed, Refused, Concluded, SlotFree, InBootstrap, Toggles,
        Beginning
  <1>8. ASSUME NEW c \in Toggles, BeginDesired(c) PROVE Owed'
    BY <1>8
    DEF BeginDesired, Goto, policy, toggles, sleep, leases, TypeInv, TypeOK,
        Numbering, Owed, Refused, Concluded, SlotFree, InBootstrap, Toggles,
        Beginning
  <1>9. ASSUME NEW c \in Toggles, BeginCancel(c) PROVE Owed'
    BY <1>9
    DEF BeginCancel, Goto, policy, toggles, sleep, leases, TypeInv, TypeOK,
        Numbering, Owed, Refused, Concluded, SlotFree, InBootstrap, Toggles,
        Beginning
  <1>10. ASSUME NEW c \in Toggles, BeginClear(c) PROVE Owed'
    BY <1>10
    DEF BeginClear, Goto, policy, toggles, sleep, leases, TypeInv, TypeOK,
        Numbering, Owed, Refused, Concluded, SlotFree, InBootstrap, Toggles,
        Beginning
  <1>11. ASSUME NEW c \in Toggles, DrainCheck(c) PROVE Owed'
    BY <1>11
    DEF DrainCheck, Goto, policy, toggles, sleep, leases, TypeInv, TypeOK,
        Numbering, Owed, Refused, Concluded, SlotFree, InBootstrap, Toggles,
        Beginning
  <1>12. ASSUME NEW c \in Toggles, EnableTor(c) PROVE Owed'
    BY <1>12
    DEF EnableTor, Goto, policy, toggles, sleep, leases, TypeInv, TypeOK,
        Numbering, Owed, Refused, Concluded, SlotFree, InBootstrap, Toggles,
        Beginning
  <1>13. ASSUME NEW c \in Toggles, AcquireInit(c) PROVE Owed'
    BY <1>13
    DEF AcquireInit, Goto, policy, toggles, sleep, leases, TypeInv, TypeOK,
        Numbering, Owed, Refused, Concluded, SlotFree, InBootstrap, Toggles,
        Beginning
  <1>14. ASSUME NEW c \in Toggles, AcquireTimeout(c) PROVE Owed'
    BY <1>14
    DEF AcquireTimeout, Goto, policy, toggles, sleep, leases, TypeInv, TypeOK,
        Numbering, Owed, Refused, Concluded, SlotFree, InBootstrap, Toggles,
        Beginning
  <1>15. ASSUME NEW c \in Toggles, NothingToBootstrap(c) PROVE Owed'
    BY <1>15
    DEF NothingToBootstrap, Goto, policy, toggles, sleep, leases, TypeInv,
        TypeOK, Numbering, Owed, Refused, Concluded, SlotFree, InBootstrap,
        Toggles, Beginning
  <1>16. ASSUME NEW c \in Toggles, StillDesired(c) PROVE Owed'
    BY <1>16
    DEF StillDesired, Goto, policy, toggles, sleep, leases, TypeInv, TypeOK,
        Numbering, Owed, Refused, Concluded, SlotFree, InBootstrap, Toggles,
        Beginning
  <1>17. ASSUME NEW c \in Toggles, StartBootstrap(c) PROVE Owed'
    BY <1>17
    DEF StartBootstrap, Goto, policy, toggles, sleep, leases, TypeInv, TypeOK,
        Numbering, Owed, Refused, Concluded, SlotFree, InBootstrap, Toggles,
        Beginning
  <1>18. ASSUME NEW c \in Toggles, BootSucceeds(c) PROVE Owed'
    BY <1>18
    DEF BootSucceeds, Goto, policy, toggles, sleep, leases, TypeInv, TypeOK,
        Numbering, Owed, Refused, Concluded, SlotFree, InBootstrap, Toggles,
        Beginning
  <1>19. ASSUME NEW c \in Toggles, BootFails(c) PROVE Owed'
    BY <1>19
    DEF BootFails, Goto, policy, toggles, sleep, leases, TypeInv, TypeOK,
        Numbering, Owed, Refused, Concluded, SlotFree, InBootstrap, Toggles,
        Beginning
  <1>20. ASSUME NEW c \in Toggles, Install(c) PROVE Owed'
    BY <1>20
    DEF Install, Goto, policy, toggles, sleep, leases, TypeInv, TypeOK,
        Numbering, Owed, Refused, Concluded, SlotFree, InBootstrap, Toggles,
        Beginning, PendingDormantMode
  <1>21. ASSUME NEW c \in Toggles, BootstrapFailed(c) PROVE Owed'
    BY <1>21
    DEF BootstrapFailed, SetTorFailed, Goto, policy, toggles, sleep, leases,
        TypeInv, TypeOK, Numbering, Owed, Refused, Concluded, SlotFree,
        InBootstrap, Toggles, Beginning
  <1>22. ASSUME NEW c \in Toggles, DisableTor(c) PROVE Owed'
    BY <1>22
    DEF DisableTor, Goto, policy, toggles, sleep, leases, TypeInv, TypeOK,
        Numbering, Owed, Refused, Concluded, SlotFree, InBootstrap, Toggles,
        Beginning
  <1>38. ASSUME NEW c \in Toggles, DropClient(c) PROVE Owed'
    BY <1>38
    DEF DropClient, Goto, policy, toggles, sleep, leases, TypeInv, TypeOK,
        Numbering, Owed, Refused, Concluded, SlotFree, InBootstrap, Toggles,
        Beginning
  <1>23. ASSUME NEW intent \in BOOLEAN, SetDormant(intent) PROVE Owed'
    BY <1>23
    DEF SetDormant, policy, toggles, leases, TypeInv, TypeOK, Numbering, Owed,
        Refused, Concluded, SlotFree, InBootstrap, Toggles, Beginning
  <1>24. CASE ApplyDormant
    BY <1>24
    DEF ApplyDormant, policy, toggles, leases, TypeInv, TypeOK, Numbering,
        Owed, Refused, Concluded, SlotFree, InBootstrap, Toggles, Beginning,
        PendingDormantMode
  <1>25. ASSUME NEW r \in Requests, ProbeDesired(r) PROVE Owed'
    BY <1>25
    DEF ProbeDesired, Move, policy, toggles, sleep, leases, TypeInv, TypeOK,
        Numbering, Owed, Refused, Concluded, SlotFree, InBootstrap, Toggles,
        Beginning
  <1>26. ASSUME NEW r \in Requests, ProbeStatus(r) PROVE Owed'
    BY <1>26
    DEF ProbeStatus, Move, policy, toggles, sleep, leases, TypeInv, TypeOK,
        Numbering, Owed, Refused, Concluded, SlotFree, InBootstrap, Toggles,
        Beginning
  <1>27. ASSUME NEW r \in Requests, StopWaiting(r) PROVE Owed'
    BY <1>27
    DEF StopWaiting, Move, policy, toggles, sleep, leases, TypeInv, TypeOK,
        Numbering, Owed, Refused, Concluded, SlotFree, InBootstrap, Toggles,
        Beginning
  <1>28. ASSUME NEW r \in Requests, CountLease(r) PROVE Owed'
    BY <1>28
    DEF CountLease, Move, policy, toggles, sleep, leases, TypeInv, TypeOK,
        Numbering, Owed, Refused, Concluded, SlotFree, InBootstrap, Toggles,
        Beginning
  <1>29. ASSUME NEW r \in Requests, LoadEpoch(r) PROVE Owed'
    BY <1>29
    DEF LoadEpoch, Move, policy, toggles, sleep, leases, TypeInv, TypeOK,
        Numbering, Owed, Refused, Concluded, SlotFree, InBootstrap, Toggles,
        Beginning
  <1>30. ASSUME NEW r \in Requests, Poll(r) PROVE Owed'
    BY <1>30
    DEF Poll, Move, policy, toggles, sleep, leases, TypeInv, TypeOK, Numbering,
        Owed, Refused, Concluded, SlotFree, InBootstrap, Toggles, Beginning
  <1>31. ASSUME NEW r \in Requests, PerformIO(r) PROVE Owed'
    BY <1>31
    DEF PerformIO, Move, policy, toggles, sleep, leases, TypeInv, TypeOK,
        Numbering, Owed, Refused, Concluded, SlotFree, InBootstrap, Toggles,
        Beginning
  <1>32. ASSUME NEW r \in Requests, SocketReady(r) PROVE Owed'
    BY <1>32
    DEF SocketReady, Move, policy, toggles, sleep, leases, TypeInv, TypeOK,
        Numbering, Owed, Refused, Concluded, SlotFree, InBootstrap, Toggles,
        Beginning
  <1>33. ASSUME NEW r \in Requests, LetGo(r) PROVE Owed'
    BY <1>33
    DEF LetGo, Move, policy, toggles, sleep, leases, TypeInv, TypeOK,
        Numbering, Owed, Refused, Concluded, SlotFree, InBootstrap, Toggles,
        Beginning
  <1>34. ASSUME NEW r \in Requests, RemoveWaker(r) PROVE Owed'
    BY <1>34
    DEF RemoveWaker, Move, policy, toggles, sleep, leases, TypeInv, TypeOK,
        Numbering, Owed, Refused, Concluded, SlotFree, InBootstrap, Toggles,
        Beginning
  <1>35. ASSUME NEW r \in Requests, DropLease(r) PROVE Owed'
    BY <1>35
    DEF DropLease, Move, policy, toggles, sleep, leases, TypeInv, TypeOK,
        Numbering, Owed, Refused, Concluded, SlotFree, InBootstrap, Toggles,
        Beginning
  <1>36. ASSUME NEW r \in Requests, NotifyDrained(r) PROVE Owed'
    BY <1>36
    DEF NotifyDrained, Move, policy, toggles, sleep, leases, TypeInv, TypeOK,
        Numbering, Owed, Refused, Concluded, SlotFree, InBootstrap, Toggles,
        Beginning
  <1>37. CASE UNCHANGED vars
    BY <1>37
    DEF vars, policy, toggles, sleep, leases, TypeInv, TypeOK, Numbering,
        Owed, Refused, Concluded, SlotFree, InBootstrap, Toggles, Beginning
  <1> QED
    BY <1>1, <1>2, <1>3, <1>4, <1>5, <1>6, <1>7, <1>8, <1>9, <1>10, 
       <1>11, <1>12, <1>13, <1>14, <1>15, <1>16, <1>17, <1>18, 
       <1>19, <1>20, <1>21, <1>22, <1>23, <1>24, <1>25, <1>26, 
       <1>27, <1>28, <1>29, <1>30, <1>31, <1>32, <1>33, <1>34, 
       <1>35, <1>36, <1>37, <1>38
       DEF Next, Toggle, Proceed, Dormancy, Route, Lease

(* A policy without an outcome has somebody who is under way to give it    *)
(* one, however toggles overlap, or the newest toggle was refused: only a   *)
(* refusal leaves a bootstrapping status to requests to wait out with      *)
(* nobody behind it (bootstrap_tor, fail_tor_enable).                      *)
THEOREM OutcomeOwed == Spec => []Owed
  <1>1. Init => Owed
    BY DEF Init, Owed, Concluded
  <1>2. TypeInv /\ Owed /\ [Next]_vars => Owed'
    BY OwedStep
  <1> QED BY <1>1, <1>2, TypeInvCorrect, PTL DEF Spec

(* When every toggle has ended and the newest was not refused, the policy  *)
(* has an outcome however they overlapped.                                 *)
THEOREM SettledCorrect == Spec => []UnrefusedRouteSettles
  <1>1. Owed => UnrefusedRouteSettles
    BY DEF Owed, UnrefusedRouteSettles, Settled, Concluded, InBootstrap
  <1> QED BY <1>1, OutcomeOwed, PTL

-----------------------------------------------------------------------------
(* How far a toggle is on its way to done.                                 *)
Rank ==
    [idle |-> 0, preflight |-> 1, undo |-> 1, beginning |-> 2, clearing |-> 3,
     begun |-> 4, draining |-> 5, drained |-> 6, called |-> 7, locking |-> 8,
     locked |-> 9, checked |-> 10, booting |-> 11, publishing |-> 12,
     failing |-> 12, broken |-> 13, disabling |-> 13, dropping |-> 14,
     refused |-> 15, done |-> 15]

(* A toggle stays where it is, moves on, or is told that the last direct   *)
(* connection closed and counts again.                                     *)
Onward(c) ==
    \/ pc'[c] = pc[c]
    \/ Rank[pc[c]] < Rank[pc'[c]]
    \/ /\ pc[c] = "draining" /\ pc'[c] = "begun"
       /\ \E r \in Requests : NotifyDrained(r)

LEMMA GotoOnward ==
  ASSUME TypeOK, NEW c \in Toggles, NEW from, NEW to, Goto(c, from, to),
         Rank[from] < Rank[to]
  PROVE  \A d \in Toggles : Onward(d)
  BY DEF TypeOK, Goto, Onward

LEMMA ToggleOnward ==
  ASSUME TypeOK, NEW c \in Toggles, Toggle(c)
  PROVE  \A d \in Toggles : Onward(d)
  <1>1. CASE StartToggle(c)
    <2>1. Goto(c, "idle", "preflight") \/ Goto(c, "idle", "undo")
      BY <1>1 DEF StartToggle
    <2>2. Rank["idle"] < Rank["preflight"] /\ Rank["idle"] < Rank["undo"]
      BY DEF Rank
    <2> QED BY <2>1, <2>2, GotoOnward
  <1>2. CASE \/ Superseded(c) \/ RefuseToggle(c) \/ FailEnable(c)
             \/ NothingToBootstrap(c) \/ Install(c) \/ DropClient(c)
    <2>1. PICK from \in {"preflight", "undo", "drained", "broken", "locked",
                         "checked", "publishing", "dropping"} :
              Goto(c, from, "done") \/ Goto(c, from, "refused")
      BY <1>2 DEF Superseded, RefuseToggle, FailEnable, NothingToBootstrap,
                  Install, DropClient
    <2>2. Rank[from] < Rank["done"] /\ Rank[from] < Rank["refused"]
      BY <2>1 DEF Rank
    <2> QED BY <2>1, <2>2, GotoOnward
  <1>3. CASE BreakOff(c) \/ AcquireTimeout(c) \/ BootstrapFailed(c)
    <2>1. PICK from \in {"draining", "drained", "locking", "failing"} :
              Goto(c, from, "broken")
      BY <1>3 DEF BreakOff, AcquireTimeout, BootstrapFailed
    <2>2. Rank[from] < Rank["broken"]
      BY <2>1 DEF Rank
    <2> QED BY <2>1, <2>2, GotoOnward
  <1>4. CASE \/ CallEnable(c) \/ CallDisable(c) \/ DisableTor(c)
             \/ EnableTor(c) \/ AcquireInit(c)
    <2>1. \/ Goto(c, "drained", "called") \/ Goto(c, "undo", "disabling")
          \/ Goto(c, "disabling", "dropping")
          \/ Goto(c, "called", "locking") \/ Goto(c, "locking", "locked")
      BY <1>4 DEF CallEnable, CallDisable, DisableTor, EnableTor, AcquireInit
    <2>2. /\ Rank["drained"] < Rank["called"] /\ Rank["undo"] < Rank["disabling"]
          /\ Rank["disabling"] < Rank["dropping"]
          /\ Rank["called"] < Rank["locking"] /\ Rank["locking"] < Rank["locked"]
      BY DEF Rank
    <2> QED BY <2>1, <2>2, GotoOnward
  <1>5. CASE BeginDesired(c) \/ BeginCancel(c) \/ BeginClear(c) \/ DrainCheck(c)
    <2>1. \/ Goto(c, "preflight", "beginning") \/ Goto(c, "beginning", "clearing")
          \/ Goto(c, "clearing", "begun")
          \/ Goto(c, "begun", "drained") \/ Goto(c, "begun", "draining")
      BY <1>5 DEF BeginDesired, BeginCancel, BeginClear, DrainCheck
    <2>2. /\ Rank["preflight"] < Rank["beginning"]
          /\ Rank["beginning"] < Rank["clearing"] /\ Rank["clearing"] < Rank["begun"]
          /\ Rank["begun"] < Rank["drained"] /\ Rank["begun"] < Rank["draining"]
      BY DEF Rank
    <2> QED BY <2>1, <2>2, GotoOnward
  <1>6. CASE StillDesired(c) \/ StartBootstrap(c) \/ BootSucceeds(c) \/ BootFails(c)
    <2>1. \/ Goto(c, "locked", "checked") \/ Goto(c, "checked", "booting")
          \/ Goto(c, "booting", "publishing") \/ Goto(c, "booting", "failing")
      BY <1>6 DEF StillDesired, StartBootstrap, BootSucceeds, BootFails
    <2>2. /\ Rank["locked"] < Rank["checked"] /\ Rank["checked"] < Rank["booting"]
          /\ Rank["booting"] < Rank["publishing"] /\ Rank["booting"] < Rank["failing"]
      BY DEF Rank
    <2> QED BY <2>1, <2>2, GotoOnward
  <1> QED BY <1>1, <1>2, <1>3, <1>4, <1>5, <1>6 DEF Toggle, Proceed

(* A toggle never goes back, so it is over after a bounded number of its   *)
(* own steps and of notifications that the direct connections closed: the  *)
(* retry of wait_for_direct_connections_to_close is the only loop from the  *)
(* preflight to the end of the bootstrap.  EnableConcludes rests on this   *)
(* and on OutcomeOwed; that connections stop notifying a drain and that    *)
(* fair steps are taken is left to the model checker.                      *)
THEOREM TogglesOnward == Spec => [][\A c \in Toggles : Onward(c)]_vars
  <1>1. ASSUME TypeOK, Next PROVE \A c \in Toggles : Onward(c)
    <2>1. CASE \E c \in Toggles : Toggle(c)
      BY <2>1, ToggleOnward, <1>1
    <2>2. CASE Dormancy
      BY <2>2 DEF Dormancy, SetDormant, ApplyDormant, toggles, Onward
    <2>3. ASSUME NEW r \in Requests, Route(r) PROVE \A c \in Toggles : Onward(c)
      BY <2>3 DEF Route, ProbeDesired, ProbeStatus, StopWaiting, toggles, Onward
    <2>4. ASSUME NEW r \in Requests, Lease(r), ~NotifyDrained(r)
          PROVE  \A c \in Toggles : Onward(c)
      BY <2>4 DEF Lease, CountLease, LoadEpoch, Poll, PerformIO, SocketReady,
                  LetGo, RemoveWaker, DropLease, toggles, Onward
    <2>5. ASSUME NEW r \in Requests, NotifyDrained(r)
          PROVE  \A c \in Toggles : Onward(c)
      <3>1. \A c \in Toggles :
                pc'[c] = IF pc[c] = "draining" THEN "begun" ELSE pc[c]
        BY <2>5 DEF NotifyDrained
      <3> QED BY <2>5, <3>1 DEF Onward
    <2> QED BY <1>1, <2>1, <2>2, <2>3, <2>4, <2>5 DEF Next
  <1>2. TypeOK /\ [Next]_vars => [\A c \in Toggles : Onward(c)]_vars
    BY <1>1
  <1> QED BY <1>2, PolicyTyped, PTL DEF Spec
=============================================================================
