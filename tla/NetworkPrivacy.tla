--------------------------- MODULE NetworkPrivacy ---------------------------
(***************************************************************************)
(* The process-wide network route of the wallet: direct, or Tor.           *)
(*                                                                         *)
(* Route changes ("toggles") are started by the application's notifier,    *)
(* which numbers them; a toggle that is no longer the newest stops at its   *)
(* next check of the number.  Its calls into the route policy run on other *)
(* threads, so two toggles may be inside the policy at once.  Requests ask  *)
(* for the route and, when it is direct, hold a lease on the direct route  *)
(* that a later switch to Tor cancels.                                     *)
(*                                                                         *)
(* What is abstracted: deadlines are steps that may be taken whenever the   *)
(* wait they bound is really long (a running bootstrap, a drain, a route   *)
(* wait), Arti's bootstrap is a choice of its outcome, a client is the      *)
(* dormant mode the wallet last put it into.                               *)
(*                                                                         *)
(* Two locks are not variables.  The client slot's lock: see SlotFree.  The *)
(* waker table's lock: see WakersFree.                                     *)
(***************************************************************************)
EXTENDS Naturals, FiniteSets

CONSTANTS
    MaxToggles,   \* bound: how many route changes the user makes
    Requests      \* requests, each with at most one direct connection

ASSUME TogglesAssumption == MaxToggles \in Nat
ASSUME RequestsAssumption == IsFiniteSet(Requests)

Toggles == 1 .. MaxToggles

VARIABLES
    desired,   \* TOR_DESIRED
    status,    \* TOR_STATUS
    slot,      \* TOR_CLIENT: "none", or the mode of the installed client
    dormant,   \* TOR_DORMANT, the intent of the app's lifecycle
    applying,  \* set_tor_dormant is between storing and applying its intent
    epoch,     \* DIRECT_ROUTE_EPOCH
    initLock,  \* holder of TOR_INIT_LOCK, 0 when it is free
    gen,       \* the notifier's _generation: the newest toggle
    pc,        \* where each toggle is
    active,    \* ACTIVE_DIRECT_IO
    wakers,    \* DIRECT_IO_WAKERS: the leases with a registered waker
    req,       \* where each request is
    leased,    \* the epoch each request's lease captured
    cut        \* history: open leases that a switch to Tor has cancelled

policy == <<desired, status, slot>>
toggles == <<gen, pc, initLock>>
sleep == <<dormant, applying>>
leases == <<active, wakers, req, leased, cut>>
vars == <<policy, sleep, epoch, toggles, leases>>

Status == {"direct", "bootstrapping", "ready", "failed"}

ToggleStates ==
    {"idle", "preflight", "beginning", "clearing", "begun", "draining",
     "drained", "called", "locking", "locked", "checked", "booting",
     "publishing", "failing", "broken", "undo", "disabling", "dropping",
     "refused", "done"}

(* Steps of begin_tor_enable, which the notifier calls synchronously.      *)
Beginning == {"beginning", "clearing"}

RequestStates ==
    {"idle", "tor", "waiting", "direct", "counted", "runnable", "polling",
     "parked", "closing", "removed", "notifying"}

(* The lease has its epoch and is not being dropped.                       *)
Open == {"runnable", "polling", "parked"}

TypeOK ==
    /\ desired \in BOOLEAN
    /\ status \in Status
    /\ slot \in {"none", "normal", "soft"}
    /\ dormant \in BOOLEAN
    /\ applying \in BOOLEAN
    /\ epoch \in 0 .. MaxToggles
    /\ gen \in 0 .. MaxToggles
    /\ initLock \in 0 .. MaxToggles
    /\ pc \in [Toggles -> ToggleStates]
    /\ active \in 0 .. Cardinality(Requests)
    /\ wakers \in SUBSET Requests
    /\ req \in [Requests -> RequestStates]
    /\ leased \in [Requests -> 0 .. MaxToggles]
    /\ cut \in SUBSET Requests

Init ==
    /\ desired = FALSE
    /\ status = "direct"
    /\ slot = "none"
    /\ dormant = FALSE
    /\ applying = FALSE
    /\ epoch = 0
    /\ gen = 0
    /\ initLock = 0
    /\ pc = [c \in Toggles |-> "idle"]
    /\ active = 0
    /\ wakers = {}
    /\ req = [r \in Requests |-> "idle"]
    /\ leased = [r \in Requests |-> 0]
    /\ cut = {}

-----------------------------------------------------------------------------
(* Small vocabulary.                                                       *)

(* Toggle c moves on.                                                      *)
Goto(c, from, to) ==
    /\ pc[c] = from
    /\ pc' = [pc EXCEPT ![c] = to]

(* Request r moves on.                                                     *)
Move(r, from, to) ==
    /\ req[r] = from
    /\ req' = [req EXCEPT ![r] = to]

(* The waker table's lock is held across a poll of a direct connection and *)
(* across the stores that open a switch to Tor.                            *)
WakersFree ==
    /\ \A r \in Requests : req[r] # "polling"
    /\ \A c \in Toggles : pc[c] # "beginning"

(* The client slot's lock is held across the two stores of disable_tor; the *)
(* other sections under it act as one step, as the only store that may fall *)
(* into them makes the route Tor, which they found it to be.               *)
SlotFree == \A c \in Toggles : pc[c] # "dropping"

(* The mode the current intent implies.                                    *)
PendingDormantMode == IF dormant THEN "soft" ELSE "normal"

(* Publishing a failure: the client is dropped, and the status becomes     *)
(* failed only if Tor is still the route.                                  *)
SetTorFailed ==
    /\ SlotFree
    /\ slot' = "none"
    /\ status' = IF desired THEN "failed" ELSE status
    /\ UNCHANGED desired

(* The policy has an outcome: the direct route, a client that is ready, or *)
(* a failure without a client.                                             *)
Concluded ==
    \/ ~desired
    \/ status = "ready" /\ slot # "none"
    \/ status = "failed" /\ slot = "none"

-----------------------------------------------------------------------------
(* The notifier.  It runs on one thread: while it is inside the synchronous *)
(* begin_tor_enable it starts nothing else.                                *)

(* A toggle takes the next generation, and so supersedes the older ones.   *)
StartToggle(c) ==
    /\ c = gen + 1
    /\ \A d \in Toggles : pc[d] \notin Beginning
    /\ gen' = c
    /\ \/ Goto(c, "idle", "preflight")
       \/ Goto(c, "idle", "undo")
    /\ UNCHANGED <<policy, sleep, epoch, initLock, leases>>

(* A toggle that finds itself superseded stops without another change.     *)
Superseded(c) ==
    /\ c # gen
    /\ \A d \in Toggles : pc[d] \notin Beginning
    /\ \E from \in {"preflight", "undo", "drained", "broken"} :
           Goto(c, from, "done")
    /\ UNCHANGED <<policy, sleep, epoch, gen, initLock, leases>>

(* A toggle is refused before it reaches the route policy: the updater's   *)
(* preflight or the saved preference fails, or the sync tasks do not stop  *)
(* before a switch back to direct.  It ends without a call to the policy,  *)
(* also when it superseded an enable that was still on its way.            *)
RefuseToggle(c) ==
    /\ \A d \in Toggles : pc[d] \notin Beginning
    /\ \E from \in {"preflight", "undo"} : Goto(c, from, "refused")
    /\ UNCHANGED <<policy, sleep, epoch, gen, initLock, leases>>

(* The direct drain failed or the sync tasks did not stop: the enable that *)
(* had begun will not reach its bootstrap.                                 *)
BreakOff(c) ==
    /\ \E from \in {"draining", "drained"} : Goto(c, from, "broken")
    /\ UNCHANGED <<policy, sleep, epoch, gen, initLock, leases>>

(* Mutant: the abandoned enable is not published.                          *)
FailEnableUnpublished(c) ==
    /\ c = gen
    /\ Goto(c, "broken", "done")
    /\ UNCHANGED <<policy, sleep, epoch, gen, initLock, leases>>

(* fail_tor_enable, by a toggle that is still the newest.                  *)
FailEnable(c) ==
    /\ c = gen
    /\ Goto(c, "broken", "done")
    /\ SetTorFailed
    /\ UNCHANGED <<sleep, epoch, gen, initLock, leases>>

(* The newest toggle asks for the bootstrap; the call runs elsewhere, and  *)
(* what the notifier does next no longer stops it.                         *)
CallEnable(c) ==
    /\ c = gen
    /\ Goto(c, "drained", "called")
    /\ UNCHANGED <<policy, sleep, epoch, gen, initLock, leases>>

(* The newest toggle asks for the direct route.                            *)
CallDisable(c) ==
    /\ c = gen
    /\ Goto(c, "undo", "disabling")
    /\ UNCHANGED <<policy, sleep, epoch, gen, initLock, leases>>

-----------------------------------------------------------------------------
(* begin_tor_enable: under the waker table's lock the route becomes Tor ... *)
BeginDesired(c) ==
    /\ c = gen
    /\ WakersFree
    /\ Goto(c, "preflight", "beginning")
    /\ desired' = TRUE
    /\ UNCHANGED <<status, slot, sleep, epoch, gen, initLock, leases>>

(* ... the status bootstrapping, every direct lease is cancelled and the    *)
(* parked ones are woken ...                                               *)
BeginCancel(c) ==
    /\ Goto(c, "beginning", "clearing")
    /\ status' = "bootstrapping"
    /\ epoch' = epoch + 1
    /\ req' = [r \in Requests |->
                  IF r \in wakers /\ req[r] = "parked" THEN "runnable"
                                                       ELSE req[r]]
    /\ wakers' = {}
    /\ cut' = cut \cup {r \in Requests : req[r] \in Open}
    /\ UNCHANGED <<desired, slot, sleep, gen, initLock, active, leased>>

(* ... and then, under the slot's lock, the client of an earlier bootstrap *)
(* is dropped.                                                             *)
BeginClear(c) ==
    /\ SlotFree
    /\ Goto(c, "clearing", "begun")
    /\ slot' = "none"
    /\ UNCHANGED <<desired, status, sleep, epoch, gen, initLock, leases>>

(* wait_for_direct_connections_to_close: the notification is armed before  *)
(* the count is read, so one in between only has it read again.            *)
DrainCheck(c) ==
    /\ Goto(c, "begun", IF active = 0 THEN "drained" ELSE "draining")
    /\ UNCHANGED <<policy, sleep, epoch, gen, initLock, leases>>

-----------------------------------------------------------------------------
(* enable_tor and the bootstrap it guards with the init lock.              *)

EnableTor(c) ==
    /\ Goto(c, "called", "locking")
    /\ desired' = TRUE
    /\ UNCHANGED <<status, slot, sleep, epoch, gen, initLock, leases>>

AcquireInit(c) ==
    /\ initLock = 0
    /\ Goto(c, "locking", "locked")
    /\ initLock' = c
    /\ UNCHANGED <<policy, sleep, epoch, gen, leases>>

(* The deadline passes while another bootstrap runs: nothing is published. *)
AcquireTimeout(c) ==
    /\ initLock # 0
    /\ pc[initLock] = "booting"
    /\ Goto(c, "locking", "broken")
    /\ UNCHANGED <<policy, sleep, epoch, gen, initLock, leases>>

(* Mutant: a ready status is believed without looking for the client.      *)
NothingToBootstrapByStatus(c) ==
    /\ \/ ~desired /\ Goto(c, "locked", "done")
       \/ status = "ready" /\ Goto(c, "checked", "done")
    /\ initLock' = 0
    /\ UNCHANGED <<policy, sleep, epoch, gen, leases>>

(* The route went away, or a client is already up: nothing to bootstrap.   *)
NothingToBootstrap(c) ==
    /\ \/ ~desired /\ Goto(c, "locked", "done")
       \/ /\ status = "ready" /\ SlotFree /\ slot # "none"
          /\ Goto(c, "checked", "done")
    /\ initLock' = 0
    /\ UNCHANGED <<policy, sleep, epoch, gen, leases>>

StillDesired(c) ==
    /\ desired
    /\ Goto(c, "locked", "checked")
    /\ UNCHANGED <<policy, sleep, epoch, gen, initLock, leases>>

StartBootstrap(c) ==
    /\ status = "ready" => SlotFree /\ slot = "none"
    /\ Goto(c, "checked", "booting")
    /\ status' = "bootstrapping"
    /\ UNCHANGED <<desired, slot, sleep, epoch, gen, initLock, leases>>

(* The bootstrap ends: it succeeds; it fails, runs out of time or cannot    *)
(* make its directory; or its poll finds that the route is gone.           *)
BootSucceeds(c) ==
    /\ Goto(c, "booting", "publishing")
    /\ UNCHANGED <<policy, sleep, epoch, gen, initLock, leases>>

BootFails(c) ==
    /\ Goto(c, "booting", "failing")
    /\ UNCHANGED <<policy, sleep, epoch, gen, initLock, leases>>

(* Mutants: the route is not read again; the intent is not adopted.        *)
InstallUnchecked(c) ==
    /\ Goto(c, "publishing", "done")
    /\ slot' = PendingDormantMode
    /\ status' = "ready"
    /\ initLock' = 0
    /\ UNCHANGED <<desired, sleep, epoch, gen, leases>>

InstallAwake(c) ==
    /\ Goto(c, "publishing", "done")
    /\ IF desired
         THEN slot' = "normal" /\ status' = "ready"
         ELSE UNCHANGED <<slot, status>>
    /\ initLock' = 0
    /\ UNCHANGED <<desired, sleep, epoch, gen, leases>>

(* install_bootstrapped_client: the route is read again, and the client    *)
(* published in the mode of the current intent, under the slot's lock.     *)
Install(c) ==
    /\ SlotFree
    /\ Goto(c, "publishing", "done")
    /\ IF desired
         THEN slot' = PendingDormantMode /\ status' = "ready"
         ELSE UNCHANGED <<slot, status>>
    /\ initLock' = 0
    /\ UNCHANGED <<desired, sleep, epoch, gen, leases>>

BootstrapFailed(c) ==
    /\ Goto(c, "failing", "broken")
    /\ SetTorFailed
    /\ initLock' = 0
    /\ UNCHANGED <<sleep, epoch, gen, leases>>

(* disable_tor: under the slot's lock the route becomes direct ...         *)
DisableTor(c) ==
    /\ SlotFree
    /\ Goto(c, "disabling", "dropping")
    /\ desired' = FALSE
    /\ UNCHANGED <<status, slot, sleep, epoch, gen, initLock, leases>>

(* ... then the status, and the client is dropped.  A begin_tor_enable may  *)
(* have made the route Tor in between.                                     *)
DropClient(c) ==
    /\ Goto(c, "dropping", "done")
    /\ status' = "direct"
    /\ slot' = "none"
    /\ UNCHANGED <<desired, sleep, epoch, gen, initLock, leases>>

-----------------------------------------------------------------------------
(* set_tor_dormant: the intent is stored, then pushed onto the client that *)
(* is installed; calls are serialised by their own lock.                   *)

SetDormant(intent) ==
    /\ ~applying
    /\ dormant' = intent
    /\ applying' = TRUE
    /\ UNCHANGED <<policy, epoch, toggles, leases>>

ApplyDormant ==
    /\ applying /\ SlotFree
    /\ applying' = FALSE
    /\ slot' = IF slot = "none" THEN "none" ELSE PendingDormantMode
    /\ UNCHANGED <<desired, status, dormant, epoch, toggles, leases>>

-----------------------------------------------------------------------------
(* tor_client_for_route: the route and then the status are read.  A        *)
(* request that goes over Tor or is refused leaves, as far as the policy   *)
(* is concerned, so which of the two it is (the clone of the slot taken     *)
(* first decides) is not kept.                                             *)

ProbeDesired(r) ==
    /\ \/ Move(r, "idle", IF desired THEN "tor" ELSE "direct")
       \/ Move(r, "waiting", IF desired THEN "tor" ELSE "direct")
    /\ UNCHANGED <<policy, sleep, epoch, toggles, active, wakers, leased, cut>>

(* Only a bootstrap is waited out.                                         *)
ProbeStatus(r) ==
    /\ Move(r, "tor", IF status = "bootstrapping" THEN "waiting" ELSE "idle")
    /\ UNCHANGED <<policy, sleep, epoch, toggles, active, wakers, leased, cut>>

(* The wait is cancelled or its deadline passes.                           *)
StopWaiting(r) ==
    /\ Move(r, "waiting", "idle")
    /\ UNCHANGED <<policy, sleep, epoch, toggles, active, wakers, leased, cut>>

(* Mutant: the lease is counted again when its epoch is read.              *)
LoadEpochCounting(r) ==
    /\ Move(r, "counted", "runnable")
    /\ leased' = [leased EXCEPT ![r] = epoch]
    /\ active' = active + 1
    /\ UNCHANGED <<policy, sleep, epoch, toggles, wakers, cut>>

-----------------------------------------------------------------------------
(* A lease on the direct route: counted first, its epoch read second.      *)
CountLease(r) ==
    /\ Move(r, "direct", "counted")
    /\ active' = active + 1
    /\ UNCHANGED <<policy, sleep, epoch, toggles, wakers, leased, cut>>

LoadEpoch(r) ==
    /\ Move(r, "counted", "runnable")
    /\ leased' = [leased EXCEPT ![r] = epoch]
    /\ UNCHANGED <<policy, sleep, epoch, toggles, active, wakers, cut>>

(* Mutant: a lease from before the switch resumes once the route is direct. *)
PollWithoutEpoch(r) ==
    /\ WakersFree
    /\ IF desired
         THEN Move(r, "runnable", "closing") /\ UNCHANGED wakers
         ELSE Move(r, "runnable", "polling") /\ wakers' = wakers \cup {r}
    /\ UNCHANGED <<policy, sleep, epoch, toggles, active, leased, cut>>

(* A poll under the waker table's lock: the connection is aborted when Tor *)
(* is the route or was requested since, else its waker is registered ...   *)
Poll(r) ==
    /\ WakersFree
    /\ IF desired \/ leased[r] # epoch
         THEN Move(r, "runnable", "closing") /\ UNCHANGED wakers
         ELSE Move(r, "runnable", "polling") /\ wakers' = wakers \cup {r}
    /\ UNCHANGED <<policy, sleep, epoch, toggles, active, leased, cut>>

(* ... and it does its I/O before the lock is released.                    *)
PerformIO(r) ==
    /\ Move(r, "polling", "parked")
    /\ UNCHANGED <<policy, sleep, epoch, toggles, active, wakers, leased, cut>>

(* The socket is ready again, or its owner lets the connection go.         *)
SocketReady(r) ==
    /\ Move(r, "parked", "runnable")
    /\ UNCHANGED <<policy, sleep, epoch, toggles, active, wakers, leased, cut>>

LetGo(r) ==
    /\ Move(r, "parked", "closing")
    /\ UNCHANGED <<policy, sleep, epoch, toggles, active, wakers, leased, cut>>

(* Mutant: the count is compared as if it were read after the decrement.    *)
DropLeaseOffByOne(r) ==
    /\ Move(r, "removed", IF active = 0 THEN "notifying" ELSE "idle")
    /\ active' = active - 1
    /\ cut' = cut \ {r}
    /\ UNCHANGED <<policy, sleep, epoch, toggles, wakers, leased>>

(* Dropping a lease: its waker is removed, it is no longer counted, and    *)
(* the last one out notifies the drains.                                   *)
RemoveWaker(r) ==
    /\ WakersFree
    /\ Move(r, "closing", "removed")
    /\ wakers' = wakers \ {r}
    /\ UNCHANGED <<policy, sleep, epoch, toggles, active, leased, cut>>

DropLease(r) ==
    /\ Move(r, "removed", IF active = 1 THEN "notifying" ELSE "idle")
    /\ active' = active - 1
    /\ cut' = cut \ {r}
    /\ UNCHANGED <<policy, sleep, epoch, toggles, wakers, leased>>

NotifyDrained(r) ==
    /\ Move(r, "notifying", "idle")
    /\ pc' = [c \in Toggles |-> IF pc[c] = "draining" THEN "begun" ELSE pc[c]]
    /\ UNCHANGED <<policy, sleep, epoch, gen, initLock, active, wakers,
                   leased, cut>>

-----------------------------------------------------------------------------
(* What a toggle does once it is under way.                                *)
Proceed(c) ==
    \/ Superseded(c) \/ BreakOff(c) \/ FailEnable(c)
    \/ CallEnable(c) \/ CallDisable(c)
    \/ BeginDesired(c) \/ BeginCancel(c) \/ BeginClear(c) \/ DrainCheck(c)
    \/ EnableTor(c) \/ AcquireInit(c) \/ AcquireTimeout(c)
    \/ NothingToBootstrap(c) \/ StillDesired(c) \/ StartBootstrap(c)
    \/ BootSucceeds(c) \/ BootFails(c) \/ Install(c) \/ BootstrapFailed(c)
    \/ DisableTor(c) \/ DropClient(c)

Toggle(c) == StartToggle(c) \/ RefuseToggle(c) \/ Proceed(c)

Dormancy ==
    \/ \E intent \in BOOLEAN : SetDormant(intent)
    \/ ApplyDormant

Route(r) == ProbeDesired(r) \/ ProbeStatus(r) \/ StopWaiting(r)

Lease(r) ==
    \/ CountLease(r) \/ LoadEpoch(r) \/ Poll(r) \/ PerformIO(r)
    \/ SocketReady(r) \/ LetGo(r)
    \/ RemoveWaker(r) \/ DropLease(r) \/ NotifyDrained(r)

Next ==
    \/ \E c \in Toggles : Toggle(c)
    \/ Dormancy
    \/ \E r \in Requests : Route(r) \/ Lease(r)

Spec == Init /\ [][Next]_vars

(* A toggle under way goes on: its waits all have a deadline, and it gets  *)
(* the waker table's mutex if that is free again and again.  Nothing is    *)
(* assumed of the requests, nor that the user makes a toggle.              *)
Fairness ==
    \A c \in Toggles : WF_vars(Proceed(c)) /\ SF_vars(BeginDesired(c))

FairSpec == Spec /\ Fairness

-----------------------------------------------------------------------------
(* Safety.                                                                 *)

(* Once a switch to Tor has cancelled a direct connection that connection  *)
(* does no further I/O and parks no waker nobody would wake, even when the *)
(* route has become direct again in the meantime (begin_tor_enable against *)
(* DirectRouteLease::poll).                                                *)
DirectCutOff == \A r \in cut : req[r] \notin {"polling", "parked"}

(* A drain never sleeps through the last connection's close: while it      *)
(* waits and no connection is counted, the notification is on its way      *)
(* (wait_for_direct_connections_to_close against DirectRouteLease::drop).  *)
NoMissedDrain ==
    \A c \in Toggles : pc[c] = "draining" /\ active = 0
                           => \E r \in Requests : req[r] = "notifying"

(* On the direct route no Tor client is left behind and the status never   *)
(* says ready, however a finishing bootstrap meets disable_tor.  Until      *)
(* disable_tor gives up the slot's lock it is still dropping the client.   *)
NoOrphanClient == ~desired /\ SlotFree => slot = "none" /\ status # "ready"

(* Outside set_tor_dormant the installed client is in the mode the app's   *)
(* lifecycle last asked for, also when it was asked during the bootstrap.  *)
DormancyFollowsIntent ==
    ~applying /\ slot # "none" => slot = PendingDormantMode

(* The newest route change was refused before it reached the policy.       *)
Refused == \E c \in Toggles : c = gen /\ pc[c] = "refused"

(* When no toggle is under way the policy has an outcome: no bootstrapping *)
(* status without a bootstrap, no ready status without a client.  This is   *)
(* what NetworkPrivacyRuntime asks of every beginEnable and the reason      *)
(* fail_tor_enable gives for its existence.                                *)
Settled == \A c \in Toggles : pc[c] \in {"idle", "refused", "done"}
SettledRoute == Settled => Concluded

(* What holds of it: the newest toggle leaves an outcome behind however it *)
(* overlapped with older ones, unless it was itself refused, which may      *)
(* strand an enable that it had superseded (bootstrap_tor,                 *)
(* fail_tor_enable, setTorEnabled).                                        *)
UnrefusedRouteSettles == Settled /\ ~Refused => Concluded

-----------------------------------------------------------------------------
(* Liveness.                                                               *)

(* A switch to Tor is brought to an outcome, so that requests waiting for   *)
(* the bootstrap get an answer, unless a later toggle supersedes it and is *)
(* then refused (fail_tor_enable, the timeouts of bootstrap_tor).          *)
EnableConcludes ==
    desired /\ status = "bootstrapping"
        ~> ~(desired /\ status = "bootstrapping") \/ Refused
=============================================================================
