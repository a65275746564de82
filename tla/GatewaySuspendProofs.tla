------------------------ MODULE GatewaySuspendProofs ------------------------
(***************************************************************************)
(* Proofs about GatewaySuspend, for any roots, entries and bounds.         *)
(*                                                                         *)
(* The safety properties support each other: that no root is admitted      *)
(* through a drained gate rests on the exact count of live roots, that a   *)
(* closed gate can be reopened rests on the entry that owns it.  Core is   *)
(* their conjunction with what the components must know of each other      *)
(* (Bookkeeping, Running), and every action preserves it.                  *)
(***************************************************************************)
EXTENDS GatewaySuspend, TLAPS

\* The run loop drains exactly while the gate does and no suspension survives that, a
\* retired entry waits for the reset, schedulers of later lifecycles do not exist yet,
\* only a draining run loop waits, and the generation of a raised fence is positive.
Bookkeeping ==
  /\ restartDraining <=> runLoop # "serving"
  /\ restartDraining => suspendPhase = "accepting"
  /\ retiredForLifecycleReset # NoEntry => restartDraining
  /\ paused \subseteq 0..lifecycle
  /\ drainWait # "none" => runLoop = "draining"
  /\ restartSignalPending => restartSignalGeneration > 0

\* A chain runs as long as a lease on its root is out.
Running == \A r \in Root : chain[r] = "running" <=> leases[r] > 0

Core ==
  /\ TypeOK
  /\ RootsCounted
  /\ EntryOwnsClosedGate
  /\ TimerGuardsSuspension
  /\ PausedSchedulerHasResumer
  /\ ParkedOnlyWhileClosed
  /\ DrainWaiterHasRoots
  /\ DrainedStaysDrained
  /\ QuiescentWhilePrepared
  /\ Bookkeeping
  /\ Running

-----------------------------------------------------------------------------
(* Steps of the gate leave the coordinator alone, and waking chains leaves *)
(* the roots alone.                                                        *)

\* The coordinator's invariants read only its own state and the suspension part of the
\* gate.
LEMMA CoordinatorUntouched ==
  ASSUME Core, UNCHANGED <<coordinatorVars, loopVars, suspendVars>>
  PROVE  /\ EntryOwnsClosedGate'
         /\ TimerGuardsSuspension'
         /\ PausedSchedulerHasResumer'
<1>1. EntryOwnsClosedGate'
  BY DEF Core, coordinatorVars, loopVars, suspendVars, EntryOwnsClosedGate, LeaseHolds
<1>2. TimerGuardsSuspension'
  BY DEF Core, coordinatorVars, TimerGuardsSuspension
<1>3. PausedSchedulerHasResumer'
  BY DEF Core, coordinatorVars, loopVars, PausedSchedulerHasResumer, EntriesToResume
<1> QED BY <1>1, <1>2, <1>3

\* resolveSuspendOpenWaiters parks nobody and neither starts nor ends a chain.
LEMMA Waking ==
  ASSUME GateTypeOK
  PROVE  /\ ResolveSuspendOpenWaiters(chain) \in [Root -> ChainState]
         /\ \A r \in Root : /\ ResolveSuspendOpenWaiters(chain)[r] # "parked"
                            /\ ResolveSuspendOpenWaiters(chain)[r] = "running"
                                 <=> chain[r] = "running"
BY DEF GateTypeOK, ChainState, ResolveSuspendOpenWaiters

\* Roots stay counted when their objects stay and the same chains run.
LEMMA RootsUntouched ==
  ASSUME Core, UNCHANGED rootVars,
         \A r \in Root : chain'[r] = "running" <=> chain[r] = "running"
  PROVE  RootsCounted' /\ Running'
<1>1. RootsCounted'
  BY DEF Core, RootsCounted, rootVars, Live
<1>2. Running'
  BY DEF Core, Running, rootVars
<1> QED BY <1>1, <1>2

\* While a suspension is held or a drain has succeeded, an ordinary root is not live.
LEMMA NoLiveRoot ==
  ASSUME Core, NEW r \in Root \ SuspendRoot,
         suspendPhase = "prepared" \/ (runLoop = "closing" /\ verdict = "drained")
  PROVE  ~Live(r)
BY DEF Core, RootsCounted, QuiescentWhilePrepared, DrainedStaysDrained

-----------------------------------------------------------------------------
(* Root work *)

\* A new root is one that nobody counted, with one lease.
LEMMA CreateRoots ==
  ASSUME Core, NEW r \in Root, chain[r] # "running", CreateGatewayRootWorkAdmission(r)
  PROVE  /\ RootsCounted'
         /\ Running'
         /\ activeRootWork' \subseteq Root
         /\ chain' \in [Root -> ChainState]
         /\ references' \in [Root -> Nat]
         /\ released' \in [Root -> BOOLEAN]
         /\ leases' \in [Root -> Nat]
<1> USE DEF Core, TypeOK, GateTypeOK, CreateGatewayRootWorkAdmission
<1>1. RootsCounted'
  BY DEF RootsCounted, Live
<1>2. Running'
  BY DEF Running
<1>3. chain' \in [Root -> ChainState]
  BY DEF ChainState
<1> QED BY <1>1, <1>2, <1>3

\* A root created through an open gate, or by a live parent, preserves Core.
LEMMA CreateCore ==
  ASSUME Core, NEW r \in Root, chain[r] # "running",
         ~AdmissionClosed \/ \E p \in Root \ SuspendRoot : Live(p),
         CreateGatewayRootWorkAdmission(r),
         UNCHANGED <<restartDraining, fenceVars, suspendVars, drainWait, coordinatorVars,
                     loopVars>>
  PROVE  Core'
<1>1. TypeOK'
  BY CreateRoots DEF Core, TypeOK, GateTypeOK, fenceVars, suspendVars, coordinatorVars,
                     loopVars
<1>2. ParkedOnlyWhileClosed'
  BY DEF Core, TypeOK, GateTypeOK, ParkedOnlyWhileClosed, AdmissionClosed, fenceVars,
         suspendVars, CreateGatewayRootWorkAdmission
<1>3. DrainWaiterHasRoots'
  BY DEF DrainWaiterHasRoots, CreateGatewayRootWorkAdmission
<1>4. /\ suspendPhase # "prepared"
      /\ ~(runLoop = "closing" /\ verdict = "drained")
  BY NoLiveRoot DEF AdmissionClosed, Core, Bookkeeping
<1>5. DrainedStaysDrained' /\ QuiescentWhilePrepared'
  BY <1>4 DEF DrainedStaysDrained, QuiescentWhilePrepared, loopVars, suspendVars
<1>6. Bookkeeping'
  BY DEF Core, Bookkeeping, fenceVars, suspendVars, coordinatorVars, loopVars
<1> QED
  BY <1>1, <1>2, <1>3, <1>5, <1>6, CreateRoots, CoordinatorUntouched DEF Core

\* A chain that waits at a closed gate changes nothing but itself.
LEMMA ParkCore ==
  ASSUME Core, NEW r \in Root, chain[r] # "running", AdmissionClosed, ~restartDraining,
         chain' = [chain EXCEPT ![r] = "parked"],
         UNCHANGED <<restartDraining, fenceVars, suspendVars, rootVars, drainWait,
                     coordinatorVars, loopVars>>
  PROVE  Core'
<1>1. TypeOK'
  BY DEF Core, TypeOK, GateTypeOK, ChainState, fenceVars, suspendVars, rootVars,
         coordinatorVars, loopVars
<1>2. RootsCounted' /\ Running'
  BY RootsUntouched DEF Core, TypeOK, GateTypeOK
<1>3. ParkedOnlyWhileClosed'
  BY DEF ParkedOnlyWhileClosed, AdmissionClosed, fenceVars, suspendVars
<1>4. DrainWaiterHasRoots' /\ DrainedStaysDrained' /\ QuiescentWhilePrepared'
  BY DEF Core, DrainWaiterHasRoots, DrainedStaysDrained, QuiescentWhilePrepared, rootVars,
         suspendVars, loopVars
<1>5. Bookkeeping'
  BY DEF Core, Bookkeeping, fenceVars, suspendVars, coordinatorVars, loopVars
<1> QED BY <1>1, <1>2, <1>3, <1>4, <1>5, CoordinatorUntouched DEF Core

\* The loop of a resolved waiter throws, waits again or starts its root.
LEMMA RecheckCore ==
  ASSUME Core, NEW r \in Root, Recheck(r), UNCHANGED <<coordinatorVars, loopVars>>
  PROVE  Core'
<1> USE DEF Recheck
<1>1. CASE /\ restartDraining
           /\ chain' = [chain EXCEPT ![r] = "idle"]
           /\ UNCHANGED rootVars
  <2>1. TypeOK'
    BY <1>1 DEF Core, TypeOK, GateTypeOK, ChainState, fenceVars, suspendVars, rootVars,
                coordinatorVars, loopVars
  <2>2. RootsCounted' /\ Running'
    BY <1>1, RootsUntouched DEF Core, TypeOK, GateTypeOK
  <2>3. ParkedOnlyWhileClosed'
    BY <1>1 DEF Core, TypeOK, GateTypeOK, ParkedOnlyWhileClosed, AdmissionClosed
  <2>4. DrainWaiterHasRoots' /\ DrainedStaysDrained' /\ QuiescentWhilePrepared'
    BY <1>1 DEF Core, DrainWaiterHasRoots, DrainedStaysDrained, QuiescentWhilePrepared,
                rootVars, suspendVars, loopVars
  <2>5. Bookkeeping'
    BY DEF Core, Bookkeeping, fenceVars, suspendVars, coordinatorVars, loopVars
  <2> QED BY <2>1, <2>2, <2>3, <2>4, <2>5, CoordinatorUntouched DEF Core
<1>2. CASE /\ ~restartDraining
           /\ AdmissionClosed
           /\ chain' = [chain EXCEPT ![r] = "parked"]
           /\ UNCHANGED rootVars
  BY <1>2, ParkCore
<1>3. CASE ~AdmissionClosed /\ CreateGatewayRootWorkAdmission(r)
  BY <1>3, CreateCore
<1> QED BY <1>1, <1>2, <1>3

\* Another lease on a live root: both counts grow together.
LEMMA RetainCore ==
  ASSUME Core, NEW r \in Root, Retain(r), UNCHANGED <<coordinatorVars, loopVars>>
  PROVE  Core'
<1> USE DEF Retain
<1>1. TypeOK'
  BY DEF Core, TypeOK, GateTypeOK, fenceVars, suspendVars, coordinatorVars, loopVars
<1>2. RootsCounted'
  BY DEF Core, TypeOK, GateTypeOK, RootsCounted, CanRetain, Live
<1>3. Running'
  BY DEF Core, TypeOK, GateTypeOK, Running, CanRetain, Live
<1>4. /\ ParkedOnlyWhileClosed'
      /\ DrainWaiterHasRoots'
      /\ DrainedStaysDrained'
      /\ QuiescentWhilePrepared'
  BY DEF Core, ParkedOnlyWhileClosed, AdmissionClosed, DrainWaiterHasRoots,
         DrainedStaysDrained, QuiescentWhilePrepared, fenceVars, suspendVars, loopVars
<1>5. Bookkeeping'
  BY DEF Core, Bookkeeping, fenceVars, suspendVars, coordinatorVars, loopVars
<1> QED BY <1>1, <1>2, <1>3, <1>4, <1>5, CoordinatorUntouched DEF Core

\* A release closure is called.  Of a retired object it only uses up the closure; of a
\* live one it lowers the count, and the last one retires the object.
LEMMA ReleaseCore ==
  ASSUME Core, NEW r \in Root, ReleaseLease(r), UNCHANGED <<coordinatorVars, loopVars>>
  PROVE  Core'
<1>1. /\ leases[r] \in Nat /\ leases[r] > 0 /\ chain[r] = "running"
      /\ references[r] \in Nat
      /\ released[r] \in BOOLEAN
      /\ released[r] => references[r] = 0 /\ r \notin activeRootWork
      /\ ~released[r] => references[r] = leases[r] /\ r \in activeRootWork
  BY DEF Core, TypeOK, GateTypeOK, RootsCounted, Running, Live, ReleaseLease
<1>2. /\ leases' = [leases EXCEPT ![r] = leases[r] - 1]
      /\ references' = [references EXCEPT ![r] = IF released[r] THEN 0 ELSE leases[r] - 1]
      /\ released' = [released EXCEPT ![r] = released[r] \/ leases[r] = 1]
      /\ chain' = [chain EXCEPT ![r] = IF leases[r] = 1 THEN "idle" ELSE chain[r]]
      /\ activeRootWork' = IF leases[r] = 1 THEN activeRootWork \ {r} ELSE activeRootWork
  <2>1. (~released[r] /\ references[r] - 1 <= 0) <=> (~released[r] /\ leases[r] = 1)
    BY <1>1
  <2>2. released[r] => activeRootWork \ {r} = activeRootWork
    BY <1>1
  <2>3. activeRootWork' = IF leases[r] = 1 THEN activeRootWork \ {r} ELSE activeRootWork
    BY <1>1, <2>1, <2>2 DEF ReleaseLease, AlreadyReleased
  <2>4. (released[r] \/ (~released[r] /\ references[r] - 1 <= 0))
          = (released[r] \/ leases[r] = 1)
    BY <1>1, <2>1
  <2>5. released' = [released EXCEPT ![r] = released[r] \/ leases[r] = 1]
    BY <2>4 DEF ReleaseLease, AlreadyReleased
  <2>6. references' = [references EXCEPT ![r] = IF released[r] THEN 0 ELSE leases[r] - 1]
    BY <1>1 DEF ReleaseLease, AlreadyReleased
  <2> QED BY <2>3, <2>5, <2>6 DEF ReleaseLease
<1>3. drainWait' \in {"none", "waiting", "woken"} /\ DrainWaiterHasRoots'
  BY DEF Core, TypeOK, GateTypeOK, DrainWaiterHasRoots, ReleaseLease,
         ResolveRootDrainWaiters
<1>4. drainWait # "none" <=> drainWait' # "none"
  BY DEF ReleaseLease, ResolveRootDrainWaiters
<1>5. /\ leases' \in [Root -> Nat]
      /\ references' \in [Root -> Nat]
      /\ released' \in [Root -> BOOLEAN]
      /\ chain' \in [Root -> ChainState]
      /\ activeRootWork' \subseteq activeRootWork
  BY <1>1, <1>2 DEF Core, TypeOK, GateTypeOK, ChainState
<1>6. TypeOK'
  BY <1>3, <1>5 DEF Core, TypeOK, GateTypeOK, ReleaseLease, fenceVars, suspendVars,
                    coordinatorVars, loopVars
<1>7. RootsCounted'
  BY <1>1, <1>2 DEF Core, TypeOK, GateTypeOK, RootsCounted, Live
<1>8. Running'
  BY <1>1, <1>2 DEF Core, TypeOK, GateTypeOK, Running
<1>9. ParkedOnlyWhileClosed'
  BY <1>1, <1>2 DEF Core, TypeOK, GateTypeOK, ParkedOnlyWhileClosed, AdmissionClosed,
                    ReleaseLease, fenceVars, suspendVars
<1>10. DrainedStaysDrained' /\ QuiescentWhilePrepared'
  BY <1>5 DEF Core, DrainedStaysDrained, QuiescentWhilePrepared, ReleaseLease, suspendVars,
              loopVars
<1>11. Bookkeeping'
  BY <1>4 DEF Core, Bookkeeping, ReleaseLease, fenceVars, suspendVars, coordinatorVars,
              loopVars
<1>12. UNCHANGED suspendVars
  BY DEF ReleaseLease
<1> QED
  BY <1>3, <1>6, <1>7, <1>8, <1>9, <1>10, <1>11, <1>12, CoordinatorUntouched DEF Core

-----------------------------------------------------------------------------
(* The restart-signal fence *)

\* The fence goes up, or comes down and wakes every parked chain.
LEMMA FenceCore ==
  ASSUME Core,
         /\ restartSignalPending' \in BOOLEAN
         /\ restartSignalGeneration' \in Nat
         /\ signalLeases' \subseteq Nat
         /\ pendingRestartSignalAdmission' \in Nat
         /\ restartSignalPending' => restartSignalGeneration' > 0,
         \/ chain' = ResolveSuspendOpenWaiters(chain)
         \/ UNCHANGED chain /\ (restartSignalPending => restartSignalPending'),
         UNCHANGED <<restartDraining, suspendVars, rootVars, drainWait, coordinatorVars,
                     loopVars>>
  PROVE  Core'
<1>1. /\ chain' \in [Root -> ChainState]
      /\ \A r \in Root : chain'[r] = "running" <=> chain[r] = "running"
  BY Waking DEF Core, TypeOK, GateTypeOK
<1>2. TypeOK'
  BY <1>1 DEF Core, TypeOK, GateTypeOK, suspendVars, rootVars, coordinatorVars, loopVars
<1>3. ParkedOnlyWhileClosed'
  BY Waking DEF Core, TypeOK, ParkedOnlyWhileClosed, AdmissionClosed, suspendVars
<1>4. DrainWaiterHasRoots' /\ DrainedStaysDrained' /\ QuiescentWhilePrepared'
  BY DEF Core, DrainWaiterHasRoots, DrainedStaysDrained, QuiescentWhilePrepared, rootVars,
         suspendVars, loopVars
<1>5. Bookkeeping'
  BY DEF Core, Bookkeeping, suspendVars, coordinatorVars, loopVars
<1> QED
  BY <1>1, <1>2, <1>3, <1>4, <1>5, RootsUntouched, CoordinatorUntouched DEF Core

\* clearRestartSignalFence leaves the fence down and wakes everybody, or does nothing.
LEMMA ClearingFence ==
  ASSUME Core, NEW owned \in BOOLEAN, ClearRestartSignalFence(owned)
  PROVE  /\ restartSignalPending' \in BOOLEAN
         /\ restartSignalGeneration' \in Nat
         /\ restartSignalPending' => restartSignalGeneration' > 0
         /\ \/ chain' = ResolveSuspendOpenWaiters(chain)
            \/ UNCHANGED chain /\ (restartSignalPending => restartSignalPending')
<1>1. /\ restartSignalPending \in BOOLEAN
      /\ restartSignalGeneration \in Nat
      /\ restartSignalPending => restartSignalGeneration > 0
  BY DEF Core, TypeOK, GateTypeOK, Bookkeeping
<1>2. CASE owned /\ restartSignalPending /\ ~restartDraining
  <2>1. chain' = ResolveSuspendOpenWaiters(chain)
    BY <1>2 DEF ClearRestartSignalFence
  <2>2. restartSignalPending' = FALSE
    BY <1>2 DEF ClearRestartSignalFence
  <2>3. restartSignalGeneration' = restartSignalGeneration + 1
    BY <1>2 DEF ClearRestartSignalFence
  <2>4. restartSignalGeneration' \in Nat
    BY <1>1, <2>3
  <2> QED BY <2>1, <2>2, <2>4, Zenon
<1>3. CASE ~(owned /\ restartSignalPending /\ ~restartDraining)
  <2>1. UNCHANGED <<restartSignalPending, restartSignalGeneration, chain>>
    BY <1>3 DEF ClearRestartSignalFence
  <2> QED BY <1>1, <2>1
<1> QED BY <1>2, <1>3

\* Every step of the gate alone preserves Core.
LEMMA GateStepCore ==
  ASSUME Core, GateStep, UNCHANGED <<coordinatorVars, loopVars>>
  PROVE  Core'
<1>1. CASE \E r \in Root : TryBegin(r)
  BY <1>1, CreateCore DEF TryBegin
<1>2. CASE \E r \in Root : ParkUntilOpen(r)
  BY <1>2, ParkCore DEF ParkUntilOpen
<1>3. CASE \E r \in Root : Recheck(r)
  BY <1>3, RecheckCore
<1>4. CASE \E r \in Root : Retain(r)
  BY <1>4, RetainCore
<1>5. CASE \E r \in Root : ReleaseLease(r)
  BY <1>5, ReleaseCore
<1>6. CASE \E p, r \in Root : Continuation(p, r)
  BY <1>6, CreateCore DEF Continuation, ParentVouches
<1>7. CASE \E r \in Root : BeginRestartSignal(r)
  BY <1>7, FenceCore DEF BeginRestartSignal, Core, TypeOK, GateTypeOK
<1>8. CASE \E g \in signalLeases : RollbackSignalLease(g)
  <2>1. PICK g \in signalLeases : RollbackSignalLease(g)
    BY <1>8
  <2>2. OwnsFence(g) \in BOOLEAN /\ ClearRestartSignalFence(OwnsFence(g))
    BY <2>1 DEF RollbackSignalLease, OwnsFence
  <2>3. signalLeases' \subseteq Nat /\ pendingRestartSignalAdmission' \in Nat
    BY <2>1 DEF RollbackSignalLease, Core, TypeOK, GateTypeOK
  <2> QED BY <2>1, <2>2, <2>3, ClearingFence, FenceCore DEF RollbackSignalLease
<1>9. CASE ClearPendingRestartSignalAdmission
  <2>1. signalLeases' \subseteq Nat /\ pendingRestartSignalAdmission' \in Nat
    BY <1>9 DEF ClearPendingRestartSignalAdmission, Core, TypeOK, GateTypeOK
  <2>2. ClearRestartSignalFence(TRUE)
    BY <1>9 DEF ClearPendingRestartSignalAdmission
  <2> QED BY <1>9, <2>1, <2>2, ClearingFence, FenceCore
          DEF ClearPendingRestartSignalAdmission
<1> QED
  BY <1>1, <1>2, <1>3, <1>4, <1>5, <1>6, <1>7, <1>8, <1>9 DEF GateStep

-----------------------------------------------------------------------------
(* The coordinator.  Its steps leave the roots and the run loop alone; what *)
(* they must get right is the current entry, its timer, the paused          *)
(* scheduler and the phase of the gate.                                     *)

\* Core after a step of the coordinator, from the parts such a step can disturb.
LEMMA CoordinatorStep ==
  ASSUME Core,
         UNCHANGED <<restartDraining, fenceVars, rootVars, drainWait,
                     retiredForLifecycleReset, loopVars>>,
         \/ chain' = ResolveSuspendOpenWaiters(chain)
         \/ UNCHANGED chain /\ (suspendPhase # "accepting" => suspendPhase' # "accepting"),
         suspendPhase' \in Phase, suspendGeneration' \in Nat, suspendInvalidated' \in Nat,
         current' \in Entry \cup {NoEntry}, entry' \in [Entry -> EntryType],
         timers' = {current'} \ {NoEntry},
         paused' \subseteq 0..lifecycle,
         lifecycle \in paused' => current' # NoEntry,
         suspendPhase' # "accepting" => ~restartDraining,
         suspendPhase' = "prepared" => /\ activeRootWork \subseteq SuspendRoot
                                       /\ \A r, s \in activeRootWork : r = s,
         EntryOwnsClosedGate'
  PROVE  Core'
<1>1. /\ chain' \in [Root -> ChainState]
      /\ \A r \in Root : chain'[r] = "running" <=> chain[r] = "running"
  BY Waking DEF Core, TypeOK, GateTypeOK
<1>2. TypeOK'
  <2>1. GateTypeOK'
    BY <1>1 DEF Core, TypeOK, GateTypeOK, fenceVars, rootVars
  <2>2. paused' \subseteq Nat
    BY DEF Core, TypeOK
  <2> QED BY <2>1, <2>2 DEF Core, TypeOK, loopVars
<1>3. TimerGuardsSuspension'
  BY DEF TimerGuardsSuspension
<1>4. PausedSchedulerHasResumer'
  BY DEF PausedSchedulerHasResumer, EntriesToResume, EntryOwnsClosedGate, loopVars
<1>5. ParkedOnlyWhileClosed'
  BY Waking DEF Core, TypeOK, ParkedOnlyWhileClosed, AdmissionClosed, fenceVars
<1>6. DrainWaiterHasRoots' /\ DrainedStaysDrained' /\ QuiescentWhilePrepared'
  BY DEF Core, DrainWaiterHasRoots, DrainedStaysDrained, QuiescentWhilePrepared, rootVars,
         loopVars
<1>7. Bookkeeping'
  BY DEF Core, TypeOK, GateTypeOK, Phase, Bookkeeping, fenceVars, loopVars
<1> QED
  BY <1>1, <1>2, <1>3, <1>4, <1>5, <1>6, <1>7, RootsUntouched DEF Core

\* What the current entry is, and that nothing else has a timer.
LEMMA CurrentEntry ==
  ASSUME Core, current # NoEntry
  PROVE  /\ current \in Entry
         /\ timers = {current}
         /\ entry[current] \in EntryType
         /\ LeaseHolds(entry[current].owner, entry[current].reopens)
         /\ entry[current].lifecycle = lifecycle
         /\ suspendInvalidated = suspendGeneration
         /\ suspendPhase # "accepting"
         /\ ~restartDraining
BY EntryAssumption
   DEF Core, TypeOK, TimerGuardsSuspension, EntryOwnsClosedGate, Bookkeeping

\* enterSchedulerRecovery hands lease, scheduler and timer to the entry it leaves.
LEMMA RecoveryKeepsLease ==
  ASSUME Core, NEW e \in Entry, e = current, NEW T, T \subseteq {e},
         EnterSchedulerRecovery(e, T)
  PROVE  /\ current' \in Entry
         /\ entry' \in [Entry -> EntryType]
         /\ timers' = {current'}
         /\ entry'[current'].owner = entry[e].owner
         /\ entry'[current'].reopens = entry[e].reopens
         /\ entry'[current'].lifecycle = entry[e].lifecycle
<1>1. CASE entry[e].kind = "recovering"
  BY <1>1 DEF Core, TypeOK, EnterSchedulerRecovery, Rearm
<1>2. CASE entry[e].kind # "recovering"
  <2>1. PICK f \in Entry :
          /\ Unreferenced(f)
          /\ current' = f
          /\ entry' = Replace(e, f, [entry[e] EXCEPT !.kind = "recovering",
                                                     !.expired = FALSE])
          /\ timers' = Rearm(T \ {e}, f)
    BY <1>2 DEF EnterSchedulerRecovery
  <2>2. entry[e] \in EntryType /\ Blank \in EntryType
    BY DEF Core, TypeOK, EntryType, Blank, Phase
  <2>3. [entry[e] EXCEPT !.kind = "recovering", !.expired = FALSE] \in EntryType
    BY <2>2 DEF EntryType
  <2>4. entry' \in [Entry -> EntryType]
    BY <2>1, <2>2, <2>3 DEF Core, TypeOK, Replace
  <2>5. timers' = {current'}
    BY <2>1 DEF Rearm
  <2>6. entry'[current'] = [entry[e] EXCEPT !.kind = "recovering", !.expired = FALSE]
    BY <2>1 DEF Replace
  <2>7. /\ entry'[current'].owner = entry[e].owner
        /\ entry'[current'].reopens = entry[e].reopens
        /\ entry'[current'].lifecycle = entry[e].lifecycle
    BY <2>2, <2>6 DEF EntryType
  <2> QED BY <2>1, <2>4, <2>5, <2>7
<1> QED BY <1>1, <1>2

\* resumeAndReopen either retries later with the gate closed, or gives everything back.
LEMMA ResumeAndReopenCore ==
  ASSUME Core, NEW e \in Entry, e = current, NEW T, T \subseteq {e},
         ResumeAndReopen(e, T),
         UNCHANGED <<restartDraining, fenceVars, rootVars, drainWait,
                     retiredForLifecycleReset, loopVars>>
  PROVE  Core'
<1>1. /\ current # NoEntry
      /\ current \in Entry
      /\ entry[current] \in EntryType
      /\ LeaseHolds(entry[current].owner, entry[current].reopens)
      /\ entry[current].lifecycle = lifecycle
      /\ suspendInvalidated = suspendGeneration
      /\ suspendPhase # "accepting"
      /\ ~restartDraining
  BY CurrentEntry, EntryAssumption
<1>2. CASE ResumeFails(e, T)
  <2>1. EnterSchedulerRecovery(e, T) /\ UNCHANGED <<paused, suspendVars, chain>>
    BY <1>2 DEF ResumeFails
  <2>2. /\ current' \in Entry
        /\ entry' \in [Entry -> EntryType]
        /\ timers' = {current'}
        /\ entry'[current'].owner = entry[e].owner
        /\ entry'[current'].reopens = entry[e].reopens
        /\ entry'[current'].lifecycle = entry[e].lifecycle
    BY <2>1, RecoveryKeepsLease
  <2>3. current' # NoEntry /\ timers' = {current'} \ {NoEntry}
    BY <2>2, EntryAssumption
  <2>4. EntryOwnsClosedGate'
    BY <1>1, <2>1, <2>2, <2>3 DEF EntryOwnsClosedGate, LeaseHolds, suspendVars, loopVars
  <2>5. /\ suspendPhase' \in Phase /\ suspendGeneration' \in Nat
        /\ suspendInvalidated' \in Nat
        /\ paused' \subseteq 0..lifecycle
        /\ suspendPhase' = "prepared" => /\ activeRootWork \subseteq SuspendRoot
                                         /\ \A r, s \in activeRootWork : r = s
    BY <2>1 DEF Core, TypeOK, GateTypeOK, Bookkeeping, QuiescentWhilePrepared, suspendVars
  <2> QED BY <1>1, <2>1, <2>2, <2>3, <2>4, <2>5, CoordinatorStep DEF suspendVars
<1>3. CASE /\ paused' = paused \ {entry[e].lifecycle}
           /\ ReopenSuspended
           /\ timers' = T \ {e}
           /\ current' = NoEntry
           /\ entry' = Put(e, Blank)
  <2>1. entry' \in [Entry -> EntryType]
    BY <1>3 DEF Core, TypeOK, Put, Blank, EntryType, Phase
  <2>2. timers' = {current'} \ {NoEntry}
    BY <1>3
  <2>3. paused' \subseteq 0..lifecycle /\ lifecycle \notin paused'
    BY <1>1, <1>3 DEF Core, Bookkeeping
  <2>4. EntryOwnsClosedGate'
    BY <1>3 DEF EntryOwnsClosedGate, ReopenSuspended
  <2>5. /\ suspendPhase' = "accepting" /\ suspendPhase' \in Phase
        /\ suspendGeneration' \in Nat
        /\ suspendInvalidated' \in Nat
        /\ chain' = ResolveSuspendOpenWaiters(chain)
    BY <1>3 DEF ReopenSuspended, Core, TypeOK, GateTypeOK, Phase
  <2> QED BY <1>3, <2>1, <2>2, <2>3, <2>4, <2>5, CoordinatorStep
<1> QED BY <1>1, <1>2, <1>3 DEF ResumeAndReopen

\* A timer callback, of the current entry or of none.
LEMMA TimerCore ==
  ASSUME Core, NEW e \in Entry, TimerFires(e)
  PROVE  Core'
<1>1. e = current /\ timers \ {e} \subseteq {e}
  BY DEF TimerFires, Core, TimerGuardsSuspension
<1> QED BY <1>1, ResumeAndReopenCore DEF TimerFires

\* The holder resumes, or somebody finds the deadline passed.
LEMMA EndHeldCore ==
  ASSUME Core, EndHeldSuspension
  PROVE  Core'
<1>1. current \in Entry /\ timers \subseteq {current}
  BY CurrentEntry DEF EndHeldSuspension, Held
<1> QED BY <1>1, ResumeAndReopenCore DEF EndHeldSuspension

\* A deadline passes, or the same request renews: lease, scheduler and timer stay.
LEMMA HeldStaysCore ==
  ASSUME Core, DeadlinePasses \/ RenewHeldSuspension
  PROVE  Core'
<1>1. current # NoEntry /\ current \in Entry /\ timers = {current}
      /\ entry[current] \in EntryType
  BY CurrentEntry DEF DeadlinePasses, RenewHeldSuspension, Held
<1>2. /\ entry' \in [Entry -> EntryType]
      /\ entry'[current].owner = entry[current].owner
      /\ entry'[current].reopens = entry[current].reopens
      /\ entry'[current].lifecycle = entry[current].lifecycle
  <2>1. CASE DeadlinePasses
    <3>1. [entry[current] EXCEPT !.expired = TRUE] \in EntryType
      BY <1>1 DEF EntryType
    <3>2. entry' = [entry EXCEPT ![current] = [entry[current] EXCEPT !.expired = TRUE]]
      BY <2>1 DEF DeadlinePasses
    <3>3. entry' \in [Entry -> EntryType]
      BY <3>1, <3>2 DEF Core, TypeOK
    <3>4. entry'[current] = [entry[current] EXCEPT !.expired = TRUE]
      BY <1>1, <3>2 DEF Core, TypeOK
    <3> QED BY <1>1, <3>3, <3>4 DEF EntryType
  <2>2. CASE RenewHeldSuspension
    BY <2>2 DEF RenewHeldSuspension, Core, TypeOK
  <2> QED BY <2>1, <2>2
<1>3. /\ UNCHANGED <<gateVars, current, retiredForLifecycleReset, paused, loopVars>>
      /\ timers' = {current}
  BY <1>1 DEF DeadlinePasses, RenewHeldSuspension, Rearm
<1>4. UNCHANGED <<restartDraining, fenceVars, suspendVars, rootVars, chain, drainWait>>
  BY <1>3 DEF gateVars
<1>5. EntryOwnsClosedGate'
  BY <1>2, <1>3, <1>4 DEF Core, EntryOwnsClosedGate, LeaseHolds, suspendVars, loopVars
<1>6. /\ suspendPhase' \in Phase /\ suspendGeneration' \in Nat /\ suspendInvalidated' \in Nat
      /\ suspendPhase' # "accepting" => ~restartDraining
      /\ suspendPhase' = "prepared" => /\ activeRootWork \subseteq SuspendRoot
                                       /\ \A r, s \in activeRootWork : r = s
      /\ paused' \subseteq 0..lifecycle
  BY <1>3, <1>4 DEF Core, TypeOK, GateTypeOK, Bookkeeping, QuiescentWhilePrepared,
                    suspendVars
<1>7. timers' = {current'} \ {NoEntry} /\ current' \in Entry \cup {NoEntry}
  BY <1>1, <1>3
<1> QED
  BY <1>1, <1>2, <1>3, <1>4, <1>5, <1>6, <1>7, CoordinatorStep DEF suspendVars

-----------------------------------------------------------------------------
(* Preparing a suspension *)

\* The state a preparation starts from has no entry, or one about to be replaced, and
\* afterwards no chain is parked that was parked under it.
LEMMA Fresh ==
  ASSUME Core, NEW c, BeginSuspend(c)
  PROVE  /\ ~restartDraining
         /\ retiredForLifecycleReset = NoEntry
         /\ suspendGeneration' = suspendGeneration + 1 /\ suspendGeneration \in Nat
         /\ timers \ {current} = {}
         /\ FreshPaused \subseteq 0..lifecycle /\ lifecycle \notin FreshPaused
         /\ \/ FreshChain = ResolveSuspendOpenWaiters(chain)
            \/ FreshChain = chain /\ suspendPhase = "accepting"
         /\ UNCHANGED <<restartDraining, fenceVars, rootVars, drainWait,
                        retiredForLifecycleReset, loopVars>>
<1>1. ~restartDraining /\ retiredForLifecycleReset = NoEntry
  BY DEF BeginSuspend, Core, Bookkeeping
<1>2. suspendGeneration' = suspendGeneration + 1 /\ suspendGeneration \in Nat
  BY DEF BeginSuspend, Core, TypeOK, GateTypeOK
<1>3. timers \ {current} = {}
  BY DEF Core, TimerGuardsSuspension
<1>4. FreshPaused \subseteq 0..lifecycle
  BY DEF Core, Bookkeeping, FreshPaused
<1>5. lifecycle \notin FreshPaused
  <2>1. CASE current = NoEntry
    BY <1>1, <2>1 DEF FreshPaused, Core, PausedSchedulerHasResumer, EntriesToResume
  <2>2. CASE current # NoEntry
    BY <2>2, CurrentEntry DEF FreshPaused
  <2> QED BY <2>1, <2>2
<1>6. \/ FreshChain = ResolveSuspendOpenWaiters(chain)
      \/ FreshChain = chain /\ suspendPhase = "accepting"
  BY DEF FreshChain, BeginSuspend, StartsFresh, Core, EntryOwnsClosedGate
<1> QED BY <1>1, <1>2, <1>3, <1>4, <1>5, <1>6 DEF BeginSuspend

\* A new entry takes the gate in phase p: Core holds if p is justified by the roots.
LEMMA InstallCore ==
  ASSUME Core, NEW c, BeginSuspend(c),
         NEW kind \in {"held", "recovering"}, NEW p \in {"preparing", "prepared"},
         Install(kind, p),
         p = "prepared" => /\ activeRootWork \subseteq SuspendRoot
                           /\ \A r, s \in activeRootWork : r = s
  PROVE  Core'
<1>1. PICK e \in Entry :
        /\ Unreferenced(e)
        /\ current' = e
        /\ entry' = Replace(current, e, NewEntry(kind, p))
        /\ timers' = (timers \ {current}) \cup {e}
  BY DEF Install
<1>2. NewEntry(kind, p) \in EntryType /\ Blank \in EntryType
  BY DEF NewEntry, Blank, EntryType, Phase, Core, TypeOK, GateTypeOK
<1>3. entry' \in [Entry -> EntryType] /\ entry'[e] = NewEntry(kind, p)
  BY <1>1, <1>2 DEF Replace, Core, TypeOK
<1>4. /\ entry'[e].owner = suspendGeneration + 1
      /\ entry'[e].reopens = p
      /\ entry'[e].lifecycle = lifecycle
  BY <1>3 DEF NewEntry
<1>5. e # NoEntry /\ timers' = {current'} \ {NoEntry}
  BY <1>1, Fresh, EntryAssumption
<1>6. /\ suspendPhase' = p /\ suspendPhase' # "accepting"
      /\ suspendInvalidated' = suspendGeneration + 1
      /\ chain' = FreshChain
      /\ paused' = FreshPaused \cup {lifecycle}
  BY DEF Install
<1>7. EntryOwnsClosedGate'
  BY <1>1, <1>4, <1>5, <1>6, Fresh DEF EntryOwnsClosedGate, LeaseHolds, loopVars
<1>8. paused' \subseteq 0..lifecycle
  BY <1>6, Fresh DEF Core, TypeOK
<1>9. /\ suspendPhase' \in Phase
      /\ suspendGeneration' \in Nat
      /\ suspendInvalidated' \in Nat
  BY <1>6, Fresh DEF Phase
<1>10. \/ chain' = ResolveSuspendOpenWaiters(chain)
       \/ UNCHANGED chain /\ (suspendPhase # "accepting" => suspendPhase' # "accepting")
  BY <1>6, Fresh
<1> QED
  BY <1>1, <1>3, <1>5, <1>6, <1>7, <1>8, <1>9, <1>10, Fresh, CoordinatorStep

\* An idle caller sees no root but its own.
LEMMA IdleMeansQuiescent ==
  ASSUME Core, NEW c \in SuspendRoot \cup {NoRoot}, NoOtherRoot(c)
  PROVE  /\ activeRootWork \subseteq SuspendRoot
         /\ \A r, s \in activeRootWork : r = s
BY EntryAssumption DEF NoOtherRoot, Core, TypeOK, GateTypeOK

\* A preparation that is rolled back leaves an open gate and a running scheduler.
LEMMA GivesUpCore ==
  ASSUME Core, NEW c, PrepareGivesUp(c)
  PROVE  Core'
<1>1. BeginSuspend(c)
  BY DEF PrepareGivesUp
<1>2. entry' \in [Entry -> EntryType]
  BY DEF PrepareGivesUp, Put, Blank, EntryType, Phase, Core, TypeOK
<1>3. chain' = ResolveSuspendOpenWaiters(chain)
  BY DEF PrepareGivesUp, FreshChain, ResolveSuspendOpenWaiters
<1>4. /\ suspendPhase' = "accepting" /\ current' = NoEntry
      /\ timers' = {}
      /\ paused' \subseteq 0..lifecycle /\ lifecycle \notin paused'
      /\ suspendGeneration' \in Nat /\ suspendInvalidated' \in Nat
      /\ suspendPhase' \in Phase
  BY <1>1, Fresh DEF PrepareGivesUp, Phase
<1>5. EntryOwnsClosedGate' /\ timers' = {current'} \ {NoEntry}
  BY <1>4 DEF EntryOwnsClosedGate
<1> QED BY <1>1, <1>2, <1>3, <1>4, <1>5, Fresh, CoordinatorStep

\* A preparation that holds the suspension, or is stuck because cron does not resume.
LEMMA PrepareCore ==
  ASSUME Core, NEW c \in SuspendRoot \cup {NoRoot}, PrepareHolds(c) \/ PrepareRecovers(c)
  PROVE  Core'
<1>1. CASE BeginSuspend(c) /\ NoOtherRoot(c) /\ Install("held", "prepared")
  BY <1>1, IdleMeansQuiescent, InstallCore
<1>2. CASE BeginSuspend(c) /\ Install("recovering", "preparing")
  BY <1>2, InstallCore
<1>3. CASE BeginSuspend(c) /\ NoOtherRoot(c) /\ Install("recovering", "prepared")
  BY <1>3, IdleMeansQuiescent, InstallCore
<1> QED BY <1>1, <1>2, <1>3 DEF PrepareHolds, PrepareRecovers

-----------------------------------------------------------------------------
(* The run loop *)

\* A restart drain takes a suspension over: the gate forgets it, the coordinator keeps
\* its entry for the reset.
LEMMA DrainingCore ==
  ASSUME Core, MarkRestartDraining
  PROVE  Core'
<1>1. /\ restartDraining' = TRUE
      /\ restartSignalPending' = FALSE
      /\ runLoop' = "draining"
      /\ lifecycle' = lifecycle
      /\ verdict' = verdict
      /\ drainWait' = drainWait
      /\ signalLeases' = signalLeases
      /\ pendingRestartSignalAdmission' = pendingRestartSignalAdmission
      /\ UNCHANGED rootVars
      /\ chain' = ResolveSuspendOpenWaiters(chain)
      /\ ~restartDraining
  BY DEF MarkRestartDraining, CloseForDrain
<1>2. restartSignalGeneration' \in Nat
  BY DEF MarkRestartDraining, CloseForDrain, Core, TypeOK, GateTypeOK
<1>3. /\ suspendPhase' = "accepting"
      /\ suspendGeneration' \in Nat
      /\ suspendInvalidated' \in Nat
  BY DEF MarkRestartDraining, SupersedeSuspension, suspendVars, Core, TypeOK, GateTypeOK
<1>4. /\ current' = NoEntry
      /\ retiredForLifecycleReset' = current
      /\ timers' = {}
      /\ UNCHANGED <<entry, paused>>
  <2>1. CASE suspendPhase = "accepting"
    <3>1. current = NoEntry /\ retiredForLifecycleReset = NoEntry /\ timers = {}
      BY <1>1, <2>1 DEF Core, EntryOwnsClosedGate, Bookkeeping, TimerGuardsSuspension
    <3> QED BY <2>1, <3>1 DEF MarkRestartDraining, coordinatorVars
  <2>2. CASE suspendPhase # "accepting"
    <3>1. current # NoEntry /\ timers = {current} /\ entry[current].owner = suspendInvalidated
      BY <2>2, CurrentEntry DEF Core, EntryOwnsClosedGate, LeaseHolds
    <3> QED BY <2>2, <3>1 DEF MarkRestartDraining, OnInvalidated
  <2> QED BY <2>1, <2>2
<1>5. /\ chain' \in [Root -> ChainState]
      /\ \A r \in Root : /\ chain'[r] # "parked"
                         /\ chain'[r] = "running" <=> chain[r] = "running"
  BY <1>1, Waking DEF Core, TypeOK
<1>6. TypeOK'
  <2>1. GateTypeOK'
    BY <1>1, <1>2, <1>3, <1>5 DEF Core, TypeOK, GateTypeOK, Phase, rootVars
  <2> QED BY <1>1, <1>4, <2>1 DEF Core, TypeOK
<1>7. RootsCounted' /\ Running'
  BY <1>1, <1>5, RootsUntouched
<1>8. EntryOwnsClosedGate' /\ TimerGuardsSuspension'
  BY <1>3, <1>4 DEF EntryOwnsClosedGate, TimerGuardsSuspension
<1>9. PausedSchedulerHasResumer'
  <2>1. lifecycle \in paused => current # NoEntry /\ entry[current].lifecycle = lifecycle
    BY <1>1 DEF Core, PausedSchedulerHasResumer, EntriesToResume, Bookkeeping
  <2> QED BY <1>1, <1>4, <2>1 DEF PausedSchedulerHasResumer, EntriesToResume
<1>10. ParkedOnlyWhileClosed'
  BY <1>5 DEF ParkedOnlyWhileClosed
<1>11. DrainWaiterHasRoots' /\ DrainedStaysDrained' /\ QuiescentWhilePrepared'
  BY <1>1, <1>3 DEF Core, DrainWaiterHasRoots, DrainedStaysDrained,
                    QuiescentWhilePrepared, rootVars
<1>12. Bookkeeping'
  BY <1>1, <1>3, <1>4 DEF Core, Bookkeeping
<1> QED
  BY <1>6, <1>7, <1>8, <1>9, <1>10, <1>11, <1>12 DEF Core

\* The run loop starts to wait for the roots it counted, or stops draining.
LEMMA DrainStepCore ==
  ASSUME Core, WaitForActiveRootWork \/ DrainEnds
  PROVE  Core'
<1>1. UNCHANGED <<restartDraining, fenceVars, suspendVars, rootVars, chain,
                  coordinatorVars, lifecycle>>
  BY DEF WaitForActiveRootWork, DrainEnds, loopVars
<1>2. TypeOK'
  BY <1>1 DEF Core, TypeOK, GateTypeOK, fenceVars, suspendVars, rootVars, coordinatorVars,
              loopVars, WaitForActiveRootWork, DrainEnds
<1>3. RootsCounted' /\ Running'
  BY <1>1, RootsUntouched
<1>4. /\ EntryOwnsClosedGate'
      /\ TimerGuardsSuspension'
      /\ PausedSchedulerHasResumer'
  <2>1. EntryOwnsClosedGate'
    BY <1>1 DEF Core, coordinatorVars, suspendVars, EntryOwnsClosedGate, LeaseHolds
  <2>2. TimerGuardsSuspension'
    BY <1>1 DEF Core, coordinatorVars, TimerGuardsSuspension
  <2>3. PausedSchedulerHasResumer'
    BY <1>1 DEF Core, coordinatorVars, PausedSchedulerHasResumer, EntriesToResume
  <2> QED BY <2>1, <2>2, <2>3
<1>5. ParkedOnlyWhileClosed' /\ QuiescentWhilePrepared'
  BY <1>1 DEF Core, ParkedOnlyWhileClosed, AdmissionClosed, QuiescentWhilePrepared,
              fenceVars, suspendVars, rootVars
<1>6. DrainWaiterHasRoots' /\ DrainedStaysDrained'
  BY <1>1 DEF Core, DrainWaiterHasRoots, DrainedStaysDrained, rootVars, loopVars,
              WaitForActiveRootWork, DrainEnds
<1>7. Bookkeeping'
  BY <1>1 DEF Core, Bookkeeping, fenceVars, suspendVars, coordinatorVars, loopVars,
              WaitForActiveRootWork, DrainEnds
<1> QED BY <1>2, <1>3, <1>4, <1>5, <1>6, <1>7 DEF Core

\* The reset between two lifecycles retires every root and every entry.  The scheduler
\* of the new lifecycle is not among those that were ever paused.
LEMMA ResetCore ==
  ASSUME Core, LifecycleReset
  PROVE  Core'
<1>1. /\ chain' = ResolveSuspendOpenWaiters(chain)
      /\ chain' \in [Root -> ChainState]
      /\ \A r \in Root : /\ chain'[r] # "parked"
                         /\ chain'[r] = "running" <=> chain[r] = "running"
  BY Waking DEF LifecycleReset, ResetGatewayWorkAdmission, Core, TypeOK
<1>2. paused' \subseteq paused
  BY DEF LifecycleReset
<1>3. /\ paused' \subseteq 0..lifecycle'
      /\ lifecycle' \notin paused'
      /\ lifecycle' \in Nat
  <2>1. lifecycle \in Nat /\ lifecycle' = lifecycle + 1 /\ paused \subseteq 0..lifecycle
    BY DEF LifecycleReset, Core, TypeOK, Bookkeeping
  <2>2. \A n \in 0..lifecycle : n \in 0..(lifecycle + 1) /\ n # lifecycle + 1
    BY <2>1
  <2> QED BY <1>2, <2>1, <2>2
<1>4. timers' = {}
  BY DEF LifecycleReset, EntriesToResume, Core, TimerGuardsSuspension
<1>5. entry' \in [Entry -> EntryType]
  BY DEF LifecycleReset, Core, TypeOK, Blank, EntryType, Phase
<1>6. /\ references' \in [Root -> Nat]
      /\ released' \in [Root -> BOOLEAN]
      /\ leases' = leases
      /\ activeRootWork' = {}
  BY DEF LifecycleReset, ResetGatewayWorkAdmission, Core, TypeOK, GateTypeOK
<1>7. drainWait' # "waiting" /\ drainWait' \in {"none", "waiting", "woken"}
  BY DEF LifecycleReset, ResetGatewayWorkAdmission, ResolveRootDrainWaiters, Core, TypeOK,
         GateTypeOK
<1>8. drainWait' = "none"
  BY DEF LifecycleReset, ResetGatewayWorkAdmission, ResolveRootDrainWaiters, Core,
         Bookkeeping
<1>9. /\ restartSignalGeneration' \in Nat /\ suspendGeneration' \in Nat
      /\ suspendInvalidated' = 0 /\ pendingRestartSignalAdmission' = 0
      /\ restartSignalPending' = FALSE /\ restartDraining' = FALSE
      /\ suspendPhase' = "accepting" /\ signalLeases' = signalLeases
  BY DEF LifecycleReset, ResetGatewayWorkAdmission, Core, TypeOK, GateTypeOK
<1>10. /\ runLoop' = "serving" /\ verdict' = "none"
       /\ current' = NoEntry /\ retiredForLifecycleReset' = NoEntry
  BY DEF LifecycleReset
<1>11. TypeOK'
  <2>1. GateTypeOK'
    BY <1>1, <1>6, <1>7, <1>9 DEF Core, TypeOK, GateTypeOK, Phase
  <2>2. paused' \subseteq Nat
    BY <1>2 DEF Core, TypeOK
  <2> QED BY <1>3, <1>4, <1>5, <1>10, <2>1, <2>2 DEF TypeOK
<1>12. RootsCounted'
  <2>1. \A r \in Root : r \in activeRootWork \/ ~Live(r)
    BY DEF Core, RootsCounted
  <2>2. \A r \in Root : ~Live(r)'
    BY <1>1, <2>1 DEF Live, LifecycleReset, ResetGatewayWorkAdmission
  <2>3. \A r \in Root : references'[r] = 0
    BY <2>1 DEF Core, RootsCounted, LifecycleReset, ResetGatewayWorkAdmission
  <2> QED BY <1>6, <2>2, <2>3 DEF RootsCounted
<1>13. Running'
  BY <1>1, <1>6 DEF Core, Running
<1>14. /\ EntryOwnsClosedGate'
       /\ TimerGuardsSuspension'
       /\ PausedSchedulerHasResumer'
       /\ ParkedOnlyWhileClosed'
       /\ DrainWaiterHasRoots'
       /\ DrainedStaysDrained'
       /\ QuiescentWhilePrepared'
  BY <1>1, <1>3, <1>4, <1>7, <1>9, <1>10
     DEF EntryOwnsClosedGate, TimerGuardsSuspension, PausedSchedulerHasResumer,
         ParkedOnlyWhileClosed, DrainWaiterHasRoots, DrainedStaysDrained,
         QuiescentWhilePrepared
<1>15. Bookkeeping'
  BY <1>3, <1>8, <1>9, <1>10 DEF Bookkeeping
<1> QED BY <1>11, <1>12, <1>13, <1>14, <1>15 DEF Core

-----------------------------------------------------------------------------
(* The theorems *)

\* The program starts with an open gate, no root and no entry.
LEMMA InitCore ==
  ASSUME Init
  PROVE  Core
<1> USE DEF Init, GateInit
<1>1. TypeOK
  BY DEF TypeOK, GateTypeOK, Phase, ChainState, EntryType, Blank
<1>2. RootsCounted /\ Running
  BY DEF RootsCounted, Running, Live
<1>3. EntryOwnsClosedGate /\ TimerGuardsSuspension /\ PausedSchedulerHasResumer
  BY DEF EntryOwnsClosedGate, TimerGuardsSuspension, PausedSchedulerHasResumer
<1>4. /\ ParkedOnlyWhileClosed
      /\ DrainWaiterHasRoots
      /\ DrainedStaysDrained
      /\ QuiescentWhilePrepared
  BY DEF ParkedOnlyWhileClosed, DrainWaiterHasRoots, DrainedStaysDrained,
         QuiescentWhilePrepared
<1>5. Bookkeeping
  BY DEF Bookkeeping
<1> QED BY <1>1, <1>2, <1>3, <1>4, <1>5 DEF Core

\* Core reads only the variables of the specification.
LEMMA StutterCore ==
  ASSUME Core, UNCHANGED vars
  PROVE  Core'
<1>1. UNCHANGED <<restartDraining, fenceVars, suspendVars, rootVars, chain, drainWait,
                  coordinatorVars, loopVars>>
  BY DEF vars, gateVars
<1>2. TypeOK'
  BY <1>1 DEF Core, TypeOK, GateTypeOK, fenceVars, suspendVars, rootVars, coordinatorVars,
              loopVars
<1>3. RootsCounted' /\ Running'
  BY <1>1, RootsUntouched
<1>4. /\ ParkedOnlyWhileClosed'
      /\ DrainWaiterHasRoots'
      /\ DrainedStaysDrained'
      /\ QuiescentWhilePrepared'
  BY <1>1 DEF Core, ParkedOnlyWhileClosed, AdmissionClosed, DrainWaiterHasRoots,
              DrainedStaysDrained, QuiescentWhilePrepared, fenceVars, suspendVars,
              rootVars, loopVars
<1>5. Bookkeeping'
  BY <1>1 DEF Core, Bookkeeping, fenceVars, suspendVars, coordinatorVars, loopVars
<1> QED BY <1>1, <1>2, <1>3, <1>4, <1>5, CoordinatorUntouched DEF Core

\* Every step of the program preserves Core.
LEMMA NextCore ==
  ASSUME Core, [Next]_vars
  PROVE  Core'
<1>1. CASE GateStep /\ UNCHANGED <<coordinatorVars, loopVars>>
  BY <1>1, GateStepCore
<1>2. CASE \E e \in Entry : TimerFires(e)
  BY <1>2, TimerCore
<1>3. CASE EndHeldSuspension
  BY <1>3, EndHeldCore
<1>4. CASE DeadlinePasses \/ RenewHeldSuspension
  BY <1>4, HeldStaysCore
<1>5. ASSUME NEW c \in SuspendRoot \cup {NoRoot}, PrepareHolds(c) \/ PrepareRecovers(c)
      PROVE  Core'
  BY <1>5, PrepareCore
<1>6. ASSUME NEW c \in SuspendRoot \cup {NoRoot}, PrepareGivesUp(c)
      PROVE  Core'
  BY <1>6, GivesUpCore
<1>7. CASE MarkRestartDraining
  BY <1>7, DrainingCore
<1>8. CASE WaitForActiveRootWork \/ DrainEnds
  BY <1>8, DrainStepCore
<1>9. CASE LifecycleReset
  BY <1>9, ResetCore
<1>10. CASE UNCHANGED vars
  BY <1>10, StutterCore
<1> QED
  BY <1>1, <1>2, <1>3, <1>4, <1>5, <1>6, <1>7, <1>8, <1>9, <1>10 DEF Next

\* The inductive invariant of the gate, the coordinator and the run loop.
THEOREM SuspendCore == Spec => []Core
<1>1. Init => Core
  BY InitCore
<1>2. Core /\ [Next]_vars => Core'
  BY NextCore
<1> QED BY <1>1, <1>2, PTL DEF Spec

\* Every variable of the gate, the coordinator and the run loop keeps its type.
THEOREM SuspendTypes == Spec => []TypeOK
<1>1. Core => TypeOK
  BY DEF Core
<1> QED BY <1>1, SuspendCore, PTL

\* createGatewayRootWorkRelease and resetGatewayWorkAdmission keep the active set, the
\* reference counts and the outstanding leases in agreement.
THEOREM RootsAlwaysCounted == Spec => []RootsCounted
<1>1. Core => RootsCounted
  BY DEF Core
<1> QED BY <1>1, SuspendCore, PTL

\* A gate closed for suspension always has an entry whose reopenAdmission will be
\* accepted, with its timer armed.
THEOREM ClosedGateIsOwned == Spec => []SuspensionOwned
<1>1. Core => SuspensionOwned
  BY DEF Core, SuspensionOwned
<1> QED BY <1>1, SuspendCore, PTL

\* Whoever paused the scheduler of this lifecycle will resume it, and admits no new root
\* before it does (resumeSchedulingBeforeReopen).
THEOREM SchedulerNeverLost == Spec => []SchedulerAccounted
<1>1. Core => PausedSchedulerHasResumer
  BY DEF Core
<1>2. Core => SchedulerRunsWhileOpen
  <2> SUFFICES ASSUME Core, lifecycle \in paused
               PROVE  AdmissionClosed
    BY DEF SchedulerRunsWhileOpen
  <2>1. current # NoEntry \/ retiredForLifecycleReset # NoEntry
    BY DEF Core, PausedSchedulerHasResumer, EntriesToResume
  <2> QED BY <2>1 DEF Core, EntryOwnsClosedGate, Bookkeeping, AdmissionClosed
<1>3. PausedSchedulerHasResumer /\ SchedulerRunsWhileOpen => SchedulerAccounted
  BY DEF SchedulerAccounted
<1> QED BY <1>1, <1>2, <1>3, SuspendCore, PTL

\* No waiter sleeps on a gate that will not wake it, and the run loop does not wait for
\* roots that are gone.
THEOREM NobodySleepsForNothing == Spec => [](ParkedOnlyWhileClosed /\ DrainWaiterHasRoots)
<1>1. Core => ParkedOnlyWhileClosed /\ DrainWaiterHasRoots
  BY DEF Core
<1> QED BY <1>1, SuspendCore, PTL

\* After a drain that reported success nothing is admitted until the next lifecycle.
THEOREM DrainIsFinal == Spec => []DrainedStaysDrained
<1>1. Core => DrainedStaysDrained
  BY DEF Core
<1> QED BY <1>1, SuspendCore, PTL

\* While the host may suspend the process nothing runs but the preparing request.
THEOREM PreparedIsQuiescent == Spec => []QuiescentWhilePrepared
<1>1. Core => QuiescentWhilePrepared
  BY DEF Core
<1> QED BY <1>1, SuspendCore, PTL

\* Neither the host nor the run loop is told that nothing runs while something does.
THEOREM QuiescenceKept == Spec => []Quiescence
<1>1. RootsCounted /\ DrainedStaysDrained /\ QuiescentWhilePrepared => Quiescence
  BY DEF Quiescence
<1> QED BY <1>1, RootsAlwaysCounted, DrainIsFinal, PreparedIsQuiescent, PTL

\* One step keeps the fence that the recorded lease of restart.ts owns.
LEMMA FenceStep ==
  ASSUME Core, [Next]_vars, restartSignalPending,
         pendingRestartSignalAdmission = restartSignalGeneration,
         pendingRestartSignalAdmission' = pendingRestartSignalAdmission
  PROVE  restartSignalPending' \/ restartDraining'
<1>1. /\ restartSignalGeneration \in Nat /\ restartSignalGeneration > 0
      /\ pendingRestartSignalAdmission # 0
  BY DEF Core, TypeOK, GateTypeOK, Bookkeeping
<1>2. CASE GateStep
  <2>1. CASE ClearPendingRestartSignalAdmission
    BY <1>1, <2>1 DEF ClearPendingRestartSignalAdmission
  <2>2. ASSUME NEW g \in signalLeases, RollbackSignalLease(g)
        PROVE  restartSignalPending'
    <3>1. pendingRestartSignalAdmission # g
      BY <1>1, <2>2 DEF RollbackSignalLease
    <3>2. ~OwnsFence(g)
      BY <3>1 DEF OwnsFence
    <3> QED BY <2>2, <3>2 DEF RollbackSignalLease, ClearRestartSignalFence
  <2>3. ASSUME NEW r \in Root,
               \/ TryBegin(r) \/ ParkUntilOpen(r) \/ Recheck(r) \/ Retain(r)
               \/ ReleaseLease(r) \/ BeginRestartSignal(r)
               \/ \E p \in Root : Continuation(p, r)
        PROVE  restartSignalPending'
    BY <2>3 DEF TryBegin, ParkUntilOpen, Recheck, Retain, ReleaseLease,
                BeginRestartSignal, Continuation, fenceVars
  <2> QED BY <1>2, <2>1, <2>2, <2>3 DEF GateStep
<1>3. CASE MarkRestartDraining
  BY <1>3 DEF MarkRestartDraining, CloseForDrain
<1>4. CASE LifecycleReset
  BY <1>1, <1>4 DEF LifecycleReset, ResetGatewayWorkAdmission
<1>5. CASE WaitForActiveRootWork \/ DrainEnds
  BY <1>5 DEF WaitForActiveRootWork, DrainEnds, fenceVars
<1>6. CASE DeadlinePasses \/ RenewHeldSuspension \/ UNCHANGED vars
  BY <1>6 DEF DeadlinePasses, RenewHeldSuspension, vars, gateVars, fenceVars
<1>7. CASE EndHeldSuspension \/ \E e \in Entry : TimerFires(e)
  BY <1>7 DEF EndHeldSuspension, TimerFires, fenceVars
<1>8. CASE \E c \in SuspendRoot \cup {NoRoot} :
             PrepareHolds(c) \/ PrepareRecovers(c) \/ PrepareGivesUp(c)
  BY <1>8 DEF PrepareHolds, PrepareRecovers, PrepareGivesUp, BeginSuspend, fenceVars
<1> QED
  BY <1>2, <1>3, <1>4, <1>5, <1>6, <1>7, <1>8 DEF Next

\* A late rollback of an older restart attempt does not lower the fence that the recorded
\* lease owns (the generation check of rollbackFence).
THEOREM FenceStaysWithOwner == Spec => FenceKeptForOwner
<1>1. Core /\ [Next]_vars
      => [ /\ restartSignalPending
           /\ pendingRestartSignalAdmission = restartSignalGeneration
           /\ pendingRestartSignalAdmission' = pendingRestartSignalAdmission
           => restartSignalPending' \/ restartDraining' ]_vars
  BY FenceStep
<1> QED BY <1>1, SuspendCore, PTL DEF Spec, FenceKeptForOwner
=============================================================================
