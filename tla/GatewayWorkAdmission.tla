------------------------ MODULE GatewayWorkAdmission ------------------------
(***************************************************************************)
(* The process-wide gate of src/src/process/gateway-work-admission.ts: who *)
(* may start root work (a request, a timer tick, a detached transaction),  *)
(* and how a restart signal, a restart drain and a host suspension close   *)
(* and reopen it.                                                          *)
(*                                                                         *)
(* A root is an async chain.  Its admission object lives in the chain's    *)
(* AsyncLocalStorage, counts the leases taken on it and is retired when    *)
(* the last one is released or when an in-process restart resets the gate. *)
(* A chain that ended may be used again as a later request.  The module    *)
(* has no specification of its own: GatewaySuspend composes it with the    *)
(* suspension coordinator and the run loop, which call it.                 *)
(***************************************************************************)
EXTENDS Integers, FiniteSets

CONSTANTS
  Root,            \* async chains that ask for root work
  SuspendRoot,     \* those that serve gateway.suspend.* requests and nothing else
  MaxLeases,       \* bound on the leases of one root
  MaxSignal        \* bound on restartSignalGeneration

ASSUME RootAssumption == SuspendRoot \subseteq Root
ASSUME GateBoundsAssumption == MaxLeases \in Nat \ {0} /\ MaxSignal \in Nat

VARIABLES
  restartDraining, restartSignalPending, restartSignalGeneration,
  signalLeases,          \* generations whose rollback closure some restart attempt holds
  pendingRestartSignalAdmission,  \* the lease restart.ts has on record, 0 for none
  suspendPhase, suspendGeneration,
  suspendInvalidated,    \* generation the registered callback belongs to, 0 for none
  activeRootWork,        \* roots counted as active
  chain,                 \* root -> "idle", "parked", "woken", "running"
  references, released,  \* root -> fields of its admission object (0, TRUE if it has none)
  leases,                \* root -> release closures of it that were not called yet
  drainWait              \* the run loop's promise in waitForActiveGatewayRootWork

fenceVars   == <<restartSignalPending, restartSignalGeneration, signalLeases,
                 pendingRestartSignalAdmission>>
suspendVars == <<suspendPhase, suspendGeneration, suspendInvalidated>>
rootVars    == <<activeRootWork, references, released, leases>>
gateVars    == <<restartDraining, fenceVars, suspendVars, rootVars, chain, drainWait>>

GateInit ==
  /\ restartDraining = FALSE
  /\ restartSignalPending = FALSE
  /\ restartSignalGeneration = 0
  /\ signalLeases = {}
  /\ pendingRestartSignalAdmission = 0
  /\ suspendPhase = "accepting"
  /\ suspendGeneration = 0
  /\ suspendInvalidated = 0
  /\ activeRootWork = {}
  /\ chain = [r \in Root |-> "idle"]
  /\ references = [r \in Root |-> 0]
  /\ released = [r \in Root |-> TRUE]
  /\ leases = [r \in Root |-> 0]
  /\ drainWait = "none"

Phase == {"accepting", "preparing", "prepared"}
ChainState == {"idle", "parked", "woken", "running"}

GateTypeOK ==
  /\ restartDraining \in BOOLEAN
  /\ restartSignalPending \in BOOLEAN
  /\ restartSignalGeneration \in Nat
  /\ signalLeases \subseteq Nat
  /\ pendingRestartSignalAdmission \in Nat
  /\ suspendPhase \in Phase
  /\ suspendGeneration \in Nat
  /\ suspendInvalidated \in Nat
  /\ activeRootWork \subseteq Root
  /\ chain \in [Root -> ChainState]
  /\ references \in [Root -> Nat]
  /\ released \in [Root -> BOOLEAN]
  /\ leases \in [Root -> Nat]
  /\ drainWait \in {"none", "waiting", "woken"}

\* isGatewayWorkAdmissionClosed
AdmissionClosed ==
  restartDraining \/ restartSignalPending \/ suspendPhase # "accepting"

\* The chain carries an admission object that was not retired.
Live(r) == chain[r] = "running" /\ ~released[r]

WakeNobody(c) == c \* mutant: the waiters are forgotten

\* resolveSuspendOpenWaiters: every parked chain will run its loop again.
ResolveSuspendOpenWaiters(c) ==
  [r \in Root |-> IF c[r] = "parked" THEN "woken" ELSE c[r]]

ResolveRootDrainWaiters(d) == IF d = "waiting" THEN "woken" ELSE d

-----------------------------------------------------------------------------
(* Root work *)

CreateGatewayRootWorkAdmission(r) ==
  /\ activeRootWork' = activeRootWork \cup {r}
  /\ chain' = [chain EXCEPT ![r] = "running"]
  /\ references' = [references EXCEPT ![r] = 1]
  /\ released' = [released EXCEPT ![r] = FALSE]
  /\ leases' = [leases EXCEPT ![r] = 1]

\* tryBeginGatewayRootWorkAdmission of a new chain; refused while closed.
TryBegin(r) ==
  /\ chain[r] = "idle"
  /\ ~AdmissionClosed
  /\ CreateGatewayRootWorkAdmission(r)
  /\ UNCHANGED <<restartDraining, fenceVars, suspendVars, drainWait>>

\* beginGatewayRootWorkAdmissionWhenOpen and runWithGatewayIndependentRootWorkAdmission
\* on a closed gate: the chain waits, unless a drain makes it throw at once.
ParkUntilOpen(r) ==
  /\ r \notin SuspendRoot
  /\ chain[r] = "idle"
  /\ ~restartDraining
  /\ AdmissionClosed
  /\ chain' = [chain EXCEPT ![r] = "parked"]
  /\ UNCHANGED <<restartDraining, fenceVars, suspendVars, rootVars, drainWait>>

\* The loop of a resolved waiter runs a turn later, on the state it finds then.
Recheck(r) ==
  /\ chain[r] = "woken"
  /\ UNCHANGED <<restartDraining, fenceVars, suspendVars, drainWait>>
  /\ \/ /\ restartDraining
        /\ chain' = [chain EXCEPT ![r] = "idle"]
        /\ UNCHANGED rootVars
     \/ /\ ~restartDraining
        /\ AdmissionClosed
        /\ chain' = [chain EXCEPT ![r] = "parked"]
        /\ UNCHANGED rootVars
     \/ /\ ~AdmissionClosed
        /\ CreateGatewayRootWorkAdmission(r)

ParentInherits(p) == chain[p] = "running" \* mutant: a retired parent still vouches

\* runWithGatewayIndependentRootWorkContinuation takes the direct path for this parent.
ParentVouches(p) == Live(p)

\* A live parent detaches a new root whatever the gate says.
Continuation(p, r) ==
  /\ p \notin SuspendRoot
  /\ r \notin SuspendRoot
  /\ ParentVouches(p)
  /\ chain[r] = "idle"
  /\ CreateGatewayRootWorkAdmission(r)
  /\ UNCHANGED <<restartDraining, fenceVars, suspendVars, drainWait>>

CanRetain(r) == Live(r)

\* retainGatewayRootWorkAdmissionContinuation
Retain(r) ==
  /\ r \notin SuspendRoot
  /\ CanRetain(r)
  /\ leases[r] < MaxLeases
  /\ references' = [references EXCEPT ![r] = @ + 1]
  /\ leases' = [leases EXCEPT ![r] = @ + 1]
  /\ UNCHANGED <<restartDraining, fenceVars, suspendVars, activeRootWork, chain,
                 released, drainWait>>

\* A release closure called after a reset retired the object returns at once.
AlreadyReleased(r) == released[r]

\* createGatewayRootWorkRelease: one closure of r is called for the first time.
ReleaseLease(r) ==
  LET last == ~AlreadyReleased(r) /\ references[r] - 1 <= 0
      rest == activeRootWork \ {r}
  IN
  /\ leases[r] > 0
  /\ leases' = [leases EXCEPT ![r] = @ - 1]
  /\ references' = [references EXCEPT ![r] = IF AlreadyReleased(r) THEN @ ELSE @ - 1]
  /\ released' = [released EXCEPT ![r] = @ \/ last]
  /\ activeRootWork' = IF last THEN rest ELSE activeRootWork
  /\ drainWait' = IF last /\ rest = {} THEN ResolveRootDrainWaiters(drainWait) ELSE drainWait
  /\ chain' = [chain EXCEPT ![r] = IF leases[r] = 1 THEN "idle" ELSE @]
  /\ UNCHANGED <<restartDraining, fenceVars, suspendVars>>

-----------------------------------------------------------------------------
(* The reversible restart-signal fence, and the lease src/src/infra/restart.ts *)
(* keeps on it.                                                              *)

\* beginGatewayRestartSignalAdmission, called from inside root work by an attempt that
\* finds no lease on record.
BeginRestartSignal(r) ==
  /\ r \notin SuspendRoot
  /\ Live(r)
  /\ pendingRestartSignalAdmission = 0
  /\ ~restartDraining
  /\ ~restartSignalPending
  /\ restartSignalGeneration < MaxSignal
  /\ restartSignalPending' = TRUE
  /\ restartSignalGeneration' = restartSignalGeneration + 1
  /\ signalLeases' = signalLeases \cup {restartSignalGeneration + 1}
  /\ pendingRestartSignalAdmission' = restartSignalGeneration + 1
  /\ UNCHANGED <<restartDraining, suspendVars, rootVars, chain, drainWait>>

\* clearRestartSignalFence, if `owned`.
ClearRestartSignalFence(owned) ==
  IF owned /\ restartSignalPending /\ ~restartDraining
  THEN /\ restartSignalPending' = FALSE
       /\ restartSignalGeneration' = restartSignalGeneration + 1
       /\ chain' = ResolveSuspendOpenWaiters(chain)
  ELSE UNCHANGED <<restartSignalPending, restartSignalGeneration, chain>>

OwnsNoMatterWhat(g) == restartSignalPending \* mutant: the generation is not compared

\* The lease of generation g is the one the fence is up for.
OwnsFence(g) == restartSignalPending /\ restartSignalGeneration = g

\* rollbackFence of the attempt that created lease g, possibly long after the fence was
\* cleared, taken over by a drain, or raised again for another attempt.
RollbackSignalLease(g) ==
  /\ signalLeases' = signalLeases \ {g}
  /\ pendingRestartSignalAdmission' =
       IF pendingRestartSignalAdmission = g THEN 0 ELSE pendingRestartSignalAdmission
  /\ ClearRestartSignalFence(OwnsFence(g))
  /\ UNCHANGED <<restartDraining, suspendVars, rootVars, drainWait>>

\* clearPendingRestartSignalAdmission: the signal was handled, rejected or not delivered.
ClearPendingRestartSignalAdmission ==
  /\ restartSignalPending \/ pendingRestartSignalAdmission # 0
  /\ pendingRestartSignalAdmission' = 0
  /\ ClearRestartSignalFence(TRUE)
  /\ UNCHANGED <<signalLeases, restartDraining, suspendVars, rootVars, drainWait>>

-----------------------------------------------------------------------------
(* Operations of the gate that the run loop and the coordinator perform as *)
(* part of larger steps.                                                   *)

\* markGatewayRestartDraining up to the invalidation of a suspension.
CloseForDrain ==
  /\ ~restartDraining
  /\ restartDraining' = TRUE
  /\ restartSignalPending' = FALSE
  /\ restartSignalGeneration' = restartSignalGeneration + 1
  /\ chain' = ResolveSuspendOpenWaiters(chain)
  /\ UNCHANGED <<signalLeases, pendingRestartSignalAdmission, rootVars, drainWait>>

\* invalidateSuspendAdmission, of the gate's own state, if a suspension is in progress.
SupersedeSuspension ==
  IF suspendPhase = "accepting"
  THEN UNCHANGED suspendVars
  ELSE /\ suspendPhase' = "accepting"
       /\ suspendGeneration' = suspendGeneration + 1
       /\ suspendInvalidated' = 0

\* transition: the lease of generation g finds the gate in the phase it expects.
LeaseHolds(g, expected) == suspendGeneration = g /\ suspendPhase = expected

\* rollback and release of a suspension lease that holds.
ReopenSuspended ==
  /\ suspendPhase' = "accepting"
  /\ suspendInvalidated' = 0
  /\ UNCHANGED suspendGeneration
  /\ chain' = ResolveSuspendOpenWaiters(chain)

\* resetGatewayWorkAdmission, and the part of resetGatewayRestartStateForInProcessRestart
\* that drops the lease on record.
ResetGatewayWorkAdmission ==
  /\ references' = [r \in Root |-> IF r \in activeRootWork THEN 0 ELSE references[r]]
  /\ released' = [r \in Root |-> released[r] \/ r \in activeRootWork]
  /\ activeRootWork' = {}
  /\ drainWait' = ResolveRootDrainWaiters(drainWait)
  /\ restartDraining' = FALSE
  /\ restartSignalPending' = FALSE
  /\ restartSignalGeneration' = restartSignalGeneration + 1
  /\ suspendPhase' = "accepting"
  /\ suspendGeneration' = suspendGeneration + 1
  /\ suspendInvalidated' = 0
  /\ chain' = ResolveSuspendOpenWaiters(chain)
  /\ pendingRestartSignalAdmission' = 0
  /\ UNCHANGED <<signalLeases, leases>>
=============================================================================
