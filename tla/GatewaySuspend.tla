--------------------------- MODULE GatewaySuspend ---------------------------
(***************************************************************************)
(* The coordinator of host suspension,                                     *)
(* src/src/infra/gateway-suspend-coordinator.ts, composed with the work    *)
(* admission gate it closes and reopens, the cron scheduler it pauses and  *)
(* the part of src/src/cli/gateway-cli/run-loop.ts that drains the process *)
(* and starts the next in-process lifecycle.                               *)
(*                                                                         *)
(* prepare, status, resume and the timer callbacks are synchronous: each   *)
(* is one step.  Pausing, inspecting and resuming may throw; whether they  *)
(* do is a choice of the step.  Each lifecycle has a cron service of its   *)
(* own, and an entry's resumeScheduling is bound to the one it paused.     *)
(***************************************************************************)
EXTENDS GatewayWorkAdmission

CONSTANTS
  Entry,           \* identities of coordinator entries, reused once unreferenced
  NoEntry, NoRoot,
  MaxSuspension,   \* bound on suspendGeneration when a suspension is prepared
  MaxLifecycle     \* bound on in-process restarts

ASSUME EntryAssumption == NoEntry \notin Entry /\ NoRoot \notin Root
ASSUME SuspendBoundsAssumption == MaxSuspension \in Nat /\ MaxLifecycle \in Nat

VARIABLES
  current, retiredForLifecycleReset,   \* COORDINATOR_STATE
  entry,                               \* the entry objects
  timers,                              \* entries whose timer is armed
  paused,                              \* lifecycles whose cron scheduler is paused
  lifecycle,                           \* in-process restarts so far
  runLoop,                             \* "serving", "draining", "closing"
  verdict                              \* what the root drain of this restart reported

coordinatorVars == <<current, retiredForLifecycleReset, entry, timers, paused>>
loopVars == <<lifecycle, runLoop, verdict>>
vars == <<gateVars, coordinatorVars, loopVars>>

\* owner is the generation of the lease; reopens is the phase its reopenAdmission
\* expects: "preparing" for rollback, "prepared" for release.
EntryType == [kind : {"held", "recovering"}, owner : Nat, reopens : Phase,
              lifecycle : Nat, expired : BOOLEAN]

Blank == [kind |-> "held", owner |-> 0, reopens |-> "accepting",
          lifecycle |-> 0, expired |-> FALSE]

Init ==
  /\ GateInit
  /\ current = NoEntry
  /\ retiredForLifecycleReset = NoEntry
  /\ entry = [e \in Entry |-> Blank]
  /\ timers = {}
  /\ paused = {}
  /\ lifecycle = 0
  /\ runLoop = "serving"
  /\ verdict = "none"

Unreferenced(e) == e \notin {current, retiredForLifecycleReset} \cup timers

Held == current # NoEntry /\ entry[current].kind = "held"

Put(e, record) == [x \in Entry |-> IF x = e THEN record ELSE entry[x]]

Replace(e, f, record) ==
  [x \in Entry |-> IF x = f THEN record ELSE IF x = e THEN Blank ELSE entry[x]]

-----------------------------------------------------------------------------
(* Leaving a suspension *)

RearmNothing(T, e) == T \* mutant: a failed retry schedules no other

\* scheduleRecoveryRetry
Rearm(T, e) == T \cup {e}

\* enterSchedulerRecovery: retry later, with the gate left closed.
EnterSchedulerRecovery(e, T) ==
  IF entry[e].kind = "recovering"
  THEN /\ timers' = Rearm(T, e)
       /\ UNCHANGED <<current, entry>>
  ELSE \E f \in Entry :
       /\ Unreferenced(f)
       /\ current' = f
       /\ entry' = Replace(e, f, [entry[e] EXCEPT !.kind = "recovering", !.expired = FALSE])
       /\ timers' = Rearm(T \ {e}, f)

ResumeFailsOpen(e, T) == \* mutant: the gate reopens although cron did not resume
  /\ paused' = paused
  /\ ReopenSuspended
  /\ timers' = T \ {e}
  /\ current' = NoEntry
  /\ entry' = Put(e, Blank)

\* resumeScheduling threw.
ResumeFails(e, T) ==
  /\ EnterSchedulerRecovery(e, T)
  /\ UNCHANGED <<paused, suspendVars, chain>>

\* resumeAndReopen, with T the timers armed when it is called.
ResumeAndReopen(e, T) ==
  \/ ResumeFails(e, T)
  \/ /\ paused' = paused \ {entry[e].lifecycle}
     /\ IF LeaseHolds(entry[e].owner, entry[e].reopens)
        THEN /\ ReopenSuspended
             /\ timers' = T \ {e}
             /\ current' = NoEntry
             /\ entry' = Put(e, Blank)
        ELSE EnterSchedulerRecovery(e, T) /\ UNCHANGED <<suspendVars, chain>>

\* A timer callback acts only if its entry is still the current one.
TimerFires(e) ==
  /\ e \in timers
  /\ entry[e].kind = "held" => entry[e].expired
  /\ IF current = e
     THEN ResumeAndReopen(e, timers \ {e})
     ELSE timers' = timers \ {e} /\ UNCHANGED <<current, entry, paused, suspendVars, chain>>
  /\ UNCHANGED <<restartDraining, fenceVars, rootVars, drainWait,
                 retiredForLifecycleReset, loopVars>>

\* resumeGatewaySuspend with the right id, and prepare, status or resume that find the
\* suspension past its deadline (normalizeExpiredHeldSuspension).
EndHeldSuspension ==
  /\ Held
  /\ ResumeAndReopen(current, timers)
  /\ UNCHANGED <<restartDraining, fenceVars, rootVars, drainWait,
                 retiredForLifecycleReset, loopVars>>

DeadlinePasses ==
  /\ Held
  /\ ~entry[current].expired
  /\ entry' = [entry EXCEPT ![current].expired = TRUE]
  /\ UNCHANGED <<gateVars, current, retiredForLifecycleReset, timers, paused, loopVars>>

-----------------------------------------------------------------------------
(* prepareGatewaySuspend *)

\* The same request prepares again before the deadline: renewHeldSuspension.
RenewHeldSuspension ==
  /\ Held
  /\ ~entry[current].expired
  /\ timers' = Rearm(timers, current)
  /\ UNCHANGED <<gateVars, current, retiredForLifecycleReset, entry, paused, loopVars>>

\* getActiveGatewayRootWorkCount({ excludeCurrent: true }) = 0 for a caller on chain c.
NoOtherRoot(c) == activeRootWork \ {c} = {}

\* What prepare starts from: the present state, or the one a suspension past its
\* deadline leaves behind when it could be ended on the spot.
StartsFresh ==
  \/ current = NoEntry /\ suspendPhase = "accepting"
  \/ /\ Held
     /\ entry[current].expired
     /\ LeaseHolds(entry[current].owner, entry[current].reopens)

FreshChain == IF current = NoEntry THEN chain ELSE ResolveSuspendOpenWaiters(chain)
FreshPaused == IF current = NoEntry THEN paused ELSE paused \ {entry[current].lifecycle}

\* tryBeginGatewaySuspendAdmission succeeds for a request served on chain c.
BeginSuspend(c) ==
  /\ c = NoRoot \/ (c \in SuspendRoot /\ Live(c))
  /\ StartsFresh
  /\ ~restartDraining
  /\ ~restartSignalPending
  /\ suspendGeneration < MaxSuspension
  /\ suspendGeneration' = suspendGeneration + 1
  /\ UNCHANGED <<restartDraining, fenceVars, rootVars, drainWait,
                 retiredForLifecycleReset, loopVars>>

NewEntry(kind, reopens) ==
  [kind |-> kind, owner |-> suspendGeneration + 1, reopens |-> reopens,
   lifecycle |-> lifecycle, expired |-> FALSE]

\* The gate stays closed in phase p, owned by a new entry.
Install(kind, p) ==
  /\ suspendPhase' = p
  /\ suspendInvalidated' = suspendGeneration + 1
  /\ chain' = FreshChain
  /\ paused' = FreshPaused \cup {lifecycle}
  /\ \E e \in Entry : /\ Unreferenced(e)
                      /\ current' = e
                      /\ entry' = Replace(current, e, NewEntry(kind, p))
                      /\ timers' = (timers \ {current}) \cup {e}

\* Idle: the suspension is held until its deadline.
PrepareHolds(c) ==
  /\ BeginSuspend(c)
  /\ NoOtherRoot(c)
  /\ Install("held", "prepared")

\* Busy, or inspecting or creating the id threw, and cron would not resume either.
PrepareRecovers(c) ==
  /\ BeginSuspend(c)
  /\ \/ Install("recovering", "preparing")
     \/ NoOtherRoot(c) /\ Install("recovering", "prepared")

\* Pausing threw, or cron resumed after any of the above: rollback or release.
PrepareGivesUp(c) ==
  /\ BeginSuspend(c)
  /\ suspendPhase' = "accepting"
  /\ suspendInvalidated' = 0
  /\ chain' = ResolveSuspendOpenWaiters(FreshChain)
  /\ paused' = FreshPaused \ {lifecycle}
  /\ current' = NoEntry
  /\ entry' = Put(current, Blank)
  /\ timers' = timers \ {current}

-----------------------------------------------------------------------------
(* The run loop *)

IgnoreInvalidation == UNCHANGED coordinatorVars \* mutant: the callback does nothing

\* The callback tryBeginGatewaySuspendAdmission registered for the current entry.
OnInvalidated ==
  IF current # NoEntry /\ entry[current].owner = suspendInvalidated
  THEN /\ current' = NoEntry
       /\ retiredForLifecycleReset' = current
       /\ timers' = timers \ {current}
       /\ UNCHANGED <<entry, paused>>
  ELSE UNCHANGED coordinatorVars

\* markRestartDraining on an accepted restart signal.
MarkRestartDraining ==
  /\ runLoop = "serving"
  /\ lifecycle < MaxLifecycle
  /\ runLoop' = "draining"
  /\ CloseForDrain
  /\ SupersedeSuspension
  /\ IF suspendPhase = "accepting" THEN UNCHANGED coordinatorVars ELSE OnInvalidated
  /\ UNCHANGED <<lifecycle, verdict>>

\* waitForActiveGatewayRootWork
WaitForActiveRootWork ==
  /\ runLoop = "draining"
  /\ drainWait = "none"
  /\ activeRootWork # {}
  /\ drainWait' = "waiting"
  /\ UNCHANGED <<restartDraining, fenceVars, suspendVars, rootVars, chain,
                 coordinatorVars, loopVars>>

\* The drain is over: found or became empty, ran out of time, or was skipped (force).
DrainEnds ==
  /\ runLoop = "draining"
  /\ runLoop' = "closing"
  /\ drainWait' = "none"
  /\ \/ drainWait = "none" /\ verdict' = "forced"
     \/ drainWait = "none" /\ activeRootWork = {} /\ verdict' = "drained"
     \/ drainWait # "none" /\ verdict' = IF activeRootWork = {} THEN "drained" ELSE "timedOut"
  /\ UNCHANGED <<restartDraining, fenceVars, suspendVars, rootVars, chain,
                 coordinatorVars, lifecycle>>

\* Entries whose scheduler resetGatewaySuspendCoordinator resumes.
EntriesToResume == {current, retiredForLifecycleReset} \ {NoEntry}

\* The restart iteration hook: resetGatewaySuspendCoordinatorForLifecycleRestart, then
\* resetAllLanes, which resets the gate.  A resume that throws is only logged.
LifecycleReset ==
  /\ runLoop = "closing"
  /\ runLoop' = "serving"
  /\ lifecycle' = lifecycle + 1
  /\ verdict' = "none"
  /\ \E failed \in SUBSET EntriesToResume :
       paused' = paused \ {entry[e].lifecycle : e \in EntriesToResume \ failed}
  /\ timers' = timers \ EntriesToResume
  /\ current' = NoEntry
  /\ retiredForLifecycleReset' = NoEntry
  /\ entry' = [e \in Entry |-> IF e \in EntriesToResume THEN Blank ELSE entry[e]]
  /\ ResetGatewayWorkAdmission

-----------------------------------------------------------------------------
GateStep ==
  \/ \E r \in Root : \/ TryBegin(r)
                     \/ ParkUntilOpen(r)
                     \/ Recheck(r)
                     \/ Retain(r)
                     \/ ReleaseLease(r)
                     \/ BeginRestartSignal(r)
                     \/ \E p \in Root : Continuation(p, r)
  \/ \E g \in signalLeases : RollbackSignalLease(g)
  \/ ClearPendingRestartSignalAdmission

Next ==
  \/ GateStep /\ UNCHANGED <<coordinatorVars, loopVars>>
  \/ \E e \in Entry : TimerFires(e)
  \/ EndHeldSuspension
  \/ DeadlinePasses
  \/ RenewHeldSuspension
  \/ \E c \in SuspendRoot \cup {NoRoot} : \/ PrepareHolds(c)
                                          \/ PrepareRecovers(c)
                                          \/ PrepareGivesUp(c)
  \/ MarkRestartDraining
  \/ WaitForActiveRootWork
  \/ DrainEnds
  \/ LifecycleReset

Spec == Init /\ [][Next]_vars

\* Deadlines pass and timers fire; cron does not refuse to resume for ever; a resolved
\* promise runs; the signal handler of the run loop drains or gives the fence back; a
\* drain ends and the next lifecycle starts.
Fairness ==
  /\ WF_vars(DeadlinePasses)
  /\ WF_vars(\E e \in Entry : TimerFires(e) /\ current' = NoEntry)
  /\ \A r \in Root : WF_vars(Recheck(r) /\ UNCHANGED <<coordinatorVars, loopVars>>)
  /\ WF_vars(/\ restartSignalPending
             /\ \/ ClearPendingRestartSignalAdmission /\ UNCHANGED <<coordinatorVars, loopVars>>
                \/ MarkRestartDraining)
  /\ WF_vars(DrainEnds)
  /\ WF_vars(LifecycleReset)

LiveSpec == Spec /\ Fairness

-----------------------------------------------------------------------------
(* Properties *)

\* Every variable of the gate, the coordinator and the run loop has its type.
TypeOK ==
  /\ GateTypeOK
  /\ current \in Entry \cup {NoEntry}
  /\ retiredForLifecycleReset \in Entry \cup {NoEntry}
  /\ entry \in [Entry -> EntryType]
  /\ timers \subseteq Entry
  /\ paused \subseteq Nat
  /\ lifecycle \in Nat
  /\ runLoop \in {"serving", "draining", "closing"}
  /\ verdict \in {"none", "forced", "drained", "timedOut"}

\* The active set holds exactly the roots whose object was not retired, and such an
\* object counts exactly the leases still out: neither a reset nor a late release of an
\* abandoned chain makes the two disagree (createGatewayRootWorkRelease).
RootsCounted ==
  \A r \in Root : /\ r \in activeRootWork <=> Live(r)
                  /\ Live(r) => references[r] = leases[r] /\ leases[r] > 0
                  /\ ~Live(r) => references[r] = 0

\* The gate is closed for suspension exactly while the coordinator has a current entry;
\* the entry's lease is of the gate's generation and expects the phase the gate is in, so
\* that its reopenAdmission is not refused, and the callback that drops it is registered.
EntryOwnsClosedGate ==
  /\ current # NoEntry <=> suspendPhase # "accepting"
  /\ current # NoEntry => /\ LeaseHolds(entry[current].owner, entry[current].reopens)
                          /\ entry[current].lifecycle = lifecycle
                          /\ suspendInvalidated = suspendGeneration

\* Rollback stays fail-closed: no new root work is admitted while the cron scheduler of
\* this lifecycle is paused (comment above resumeSchedulingBeforeReopen).
SchedulerRunsWhileOpen == lifecycle \in paused => AdmissionClosed

\* A paused scheduler of this lifecycle is referenced by the entry that will resume it,
\* also after a restart drain took the suspension over (retiredForLifecycleReset).
PausedSchedulerHasResumer ==
  lifecycle \in paused => \E e \in EntriesToResume : entry[e].lifecycle = lifecycle

\* No chain sleeps on suspendOpenWaiters while the gate is open or a drain has begun.
ParkedOnlyWhileClosed ==
  (\E r \in Root : chain[r] = "parked") => AdmissionClosed /\ ~restartDraining

\* The run loop does not sleep in waitForActiveGatewayRootWork when no root is left.
DrainWaiterHasRoots == drainWait = "waiting" => activeRootWork # {}

\* Once the drain of a restart reported success, no root work runs until the next
\* lifecycle: neither a waiter nor a continuation slips in while the server closes.
DrainedStaysDrained ==
  runLoop = "closing" /\ verdict = "drained" => activeRootWork = {}

\* While the host may suspend the process, the only root that can still be running is
\* the request that prepared the suspension.
QuiescentWhilePrepared ==
  suspendPhase = "prepared" => /\ activeRootWork \subseteq SuspendRoot
                               /\ \A r, s \in activeRootWork : r = s

\* Exactly the current entry has a timer: every suspension and every recovery will be
\* looked at again, and no timer of an entry that was dropped is left behind.
TimerGuardsSuspension == timers = {current} \ {NoEntry}

\* A suspension and what will end it never come apart: gate, coordinator entry, lease and
\* expiry timer change hands together when a restart drain, an expiry, a failed resume or a
\* reset races them (the onInvalidated callback of prepareGatewaySuspend).
SuspensionOwned == EntryOwnsClosedGate /\ TimerGuardsSuspension

\* A paused cron scheduler is neither lost nor outrun: someone will resume it, and until
\* then no root work is admitted (resumeAndReopen, resetGatewaySuspendCoordinator).
SchedulerAccounted == PausedSchedulerHasResumer /\ SchedulerRunsWhileOpen

\* Nothing runs behind a promise that nothing runs, whether the promise was given to the
\* host (prepareGatewaySuspend) or to the run loop (waitForActiveGatewayRootWork), and the
\* count both rest on is right, also after late releases of an abandoned lifecycle.
Quiescence == RootsCounted /\ DrainedStaysDrained /\ QuiescentWhilePrepared

\* The fence raised for the lease that restart.ts has on record comes down only for a
\* drain or a new lifecycle: a late rollback of an older attempt leaves it alone.
FenceKeptForOwner ==
  [][ /\ restartSignalPending
      /\ pendingRestartSignalAdmission = restartSignalGeneration
      /\ pendingRestartSignalAdmission' = pendingRestartSignalAdmission
      => restartSignalPending' \/ restartDraining' ]_vars

\* A suspension ends: it expires, is resumed or is superseded by a restart, also if cron
\* refuses to resume a few times.
SuspensionEnds == suspendPhase # "accepting" ~> suspendPhase = "accepting"

\* A chain that waits for the gate is admitted or told that the process restarts.
ParkedRootsProceed == \A r \in Root : chain[r] = "parked" ~> chain[r] \in {"running", "idle"}
=============================================================================
