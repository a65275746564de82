# A TLA+ verification of OpenClaw's gateway runtime

OpenClaw is a TypeScript monorepo around one long-running process, the *gateway*: it
receives messages from chat channels, runs embedded agents on them, delivers the replies
and keeps timers (heartbeats, cron) and durable queues.  Everything in the process shares
one event loop, so there are no data races; what is hard is what happens *between* two
turns of the loop: a task that outlives its slot, a reset that happens while a closure still
holds an old object, a lease whose owner was replaced, a timer that fires after the state
it was armed for is gone, a process restart between two writes.

The specifications here model that runtime from its source.  Paths below are relative to
the repository root.

## 1. Inventory

| Part | Source | State | Operations | Hard because |
|---|---|---|---|---|
| Command queue | `src/process/command-queue.ts` | lanes (Map of lane-state objects), slots, generations, waiters | enqueue, set limit, settle, time out, clear, reset, wait | settlements of tasks that outlive a reset, a timeout or a retired lane |
| Work admission | `src/process/gateway-work-admission.ts` | restart fence, restart drain, suspend phase, admitted roots and their references, two waiter sets | admit, retain, release, fence, drain, prepare, commit, roll back, reset | leases of an earlier generation, waiters across reopen, refcounts across reset |
| Suspend coordinator | `src/infra/gateway-suspend-coordinator.ts` | held or recovering entry, retired entry, timers | prepare, status, resume, expire, recover, lifecycle reset | scheduler resume that fails half-way, restart superseding a suspension |
| Embedded runs | `src/agents/embedded-agent-runner/run/*` | run nested in a session lane and a global lane | enqueue, start, time out, abort | nested waits on two lanes, a timed-out run that is still executing |
| Heartbeat wake | `src/infra/heartbeat-wake.ts` | pending wakes, timer, running flag, handler generation | request, fire, retry, replace handler | wakes requested while a batch runs, handler replaced mid-run |
| Delivery queue | `src/infra/delivery-queue-sqlite*.ts`, `src/infra/outbound/*` | durable rows, claims, recovery state | enqueue, claim, send, ack, fail, recover | crash between send and ack, claims of dead processes |
| Follow-up queue | `src/auto-reply/reply/queue/*` | per-session queue, mode, drop policy, drain | enqueue, drain, steer, clear | enqueue during drain, cap and summary of dropped items |
| Ingress queue | `src/channels/message/ingress-*` | durable inbound messages | accept, claim, finish | duplicate delivery, crash while claimed |
| Cron | `src/cron/service/*` | jobs, timer, run log, lock | add, update, arm, run, finish | job edited while running, missed runs after restart |
| Session suspension | `src/agents/session-suspension.ts` | quota suspensions of lanes | suspend, resume | resume timers across restarts |
| Exec approvals | `src/gateway/exec-approval-manager.ts` | pending approvals | create, resolve, expire, consume | decision racing expiry, double consumption |
| Gateway lock, restart | `src/infra/gateway-lock.ts`, `src/infra/restart*.ts` | lock file, restart intent | acquire, steal, release | stale owner, pid reuse |
| Task registry, subagents | `src/tasks/*`, `src/agents/subagent-registry*` | task and run records | register, finish, sweep | completion racing cleanup |
| Plugins, providers, channels, apps, UI, CLI | `extensions/`, `apps/`, `ui/`, `src/cli` ... | mostly I/O | - | out of scope, see section 11 |

## 2. How the model is organised

| Module | Models | Composes |
|---|---|---|
| `CommandQueue` | `process/command-queue.ts`, `process/lanes.ts` | - |
| `GatewayWorkAdmission` | `process/gateway-work-admission.ts` | - (no specification of its own) |
| `GatewaySuspend` | `infra/gateway-suspend-coordinator.ts`, the suspend methods of the gateway server, the drain and restart of `cli/gateway-cli/run-loop.ts` | `GatewayWorkAdmission` |
| `HeartbeatWake` | `infra/heartbeat-wake.ts` and the exemption rule of `infra/heartbeat-cooldown.ts` | - |
| `ExecApprovals` | `gateway/exec-approval-manager.ts` over `gateway/operator-approval-store.ts`, with the lookups, replays and starts of the gateway that touch both | implements `ApprovalContract` |
| `ApprovalContract` | what an approval promises, as a specification of its own | - |
| `DeliveryQueue` | `infra/delivery-queue-sqlite*.ts`, `infra/outbound/deliver-queue*.ts`, `infra/outbound/delivery-queue-*.ts`, `infra/delivery-recovery.shared.ts` | - |
| `SessionSuspension` | `agents/session-suspension.ts`, `gateway/server-lanes.ts` and the steps of a close and a start that call them | - (a lane is its limit; `CommandQueue` says what a limit does) |
| `IngressDrain` | `channels/message/ingress-*.ts` | - |
| `MC...` | instances for TLC: value sets and symmetry | the module they extend |
| `...Proofs` | theorems and their lemmas | the module they extend |

One convention holds everywhere.  JavaScript runs to completion between two turns of the
event loop, so a synchronous function is one action together with everything it calls, and
an `await`, a timer or a promise reaction is the boundary between two actions.  Objects that
closures hold on to (lane states, admission objects, coordinator entries, handler
generations) have identities of their own; the variable or Map entry that names the present
one is separate state.  Most of the properties are about the difference between the two.

A definition named *mutant* in its comment is a plausible bug.  It is not part of any
specification: it stands beside the definition it would replace, to show that the property
it breaks depends on that code.

## 3. CommandQueue

All of `command-queue.ts` runs synchronously between two turns, so each exported function
and each settlement of a task promise is one action, including the pump, the retirement of
the lane and the notification of waiters that it triggers.

| Code | Model |
|---|---|
| `lanes: Map<string, LaneState>` | `lanes`, lane name to object identity or `Nil` |
| `LaneState` | `laneOf`, `queue`, `activeTaskIds`, `maxConcurrent`, `generation`, indexed by object |
| `QueueEntry` and its closure | `phase`, `priority`, `sequence`, `place`, `taskGeneration`, `body`, `timer` |
| `ActiveTaskWaiter` | `waiting`, `waitsFor` |
| `enqueueCommandInLane`, `setCommandLaneConcurrency`, `clearCommandLane`, `resetCommandLane`, `resetAllLanes`, `waitForActiveTasks` | the actions of these names; `EnqueueRefused`, `WaitRefused` are their early returns |
| `runQueueEntryTask`: return, timeout, abort grace, release | `BodyFinishes`, `BodyFinishesLate`, `TaskTimesOut`, `Abort`, `Release` |

The body of a task (`body`) is kept apart from its slot: after a timeout or a release the
promise is settled and the slot freed while the body goes on running.

| Run | Instance | Shows |
|---|---|---|
| `queue_safety` | one session lane, 3 entries of 2 priorities (2 timed), 3 lane objects, limits -1 and 2, both signals, one reset | an unsettled entry is in one queue or holds one slot of the present generation (`EntriesAccounted`); no lane with work is unbound from the Map or left unpumped, and idle session lanes retire (`LanesSound`); a completion of an earlier generation changes no slot (that it wakes no waiter either is proved in section 10: the run has no waiter); an entry never starts before one that should precede it |
| `queue_liveness` | one probe session lane, 3 entries, 1 of them timed, limit arguments 0 and 1, a waiter, one reset, admission that is fenced and drained | queued work leaves its queue, waiters resolve |

Three lane objects are what it takes for a lane to be retired and created again while a task
of the first object still runs; one reset gives two generations, which is all the code
compares; three entries let one run, one wait and one outlive its slot.  The lane of the
liveness run is one that `isQuietProbeLane` recognizes, so that the argument 0 is clamped to
1: any other lane may be suspended with limit 0 and then keeps its queue.

Fairness: armed timers fire, and a body without a timeout returns.  A body with a timeout
may hang for ever.  The timer re-arms itself while a task reports progress, so it is
assumed that no task reports progress without ever finishing.  Nothing is claimed about a
background entry in a lane that always has foreground work.

## 4. GatewayWorkAdmission and GatewaySuspend

The gate decides who may start *root work*.  Three things close it: a restart signal that
was sent but not handled (the *fence*), the drain before a restart, and a host suspension.

| Code | Model |
|---|---|
| `restartSignalPending`, `restartSignalGeneration`, `restartDraining`, `suspendPhase`, `suspendGeneration` | the variables of these names |
| `activeRootWork`, the references and `released` of a root admission | `activeRootWork`, `references`, `released`; the leases callers still hold are `leases` |
| an async chain waiting in `waitForGatewaySuspendOpen` or running under its admission | `chain` |
| waiter of `waitForActiveGatewayRootWork` | `drainWait` |
| `COORDINATOR_STATE`: `current`, `retiredForLifecycleReset`, timers | `current`, `retiredForLifecycleReset`, `entry`, `timers` |
| the cron scheduler of each lifecycle | `paused` |
| the run loop | `lifecycle`, `runLoop`, `verdict` |

`prepare`, `status` and `resume` of the coordinator are synchronous and are one action each;
whether pausing, inspecting or resuming throws is a choice of that action.  A pause that
throws is taken to leave the scheduler as it was.  The work inspectors other than root work
(queues, runs, terminals) are a free choice: they may report work at any moment.  The clock
is reduced to the flag `expired` of a held entry.  The identities of chains and entries are
used again once nothing refers to them.

The run `suspend` (one suspend request, two other chains with up to two leases, three
suspensions, three restart signals, two in-process restarts) shows that a closed gate has an
entry that can reopen it and a timer that will (`SuspensionOwned`); that a scheduler paused
in this lifecycle has somebody who resumes it, and that nothing is admitted before
(`SchedulerAccounted`); that reference counts survive an in-process restart while old leases
are still out and nothing runs after a drain reported success or while a suspension is
prepared (`Quiescence`); that a late rollback does not take the fence from its owner; and
that suspensions end and parked chains proceed.  Two ordinary chains are the parent and the
continuation it vouches for; two lifecycles let a lease of the first be released in the
second; three signals let a late rollback meet the fence of another attempt.  Deadlock
checking is on.

Fairness: deadlines pass, so a controller that renews a suspension for ever is excluded;
cron does not refuse to resume for ever; resolved promises run; the signal handler drains or
gives the fence back; a drain ends (the code bounds it by a timeout) and the next lifecycle
starts.

## 5. HeartbeatWake

| Code | Model |
|---|---|
| `handler`, `handlerGeneration`, `timer`, `running` | the variables of these names |
| `pendingWakes: Map<target, PendingWakeGroup>` | `pendingWakes`, a set of wakes, and `blocked`, the targets under backoff |
| the local batch of each `schedule` loop | `batch`, per handler generation |
| requests not yet answered | `owed` (what the properties are about; no code reads it) |

A wake carries the set of requests merged into it.  Instants are abstracted to the steps
`BackoffElapses` and `GuardElapses`; an armed timer may fire at any moment.  Which of two
wakes of equal priority is the newer one is a free choice (`newer`), which also covers equal
timestamps.  A batch is a set and its order is chosen as it is consumed, within the order
that `takePendingWakeBatch` sorts by.  What the handler answers is free, except that manual
wakes are never guarded (`shouldDeferWake`).

The run `heartbeat` (two targets, two requests of any intent, three generations) shows that
no request is lost or carried twice across merges, retries, guards, exceptions and replaced
handlers; that a pending wake has a timer or a loop behind it and the running flag is owned
by the present handler's loop (`LoopOwned`); that the loop of a replaced handler lets go
of its whole batch at the answer it waits for; and that every request is answered.  Two
requests are enough for every merge, three generations
for a hand-off to a handler that is itself replaced; the proofs of section 10 hold for any
number.

Fairness: time passes and timers fire, handlers answer or throw, a handler does not find the
same request busy, deferred or failing for ever (strong fairness per request), and a gateway
without a handler gets one.

A wake that is merged with others is known by the intent of the preferred one.  An event of
source "retry" would be merged under a scheduled tick and dropped with it by a guard; no
caller in the repository sends one, and the runs and proofs leave it out
(`EventPriority = {2}`).

## 6. ExecApprovals and ApprovalContract

An approval lives twice: as a row of the store and as an entry of the manager whose caller
waits for the answer.  A gateway lifetime has one manager per kind; an in-process restart
leaves the old managers, their waiters and timers alive, a crash ends them.

| Code | Model |
|---|---|
| a row of `operator_approvals` | `row`: status, decision, owner, consumed, and whether it is decodable (`sound`) and past its retention (`old`) |
| `pending: Map<string, PendingEntry>` of a manager | `entry`, with its promise (`state`, `decision`), timers, handoff count and the two consumption flags |
| `register`, `resolveDetailed`, `expire`/`forceDenyDetailed`, `getSnapshot`, `retainForHandoff` and its release, `consumeAllowOnce`, `consumeAskFallback` | the actions of these names |
| the expiry timer and the cleanup timer | `ExpiryTimerFires`, `CleanupTimerFires` |
| `loadVisibleApproval`, the session-event replay, `createGatewayAuxHandlers` | `LookupApproval`, `Replay`, `StartGateway` |

Every manager method is synchronous and is one action with the store transaction in it; each
transaction may throw, and a row may become undecodable at any moment (`RowBreaks`).  A pending
row that cannot be decoded and is overdue is overwritten by whoever closes or reads it
(`expirePendingRow`) and may be decodable again after that (`Overwritten`).
Instants are steps: a deadline passes, a grace period is over, a retention is over.  Left
out: the local-only mode without store, which only tests use; presentation, delivery to
reviewers and access checks; the `existing` outcome of an insert, which ids generated per
request do not reach.

The run `approvals` (one id, two lifetimes, two handoffs) shows that a pending prompt has a
living entry and a waiting entry its timer (`WaitersGuarded`); that permission is what the
store says and is used once (`AllowSound`); that a handoff keeps its entry; that the pair of
store and managers implements `ApprovalContract` (one verdict per request, one answer per
waiter, an allow only if it is the verdict, an allow-once spent once, by the manager that was
answered); and that waiters are released.  Two lifetimes are an owner and its successor, which
is all that the owner check distinguishes; ids do not interact.  The refinement maps `verdict`
to the row's decision, `answer` to the entry's promise and `spent` to the row's consumption.
Deadlock checking is on.

Fairness: deadlines come and expiry timers fire.

## 7. DeliveryQueue

One row of the outbound queue and everyone who touches it: a producer that submits the
message (`intent`), the sender that holds the in-process claim (`sender`, live or recovery),
the provider behind the adapter, and crashes.  What is delivered is a constant of a behaviour
(`delivery`), chosen from `Deliveries`: an *ordinary* message, one with a permanent
*receipt*, or a *stable* intent (cron) that is fenced by producer claims in the database.

| Code | Model |
|---|---|
| a row of `delivery_queue_entries` | `row`: status, recovery state, claim and attempt ids, send stamp, lease, the two counters |
| `stageAndEnqueueOutboundDelivery`, `withActiveDeliveryClaim`, claim and promotion | `Submit`, `LiveSenderEnters`, `ClaimPending`, `TakeCustody` |
| `onPlatformSendStart`, `onPlatformSendDispatch`, `onDeliveryResult` | `PlatformSendStart`, `ExactSendStart`, `PlatformSendDispatch`, `DeliveryResult` |
| settlement in `deliverOutboundPayloadsWithQueueCleanup` | `SettlePostSend`, `SettleLive` |
| `recoverPendingDeliveries`, `drainPendingDeliveries`, `drainQueuedEntry` | `ScanRejects`, `ScanDeadLetters`, `ScanBegins`, `ReconciledSent`, `ReconciledNotSent`, `Unreconciled`, `FenceRecovery`, `ReserveAttempt`, `DeadLetterSpent`, `SettleRecovery` |

Every storage function is one step and may throw; between two steps is where another process, a
crash or the lease's end comes in.  For functions that check an owner, and for the reservation
of an attempt, the step is a transaction.  An update, an acknowledgement or a dead letter
without owner is a read and a write in one turn of the event loop, atomic within its process only:
what a second process writes between the two is left out.  The provider may accept a call at any
moment until it returns, and an error says nothing about acceptance unless it is a
rejection.  A permanent failure, recognized by its text before or after the call, may
dead-letter the row at once in recovery; a live sender whose acknowledgement of a rejection
fails records either kind of failure.  The adapter's answer about an earlier attempt is true at
the moment it is given.
`visible` and `unproved` are history: accepted calls, and processes whose last call nobody
has proved undelivered.  Stamps and ids are used again when nothing refers to them; counters
stop at the budget.  A batch that fails half-way is one that has results and an error.

| Run | Instance | Shows |
|---|---|---|
| `delivery_process` | each of four kinds, one process, 3 submissions, 2 attempts, 2 crashes, 2 storage errors | the row never hides a possible send nor claims one that did not happen (`RecordsTruthful`); the recipient sees the message at most once; a row without fence is resolved |
| `delivery_stable` | a stable intent submitted twice, two processes, a lease that expires, a crash | nothing is sent again before every earlier call was proved undelivered; nobody changes a row under a live lease but its owner |
| `delivery_deadletter` | a stable intent on a channel that cannot reconcile | ends in a counterexample |

With two processes the recipient of a *stable* message may see it twice: the lease of 30 s
is kept but not renewed at dispatch, so a second process may be told "not sent" while the
first call is still running.  `NoReplayWithoutProof` is what the code ensures there.

`delivery_deadletter` refutes `RowsResolve`.  An ambiguous failure of a claimed send leaves
the attempt id in the row; for rows that require a producer claim, recovery passes a null
owner, which the owned transition refuses, and the refusal is swallowed.  The row stays
pending, its count does not grow, and no new claim is allowed, although
`recoverPendingDeliveries` says that it "moves entries that exhaust their retry budget to
failed/".

Fairness: the steps of a sender proceed (provider calls return), drains recur, leases run
out.  Left out: the media spool, the conversation operation some rows carry
(`deliveryCompletion`), the expiry of receipts, backoff and pacing, the import of legacy
rows, and best-effort sends outside the queue when a row cannot be written.

## 8. SessionSuspension

| Code | Model |
|---|---|
| `laneResumeTimers`, `clearedLaneResumes`, `cleanupGeneration`, `cleanupActive` | the variables of these names |
| `suspensionWriteChain` and the write at its head | `chain`, `writer` |
| `quotaSuspension` of the session entries | `store` |
| limits of the lanes, and of the configuration published last | `limit`, `configured` |
| `suspendSession`, `suspendSessionQueued` | `SuspendSession`, `WriteBegins`, `WritePatches`, `WriteCommits`, `WriteFails`, `WriteChecked`, `Rollback`, split at the awaits |
| `beginClosePrelude`, `stopConfigReloaderForClose`, the close handler, `enableSessionSuspensionTimersForGatewayStart` | `ClosePrelude`, `ReloaderStops`, `CloseHandler`, `GatewayStart` |
| `applyGatewayLaneConcurrency` of a reload | `Reload` |

A suspension carries the configuration its run was started with, which may be older than the
one published last, so that the limit it resumes to is any configured one.  A time to live is
the flag `due`.  The phases of a gateway are "up", "closing" (reloads may
still come), "stopped" (the reloader is), "closed".

The run `suspension` (a configured, a nested and a custom lane, two sessions, two
suspensions, limits 1 and 2, two restarts) shows that a lane at 0 always has a timer or a
saved timer; that a stored suspension means a throttled lane, unless its rollback failed; that
nothing resumes during a close and nothing asked for before it is applied after it
(`CloseRespected`); that the record a rolled-back suspension replaced comes back; and that
throttled lanes resume.  `MaxGeneration` 7 is the start and two restarts of three increments
each; two suspensions are the one that is replaced and the one that is taken back.  Deadlock
checking is on.

Fairness: times to live run out, timers fire, and a gateway that closes in this process is
started again.  Writes may hang.  Left out: who asks for a suspension (the deferral to the
last candidate of a model fallback) and the later upkeep of the record by the session store.

## 9. IngressDrain

| Code | Model |
|---|---|
| a row of the ingress queue | `row`: status, claim token, owner, `fresh` (the lease), attempts, `delayed` (backoff), `aged` (past its retry window) |
| a drain, its `activeByClaim` and `laneOwnerByKey` | `drain`, and `handler[token]` (the `ActiveHandlerState`) for every claim it works for |
| `drainOnce` | `PassBegins`, `PassBlocks`, `Supersede`, `ScanEnds`, `ClaimNext`, `StartClaimed`, `ReturnClaimed`, `ReturnFails`, `PassEnds`, split at the awaits; `Pauses` is the `shouldStop` a monitor gives a pass while its drain stays up |
| the lifecycle callbacks of a dispatch | `OnAdopted`, `OnDeferred`, `OnAdoptionFinalizing`, `OnFailed`, `OnAbandoned`, `DispatchCompletes`, `DispatchFails`, `DispatchStops` |
| `settleOnce`, `commitClaimWriteWithRetry` | `Settle`, then `WriteCommits`, `WriteFails`, `RetryStopped` |
| stall watchdog, claim heartbeat, abort, dispose | `Stall`, `Refresh`, `Abort`, `Dispose` |
| claims that a pass could not give back | `stray` (what the properties are about; no code reads it) |

| Run | Instance | Shows |
|---|---|---|
| `ingress_owners` | one event, a drain in each of two processes, two claims, either one lease that runs out under a live owner or one write that fails for good, stops and crashes | while leases hold, an event is in one pair of hands, and a claim has its handler (`ClaimsHeld`); a drain runs one handler per lane even after it lost a claim; a late completion of an owner whose claim was taken is not reported as an adoption (`AdoptionIsDurable`) |
| `ingress_lane` | two events of a lane that deferrals give up, one drain whose passes may be stopped, supersession, a write that fails for good, a resubmission | an adoption that was reported is in the database, once |
| `ingress_liveness` | two events of a held lane, retries, backoff, a failing write | events are adopted, superseded or dead-lettered while a drain is up |

A handler reports one outcome per dispatch; `onAdopted` is called once (called again after
it threw, the code answers with success although nothing was written).  A write has one
attempt in the safety runs and two in the liveness run.  A lease runs out by itself only when
nobody refreshes it, and at most `MaxLapses` times otherwise.  `OneHolder`, the first half of
`ClaimsHeld`, speaks of behaviours in which no tended lease has run out; what a lapse must not
do is the business of `AdoptionIsDurable` and `LaneSerialized`.  The owners run is without
`Pauses`, and a behaviour of it has a lapse or a failing write (`OneTrouble`), which makes it a
million states; with both and with `Pauses` it is 2.2 million, and they pass as well.  The liveness run has no
lapse, because a handler whose claim was taken keeps its lane until the drain is disposed
(the comments prefer a wedged lane to a duplicated event).  The order of a lane is not a
property: `listPending` and `listClaims` are two reads, and an event released between them
blocks nobody.

A claim that a pass of an up drain fails to give back (`ReturnFails`) has no handler, and since
its owner is up no drain of the same process recovers it before that drain stops; one of
another process may when the lease has run out.  `ClaimsHeld` exempts exactly these claims.

The model is simpler than the code in five places.  Attempts are counted without end in the
code and up to `MaxAttempts` here, which is all the retry policy asks.  A resubmitted event
keeps its place in the order, where the code gives it a new `receivedAt`.  `scanLimit` and
`startLimit` do not end a pass.  Recovery, a transaction for each claim, and the reading of the
pending rows are one step.  A failing read, or a failing write of recovery or of `claimNext`,
ends a pass the way `Pauses` does.

Fairness: passes recur, writes return, backoffs and untended leases run out, events age, and a
channel that gets an event again and again adopts or fails it some time (strong fairness).
Weak fairness of `Outcome` makes every handler report, which is more than the code makes sure
of: the watchdog of a claim is off after `onAdoptionFinalizing`, and a deferral that is never
taken up then holds its claim.  The run has fewer failing writes than a settlement has tries:
after the last of them has failed, the code holds the claim, and refreshes it, for ever.  The
liveness run therefore says what happens to an event whose channel reports and whose database
answers in the end, and nothing else.  Left out: corrupt payloads, pruning and deletion, and
the monitor's own queue of appends and its pump.

## 10. Proofs

TLAPS checks the theorems for every value of the constants, that is for any number of lanes,
entries, chains, targets, requests, drains, processes and generations.  In each module the
properties are not inductive one by one and are proved together with what links them.  Every
safety property that a run checks, invariant or action property, is also a theorem.  The types
of `IngressDrain`, with the shape of its rows (`DrainTypes`), are only proved.

**`CommandQueueProofs`.**  `Core` is `TypeOK /\ SlotsOwned /\ QueuedExactlyOnce /\
Bookkeeping`.  `Bookkeeping` says that the Map and the names of the objects agree, that an
object never allocated is empty and nobody's place, that a waiting or running entry has an
object, and that no running task has a generation later than its object's.  Without the
last, a reset could give an old task a slot again.  Every action
ends in the pump (`DrainLanes`), so the proof has one lemma about the pump, from a state
*handed* to it, and one short lemma per action that shows that it hands over such a state.
Proved: types and `EntriesAccounted`, that is `SlotsOwned` and `QueuedExactlyOnce`.
`LanesSound` is inductive on top of `Core`: a handler may break it only for the lanes it goes
on to pump (`Sound`), and the pump repairs those (`DrainLanesSound`).  Two actions do not
pump and are sound for reasons of their own: a limit of 0 leaves no free slot, and a lane of
one slot whose queue is cleared has a task running, because it was saturated.  `StartOrder`
needs that the queues stand in starting order (`QueuesOrdered`): `enqueueLaneEntry` keeps it
because the new entry has the largest number, and the pump takes a prefix.
`StaleCompletionInert` needs no more than `Core`.

**`GatewaySuspendProofs`.**  `Core` is the conjunction of all the state properties, of
`Bookkeeping` (the run loop and the gate agree on draining, no suspension survives a drain,
a retired entry waits only for the restart, later lifecycles have no scheduler yet) and of
`Running` (a chain runs exactly while a lease on its root is out).  `EntryOwnsClosedGate`
needs the timer property, the scheduler property needs the entry, and quiescence needs the
counted roots.  All safety properties of the run `suspend` are proved, and besides them that
nobody sleeps on a gate or a drain that will not wake him (`NobodySleepsForNothing`).

**`HeartbeatWakeProofs`.**  `Core` adds to the types and to two of the properties that the
pending wakes and every batch are *tidy* (one wake per slot, well-shaped guards, requests of
different wakes disjoint), that they are *apart* (no request in two of them) and that a
batch belongs to a generation that exists.  Merging is proved once, for `QueueWakes` on any
tidy heap, and applied to requests, retries and hand-offs.  All theorems assume `Proper`:
events have their own priority (no event of source "retry", section 5), without which a
scheduled wake could carry an event.  Besides the safety properties of the run: one wake per
target and class (`CoalescedPerSlot`), and no guard on a manual wake (`ManualIsFree`).

**`SessionSuspensionProofs`.**  `Core` adds to the two invariants of the run that the maps
of armed and of saved timers are never in use together (`TimersApart`), that a call is in the
chain once and was not applied before (`ChainFresh`), and what the write at the head of the
chain knows (`WriterHonest`): its generation is the one it was queued in, and the entry holds
either the snapshot it took or its own record.  The last makes a rollback harmless: what it
puts back is a record that was applied.  Both action properties follow step by step.

**`ExecApprovalsProofs`.**  `Core` adds what a row and an entry look like in each state
(`RowSound`, `EntrySound`), that the managers of a gateway that is gone hold nothing, and that
a permission given out is recorded in the entry it was given for (`GrantsRecorded`), without
which an entry could be asked twice.  The operations are reduced to two relations: a row
stays or is closed (`Evolves`), an entry stays or is answered from its own terminal row or by
a storage failure (`Answers`).  From these come `WaitersGuarded`, `AllowSound`,
`HandoffKeepsBinding` and the refinement: the initial states map to those of
`ApprovalContract`, and every step to a step of it or to a stutter.

**`IngressDrainProofs`.**  `Core` links the three places that know of a claim.  A token is in
a row exactly while it is claimed, only a pass that has claimed an event holds one no handler
has, who has the token of a row works for that event and is its owner (`TokensMatch`), and
while no lease has run out a drain that is up has the lease of what it works for
(`LeasesKept`).  `ClaimsHeld` follows, with the claims that could not be given back as its
exception; that one drain has one handler per lane and that a
reported adoption is in the database are inductive with it, leases kept or lost.

**`DeliveryQueueProofs`.**  `Shape` is what holds of every kind of delivery in any number of
processes: one owner of a row at most, claims told apart, and a sender knows only what its
own steps can have told it.  Types and `LiveOwnerUndisturbed` need no more.
`Evidence` says what the row shows about every call that may have been accepted.  It is
inductive for `Guarded` deliveries: *stable* ones in any number of processes, and every kind
in one process.  Without fence the only claim is in the memory of a process, and two
processes on one database do not see each other's; the gateway lock, which is not modelled,
keeps a second gateway away.  `RecordsAreTruthful` and `ReplaysAreProved` are stated under that
condition.  `OneCall`, and with it `RecipientSeesItOnce`, holds in one process (`Alone`), for
the reason section 7 gives.  Neither condition is stronger than it has to be: with ordinary
deliveries in the two processes of `delivery_stable` TLC refutes `RecordsTruthful` and
`NoReplayWithoutProof`, and with the stable one `VisibleAtMostOnce`.

The assumptions on constants are the ASSUMEs of the modules: bounds are naturals, special
values are no elements of the sets they are added to, `Entry` of the queue is finite.  Two
of them only tell values apart: no claim id of `DeliveryQueue`, a UUID in the code, is one
of the words "any" and "nobody" that stand for the absence of an owner check, and `Nil` is
no handler of `IngressDrain`.

Only model-checked: liveness, ten properties, because the prover has no rule for fairness
and `ENABLED` here.  Some of the invariants are the safety half of one: that an entry that
waits is in a saturated lane (`LanesSound`), that a closed gate, a pending wake, a pending
prompt or a throttled lane has a timer or a loop that will come back to it.

## 11. Not modelled

* Durations.  The models say that something happens, not how soon.
* Several copies of a module in one process: state kept by `Symbol.for` is one state.
* The content of messages, prompts, errors and logs.
* Channel adapters, providers, plugins, the command line, the apps and the control UI: input
  and output around the parts above.  Vendored packages and generated code.
* Embedded runs, the restart signal's emission and deferral, the follow-up queue, cron, the
  heartbeat runner, the session delivery queue, the task registry and subagents: parts with
  state of their own that the plan below orders.
* The gateway lock and the restart hand-off between processes, which rest on process tables
  and file times of the operating system.

## 12. Plan

Modelled so far: the command queue, the admission gate with the suspend coordinator, the
heartbeat wake queue, approvals, the outbound delivery queue, session suspension and channel
ingress.  Next, in this order:

1. `EmbeddedRuns` composed with `CommandQueue`: a run in its session lane and then in a
   global lane, with abort and release; whether "only one active run per session"
   (`docs/concepts/queue.md:19`) survives a body that outlives its slot.
2. `RestartSignal` composed with `GatewayWorkAdmission`: emission tokens, deferral polls,
   leases shared by several attempts.
3. `FollowupQueue` (enqueue, drop policy, clear while a drain waits) and `CronService` (run
   reservations, finalization under the store lock, repair at start).
