---------------------------- MODULE CommandQueue ----------------------------
(***************************************************************************)
(* The in-process command queue of src/src/process/command-queue.ts: named *)
(* lanes, each a priority queue of entries drained into at most            *)
(* maxConcurrent task slots.                                               *)
(*                                                                         *)
(* All of the queue's code is synchronous between two event-loop turns, so *)
(* every exported function, and every settlement of a task promise, is one *)
(* atomic action that includes the pump, the retirement of the lane and    *)
(* the notification of waiters it triggers.  `draining` is true only       *)
(* inside such a step and has no counterpart here.                         *)
(*                                                                         *)
(* A lane state is an OBJECT with an identity: the Map `lanes` binds a     *)
(* name to one, retirement unbinds it, and the closures of running tasks   *)
(* keep referring to the object they were started from.  A task id is      *)
(* identified with its entry: an entry is dequeued at most once.           *)
(***************************************************************************)
EXTENDS Integers, Sequences, FiniteSets

CONSTANTS
  Lane,            \* normalized lane names
  ScopedLane,      \* session:, nested:, context-engine-turn-maintenance: lanes
  ProbeLane,       \* lanes that isQuietProbeLane recognizes
  Object,          \* identities of lane-state objects (a bound)
  Entry,           \* calls of enqueueCommandInLane (a bound)
  TimedEntry,      \* the calls that pass a taskTimeoutMs
  Waiter,          \* calls of waitForActiveTasks (a bound)
  Priority,        \* values resolveQueuePriority may return
  Concurrency,     \* arguments of setCommandLaneConcurrency
  Signal,          \* signals that callers use, of "abort" and "release"
  CloseReason,     \* ways admission is closed, of "fenced" and "draining"
  MaxGeneration,   \* bound on the resets of one lane-state object
  Nil              \* no object

ASSUME LanesAssumption == ScopedLane \subseteq Lane /\ ProbeLane \subseteq Lane
ASSUME EntriesAssumption == TimedEntry \subseteq Entry /\ IsFiniteSet(Entry)
ASSUME NumbersAssumption == /\ Priority \subseteq -1..1
                            /\ Concurrency \subseteq Int
                            /\ MaxGeneration \in Nat
ASSUME NilAssumption == Nil \notin Object /\ Nil \notin Lane

VARIABLES
  lanes,             \* the Map: lane name -> object or Nil
  laneOf,            \* object -> its name, Nil while the object is unallocated
  queue,             \* object -> entries waiting, in dequeue order
  activeTaskIds,     \* object -> entries that hold a slot
  maxConcurrent,     \* object -> number of slots
  generation,        \* object -> number of resets
  nextQueueSequence,
  phase,             \* entry -> what the caller's promise has seen
  sequence, priority,
  place,             \* entry -> the object it was enqueued on
  taskGeneration,    \* entry -> generation its task was started under
  body,              \* entry -> the task function itself, which may outlive its slot
  timer,             \* entry -> which timeout of runQueueEntryTask is armed
  signalled,         \* "abort"/"release" -> entries whose signal has been aborted
  waiting,           \* waiter -> "idle", "waiting", "drained", "timedOut"
  waitsFor,          \* waiter -> entries active when it began to wait
  admission          \* "open", "fenced" (signal or suspension), "draining" (restart)

laneVars  == <<lanes, laneOf, queue, activeTaskIds, maxConcurrent, generation>>
entryVars == <<nextQueueSequence, phase, sequence, priority, place, taskGeneration,
               body, timer>>
vars == <<laneVars, entryVars, signalled, waiting, waitsFor, admission>>

\* "settled": resolved or rejected with what the task function returned or threw.
Outcome == {"settled", "timedOut", "cleared", "refused"}

-----------------------------------------------------------------------------
(* Lane-state objects *)

Unallocated(o) == laneOf[o] = Nil

Init ==
  /\ lanes = [l \in Lane |-> Nil]
  /\ laneOf = [o \in Object |-> Nil]
  /\ queue = [o \in Object |-> <<>>]
  /\ activeTaskIds = [o \in Object |-> {}]
  /\ maxConcurrent = [o \in Object |-> 1]
  /\ generation = [o \in Object |-> 0]
  /\ nextQueueSequence = 1
  /\ phase = [e \in Entry |-> "new"]
  /\ sequence = [e \in Entry |-> 0]
  /\ priority = [e \in Entry |-> 0]
  /\ place = [e \in Entry |-> Nil]
  /\ taskGeneration = [e \in Entry |-> 0]
  /\ body = [e \in Entry |-> "idle"]
  /\ timer = [e \in Entry |-> "off"]
  /\ signalled = [s \in {"abort", "release"} |-> {}]
  /\ waiting = [w \in Waiter |-> "idle"]
  /\ waitsFor = [w \in Waiter |-> {}]
  /\ admission = "open"

\* getLaneState: the object bound to l, or a fresh one that becomes bound to it.
GetLaneState(l, o) ==
  /\ IF lanes[l] # Nil THEN o = lanes[l] ELSE Unallocated(o)
  /\ laneOf' = [laneOf EXCEPT ![o] = l]

InsertionPointFifo(q, p) == Len(q) + 1 \* mutant: priorities are ignored

\* enqueueLaneEntry: where an entry of priority p, the newest of all, is spliced in.
InsertionPoint(q, p) ==
  IF \E i \in 1..Len(q) : priority[q[i]] < p
  THEN CHOOSE i \in 1..Len(q) : /\ priority[q[i]] < p
                                /\ \A j \in 1..(i - 1) : ~(priority[q[j]] < p)
  ELSE Len(q) + 1

EnqueueLaneEntry(q, e, p) ==
  LET at == InsertionPoint(q, p) IN
  [i \in 1..(Len(q) + 1) |-> IF i < at THEN q[i] ELSE IF i = at THEN e ELSE q[i - 1]]

\* The number of turns of pump's loop: it fills the free slots from the queue's head.
PumpCount(q, active, max) ==
  IF Cardinality(active) >= max THEN 0
  ELSE IF max - Cardinality(active) < Len(q) THEN max - Cardinality(active)
  ELSE Len(q)

Dequeued(q, active, max) == {q[i] : i \in 1..PumpCount(q, active, max)}

Remaining(q, active, max) == SubSeq(q, PumpCount(q, active, max) + 1, Len(q))

RetiresBusy(o, q, active, max) == \* mutant: the activeTaskIds.size test is missing
  q = <<>> /\ max = 1 /\ laneOf'[o] \in ScopedLane

\* retireIdleScopedCommandLane, evaluated after the pump on object o.
Retires(o, q, active, max) == /\ q = <<>>
                              /\ active = {}
                              /\ max = 1
                              /\ laneOf'[o] \in ScopedLane

\* runQueueEntryTask: which timeout is armed as the task of entry e starts.
ArmedTimer(e) ==
  IF e \notin TimedEntry THEN "off"
  ELSE IF e \in signalled["release"] THEN "fired"
  ELSE IF e \in signalled["abort"] THEN "graceOnly"
  ELSE "progress"

\* drainLane on every object of `objs`, from the lane map `map`, the queues q, the
\* slots a, the limits m and the generations g that the caller has just computed,
\* with the promise outcomes ph, timers t and bodies b it has just settled.
DrainLanes(objs, map, q, a, m, g, ph, t, b) ==
  LET Started == UNION {Dequeued(q[o], a[o], m[o]) : o \in objs} IN
  /\ queue' = [o \in Object |->
       IF o \in objs THEN Remaining(q[o], a[o], m[o]) ELSE q[o]]
  /\ activeTaskIds' = [o \in Object |->
       IF o \in objs THEN a[o] \cup Dequeued(q[o], a[o], m[o]) ELSE a[o]]
  /\ maxConcurrent' = m
  /\ generation' = g
  /\ lanes' = [l \in Lane |->
       IF map[l] \in objs /\ Retires(map[l], queue'[map[l]], activeTaskIds'[map[l]], m[map[l]])
       THEN Nil ELSE map[l]]
  /\ phase' = [e \in Entry |-> IF e \in Started THEN "running" ELSE ph[e]]
  /\ taskGeneration' = [e \in Entry |->
       IF e \in Started THEN g[place'[e]] ELSE taskGeneration[e]]
  /\ timer' = [e \in Entry |-> IF e \in Started THEN ArmedTimer(e) ELSE t[e]]
  /\ body' = [e \in Entry |-> IF e \in Started THEN "running" ELSE b[e]]

\* hasPendingActiveTasks over the lane map `map` and the slots a.
HasPendingActiveTasks(ids, map, a) ==
  \E l \in Lane : map[l] # Nil /\ a[map[l]] \cap ids # {}

NotifyNobody(wt, wf, map, a) == wt \* mutant: the wakeup is forgotten

\* notifyActiveTaskWaiters: the waiters wt, waiting for the tasks wf, after a wakeup.
NotifyActiveTaskWaiters(wt, wf, map, a) ==
  [w \in Waiter |-> IF wt[w] = "waiting" /\ ~HasPendingActiveTasks(wf[w], map, a)
                    THEN "drained" ELSE wt[w]]

-----------------------------------------------------------------------------
(* Exported operations *)

\* enqueueCommandInLane, admission open.
EnqueueCommandInLane(l, e, p) ==
  /\ admission = "open"
  /\ phase[e] = "new"
  /\ \E o \in Object :
       /\ GetLaneState(l, o)
       /\ place' = [place EXCEPT ![e] = o]
       /\ priority' = [priority EXCEPT ![e] = p]
       /\ sequence' = [sequence EXCEPT ![e] = nextQueueSequence]
       /\ nextQueueSequence' = nextQueueSequence + 1
       /\ DrainLanes({o}, [lanes EXCEPT ![l] = o],
                     [queue EXCEPT ![o] = EnqueueLaneEntry(queue[o], e, p)],
                     activeTaskIds, maxConcurrent, generation,
                     [phase EXCEPT ![e] = "queued"], timer, body)
  /\ UNCHANGED <<signalled, waiting, waitsFor, admission>>

\* enqueueCommandInLane, admission closed: GatewayDrainingError.
EnqueueRefused(e) ==
  /\ admission # "open"
  /\ phase[e] = "new"
  /\ phase' = [phase EXCEPT ![e] = "refused"]
  /\ UNCHANGED <<laneVars, nextQueueSequence, sequence, priority, place, taskGeneration,
                 body, timer, signalled, waiting, waitsFor, admission>>

LaneLimitUnclamped(l, n) == n \* mutant: Math.max is dropped

LaneLimit(l, n) == LET least == IF l \in ProbeLane THEN 1 ELSE 0 IN
                   IF n < least THEN least ELSE n

SetCommandLaneConcurrency(l, n) ==
  /\ UNCHANGED <<nextQueueSequence, sequence, priority, place, signalled, waiting,
                 waitsFor, admission>>
  /\ \E o \in Object :
       /\ GetLaneState(l, o)
       /\ DrainLanes(IF LaneLimit(l, n) > 0 THEN {o} ELSE {}, [lanes EXCEPT ![l] = o],
                     queue, activeTaskIds, [maxConcurrent EXCEPT ![o] = LaneLimit(l, n)],
                     generation, phase, timer, body)

CompletesAnyGeneration(e) == TRUE \* mutant: completeTask ignores the generation

\* completeTask: does the slot of e's task belong to the object's present generation?
CompletesCurrentGeneration(e) == taskGeneration[e] = generation[place[e]]

\* The promise of e's task settles: completeTask, then waiters, pump and retirement
\* when the slot is of the object's current generation, then the caller's promise.
SettleTask(e, outcome, b) ==
  LET o == place[e]
      current == CompletesCurrentGeneration(e)
      a == IF current THEN [activeTaskIds EXCEPT ![o] = @ \ {e}] ELSE activeTaskIds
  IN
  /\ UNCHANGED <<laneOf, nextQueueSequence, sequence, priority, place, signalled, waitsFor,
                 admission>>
  /\ DrainLanes(IF current THEN {o} ELSE {}, lanes, queue, a, maxConcurrent, generation,
                [phase EXCEPT ![e] = outcome], [timer EXCEPT ![e] = "off"], b)
  /\ waiting' = IF current THEN NotifyActiveTaskWaiters(waiting, waitsFor, lanes, a)
                 ELSE waiting

\* The task function returns or throws before any timeout.
BodyFinishes(e) ==
  /\ phase[e] = "running"
  /\ body[e] = "running"
  /\ timer[e] # "fired"
  /\ SettleTask(e, "settled", [body EXCEPT ![e] = "done"])

\* The task function ends after the timeout has already settled the race.
BodyFinishesLate(e) ==
  /\ body[e] = "running"
  /\ phase[e] = "running" => timer[e] = "fired"
  /\ body' = [body EXCEPT ![e] = "done"]
  /\ UNCHANGED <<laneVars, nextQueueSequence, phase, sequence, priority, place,
                 taskGeneration, timer, signalled, waiting, waitsFor, admission>>

\* mutant: the caller sees the timeout but the slot is not given back
TaskTimesOutKeepsSlot(e) ==
  /\ phase[e] = "running"
  /\ timer[e] # "off"
  /\ phase' = [phase EXCEPT ![e] = "timedOut"]
  /\ timer' = [timer EXCEPT ![e] = "off"]
  /\ UNCHANGED <<laneVars, nextQueueSequence, sequence, priority, place, taskGeneration,
                 body, signalled, waiting, waitsFor, admission>>

\* CommandLaneTaskTimeoutError: budget, idle, abort grace or release signal.
TaskTimesOut(e) ==
  /\ phase[e] = "running"
  /\ timer[e] # "off"
  /\ SettleTask(e, "timedOut", body)

\* The caller aborts taskTimeoutAbortSignal; once the task has settled nothing listens.
Abort(e) ==
  /\ "abort" \in Signal
  /\ e \in TimedEntry \ signalled["abort"]
  /\ phase[e] \in {"queued", "running"}
  /\ signalled' = [signalled EXCEPT !["abort"] = @ \cup {e}]
  /\ timer' = [timer EXCEPT ![e] = IF @ = "progress" THEN "grace" ELSE @]
  /\ UNCHANGED <<laneVars, nextQueueSequence, phase, sequence, priority, place,
                 taskGeneration, body, waiting, waitsFor, admission>>

\* The caller aborts taskTimeoutReleaseSignal; no listener is attached under "graceOnly".
Release(e) ==
  /\ "release" \in Signal
  /\ e \in TimedEntry \ signalled["release"]
  /\ phase[e] \in {"queued", "running"}
  /\ signalled' = [signalled EXCEPT !["release"] = @ \cup {e}]
  /\ timer' = [timer EXCEPT ![e] = IF @ \in {"progress", "grace"} THEN "fired" ELSE @]
  /\ UNCHANGED <<laneVars, nextQueueSequence, phase, sequence, priority, place,
                 taskGeneration, body, waiting, waitsFor, admission>>

\* clearCommandLane: rejects what is queued, leaves what is active, does not retire.
ClearCommandLane(l) ==
  /\ lanes[l] # Nil
  /\ queue' = [queue EXCEPT ![lanes[l]] = <<>>]
  /\ phase' = [e \in Entry |->
       IF \E i \in 1..Len(queue[lanes[l]]) : queue[lanes[l]][i] = e
       THEN "cleared" ELSE phase[e]]
  /\ UNCHANGED <<lanes, laneOf, activeTaskIds, maxConcurrent, generation,
                 nextQueueSequence, sequence, priority, place, taskGeneration, body, timer,
                 signalled, waiting, waitsFor, admission>>

SameGeneration(objs) == generation \* mutant: a reset does not start a generation

NextGeneration(objs) ==
  [o \in Object |-> IF o \in objs THEN generation[o] + 1 ELSE generation[o]]

\* What resetCommandLane and resetAllLanes do to the objects `objs`.
ResetObjects(objs) ==
  /\ \A o \in objs : generation[o] < MaxGeneration
  /\ UNCHANGED <<laneOf, nextQueueSequence, sequence, priority, place, signalled, waitsFor>>
  /\ DrainLanes({o \in objs : queue[o] # <<>>}, lanes, queue,
                [o \in Object |-> IF o \in objs THEN {} ELSE activeTaskIds[o]],
                maxConcurrent, NextGeneration(objs), phase, timer, body)
  /\ waiting' = NotifyActiveTaskWaiters(waiting, waitsFor, lanes', activeTaskIds')

ResetCommandLane(l) ==
  /\ lanes[l] # Nil
  /\ UNCHANGED admission
  /\ ResetObjects({lanes[l]})

ResetAllLanes ==
  /\ admission' = "open"
  /\ ResetObjects({lanes[l] : l \in Lane} \ {Nil})

ActiveTasks == UNION {activeTaskIds[lanes[l]] : l \in {k \in Lane : lanes[k] # Nil}}

\* waitForActiveTasks that resolves at once: nothing is active, or timeoutMs <= 0.
WaitRefused(w, zero) ==
  /\ waiting[w] = "idle"
  /\ ActiveTasks = {} \/ zero
  /\ waiting' = [waiting EXCEPT ![w] = IF ActiveTasks = {} THEN "drained" ELSE "timedOut"]
  /\ UNCHANGED <<laneVars, entryVars, signalled, waitsFor, admission>>

\* waitForActiveTasks that registers a waiter for the tasks active now.
WaitForActiveTasks(w) ==
  /\ waiting[w] = "idle"
  /\ ActiveTasks # {}
  /\ waitsFor' = [waitsFor EXCEPT ![w] = ActiveTasks]
  /\ waiting' = NotifyActiveTaskWaiters([waiting EXCEPT ![w] = "waiting"], waitsFor', lanes,
                                        activeTaskIds)
  /\ UNCHANGED <<laneVars, entryVars, signalled, admission>>

WaiterTimesOut(w) ==
  /\ waiting[w] = "waiting"
  /\ waiting' = [waiting EXCEPT ![w] = "timedOut"]
  /\ UNCHANGED <<laneVars, entryVars, signalled, waitsFor, admission>>

\* markGatewayRestartDraining: one-way until resetAllLanes.
MarkGatewayDraining ==
  /\ "draining" \in CloseReason
  /\ admission # "draining"
  /\ admission' = "draining"
  /\ UNCHANGED <<laneVars, entryVars, signalled, waiting, waitsFor>>

\* The reversible fences of gateway-work-admission.ts, as this module sees them.
FenceChanges ==
  /\ "fenced" \in CloseReason
  /\ admission # "draining"
  /\ admission' = IF admission = "open" THEN "fenced" ELSE "open"
  /\ UNCHANGED <<laneVars, entryVars, signalled, waiting, waitsFor>>

Next ==
  \/ \E l \in Lane, e \in Entry, p \in Priority : EnqueueCommandInLane(l, e, p)
  \/ \E e \in Entry : EnqueueRefused(e)
  \/ \E l \in Lane, n \in Concurrency : SetCommandLaneConcurrency(l, n)
  \/ \E e \in Entry : BodyFinishes(e)
  \/ \E e \in Entry : BodyFinishesLate(e)
  \/ \E e \in Entry : TaskTimesOut(e)
  \/ \E e \in Entry : Abort(e)
  \/ \E e \in Entry : Release(e)
  \/ \E l \in Lane : ClearCommandLane(l)
  \/ \E l \in Lane : ResetCommandLane(l)
  \/ ResetAllLanes
  \/ \E w \in Waiter, zero \in BOOLEAN : WaitRefused(w, zero)
  \/ \E w \in Waiter : WaitForActiveTasks(w)
  \/ \E w \in Waiter : WaiterTimesOut(w)
  \/ MarkGatewayDraining
  \/ FenceChanges

Spec == Init /\ [][Next]_vars

\* What the event loop guarantees: a running task function eventually returns, throws or
\* (with a timeout) stops reporting progress for its budget, and an armed timer fires.
\* A body that hangs is covered by its timeout; one without a timeout must return.
Fairness ==
  \A e \in Entry : WF_vars(TaskTimesOut(e) \/ (e \notin TimedEntry /\ BodyFinishes(e)))

FairSpec == Spec /\ Fairness

-----------------------------------------------------------------------------
(* Properties *)

Phase == {"new", "queued", "running"} \cup Outcome
Timer == {"off", "progress", "grace", "graceOnly", "fired"}

\* Every variable has the shape the TypeScript types give it (LaneState, QueueEntry,
\* ActiveTaskWaiter).
TypeOK ==
  /\ lanes \in [Lane -> Object \cup {Nil}]
  /\ laneOf \in [Object -> Lane \cup {Nil}]
  /\ queue \in [Object -> Seq(Entry)]
  /\ activeTaskIds \in [Object -> SUBSET Entry]
  /\ maxConcurrent \in [Object -> Nat]
  /\ generation \in [Object -> Nat]
  /\ nextQueueSequence \in Nat
  /\ phase \in [Entry -> Phase]
  /\ sequence \in [Entry -> Nat]
  /\ priority \in [Entry -> -1..1]
  /\ place \in [Entry -> Object \cup {Nil}]
  /\ taskGeneration \in [Entry -> Nat]
  /\ body \in [Entry -> {"idle", "running", "done"}]
  /\ timer \in [Entry -> Timer]
  /\ signalled \in [{"abort", "release"} -> SUBSET Entry]
  /\ waiting \in [Waiter -> {"idle", "waiting", "drained", "timedOut"}]
  /\ waitsFor \in [Waiter -> SUBSET Entry]
  /\ admission \in {"open", "fenced", "draining"}

\* A lane's slots are held exactly by the unsettled tasks that were started from this
\* lane-state object under its present generation: a reset, a timeout or a retirement
\* never leaks a slot and never frees one that a newer task holds.
SlotsOwned ==
  \A o \in Object, e \in Entry :
    e \in activeTaskIds[o] <=> /\ phase[e] = "running"
                              /\ place[e] = o
                              /\ taskGeneration[e] = generation[o]

\* An entry whose promise is still waiting for a slot stands exactly once in exactly one
\* queue, that of the object it was enqueued on; no settled or running entry stands in one.
QueuedExactlyOnce ==
  \A o \in Object :
    /\ \A e \in Entry : (\E i \in 1..Len(queue[o]) : queue[o][i] = e)
                         <=> phase[e] = "queued" /\ place[e] = o
    /\ \A i, j \in 1..Len(queue[o]) : queue[o][i] = queue[o][j] => i = j

\* Every unsettled entry is accounted for in exactly one place, a queue or a slot, whatever
\* timeouts, resets and retirements of its lane happen around it.
EntriesAccounted == SlotsOwned /\ QueuedExactlyOnce

\* Work is never stranded on an unregistered object: as long as a lane-state object has
\* queued or active entries, the Map still binds its name to it, so later enqueues, resets
\* and clears of that lane reach it.
NoStrandedWork ==
  \A o \in Object :
    queue[o] # <<>> \/ activeTaskIds[o] # {}
      => laneOf[o] \in Lane /\ lanes[laneOf[o]] = o

\* No free slot is left while an entry waits: every path that frees a slot, raises the
\* limit or adds an entry pumps the lane.
LaneSaturated ==
  \A o \in Object : queue[o] # <<>> => Cardinality(activeTaskIds[o]) >= maxConcurrent[o]

Before(e, f) == \/ priority[e] > priority[f]
                \/ priority[e] = priority[f] /\ sequence[e] < sequence[f]

\* An idle per-session lane does not stay in the Map, whatever call made it idle; only a
\* recovery reset of that lane may leave it there.
IdleScopedLanesRetire ==
  \A l \in ScopedLane :
    lanes[l] # Nil /\ queue[lanes[l]] = <<>> /\ activeTaskIds[lanes[l]] = {}
      /\ maxConcurrent[lanes[l]] = 1
      => generation[lanes[l]] > 0

\* The Map binds exactly the lanes worth binding and none of them idles over waiting work:
\* retirement, pump and limit changes agree in every reachable state.
LanesSound == NoStrandedWork /\ LaneSaturated /\ IdleScopedLanesRetire

\* Auxiliary facts that make the invariants above inductive: the Map and the objects'
\* names agree, an unallocated object is unused, an entry that waits or runs has an
\* object, and sequence numbers are handed out once.
Bookkeeping ==
  /\ \A l \in Lane : lanes[l] # Nil => laneOf[lanes[l]] = l
  /\ \A o \in Object : Unallocated(o) =>
       queue[o] = <<>> /\ activeTaskIds[o] = {} /\ \A e \in Entry : place[e] # o
  /\ \A e \in Entry : phase[e] \in {"queued", "running"} => place[e] \in Object
  /\ \A e \in Entry : phase[e] = "running" => taskGeneration[e] <= generation[place[e]]
  /\ \A e \in Entry : sequence[e] < nextQueueSequence

\* "Stale completions from the previous generation are ignored": when a task started
\* before a reset settles, no lane changes and no waiter is woken.  (An instance without
\* waiters shows the first half.)
StaleCompletionInert ==
  [][\A e \in Entry :
       phase[e] = "running" /\ phase'[e] # "running"
         /\ taskGeneration[e] # generation[place[e]]
         => UNCHANGED <<laneVars, waiting>>]_vars

\* Among the entries of a lane, whichever starts goes before everything it leaves queued.
StartOrder ==
  [][\A e, f \in Entry :
       phase'[e] = "running" /\ phase[e] # "running"
         /\ phase'[f] = "queued" /\ place'[f] = place'[e]
         => Before(e, f)']_vars

\* "The lane is released so queued work is not blocked forever": with positive limits an
\* entry does not stay queued for ever, even if every task body before it hangs.
QueuedWorkProgresses == \A e \in Entry : phase[e] = "queued" ~> phase[e] # "queued"

\* waitForActiveTasks resolves even without a timeout.
WaitersResolve == \A w \in Waiter : waiting[w] = "waiting" ~> waiting[w] # "waiting"
=============================================================================
