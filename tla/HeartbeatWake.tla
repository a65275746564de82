---------------------------- MODULE HeartbeatWake ----------------------------
(***************************************************************************)
(* The wake queue of src/src/infra/heartbeat-wake.ts: requests to wake an  *)
(* agent are coalesced per target and class, taken in batches by a timer   *)
(* and handed one at a time to the registered handler.  A handler may be   *)
(* replaced while a batch of the previous one still waits for an answer.   *)
(*                                                                         *)
(* Instants are abstracted: a wake or a target waits until a step says     *)
(* that its time has come, and an armed timer may fire at any moment.  The *)
(* flag `scheduled` is left out: all it does is to call                    *)
(* schedulePendingWakes on an empty map, which arms nothing.               *)
(***************************************************************************)
EXTENDS Integers, FiniteSets

CONSTANTS
  Target,          \* agent and session a wake is for
  Request,         \* identities of calls of requestHeartbeat, each used once
  EventPriority,   \* priorities that requests of intent "event" come with
  MaxGeneration    \* bound on handlerGeneration

ASSUME PriorityAssumption == EventPriority \subseteq {0, 1, 2}
ASSUME GenerationAssumption == MaxGeneration \in Nat

VARIABLES
  handler,               \* a handler is registered
  handlerGeneration,
  pendingWakes,          \* wakes in the groups, at most one per target and class
  blocked,               \* targets whose blockedUntilMs has not come
  timer,                 \* a timer is armed
  running,
  batch,                 \* generation -> wakes its loop took and did not finish
  intentOf,              \* request -> its intent, "none" before it is made
  owed                   \* requests that no handler has answered for good

vars == <<handler, handlerGeneration, pendingWakes, blocked, timer, running, batch,
          intentOf, owed>>

Intent == {"scheduled", "task", "event", "immediate", "manual"}
Generation == 0..MaxGeneration

\* guardBy is the generation whose handler deferred the wake, 0 for none: guardRetry.
\* waiting says that notBeforeMs has not come.
Wake == [target : Target, intent : Intent, priority : 0..3, guardBy : Generation,
         waiting : BOOLEAN, requests : SUBSET Request]

Init ==
  /\ handler = FALSE
  /\ handlerGeneration = 0
  /\ pendingWakes = {}
  /\ blocked = {}
  /\ timer = FALSE
  /\ running = FALSE
  /\ batch = [g \in Generation |-> {}]
  /\ intentOf = [r \in Request |-> "none"]
  /\ owed = {}

-----------------------------------------------------------------------------
(* Coalescing *)

\* resolveWakePriority, for the sources the producers use.
Priorities(intent) ==
  {p \in 0..3 : /\ intent \in {"manual", "immediate"} => p = 3
                /\ intent \in {"scheduled", "task"} => p = 1
                /\ intent = "event" => p \in EventPriority}

Slot(w) == IF w.intent \in {"task", "scheduled"} THEN w.intent ELSE "event"

SameSlot(v, w) == v.target = w.target /\ Slot(v) = Slot(w)

\* The wake whose fields a merge keeps; `newer` decides between equal priorities.
Preferred(previous, next, newer) ==
  IF \/ next.intent = "task" /\ previous.intent # "task"
     \/ /\ next.intent = "task" <=> previous.intent = "task"
        /\ \/ next.priority > previous.priority
           \/ next.priority = previous.priority /\ newer
  THEN next ELSE previous

\* An explicit wake that no guard deferred frees the wake it joins from its guard.
BypassGuardRetry(preferred, guardBy) ==
  preferred.intent \in {"manual", "immediate"} /\ preferred.guardBy = 0 /\ guardBy # 0

\* guardRetry of either wake.
GuardOfEither(previous, next) ==
  IF next.guardBy > previous.guardBy THEN next.guardBy ELSE previous.guardBy

MergePendingWakeReasons(previous, next, newer) ==
  LET preferred == Preferred(previous, next, newer)
      guardBy == GuardOfEither(previous, next)
      bypass == BypassGuardRetry(preferred, guardBy)
  IN [preferred EXCEPT
        !.requests = previous.requests \cup next.requests,
        !.guardBy = IF bypass THEN 0 ELSE guardBy,
        !.waiting = IF bypass THEN preferred.waiting ELSE previous.waiting \/ next.waiting]

\* queuePendingWakeReason of the wakes W, no two of them for the same slot, into the
\* wakes P; those of the targets in `newer` count as requested later than P's.
QueueWakes(P, W, newer) ==
  {p \in P : \A w \in W : ~SameSlot(p, w)}
  \cup {w \in W : \A p \in P : ~SameSlot(p, w)}
  \cup {MergePendingWakeReasons(pair[1], pair[2], pair[2].target \in newer) :
          pair \in {q \in P \X W : SameSlot(q[1], q[2])}}

IsReady(w) == ~w.waiting /\ w.target \notin blocked

Ready == {w \in pendingWakes : IsReady(w)}

\* A scheduled wake joins the task or else the event of its target.
Joins(R, s, w) ==
  /\ s.intent = "scheduled"
  /\ w.intent # "scheduled"
  /\ w.target = s.target
  /\ w.intent = "task" \/ \A v \in R : v.target = s.target => v.intent # "task"

\* The wakes dispatched for the ready wakes R.
Coalesced(R) ==
  {w \in R : \A v \in R : ~Joins(R, v, w) /\ ~Joins(R, w, v)}
  \cup {MergePendingWakeReasons(pair[1], pair[2], TRUE) :
          pair \in {q \in R \X R : Joins(R, q[1], q[2])}}

TakenBatch == Coalesced(Ready)

ForgetsPending(armed, P) == armed \* mutant: nothing is armed for retained wakes

\* schedulePendingWakes: some instant at which a wake of P may go is scheduled.
SchedulePendingWakes(armed, P) == armed \/ P # {}

-----------------------------------------------------------------------------
\* requestHeartbeat
RequestHeartbeat(r, t, intent, priority) ==
  /\ intentOf[r] = "none"
  /\ intentOf' = [intentOf EXCEPT ![r] = intent]
  /\ owed' = owed \cup {r}
  /\ pendingWakes' = QueueWakes(pendingWakes,
       {[target |-> t, intent |-> intent, priority |-> priority, guardBy |-> 0,
         waiting |-> FALSE, requests |-> {r}]}, {t})
  /\ timer' = TRUE
  /\ UNCHANGED <<handler, handlerGeneration, blocked, running, batch>>

\* setHeartbeatWakeHandler with a handler: what the previous one deferred is free again.
SetHeartbeatWakeHandler ==
  /\ handlerGeneration < MaxGeneration
  /\ handlerGeneration' = handlerGeneration + 1
  /\ handler' = TRUE
  /\ running' = FALSE
  /\ blocked' = {}
  /\ pendingWakes' = {[w EXCEPT !.waiting = FALSE, !.guardBy = 0] : w \in pendingWakes}
  /\ timer' = SchedulePendingWakes(FALSE, pendingWakes)
  /\ UNCHANGED <<batch, intentOf, owed>>

\* The disposer of the current registration; a stale one returns at once.  The bound
\* leaves room for another registration.
DisposeHandler ==
  /\ handler
  /\ handlerGeneration < MaxGeneration - 1
  /\ handlerGeneration' = handlerGeneration + 1
  /\ handler' = FALSE
  /\ UNCHANGED <<pendingWakes, blocked, timer, running, batch, intentOf, owed>>

-----------------------------------------------------------------------------
(* The timer callback *)

\* Time passes: a backoff or a guard of a retained wake is over.
BackoffElapses(t) ==
  /\ t \in blocked
  /\ blocked' = blocked \ {t}
  /\ UNCHANGED <<handler, handlerGeneration, pendingWakes, timer, running, batch,
                 intentOf, owed>>

GuardElapses(w) ==
  /\ w.waiting
  /\ pendingWakes' = (pendingWakes \ {w}) \cup {[w EXCEPT !.waiting = FALSE]}
  /\ UNCHANGED <<handler, handlerGeneration, blocked, timer, running, batch, intentOf, owed>>

\* The timer fires without a handler, or takes a batch.  While a loop runs, it only arms
\* itself again.  A loop over an empty batch ends within the callback.
TimerFires ==
  /\ timer
  /\ ~(handler /\ running)
  /\ IF ~handler
     THEN timer' = FALSE /\ UNCHANGED <<pendingWakes, running, batch>>
     ELSE /\ batch' = [batch EXCEPT ![handlerGeneration] = TakenBatch]
          /\ pendingWakes' = pendingWakes \ Ready
          /\ running' = (TakenBatch # {})
          /\ timer' = (TakenBatch = {} /\ SchedulePendingWakes(FALSE, pendingWakes \ Ready))
  /\ UNCHANGED <<handler, handlerGeneration, blocked, intentOf, owed>>

AlwaysCurrent(g) == TRUE \* mutant: a loop does not notice that its handler was replaced

\* handlerGeneration === activeGeneration
OwnGeneration(g) == g = handlerGeneration

\* shouldDeferWake exempts manual wakes from every guard.
ResultsFor(w) ==
  {"done", "busy", "threw"} \cup IF w.intent = "manual" THEN {} ELSE {"guard"}

DropsEvents(w, result) == \* mutant: only tasks survive a guard
  result = "busy" \/ (result = "guard" /\ w.intent = "task")

\* The wake is kept although the handler returned.
RetainedWake(w, result) ==
  \/ result = "busy"
  \/ result = "guard" /\ w.intent \in {"task", "event", "immediate"}

\* The wakes of a target come with the ones that a guard deferred first.
NextInBatch(g, w) ==
  /\ w \in batch[g]
  /\ w.guardBy = 0 => \A v \in batch[g] : v.target = w.target => v.guardBy = 0

\* A request is answered by a result that does not keep its wake.  Guards may drop a
\* scheduled tick and a manual wake, whatever they were coalesced with.
Answered(w, result) ==
  {r \in w.requests : /\ result # "threw"
                      /\ ~RetainedWake(w, result)
                      /\ result = "guard" => intentOf[r] \in {"scheduled", "manual"}}

\* What the loop puts back: a retry (retryPendingWake) or a wake that a guard deferred.
KeptWakes(g, w, result) ==
  IF result \in {"busy", "threw"} THEN {[w EXCEPT !.guardBy = 0]}
  ELSE IF RetainedWake(w, result) THEN {[w EXCEPT !.waiting = TRUE, !.guardBy = g]} ELSE {}

\* The loop of the registered handler goes on to the next wake of its batch, or ends.
LoopContinues(g, w, result, newer) ==
  LET kept == KeptWakes(g, w, result)
      P == QueueWakes(pendingWakes, kept, newer)
      rest == batch[g] \ {w}
      armed == timer \/ kept # {}
  IN
  /\ batch' = [batch EXCEPT ![g] = rest]
  /\ pendingWakes' = P
  /\ blocked' = IF result \in {"busy", "threw"} THEN blocked \cup {w.target} ELSE blocked
  /\ running' = (running /\ rest # {})
  /\ timer' = IF rest = {} THEN SchedulePendingWakes(armed, P) ELSE armed

HandsOffTooLittle(g, w, result) == batch[g] \ {w} \* mutant: off by one for a retained wake

\* handOffPendingWakeBatch: what the loop of a replaced handler leaves unfinished.
HandedOff(g, w, result) ==
  IF result = "threw" \/ RetainedWake(w, result) THEN batch[g] ELSE batch[g] \ {w}

LoopHandsOff(g, w, result, newer) ==
  LET W == HandedOff(g, w, result)
      P == QueueWakes(pendingWakes, W, newer)
  IN
  /\ batch' = [batch EXCEPT ![g] = {}]
  /\ pendingWakes' = P
  /\ timer' = IF handler /\ W # {} THEN SchedulePendingWakes(timer, P) ELSE timer
  /\ UNCHANGED <<blocked, running>>

\* The handler called for wake w returned or threw.
HandlerReturns(g, w, result, newer) ==
  /\ NextInBatch(g, w)
  /\ result \in ResultsFor(w)
  /\ IF OwnGeneration(g)
     THEN LoopContinues(g, w, result, newer)
     ELSE LoopHandsOff(g, w, result, newer)
  /\ owed' = owed \ Answered(w, result)
  /\ UNCHANGED <<handler, handlerGeneration, intentOf>>

Result == {"done", "busy", "threw", "guard"}

Next ==
  \/ \E r \in Request, t \in Target, i \in Intent :
       \E p \in Priorities(i) : RequestHeartbeat(r, t, i, p)
  \/ SetHeartbeatWakeHandler
  \/ DisposeHandler
  \/ \E t \in Target : BackoffElapses(t)
  \/ \E w \in pendingWakes : GuardElapses(w)
  \/ TimerFires
  \/ \E g \in Generation : \E w \in batch[g], result \in Result, newer \in SUBSET Target :
       HandlerReturns(g, w, result, newer)

Spec == Init /\ [][Next]_vars

\* Time passes and armed timers fire; a handler answers or throws and does not find the
\* same wake busy, deferred or failing for ever; a gateway without handler gets one.
Fairness ==
  /\ \A t \in Target : WF_vars(BackoffElapses(t))
  /\ \A t \in Target : WF_vars(\E w \in pendingWakes : w.target = t /\ GuardElapses(w))
  /\ WF_vars(TimerFires)
  /\ WF_vars(~handler /\ SetHeartbeatWakeHandler)
  /\ \A g \in Generation : WF_vars(
       \E w \in batch[g], result \in Result : HandlerReturns(g, w, result, {}))
  /\ \A r \in Request : SF_vars(
       \E g \in Generation : \E w \in batch[g] :
         r \in w.requests /\ HandlerReturns(g, w, "done", {}))

LiveSpec == Spec /\ Fairness

-----------------------------------------------------------------------------
(* Properties *)

\* Every variable of the wake queue has its type.
TypeOK ==
  /\ handler \in BOOLEAN
  /\ handlerGeneration \in Generation
  /\ pendingWakes \subseteq Wake
  /\ blocked \subseteq Target
  /\ timer \in BOOLEAN
  /\ running \in BOOLEAN
  /\ batch \in [Generation -> SUBSET Wake]
  /\ intentOf \in [Request -> Intent \cup {"none"}]
  /\ owed \subseteq Request

\* `running` is true exactly while a loop of the registered handler is at work: neither a
\* completion of a replaced handler nor a lost flag opens or jams the queue (finally).
RunningHasOwner == handler => (running <=> batch[handlerGeneration] # {})

\* With a handler registered, pending wakes are looked at again: a timer is armed or the
\* loop that will arm one runs (schedule, schedulePendingWakes).
PendingIsScheduled == handler /\ pendingWakes # {} => timer \/ running

\* The queue is never jammed and never runs two loops at once, across replaced handlers,
\* late answers and timers that fired before a handler was there.
LoopOwned == RunningHasOwner /\ PendingIsScheduled

\* A target has at most one pending wake of each class.
OneWakePerSlot ==
  \A v, w \in pendingWakes : v.target = w.target /\ Slot(v) = Slot(w) => v = w

\* A request that nobody answered is carried by exactly one wake, pending or in a batch:
\* busy skips, errors, guards and replaced handlers neither lose it nor double it.
RequestsCarriedOnce ==
  LET carriers(r) == {w \in pendingWakes : r \in w.requests}
      loops(r) == {g \in Generation : \E w \in batch[g] : r \in w.requests}
  IN \A r \in Request :
       /\ r \in owed <=> carriers(r) # {} \/ loops(r) # {}
       /\ \A v, w \in carriers(r) : v = w
       /\ \A g, h \in loops(r) : g = h
       /\ \A g \in loops(r) : \A v, w \in batch[g] :
            r \in v.requests /\ r \in w.requests => v = w
       /\ carriers(r) = {} \/ loops(r) = {}

\* A manual wake is not held back by the guard of a wake it was coalesced with.
ManualNeverGuarded ==
  \A w \in pendingWakes : w.intent = "manual" => w.guardBy = 0 /\ ~w.waiting

\* The batch of a handler that was replaced changes in one way only: at the answer its loop
\* waits for, all of it is let go, so that the loop calls the handler for no other wake of it
\* (the generation check after each await in schedule).
ReplacedHandlerStopsNow ==
  [][\A g \in Generation :
       g # handlerGeneration /\ batch'[g] # batch[g] => batch'[g] = {}]_vars

\* Every request is answered in the end, across retries, guards and replaced handlers.
RequestsAnswered == \A r \in Request : r \in owed ~> r \notin owed
=============================================================================
