----------------------------- MODULE IngressDrain -----------------------------
(***************************************************************************)
(* Durable inbound events of src/src/channels/message: the rows of         *)
(* ingress-queue.ts, claimed by the drains of ingress-drain.ts, one or     *)
(* several per process, and handed to a channel's handler, which adopts,   *)
(* defers, fails or abandons them.                                         *)
(*                                                                         *)
(* Rows are written in transactions, one action each.  A claim is known by *)
(* its token; the state a drain keeps for a claim is handler[token], and a *)
(* token is used again when neither a row nor a handler refers to it.      *)
(* Leases, backoff and the age of an event are flags that time turns.      *)
(* Of a monitor there is what it asks of a drain: passes, one at a time,   *)
(* which it may stop while the drain stays up.                             *)
(*                                                                         *)
(* Abstractions.  Attempts are counted up to MaxAttempts only: the code    *)
(* counts them without end, and the retry policy asks no more than whether *)
(* the bound is reached.  An event keeps its place in the order when it is *)
(* resubmitted, while the code gives it a new receivedAt.  Passes are not  *)
(* limited in length (scanLimit, startLimit), and a failing read, or a     *)
(* failing write of recovery or of claimNext, ends a pass as a stop does.  *)
(* Left out: corrupt payloads, pruning and deletion.                       *)
(***************************************************************************)
EXTENDS Naturals, FiniteSets

CONSTANTS
  Event,           \* numbers: the order of receivedAt and of arrival
  LaneOf,          \* event -> serialization lane
  Drain,           \* drain instances, each with an owner id of its own
  ProcessOf,       \* drain -> process
  Token,
  HoldsLane,       \* deferredLaneOccupancy is "hold"
  Supersedes,      \* the channel has a shouldSupersedePending
  EventsAge,       \* the retry window of an event may run out
  Pauses,          \* shouldStop of a pass may hold while its drain is up
  MaxAttempts,     \* attempts after which an aged event is dead-lettered
  WriteAttempts,   \* INGRESS_TOMBSTONE_RETRY_MAX_ATTEMPTS
  MaxFaults,       \* bound on failing writes
  MaxLapses,       \* bound on leases that run out
  MaxResubmits,    \* bound on operator resubmissions
  Nil

ASSUME EventAssumption == Event \subseteq Nat
ASSUME LaneAssumption == DOMAIN LaneOf = Event
ASSUME ProcessAssumption == DOMAIN ProcessOf = Drain
ASSUME FlagAssumption ==
  /\ HoldsLane \in BOOLEAN /\ Supersedes \in BOOLEAN
  /\ EventsAge \in BOOLEAN /\ Pauses \in BOOLEAN
ASSUME BoundAssumption ==
  /\ MaxAttempts \in Nat /\ WriteAttempts \in Nat /\ MaxFaults \in Nat
  /\ MaxLapses \in Nat /\ MaxResubmits \in Nat
ASSUME NilAssumption == Nil \notin Token \cup Drain \cup Event

VARIABLES
  row,        \* event -> its row in channel_ingress_events
  drain,      \* drain -> "new", "up", "aborted", "disposed" or "dead"
  pass,       \* drain -> how far its drainOnce is
  handler,    \* token -> ActiveHandlerState of the claim
  adoptions,  \* event -> adoptions that were reported as successful (0, 1, many)
  faults, lapses, resubmits,
  stray       \* events whose last claim could not be given back

vars == <<row, drain, pass, handler, adoptions, faults, lapses, resubmits, stray>>

\* What no code reads: the counters of the bounds, and the claims left behind.
history == <<faults, lapses, resubmits, stray>>

Lane == {LaneOf[e] : e \in Event}
Process == {ProcessOf[d] : d \in Drain}

RowType == [status : {"absent", "pending", "claimed", "completed", "failed"},
            token : Token \cup {Nil}, owner : Drain \cup {Nil}, fresh : BOOLEAN,
            attempts : 0..MaxAttempts, lastError : BOOLEAN, delayed : BOOLEAN, aged : BOOLEAN]
AbsentRow == [status |-> "absent", token |-> Nil, owner |-> Nil, fresh |-> FALSE,
              attempts |-> 0, lastError |-> FALSE, delayed |-> FALSE, aged |-> FALSE]

PassType == [at : {"idle", "listed", "scan", "claim", "claimed"}, candidates : SUBSET Event,
             blocked : SUBSET Lane, superseded : SUBSET Lane, event : Event \cup {Nil},
             token : Token \cup {Nil}]
IdlePass == [at |-> "idle", candidates |-> {}, blocked |-> {}, superseded |-> {},
             event |-> Nil, token |-> Nil]

\* over is the channel's side of the claim: it has reported how it went.  call
\* is the adoption it waits to hear of.
HandlerType == [event : Event, drain : Drain,
                phase : {"dispatching", "deferred", "adopted", "settled"},
                over : BOOLEAN,
                call : {"none", "waiting", "lost", "done"},
                active : BOOLEAN, occupiesLane : BOOLEAN,
                guillotined : BOOLEAN, superseded : BOOLEAN,
                stallTimer : BOOLEAN, claimRefreshTimer : BOOLEAN,
                settle : {"none", "complete", "release", "fail"},
                tries : 0..WriteAttempts]

ASSUME NoHandlerAssumption == Nil \notin HandlerType

Typed ==
  /\ row \in [Event -> RowType]
  /\ drain \in [Drain -> {"new", "up", "aborted", "disposed", "dead"}]
  /\ pass \in [Drain -> PassType]
  /\ handler \in [Token -> HandlerType \cup {Nil}]
  /\ adoptions \in [Event -> 0..2]
  /\ faults \in 0..MaxFaults /\ lapses \in 0..MaxLapses /\ resubmits \in 0..MaxResubmits
  /\ stray \in SUBSET Event

\* A row has a claim token, an owner and a lease while it is claimed and at no
\* other time.
RowSound(r) ==
  /\ r.status = "claimed" => r.token \in Token /\ r.owner \in Drain
  /\ r.status # "claimed" => r.token = Nil /\ r.owner = Nil /\ ~r.fresh

RowsSound == \A e \in Event : RowSound(row[e])

\* Rows, passes and handlers have the shape of ChannelIngressQueueRecord and
\* ActiveHandlerState, and every write that ends a claim, by a handler, by
\* recovery or by giving it back, clears the claim columns of its row.
TypeOK == Typed /\ RowsSound

Init ==
  /\ row = [e \in Event |-> AbsentRow]
  /\ drain = [d \in Drain |-> "new"]
  /\ pass = [d \in Drain |-> IdlePass]
  /\ handler = [t \in Token |-> Nil]
  /\ adoptions = [e \in Event |-> 0]
  /\ faults = 0 /\ lapses = 0 /\ resubmits = 0 /\ stray = {}

Live == {t \in Token : handler[t] # Nil}
FreshToken ==
  {t \in Token : handler[t] = Nil /\ (\A e \in Event : row[e].token # t)
                 /\ \A d \in Drain : pass[d].token # t}

Stopped(d) == drain[d] # "up"

\* mutant: a claim whose lease was lost gives its lane up.
OwnersKeepingLease(d, l) ==
  {t \in Live : /\ handler[t].drain = d /\ handler[t].active /\ handler[t].occupiesLane
                /\ LaneOf[handler[t].event] = l /\ ~handler[t].guillotined}

\* laneOwnerByKey
Owners(d, l) ==
  {t \in Live : /\ handler[t].drain = d /\ handler[t].active /\ handler[t].occupiesLane
                /\ LaneOf[handler[t].event] = l}

-----------------------------------------------------------------------------
(* Rows *)

Enqueued(e) ==
  IF row[e].status = "absent" THEN [AbsentRow EXCEPT !.status = "pending"] ELSE row[e]

\* The code adds one without end; counts that the retry policy does not tell
\* apart are one here.
More(n) == IF n + 1 < MaxAttempts THEN n + 1 ELSE n

Unclaimed(r) == [r EXCEPT !.token = Nil, !.owner = Nil, !.fresh = FALSE]

Claimed(r, t, d) ==
  [r EXCEPT !.status = "claimed", !.token = t, !.owner = d, !.fresh = TRUE]

Completed(r) == [AbsentRow EXCEPT !.status = "completed"]

\* release with an error, and without recording an attempt
Released(r) ==
  [Unclaimed(r) EXCEPT !.status = "pending", !.attempts = More(r.attempts),
                       !.lastError = TRUE, !.delayed = TRUE]
Returned(r) == [Unclaimed(r) EXCEPT !.status = "pending"]

\* releaseClaimIfStillStale counts an attempt and keeps the last error, which
\* is what a backoff needs.
Recovered(r) ==
  [Unclaimed(r) EXCEPT !.status = "pending", !.attempts = More(r.attempts),
                       !.delayed = r.lastError]

Failed(r) == [Unclaimed(r) EXCEPT !.status = "failed", !.delayed = FALSE]

\* Events arrive in the order of their numbers; an event that has a row is a
\* redelivery and changes nothing.
Enqueue(e) ==
  /\ \A f \in Event : f < e => row[f].status # "absent"
  /\ row' = [row EXCEPT ![e] = Enqueued(e)]
  /\ UNCHANGED <<drain, pass, handler, adoptions, history>>

Resubmit(e) ==
  /\ row[e].status = "failed" /\ resubmits < MaxResubmits
  /\ row' = [row EXCEPT ![e] = [AbsentRow EXCEPT !.status = "pending"]]
  /\ resubmits' = resubmits + 1
  /\ UNCHANGED <<drain, pass, handler, adoptions, faults, lapses, stray>>

BackoffElapses(e) ==
  /\ row[e].delayed
  /\ row' = [row EXCEPT ![e].delayed = FALSE]
  /\ UNCHANGED <<drain, pass, handler, adoptions, history>>

EventAges(e) ==
  /\ EventsAge /\ row[e].status \in {"pending", "claimed"} /\ ~row[e].aged
  /\ row' = [row EXCEPT ![e].aged = TRUE]
  /\ UNCHANGED <<drain, pass, handler, adoptions, history>>

\* A lease that nothing refreshes runs out; one that is refreshed runs out when
\* its process is held up for longer than the lease.
Tended(e) ==
  \/ row[e].token \in Live /\ handler[row[e].token].claimRefreshTimer
  \/ \E d \in Drain : pass[d].event = e /\ pass[d].token = row[e].token

LeaseLapses(e) ==
  /\ row[e].fresh /\ (Tended(e) => lapses < MaxLapses)
  /\ row' = [row EXCEPT ![e].fresh = FALSE]
  /\ lapses' = IF Tended(e) THEN lapses + 1 ELSE lapses
  /\ UNCHANGED <<drain, pass, handler, adoptions, faults, resubmits, stray>>

-----------------------------------------------------------------------------
(* Claim recovery *)

ProcessLive(p) == \E d \in Drain : ProcessOf[d] = p /\ drain[d] \notin {"new", "dead"}

\* mutant: the processes of other owners are not looked for.
SameProcessOnly(d, r) == ProcessOf[r.owner] = ProcessOf[d] /\ drain[r.owner] = "up"

\* isLiveLocalIngressDrainOwner, isIngressClaimOwnedByOtherLiveProcess
OwnerLive(d, r) ==
  IF ProcessOf[r.owner] = ProcessOf[d] THEN drain[r.owner] = "up"
  ELSE r.fresh /\ ProcessLive(ProcessOf[r.owner])

\* recoverStaleClaims passes by what this drain itself is busy with.
Recoverable(d, e) ==
  /\ row[e].status = "claimed" /\ ~OwnerLive(d, row[e])
  /\ ~(row[e].token \in Live /\ handler[row[e].token].drain = d /\ handler[row[e].token].active)

\* drainOnce: recoverStaleClaims, then listPending.  A drain that was told to
\* abort may still begin a pass.  The claims are recovered one by one, each in a
\* transaction that looks at its token and lease again, and the rows are listed
\* after that: what happens in between is left out.
PassBegins(d) ==
  LET recovered == [e \in Event |-> IF Recoverable(d, e) THEN Recovered(row[e]) ELSE row[e]]
  IN  /\ drain[d] \in {"up", "aborted"} /\ pass[d].at = "idle"
      /\ row' = recovered
      /\ pass' = [pass EXCEPT ![d] = [IdlePass EXCEPT !.at = "listed",
                    !.candidates = {e \in Event : recovered[e].status = "pending"}]]
      /\ UNCHANGED <<drain, handler, adoptions, history>>

\* A deferral that gave its lane up does not block it.
BlocksLane(d, e) ==
  /\ row[e].status = "claimed"
  /\ LET t == row[e].token
     IN  ~(/\ t \in Live /\ handler[t].drain = d /\ handler[t].active
           /\ handler[t].phase = "deferred" /\ ~handler[t].occupiesLane
           /\ ~handler[t].guillotined /\ ~handler[t].superseded)

\* listClaims and the blocked set; the scan is for channels that supersede.  The
\* pass of a stopped drain has no use for them.
PassBlocks(d) ==
  /\ pass[d].at = "listed" /\ ~Stopped(d)
  /\ pass' = [pass EXCEPT ![d].at = IF Supersedes THEN "scan" ELSE "claim", ![d].blocked =
       {l \in Lane : \/ Owners(d, l) # {}
                     \/ \E e \in Event : LaneOf[e] = l /\ BlocksLane(d, e)
                     \/ \E e \in pass[d].candidates : LaneOf[e] = l /\ row[e].delayed}]
  /\ UNCHANGED <<row, drain, handler, adoptions, history>>

-----------------------------------------------------------------------------
(* Settlement *)

\* settleOnce: a second settlement waits for the first.
Settle(h, kind) ==
  IF h.phase = "settled" \/ h.settle # "none" THEN h ELSE [h EXCEPT !.settle = kind, !.tries = 0]

RemoveActive(h) ==
  [h EXCEPT !.active = FALSE, !.occupiesLane = FALSE, !.stallTimer = FALSE,
            !.claimRefreshTimer = FALSE]

\* Nothing refers to the state of a claim that is settled and reported.
Kept(h) == IF h.over /\ ~h.active /\ h.settle = "none" THEN Nil ELSE h

\* mutant: retries have no limit.
RetriesForever(h) == {"release"}

\* applyFailureDisposition; a channel may call any failure non-retryable.
Dispositions(h) ==
  LET r == row[h.event]
  IN  {"fail"} \cup (IF r.attempts + 1 >= MaxAttempts /\ r.aged THEN {} ELSE {"release"})

Owns(t) ==
  LET r == row[handler[t].event] IN r.status = "claimed" /\ r.token = t

\* The channel of h hears that its adoption succeeded when the state becomes g.
Reported(h, g) ==
  IF h.call # "done" /\ g.call = "done"
  THEN [adoptions EXCEPT ![h.event] = IF @ < 2 THEN @ + 1 ELSE @] ELSE adoptions

\* mutant: what complete answers is not looked at.
LosesNothing(t) == FALSE

\* The tombstone of an adoption finds its claim gone.
LosesAdoption(t) == handler[t].settle = "complete" /\ ~Owns(t)

\* A claim write that reaches the database.  Without the claim a completion is
\* lost, while a release or a dead letter counts as done.
WriteCommits(t) ==
  LET h == handler[t]
      settled == [RemoveActive(h) EXCEPT !.settle = "none", !.tries = 0, !.phase = "settled",
                    !.call = IF @ = "waiting" THEN "done" ELSE @]
      lost == [h EXCEPT !.settle = "none", !.tries = 0,
                 !.call = IF @ = "waiting" THEN "lost" ELSE @]
      g == IF LosesAdoption(t) THEN lost ELSE settled
  IN  /\ t \in Live /\ h.settle # "none"
      /\ h.tries = 0 \/ ~Stopped(h.drain)
      /\ row' = IF ~Owns(t) THEN row
                ELSE [row EXCEPT ![h.event] = IF h.settle = "complete" THEN Completed(@)
                                              ELSE IF h.settle = "release" THEN Released(@)
                                              ELSE Failed(@)]
      /\ handler' = [handler EXCEPT ![t] = Kept(g)]
      /\ adoptions' = Reported(h, g)
      /\ UNCHANGED <<drain, pass, history>>

GivesUp(h) ==
  [h EXCEPT !.settle = "none", !.tries = 0, !.call = IF @ = "waiting" THEN "lost" ELSE @]

\* commitClaimWriteWithRetry: an error is retried after a delay, unless the
\* attempts are used up or the drain stops.  The claim stays held.
WriteFails(t) ==
  LET h == handler[t]
  IN  /\ t \in Live /\ h.settle # "none" /\ faults < MaxFaults
      /\ h.tries = 0 \/ ~Stopped(h.drain)
      /\ faults' = faults + 1
      /\ IF h.tries + 1 >= WriteAttempts \/ Stopped(h.drain)
         THEN /\ handler' = [handler EXCEPT ![t] = Kept(GivesUp(h))]
              /\ adoptions' = Reported(h, GivesUp(h))
         ELSE handler' = [handler EXCEPT ![t].tries = @ + 1] /\ adoptions' = adoptions
      /\ UNCHANGED <<row, drain, pass, lapses, resubmits, stray>>

RetryStopped(t) ==
  LET h == handler[t]
  IN  /\ t \in Live /\ h.settle # "none" /\ h.tries > 0 /\ Stopped(h.drain)
      /\ handler' = [handler EXCEPT ![t] = Kept(GivesUp(h))]
      /\ adoptions' = Reported(h, GivesUp(h))
      /\ UNCHANGED <<row, drain, pass, history>>

-----------------------------------------------------------------------------
(* The pass goes on: supersede, claim, start *)

PreAdoption(h) ==
  h.phase \in {"dispatching", "deferred"} /\ ~h.guillotined /\ ~h.superseded

\* supersedeActiveStatesIfNeeded for one pending event and one claim before it
Supersede(d, e, t) ==
  LET h == handler[t]
  IN  /\ Supersedes /\ pass[d].at = "scan" /\ ~Stopped(d)
      /\ e \in pass[d].candidates
      /\ t \in Live /\ h.drain = d /\ h.active /\ PreAdoption(h)
      /\ LaneOf[h.event] = LaneOf[e] /\ h.event < e
      /\ handler' = [handler EXCEPT ![t] =
           Settle([h EXCEPT !.superseded = TRUE, !.stallTimer = FALSE], "complete")]
      /\ pass' = [pass EXCEPT ![d].superseded = @ \cup {LaneOf[e]}]
      /\ UNCHANGED <<row, drain, adoptions, history>>

\* The scan has waited for the settlements it started.
ScanEnds(d) ==
  /\ pass[d].at = "scan"
  /\ \A t \in Live : handler[t].drain = d /\ handler[t].superseded => handler[t].settle = "none"
  /\ pass' = [pass EXCEPT ![d].at = "claim", ![d].superseded = {},
                          ![d].blocked = @ \ {l \in pass[d].superseded : Owners(d, l) = {}}]
  /\ UNCHANGED <<row, drain, handler, adoptions, history>>

Blocked(d) ==
  pass[d].blocked \cup {LaneOf[e] : e \in {f \in pass[d].candidates : row[f].status = "claimed"}}

Claimable(d) ==
  {e \in pass[d].candidates : row[e].status = "pending" /\ LaneOf[e] \notin Blocked(d)}

ClaimNext(d) ==
  /\ pass[d].at = "claim" /\ ~Stopped(d)
  /\ \E e \in Claimable(d), t \in FreshToken :
       /\ \A f \in Claimable(d) : e <= f
       /\ row' = [row EXCEPT ![e] = Claimed(@, t, d)]
       /\ pass' = [pass EXCEPT ![d].at = "claimed", ![d].event = e, ![d].token = t]
       /\ stray' = stray \ {e}
  /\ UNCHANGED <<drain, handler, adoptions, faults, lapses, resubmits>>

\* shouldStop of a pass
MayStop(d) == Stopped(d) \/ Pauses

\* Nothing is left to claim, or the pass is stopped.
PassEnds(d) ==
  /\ \/ pass[d].at = "claim" /\ (Claimable(d) = {} \/ MayStop(d))
     \/ pass[d].at = "listed" /\ Stopped(d)
  /\ pass' = [pass EXCEPT ![d] = IdlePass]
  /\ UNCHANGED <<row, drain, handler, adoptions, history>>

Started(e, d, phase) ==
  [event |-> e, drain |-> d, phase |-> phase, over |-> FALSE, call |-> "none",
   active |-> TRUE, occupiesLane |-> TRUE, guillotined |-> FALSE, superseded |-> FALSE,
   stallTimer |-> TRUE, claimRefreshTimer |-> TRUE, settle |-> "none", tries |-> 0]

\* A supersession is tried here once more, but the passes of a drain are made
\* one at a time, so that no owner of the lane is left for it.
MayStart(d, e) == ~Stopped(d) /\ Owners(d, LaneOf[e]) = {}

ClaimHandled(d) ==
  [pass[d] EXCEPT !.at = "claim", !.event = Nil, !.token = Nil,
                  !.blocked = @ \cup {LaneOf[pass[d].event]}]

\* runClaimed.  The lane is taken after the handler was called: a channel that
\* defers before it returns keeps the lane whatever its policy.  A claim
\* recovered since it was made is run under a token that no row has.
StartClaimed(d) ==
  /\ pass[d].at = "claimed" /\ MayStart(d, pass[d].event)
  /\ \E phase \in {"dispatching", "deferred"} :
       handler' = [handler EXCEPT ![pass[d].token] = Started(pass[d].event, d, phase)]
  /\ pass' = [pass EXCEPT ![d] = ClaimHandled(d)]
  /\ UNCHANGED <<row, drain, adoptions, history>>

\* The claim goes back unused.  A pass that is not stopped goes on to other lanes.
ReturnClaimed(d) ==
  LET e == pass[d].event
  IN  /\ pass[d].at = "claimed" /\ (MayStop(d) \/ ~MayStart(d, e))
      /\ row' = IF row[e].token = pass[d].token THEN [row EXCEPT ![e] = Returned(@)] ELSE row
      /\ pass' = [pass EXCEPT ![d] = IF Stopped(d) \/ MayStart(d, e) THEN IdlePass ELSE ClaimHandled(d)]
      /\ UNCHANGED <<drain, handler, adoptions, history>>

\* Giving it back fails: drainOnce throws, and the row stays claimed by a drain
\* that may be up and does not know of it.
ReturnFails(d) ==
  LET e == pass[d].event
  IN  /\ pass[d].at = "claimed" /\ (MayStop(d) \/ ~MayStart(d, e)) /\ faults < MaxFaults
      /\ pass' = [pass EXCEPT ![d] = IdlePass]
      /\ faults' = faults + 1
      /\ stray' = IF row[e].token = pass[d].token THEN stray \cup {e} ELSE stray
      /\ UNCHANGED <<row, drain, handler, adoptions, lapses, resubmits>>

-----------------------------------------------------------------------------
(* What the channel reports of a claim.  It reports one outcome, through a  *)
(* callback or through the return of dispatchClaimedEvent.                  *)

Reports(t) == t \in Live /\ ~handler[t].over

Over(h) == [h EXCEPT !.over = TRUE]
NoStall(h) == [h EXCEPT !.stallTimer = FALSE]

\* onDeferred, also when dispatch returns "deferred".  What dispatch returns
\* after that changes nothing unless it is a failure.
OnDeferred(t) ==
  /\ Reports(t) /\ handler[t].phase = "dispatching"
  /\ handler' = [handler EXCEPT ![t].phase = "deferred", ![t].occupiesLane = @ /\ HoldsLane]
  /\ UNCHANGED <<row, drain, pass, adoptions, history>>

OnAdoptionFinalizing(t) ==
  /\ Reports(t) /\ PreAdoption(handler[t]) /\ handler[t].stallTimer
  /\ handler' = [handler EXCEPT ![t] = NoStall(@)]
  /\ UNCHANGED <<row, drain, pass, adoptions, history>>

\* mutant: an adoption that comes after the watchdog waits for its dead letter.
AdoptsAnyway(h) ==
  Settle([NoStall(Over(h)) EXCEPT !.phase = "adopted", !.call = "waiting"], "complete")

Adopting(h) ==
  IF h.guillotined \/ h.superseded THEN [Over(h) EXCEPT !.call = "lost"]
  ELSE IF h.phase \in {"adopted", "settled"} THEN [Over(h) EXCEPT !.call = "done"]
  ELSE Settle([NoStall(Over(h)) EXCEPT !.phase = "adopted", !.call = "waiting"], "complete")

\* onAdopted, which a handler calls once.  The answer is success, an adoption that was
\* lost, or it comes with the tombstone.
OnAdopted(t) ==
  LET h == Adopting(handler[t])
  IN  /\ Reports(t)
      /\ handler' = [handler EXCEPT ![t] = Kept(h)]
      /\ adoptions' = Reported(handler[t], h)
      /\ UNCHANGED <<row, drain, pass, history>>

OnFailed(t) ==
  /\ Reports(t)
  /\ \E kind \in Dispositions(handler[t]) :
       handler' = [handler EXCEPT ![t] =
         IF PreAdoption(@) THEN Settle(NoStall(Over(@)), kind) ELSE Kept(Over(@))]
  /\ UNCHANGED <<row, drain, pass, adoptions, history>>

OnAbandoned(t) ==
  /\ Reports(t)
  /\ handler' = [handler EXCEPT ![t] =
       IF PreAdoption(@) THEN Settle(NoStall(Over(@)), "release") ELSE Kept(Over(@))]
  /\ UNCHANGED <<row, drain, pass, adoptions, history>>

\* dispatchClaimedEvent has returned with its work done: "completed", or nothing.
DispatchCompletes(t) ==
  LET h == handler[t]
  IN  /\ Reports(t) /\ h.phase = "dispatching"
      /\ handler' = [handler EXCEPT ![t] =
           Kept(IF PreAdoption(h) /\ drain[h.drain] # "disposed" THEN Adopting(h) ELSE Over(h))]
      /\ UNCHANGED <<row, drain, pass, adoptions, history>>

\* It has returned "failed-retryable", or it threw.
DispatchFails(t) ==
  LET h == handler[t]
  IN  /\ Reports(t)
      /\ \E kind \in Dispositions(h) :
           handler' = [handler EXCEPT ![t] =
             IF PreAdoption(h) /\ drain[h.drain] # "disposed"
             THEN Settle(NoStall(Over(h)), kind) ELSE Kept(Over(h))]
      /\ UNCHANGED <<row, drain, pass, adoptions, history>>

\* A stopped drain leaves the claim of a dispatch that threw, or that returned
\* nothing, to recovery.
DispatchStops(t) ==
  /\ Reports(t) /\ Stopped(handler[t].drain)
  /\ handler' = [handler EXCEPT ![t] = Kept(Over(@))]
  /\ UNCHANGED <<row, drain, pass, adoptions, history>>

-----------------------------------------------------------------------------
(* Timers of a claim *)

\* armStallWatchdog
Stall(t) ==
  /\ t \in Live /\ handler[t].stallTimer
  /\ handler' = [handler EXCEPT ![t] =
       Settle(NoStall([@ EXCEPT !.guillotined = TRUE]), "fail")]
  /\ UNCHANGED <<row, drain, pass, adoptions, history>>

\* markLeaseReclaimed
LeaseReclaimed(h) ==
  [NoStall(h) EXCEPT !.guillotined = TRUE, !.claimRefreshTimer = FALSE]

\* armClaimRefresh: one tick
Refresh(t) ==
  LET h == handler[t]
      closed == h.guillotined \/ h.superseded
  IN  /\ t \in Live /\ h.claimRefreshTimer
      /\ handler' = [handler EXCEPT ![t] =
           IF closed THEN [h EXCEPT !.claimRefreshTimer = FALSE]
           ELSE IF Owns(t) THEN h ELSE LeaseReclaimed(h)]
      /\ row' = IF ~closed /\ Owns(t) THEN [row EXCEPT ![h.event].fresh = TRUE] ELSE row
      /\ UNCHANGED <<drain, pass, adoptions, history>>

-----------------------------------------------------------------------------
(* Drains *)

\* createChannelIngressDrain.  A process that died does not come back.
StartDrain(d) ==
  /\ drain[d] = "new"
  /\ \A c \in Drain : ProcessOf[c] = ProcessOf[d] => drain[c] # "dead"
  /\ drain' = [drain EXCEPT ![d] = "up"]
  /\ UNCHANGED <<row, pass, handler, adoptions, history>>

\* abortActiveClaims: the owner is retired, its claims are told to stop.
Abort(d) ==
  /\ drain[d] = "up"
  /\ drain' = [drain EXCEPT ![d] = "aborted"]
  /\ UNCHANGED <<row, pass, handler, adoptions, history>>

Dispose(d) ==
  /\ drain[d] \in {"up", "aborted"}
  /\ drain' = [drain EXCEPT ![d] = "disposed"]
  /\ handler' = [t \in Token |->
       IF t \in Live /\ handler[t].drain = d THEN Kept(RemoveActive(handler[t])) ELSE handler[t]]
  /\ UNCHANGED <<row, pass, adoptions, history>>

Crash(p) ==
  LET dead == {d \in Drain : ProcessOf[d] = p}
  IN  /\ ProcessLive(p)
      /\ drain' = [d \in Drain |-> IF d \in dead THEN "dead" ELSE drain[d]]
      /\ pass' = [d \in Drain |-> IF d \in dead THEN IdlePass ELSE pass[d]]
      /\ handler' = [t \in Token |->
           IF t \in Live /\ handler[t].drain \in dead THEN Nil ELSE handler[t]]
      /\ UNCHANGED <<row, adoptions, history>>

-----------------------------------------------------------------------------
DrainStep(d) ==
  \/ PassBegins(d) \/ PassBlocks(d) \/ ScanEnds(d) \/ PassEnds(d)
  \/ ClaimNext(d) \/ StartClaimed(d) \/ ReturnClaimed(d) \/ ReturnFails(d)
  \/ \E e \in Event, t \in Token : Supersede(d, e, t)

WriteStep(t) == WriteCommits(t) \/ WriteFails(t) \/ RetryStopped(t)

Outcome(t) == OnAdopted(t) \/ OnFailed(t) \/ DispatchCompletes(t) \/ DispatchFails(t)

Next ==
  \/ \E e \in Event :
       Enqueue(e) \/ Resubmit(e) \/ BackoffElapses(e) \/ EventAges(e) \/ LeaseLapses(e)
  \/ \E d \in Drain : StartDrain(d) \/ Abort(d) \/ Dispose(d) \/ DrainStep(d)
  \/ \E p \in Process : Crash(p)
  \/ \E t \in Token :
       \/ WriteStep(t) \/ Outcome(t) \/ OnAbandoned(t) \/ OnDeferred(t) \/ OnAdoptionFinalizing(t)
       \/ DispatchStops(t) \/ Stall(t) \/ Refresh(t)

Spec == Init /\ [][Next]_vars

\* What the channels, the timers and the database do: passes are made, writes
\* return, backoffs and untended leases run out, an event grows old, every
\* handler reports some time, or the watchdog stops it first, and a channel that
\* gets an event again and again adopts or fails it some time.  That every
\* handler reports is more than the code makes sure of: a claim that its channel
\* has deferred for good, after onAdoptionFinalizing, is held for ever.
Fairness ==
  /\ \A d \in Drain : WF_vars(DrainStep(d))
  /\ \A t \in Token : WF_vars(WriteStep(t)) /\ WF_vars(Outcome(t)) /\ WF_vars(Stall(t))
  /\ \A e \in Event :
       /\ WF_vars(BackoffElapses(e)) /\ WF_vars(EventAges(e)) /\ WF_vars(LeaseLapses(e))
       /\ SF_vars(\E t \in Token : handler[t] # Nil /\ handler[t].event = e /\ Outcome(t))

LiveSpec == Spec /\ Fairness

-----------------------------------------------------------------------------
(* Properties *)

\* An adoption that was reported to the channel is in the database, and an
\* event is adopted once, however its claim moved between drains, whatever the
\* watchdog and a later event did meanwhile (onAdopted, commitClaimWriteWithRetry,
\* settleOnce).
AdoptionIsDurable ==
  \A e \in Event : adoptions[e] > 0 => row[e].status = "completed" /\ adoptions[e] = 1

\* t is a claim that its drain still works for.
Holds(t) ==
  /\ handler[t].active /\ drain[handler[t].drain] = "up"
  /\ ~handler[t].guillotined /\ ~handler[t].superseded

\* While leases are kept, no event is in the hands of two drains at once, and
\* what a drain works for is claimed by it: recovery passes by the claims of
\* drains that are up, in its own process and in others (shouldRecover,
\* refreshClaim).
OneHolder ==
  lapses = 0 =>
    \A t \in Live : Holds(t) =>
      Owns(t) /\ \A u \in Live \ {t} : Holds(u) => handler[u].event # handler[t].event

\* A drain has one handler at a time in a lane, unless a deferral gave the lane
\* up, even when it claims an event again whose claim it had lost
\* (blockedLaneKeys, laneOwnerByKey, markLeaseReclaimed).
LaneSerialized ==
  \A t, u \in Live :
    /\ handler[t].active /\ handler[t].occupiesLane /\ handler[u].active /\ handler[u].occupiesLane
    /\ handler[t].drain = handler[u].drain /\ LaneOf[handler[t].event] = LaneOf[handler[u].event]
    => t = u

\* A claim is left in the database without a handler only by a drain that has
\* stopped, so that recovery may take it (drainOnce returns what it claimed
\* after a stop, settleOnce keeps what it could not write).  The exception is a
\* claim that a pass of an up drain failed to give back: no drain of the same
\* process takes it before its owner stops (isLiveLocalIngressDrainOwner).
ClaimAttended ==
  \A e \in Event :
    row[e].status = "claimed" /\ drain[row[e].owner] = "up" =>
      \/ pass[row[e].owner].token = row[e].token
      \/ row[e].token \in Live /\ handler[row[e].token].active
      \/ e \in stray

\* A claim in the database and the handler that works for it never come apart while their
\* drain is up, whatever recovery, stops and failing writes do around them (drainOnce,
\* recoverStaleClaims, settleOnce).
ClaimsHeld == OneHolder /\ ClaimAttended

\* An accepted event is adopted, superseded or dead-lettered, unless no drain is
\* left (drainOnce, the watchdog, the retry policy).  This is so where fewer
\* writes fail than a settlement tries: when the last try has failed, the claim
\* is held by a drain that is up, and refreshed, for ever.
EventsResolve ==
  \A e \in Event :
    row[e].status = "pending" ~>
      (row[e].status \in {"completed", "failed"} \/ \A d \in Drain : drain[d] # "up")
=============================================================================
