---------------------------- MODULE DeliveryQueue ----------------------------
(***************************************************************************)
(* One outbound message in the durable delivery queue: its row             *)
(* (src/src/infra/delivery-queue-sqlite.ts, delivery-queue-sqlite-claim.ts,*)
(* outbound/delivery-queue-storage.ts), the live sender that enqueues and  *)
(* sends it (outbound/deliver-queue.ts, deliver-queue-state.ts,            *)
(* deliver-queue-admission.ts) and the recovery that sends it again        *)
(* (outbound/delivery-queue-recovery.ts), in several processes that share  *)
(* the database and may crash.                                             *)
(*                                                                         *)
(* Every storage function is one step.  Each may throw without             *)
(* effect, at most MaxFaults times.  The provider is external: a call of   *)
(* it may be accepted at any moment until it returns, and its answer says  *)
(* no more than what it knows.                                             *)
(***************************************************************************)
EXTENDS Naturals, FiniteSets

CONSTANTS
  Process,      \* processes that share the database
  Id,           \* producer claim ids
  Stamp,        \* values of platformSendStartedAt
  Nil,          \* undefined
  Deliveries,   \* the deliveries to look at, records of DeliveryType
  MaxRetries,   \* attempt budget of the row
  MaxSubmits,   \* bound on how often the producer submits the intent
  MaxCrashes,   \* bound on crashes
  MaxFaults     \* bound on storage errors

\* kind: ordinary, with a permanent completion receipt, or stable (cron); required: the
\* queuePolicy; exact: requireUnknownSendReconciliation; reconciles: the channel adapter
\* reconciles sends and reports their dispatch.
DeliveryType == [kind : {"ordinary", "receipt", "stable"}, required : BOOLEAN,
                 exact : BOOLEAN, reconciles : BOOLEAN]

ASSUME NilAssumption == Nil \notin Id \cup Stamp
ASSUME OwnerAssumption == "any" \notin Id /\ "nobody" \notin Id
ASSUME DeliveryAssumption ==
  /\ Deliveries \subseteq DeliveryType
  /\ \A d \in Deliveries : d.exact => d.reconciles /\ d.required /\ d.kind = "ordinary"
ASSUME BoundAssumption == /\ MaxRetries \in Nat \ {0} /\ MaxSubmits \in Nat
                          /\ MaxCrashes \in Nat /\ MaxFaults \in Nat

VARIABLES
  delivery,   \* what is delivered; never changes
  row,        \* the row of delivery_queue_entries
  intent,     \* per process: a producer between its enqueue and withActiveDeliveryClaim
  sender,     \* per process: the holder of its activeEntries claim on the row
  submits,    \* submissions so far
  crashes,    \* crashes so far
  faults,     \* storage errors so far
  visible,    \* history: provider calls that were accepted, 2 for more than one
  unproved    \* history: processes whose last call is not proved undelivered

vars == <<delivery, row, intent, sender, submits, crashes, faults, visible, unproved>>

Kind == delivery.kind
Required == delivery.required
Exact == delivery.exact
Reconciles == delivery.reconciles

RowType == [status : {"absent", "pending", "failed", "completed"},
            recoveryState : {"none", "producer_claimed", "send_attempt_started",
                             "unknown_after_send"},
            producerClaimId : Id \cup {Nil}, platformSendAttemptId : Id \cup {Nil},
            platformSendStartedAt : Stamp \cup {Nil},
            lease : {"none", "live", "expired"},
            retryCount : 0 .. MaxRetries, attemptCount : 0 .. MaxRetries]

AbsentRow == [status |-> "absent", recoveryState |-> "none", producerClaimId |-> Nil,
              platformSendAttemptId |-> Nil, platformSendStartedAt |-> Nil,
              lease |-> "none", retryCount |-> 0, attemptCount |-> 0]

\* seen: the entry recovery loaded; got: deliveredResults is not empty; accepted: the
\* provider took the call; end: how the core send ended.
SenderType == [role : {"none", "live", "recovery"},
               at : {"idle", "claim", "reclaim", "custody", "reconcile", "fence",
                     "reserve", "spent", "start", "dispatch", "sending", "settle"},
               claim : Id \cup {Nil}, seen : RowType, proved : BOOLEAN,
               pre : {"none", "marked", "acked"},
               post : {"none", "marked", "acked", "failed"},
               got : BOOLEAN, accepted : BOOLEAN,
               end : {"none", "results", "empty", "error", "not_sent", "rejected", "abort"}]

Idle == [role |-> "none", at |-> "idle", claim |-> Nil, seen |-> AbsentRow,
         proved |-> FALSE, pre |-> "none", post |-> "none", got |-> FALSE,
         accepted |-> FALSE, end |-> "none"]

\* The row and the senders of every process have the shape of their types (QueuedDelivery),
\* and attempt counts stay within the retry budget.
TypeOK ==
  /\ delivery \in Deliveries
  /\ row \in RowType
  /\ intent \in [Process -> {"none", "created", "existing"}]
  /\ sender \in [Process -> SenderType]
  /\ submits \in 0 .. MaxSubmits /\ crashes \in 0 .. MaxCrashes
  /\ faults \in 0 .. MaxFaults /\ visible \in 0 .. 2
  /\ unproved \subseteq Process

-----------------------------------------------------------------------------
(* Rows *)

Pending == row.status = "pending"
Fenced == Kind = "stable"
Retained == Kind \in {"receipt", "stable"}

Bumped(n) == IF n < MaxRetries THEN n + 1 ELSE n

AttemptCount(r) == IF r.attemptCount > r.retryCount THEN r.attemptCount ELSE r.retryCount

Exhausted(r) == AttemptCount(r) >= MaxRetries

NeedsReconciliation(r) == r.recoveryState \in {"send_attempt_started", "unknown_after_send"}

\* The lease is looked at only where the row has a producer to protect.
HasActiveOwner(r) ==
  /\ Fenced
  /\ r.recoveryState \in {"producer_claimed", "send_attempt_started"}
  /\ r.lease = "live"

FreshStamp == Stamp \ ({row.platformSendStartedAt}
                       \cup {sender[p].seen.platformSendStartedAt : p \in Process})
FreshId == Id \ ({row.producerClaimId, row.platformSendAttemptId}
                 \cup {sender[p].claim : p \in Process}
                 \cup {sender[p].seen.platformSendAttemptId : p \in Process}
                 \cup {sender[p].seen.producerClaimId : p \in Process})

StampOr(now) == IF row.platformSendStartedAt = Nil THEN now ELSE row.platformSendStartedAt

\* mutant: a writer that lost its claim settles the row all the same.
OwnedByAnyone(owner) == Pending

\* What a writer expects of the row's owner: "any" (undefined), "nobody" (null) or its claim.
Owned(owner) ==
  /\ Pending
  /\ \/ owner = "any"
     \/ owner = "nobody" /\ row.platformSendAttemptId = Nil /\ row.producerClaimId = Nil
     \/ owner \in Id /\ owner \in {row.platformSendAttemptId, row.producerClaimId}

OwnerOf(claim) == IF claim = Nil THEN "any" ELSE claim

RecoveryOwner(claim) == IF claim # Nil THEN claim ELSE IF Fenced THEN "nobody" ELSE "any"

Inserted == [AbsentRow EXCEPT !.status = "pending"]

Acked(suppress) ==
  IF ~Pending THEN row
  ELSE IF Retained /\ ~(suppress /\ Fenced) THEN [AbsentRow EXCEPT !.status = "completed"]
  ELSE AbsentRow

FailBeforePlatformSend ==
  [row EXCEPT !.retryCount = Bumped(@), !.lease = "none", !.producerClaimId = Nil,
              !.platformSendAttemptId = Nil, !.platformSendStartedAt = Nil,
              !.recoveryState = "none"]

\* mutant: an ambiguous failure is recorded like one that proves nothing was sent.
FailForgetsEvidence == FailBeforePlatformSend

\* mutant: a failed attempt is not counted.
FailUncounted == row

FailDelivery == [row EXCEPT !.retryCount = Bumped(@)]

OutcomeUnknown(now) ==
  [row EXCEPT !.lease = "none", !.producerClaimId = Nil,
              !.platformSendStartedAt = StampOr(now), !.recoveryState = "unknown_after_send"]

FailAfterPlatformSend(now) == [OutcomeUnknown(now) EXCEPT !.retryCount = Bumped(@)]

AttemptStarted(now) ==
  [row EXCEPT !.lease = "none", !.producerClaimId = Nil,
              !.platformSendStartedAt = StampOr(now), !.recoveryState = "send_attempt_started"]

Dispatched(now, claim) ==
  [row EXCEPT !.lease = IF claim = Nil THEN "none" ELSE @, !.producerClaimId = Nil,
              !.platformSendStartedAt = now, !.recoveryState = "send_attempt_started"]

MovedToFailed == [row EXCEPT !.status = "failed"]

\* A claim takes a row that shows no send, or one whose send attempt the adapter disproved
\* and that nobody has touched since.
Claimable(seen, proved) ==
  /\ Pending
  /\ \/ /\ row.platformSendStartedAt = Nil
        /\ \/ row.recoveryState = "none"
           \/ row.recoveryState = "producer_claimed" /\ row.lease = "expired"
     \/ /\ proved /\ row.recoveryState = "send_attempt_started"
        /\ row.platformSendStartedAt = seen.platformSendStartedAt
        /\ row.platformSendAttemptId = seen.platformSendAttemptId
        /\ row.platformSendAttemptId # Nil

Claimed(id) == [row EXCEPT !.lease = "live", !.producerClaimId = id,
                           !.platformSendAttemptId = Nil, !.platformSendStartedAt = Nil,
                           !.recoveryState = "producer_claimed"]

Promotable(claim) ==
  /\ Pending
  /\ row.platformSendStartedAt = Nil
  /\ row.recoveryState = "producer_claimed" /\ row.producerClaimId = claim
  /\ row.lease = "live"

\* A row that does not require a claim could keep no lease here; only stable rows are claimed.
Promoted(claim, now) ==
  [row EXCEPT !.lease = "live", !.producerClaimId = Nil, !.platformSendAttemptId = claim,
              !.platformSendStartedAt = now, !.recoveryState = "send_attempt_started"]

Init ==
  /\ delivery \in Deliveries
  /\ row = AbsentRow
  /\ intent = [p \in Process |-> "none"]
  /\ sender = [p \in Process |-> Idle]
  /\ submits = 0 /\ crashes = 0 /\ faults = 0 /\ visible = 0 /\ unproved = {}

-----------------------------------------------------------------------------
(* One step of a sender and the writes in it *)

Becomes(p, s) == sender' = [sender EXCEPT ![p] = s]

\* The first `thrown` writes of the step failed and the next one took effect.
Took(owner, thrown, new) ==
  /\ Owned(owner)
  /\ faults + thrown <= MaxFaults
  /\ faults' = faults + thrown
  /\ row' = new

\* All `thrown` writes of the step failed: for want of ownership, or by a storage error.
Refused(owner, thrown) ==
  LET cost == IF Owned(owner) THEN thrown ELSE 0
  IN  /\ faults + cost <= MaxFaults
      /\ faults' = faults + cost
      /\ row' = row

\* A write without an owner loads the row and puts the new one back, which is one step
\* within a process; another process that writes between the two, which the gateway lock
\* is to prevent, is left out.  A write with an owner is one transaction.
Write(owner, new) == Took(owner, 0, new) \/ Refused(owner, 1)

WriteElse(owner, new, fallback) ==
  Took(owner, 0, new) \/ Took(owner, 1, fallback) \/ Refused(owner, 2)

NoWrite == UNCHANGED <<row, faults>>

\* A producer that has just inserted its row goes on before any answer from outside reaches
\* its process: only promise reactions lie between the insert and withActiveDeliveryClaim.
AnswerArrives(p) == intent[p] # "created"

\* persistQueuedPostSendState: the sender goes on as `s`, or as `thrown` if nothing helped.
PersistPostSend(p, s, thrown) ==
  \E now \in FreshStamp :
    LET owner == OwnerOf(s.claim)
        fenced == s.claim # Nil
    IN  \/ Took(owner, 0, OutcomeUnknown(now)) /\ Becomes(p, [s EXCEPT !.post = "marked"])
        \/ /\ ~fenced
           /\ faults + (IF Pending THEN 1 ELSE 0) <= MaxFaults
           /\ faults' = faults + (IF Pending THEN 1 ELSE 0)
           /\ row' = Acked(FALSE)
           /\ Becomes(p, [s EXCEPT !.post = "acked"])
        \/ /\ Took(owner, IF fenced THEN 1 ELSE 2, FailAfterPlatformSend(now))
           /\ Becomes(p, [s EXCEPT !.post = "failed"])
        \/ /\ fenced \/ Pending
           /\ Refused(owner, IF fenced THEN 2 ELSE 3)
           /\ Becomes(p, thrown)

-----------------------------------------------------------------------------
(* The live sender up to the platform *)

Submit(p) ==
  /\ submits < MaxSubmits /\ intent[p] = "none"
  /\ Kind = "ordinary" => submits = 0
  /\ submits' = submits + 1
  /\ row' = IF row.status = "absent" THEN Inserted ELSE row
  /\ intent' = [intent EXCEPT ![p] = IF Kind = "receipt" THEN "none"
                                     ELSE IF row.status = "absent" THEN "created"
                                     ELSE "existing"]
  /\ UNCHANGED <<sender, crashes, faults, visible, unproved>>

\* withActiveDeliveryClaim
LiveSenderEnters(p) ==
  /\ intent[p] # "none" /\ sender[p] = Idle
  /\ intent' = [intent EXCEPT ![p] = "none"]
  /\ Becomes(p, [Idle EXCEPT !.role = "live",
                             !.at = IF ~Fenced THEN "start"
                                    ELSE IF intent[p] = "created" THEN "claim" ELSE "reclaim"])
  /\ UNCHANGED <<row, submits, crashes, faults, visible, unproved>>

LiveSenderTurnedAway(p) ==
  /\ intent[p] # "none" /\ sender[p] # Idle
  /\ intent' = [intent EXCEPT ![p] = "none"]
  /\ UNCHANGED <<row, sender, submits, crashes, faults, visible, unproved>>

ClaimPending(p) ==
  /\ sender[p].at \in {"claim", "reclaim"}
  /\ \/ /\ Claimable(AbsentRow, FALSE)
        /\ \E id \in FreshId :
             /\ row' = Claimed(id)
             /\ Becomes(p, [sender[p] EXCEPT !.claim = id,
                              !.at = IF @ = "claim" THEN "start" ELSE "custody"])
        /\ faults' = faults
     \/ /\ ~Claimable(AbsentRow, FALSE) \/ faults < MaxFaults
        /\ faults' = faults + (IF Claimable(AbsentRow, FALSE) THEN 1 ELSE 0)
        /\ Becomes(p, Idle)
        /\ row' = row
  /\ UNCHANGED <<intent, submits, crashes, visible, unproved>>

TakeCustody(p) ==
  /\ sender[p].at = "custody"
  /\ Becomes(p, IF Pending /\ row.producerClaimId = sender[p].claim
                THEN [sender[p] EXCEPT !.at = "start"] ELSE Idle)
  /\ UNCHANGED <<row, intent, submits, crashes, faults, visible, unproved>>

-----------------------------------------------------------------------------
(* Recovery up to the platform *)

\* recoveryCoordinator.scan and onEntry, up to the first wait.
Scannable(p) == sender[p] = Idle /\ Pending /\ ~HasActiveOwner(row)

ScanRejects(p) ==
  /\ Scannable(p)
  /\ Write(RecoveryOwner(Nil), MovedToFailed)
  /\ UNCHANGED <<intent, sender, submits, crashes, visible, unproved>>

ScanDeadLetters(p) ==
  /\ Scannable(p) /\ Exhausted(row) /\ ~NeedsReconciliation(row)
  /\ Write(RecoveryOwner(Nil), MovedToFailed)
  /\ UNCHANGED <<intent, sender, submits, crashes, visible, unproved>>

ScanBegins(p) ==
  /\ Scannable(p) /\ (~Exhausted(row) \/ NeedsReconciliation(row))
  /\ Becomes(p, [Idle EXCEPT !.role = "recovery", !.seen = row,
                             !.at = IF NeedsReconciliation(row) THEN "reconcile" ELSE "fence"])
  /\ UNCHANGED <<row, intent, submits, crashes, faults, visible, unproved>>

ReconciledSent(p) ==
  LET owner == RecoveryOwner(sender[p].seen.platformSendAttemptId)
  IN  /\ sender[p].at = "reconcile" /\ AnswerArrives(p) /\ Reconciles /\ visible > 0
      /\ WriteElse(owner, Acked(FALSE), FailDelivery)
      /\ Becomes(p, Idle)
      /\ UNCHANGED <<intent, submits, crashes, visible, unproved>>

\* Not sent: replay, unless the row has evidence from after the send.
ReconciledNotSent(p) ==
  /\ sender[p].at = "reconcile" /\ AnswerArrives(p) /\ Reconciles /\ visible = 0
  /\ unproved' = {}
  /\ \/ /\ sender[p].seen.recoveryState = "send_attempt_started"
        /\ Becomes(p, [sender[p] EXCEPT !.proved = TRUE, !.at = "fence"])
        /\ NoWrite
     \/ /\ sender[p].seen.recoveryState # "send_attempt_started"
        /\ Write(RecoveryOwner(Nil), MovedToFailed)
        /\ Becomes(p, Idle)
  /\ UNCHANGED <<intent, submits, crashes, visible>>

\* mutant: an adapter that cannot tell is taken for one that says not sent.
ReplaysUnreconciled(p) ==
  /\ sender[p].at = "reconcile"
  /\ Becomes(p, [sender[p] EXCEPT !.proved = TRUE, !.at = "fence"])
  /\ NoWrite
  /\ UNCHANGED <<intent, submits, crashes, visible, unproved>>

\* Unresolved, or an adapter that cannot tell.
Unreconciled(p) ==
  /\ sender[p].at = "reconcile" /\ AnswerArrives(p)
  /\ \/ /\ Reconciles /\ ~Exhausted(sender[p].seen)
        /\ Write(RecoveryOwner(Nil), FailDelivery)
     \/ Write(RecoveryOwner(Nil), MovedToFailed)
  /\ Becomes(p, Idle)
  /\ UNCHANGED <<intent, submits, crashes, visible, unproved>>

RequiresClaim(seen) == Fenced \/ seen.producerClaimId # Nil \/ seen.platformSendAttemptId # Nil

FenceRecovery(p) ==
  LET s == sender[p]
      may == Claimable(s.seen, s.proved)
      next == [s EXCEPT !.at = "reserve", !.seen = AbsentRow, !.proved = FALSE]
  IN  /\ s.at = "fence"
      /\ \/ ~RequiresClaim(s.seen) /\ NoWrite /\ Becomes(p, next)
         \/ /\ RequiresClaim(s.seen) /\ may /\ faults' = faults
            /\ \E id \in FreshId : row' = Claimed(id) /\ Becomes(p, [next EXCEPT !.claim = id])
         \/ /\ RequiresClaim(s.seen) /\ (~may \/ faults < MaxFaults)
            /\ faults' = faults + (IF may THEN 1 ELSE 0)
            /\ row' = row /\ Becomes(p, Idle)
      /\ UNCHANGED <<intent, submits, crashes, visible, unproved>>

\* mutant: the budget is not looked at when an attempt is reserved.
ReserveUnbounded(p) ==
  LET s == sender[p]
  IN  /\ s.at = "reserve"
      /\ Took(OwnerOf(s.claim), 0, [row EXCEPT !.attemptCount = AttemptCount(row) + 1])
      /\ Becomes(p, [s EXCEPT !.at = "start"])
      /\ UNCHANGED <<intent, submits, crashes, visible, unproved>>

ReserveAttempt(p) ==
  LET s == sender[p]
      owner == OwnerOf(s.claim)
  IN  /\ s.at = "reserve"
      /\ \/ /\ ~Exhausted(row)
            /\ Took(owner, 0, [row EXCEPT !.attemptCount = AttemptCount(row) + 1])
            /\ Becomes(p, [s EXCEPT !.at = "start"])
         \/ /\ Exhausted(row)
            /\ Took(owner, 0, row) /\ Becomes(p, [s EXCEPT !.at = "spent"])
         \/ Refused(owner, 1) /\ Becomes(p, Idle)
      /\ UNCHANGED <<intent, submits, crashes, visible, unproved>>

\* The budget was spent: the row is dead-lettered in a transaction of its own.
DeadLetterSpent(p) ==
  /\ sender[p].at = "spent"
  /\ Write(OwnerOf(sender[p].claim), MovedToFailed)
  /\ Becomes(p, Idle)
  /\ UNCHANGED <<intent, submits, crashes, visible, unproved>>

-----------------------------------------------------------------------------
(* The platform boundary, for both kinds of sender *)

\* The core send ends before the platform is called.
EndsBeforeSend(p) ==
  /\ sender[p].at \in {"start", "dispatch"}
  /\ \E end \in {"empty", "error", "not_sent", "rejected"}
              \cup (IF sender[p].role = "live" THEN {"abort"} ELSE {}) :
       Becomes(p, [sender[p] EXCEPT !.at = "settle", !.end = end])
  /\ UNCHANGED <<row, intent, submits, crashes, faults, visible, unproved>>

Fails(p) == Becomes(p, [sender[p] EXCEPT !.at = "settle", !.end = "error"])

Marked(p) == Becomes(p, [sender[p] EXCEPT !.at = "dispatch", !.pre = "marked"])

\* onPlatformSendStart with persistQueuedPreSendState
PlatformSendStart(p) ==
  LET s == sender[p]
      fenced == s.claim # Nil
      mayMark == IF fenced THEN Promotable(s.claim) ELSE Pending
  IN  /\ s.at = "start" /\ ~Exact
      /\ \/ /\ mayMark /\ faults' = faults
            /\ \E now \in FreshStamp :
                 row' = IF fenced THEN Promoted(s.claim, now) ELSE AttemptStarted(now)
            /\ Marked(p)
         \/ /\ mayMark => faults < MaxFaults
            /\ faults' = faults + (IF mayMark THEN 1 ELSE 0)
            /\ \/ (Required \/ fenced) /\ row' = row /\ Fails(p)
               \/ /\ ~Required /\ ~fenced
                  /\ row' = Acked(FALSE)
                  /\ Becomes(p, [s EXCEPT !.at = "dispatch", !.pre = "acked",
                                   !.post = IF s.role = "live" THEN "acked" ELSE "none"])
         \/ /\ mayMark /\ ~Required /\ ~fenced       \* the fallback ack fails as well
            /\ faults + 2 <= MaxFaults /\ faults' = faults + 2
            /\ row' = row /\ Fails(p)
      /\ UNCHANGED <<intent, submits, crashes, visible, unproved>>

ExactSendStart(p) ==
  /\ sender[p].at = "start" /\ Exact
  /\ Becomes(p, [sender[p] EXCEPT !.at = "dispatch"])
  /\ UNCHANGED <<row, intent, submits, crashes, faults, visible, unproved>>

Crosses(p, s) ==
  /\ Becomes(p, [s EXCEPT !.at = "sending"])
  /\ unproved' = unproved \cup {p}

\* mutant: the dispatch marker is only refreshed, never enforced.
DispatchUnchecked(p) ==
  LET s == sender[p]
  IN  /\ s.at = "dispatch"
      /\ \/ \E now \in FreshStamp : Took(OwnerOf(s.claim), 0, Dispatched(now, s.claim))
         \/ Refused(OwnerOf(s.claim), 1)
      /\ Crosses(p, s)
      /\ UNCHANGED <<intent, submits, crashes, visible>>

\* onPlatformSendDispatch, then the provider call
PlatformSendDispatch(p) ==
  LET s == sender[p]
      owner == OwnerOf(s.claim)
      strict == Exact \/ s.claim # Nil
  IN  /\ s.at = "dispatch"
      /\ \/ /\ Reconciles /\ s.pre # "acked"
            /\ \/ /\ \E now \in FreshStamp : Took(owner, 0, Dispatched(now, s.claim))
                  /\ Crosses(p, [s EXCEPT !.pre = "marked"])
               \/ /\ Refused(owner, 1) /\ strict
                  /\ Fails(p) /\ UNCHANGED unproved
               \/ Refused(owner, 1) /\ ~strict /\ Crosses(p, s)
         \/ (~Reconciles \/ s.pre = "acked") /\ NoWrite /\ Crosses(p, s)
      /\ UNCHANGED <<intent, submits, crashes, visible>>

ProviderAccepts(p) ==
  /\ sender[p].at = "sending" /\ ~sender[p].accepted
  /\ visible' = IF visible = 2 THEN 2 ELSE visible + 1
  /\ Becomes(p, [sender[p] EXCEPT !.accepted = TRUE])
  /\ UNCHANGED <<row, intent, submits, crashes, faults, unproved>>

\* onDeliveryResult: the first part of the batch has an identity.
DeliveryResult(p) ==
  LET s == [sender[p] EXCEPT !.got = TRUE]
  IN  /\ sender[p].at = "sending" /\ AnswerArrives(p)
      /\ sender[p].accepted /\ ~sender[p].got
      /\ \/ s.post # "none" /\ NoWrite /\ Becomes(p, s)
         \/ s.post = "none" /\ PersistPostSend(p, s, [s EXCEPT !.at = "settle", !.end = "error"])
      /\ UNCHANGED <<intent, submits, crashes, visible, unproved>>

\* The provider call returns or throws.  An error that proves nothing was sent may still
\* follow parts of the batch that were: the results then come with it.
ProviderReturns(p) ==
  LET s == sender[p]
  IN  /\ s.at = "sending" /\ AnswerArrives(p)
      /\ \E end \in {"results", "empty", "error", "not_sent", "rejected"}
                  \cup (IF s.role = "live" THEN {"abort"} ELSE {}) :
           /\ end = "results" => s.accepted
           /\ end = "empty" => ~s.got
           /\ end \in {"not_sent", "rejected"} => s.got \/ ~s.accepted
           /\ Becomes(p, [s EXCEPT !.at = "settle", !.end = end, !.got = @ \/ end = "results"])
           /\ unproved' = IF end \in {"not_sent", "rejected"} /\ ~s.accepted
                          THEN unproved \ {p} ELSE unproved
      /\ UNCHANGED <<row, intent, submits, crashes, faults, visible>>

-----------------------------------------------------------------------------
(* Settlement *)

\* Evidence of a send that is not yet in the row.
OwesPostSend(s) ==
  /\ s.post = "none"
  /\ \/ s.end = "results"
     \/ s.end = "empty" /\ s.role = "live" /\ s.pre = "marked"
     \/ s.end \in {"error", "not_sent", "rejected"} /\ s.got

SettlePostSend(p) ==
  LET s == sender[p]
  IN  /\ s.at = "settle" /\ OwesPostSend(s)
      /\ PersistPostSend(p, s, IF s.role = "recovery" /\ s.end = "results"
                               THEN [s EXCEPT !.end = "error"] ELSE Idle)
      /\ UNCHANGED <<intent, submits, crashes, visible, unproved>>

Ambiguous(s) == s.claim # Nil /\ (s.got \/ s.pre = "marked" \/ s.post = "marked")

\* The catch block of a live send that failed without results.  A rejection whose row
\* cannot be removed is recorded as a failure, of a send that is proved not to have
\* happened if every cause of the error proves it.
LiveFailure(s) ==
  CASE s.pre = "acked" -> NoWrite
    [] s.pre # "acked" /\ s.end = "rejected" ->
         \E failure \in {FailDelivery, FailBeforePlatformSend} :
           WriteElse(OwnerOf(s.claim), Acked(s.claim # Nil), failure)
    [] s.pre # "acked" /\ s.end = "not_sent" -> Write(OwnerOf(s.claim), FailBeforePlatformSend)
    [] s.pre # "acked" /\ s.end = "error" -> Write(OwnerOf(s.claim), FailDelivery)

SettleLive(p) ==
  LET s == sender[p]
      owner == OwnerOf(s.claim)
  IN  /\ s.at = "settle" /\ s.role = "live" /\ ~OwesPostSend(s)
      /\ \E now \in FreshStamp :
           CASE s.end \in {"results", "empty"} /\ s.post \in {"acked", "failed"} -> NoWrite
             [] s.end = "results" /\ s.post = "marked" ->
                  WriteElse(owner, Acked(FALSE), FailAfterPlatformSend(now))
             [] s.end = "empty" /\ s.post = "marked" -> Write(owner, FailAfterPlatformSend(now))
             [] s.end = "empty" /\ s.post = "none" -> WriteElse(owner, Acked(TRUE), FailDelivery)
             [] s.end = "abort" ->
                  IF Ambiguous(s)
                  THEN IF s.post = "failed" THEN NoWrite
                       ELSE Write(owner, FailAfterPlatformSend(now))
                  ELSE Write(owner, Acked(s.claim # Nil))
             [] s.end \in {"error", "not_sent", "rejected"} /\ s.got ->
                  IF s.post = "marked" THEN Write(owner, FailAfterPlatformSend(now)) ELSE NoWrite
             [] s.end \in {"error", "not_sent", "rejected"} /\ ~s.got -> LiveFailure(s)
      /\ Becomes(p, Idle)
      /\ UNCHANGED <<intent, submits, crashes, visible, unproved>>

\* An error whose text says that it is permanent dead-letters the row, whatever else it is
\* (isPermanentDeliveryError).
SettleRecovery(p) ==
  LET s == sender[p]
      owner == OwnerOf(s.claim)
  IN  /\ s.at = "settle" /\ s.role = "recovery" /\ ~OwesPostSend(s)
      /\ \E now \in FreshStamp :
           CASE s.end \in {"results", "error", "not_sent", "rejected"}
                  /\ (s.post \in {"acked", "failed"} \/ (s.got /\ s.end # "results")) -> NoWrite
             [] s.end = "results" /\ s.post = "marked" ->
                  WriteElse(owner, Acked(FALSE), FailAfterPlatformSend(now))
             [] s.end = "empty" /\ s.claim # Nil /\ s.pre = "marked" ->
                  WriteElse(owner, FailAfterPlatformSend(now), FailDelivery)
             [] s.end = "empty" /\ ~(s.claim # Nil /\ s.pre = "marked") ->
                  WriteElse(owner, Acked(TRUE), FailDelivery)
             [] s.end = "rejected" /\ ~s.got -> Write(owner, MovedToFailed)
             [] s.end = "not_sent" /\ ~s.got ->
                  Write(owner, FailBeforePlatformSend) \/ Write(owner, MovedToFailed)
             [] s.end = "error" /\ ~s.got /\ s.post = "none" ->
                  Write(owner, FailDelivery) \/ Write(owner, MovedToFailed)
      /\ Becomes(p, Idle)
      /\ UNCHANGED <<intent, submits, crashes, visible, unproved>>

-----------------------------------------------------------------------------
(* Environment *)

LeaseExpires ==
  /\ row.lease = "live"
  /\ row' = [row EXCEPT !.lease = "expired"]
  /\ UNCHANGED <<intent, sender, submits, crashes, faults, visible, unproved>>

\* The process dies and a new one takes its place with an empty activeEntries.
Crash(p) ==
  /\ crashes < MaxCrashes
  /\ sender[p] # Idle \/ intent[p] # "none"
  /\ crashes' = crashes + 1
  /\ intent' = [intent EXCEPT ![p] = "none"]
  /\ Becomes(p, Idle)
  /\ UNCHANGED <<row, submits, faults, visible, unproved>>

Live(p) == LiveSenderEnters(p) \/ LiveSenderTurnedAway(p) \/ ClaimPending(p) \/ TakeCustody(p)
Scan(p) == ScanRejects(p) \/ ScanDeadLetters(p) \/ ScanBegins(p)
Reconcile(p) == ReconciledSent(p) \/ ReconciledNotSent(p) \/ Unreconciled(p)
Recover(p) == Reconcile(p) \/ FenceRecovery(p) \/ ReserveAttempt(p) \/ DeadLetterSpent(p)
Send(p) == \/ EndsBeforeSend(p) \/ PlatformSendStart(p) \/ ExactSendStart(p)
           \/ PlatformSendDispatch(p) \/ DeliveryResult(p) \/ ProviderReturns(p)
Settle(p) == SettlePostSend(p) \/ SettleLive(p) \/ SettleRecovery(p)

Step(p) == Submit(p) \/ Live(p) \/ Scan(p) \/ Recover(p) \/ Send(p)
             \/ ProviderAccepts(p) \/ Settle(p) \/ Crash(p)

Next == UNCHANGED delivery /\ ((\E p \in Process : Step(p)) \/ LeaseExpires)

Spec == Init /\ [][Next]_vars

\* Provider calls return, drains come again and again, leases run out.
Fairness ==
  /\ \A p \in Process :
       /\ WF_vars(UNCHANGED delivery /\ (Live(p) \/ Recover(p) \/ Send(p) \/ Settle(p)))
       /\ WF_vars(UNCHANGED delivery /\ Scan(p))
  /\ WF_vars(UNCHANGED delivery /\ LeaseExpires)

FairSpec == Spec /\ Fairness

-----------------------------------------------------------------------------
(* Properties *)

\* Delivery evidence survives every failure, crash and change of owner: while a provider call
\* may have delivered and nobody has proved otherwise, a pending row is in a recovery state
\* that recovery reconciles and no producer may claim (delivery-queue-storage.ts).
EvidenceSurvives == Pending /\ unproved # {} => NeedsReconciliation(row)

\* The message is handed to the provider again only after every earlier call was proved
\* undelivered, by its own error or by the adapter's answer "not_sent" (drainQueuedEntry).
NoReplayWithoutProof ==
  [][\A p \in Process : sender[p].at # "sending" /\ sender'[p].at = "sending" => unproved = {}]_vars

\* In one process, with crashes and storage errors, the recipient sees the message at most once.
VisibleAtMostOnce == visible <= 1

\* While a producer holds a live lease on the row it sends for, nobody but its own calls
\* changes the row: not a scan, not a second submission, not a former owner
\* (transitionOwnedDeliveryQueueEntry, hasActiveStableDeliveryOwner).
LiveOwnerUndisturbed ==
  [][\A p \in Process :
       /\ sender[p].claim # Nil /\ row.lease = "live"
       /\ sender[p].claim \in {row.producerClaimId, row.platformSendAttemptId}
       /\ sender'[p] = sender[p]
       => row' \in {row, [row EXCEPT !.lease = "expired"]}]_vars

\* A completion receipt of a stable intent, which stops its producer from sending again,
\* means that the provider accepted the message (completeDeliveryQueueEntry).
ReceiptMeansDelivered == Kind = "stable" /\ row.status = "completed" => visible > 0

\* What the row says about the past is true, in both directions: it never hides a send that
\* may have happened and never claims one that did not (failDelivery and its variants, ackDelivery).
RecordsTruthful == EvidenceSurvives /\ ReceiptMeansDelivered

\* A row without producer claims does not stay pending for ever: it is delivered, removed
\* or dead-lettered (recoverPendingDeliveries, drainPendingDeliveries).
UnfencedRowsResolve == Pending /\ ~Fenced ~> ~Pending

\* "Moves entries that exhaust their retry budget to failed/", said of every row
\* (recoverPendingDeliveries).
RowsResolve == Pending ~> ~Pending

=============================================================================
