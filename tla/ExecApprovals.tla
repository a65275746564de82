---------------------------- MODULE ExecApprovals ----------------------------
(***************************************************************************)
(* Operator approvals: the managers of live requests,                      *)
(* src/src/gateway/exec-approval-manager.ts, over the durable rows of      *)
(* src/src/gateway/operator-approval-store.ts.                             *)
(*                                                                         *)
(* A gateway lifetime (runtime epoch) has one manager per approval kind.   *)
(* An in-process restart leaves the managers of the last lifetime alive,   *)
(* with their waiters and timers; a crash ends them.  Every manager method *)
(* is synchronous, and each call of the store is one immediate             *)
(* transaction that may throw and then changes nothing.  Instants are      *)
(* abstracted to steps: a deadline passes, the grace period of a settled   *)
(* entry is over, a terminal row reaches the end of its retention.         *)
(***************************************************************************)
EXTENDS Naturals, FiniteSets

CONSTANTS
  Id,          \* approval ids
  Kind,        \* approval kinds
  MaxEpoch,    \* bound on gateway lifetimes
  MaxRetain    \* bound on the handoffs that hold an entry at the same time

ASSUME EpochAssumption == MaxEpoch \in Nat \ {0}
ASSUME RetainAssumption == MaxRetain \in Nat

VARIABLES
  row,      \* operator_approvals, by approval_id
  entry,    \* pending: the map of each manager
  due,      \* expires_at_ms has passed for the request a manager registered
  epoch,    \* the runtime epoch of the present gateway
  alive,    \* epochs whose managers still exist
  grants    \* history: single-use permissions given out for an entry

vars == <<row, entry, due, epoch, alive, grants>>

Epoch == 1 .. MaxEpoch
Manager == Epoch \X Kind
NoManager == <<0, "none">>
Decision == {"allow-once", "allow-always", "deny"}
Verdict == Decision \cup {"none"}
Status == {"absent", "pending", "allowed", "denied", "expired", "cancelled"}

\* corrupt: terminal_reason is "storage-corrupt"; sound: the row can be decoded.
RowType == [status : Status, decision : Verdict, owner : Manager \cup {NoManager},
            consumed : BOOLEAN, corrupt : BOOLEAN, sound : BOOLEAN, old : BOOLEAN]

\* lifetime: retainForManagerLifetime; graceOver: the grace counted from the last
\* handoff or else from resolvedAtMs has passed.
EntryType == [state : {"none", "waiting", "settled"}, decision : Verdict,
              corrupt : BOOLEAN, lifetime : BOOLEAN, retain : 0 .. MaxRetain,
              timer : BOOLEAN, cleanup : BOOLEAN, graceOver : BOOLEAN,
              consumed : BOOLEAN, fallback : BOOLEAN]

AbsentRow == [status |-> "absent", decision |-> "none", owner |-> NoManager,
              consumed |-> FALSE, corrupt |-> FALSE, sound |-> TRUE, old |-> FALSE]

NoEntry == [state |-> "none", decision |-> "none", corrupt |-> FALSE,
            lifetime |-> FALSE, retain |-> 0, timer |-> FALSE, cleanup |-> FALSE,
            graceOver |-> FALSE, consumed |-> FALSE, fallback |-> FALSE]

Init ==
  /\ row = [i \in Id |-> AbsentRow]
  /\ entry = [m \in Manager |-> [i \in Id |-> NoEntry]]
  /\ due = [m \in Manager |-> [i \in Id |-> FALSE]]
  /\ epoch = 1
  /\ alive = {1}
  /\ grants = [m \in Manager |-> [i \in Id |-> 0]]

Live(m) == m[1] \in alive
Terminal(r) == r.status \notin {"absent", "pending"}
Due(r, i) == r.status = "pending" /\ due[r.owner][i]

-----------------------------------------------------------------------------
(* The store: what each transaction makes of the row r of id i *)

ClosedAs(r, status) == [r EXCEPT !.status = status, !.decision = status] \* mutant: the columns are mixed up

Closed(r, status) == [r EXCEPT !.status = status, !.decision = "deny"]

\* A pending row is overwritten whether it can be decoded or not; if the overwritten
\* columns are the broken ones (repaired), it can be decoded again (expirePendingRow).
Overwritten(r, status, repaired) == [Closed(r, status) EXCEPT !.sound = @ \/ repaired]

\* denyCorruptPendingRow
DenyCorruptPendingRow(r, repaired) ==
  IF r.status = "pending"
  THEN [Closed(r, "denied") EXCEPT !.corrupt = TRUE, !.sound = repaired]
  ELSE r

\* pruneTerminalOperatorApprovals
Pruned(r) == IF Terminal(r) /\ r.old THEN AbsentRow ELSE r

\* matchesExpectedApprovalOwner, of a row that exists
Owned(r, m) == r.status # "absent" /\ r.owner = m

\* resolveOperatorApproval: "missing" is its not-found, "terminal" its resolved,
\* expired and already-resolved.
ResolveOperatorApproval(i, m, d, repaired) ==
  LET r == row[i] IN
  IF ~Owned(r, m) THEN [outcome |-> "missing", row |-> r]
  ELSE IF ~r.sound THEN [outcome |-> "corrupt", row |-> DenyCorruptPendingRow(r, repaired)]
  ELSE [outcome |-> "terminal",
        row |-> IF Terminal(r) THEN r
                ELSE IF Due(r, i) THEN Closed(r, "expired")
                ELSE [r EXCEPT !.status = IF d = "deny" THEN "denied" ELSE "allowed",
                               !.decision = d]]

\* forceDenyOperatorApproval: "closed" is its denied, "terminal" its expired and
\* already-terminal.
ForceDenyOperatorApproval(i, m, status, requireDue, repaired) ==
  LET r == row[i] IN
  IF ~Owned(r, m) THEN [outcome |-> "missing", row |-> r]
  ELSE IF Due(r, i)
    THEN LET x == Overwritten(r, "expired", repaired) IN
         [outcome |-> IF x.sound THEN "terminal" ELSE "corrupt", row |-> x]
  ELSE IF ~r.sound THEN [outcome |-> "corrupt", row |-> DenyCorruptPendingRow(r, repaired)]
  ELSE IF Terminal(r) THEN [outcome |-> "terminal", row |-> r]
  ELSE IF requireDue THEN [outcome |-> "not-due", row |-> r]
  ELSE [outcome |-> "closed", row |-> Closed(r, status)]

\* insertOperatorApproval prunes first.  A taken id is a conflict, and the transaction
\* still closes the row it cannot decode.
InsertOperatorApproval(i, m, repaired) ==
  LET pruned == [j \in Id |-> Pruned(row[j])]
      taken == pruned[i]
  IN
  IF taken.status = "absent"
  THEN [outcome |-> "inserted",
        rows |-> [pruned EXCEPT ![i] = [AbsentRow EXCEPT !.status = "pending", !.owner = m]]]
  ELSE [outcome |-> "conflict",
        rows |-> [pruned EXCEPT ![i] = IF taken.sound THEN taken
                                       ELSE DenyCorruptPendingRow(taken, repaired)]]

\* consumeOperatorApprovalAllowOnce finds a decision it may consume.
Consumable(r, m) ==
  Owned(r, m) /\ r.sound /\ r.status = "allowed" /\ r.decision = "allow-once"

\* expireDueOperatorApprovals
ExpiredIfDue(r, i, repaired) == IF Due(r, i) THEN Overwritten(r, "expired", repaired) ELSE r

\* getOperatorApprovalDetailed
GetOperatorApprovalDetailed(i, repaired) ==
  LET x == ExpiredIfDue(row[i], i, repaired) IN
  IF x.status = "absent" THEN [outcome |-> "missing", row |-> x]
  ELSE IF ~x.sound THEN [outcome |-> "corrupt", row |-> DenyCorruptPendingRow(x, repaired)]
  ELSE [outcome |-> "found", row |-> x]

-----------------------------------------------------------------------------
(* Settling the live entry e of manager m *)

SettlesAgain(e, decision, corrupt, lifetime, over) == \* mutant: a settled entry is settled again
  IF e.state = "none" THEN e
  ELSE [e EXCEPT !.state = "settled", !.decision = decision, !.corrupt = corrupt,
                 !.lifetime = lifetime, !.timer = FALSE]

\* settleLocalEntry.  over says that resolvedAtMs, taken from the row, is already past
\* the grace period.
SettleLocalEntry(e, decision, corrupt, lifetime, over) ==
  IF e.state # "waiting" THEN e
  ELSE [e EXCEPT !.state = "settled", !.decision = decision, !.corrupt = corrupt,
                 !.lifetime = lifetime, !.timer = FALSE,
                 !.cleanup = ~lifetime /\ e.retain = 0,
                 !.graceOver = over /\ e.retain = 0]

\* settleLocalStorageFailure
SettleLocalStorageFailure(e) == SettleLocalEntry(e, "deny", TRUE, TRUE, FALSE)

\* The decision the waiter gets for a terminal row: localDecision, or that of the row
\* if an operator gave it.
LocalDecision(r, local) ==
  IF local = "row" /\ r.status \in {"allowed", "denied"} THEN r.decision ELSE "none"

\* settleLocalFromStore
SettleLocalFromStore(e, m, r, local, over) ==
  IF r.owner = m /\ Terminal(r)
  THEN SettleLocalEntry(e, LocalDecision(r, local), r.corrupt, FALSE, over)
  ELSE e

\* The instants a verdict just written, or one found, may carry.
GraceMayBeOver(r) == IF Terminal(r) THEN (IF r.old THEN {TRUE} ELSE BOOLEAN) ELSE {FALSE}

SetRow(i, r) == row' = [row EXCEPT ![i] = r]
SetEntry(m, i, e) == entry' = [entry EXCEPT ![m][i] = e]

LeavesTimerFired(e) == [e EXCEPT !.timer = FALSE] \* mutant: an early timer is not armed again

\* expireDue arms the timer again when the store says that the deadline is not reached:
\* the clock was set back, or the deadline lies beyond the longest timer.
ScheduleExpiryTimer(e) == [e EXCEPT !.timer = TRUE]

\* The end of resolveDetailed and forceDenyDetailed, given the answer of the store.
Apply(m, i, answer, local, over) ==
  LET e == entry[m][i] IN
  /\ SetRow(i, answer.row)
  /\ SetEntry(m, i,
       IF answer.outcome \in {"missing", "corrupt"} THEN SettleLocalStorageFailure(e)
       ELSE IF answer.outcome = "terminal" THEN SettleLocalFromStore(e, m, answer.row, "row", over)
       ELSE IF answer.outcome = "closed" THEN SettleLocalFromStore(e, m, answer.row, local, over)
       ELSE ScheduleExpiryTimer(e))

\* The transaction threw.
StorageThrows(m, i) ==
  /\ SetEntry(m, i, SettleLocalStorageFailure(entry[m][i]))
  /\ UNCHANGED row

\* persistStorageCorruptDeny: only the row is written; nothing, if it throws.
PersistStorageCorruptDeny(m, i) ==
  /\ \E repaired \in BOOLEAN :
       LET answer == ForceDenyOperatorApproval(i, m, "denied", FALSE, repaired) IN
       SetRow(i, [answer.row EXCEPT !.corrupt = @ \/ answer.outcome = "closed"])
  /\ UNCHANGED entry

-----------------------------------------------------------------------------
(* The manager *)

\* register: a new id gets a row and a waiter, a taken one an error.
Register(m, i) ==
  /\ Live(m)
  /\ entry[m][i].state = "none"
  /\ \E repaired \in BOOLEAN :
       LET answer == InsertOperatorApproval(i, m, repaired) IN
       /\ row' = answer.rows
       /\ IF answer.outcome = "inserted"
          THEN /\ SetEntry(m, i, [NoEntry EXCEPT !.state = "waiting", !.timer = TRUE])
               /\ due' = [due EXCEPT ![m][i] = FALSE]
               /\ grants' = [grants EXCEPT ![m][i] = 0]
          ELSE UNCHANGED <<entry, due, grants>>
  /\ UNCHANGED <<epoch, alive>>

ForgetsFailure(m, i) == FALSE \* mutant: a failed entry can still be allowed

\* A waiter was denied because storage failed: nothing but a deny may follow.
FailedClosed(m, i) == entry[m][i].corrupt

\* resolveDetailed, also for resolve and resolveAutoReview.  A decision that the request
\* does not offer changes nothing.
ResolveDetailed(m, i, d) ==
  /\ Live(m)
  /\ IF FailedClosed(m, i)
     THEN PersistStorageCorruptDeny(m, i)
     ELSE /\ d # "deny" => entry[m][i].state # "none"
          /\ \/ \E repaired \in BOOLEAN, over \in GraceMayBeOver(row[i]) :
                  Apply(m, i, ResolveOperatorApproval(i, m, d, repaired), "row", over)
             \/ StorageThrows(m, i)
  /\ UNCHANGED <<due, epoch, alive, grants>>

\* forceDenyDetailed
ForceDenyDetailed(m, i, status, local, requireDue) ==
  IF FailedClosed(m, i)
  THEN PersistStorageCorruptDeny(m, i)
  ELSE \/ \E repaired \in BOOLEAN, over \in GraceMayBeOver(row[i]) :
            Apply(m, i, ForceDenyOperatorApproval(i, m, status, requireDue, repaired), local, over)
       \/ StorageThrows(m, i)

\* Its callers: expire for a request without a route, whose waiter gets null while the
\* row is denied; expire for a session or worker that is gone; the cancellation of an
\* aborted run; a malformed verdict.
ForceDeny(m, i) ==
  /\ Live(m)
  /\ \E call \in {<<"denied", "null">>, <<"expired", "row">>, <<"cancelled", "row">>,
                  <<"denied", "row">>} :
       /\ call[1] = "cancelled" => entry[m][i].state = "waiting"
       /\ ForceDenyDetailed(m, i, call[1], call[2], FALSE)
  /\ UNCHANGED <<due, epoch, alive, grants>>

\* The expiry timer: expireDue.
ExpiryTimerFires(m, i) ==
  /\ Live(m)
  /\ entry[m][i].timer
  /\ ForceDenyDetailed(m, i, "expired", "row", TRUE)
  /\ UNCHANGED <<due, epoch, alive, grants>>

\* The removal of an entry whose grace is over: getSnapshot, retainForHandoff and the
\* cleanup timer.
Forgettable(e) ==
  /\ e.state = "settled"
  /\ e.graceOver
  /\ ~e.lifetime

\* getSnapshot and listPendingRecords
GetSnapshot(m, i) ==
  /\ Live(m)
  /\ \/ /\ Forgettable(entry[m][i])
        /\ ~entry[m][i].corrupt
        /\ SetEntry(m, i, NoEntry)
        /\ UNCHANGED row
     \/ /\ entry[m][i].state = "waiting"
        /\ due[m][i]
        /\ ForceDenyDetailed(m, i, "expired", "row", TRUE)
  /\ UNCHANGED <<due, epoch, alive, grants>>

\* The cleanup timer finds its entry unheld.
Sweepable(e) == e.cleanup /\ e.graceOver /\ e.retain = 0 /\ ~e.lifetime

CleanupTimerFires(m, i) ==
  /\ Live(m)
  /\ Sweepable(entry[m][i])
  /\ SetEntry(m, i, NoEntry)
  /\ UNCHANGED <<row, due, epoch, alive, grants>>

Retained(e) == [e EXCEPT !.retain = @ + 1, !.cleanup = FALSE, !.graceOver = FALSE]

\* retainForHandoff
RetainForHandoff(m, i) ==
  /\ Live(m)
  /\ entry[m][i].state # "none"
  /\ entry[m][i].retain < MaxRetain
  /\ SetEntry(m, i, IF Forgettable(entry[m][i]) THEN NoEntry ELSE Retained(entry[m][i]))
  /\ UNCHANGED <<row, due, epoch, alive, grants>>

\* The release of a handoff: the last one starts a new grace period.
ReleaseHandoff(m, i) ==
  LET e == entry[m][i] IN
  /\ Live(m)
  /\ e.retain > 0
  /\ SetEntry(m, i, [e EXCEPT !.retain = @ - 1,
                              !.cleanup = e.retain = 1 /\ e.state = "settled" /\ ~e.lifetime])
  /\ UNCHANGED <<row, due, epoch, alive, grants>>

\* What consumeAllowOnce and consumeOperatorApprovalAllowOnce check before they consume.
Unspent(m, i) ==
  /\ ~entry[m][i].consumed
  /\ ~row[i].consumed

\* consumeAllowOnce, for a system.run that replays the id or a plugin policy of a node.
ConsumeAllowOnce(m, i) ==
  LET e == entry[m][i]
      r == row[i]
  IN
  /\ Live(m)
  /\ e.state = "settled" /\ ~e.graceOver
  /\ e.decision = "allow-once"
  /\ Consumable(r, m)
  /\ Unspent(m, i)
  /\ SetRow(i, [r EXCEPT !.consumed = TRUE])
  /\ SetEntry(m, i, [e EXCEPT !.consumed = TRUE])
  /\ grants' = [grants EXCEPT ![m][i] = @ + 1]
  /\ UNCHANGED <<due, epoch, alive>>

\* consumeAskFallback: once for a request that nobody decided.  The caller's window of
\* one grace period after resolvedAtMs is left open.
ConsumeAskFallback(m, i) ==
  LET e == entry[m][i] IN
  /\ Live(m)
  /\ e.state = "settled" /\ e.decision = "none" /\ ~e.consumed /\ ~e.fallback
  /\ SetEntry(m, i, [e EXCEPT !.fallback = TRUE])
  /\ grants' = [grants EXCEPT ![m][i] = @ + 1]
  /\ UNCHANGED <<row, due, epoch, alive>>

-----------------------------------------------------------------------------
(* Readers of durable state *)

\* approval.get and approval.resolve, in a gateway of epoch g.  A row that is found goes
\* to reconcileDurableLookup of the manager of its kind; one that is missing or cannot be
\* read fails the waiters of every kind.
ReconcileFound(m, i, r, over) ==
  IF r.status = "pending" /\ r.owner = m /\ entry[m][i].corrupt
  THEN PersistStorageCorruptDeny(m, i) \/ UNCHANGED <<row, entry>>
  ELSE /\ SetRow(i, r)
       /\ SetEntry(m, i, SettleLocalFromStore(entry[m][i], m, r, "row", over))

ReconcileUnread(g, i) ==
  entry' = [m \in Manager |->
             IF m[1] = g
             THEN [entry[m] EXCEPT ![i] = SettleLocalStorageFailure(@)]
             ELSE entry[m]]

LookupApproval(g, i) ==
  /\ g \in alive
  /\ \/ \E repaired \in BOOLEAN, over \in GraceMayBeOver(row[i]) :
          LET answer == GetOperatorApprovalDetailed(i, repaired) IN
          IF answer.outcome = "found"
          THEN ReconcileFound(<<g, row[i].owner[2]>>, i, answer.row, over)
          ELSE SetRow(i, answer.row) /\ ReconcileUnread(g, i)
     \/ ReconcileUnread(g, i) /\ UNCHANGED row
  /\ UNCHANGED <<due, epoch, alive, grants>>

\* The replay of a session's approvals: every due row expires and its waiter in this
\* gateway is settled if the row can be decoded, then the pending rows scanned are closed
\* if they cannot.
Replay(g) ==
  LET Expiring == {i \in Id : Due(row[i], i)}
      Broken == {i \in Id : row[i].status = "pending" /\ ~row[i].sound} \ Expiring
  IN
  /\ g \in alive
  /\ \E scanned \in SUBSET Broken, repaired \in SUBSET Id :
       row' = [i \in Id |-> IF i \in scanned THEN DenyCorruptPendingRow(row[i], i \in repaired)
                            ELSE ExpiredIfDue(row[i], i, i \in repaired)]
  /\ entry' = [m \in Manager |-> [i \in Id |->
                IF m[1] = g /\ i \in Expiring /\ row'[i].sound
                THEN SettleLocalFromStore(entry[m][i], m, row'[i], "row", FALSE)
                ELSE entry[m][i]]]
  /\ UNCHANGED <<due, epoch, alive, grants>>

-----------------------------------------------------------------------------
(* Restarts and the passage of time *)

LeavesOrphans(r, repaired) == r \* mutant: rows of earlier lifetimes stay pending

\* closeOrphanedOperatorApprovals, for a new epoch
OrphanClosed(r, repaired) ==
  IF r.status = "pending" THEN Overwritten(r, "cancelled", repaired) ELSE r

\* createGatewayAuxHandlers of the next gateway, in this process or after a crash.
StartGateway(crash) ==
  /\ epoch < MaxEpoch
  /\ epoch' = epoch + 1
  /\ alive' = IF crash THEN {epoch + 1} ELSE alive \cup {epoch + 1}
  /\ \E repaired \in SUBSET Id :
       row' = [i \in Id |-> Pruned(OrphanClosed(row[i], i \in repaired))]
  /\ entry' = [m \in Manager |-> IF m[1] \in alive' THEN entry[m] ELSE [i \in Id |-> NoEntry]]
  /\ UNCHANGED <<due, grants>>

DeadlinePasses(m, i) ==
  /\ entry[m][i].state # "none"
  /\ ~due[m][i]
  /\ due' = [due EXCEPT ![m][i] = TRUE]
  /\ UNCHANGED <<row, entry, epoch, alive, grants>>

HandoffsIgnored(e) == e.state = "settled" \* mutant: the grace period runs on during a handoff

\* resolvedGraceAnchorMs: while a handoff holds the entry its grace starts anew.
GraceRuns(e) == e.state = "settled" /\ e.retain = 0

GraceElapses(m, i) ==
  /\ GraceRuns(entry[m][i]) /\ ~entry[m][i].lifetime /\ ~entry[m][i].graceOver
  /\ SetEntry(m, i, [entry[m][i] EXCEPT !.graceOver = TRUE])
  /\ UNCHANGED <<row, due, epoch, alive, grants>>

RetentionElapses(i) ==
  /\ Terminal(row[i]) /\ ~row[i].old
  /\ SetRow(i, [row[i] EXCEPT !.old = TRUE])
  /\ UNCHANGED <<entry, due, epoch, alive, grants>>

\* The file is damaged: a row can no longer be decoded.
RowBreaks(i) ==
  /\ row[i].status # "absent" /\ row[i].sound
  /\ SetRow(i, [row[i] EXCEPT !.sound = FALSE])
  /\ UNCHANGED <<entry, due, epoch, alive, grants>>

Next ==
  \/ \E m \in Manager, i \in Id :
       \/ Register(m, i)
       \/ \E d \in Decision : ResolveDetailed(m, i, d)
       \/ ForceDeny(m, i)
       \/ ExpiryTimerFires(m, i)
       \/ GetSnapshot(m, i)
       \/ CleanupTimerFires(m, i)
       \/ RetainForHandoff(m, i)
       \/ ReleaseHandoff(m, i)
       \/ ConsumeAllowOnce(m, i)
       \/ ConsumeAskFallback(m, i)
       \/ DeadlinePasses(m, i)
       \/ GraceElapses(m, i)
  \/ \E g \in Epoch : Replay(g) \/ \E i \in Id : LookupApproval(g, i)
  \/ \E i \in Id : RetentionElapses(i) \/ RowBreaks(i)
  \/ \E crash \in BOOLEAN : StartGateway(crash)

Spec == Init /\ [][Next]_vars

\* Deadlines come and timers fire; nothing else is needed to release a waiter.
Fairness ==
  \A m \in Manager, i \in Id :
    WF_vars(DeadlinePasses(m, i)) /\ WF_vars(ExpiryTimerFires(m, i))

FairSpec == Spec /\ Fairness

-----------------------------------------------------------------------------
(* Properties *)

\* Every variable keeps its type, and the managers of the present gateway exist.
TypeOK ==
  /\ row \in [Id -> RowType]
  /\ entry \in [Manager -> [Id -> EntryType]]
  /\ due \in [Manager -> [Id -> BOOLEAN]]
  /\ epoch \in Epoch /\ alive \subseteq Epoch /\ epoch \in alive
  /\ grants \in [Manager -> [Id -> Nat]]

\* A prompt that reviewers still see as pending belongs to a manager that exists and
\* still holds its entry: a waiter, or an entry kept because storage failed, which will
\* deny the row on the next touch (register, settleLocalStorageFailure,
\* closeOrphanedOperatorApprovals).
PendingRowOwned ==
  \A i \in Id : row[i].status = "pending" =>
    /\ row[i].owner \in Manager
    /\ Live(row[i].owner)
    /\ LET e == entry[row[i].owner][i] IN e.state = "waiting" \/ e.lifetime

\* An entry that holds an allow decision is backed by the durable row: the row of this
\* manager says the same, unless its retention is over and it was pruned
\* (settleLocalFromStore is the only way to an allow).
AllowIsDurable ==
  \A m \in Manager, i \in Id :
    /\ entry[m][i].decision \in {"allow-once", "allow-always"}
    /\ Owned(row[i], m)
    => row[i].status = "allowed" /\ row[i].decision = entry[m][i].decision

\* The converse: while the row says allowed, its manager has no waiter left and no entry
\* that answered otherwise; above all none that was denied for a storage failure.
AllowReachedWaiter ==
  \A i \in Id : row[i].status = "allowed" /\ Live(row[i].owner) =>
    LET e == entry[row[i].owner][i] IN
    e.state = "none" \/ (e.state = "settled" /\ e.decision = row[i].decision)

\* A waiter always has its expiry timer, whatever the timer met when it fired before
\* (scheduleExpiryTimer).
WaiterHasTimer ==
  \A m \in Manager, i \in Id : entry[m][i].state = "waiting" => entry[m][i].timer

\* However often an id is replayed, retained or registered again, one request gives out
\* one permission: allow-once is consumed once, the ask fallback is used once, never both
\* (consumeAllowOnce, consumeAskFallback).
GrantedOnce == \A m \in Manager, i \in Id : grants[m][i] <= 1

\* No request is left hanging on either side: a pending prompt has a living entry behind it,
\* and a waiting entry has the timer that will end it, through restarts, storage errors and
\* timers that fire early (closeOrphanedOperatorApprovals, scheduleExpiryTimer).
WaitersGuarded == PendingRowOwned /\ WaiterHasTimer

\* Permission is what the store says it is: given to a waiter exactly if the row is allowed,
\* and used at most once, however decision, expiry, storage error and restart interleave
\* (settleLocalFromStore, settleLocalStorageFailure, consumeAllowOnce).
AllowSound == AllowIsDurable /\ AllowReachedWaiter /\ GrantedOnce

\* An entry that a handoff retains is not forgotten while its manager exists: the
\* delivery that outlives the grace period still finds the binding (retainForHandoff).
HandoffKeepsBinding ==
  [][\A m \in Manager, i \in Id :
       entry[m][i].retain > 0 /\ m[1] \in alive' => entry'[m][i].state # "none"]_vars

\* Every waiter is released in the end, also one of a gateway that was restarted in
\* process and whose row was cancelled under it.
WaitersReleased ==
  \A m \in Manager, i \in Id : entry[m][i].state = "waiting" ~> entry[m][i].state # "waiting"

-----------------------------------------------------------------------------
(* The contract it implements *)

VerdictOf(r) ==
  IF r.status = "absent" THEN "none"
  ELSE IF r.status = "pending" THEN "open"
  ELSE r.decision

AnswerOf(e) ==
  IF e.state = "settled" THEN (IF e.decision = "none" THEN "unanswered" ELSE e.decision)
  ELSE e.state

Contract == INSTANCE ApprovalContract WITH
  verdict <- [i \in Id |-> VerdictOf(row[i])],
  raisedBy <- [i \in Id |-> row[i].owner],
  spent <- [i \in Id |-> row[i].consumed],
  answer <- [m \in Manager |-> [i \in Id |-> AnswerOf(entry[m][i])]]

\* The managers and the store together implement the contract of an approval.
ImplementsContract == Contract!Spec
=============================================================================
