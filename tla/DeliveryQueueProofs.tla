-------------------------- MODULE DeliveryQueueProofs --------------------------
(***************************************************************************)
(* Machine-checked proofs about DeliveryQueue, for every set of processes, *)
(* claim ids and stamps, any kinds of delivery and any bounds.  What the   *)
(* row says about the past is proved for deliveries that are fenced by     *)
(* producer claims, in any number of processes, and for every kind of      *)
(* delivery in one process (Guarded): rows without claims are meant for    *)
(* one process at a time.                                                  *)
(***************************************************************************)
EXTENDS DeliveryQueue, TLAPS

Guarded == Fenced \/ \A p, q \in Process : p = q

\* Only fenced deliveries have claims.
ClaimsFenced ==
  ~Fenced =>
    /\ row.producerClaimId = Nil /\ row.platformSendAttemptId = Nil /\ row.lease = "none"
    /\ \A p \in Process : /\ sender[p].claim = Nil
                          /\ sender[p].seen.producerClaimId = Nil
                          /\ sender[p].seen.platformSendAttemptId = Nil

\* A row has one owner at most, and what it says of it fits its recovery state.
RowSound ==
  /\ row.status = "absent" => row = AbsentRow
  /\ row.producerClaimId # Nil =>
       row.platformSendAttemptId = Nil /\ row.recoveryState = "producer_claimed"
  /\ row.platformSendAttemptId # Nil => NeedsReconciliation(row)
  /\ row.lease = "live" => row.recoveryState \in {"producer_claimed", "send_attempt_started"}

\* Claims are told apart, and recovery has seen an attempt only when its lease had ended.
ClaimsApart ==
  /\ \A p, q \in Process : sender[p].claim = sender[q].claim => p = q \/ sender[p].claim = Nil
  /\ \A p \in Process :
       LET id == sender[p].seen.platformSendAttemptId
       IN  id # Nil => /\ id # row.producerClaimId
                       /\ id = row.platformSendAttemptId => row.lease # "live"

Early == {"custody", "reserve", "spent", "start"}
Claimant == {"custody", "reserve", "spent", "start", "dispatch", "sending", "settle"}
Unsent == {"custody", "fence", "reserve", "spent", "start", "dispatch"}

\* What a sender knows fits where it is.
SenderSound(s) ==
  /\ s.at = "idle" => s = Idle
  /\ s.at # "idle" => s.role # "none"
  /\ Fenced => (s.claim # Nil <=> s.at \in Claimant)
  /\ s.at \in {"claim", "reclaim", "custody"} => Fenced
  /\ s.proved => s.at = "fence" /\ Reconciles
  /\ s.at \notin {"sending", "settle"} => ~s.got /\ ~s.accepted
  /\ s.at = "settle" => s.end # "none"
  /\ s.role = "recovery" => s.end # "abort" /\ (s.post # "none" => s.got)
  /\ s.end = "results" => s.got
  /\ s.got => s.accepted
  /\ Fenced => s.pre # "acked" /\ s.post # "acked"
  /\ Fenced /\ s.at \in {"dispatch", "sending"} => s.pre = "marked"

SendersSound == \A p \in Process : SenderSound(sender[p])

\* An accepted call was seen.
AcceptedSeen == \A p \in Process : sender[p].accepted => visible > 0

\* A claim that has not reached the platform is not an attempt.
NotYetAttempts ==
  \A p \in Process :
    Fenced /\ sender[p].at \in Early =>
      row.platformSendAttemptId # sender[p].claim

\* Before the first submission nothing has happened; without claims nothing is submitted twice.
Submissions ==
  /\ submits = 0 => /\ row = AbsentRow /\ unproved = {}
                    /\ \A p \in Process : sender[p] = Idle /\ intent[p] = "none"
  /\ ~Fenced => \A p \in Process :
       /\ intent[p] # "existing"
       /\ Kind = "receipt" => intent[p] = "none"
       /\ sender[p].at # "idle" /\ Kind = "receipt" => row.status # "absent"

Shape ==
  /\ TypeOK /\ ClaimsFenced /\ RowSound /\ ClaimsApart /\ SendersSound /\ AcceptedSeen
  /\ NotYetAttempts /\ Submissions

\* p may write to the row by its claim; without claims everybody may.
Entitled(p) ==
  Fenced => /\ sender[p].claim # Nil /\ Pending
            /\ sender[p].claim \in {row.producerClaimId, row.platformSendAttemptId}

\* Where nothing has been sent yet by one who may write, nothing that was sent is unproved,
\* and where something has been, it is his own call.
OwnCallOnly ==
  \A p \in Process : Entitled(p) =>
    /\ sender[p].at \in Unsent => unproved = {}
    /\ sender[p].at \in {"sending", "settle"} => unproved \subseteq {p}
    /\ /\ sender[p].at = "settle"
       /\ \/ ~sender[p].got /\ sender[p].end \in {"not_sent", "rejected"}
          \/ Fenced /\ sender[p].pre # "marked"
       => unproved = {}

\* A proof that nothing was sent holds as long as the row shows the attempt it is about.
ProofHolds ==
  \A p \in Process :
    /\ sender[p].proved /\ Pending /\ row.recoveryState = "send_attempt_started"
    /\ row.platformSendStartedAt = sender[p].seen.platformSendStartedAt
    /\ row.platformSendAttemptId = sender[p].seen.platformSendAttemptId
    /\ row.platformSendAttemptId # Nil
    => unproved = {}

\* Who is about to call the provider has left the evidence of it in the row.
EvidenceFirst ==
  \A p \in Process :
    /\ sender[p].at = "dispatch" =>
         /\ Fenced /\ Entitled(p) => row.recoveryState = "send_attempt_started"
         /\ Fenced /\ ~Reconciles => Entitled(p)
         /\ ~Fenced /\ ~Exact => \/ sender[p].pre = "marked" /\ (Pending => NeedsReconciliation(row))
                                 \/ sender[p].pre = "acked" /\ ~Pending
    /\ Exact => sender[p].pre # "acked"

\* An intent that is submitted without claims is sent by its producer before it hears of any
\* other send.
FirstSend ==
  ~Fenced => \A p \in Process :
    intent[p] = "created" /\ sender[p].at # "sending" => unproved = {}

Evidence ==
  /\ OwnCallOnly /\ ProofHolds /\ EvidenceFirst /\ FirstSend
  /\ EvidenceSurvives /\ ReceiptMeansDelivered
  /\ row.status = "absent" /\ Kind # "ordinary" => unproved = {}

\* In one process a call that was accepted stays unproved, and there is one of them.
OneCall ==
  /\ visible <= 1
  /\ visible > 0 => unproved # {}
  /\ \A p \in Process : sender[p].at = "sending" =>
       unproved = {p} /\ (~sender[p].accepted => visible = 0)

-----------------------------------------------------------------------------
(* Rows *)

\* r is the row, or a row that nobody has claimed since: claims end, leases end, sends are
\* recorded.
Lessens(r) ==
  \/ r = row
  \/ /\ r \in RowType /\ row.status # "absent"
     /\ r.status = "absent" => r = AbsentRow /\ Kind # "receipt"
     /\ r.status = "pending" => row.status = "pending"
     /\ r.producerClaimId \in {row.producerClaimId, Nil}
     /\ r.platformSendAttemptId \in {row.platformSendAttemptId, Nil}
     /\ r.producerClaimId # Nil => r.recoveryState = row.recoveryState
     /\ r.platformSendAttemptId # Nil => NeedsReconciliation(r)
     /\ r.lease \in {row.lease, "none"} \/ (row.lease = "live" /\ r.lease = "expired")
     /\ r.lease = "live" => r.recoveryState \in {"producer_claimed", "send_attempt_started"}

\* Counting stays within the budget.
LEMMA BumpedType ==
  ASSUME NEW n \in 0 .. MaxRetries
  PROVE  Bumped(n) \in 0 .. MaxRetries
  BY BoundAssumption DEF Bumped

\* The empty row and the row of a receipt.
LEMMA EmptyRows ==
  /\ AbsentRow \in RowType /\ AbsentRow.status = "absent" /\ AbsentRow.recoveryState = "none"
  /\ AbsentRow.producerClaimId = Nil /\ AbsentRow.platformSendAttemptId = Nil
  /\ AbsentRow.platformSendStartedAt = Nil /\ AbsentRow.lease = "none"
  /\ \A st \in {"pending", "completed"} :
       LET r == [AbsentRow EXCEPT !.status = st]
       IN  /\ r \in RowType /\ r.status = st /\ r.recoveryState = "none"
           /\ r.producerClaimId = Nil /\ r.platformSendAttemptId = Nil
           /\ r.platformSendStartedAt = Nil /\ r.lease = "none"
<1>1. /\ AbsentRow \in RowType /\ AbsentRow.status = "absent" /\ AbsentRow.recoveryState = "none"
      /\ AbsentRow.producerClaimId = Nil /\ AbsentRow.platformSendAttemptId = Nil
      /\ AbsentRow.platformSendStartedAt = Nil /\ AbsentRow.lease = "none"
  <2>1. 0 \in 0 .. MaxRetries
    BY BoundAssumption
  <2> QED BY <2>1 DEF AbsentRow, RowType
<1>2. ASSUME NEW st \in {"pending", "completed"}
      PROVE  LET r == [AbsentRow EXCEPT !.status = st]
             IN  /\ r \in RowType /\ r.status = st /\ r.recoveryState = "none"
                 /\ r.producerClaimId = Nil /\ r.platformSendAttemptId = Nil
                 /\ r.platformSendStartedAt = Nil /\ r.lease = "none"
  BY <1>1 DEF RowType
<1> QED BY <1>1, <1>2

\* A failed attempt is counted.
LEMMA FailDeliveryRow ==
  ASSUME Shape, Pending
  PROVE  LET r == FailDelivery
         IN  /\ Lessens(r) /\ r \in RowType /\ r.status = "pending"
             /\ r.recoveryState = row.recoveryState
             /\ r.platformSendStartedAt = row.platformSendStartedAt
             /\ r.platformSendAttemptId = row.platformSendAttemptId
             /\ r.producerClaimId = row.producerClaimId
<1>0. row \in RowType /\ RowSound
  BY DEF Shape, TypeOK
<1>1. PICK k \in 0 .. MaxRetries : k = Bumped(row.retryCount)
  BY <1>0, BumpedType DEF RowType
<1> DEFINE r == FailDelivery
<1>2. r = [row EXCEPT !.retryCount = k]
  BY <1>1 DEF FailDelivery
<1> HIDE DEF r
<1>3. /\ r \in RowType /\ r.status = row.status /\ r.recoveryState = row.recoveryState
      /\ r.platformSendStartedAt = row.platformSendStartedAt
      /\ r.platformSendAttemptId = row.platformSendAttemptId
      /\ r.producerClaimId = row.producerClaimId /\ r.lease = row.lease
  BY <1>0, <1>2 DEF RowType
<1>4. Lessens(r)
  BY <1>0, <1>3 DEF Lessens, RowSound, Pending, NeedsReconciliation
<1> QED BY <1>3, <1>4 DEF r, Pending

\* A failure that proves that nothing was sent leaves no evidence of it.
LEMMA FailBeforeRow ==
  ASSUME Shape, Pending
  PROVE  LET r == FailBeforePlatformSend
         IN  /\ Lessens(r) /\ r \in RowType /\ r.status = "pending"
             /\ r.recoveryState = "none" /\ r.platformSendAttemptId = Nil
<1>0. row \in RowType
  BY DEF Shape, TypeOK
<1>1. PICK k \in 0 .. MaxRetries : k = Bumped(row.retryCount)
  BY <1>0, BumpedType DEF RowType
<1> DEFINE r == FailBeforePlatformSend
<1>2. r = [row EXCEPT !.retryCount = k, !.lease = "none", !.producerClaimId = Nil,
              !.platformSendAttemptId = Nil, !.platformSendStartedAt = Nil,
              !.recoveryState = "none"]
  BY <1>1 DEF FailBeforePlatformSend
<1> HIDE DEF r
<1>3. /\ r \in RowType /\ r.status = row.status /\ r.recoveryState = "none"
      /\ r.platformSendAttemptId = Nil /\ r.producerClaimId = Nil /\ r.lease = "none"
  BY <1>0, <1>2 DEF RowType
<1>4. Lessens(r)
  BY <1>3 DEF Lessens, Pending
<1> QED BY <1>3, <1>4 DEF r, Pending

\* A send whose outcome is unknown is recorded as such.
LEMMA UnknownRow ==
  ASSUME Shape, Pending, NEW now \in Stamp, NEW r \in {OutcomeUnknown(now), FailAfterPlatformSend(now)}
  PROVE  /\ Lessens(r) /\ r \in RowType /\ r.status = "pending"
         /\ r.recoveryState = "unknown_after_send"
<1>0. row \in RowType
  BY DEF Shape, TypeOK
<1>1. PICK k \in 0 .. MaxRetries : k = Bumped(row.retryCount)
  BY <1>0, BumpedType DEF RowType
<1>2. PICK st \in Stamp \cup {Nil} : st = StampOr(now)
  BY <1>0 DEF StampOr, RowType
<1> DEFINE u == [row EXCEPT !.lease = "none", !.producerClaimId = Nil,
              !.platformSendStartedAt = st, !.recoveryState = "unknown_after_send"]
<1>3. /\ u \in RowType /\ u.status = row.status /\ u.recoveryState = "unknown_after_send"
      /\ u.platformSendAttemptId = row.platformSendAttemptId
      /\ u.producerClaimId = Nil /\ u.lease = "none" /\ u.retryCount = row.retryCount
  BY <1>0 DEF RowType
<1>4. OutcomeUnknown(now) = u
  BY <1>2 DEF OutcomeUnknown
<1> HIDE DEF u
<1>5. FailAfterPlatformSend(now) = [u EXCEPT !.retryCount = k]
  BY <1>1, <1>3, <1>4 DEF FailAfterPlatformSend
<1>6. /\ r \in RowType /\ r.status = row.status /\ r.recoveryState = "unknown_after_send"
      /\ r.platformSendAttemptId = row.platformSendAttemptId
      /\ r.producerClaimId = Nil /\ r.lease = "none"
  BY <1>3, <1>4, <1>5 DEF RowType
<1>7. Lessens(r)
  BY <1>6 DEF Lessens, Pending, NeedsReconciliation
<1> QED BY <1>6, <1>7 DEF Pending

\* A dead letter.
LEMMA MovedRow ==
  ASSUME Shape, Pending
  PROVE  LET r == MovedToFailed IN Lessens(r) /\ r \in RowType /\ r.status = "failed"
<1>0. row \in RowType /\ RowSound
  BY DEF Shape, TypeOK
<1> DEFINE r == MovedToFailed
<1>1. r = [row EXCEPT !.status = "failed"]
  BY DEF MovedToFailed
<1> HIDE DEF r
<1>2. /\ r \in RowType /\ r.status = "failed" /\ r.recoveryState = row.recoveryState
      /\ r.platformSendAttemptId = row.platformSendAttemptId
      /\ r.producerClaimId = row.producerClaimId /\ r.lease = row.lease
  BY <1>0, <1>1 DEF RowType
<1>3. Lessens(r)
  BY <1>0, <1>2 DEF Lessens, RowSound, Pending, NeedsReconciliation
<1> QED BY <1>2, <1>3 DEF r

Receipt == [AbsentRow EXCEPT !.status = "completed"]

\* What an acknowledgement leaves of a pending row.
LEMMA ReceiptRow ==
  ASSUME Pending
  PROVE  /\ Lessens(Receipt) /\ Receipt \in RowType /\ Receipt.status = "completed"
         /\ Kind # "receipt" => Lessens(AbsentRow)
<1> DEFINE r == Receipt
<1>1. /\ r \in RowType /\ r.status = "completed" /\ r.recoveryState = "none"
      /\ r.producerClaimId = Nil /\ r.platformSendAttemptId = Nil
      /\ r.platformSendStartedAt = Nil /\ r.lease = "none"
  BY EmptyRows DEF Receipt
<1> HIDE DEF r
<1>2. Lessens(r)
  BY <1>1 DEF Lessens, Pending
<1>3. Kind # "receipt" => Lessens(AbsentRow)
  BY EmptyRows DEF Lessens, Pending
<1> QED BY <1>1, <1>2, <1>3 DEF r

\* The send is recorded before it is made.
LEMMA MarkedRow ==
  ASSUME Shape, Pending, NEW now \in Stamp, NEW claim \in Id \cup {Nil},
         NEW r \in {AttemptStarted(now), Dispatched(now, claim)},
         claim = Nil \/ Fenced
  PROVE  /\ Lessens(r) /\ r \in RowType /\ r.status = "pending"
         /\ r.recoveryState = "send_attempt_started" /\ r.producerClaimId = Nil
         /\ r.platformSendAttemptId = row.platformSendAttemptId
         /\ r = Dispatched(now, claim) => r.platformSendStartedAt = now
<1>0. row \in RowType
  BY DEF Shape, TypeOK
<1>1. PICK st \in Stamp \cup {Nil} : st = StampOr(now)
  BY <1>0 DEF StampOr, RowType
<1>2. PICK l \in {"none", "live", "expired"} : l = IF claim = Nil THEN "none" ELSE row.lease
  BY <1>0 DEF RowType
<1> DEFINE a == [row EXCEPT !.lease = "none", !.producerClaimId = Nil,
              !.platformSendStartedAt = st, !.recoveryState = "send_attempt_started"]
           b == [row EXCEPT !.lease = l, !.producerClaimId = Nil,
              !.platformSendStartedAt = now, !.recoveryState = "send_attempt_started"]
<1>3. AttemptStarted(now) = a /\ Dispatched(now, claim) = b
  BY <1>1, <1>2 DEF AttemptStarted, Dispatched
<1>4. \A x \in {a, b} :
      /\ x \in RowType /\ x.status = row.status /\ x.recoveryState = "send_attempt_started"
      /\ x.platformSendAttemptId = row.platformSendAttemptId
      /\ x.producerClaimId = Nil /\ x.lease \in {row.lease, "none"}
  <2>1. l \in {row.lease, "none"}
    BY <1>2
  <2> QED BY <1>0, <2>1 DEF RowType
<1>5. b.platformSendStartedAt = now
  BY <1>0 DEF RowType
<1> HIDE DEF a, b
<1>6. Lessens(r)
  BY <1>3, <1>4 DEF Lessens, Pending, NeedsReconciliation
<1> QED BY <1>3, <1>4, <1>5, <1>6 DEF Pending

\* An attempt is reserved.
LEMMA ReservedRow ==
  ASSUME Shape, Pending, ~Exhausted(row), NEW r, r = [row EXCEPT !.attemptCount = AttemptCount(row) + 1]
  PROVE  /\ Lessens(r) /\ r \in RowType /\ r.status = "pending"
         /\ r.recoveryState = row.recoveryState
         /\ r.platformSendStartedAt = row.platformSendStartedAt
         /\ r.platformSendAttemptId = row.platformSendAttemptId
         /\ r.producerClaimId = row.producerClaimId
<1>0. row \in RowType /\ RowSound
  BY DEF Shape, TypeOK
<1>1. PICK k \in 0 .. MaxRetries : k = AttemptCount(row) + 1
  <2>1. row.attemptCount \in 0 .. MaxRetries /\ row.retryCount \in 0 .. MaxRetries
    BY <1>0 DEF RowType
  <2> QED BY <2>1, BoundAssumption DEF Exhausted, AttemptCount
<1>2. r = [row EXCEPT !.attemptCount = k]
  BY <1>1
<1>3. /\ r \in RowType /\ r.status = row.status /\ r.recoveryState = row.recoveryState
      /\ r.platformSendStartedAt = row.platformSendStartedAt
      /\ r.platformSendAttemptId = row.platformSendAttemptId
      /\ r.producerClaimId = row.producerClaimId /\ r.lease = row.lease
  BY <1>0, <1>2 DEF RowType
<1>4. Lessens(r)
  BY <1>0, <1>3 DEF Lessens, RowSound, Pending, NeedsReconciliation
<1> QED BY <1>3, <1>4 DEF Pending

-----------------------------------------------------------------------------
(* Shape: steps that make no claim *)

\* A sender goes on with its claim, or without one.
Goes(s, t) ==
  /\ t \in SenderType /\ SenderSound(t)
  /\ t.claim \in {s.claim, Nil} /\ t.seen \in {s.seen, AbsentRow}
  /\ Fenced /\ t.at \in Early => s.at \in Early
  /\ s.at # "idle" \/ t = Idle

\* The other variables of a step that submits nothing.
Around ==
  /\ UNCHANGED <<delivery, submits>>
  /\ intent' \in [Process -> {"none", "created", "existing"}]
  /\ \A q \in Process : intent'[q] \in {intent[q], "none"}
  /\ crashes' \in 0 .. MaxCrashes /\ faults' \in 0 .. MaxFaults
  /\ visible' \in 0 .. 2
  /\ unproved' \subseteq Process
  /\ submits = 0 => unproved' = {}

\* Such a step keeps the shape.
LEMMA LessKeepsShape ==
  ASSUME Shape, Around, Lessens(row'),
         sender' = [q \in Process |-> sender'[q]],
         \A q \in Process : sender'[q] = sender[q] \/ Goes(sender[q], sender'[q]),
         \A q \in Process : sender'[q].accepted => visible' > 0
  PROVE  Shape'
<1>0. TypeOK /\ RowSound
  BY DEF Shape
<1>1. Fenced' = Fenced /\ Reconciles' = Reconciles /\ Kind' = Kind
  BY DEF Around, Fenced, Kind, Reconciles
<1>2. \A q \in Process :
        /\ sender'[q] \in SenderType /\ SenderSound(sender'[q])
        /\ sender'[q].claim \in {sender[q].claim, Nil}
        /\ sender'[q].seen \in {sender[q].seen, AbsentRow}
        /\ Fenced /\ sender'[q].at \in Early => sender[q].at \in Early
        /\ sender[q].at # "idle" \/ sender'[q] = Idle
  <2> SUFFICES ASSUME NEW q \in Process
               PROVE  /\ sender'[q] \in SenderType /\ SenderSound(sender'[q])
                      /\ sender'[q].claim \in {sender[q].claim, Nil}
                      /\ sender'[q].seen \in {sender[q].seen, AbsentRow}
                      /\ Fenced /\ sender'[q].at \in Early => sender[q].at \in Early
                      /\ sender[q].at # "idle" \/ sender'[q] = Idle
    OBVIOUS
  <2>1. sender[q] \in SenderType /\ SenderSound(sender[q])
    BY <1>0 DEF TypeOK, Shape, SendersSound
  <2>2. sender[q].at # "idle" \/ sender[q] = Idle
    BY <2>1 DEF SenderSound
  <2> QED BY <2>1, <2>2 DEF Goes
<1>3. row' \in RowType
  BY <1>0 DEF Lessens, TypeOK
<1>4. TypeOK'
  BY <1>0, <1>2, <1>3 DEF TypeOK, Around
<1>5. RowSound'
  BY <1>0 DEF Lessens, RowSound, NeedsReconciliation
<1>6. ClaimsFenced'
  <2> SUFFICES ASSUME ~Fenced
               PROVE  /\ row'.producerClaimId = Nil /\ row'.platformSendAttemptId = Nil
                      /\ row'.lease = "none"
                      /\ \A p \in Process : /\ sender'[p].claim = Nil
                                            /\ sender'[p].seen.producerClaimId = Nil
                                            /\ sender'[p].seen.platformSendAttemptId = Nil
    BY <1>1 DEF ClaimsFenced
  <2>1. /\ row.producerClaimId = Nil /\ row.platformSendAttemptId = Nil /\ row.lease = "none"
        /\ \A p \in Process : /\ sender[p].claim = Nil
                              /\ sender[p].seen.producerClaimId = Nil
                              /\ sender[p].seen.platformSendAttemptId = Nil
    BY DEF Shape, ClaimsFenced
  <2>2. row'.producerClaimId = Nil /\ row'.platformSendAttemptId = Nil /\ row'.lease = "none"
    BY <2>1 DEF Lessens
  <2> QED BY <1>2, <2>1, <2>2, EmptyRows
<1>7. ClaimsApart'
  <2>1. \A p, q \in Process : sender'[p].claim = sender'[q].claim => p = q \/ sender'[p].claim = Nil
    BY <1>2 DEF Shape, ClaimsApart
  <2>2. ASSUME NEW p \in Process, sender'[p].seen.platformSendAttemptId # Nil
        PROVE  /\ sender'[p].seen.platformSendAttemptId # row'.producerClaimId
               /\ sender'[p].seen.platformSendAttemptId = row'.platformSendAttemptId =>
                    row'.lease # "live"
    <3>1. sender'[p].seen = sender[p].seen
      BY <1>2, <2>2, EmptyRows
    <3>2. /\ sender[p].seen.platformSendAttemptId # row.producerClaimId
          /\ sender[p].seen.platformSendAttemptId = row.platformSendAttemptId =>
               row.lease # "live"
      BY <2>2, <3>1 DEF Shape, ClaimsApart
    <3> QED BY <2>2, <3>1, <3>2 DEF Lessens
  <2> QED BY <2>1, <2>2 DEF ClaimsApart
<1>8. SendersSound'
  BY <1>1, <1>2 DEF SendersSound, SenderSound
<1>9. AcceptedSeen'
  BY DEF AcceptedSeen
<1>10. NotYetAttempts'
  <2> SUFFICES ASSUME NEW p \in Process, Fenced, sender'[p].at \in Early
               PROVE  row'.platformSendAttemptId # sender'[p].claim
    BY <1>1 DEF NotYetAttempts
  <2>1. sender'[p].claim # Nil
    BY <1>2 DEF SenderSound, Early, Claimant
  <2>2. sender'[p].claim = sender[p].claim /\ row.platformSendAttemptId # sender[p].claim
    BY <1>2, <2>1 DEF Shape, NotYetAttempts
  <2> QED BY <2>1, <2>2 DEF Lessens
<1>11. Submissions'
  <2>1. ASSUME submits = 0
        PROVE  /\ row' = AbsentRow /\ unproved' = {}
               /\ \A p \in Process : sender'[p] = Idle /\ intent'[p] = "none"
    <3>1. row = AbsentRow /\ \A p \in Process : sender[p] = Idle /\ intent[p] = "none"
      BY <2>1 DEF Shape, Submissions
    <3>2. row' = AbsentRow
      BY <3>1, EmptyRows DEF Lessens
    <3>3. Idle.at = "idle"
      BY DEF Idle
    <3> QED BY <1>2, <2>1, <3>1, <3>2, <3>3 DEF Around
  <2>2. ASSUME ~Fenced, NEW p \in Process
        PROVE  /\ intent'[p] # "existing"
               /\ Kind = "receipt" => intent'[p] = "none"
               /\ sender'[p].at # "idle" /\ Kind = "receipt" => row'.status # "absent"
    <3>1. /\ intent[p] # "existing"
          /\ Kind = "receipt" => intent[p] = "none"
          /\ sender[p].at # "idle" /\ Kind = "receipt" => row.status # "absent"
      BY <2>2 DEF Shape, Submissions
    <3>2. intent'[p] \in {intent[p], "none"}
      BY DEF Around
    <3>3. sender'[p].at # "idle" => sender[p].at # "idle"
      BY <1>2 DEF Idle
    <3> QED BY <3>1, <3>2, <3>3 DEF Lessens
  <2> QED BY <1>1, <2>1, <2>2 DEF Submissions, Around
<1> QED BY <1>4, <1>5, <1>6, <1>7, <1>8, <1>9, <1>10, <1>11 DEF Shape

\* The idle sender is sound, and every sender may end.
LEMMA IdleGoes ==
  /\ Idle \in SenderType /\ SenderSound(Idle)
  /\ Idle.at = "idle" /\ Idle.claim = Nil /\ Idle.seen = AbsentRow /\ ~Idle.accepted /\ ~Idle.got
  /\ ~Idle.proved /\ Idle.pre = "none" /\ Idle.post = "none" /\ Idle.end = "none"
  /\ \A s : Goes(s, Idle)
<1>1. /\ Idle \in SenderType
      /\ Idle.at = "idle" /\ Idle.claim = Nil /\ Idle.seen = AbsentRow /\ ~Idle.accepted /\ ~Idle.got
      /\ ~Idle.proved /\ Idle.pre = "none" /\ Idle.post = "none" /\ Idle.end = "none"
      /\ Idle.role = "none"
  BY EmptyRows DEF Idle, SenderType
<1>2. SenderSound(Idle)
  BY <1>1 DEF SenderSound, Claimant
<1>3. \A s : Goes(s, Idle)
  BY <1>1, <1>2 DEF Goes, Early
<1> QED BY <1>1, <1>2, <1>3

\* One sender goes on and the row has no new claim.
LEMMA GoingKeepsShape ==
  ASSUME Shape, Around, Lessens(row'), NEW p \in Process, NEW t, Becomes(p, t),
         t = sender[p] \/ Goes(sender[p], t),
         t.accepted => sender[p].accepted, visible' = visible
  PROVE  Shape'
<1>1. sender \in [Process -> SenderType]
  BY DEF Shape, TypeOK
<1>2. sender' = [sender EXCEPT ![p] = t]
  BY DEF Becomes
<1>3. sender' = [q \in Process |-> sender'[q]]
  BY <1>1, <1>2
<1>4. \A q \in Process : sender'[q] = IF q = p THEN t ELSE sender[q]
  BY <1>1, <1>2
<1>5. \A q \in Process : sender'[q] = sender[q] \/ Goes(sender[q], sender'[q])
  BY <1>4
<1>6. \A q \in Process : sender'[q].accepted => visible' > 0
  BY <1>4 DEF Shape, AcceptedSeen
<1> QED BY <1>3, <1>5, <1>6, LessKeepsShape

\* The variables that most steps leave alone.
LEMMA AroundQuiet ==
  ASSUME Shape, UNCHANGED <<delivery, submits, intent, crashes, visible>>,
         faults' \in 0 .. MaxFaults, unproved' = unproved
  PROVE  Around
<1>1. TypeOK /\ (submits = 0 => unproved = {})
  BY DEF Shape, Submissions
<1> QED BY <1>1 DEF Around, TypeOK

\* A write that took effect.
LEMMA TookIsOwned ==
  ASSUME Shape, NEW owner, NEW thrown \in 0 .. 3, NEW new, Took(owner, thrown, new)
  PROVE  Owned(owner) /\ Pending /\ row' = new /\ faults' \in 0 .. MaxFaults
BY DEF Shape, TypeOK, Took, Owned

\* A write that did not.
LEMMA RefusedIsQuiet ==
  ASSUME Shape, NEW owner, NEW thrown \in 0 .. 3, Refused(owner, thrown)
  PROVE  row' = row /\ faults' \in 0 .. MaxFaults
<1>1. faults \in 0 .. MaxFaults /\ MaxFaults \in Nat
  BY BoundAssumption DEF Shape, TypeOK
<1> QED BY <1>1 DEF Refused

\* A write with and without a fallback.
LEMMA WriteEither ==
  ASSUME Shape, NEW owner, NEW new, Write(owner, new)
  PROVE  /\ faults' \in 0 .. MaxFaults
         /\ row' = row \/ (Owned(owner) /\ Pending /\ row' = new)
<1>1. 0 \in 0 .. 3 /\ 1 \in 0 .. 3
  OBVIOUS
<1> QED BY <1>1, TookIsOwned, RefusedIsQuiet DEF Write

\* A write with a fallback.
LEMMA WriteElseEither ==
  ASSUME Shape, NEW owner, NEW new, NEW fallback, WriteElse(owner, new, fallback)
  PROVE  /\ faults' \in 0 .. MaxFaults
         /\ row' = row \/ (Owned(owner) /\ Pending /\ row' \in {new, fallback})
<1>1. 0 \in 0 .. 3 /\ 1 \in 0 .. 3 /\ 2 \in 0 .. 3
  OBVIOUS
<1> QED BY <1>1, TookIsOwned, RefusedIsQuiet DEF WriteElse

\* What an acknowledgement does to a pending row.
LEMMA AckedRow ==
  ASSUME Pending, NEW b \in BOOLEAN
  PROVE  /\ \/ Acked(b) = Receipt /\ Retained
            \/ Acked(b) = AbsentRow /\ Kind # "receipt" /\ (Fenced => b)
         /\ Lessens(Acked(b))
<1>1. \/ Acked(b) = Receipt /\ Retained
      \/ Acked(b) = AbsentRow /\ Kind # "receipt" /\ (Fenced => b)
  BY DEF Acked, Receipt, Retained, Fenced
<1> QED BY <1>1, ReceiptRow

\* Who writes by its claim is entitled to.
LEMMA OwnerIsEntitled ==
  ASSUME Shape, NEW p \in Process, sender[p].at \in Claimant, Owned(OwnerOf(sender[p].claim))
  PROVE  Entitled(p) /\ Pending
<1>1. sender[p] \in SenderType /\ SenderSound(sender[p])
  BY DEF Shape, TypeOK, SendersSound
<1>2. sender[p].claim \in Id \cup {Nil} /\ (Fenced => sender[p].claim # Nil)
  BY <1>1 DEF SenderType, SenderSound
<1>3. Pending
  BY DEF Owned
<1>4. ASSUME Fenced
      PROVE  sender[p].claim \in {row.producerClaimId, row.platformSendAttemptId}
  <2>1. OwnerOf(sender[p].claim) = sender[p].claim /\ sender[p].claim \in Id
    BY <1>2, <1>4 DEF OwnerOf
  <2> QED BY <2>1, OwnerAssumption DEF Owned
<1> QED BY <1>2, <1>3, <1>4 DEF Entitled

\* What a settlement may write.
SettleRow(p, r) ==
  \/ r = FailDelivery
  \/ r = FailBeforePlatformSend /\ sender[p].end \in {"not_sent", "rejected"} /\ ~sender[p].got
  \/ \E now \in Stamp : r = FailAfterPlatformSend(now)
  \/ r = MovedToFailed
  \/ r = Receipt /\ Retained /\ (Fenced => sender[p].got)
  \/ /\ r = AbsentRow /\ Kind # "receipt"
     /\ Fenced => \/ sender[p].end = "rejected" /\ ~sender[p].got
                  \/ sender[p].pre # "marked"

SettleWrites(p) ==
  /\ faults' \in 0 .. MaxFaults
  /\ row' = row \/ (Entitled(p) /\ Pending /\ SettleRow(p, row'))

\* A settlement by a live sender.
LEMMA SettleLiveWrites ==
  ASSUME Shape, NEW p \in Process, SettleLive(p)
  PROVE  SettleWrites(p)
<1> DEFINE s == sender[p]
           owner == OwnerOf(s.claim)
<1>1. /\ s \in SenderType /\ SenderSound(s) /\ faults \in 0 .. MaxFaults
  BY DEF Shape, TypeOK, SendersSound
<1>2. s.at = "settle" /\ s.role = "live" /\ ~OwesPostSend(s)
  BY DEF SettleLive
<1>3. PICK now \in FreshStamp :
           CASE s.end \in {"results", "empty"} /\ s.post \in {"acked", "failed"} -> NoWrite
             [] s.end = "results" /\ s.post = "marked" ->
                  WriteElse(owner, Acked(FALSE), FailAfterPlatformSend(now))
             [] s.end = "empty" /\ s.post = "marked" -> Write(owner, FailAfterPlatformSend(now))
             [] s.end = "empty" /\ s.post = "none" -> WriteElse(owner, Acked(TRUE), FailDelivery)
             [] s.end = "abort" ->
                  IF Ambiguous(s)
                  THEN IF s.post = "failed" THEN NoWrite
                       ELSE Write(owner, FailAfterPlatformSend(now))
                  ELSE Write(owner, Acked(s.claim # Nil))
             [] s.end \in {"error", "not_sent", "rejected"} /\ s.got ->
                  IF s.post = "marked" THEN Write(owner, FailAfterPlatformSend(now)) ELSE NoWrite
             [] s.end \in {"error", "not_sent", "rejected"} /\ ~s.got -> LiveFailure(s)
  BY DEF SettleLive
<1>4. now \in Stamp
  BY DEF FreshStamp
<1>5. PICK yes \in BOOLEAN, no \in BOOLEAN, c \in BOOLEAN : yes = TRUE /\ no = FALSE /\ c = (s.claim # Nil)
  OBVIOUS
<1>6. /\ s.end \in {"results", "empty", "error", "not_sent", "rejected", "abort"}
      /\ s.post \in {"none", "marked", "acked", "failed"} /\ s.got \in BOOLEAN
      /\ s.end = "results" => s.got /\ s.post # "none"
      /\ s.end = "empty" /\ s.post = "none" => s.pre # "marked"
      /\ Fenced => s.claim # Nil
      /\ s.pre \in {"none", "marked", "acked"}
  BY <1>1, <1>2 DEF SenderType, SenderSound, OwesPostSend, Claimant
<1>7. /\ faults' \in 0 .. MaxFaults
      /\ \/ row' = row
         \/ /\ Owned(owner) /\ Pending
            /\ \/ row' = FailDelivery
               \/ row' = FailBeforePlatformSend /\ s.end \in {"not_sent", "rejected"} /\ ~s.got
               \/ row' = FailAfterPlatformSend(now)
               \/ row' = Acked(no) /\ s.got
               \/ row' = Acked(yes) /\ s.pre # "marked"
               \/ row' = Acked(c) /\ (Fenced => (s.end = "rejected" /\ ~s.got) \/ s.pre # "marked")
  <2>1. CASE s.end \in {"results", "empty"} /\ s.post \in {"acked", "failed"}
    BY <1>1, <1>3, <1>6, <2>1 DEF NoWrite
  <2>2. CASE s.end = "results" /\ s.post = "marked"
    BY <1>3, <1>5, <1>6, <2>2, WriteElseEither
  <2>3. CASE s.end = "empty" /\ s.post = "marked"
    BY <1>3, <1>6, <2>3, WriteEither
  <2>4. CASE s.end = "empty" /\ s.post = "none"
    BY <1>3, <1>5, <1>6, <2>4, WriteElseEither
  <2>5. CASE s.end = "abort"
    <3>1. IF Ambiguous(s)
          THEN IF s.post = "failed" THEN NoWrite
               ELSE Write(owner, FailAfterPlatformSend(now))
          ELSE Write(owner, Acked(s.claim # Nil))
      BY <1>3, <2>5
    <3>2. CASE Ambiguous(s)
      BY <1>1, <3>1, <3>2, WriteEither DEF NoWrite
    <3>3. CASE ~Ambiguous(s)
      <4>1. Fenced => s.pre # "marked"
        BY <1>6, <3>3 DEF Ambiguous
      <4> QED BY <1>5, <3>1, <3>3, <4>1, WriteEither
    <3> QED BY <3>2, <3>3
  <2>6. CASE s.end \in {"error", "not_sent", "rejected"} /\ s.got
    <3>1. IF s.post = "marked" THEN Write(owner, FailAfterPlatformSend(now)) ELSE NoWrite
      BY <1>3, <2>6
    <3> QED BY <1>1, <3>1, WriteEither DEF NoWrite
  <2>7. CASE s.end \in {"error", "not_sent", "rejected"} /\ ~s.got
    <3>1. LiveFailure(s)
      BY <1>3, <2>7
    <3>2. CASE s.pre = "acked"
      BY <1>1, <3>1, <3>2 DEF LiveFailure, NoWrite
    <3>3. CASE s.pre # "acked" /\ s.end = "rejected"
      <4>1. PICK failure \in {FailDelivery, FailBeforePlatformSend} :
              WriteElse(owner, Acked(s.claim # Nil), failure)
        BY <3>1, <3>3 DEF LiveFailure
      <4> QED BY <1>5, <2>7, <3>3, <4>1, WriteElseEither
    <3>4. CASE s.pre # "acked" /\ s.end = "not_sent"
      <4>1. Write(owner, FailBeforePlatformSend)
        BY <3>1, <3>4 DEF LiveFailure
      <4> QED BY <2>7, <3>4, <4>1, WriteEither
    <3>5. CASE s.pre # "acked" /\ s.end = "error"
      <4>1. Write(owner, FailDelivery)
        BY <3>1, <3>5 DEF LiveFailure
      <4> QED BY <4>1, WriteEither
    <3> QED BY <2>7, <3>2, <3>3, <3>4, <3>5
  <2> QED BY <1>6, <2>1, <2>2, <2>3, <2>4, <2>5, <2>6, <2>7
<1>8. CASE row' = row
  BY <1>7, <1>8 DEF SettleWrites
<1>9. CASE Owned(owner) /\ Pending /\ row' # row
  <2>1. Entitled(p)
    BY <1>2, <1>9, OwnerIsEntitled DEF Claimant
  <2>2. SettleRow(p, row')
    <3>1. \A b \in BOOLEAN : \/ Acked(b) = Receipt /\ Retained
                             \/ Acked(b) = AbsentRow /\ Kind # "receipt" /\ (Fenced => b)
      BY <1>9, AckedRow
    <3>2. ASSUME row' = Acked(no), s.got
          PROVE  SettleRow(p, row')
      BY <1>5, <3>1, <3>2 DEF SettleRow, Retained
    <3>3. ASSUME row' = Acked(yes), s.pre # "marked"
          PROVE  SettleRow(p, row')
      <4>1. Fenced => Acked(yes) = AbsentRow
        BY <1>5, <1>9 DEF Acked, Retained, Fenced
      <4> QED BY <3>1, <3>3, <4>1, EmptyRows DEF SettleRow, Retained, Fenced
    <3>4. ASSUME row' = Acked(c), Fenced => (s.end = "rejected" /\ ~s.got) \/ s.pre # "marked"
          PROVE  SettleRow(p, row')
      <4>1. Fenced => Acked(c) = AbsentRow
        BY <1>5, <1>6, <1>9 DEF Acked, Retained, Fenced
      <4> QED BY <3>1, <3>4, <4>1, EmptyRows DEF SettleRow, Retained, Fenced
    <3> QED BY <1>4, <1>7, <1>9, <3>2, <3>3, <3>4 DEF SettleRow
  <2> QED BY <1>7, <1>9, <2>1, <2>2 DEF SettleWrites
<1> QED BY <1>7, <1>8, <1>9

\* A settlement by recovery.
LEMMA SettleRecoveryWrites ==
  ASSUME Shape, NEW p \in Process, SettleRecovery(p)
  PROVE  SettleWrites(p)
<1> DEFINE s == sender[p]
           owner == OwnerOf(s.claim)
<1>1. /\ s \in SenderType /\ SenderSound(s) /\ faults \in 0 .. MaxFaults
  BY DEF Shape, TypeOK, SendersSound
<1>2. s.at = "settle" /\ s.role = "recovery" /\ ~OwesPostSend(s)
  BY DEF SettleRecovery
<1>3. PICK now \in FreshStamp :
           CASE s.end \in {"results", "error", "not_sent", "rejected"}
                  /\ (s.post \in {"acked", "failed"} \/ (s.got /\ s.end # "results")) -> NoWrite
             [] s.end = "results" /\ s.post = "marked" ->
                  WriteElse(owner, Acked(FALSE), FailAfterPlatformSend(now))
             [] s.end = "empty" /\ s.claim # Nil /\ s.pre = "marked" ->
                  WriteElse(owner, FailAfterPlatformSend(now), FailDelivery)
             [] s.end = "empty" /\ ~(s.claim # Nil /\ s.pre = "marked") ->
                  WriteElse(owner, Acked(TRUE), FailDelivery)
             [] s.end = "rejected" /\ ~s.got -> Write(owner, MovedToFailed)
             [] s.end = "not_sent" /\ ~s.got ->
                  Write(owner, FailBeforePlatformSend) \/ Write(owner, MovedToFailed)
             [] s.end = "error" /\ ~s.got /\ s.post = "none" ->
                  Write(owner, FailDelivery) \/ Write(owner, MovedToFailed)
  BY DEF SettleRecovery
<1>4. now \in Stamp
  BY DEF FreshStamp
<1>5. PICK yes \in BOOLEAN, no \in BOOLEAN : yes = TRUE /\ no = FALSE
  OBVIOUS
<1>6. /\ s.end \in {"results", "empty", "error", "not_sent", "rejected"}
      /\ s.post \in {"none", "marked", "acked", "failed"} /\ s.got \in BOOLEAN
      /\ s.end = "results" => s.got /\ s.post # "none"
      /\ s.post # "none" => s.got
      /\ Fenced => s.claim # Nil
  BY <1>1, <1>2 DEF SenderType, SenderSound, OwesPostSend, Claimant
<1>7. /\ faults' \in 0 .. MaxFaults
      /\ \/ row' = row
         \/ /\ Owned(owner) /\ Pending
            /\ \/ row' = FailDelivery
               \/ row' = FailBeforePlatformSend /\ s.end \in {"not_sent", "rejected"} /\ ~s.got
               \/ row' = FailAfterPlatformSend(now)
               \/ row' = MovedToFailed
               \/ row' = Acked(no) /\ s.got
               \/ row' = Acked(yes) /\ (Fenced => s.pre # "marked")
  <2>1. CASE s.end \in {"results", "error", "not_sent", "rejected"}
                  /\ (s.post \in {"acked", "failed"} \/ (s.got /\ s.end # "results"))
    BY <1>1, <1>3, <1>6, <2>1 DEF NoWrite
  <2>2. CASE s.end = "results" /\ s.post = "marked"
    BY <1>3, <1>5, <1>6, <2>2, WriteElseEither
  <2>3. CASE s.end = "empty" /\ s.claim # Nil /\ s.pre = "marked"
    BY <1>3, <2>3, WriteElseEither
  <2>4. CASE s.end = "empty" /\ ~(s.claim # Nil /\ s.pre = "marked")
    BY <1>3, <1>5, <1>6, <2>4, WriteElseEither
  <2>5. CASE s.end = "rejected" /\ ~s.got
    BY <1>3, <1>6, <2>5, WriteEither
  <2>6. CASE s.end = "not_sent" /\ ~s.got
    BY <1>3, <1>6, <2>6, WriteEither
  <2>7. CASE s.end = "error" /\ ~s.got /\ s.post = "none"
    BY <1>3, <1>6, <2>7, WriteEither
  <2> QED BY <1>6, <2>1, <2>2, <2>3, <2>4, <2>5, <2>6, <2>7
<1>8. CASE row' = row
  BY <1>7, <1>8 DEF SettleWrites
<1>9. CASE Owned(owner) /\ Pending /\ row' # row
  <2>1. Entitled(p)
    BY <1>2, <1>9, OwnerIsEntitled DEF Claimant
  <2>2. SettleRow(p, row')
    <3>1. \A b \in BOOLEAN : \/ Acked(b) = Receipt /\ Retained
                             \/ Acked(b) = AbsentRow /\ Kind # "receipt" /\ (Fenced => b)
      BY <1>9, AckedRow
    <3>2. ASSUME row' = Acked(no), s.got
          PROVE  SettleRow(p, row')
      BY <1>5, <3>1, <3>2 DEF SettleRow, Retained
    <3>3. ASSUME row' = Acked(yes), Fenced => s.pre # "marked"
          PROVE  SettleRow(p, row')
      <4>1. Fenced => Acked(yes) = AbsentRow
        BY <1>5, <1>9 DEF Acked, Retained, Fenced
      <4> QED BY <3>1, <3>3, <4>1, EmptyRows DEF SettleRow, Retained, Fenced
    <3> QED BY <1>4, <1>7, <1>9, <3>2, <3>3 DEF SettleRow
  <2> QED BY <1>7, <1>9, <2>1, <2>2 DEF SettleWrites
<1> QED BY <1>7, <1>8, <1>9

\* What a settlement writes claims nothing.
LEMMA SettleLessens ==
  ASSUME Shape, NEW p \in Process, SettleWrites(p)
  PROVE  Lessens(row')
<1>1. CASE row' = row
  BY <1>1 DEF Lessens
<1>2. CASE Pending /\ SettleRow(p, row')
  BY <1>2, FailDeliveryRow, FailBeforeRow, UnknownRow, MovedRow, ReceiptRow DEF SettleRow
<1> QED BY <1>1, <1>2 DEF SettleWrites

\* A settlement keeps the shape.
LEMMA SettleShape ==
  ASSUME Shape, UNCHANGED delivery, NEW p \in Process, SettleLive(p) \/ SettleRecovery(p)
  PROVE  Shape'
<1>1. SettleWrites(p)
  BY SettleLiveWrites, SettleRecoveryWrites
<1>2. Becomes(p, Idle) /\ UNCHANGED <<intent, submits, crashes, visible, unproved>>
  BY DEF SettleLive, SettleRecovery
<1>3. Around
  BY <1>1, <1>2, AroundQuiet DEF SettleWrites
<1> QED BY <1>1, <1>2, <1>3, SettleLessens, IdleGoes, GoingKeepsShape

\* What persistQueuedPostSendState may write.
PersistRow(p, r) ==
  \/ r = row
  \/ Pending /\ Entitled(p) /\ \E now \in Stamp : r \in {OutcomeUnknown(now), FailAfterPlatformSend(now)}
  \/ Pending /\ ~Fenced /\ r = Receipt
  \/ Pending /\ ~Fenced /\ Kind # "receipt" /\ r = AbsentRow

\* How the evidence of a send is written, and how its writer goes on.
LEMMA PersistWrites ==
  ASSUME Shape, NEW p \in Process, NEW s, NEW thrown, PersistPostSend(p, s, thrown),
         s.claim = sender[p].claim, sender[p].at \in Claimant
  PROVE  /\ faults' \in 0 .. MaxFaults /\ PersistRow(p, row')
         /\ \/ Becomes(p, thrown)
            \/ \E x \in {"marked", "acked", "failed"} :
                 Becomes(p, [s EXCEPT !.post = x]) /\ (Fenced => x # "acked")
<1>1. PICK now \in FreshStamp :
         LET owner == OwnerOf(s.claim)
             fenced == s.claim # Nil
         IN  \/ Took(owner, 0, OutcomeUnknown(now)) /\ Becomes(p, [s EXCEPT !.post = "marked"])
             \/ /\ ~fenced
                /\ faults + (IF Pending THEN 1 ELSE 0) <= MaxFaults
                /\ faults' = faults + (IF Pending THEN 1 ELSE 0)
                /\ row' = Acked(FALSE)
                /\ Becomes(p, [s EXCEPT !.post = "acked"])
             \/ /\ Took(owner, IF fenced THEN 1 ELSE 2, FailAfterPlatformSend(now))
                /\ Becomes(p, [s EXCEPT !.post = "failed"])
             \/ /\ fenced \/ Pending
                /\ Refused(owner, IF fenced THEN 2 ELSE 3)
                /\ Becomes(p, thrown)
  BY DEF PersistPostSend
<1>2. now \in Stamp
  BY DEF FreshStamp
<1>3. s.claim = Nil => ~Fenced
  BY DEF Shape, SendersSound, SenderSound
<1>4. PICK no \in BOOLEAN : no = FALSE
  OBVIOUS
<1>5. PICK k \in 0 .. 3, m \in 0 .. 3, z \in 0 .. 3 :
        /\ k = IF s.claim # Nil THEN 1 ELSE 2
        /\ m = IF s.claim # Nil THEN 2 ELSE 3
        /\ z = 0
  OBVIOUS
<1>6. ASSUME Owned(OwnerOf(s.claim))
      PROVE  Entitled(p) /\ Pending
  BY <1>6, OwnerIsEntitled
<1>7. CASE Took(OwnerOf(s.claim), z, OutcomeUnknown(now)) /\ Becomes(p, [s EXCEPT !.post = "marked"])
  <2>1. faults' \in 0 .. MaxFaults /\ row' = OutcomeUnknown(now) /\ Entitled(p) /\ Pending
    BY <1>6, <1>7, TookIsOwned
  <2> QED BY <1>2, <1>7, <2>1 DEF PersistRow
<1>8. CASE /\ s.claim = Nil
           /\ faults + (IF Pending THEN 1 ELSE 0) <= MaxFaults
           /\ faults' = faults + (IF Pending THEN 1 ELSE 0)
           /\ row' = Acked(no)
           /\ Becomes(p, [s EXCEPT !.post = "acked"])
  <2>1. faults' \in 0 .. MaxFaults
    BY <1>8 DEF Shape, TypeOK
  <2>2. ~Pending => row' = row
    BY <1>8 DEF Acked
  <2>3. Pending => row' = Receipt \/ (row' = AbsentRow /\ Kind # "receipt")
    BY <1>8, AckedRow
  <2> QED BY <1>3, <1>8, <2>1, <2>2, <2>3 DEF PersistRow
<1>9. CASE Took(OwnerOf(s.claim), k, FailAfterPlatformSend(now)) /\ Becomes(p, [s EXCEPT !.post = "failed"])
  <2>1. faults' \in 0 .. MaxFaults /\ row' = FailAfterPlatformSend(now) /\ Entitled(p) /\ Pending
    BY <1>6, <1>9, TookIsOwned
  <2> QED BY <1>2, <1>9, <2>1 DEF PersistRow
<1>10. CASE Refused(OwnerOf(s.claim), m) /\ Becomes(p, thrown)
  BY <1>10, RefusedIsQuiet DEF PersistRow
<1> QED BY <1>1, <1>4, <1>5, <1>7, <1>8, <1>9, <1>10

\* What is written there claims nothing.
LEMMA PersistLessens ==
  ASSUME Shape, NEW p \in Process, PersistRow(p, row')
  PROVE  Lessens(row')
BY UnknownRow, ReceiptRow DEF PersistRow, Lessens

\* A sender at the platform goes on with what it knows.
LEMMA SendingGoes ==
  ASSUME Shape, NEW p \in Process, sender[p].at \in {"sending", "settle"}, NEW t \in SenderType,
         t.at \in {sender[p].at, "settle"},
         t.role = sender[p].role, t.claim = sender[p].claim, t.seen = sender[p].seen,
         t.proved = sender[p].proved, t.pre = sender[p].pre,
         t.at = "settle" => t.end # "none",
         t.role = "recovery" => t.end # "abort" /\ (t.post # "none" => t.got),
         t.end = "results" => t.got, t.got => t.accepted, Fenced => t.post # "acked"
  PROVE  Goes(sender[p], t)
<1>1. sender[p] \in SenderType /\ SenderSound(sender[p])
  BY DEF Shape, TypeOK, SendersSound
<1>2. SenderSound(t)
  BY <1>1 DEF SenderSound, Claimant
<1> QED BY <1>1, <1>2 DEF Goes, Early

\* A sender before the platform goes on without having sent anything.
LEMMA UnsentGoes ==
  ASSUME Shape, NEW p \in Process, sender[p].at \in {"custody", "reserve", "start", "dispatch"},
         NEW t \in SenderType,
         t.role = sender[p].role, t.claim = sender[p].claim, t.seen = sender[p].seen,
         t.proved = sender[p].proved, t.got = sender[p].got, t.accepted = sender[p].accepted,
         t.at \in {"start", "dispatch", "sending", "settle"},
         t.at = "start" => sender[p].at \in Early,
         t.at = "settle" => t.end # "none", t.end # "results",
         t.end = "abort" => t.role = "live",
         t.role = "recovery" => t.post = sender[p].post,
         Fenced => t.post # "acked" /\ t.pre # "acked",
         Fenced /\ t.at \in {"dispatch", "sending"} => t.pre = "marked"
  PROVE  Goes(sender[p], t)
<1>1. sender[p] \in SenderType /\ SenderSound(sender[p])
  BY DEF Shape, TypeOK, SendersSound
<1>2. SenderSound(t)
  BY <1>1 DEF SenderSound, Claimant
<1> QED BY <1>1, <1>2 DEF Goes, Early

\* The evidence of a send is written at settlement.
LEMMA SettlePostSendShape ==
  ASSUME Shape, UNCHANGED delivery, NEW p \in Process, SettlePostSend(p)
  PROVE  Shape'
<1> DEFINE s == sender[p]
           thrown == IF s.role = "recovery" /\ s.end = "results"
                     THEN [s EXCEPT !.end = "error"] ELSE Idle
<1>1. s \in SenderType /\ SenderSound(s)
  BY DEF Shape, TypeOK, SendersSound
<1>2. /\ s.at = "settle" /\ OwesPostSend(s) /\ PersistPostSend(p, s, thrown)
      /\ UNCHANGED <<intent, submits, crashes, visible, unproved>>
  BY DEF SettlePostSend
<1>3. /\ faults' \in 0 .. MaxFaults /\ PersistRow(p, row')
      /\ \/ Becomes(p, thrown)
         \/ \E x \in {"marked", "acked", "failed"} :
              Becomes(p, [s EXCEPT !.post = x]) /\ (Fenced => x # "acked")
  BY <1>2, PersistWrites DEF Claimant
<1>4. Around /\ Lessens(row')
  BY <1>2, <1>3, AroundQuiet, PersistLessens
<1>5. s.role = "recovery" => s.got
  BY <1>1, <1>2 DEF OwesPostSend, SenderSound
<1>6. CASE Becomes(p, thrown)
  <2>1. CASE s.role = "recovery" /\ s.end = "results"
    <3> DEFINE t == [s EXCEPT !.end = "error"]
    <3>1. /\ t \in SenderType /\ t.at = s.at /\ t.role = s.role /\ t.claim = s.claim /\ t.seen = s.seen
          /\ t.proved = s.proved /\ t.pre = s.pre /\ t.post = s.post /\ t.got = s.got
          /\ t.accepted = s.accepted /\ t.end = "error"
      BY <1>1 DEF SenderType
    <3>2. Becomes(p, t)
      BY <1>6, <2>1
    <3> HIDE DEF t
    <3>3. Goes(s, t)
      BY <1>1, <1>2, <1>5, <3>1, SendingGoes DEF SenderSound
    <3> QED BY <1>2, <1>4, <3>1, <3>2, <3>3, GoingKeepsShape
  <2>2. CASE ~(s.role = "recovery" /\ s.end = "results")
    BY <1>2, <1>4, <1>6, <2>2, IdleGoes, GoingKeepsShape
  <2> QED BY <2>1, <2>2
<1>7. ASSUME NEW x \in {"marked", "acked", "failed"},
             Becomes(p, [s EXCEPT !.post = x]), Fenced => x # "acked"
      PROVE  Shape'
  <2> DEFINE t == [s EXCEPT !.post = x]
  <2>1. /\ t \in SenderType /\ t.at = s.at /\ t.role = s.role /\ t.claim = s.claim /\ t.seen = s.seen
        /\ t.proved = s.proved /\ t.pre = s.pre /\ t.post = x /\ t.got = s.got
        /\ t.accepted = s.accepted /\ t.end = s.end
    BY <1>1 DEF SenderType
  <2>2. Becomes(p, t)
    BY <1>7
  <2> HIDE DEF t
  <2>3. Goes(s, t)
    BY <1>1, <1>2, <1>5, <1>7, <2>1, SendingGoes DEF SenderSound
  <2> QED BY <1>2, <1>4, <2>1, <2>2, <2>3, GoingKeepsShape
<1> QED BY <1>3, <1>6, <1>7

\* The first result arrives, and the evidence of the send is written.
LEMMA DeliveryResultShape ==
  ASSUME Shape, UNCHANGED delivery, NEW p \in Process, DeliveryResult(p)
  PROVE  Shape'
<1> DEFINE o == sender[p]
           s == [o EXCEPT !.got = TRUE]
           f == [s EXCEPT !.at = "settle", !.end = "error"]
<1>1. o \in SenderType /\ SenderSound(o)
  BY DEF Shape, TypeOK, SendersSound
<1>2. /\ o.at = "sending" /\ o.accepted
      /\ (NoWrite /\ Becomes(p, s)) \/ PersistPostSend(p, s, f)
      /\ UNCHANGED <<intent, submits, crashes, visible, unproved>>
  <2>1. /\ o.at = "sending" /\ o.accepted
        /\ UNCHANGED <<intent, submits, crashes, visible, unproved>>
    BY DEF DeliveryResult
  <2>2. \/ s.post # "none" /\ NoWrite /\ Becomes(p, s)
        \/ s.post = "none" /\ PersistPostSend(p, s, f)
    BY ZenonT(30) DEF DeliveryResult
  <2> QED BY <2>1, <2>2
<1>3. /\ s \in SenderType /\ s.at = o.at /\ s.role = o.role /\ s.claim = o.claim /\ s.seen = o.seen
      /\ s.proved = o.proved /\ s.pre = o.pre /\ s.post = o.post /\ s.got
      /\ s.accepted = o.accepted /\ s.end = o.end
  BY <1>1 DEF SenderType
<1> HIDE DEF s
<1>4. /\ f \in SenderType /\ f.at = "settle" /\ f.role = o.role /\ f.claim = o.claim /\ f.seen = o.seen
      /\ f.proved = o.proved /\ f.pre = o.pre /\ f.post = o.post /\ f.got
      /\ f.accepted = o.accepted /\ f.end = "error"
  BY <1>3 DEF SenderType
<1> HIDE DEF f
<1>5. CASE NoWrite /\ Becomes(p, s)
  <2>1. Goes(o, s)
    BY <1>1, <1>2, <1>3, SendingGoes DEF SenderSound
  <2>2. faults' \in 0 .. MaxFaults /\ Lessens(row')
    BY <1>5 DEF NoWrite, Shape, TypeOK, Lessens
  <2>3. Around
    BY <1>2, <2>2, AroundQuiet
  <2> QED BY <1>2, <1>3, <1>5, <2>1, <2>2, <2>3, GoingKeepsShape
<1>6. CASE PersistPostSend(p, s, f)
  <2>1. /\ faults' \in 0 .. MaxFaults /\ PersistRow(p, row')
        /\ \/ Becomes(p, f)
           \/ \E x \in {"marked", "acked", "failed"} :
                Becomes(p, [s EXCEPT !.post = x]) /\ (Fenced => x # "acked")
    BY <1>2, <1>3, <1>6, PersistWrites DEF Claimant
  <2>2. Around /\ Lessens(row')
    BY <1>2, <2>1, AroundQuiet, PersistLessens
  <2>3. CASE Becomes(p, f)
    <3>1. Goes(o, f)
      BY <1>1, <1>2, <1>4, SendingGoes DEF SenderSound
    <3> QED BY <1>2, <1>4, <2>2, <2>3, <3>1, GoingKeepsShape
  <2>4. ASSUME NEW x \in {"marked", "acked", "failed"},
               Becomes(p, [s EXCEPT !.post = x]), Fenced => x # "acked"
        PROVE  Shape'
    <3> DEFINE t == [s EXCEPT !.post = x]
    <3>1. /\ t \in SenderType /\ t.at = o.at /\ t.role = o.role /\ t.claim = o.claim /\ t.seen = o.seen
          /\ t.proved = o.proved /\ t.pre = o.pre /\ t.post = x /\ t.got
          /\ t.accepted = o.accepted /\ t.end = o.end
      BY <1>3 DEF SenderType
    <3>2. Becomes(p, t)
      BY <2>4
    <3> HIDE DEF t
    <3>3. Goes(o, t)
      BY <1>1, <1>2, <2>4, <3>1, SendingGoes DEF SenderSound
    <3> QED BY <1>2, <2>2, <3>1, <3>2, <3>3, GoingKeepsShape
  <2> QED BY <2>1, <2>3, <2>4
<1> QED BY <1>2, <1>5, <1>6

\* The provider takes the call.
LEMMA ProviderAcceptsShape ==
  ASSUME Shape, UNCHANGED delivery, NEW p \in Process, ProviderAccepts(p)
  PROVE  Shape'
<1> DEFINE s == sender[p]
           t == [s EXCEPT !.accepted = TRUE]
<1>1. /\ s \in SenderType /\ SenderSound(s) /\ visible \in 0 .. 2
      /\ sender \in [Process -> SenderType]
  BY DEF Shape, TypeOK, SendersSound
<1>2. /\ s.at = "sending"
      /\ visible' = IF visible = 2 THEN 2 ELSE visible + 1
      /\ UNCHANGED <<row, intent, submits, crashes, faults, unproved>>
  BY DEF ProviderAccepts
<1>3. sender' = [sender EXCEPT ![p] = t]
  BY ZenonT(20) DEF ProviderAccepts, Becomes
<1>4. /\ t \in SenderType /\ t.at = s.at /\ t.role = s.role /\ t.claim = s.claim /\ t.seen = s.seen
      /\ t.proved = s.proved /\ t.pre = s.pre /\ t.post = s.post /\ t.got = s.got
      /\ t.accepted /\ t.end = s.end
  BY <1>1 DEF SenderType
<1> HIDE DEF t
<1>5. Goes(s, t)
  BY <1>1, <1>2, <1>4, SendingGoes DEF SenderSound
<1>6. visible' \in 0 .. 2 /\ visible' > 0
  BY <1>1, <1>2
<1>7. Around /\ Lessens(row')
  <2>1. TypeOK /\ (submits = 0 => unproved = {})
    BY DEF Shape, Submissions
  <2> QED BY <1>2, <1>6, <2>1 DEF Around, TypeOK, Lessens
<1>8. sender' = [q \in Process |-> sender'[q]]
  BY <1>1, <1>3
<1>9. \A q \in Process : sender'[q] = sender[q] \/ Goes(sender[q], sender'[q])
  BY <1>1, <1>3, <1>5
<1> QED BY <1>6, <1>7, <1>8, <1>9, LessKeepsShape

\* The provider answers.
LEMMA ProviderReturnsShape ==
  ASSUME Shape, UNCHANGED delivery, NEW p \in Process, ProviderReturns(p)
  PROVE  Shape'
<1> DEFINE s == sender[p]
<1>1. s \in SenderType /\ SenderSound(s)
  BY DEF Shape, TypeOK, SendersSound
<1>2. s.at = "sending" /\ UNCHANGED <<row, intent, submits, crashes, faults, visible>>
  BY DEF ProviderReturns
<1>3. PICK end \in {"results", "empty", "error", "not_sent", "rejected"}
                  \cup (IF s.role = "live" THEN {"abort"} ELSE {}) :
           /\ end = "results" => s.accepted
           /\ Becomes(p, [s EXCEPT !.at = "settle", !.end = end, !.got = @ \/ end = "results"])
           /\ unproved' = IF end \in {"not_sent", "rejected"} /\ ~s.accepted
                          THEN unproved \ {p} ELSE unproved
  BY DEF ProviderReturns
<1>4. PICK g \in BOOLEAN : g = (s.got \/ end = "results")
  OBVIOUS
<1>9. end \in {"none", "results", "empty", "error", "not_sent", "rejected", "abort"}
  OBVIOUS
<1> DEFINE t == [s EXCEPT !.at = "settle", !.end = end, !.got = g]
<1>10. t = [s EXCEPT !.at = "settle", !.end = end, !.got = g]
  OBVIOUS
<1>5. Becomes(p, t)
  BY <1>3, <1>4
<1> HIDE DEF t
<1>6. /\ t \in SenderType /\ t.at = "settle" /\ t.role = s.role /\ t.claim = s.claim /\ t.seen = s.seen
      /\ t.proved = s.proved /\ t.pre = s.pre /\ t.post = s.post /\ t.got = g
      /\ t.accepted = s.accepted /\ t.end = end
  <2>1. t \in SenderType
    BY <1>1, <1>9, <1>10 DEF SenderType
  <2> QED BY <1>1, <1>10, <2>1 DEF SenderType
<1>7. Goes(s, t)
  BY <1>1, <1>2, <1>3, <1>4, <1>6, SendingGoes DEF SenderSound
<1>8. Around /\ Lessens(row')
  <2>1. TypeOK /\ (submits = 0 => unproved = {})
    BY DEF Shape, Submissions
  <2> QED BY <1>2, <1>3, <2>1 DEF Around, TypeOK, Lessens
<1> QED BY <1>2, <1>5, <1>6, <1>7, <1>8, GoingKeepsShape

\* The core send ends early.
LEMMA EndsBeforeSendShape ==
  ASSUME Shape, UNCHANGED delivery, NEW p \in Process, EndsBeforeSend(p)
  PROVE  Shape'
<1> DEFINE s == sender[p]
<1>1. s \in SenderType /\ SenderSound(s)
  BY DEF Shape, TypeOK, SendersSound
<1>2. /\ s.at \in {"start", "dispatch"}
      /\ UNCHANGED <<row, intent, submits, crashes, faults, visible, unproved>>
  BY DEF EndsBeforeSend
<1>3. PICK end \in {"empty", "error", "not_sent", "rejected"}
                   \cup (IF s.role = "live" THEN {"abort"} ELSE {}) :
        Becomes(p, [s EXCEPT !.at = "settle", !.end = end])
  BY DEF EndsBeforeSend
<1>8. end \in {"none", "results", "empty", "error", "not_sent", "rejected", "abort"}
  OBVIOUS
<1> DEFINE t == [s EXCEPT !.at = "settle", !.end = end]
<1>5. Becomes(p, t) /\ t = [s EXCEPT !.at = "settle", !.end = end]
  BY <1>3
<1> HIDE DEF t
<1>4. /\ t \in SenderType /\ t.at = "settle" /\ t.role = s.role /\ t.claim = s.claim /\ t.seen = s.seen
      /\ t.proved = s.proved /\ t.pre = s.pre /\ t.post = s.post /\ t.got = s.got
      /\ t.accepted = s.accepted /\ t.end = end
  <2>1. t \in SenderType
    BY <1>1, <1>5, <1>8 DEF SenderType
  <2> QED BY <1>1, <1>5, <2>1 DEF SenderType
<1>6. Goes(s, t)
  BY <1>1, <1>2, <1>4, UnsentGoes DEF SenderSound
<1>7. Around /\ Lessens(row')
  BY <1>2, AroundQuiet DEF Shape, TypeOK, Lessens
<1> QED BY <1>2, <1>4, <1>5, <1>6, <1>7, GoingKeepsShape

\* A sender of an exact delivery goes on to the dispatch; one with claims takes custody.
LEMMA QuietStartShape ==
  ASSUME Shape, UNCHANGED delivery, NEW p \in Process, ExactSendStart(p) \/ TakeCustody(p)
  PROVE  Shape'
<1> DEFINE s == sender[p]
<1>1. s \in SenderType /\ SenderSound(s)
  BY DEF Shape, TypeOK, SendersSound
<1>2. UNCHANGED <<row, intent, submits, crashes, faults, visible, unproved>>
  BY DEF ExactSendStart, TakeCustody
<1>3. Around /\ Lessens(row')
  BY <1>2, AroundQuiet DEF Shape, TypeOK, Lessens
<1>4. CASE Becomes(p, Idle)
  BY <1>2, <1>3, <1>4, IdleGoes, GoingKeepsShape
<1>5. ASSUME NEW x \in {"start", "dispatch"}, Becomes(p, [s EXCEPT !.at = x]),
             x = "start" => s.at = "custody", x = "dispatch" => s.at = "start" /\ ~Fenced
      PROVE  Shape'
  <2> DEFINE t == [s EXCEPT !.at = x]
  <2>1. /\ t \in SenderType /\ t.at = x /\ t.role = s.role /\ t.claim = s.claim /\ t.seen = s.seen
        /\ t.proved = s.proved /\ t.pre = s.pre /\ t.post = s.post /\ t.got = s.got
        /\ t.accepted = s.accepted /\ t.end = s.end
    BY <1>1 DEF SenderType
  <2>2. Becomes(p, t)
    BY <1>5
  <2> HIDE DEF t
  <2>3. Goes(s, t)
    <3>1. s.at \in {"custody", "start"} /\ (x = "start" => s.at \in Early)
      BY <1>5 DEF Early
    <3>2. /\ ~s.got /\ ~s.accepted /\ s.end # "results" /\ s.role # "none"
          /\ s.role \in {"none", "live", "recovery"}
          /\ s.role = "recovery" => s.end # "abort"
          /\ Fenced => s.post # "acked" /\ s.pre # "acked"
      BY <1>1, <3>1 DEF SenderSound, SenderType
    <3> QED BY <1>5, <2>1, <3>1, <3>2, UnsentGoes
  <2> QED BY <1>2, <1>3, <2>1, <2>2, <2>3, GoingKeepsShape
<1>6. CASE ExactSendStart(p)
  <2>1. ~Fenced
    BY <1>6, DeliveryAssumption DEF ExactSendStart, Exact, Fenced, Kind, Shape, TypeOK
  <2>2. PICK x \in {"start", "dispatch"} : x = "dispatch"
    OBVIOUS
  <2> QED BY <1>5, <1>6, <2>1, <2>2 DEF ExactSendStart
<1>7. CASE TakeCustody(p)
  <2>1. PICK x \in {"start", "dispatch"} : x = "start"
    OBVIOUS
  <2> QED BY <1>4, <1>5, <1>7, <2>1 DEF TakeCustody
<1> QED BY <1>6, <1>7

\* Steps of the environment, and of a producer that is turned away.
LEMMA EnvironmentShape ==
  ASSUME Shape, UNCHANGED delivery,
         LeaseExpires \/ \E p \in Process : LiveSenderTurnedAway(p) \/ Crash(p)
  PROVE  Shape'
<1>1. TypeOK /\ RowSound
  BY DEF Shape
<1>2. CASE LeaseExpires
  <2> DEFINE r == [row EXCEPT !.lease = "expired"]
  <2>1. /\ r \in RowType /\ r.status = row.status /\ r.recoveryState = row.recoveryState
        /\ r.platformSendAttemptId = row.platformSendAttemptId
        /\ r.producerClaimId = row.producerClaimId /\ r.lease = "expired"
    BY <1>1 DEF RowType, TypeOK
  <2>2. row' = r /\ row.lease = "live"
    BY <1>2 DEF LeaseExpires
  <2> HIDE DEF r
  <2>3. row.status # "absent"
    BY <1>1, <2>2, EmptyRows DEF RowSound
  <2>4. Lessens(row')
    BY <1>1, <2>1, <2>2, <2>3 DEF Lessens, RowSound, NeedsReconciliation
  <2>5. Around /\ sender' = sender /\ visible' = visible
    <3>1. UNCHANGED <<intent, sender, submits, crashes, faults, visible, unproved>>
      BY <1>2 DEF LeaseExpires
    <3> QED BY <1>1, <3>1, AroundQuiet DEF TypeOK
  <2>6. sender' = [q \in Process |-> sender'[q]] /\ \A q \in Process : sender'[q].accepted => visible' > 0
    BY <1>1, <2>5 DEF TypeOK, Shape, AcceptedSeen
  <2> QED BY <2>4, <2>5, <2>6, LessKeepsShape
<1>3. ASSUME NEW p \in Process, LiveSenderTurnedAway(p)
      PROVE  Shape'
  <2>1. intent' = [intent EXCEPT ![p] = "none"]
        /\ UNCHANGED <<row, sender, submits, crashes, faults, visible, unproved>>
    BY <1>3 DEF LiveSenderTurnedAway
  <2>2. Around /\ Lessens(row')
    <3>1. submits = 0 => unproved = {}
      BY DEF Shape, Submissions
    <3> QED BY <1>1, <2>1, <3>1 DEF Around, TypeOK, Lessens
  <2>3. sender' = [q \in Process |-> sender'[q]] /\ \A q \in Process : sender'[q].accepted => visible' > 0
    BY <1>1, <2>1 DEF TypeOK, Shape, AcceptedSeen
  <2> QED BY <2>1, <2>2, <2>3, LessKeepsShape
<1>4. ASSUME NEW p \in Process, Crash(p)
      PROVE  Shape'
  <2>1. /\ intent' = [intent EXCEPT ![p] = "none"] /\ Becomes(p, Idle)
        /\ crashes < MaxCrashes /\ crashes' = crashes + 1
        /\ UNCHANGED <<row, submits, faults, visible, unproved>>
    BY <1>4 DEF Crash
  <2>2. Around /\ Lessens(row')
    <3>1. submits = 0 => unproved = {}
      BY DEF Shape, Submissions
    <3>2. crashes' \in 0 .. MaxCrashes
      BY <1>1, <2>1, BoundAssumption DEF TypeOK
    <3> QED BY <1>1, <2>1, <3>1, <3>2 DEF Around, TypeOK, Lessens
  <2> QED BY <2>1, <2>2, IdleGoes, GoingKeepsShape
<1> QED BY <1>2, <1>3, <1>4

\* Recovery without a claim writes only where nobody has one.
LEMMA NobodyOwns ==
  ASSUME Owned(RecoveryOwner(Nil))
  PROVE  /\ Pending
         /\ Fenced => row.producerClaimId = Nil /\ row.platformSendAttemptId = Nil
BY OwnerAssumption DEF Owned, RecoveryOwner

\* What a scan and an unresolved reconciliation do to the row.
NobodyWrites(new) ==
  /\ faults' \in 0 .. MaxFaults
  /\ \/ row' = row
     \/ /\ Pending /\ row' = new
        /\ Fenced => row.producerClaimId = Nil /\ row.platformSendAttemptId = Nil

\* They write as nobody.
LEMMA NobodyWrote ==
  ASSUME Shape, NEW new, Write(RecoveryOwner(Nil), new)
  PROVE  NobodyWrites(new)
BY WriteEither, NobodyOwns DEF NobodyWrites

\* A scan that moves the row to the dead letters.
LEMMA ScanWrites ==
  ASSUME Shape, UNCHANGED delivery, NEW p \in Process, ScanRejects(p) \/ ScanDeadLetters(p)
  PROVE  /\ NobodyWrites(MovedToFailed)
         /\ UNCHANGED <<intent, sender, submits, crashes, visible, unproved>>
         /\ Shape'
<1>1. /\ Write(RecoveryOwner(Nil), MovedToFailed)
      /\ UNCHANGED <<intent, sender, submits, crashes, visible, unproved>>
  BY DEF ScanRejects, ScanDeadLetters
<1>2. NobodyWrites(MovedToFailed)
  BY <1>1, NobodyWrote
<1>3. Around /\ Lessens(row')
  BY <1>1, <1>2, AroundQuiet, MovedRow DEF NobodyWrites, Lessens
<1>4. sender' = [q \in Process |-> sender'[q]] /\ \A q \in Process : sender'[q].accepted => visible' > 0
  BY <1>1 DEF Shape, TypeOK, AcceptedSeen
<1> QED BY <1>1, <1>2, <1>3, <1>4, LessKeepsShape

\* A reconciliation that finds the message delivered, or finds nothing out.
LEMMA ReconciledShape ==
  ASSUME Shape, UNCHANGED delivery, NEW p \in Process, ReconciledSent(p) \/ Unreconciled(p)
  PROVE  /\ Becomes(p, Idle) /\ UNCHANGED <<intent, submits, crashes, visible, unproved>>
         /\ faults' \in 0 .. MaxFaults
         /\ \/ row' = row
            \/ /\ Pending /\ row' \in {FailDelivery, MovedToFailed}
               /\ Fenced => row.producerClaimId = Nil /\ row.platformSendAttemptId = Nil
            \/ /\ Reconciles /\ visible > 0 /\ Pending
               /\ Fenced => \/ row.lease # "live"
                            \/ row.producerClaimId = Nil /\ row.platformSendAttemptId = Nil
               /\ row' \in {FailDelivery, Receipt} \/ (row' = AbsentRow /\ Kind = "ordinary")
         /\ Lessens(row')
         /\ Shape'
<1>1. Becomes(p, Idle) /\ UNCHANGED <<intent, submits, crashes, visible, unproved>>
  BY DEF ReconciledSent, Unreconciled
<1>2. /\ faults' \in 0 .. MaxFaults
      /\ \/ row' = row
         \/ /\ Pending /\ row' \in {FailDelivery, MovedToFailed}
            /\ Fenced => row.producerClaimId = Nil /\ row.platformSendAttemptId = Nil
         \/ /\ Reconciles /\ visible > 0 /\ Pending
            /\ Fenced => \/ row.lease # "live"
                         \/ row.producerClaimId = Nil /\ row.platformSendAttemptId = Nil
            /\ row' \in {FailDelivery, Receipt} \/ (row' = AbsentRow /\ Kind = "ordinary")
  <2>1. CASE Unreconciled(p)
    <3>1. Write(RecoveryOwner(Nil), FailDelivery) \/ Write(RecoveryOwner(Nil), MovedToFailed)
      BY <2>1 DEF Unreconciled
    <3> QED BY <3>1, NobodyWrote DEF NobodyWrites
  <2>2. CASE ReconciledSent(p)
    <3> DEFINE owner == RecoveryOwner(sender[p].seen.platformSendAttemptId)
    <3>1. PICK no \in BOOLEAN : no = FALSE
      OBVIOUS
    <3>2. Reconciles /\ visible > 0 /\ WriteElse(owner, Acked(no), FailDelivery)
      BY <2>2, <3>1 DEF ReconciledSent
    <3>3. /\ faults' \in 0 .. MaxFaults
          /\ row' = row \/ (Owned(owner) /\ Pending /\ row' \in {Acked(no), FailDelivery})
      BY <3>2, WriteElseEither
    <3>4. Pending => Acked(no) = Receipt \/ (Acked(no) = AbsentRow /\ Kind = "ordinary")
      <4>1. Kind \in {"ordinary", "receipt", "stable"}
        BY DeliveryAssumption DEF Shape, TypeOK, Kind, DeliveryType
      <4> QED BY <3>1, <4>1, AckedRow DEF Fenced
    <3>5. ASSUME Owned(owner), Fenced
          PROVE  \/ row.lease # "live"
                 \/ row.producerClaimId = Nil /\ row.platformSendAttemptId = Nil
      <4> DEFINE id == sender[p].seen.platformSendAttemptId
      <4>1. id \in Id \cup {Nil}
        BY DEF Shape, TypeOK, SenderType, RowType
      <4>2. CASE id = Nil
        BY <3>5, <4>2, NobodyOwns
      <4>3. CASE id # Nil
        <5>1. owner = id /\ id \in Id
          BY <4>1, <4>3 DEF RecoveryOwner
        <5>2. id \in {row.platformSendAttemptId, row.producerClaimId}
          BY <3>5, <5>1, OwnerAssumption DEF Owned
        <5> QED BY <4>3, <5>2 DEF Shape, ClaimsApart
      <4> QED BY <4>2, <4>3
    <3> QED BY <3>2, <3>3, <3>4, <3>5
  <2> QED BY <2>1, <2>2
<1>3. Lessens(row')
  BY <1>2, FailDeliveryRow, MovedRow, ReceiptRow DEF Lessens
<1>4. Around
  BY <1>1, <1>2, AroundQuiet
<1> QED BY <1>1, <1>2, <1>3, <1>4, IdleGoes, GoingKeepsShape

\* A reconciliation that finds that nothing was sent.
LEMMA ReconciledNotSentShape ==
  ASSUME Shape, UNCHANGED delivery, NEW p \in Process, ReconciledNotSent(p)
  PROVE  Shape'
<1> DEFINE s == sender[p]
           t == [s EXCEPT !.proved = TRUE, !.at = "fence"]
<1>1. s \in SenderType /\ SenderSound(s) /\ TypeOK
  BY DEF Shape, TypeOK, SendersSound
<1>2. s.at = "reconcile" /\ Reconciles /\ unproved' = {} /\ UNCHANGED <<intent, submits, crashes, visible>>
  BY DEF ReconciledNotSent
<1>3. \/ NoWrite /\ Becomes(p, t)
      \/ Write(RecoveryOwner(Nil), MovedToFailed) /\ Becomes(p, Idle)
  BY ZenonT(20) DEF ReconciledNotSent
<1>4. /\ t \in SenderType /\ t.at = "fence" /\ t.role = s.role /\ t.claim = s.claim /\ t.seen = s.seen
      /\ t.proved /\ t.pre = s.pre /\ t.post = s.post /\ t.got = s.got
      /\ t.accepted = s.accepted /\ t.end = s.end
  BY <1>1 DEF SenderType
<1> HIDE DEF t
<1>5. Goes(s, t)
  <2>1. SenderSound(t)
    BY <1>1, <1>2, <1>4 DEF SenderSound, Claimant
  <2> QED BY <1>2, <1>4, <2>1 DEF Goes, Early
<1>6. faults' \in 0 .. MaxFaults /\ Lessens(row')
  BY <1>1, <1>3, NobodyWrote, MovedRow DEF NoWrite, NobodyWrites, TypeOK, Lessens
<1>7. Around
  BY <1>1, <1>2, <1>6 DEF Around, TypeOK
<1> QED BY <1>2, <1>3, <1>4, <1>5, <1>6, <1>7, IdleGoes, GoingKeepsShape

\* An attempt of recovery is reserved or refused.
LEMMA ReserveAttemptShape ==
  ASSUME Shape, UNCHANGED delivery, NEW p \in Process, ReserveAttempt(p) \/ DeadLetterSpent(p)
  PROVE  /\ faults' \in 0 .. MaxFaults /\ UNCHANGED <<intent, submits, crashes, visible, unproved>>
         /\ sender[p].at \in {"reserve", "spent"}
         /\ \/ row' = row /\ Becomes(p, Idle)
            \/ /\ row' = row /\ sender[p].at = "reserve"
               /\ Becomes(p, [sender[p] EXCEPT !.at = "spent"])
            \/ Entitled(p) /\ Pending /\ row' = MovedToFailed /\ Becomes(p, Idle)
            \/ /\ Entitled(p) /\ Pending /\ ~Exhausted(row)
               /\ row' = [row EXCEPT !.attemptCount = AttemptCount(row) + 1]
               /\ Becomes(p, [sender[p] EXCEPT !.at = "start"])
         /\ Shape'
<1> DEFINE s == sender[p]
           t == [s EXCEPT !.at = "start"]
           u == [s EXCEPT !.at = "spent"]
<1>1. s \in SenderType /\ SenderSound(s) /\ TypeOK
  BY DEF Shape, TypeOK, SendersSound
<1>2. /\ s.at \in {"reserve", "spent"}
      /\ UNCHANGED <<intent, submits, crashes, visible, unproved>>
  BY DEF ReserveAttempt, DeadLetterSpent
<1>3. PICK z \in 0 .. 3, one \in 0 .. 3 : z = 0 /\ one = 1
  OBVIOUS
<1>4. \/ /\ ~Exhausted(row)
         /\ Took(OwnerOf(s.claim), z, [row EXCEPT !.attemptCount = AttemptCount(row) + 1])
         /\ Becomes(p, t)
      \/ Took(OwnerOf(s.claim), z, row) /\ s.at = "reserve" /\ Becomes(p, u)
      \/ Took(OwnerOf(s.claim), z, MovedToFailed) /\ Becomes(p, Idle)
      \/ Refused(OwnerOf(s.claim), one) /\ Becomes(p, Idle)
  <2>1. CASE ReserveAttempt(p)
    BY <1>3, <2>1 DEF ReserveAttempt
  <2>2. CASE DeadLetterSpent(p)
    BY <1>3, <2>2 DEF DeadLetterSpent, Write
  <2> QED BY <2>1, <2>2
<1>5. Owned(OwnerOf(s.claim)) => Entitled(p) /\ Pending
  BY <1>2, OwnerIsEntitled DEF Claimant
<1>6. /\ faults' \in 0 .. MaxFaults
      /\ \/ row' = row /\ Becomes(p, Idle)
         \/ row' = row /\ s.at = "reserve" /\ Becomes(p, u)
         \/ Entitled(p) /\ Pending /\ row' = MovedToFailed /\ Becomes(p, Idle)
         \/ /\ Entitled(p) /\ Pending /\ ~Exhausted(row)
            /\ row' = [row EXCEPT !.attemptCount = AttemptCount(row) + 1]
            /\ Becomes(p, t)
  BY <1>4, <1>5, TookIsOwned, RefusedIsQuiet
<1>7. /\ t \in SenderType /\ t.at = "start" /\ t.role = s.role /\ t.claim = s.claim /\ t.seen = s.seen
      /\ t.proved = s.proved /\ t.pre = s.pre /\ t.post = s.post /\ t.got = s.got
      /\ t.accepted = s.accepted /\ t.end = s.end
  BY <1>1 DEF SenderType
<1>11. /\ u \in SenderType /\ u.at = "spent" /\ u.role = s.role /\ u.claim = s.claim /\ u.seen = s.seen
       /\ u.proved = s.proved /\ u.pre = s.pre /\ u.post = s.post /\ u.got = s.got
       /\ u.accepted = s.accepted /\ u.end = s.end
  BY <1>1 DEF SenderType
<1>12. Goes(s, u)
  <2> HIDE DEF u
  <2>1. SenderSound(u)
    BY <1>1, <1>2, <1>11 DEF SenderSound, Claimant
  <2> QED BY <1>2, <1>11, <2>1 DEF Goes, Early
<1>8. Around /\ Lessens(row')
  BY <1>2, <1>6, AroundQuiet, MovedRow, ReservedRow DEF Lessens
<1>9. Goes(s, t)
  <2> HIDE DEF t
  <2>1. SenderSound(t)
    BY <1>1, <1>2, <1>7 DEF SenderSound, Claimant
  <2> QED BY <1>2, <1>7, <2>1 DEF Goes, Early
<1>10. Shape'
  <2> HIDE DEF t, u
  <2> QED BY <1>2, <1>6, <1>7, <1>8, <1>9, <1>11, <1>12, IdleGoes, GoingKeepsShape
<1> QED BY <1>2, <1>6, <1>10

-----------------------------------------------------------------------------
(* Shape: steps that make a claim, or show the row to a sender *)

\* A row that p alone has claimed, or is about to send for.
Holds(t, r) ==
  /\ r \in RowType /\ r.status = "pending" /\ r.lease = "live" /\ t.claim # Nil
  /\ \/ /\ r.producerClaimId = t.claim /\ r.platformSendAttemptId = Nil
        /\ r.recoveryState = "producer_claimed"
     \/ /\ r.producerClaimId = Nil /\ r.platformSendAttemptId = t.claim
        /\ r.recoveryState = "send_attempt_started" /\ t.at = "dispatch"

\* Such a step keeps the shape.
LEMMA ClaimKeepsShape ==
  ASSUME Shape, Around, visible' = visible, Fenced, NEW p \in Process, NEW t \in SenderType,
         Becomes(p, t), SenderSound(t), t.accepted => sender[p].accepted,
         t.seen \in {sender[p].seen, AbsentRow}, sender[p].at # "idle",
         Holds(t, row'),
         \A q \in Process : /\ q # p => sender[q].claim # t.claim
                            /\ sender[q].seen.platformSendAttemptId # t.claim
  PROVE  Shape'
<1>1. TypeOK /\ SendersSound
  BY DEF Shape
<1>2. Fenced' = Fenced /\ Reconciles' = Reconciles /\ Kind' = Kind
  BY DEF Around, Fenced, Kind, Reconciles
<1>3. \A q \in Process : sender'[q] = IF q = p THEN t ELSE sender[q]
  BY <1>1 DEF Becomes, TypeOK
<1>4. TypeOK'
  BY <1>1 DEF TypeOK, Around, Becomes, Holds
<1>5. RowSound'
  BY DEF RowSound, Holds, NeedsReconciliation
<1>6. ClaimsFenced'
  BY <1>2 DEF ClaimsFenced
<1>7. SendersSound'
  <2>1. \A q \in Process : SenderSound(sender'[q])
    BY <1>1, <1>3 DEF SendersSound
  <2> QED BY <1>2, <2>1 DEF SendersSound, SenderSound
<1>8. AcceptedSeen'
  BY <1>3 DEF Shape, AcceptedSeen
<1>9. ClaimsApart'
  <2>1. \A q, o \in Process : sender'[q].claim = sender'[o].claim => q = o \/ sender'[q].claim = Nil
    BY <1>3 DEF Shape, ClaimsApart
  <2>2. \A q \in Process : \/ sender'[q].seen.platformSendAttemptId = Nil
                           \/ sender'[q].seen.platformSendAttemptId \notin {Nil, t.claim}
    BY <1>3, EmptyRows
  <2>3. row'.producerClaimId \in {Nil, t.claim} /\ row'.platformSendAttemptId \in {Nil, t.claim}
    BY DEF Holds
  <2> QED BY <2>1, <2>2, <2>3 DEF ClaimsApart
<1>10. NotYetAttempts'
  <2> SUFFICES ASSUME NEW q \in Process, sender'[q].at \in Early
               PROVE  row'.platformSendAttemptId # sender'[q].claim
    BY DEF NotYetAttempts
  <2>1. CASE q = p
    BY <1>3, <2>1 DEF Holds, Early
  <2>2. CASE q # p
    <3>1. sender[q].claim # Nil
      BY <1>1, <1>3, <2>2 DEF SendersSound, SenderSound, Early, Claimant
    <3> QED BY <1>3, <2>2, <3>1 DEF Holds
  <2> QED BY <2>1, <2>2
<1>11. Submissions'
  <2>1. submits # 0
    <3>1. sender[p] # Idle
      BY IdleGoes
    <3> QED BY <3>1 DEF Shape, Submissions
  <2> QED BY <1>2, <2>1 DEF Submissions, Around
<1> QED BY <1>4, <1>5, <1>6, <1>7, <1>8, <1>9, <1>10, <1>11 DEF Shape

\* A claimed row.
LEMMA ClaimedRow ==
  ASSUME Shape, Pending, NEW id \in Id
  PROVE  LET r == Claimed(id)
         IN  /\ r \in RowType /\ r.status = "pending" /\ r.lease = "live"
             /\ r.producerClaimId = id /\ r.platformSendAttemptId = Nil
             /\ r.recoveryState = "producer_claimed"
<1>0. row \in RowType
  BY DEF Shape, TypeOK
<1> DEFINE r == Claimed(id)
<1>1. r = [row EXCEPT !.lease = "live", !.producerClaimId = id,
                           !.platformSendAttemptId = Nil, !.platformSendStartedAt = Nil,
                           !.recoveryState = "producer_claimed"]
  BY DEF Claimed
<1> HIDE DEF r
<1>2. r \in RowType
  BY <1>0, <1>1 DEF RowType
<1> QED BY <1>0, <1>1, <1>2 DEF RowType, Pending, r

\* A row whose claimant is about to send.
LEMMA PromotedRow ==
  ASSUME Shape, Pending, NEW id \in Id, NEW now \in Stamp
  PROVE  LET r == Promoted(id, now)
         IN  /\ r \in RowType /\ r.status = "pending" /\ r.lease = "live"
             /\ r.producerClaimId = Nil /\ r.platformSendAttemptId = id
             /\ r.recoveryState = "send_attempt_started" /\ r.platformSendStartedAt = now
<1>0. row \in RowType
  BY DEF Shape, TypeOK
<1> DEFINE r == Promoted(id, now)
<1>1. r = [row EXCEPT !.lease = "live", !.producerClaimId = Nil, !.platformSendAttemptId = id,
              !.platformSendStartedAt = now, !.recoveryState = "send_attempt_started"]
  BY DEF Promoted
<1> HIDE DEF r
<1>2. r \in RowType
  BY <1>0, <1>1 DEF RowType
<1> QED BY <1>0, <1>1, <1>2 DEF RowType, Pending, r

\* A fresh claim is nobody's.
LEMMA FreshClaim ==
  ASSUME NEW id \in FreshId
  PROVE  /\ id \in Id
         /\ \A q \in Process : sender[q].claim # id /\ sender[q].seen.platformSendAttemptId # id
BY DEF FreshId

\* A producer claims its row, or gives up.
LEMMA ClaimPendingShape ==
  ASSUME Shape, UNCHANGED delivery, NEW p \in Process, ClaimPending(p)
  PROVE  Shape'
<1> DEFINE s == sender[p]
<1>1. s \in SenderType /\ SenderSound(s) /\ TypeOK
  BY DEF Shape, TypeOK, SendersSound
<1>2. s.at \in {"claim", "reclaim"} /\ UNCHANGED <<intent, submits, crashes, visible, unproved>>
  BY DEF ClaimPending
<1>3. PICK may \in BOOLEAN : may = Claimable(AbsentRow, FALSE)
  BY DEF Claimable
<1>4. may => Pending
  BY <1>3 DEF Claimable
<1>5. \/ /\ may /\ faults' = faults
         /\ \E id \in FreshId :
              /\ row' = Claimed(id)
              /\ Becomes(p, [s EXCEPT !.claim = id, !.at = IF @ = "claim" THEN "start" ELSE "custody"])
      \/ /\ ~may \/ faults < MaxFaults
         /\ faults' = faults + (IF may THEN 1 ELSE 0)
         /\ Becomes(p, Idle) /\ row' = row
  BY <1>3 DEF ClaimPending
<1>6. CASE /\ ~may \/ faults < MaxFaults
           /\ faults' = faults + (IF may THEN 1 ELSE 0)
           /\ Becomes(p, Idle) /\ row' = row
  <2>1. faults' \in 0 .. MaxFaults
    BY <1>1, <1>6, BoundAssumption DEF TypeOK
  <2>2. Around /\ Lessens(row')
    BY <1>2, <1>6, <2>1, AroundQuiet DEF Lessens
  <2> QED BY <1>2, <1>6, <2>2, IdleGoes, GoingKeepsShape
<1>7. ASSUME may, faults' = faults, NEW id \in FreshId, row' = Claimed(id),
             Becomes(p, [s EXCEPT !.claim = id, !.at = IF @ = "claim" THEN "start" ELSE "custody"])
      PROVE  Shape'
  <2>1. PICK a \in {"start", "custody"} : a = IF s.at = "claim" THEN "start" ELSE "custody"
    OBVIOUS
  <2> DEFINE t == [s EXCEPT !.claim = id, !.at = a]
  <2>2. Becomes(p, t) /\ t = [s EXCEPT !.claim = id, !.at = a]
    BY <1>1, <1>7, <2>1 DEF SenderType
  <2> HIDE DEF t
  <2>3. id \in Id /\ id # Nil
    BY FreshClaim, NilAssumption
  <2>4. t \in SenderType
    BY <1>1, <2>2, <2>3 DEF SenderType
  <2>5. /\ t.at = a /\ t.role = s.role /\ t.claim = id /\ t.seen = s.seen
        /\ t.proved = s.proved /\ t.pre = s.pre /\ t.post = s.post /\ t.got = s.got
        /\ t.accepted = s.accepted /\ t.end = s.end
    BY <1>1, <2>2 DEF SenderType
  <2>6. Fenced /\ SenderSound(t)
    BY <1>1, <1>2, <2>3, <2>5 DEF SenderSound, Claimant
  <2>7. Holds(t, row')
    BY <1>4, <1>7, <2>3, <2>5, ClaimedRow DEF Holds
  <2>8. Around
    BY <1>1, <1>2, <1>7, AroundQuiet DEF TypeOK
  <2>9. \A q \in Process : /\ q # p => sender[q].claim # t.claim
                           /\ sender[q].seen.platformSendAttemptId # t.claim
    BY <2>5, FreshClaim
  <2>10. t.seen \in {sender[p].seen, AbsentRow} /\ sender[p].at # "idle" /\ visible' = visible
         /\ (t.accepted => sender[p].accepted)
    BY <1>2, <2>5
  <2> QED BY <2>2, <2>4, <2>6, <2>7, <2>8, <2>9, <2>10, ClaimKeepsShape
<1> QED BY <1>5, <1>6, <1>7

\* Recovery goes on without a claim, with one, or not at all.
LEMMA FenceRecoveryShape ==
  ASSUME Shape, UNCHANGED delivery, NEW p \in Process, FenceRecovery(p)
  PROVE  Shape'
<1> DEFINE s == sender[p]
           n == [s EXCEPT !.at = "reserve", !.seen = AbsentRow, !.proved = FALSE]
<1>1. s \in SenderType /\ SenderSound(s) /\ TypeOK
  BY DEF Shape, TypeOK, SendersSound
<1>2. s.at = "fence" /\ UNCHANGED <<intent, submits, crashes, visible, unproved>>
  BY DEF FenceRecovery
<1>3. PICK may \in BOOLEAN : may = Claimable(s.seen, s.proved)
  BY DEF Claimable
<1>4. may => Pending
  BY <1>3 DEF Claimable
<1>5. \/ ~RequiresClaim(s.seen) /\ NoWrite /\ Becomes(p, n)
      \/ /\ RequiresClaim(s.seen) /\ may /\ faults' = faults
         /\ \E id \in FreshId : row' = Claimed(id) /\ Becomes(p, [n EXCEPT !.claim = id])
      \/ /\ RequiresClaim(s.seen) /\ (~may \/ faults < MaxFaults)
         /\ faults' = faults + (IF may THEN 1 ELSE 0)
         /\ row' = row /\ Becomes(p, Idle)
  BY <1>3, ZenonT(30) DEF FenceRecovery
<1>6. n \in SenderType
  BY <1>1, EmptyRows DEF SenderType
<1>7. /\ n.at = "reserve" /\ n.role = s.role /\ n.claim = s.claim /\ n.seen = AbsentRow
      /\ ~n.proved /\ n.pre = s.pre /\ n.post = s.post /\ n.got = s.got
      /\ n.accepted = s.accepted /\ n.end = s.end
  BY <1>1 DEF SenderType
<1> HIDE DEF n
<1>8. RequiresClaim(s.seen) = Fenced
  BY <1>1 DEF RequiresClaim, Shape, ClaimsFenced, Fenced
<1>9. CASE ~Fenced /\ NoWrite /\ Becomes(p, n)
  <2>1. Goes(s, n)
    <3>1. SenderSound(n)
      BY <1>1, <1>2, <1>7, <1>9 DEF SenderSound, Claimant
    <3> QED BY <1>2, <1>6, <1>7, <1>9, <3>1 DEF Goes
  <2>2. Around /\ Lessens(row')
    BY <1>1, <1>2, <1>9, AroundQuiet DEF NoWrite, TypeOK, Lessens
  <2> QED BY <1>2, <1>7, <1>9, <2>1, <2>2, GoingKeepsShape
<1>10. CASE /\ ~may \/ faults < MaxFaults
            /\ faults' = faults + (IF may THEN 1 ELSE 0)
            /\ Becomes(p, Idle) /\ row' = row
  <2>1. faults' \in 0 .. MaxFaults
    BY <1>1, <1>10, BoundAssumption DEF TypeOK
  <2>2. Around /\ Lessens(row')
    BY <1>2, <1>10, <2>1, AroundQuiet DEF Lessens
  <2> QED BY <1>2, <1>10, <2>2, IdleGoes, GoingKeepsShape
<1>11. ASSUME Fenced, may, faults' = faults, NEW id \in FreshId, row' = Claimed(id),
              Becomes(p, [n EXCEPT !.claim = id])
       PROVE  Shape'
  <2> DEFINE t == [n EXCEPT !.claim = id]
  <2>1. Becomes(p, t) /\ t = [n EXCEPT !.claim = id]
    BY <1>11
  <2> HIDE DEF t
  <2>2. id \in Id /\ id # Nil
    BY FreshClaim, NilAssumption
  <2>3. t \in SenderType
    BY <1>6, <2>1, <2>2 DEF SenderType
  <2>4. /\ t.at = "reserve" /\ t.role = s.role /\ t.claim = id /\ t.seen = AbsentRow
        /\ ~t.proved /\ t.pre = s.pre /\ t.post = s.post /\ t.got = s.got
        /\ t.accepted = s.accepted /\ t.end = s.end
    BY <1>6, <1>7, <2>1 DEF SenderType
  <2>5. SenderSound(t)
    BY <1>1, <1>2, <2>2, <2>4 DEF SenderSound, Claimant
  <2>6. Holds(t, row')
    BY <1>4, <1>11, <2>2, <2>4, ClaimedRow DEF Holds
  <2>7. Around
    BY <1>1, <1>2, <1>11, AroundQuiet DEF TypeOK
  <2>8. \A q \in Process : /\ q # p => sender[q].claim # t.claim
                           /\ sender[q].seen.platformSendAttemptId # t.claim
    BY <2>4, FreshClaim
  <2>9. t.seen \in {sender[p].seen, AbsentRow} /\ sender[p].at # "idle" /\ visible' = visible
        /\ (t.accepted => sender[p].accepted)
    BY <1>2, <2>4
  <2> QED BY <1>11, <2>1, <2>3, <2>5, <2>6, <2>7, <2>8, <2>9, ClaimKeepsShape
<1> QED BY <1>5, <1>8, <1>9, <1>10, <1>11

\* A sender enters, of either kind.
LEMMA EnteringKeepsShape ==
  ASSUME Shape, NEW p \in Process, NEW t \in SenderType, Becomes(p, t), SenderSound(t),
         t.claim = Nil, ~t.accepted, Fenced => t.at \notin Early,
         \/ t.seen = AbsentRow
         \/ t.seen = row /\ (Fenced /\ row.lease = "live" => row.platformSendAttemptId = Nil),
         UNCHANGED <<delivery, row, submits, crashes, faults, visible, unproved>>, submits # 0,
         intent' \in {intent, [intent EXCEPT ![p] = "none"]},
         Kind = "receipt" => row.status # "absent"
  PROVE  Shape'
<1>1. TypeOK /\ RowSound /\ SendersSound
  BY DEF Shape
<1>2. Fenced' = Fenced /\ Reconciles' = Reconciles /\ Kind' = Kind
  BY DEF Fenced, Kind, Reconciles
<1>3. \A q \in Process : sender'[q] = IF q = p THEN t ELSE sender[q]
  BY <1>1 DEF Becomes, TypeOK
<1>4. TypeOK'
  BY <1>1 DEF TypeOK, Becomes
<1>5. RowSound'
  BY <1>1 DEF RowSound, NeedsReconciliation
<1>6. ClaimsFenced'
  <2> SUFFICES ASSUME ~Fenced
               PROVE  /\ row.producerClaimId = Nil /\ row.platformSendAttemptId = Nil
                      /\ row.lease = "none"
                      /\ \A q \in Process : /\ sender'[q].claim = Nil
                                            /\ sender'[q].seen.producerClaimId = Nil
                                            /\ sender'[q].seen.platformSendAttemptId = Nil
    BY <1>2 DEF ClaimsFenced
  <2> QED BY <1>3, EmptyRows DEF Shape, ClaimsFenced
<1>7. SendersSound'
  <2>1. \A q \in Process : SenderSound(sender'[q])
    BY <1>1, <1>3 DEF SendersSound
  <2> QED BY <1>2, <2>1 DEF SendersSound, SenderSound
<1>8. AcceptedSeen'
  BY <1>3 DEF Shape, AcceptedSeen
<1>9. ClaimsApart'
  <2>1. \A q, o \in Process : sender'[q].claim = sender'[o].claim => q = o \/ sender'[q].claim = Nil
    BY <1>3 DEF Shape, ClaimsApart
  <2>2. ASSUME NEW q \in Process, sender'[q].seen.platformSendAttemptId # Nil
        PROVE  /\ sender'[q].seen.platformSendAttemptId # row.producerClaimId
               /\ sender'[q].seen.platformSendAttemptId = row.platformSendAttemptId => row.lease # "live"
    <3>1. CASE q # p
      BY <1>3, <2>2, <3>1 DEF Shape, ClaimsApart
    <3>2. CASE q = p
      <4>1. sender'[q].seen = row /\ row.platformSendAttemptId # Nil
        BY <1>3, <2>2, <3>2, EmptyRows
      <4>2. Fenced
        BY <4>1 DEF Shape, ClaimsFenced
      <4>3. row.producerClaimId = Nil /\ row.lease # "live"
        BY <1>1, <1>3, <3>2, <4>1, <4>2, EmptyRows DEF RowSound
      <4> QED BY <4>1, <4>3
    <3> QED BY <3>1, <3>2
  <2> QED BY <2>1, <2>2 DEF ClaimsApart
<1>10. NotYetAttempts'
  <2> SUFFICES ASSUME NEW q \in Process, Fenced, sender'[q].at \in Early
               PROVE  row.platformSendAttemptId # sender'[q].claim
    BY <1>2 DEF NotYetAttempts
  <2>1. q # p /\ sender'[q] = sender[q]
    BY <1>3
  <2> QED BY <2>1 DEF Shape, NotYetAttempts
<1>11. Submissions'
  <2>1. \A q \in Process : intent'[q] \in {intent[q], "none"}
    BY <1>1 DEF TypeOK
  <2> QED BY <1>2, <1>3, <2>1 DEF Submissions, Shape
<1> QED BY <1>4, <1>5, <1>6, <1>7, <1>8, <1>9, <1>10, <1>11 DEF Shape

\* A live sender enters.
LEMMA LiveSenderEntersShape ==
  ASSUME Shape, UNCHANGED delivery, NEW p \in Process, LiveSenderEnters(p)
  PROVE  /\ Shape'
         /\ \E t \in SenderType : /\ Becomes(p, t) /\ t.at \in {"start", "claim", "reclaim"}
                                  /\ t.at = "start" <=> ~Fenced
                                  /\ t.claim = Nil /\ ~t.proved /\ t.pre = "none"
<1>1. TypeOK /\ SendersSound
  BY DEF Shape
<1>2. /\ intent[p] # "none" /\ sender[p] = Idle
      /\ intent' = [intent EXCEPT ![p] = "none"]
      /\ UNCHANGED <<row, submits, crashes, faults, visible, unproved>>
  BY DEF LiveSenderEnters
<1>3. PICK a \in {"start", "claim", "reclaim"} :
        a = IF ~Fenced THEN "start" ELSE IF intent[p] = "created" THEN "claim" ELSE "reclaim"
  OBVIOUS
<1>4. (a = "start") <=> ~Fenced
  BY <1>3
<1> DEFINE t == [Idle EXCEPT !.role = "live", !.at = a]
<1>5. Becomes(p, t) /\ t = [Idle EXCEPT !.role = "live", !.at = a]
  BY <1>3 DEF LiveSenderEnters
<1> HIDE DEF t
<1>6. Idle \in SenderType
  BY IdleGoes
<1>7. t \in SenderType
  BY <1>5, <1>6 DEF SenderType
<1>8. /\ t.at = a /\ t.role = "live" /\ t.claim = Idle.claim /\ t.seen = Idle.seen
      /\ t.proved = Idle.proved /\ t.pre = Idle.pre /\ t.post = Idle.post /\ t.got = Idle.got
      /\ t.accepted = Idle.accepted /\ t.end = Idle.end
  BY <1>5, <1>6 DEF SenderType
<1>9. SenderSound(t)
  BY <1>4, <1>8, IdleGoes DEF SenderSound, Claimant
<1>10. submits # 0 /\ (Kind = "receipt" => row.status # "absent")
  BY <1>2 DEF Shape, Submissions, Fenced
<1>11. t.claim = Nil /\ ~t.accepted /\ (Fenced => t.at \notin Early) /\ t.seen = AbsentRow
  BY <1>4, <1>8, IdleGoes DEF Early
<1>12. Shape'
  BY <1>2, <1>5, <1>7, <1>9, <1>10, <1>11, EnteringKeepsShape
<1> QED BY <1>4, <1>5, <1>7, <1>8, <1>11, <1>12, IdleGoes

\* A scan begins with the row.
LEMMA ScanBeginsShape ==
  ASSUME Shape, UNCHANGED delivery, NEW p \in Process, ScanBegins(p)
  PROVE  /\ Shape'
         /\ \E t \in SenderType : /\ Becomes(p, t) /\ t.at \in {"reconcile", "fence"}
                                  /\ t.claim = Nil /\ ~t.proved /\ t.pre = "none"
                                  /\ t.at = "fence" => ~NeedsReconciliation(row)
<1>1. TypeOK /\ SendersSound
  BY DEF Shape
<1>2. /\ sender[p] = Idle /\ Pending /\ ~HasActiveOwner(row)
      /\ UNCHANGED <<row, intent, submits, crashes, faults, visible, unproved>>
  BY DEF ScanBegins, Scannable
<1>3. PICK a \in {"reconcile", "fence"} : a = IF NeedsReconciliation(row) THEN "reconcile" ELSE "fence"
  OBVIOUS
<1> DEFINE t == [Idle EXCEPT !.role = "recovery", !.seen = row, !.at = a]
<1>4. Becomes(p, t) /\ t = [Idle EXCEPT !.role = "recovery", !.seen = row, !.at = a]
  BY <1>3 DEF ScanBegins
<1> HIDE DEF t
<1>5. Idle \in SenderType /\ row \in RowType
  BY <1>1, IdleGoes DEF TypeOK
<1>6. t \in SenderType
  BY <1>4, <1>5 DEF SenderType
<1>7. /\ t.at = a /\ t.role = "recovery" /\ t.claim = Idle.claim /\ t.seen = row
      /\ t.proved = Idle.proved /\ t.pre = Idle.pre /\ t.post = Idle.post /\ t.got = Idle.got
      /\ t.accepted = Idle.accepted /\ t.end = Idle.end
  BY <1>4, <1>5 DEF SenderType
<1>8. SenderSound(t)
  BY <1>7, IdleGoes DEF SenderSound, Claimant
<1>9. submits # 0 /\ row.status # "absent"
  BY <1>2, EmptyRows DEF Shape, Submissions, Pending
<1>10. Fenced /\ row.lease = "live" => row.platformSendAttemptId = Nil
  BY <1>2 DEF HasActiveOwner, Shape, RowSound
<1>11. t.claim = Nil /\ ~t.accepted /\ (Fenced => t.at \notin Early) /\ t.seen = row
  BY <1>7, IdleGoes DEF Early
<1>12. Shape'
  BY <1>2, <1>4, <1>6, <1>8, <1>9, <1>10, <1>11, EnteringKeepsShape
<1> QED BY <1>3, <1>4, <1>6, <1>7, <1>11, <1>12, IdleGoes

\* The producer submits its intent.
LEMMA SubmitShape ==
  ASSUME Shape, UNCHANGED delivery, NEW p \in Process, Submit(p)
  PROVE  Shape'
<1>1. TypeOK /\ RowSound /\ SendersSound
  BY DEF Shape
<1>2. Fenced' = Fenced /\ Reconciles' = Reconciles /\ Kind' = Kind
  BY DEF Fenced, Kind, Reconciles
<1>3. /\ submits < MaxSubmits /\ submits' = submits + 1
      /\ Kind = "ordinary" => submits = 0
      /\ row' = IF row.status = "absent" THEN Inserted ELSE row
      /\ intent' = [intent EXCEPT ![p] = IF Kind = "receipt" THEN "none"
                                     ELSE IF row.status = "absent" THEN "created"
                                     ELSE "existing"]
      /\ UNCHANGED <<sender, crashes, faults, visible, unproved>>
  BY DEF Submit
<1>4. \/ row' = row
      \/ /\ row' \in RowType /\ row'.status = "pending" /\ row'.recoveryState = "none"
         /\ row'.producerClaimId = Nil /\ row'.platformSendAttemptId = Nil /\ row'.lease = "none"
  <2>1. PICK st \in {"pending", "completed"} : st = "pending"
    OBVIOUS
  <2>2. /\ Inserted \in RowType /\ Inserted.status = "pending" /\ Inserted.recoveryState = "none"
        /\ Inserted.producerClaimId = Nil /\ Inserted.platformSendAttemptId = Nil
        /\ Inserted.lease = "none"
    BY <2>1, EmptyRows DEF Inserted
  <2> QED BY <1>3, <2>2
<1>5. submits' \in 0 .. MaxSubmits /\ submits' # 0
  BY <1>1, <1>3, BoundAssumption DEF TypeOK
<1>6. TypeOK'
  BY <1>1, <1>3, <1>4, <1>5 DEF TypeOK
<1>7. RowSound'
  BY <1>1, <1>4 DEF RowSound, NeedsReconciliation
<1>8. ClaimsFenced'
  BY <1>2, <1>3, <1>4 DEF Shape, ClaimsFenced
<1>9. SendersSound'
  BY <1>1, <1>2, <1>3 DEF SendersSound, SenderSound
<1>10. AcceptedSeen' /\ ClaimsApart'
  BY <1>3, <1>4 DEF Shape, AcceptedSeen, ClaimsApart
<1>11. NotYetAttempts'
  <2> SUFFICES ASSUME NEW q \in Process, Fenced, sender[q].at \in Early
               PROVE  row'.platformSendAttemptId # sender[q].claim
    BY <1>2, <1>3 DEF NotYetAttempts
  <2>1. sender[q].claim # Nil
    BY <1>1 DEF SendersSound, SenderSound, Early, Claimant
  <2> QED BY <1>4, <2>1 DEF Shape, NotYetAttempts
<1>12. Submissions'
  <2>1. ASSUME ~Fenced, NEW q \in Process
        PROVE  /\ intent'[q] # "existing"
               /\ Kind = "receipt" => intent'[q] = "none"
               /\ sender[q].at # "idle" /\ Kind = "receipt" => row'.status # "absent"
    <3>1. /\ intent[q] # "existing"
          /\ Kind = "receipt" => intent[q] = "none"
          /\ sender[q].at # "idle" /\ Kind = "receipt" => row.status # "absent"
      BY <2>1 DEF Shape, Submissions
    <3>2. Kind \in {"ordinary", "receipt"}
      BY <1>1, <2>1, DeliveryAssumption DEF TypeOK, Fenced, Kind, DeliveryType
    <3>3. Kind = "ordinary" => row.status = "absent"
      BY <1>3, EmptyRows DEF Shape, Submissions
    <3>4. intent'[q] = IF q # p THEN intent[q] ELSE IF Kind = "receipt" THEN "none"
                       ELSE IF row.status = "absent" THEN "created" ELSE "existing"
      BY <1>1, <1>3 DEF TypeOK
    <3> QED BY <1>4, <3>1, <3>2, <3>3, <3>4
  <2> QED BY <1>2, <1>3, <1>5, <2>1 DEF Submissions
<1> QED BY <1>6, <1>7, <1>8, <1>9, <1>10, <1>11, <1>12 DEF Shape

-----------------------------------------------------------------------------
(* Shape: the platform boundary *)

\* How a sender comes to the dispatch of its call: by its claim,
StartsFenced(p) ==
  /\ sender[p].claim # Nil /\ Promotable(sender[p].claim)
  /\ \E now \in FreshStamp : row' = Promoted(sender[p].claim, now)
  /\ Marked(p)

\* by marking a row without claims,
StartsMarked(p) ==
  /\ sender[p].claim = Nil /\ Pending
  /\ \E now \in FreshStamp : row' = AttemptStarted(now)
  /\ Marked(p)

\* by acknowledging it beforehand,
StartsAcked(p) ==
  /\ sender[p].claim = Nil
  /\ \/ ~Pending /\ row' = row
     \/ Pending /\ (row' = Receipt \/ (row' = AbsentRow /\ Kind # "receipt"))
  /\ Becomes(p, [sender[p] EXCEPT !.at = "dispatch", !.pre = "acked",
                   !.post = IF sender[p].role = "live" THEN "acked" ELSE "none"])

\* or not at all.
Starts(p) ==
  StartsFenced(p) \/ StartsMarked(p) \/ StartsAcked(p) \/ (row' = row /\ Fails(p))

\* These are all the ways.
LEMMA PlatformSendStarts ==
  ASSUME Shape, NEW p \in Process, PlatformSendStart(p)
  PROVE  /\ sender[p].at = "start" /\ ~Exact
         /\ UNCHANGED <<intent, submits, crashes, visible, unproved>>
         /\ faults' \in 0 .. MaxFaults /\ Starts(p)
<1> DEFINE s == sender[p]
           acked == [s EXCEPT !.at = "dispatch", !.pre = "acked",
                          !.post = IF s.role = "live" THEN "acked" ELSE "none"]
<1>1. faults \in 0 .. MaxFaults /\ MaxFaults \in Nat
  BY BoundAssumption DEF Shape, TypeOK
<1>2. PICK fenced \in BOOLEAN : fenced = (s.claim # Nil)
  OBVIOUS
<1>3. PICK may \in BOOLEAN : may = IF fenced THEN Promotable(s.claim) ELSE Pending
  BY DEF Promotable, Pending
<1>4. PICK no \in BOOLEAN : no = FALSE
  OBVIOUS
<1>5. s.at = "start" /\ ~Exact /\ UNCHANGED <<intent, submits, crashes, visible, unproved>>
  BY DEF PlatformSendStart
<1>6. \/ /\ may /\ faults' = faults
         /\ \E now \in FreshStamp :
              row' = IF fenced THEN Promoted(s.claim, now) ELSE AttemptStarted(now)
         /\ Marked(p)
      \/ /\ may => faults < MaxFaults
         /\ faults' = faults + (IF may THEN 1 ELSE 0)
         /\ \/ row' = row /\ Fails(p)
            \/ ~fenced /\ row' = Acked(no) /\ Becomes(p, acked)
      \/ /\ faults + 2 <= MaxFaults /\ faults' = faults + 2
         /\ row' = row /\ Fails(p)
  BY <1>2, <1>3, <1>4 DEF PlatformSendStart
<1>7. faults' \in 0 .. MaxFaults
  BY <1>1, <1>6
<1>8. ASSUME may, Marked(p),
             \E now \in FreshStamp : row' = IF fenced THEN Promoted(s.claim, now) ELSE AttemptStarted(now)
      PROVE  Starts(p)
  <2>1. CASE fenced
    BY <1>2, <1>3, <1>8, <2>1 DEF Starts, StartsFenced
  <2>2. CASE ~fenced
    BY <1>2, <1>3, <1>8, <2>2 DEF Starts, StartsMarked
  <2> QED BY <2>1, <2>2
<1>9. ASSUME row' = row, Fails(p)
      PROVE  Starts(p)
  BY <1>9 DEF Starts
<1>10. ASSUME ~fenced, row' = Acked(no), Becomes(p, acked)
       PROVE  Starts(p)
  <2>1. s.claim = Nil
    BY <1>2, <1>10
  <2>2. ~Pending => row' = row
    BY <1>10 DEF Acked
  <2>3. Pending => row' = Receipt \/ (row' = AbsentRow /\ Kind # "receipt")
    BY <1>10, AckedRow
  <2>4. StartsAcked(p)
    BY <1>10, <2>1, <2>2, <2>3 DEF StartsAcked
  <2> QED BY <2>4 DEF Starts
<1>11. Starts(p)
  BY <1>6, <1>8, <1>9, <1>10
<1> QED BY <1>5, <1>7, <1>11

\* A sender that fails before the platform.
LEMMA FailsGoes ==
  ASSUME Shape, NEW p \in Process, sender[p].at \in {"start", "dispatch"}, Fails(p)
  PROVE  \E t \in SenderType :
           /\ Becomes(p, t) /\ Goes(sender[p], t) /\ t.at = "settle" /\ t.end = "error"
           /\ t.got = sender[p].got /\ t.accepted = sender[p].accepted /\ t.pre = sender[p].pre
           /\ t.claim = sender[p].claim /\ t.proved = sender[p].proved
<1> DEFINE s == sender[p]
           t == [s EXCEPT !.at = "settle", !.end = "error"]
<1>1. s \in SenderType /\ SenderSound(s)
  BY DEF Shape, TypeOK, SendersSound
<1>2. Becomes(p, t)
  BY DEF Fails
<1>3. t \in SenderType
  BY <1>1 DEF SenderType
<1>4. /\ t.at = "settle" /\ t.role = s.role /\ t.claim = s.claim /\ t.seen = s.seen
      /\ t.proved = s.proved /\ t.pre = s.pre /\ t.post = s.post /\ t.got = s.got
      /\ t.accepted = s.accepted /\ t.end = "error"
  BY <1>1 DEF SenderType
<1> HIDE DEF t
<1>5. Goes(s, t)
  BY <1>1, <1>3, <1>4, UnsentGoes DEF SenderSound
<1> QED BY <1>2, <1>3, <1>4, <1>5

\* A sender that has marked its row.
LEMMA MarkedGoes ==
  ASSUME Shape, NEW p \in Process, sender[p].at = "start", Marked(p)
  PROVE  \E t \in SenderType :
           /\ Becomes(p, t) /\ Goes(sender[p], t) /\ SenderSound(t)
           /\ t.at = "dispatch" /\ t.pre = "marked"
           /\ t.got = sender[p].got /\ t.accepted = sender[p].accepted
           /\ t.claim = sender[p].claim /\ t.proved = sender[p].proved /\ t.seen = sender[p].seen
<1> DEFINE s == sender[p]
           t == [s EXCEPT !.at = "dispatch", !.pre = "marked"]
<1>1. s \in SenderType /\ SenderSound(s)
  BY DEF Shape, TypeOK, SendersSound
<1>2. Becomes(p, t)
  BY DEF Marked
<1>3. t \in SenderType
  BY <1>1 DEF SenderType
<1>4. /\ t.at = "dispatch" /\ t.role = s.role /\ t.claim = s.claim /\ t.seen = s.seen
      /\ t.proved = s.proved /\ t.pre = "marked" /\ t.post = s.post /\ t.got = s.got
      /\ t.accepted = s.accepted /\ t.end = s.end
  BY <1>1 DEF SenderType
<1> HIDE DEF t
<1>5. /\ ~s.got /\ ~s.accepted /\ s.end # "results" /\ s.role # "none"
      /\ s.role \in {"none", "live", "recovery"}
      /\ s.role = "recovery" => s.end # "abort"
      /\ Fenced => s.post # "acked"
  BY <1>1 DEF SenderSound, SenderType
<1>6. Goes(s, t)
  BY <1>3, <1>4, <1>5, UnsentGoes
<1> QED BY <1>2, <1>3, <1>4, <1>6 DEF Goes

\* A sender that has acknowledged its row beforehand.
LEMMA AckedGoes ==
  ASSUME Shape, NEW p \in Process, sender[p].at = "start", sender[p].claim = Nil,
         Becomes(p, [sender[p] EXCEPT !.at = "dispatch", !.pre = "acked",
                          !.post = IF sender[p].role = "live" THEN "acked" ELSE "none"])
  PROVE  ~Fenced /\ \E t \in SenderType :
           /\ Becomes(p, t) /\ Goes(sender[p], t) /\ t.at = "dispatch" /\ t.pre = "acked"
           /\ t.accepted = sender[p].accepted /\ t.proved = sender[p].proved
<1> DEFINE s == sender[p]
<1>1. s \in SenderType /\ SenderSound(s)
  BY DEF Shape, TypeOK, SendersSound
<1>2. PICK x \in {"acked", "none"} : x = IF s.role = "live" THEN "acked" ELSE "none"
  OBVIOUS
<1> DEFINE t == [s EXCEPT !.at = "dispatch", !.pre = "acked", !.post = x]
<1>3. Becomes(p, t) /\ t = [s EXCEPT !.at = "dispatch", !.pre = "acked", !.post = x]
  BY <1>2
<1> HIDE DEF t
<1>4. t \in SenderType
  BY <1>1, <1>3 DEF SenderType
<1>5. /\ t.at = "dispatch" /\ t.role = s.role /\ t.claim = s.claim /\ t.seen = s.seen
      /\ t.proved = s.proved /\ t.pre = "acked" /\ t.post = x /\ t.got = s.got
      /\ t.accepted = s.accepted /\ t.end = s.end
  BY <1>1, <1>3 DEF SenderType
<1>6. /\ ~s.got /\ ~s.accepted /\ s.end # "results" /\ s.role # "none"
      /\ s.role \in {"none", "live", "recovery"}
      /\ s.role = "recovery" => s.end # "abort" /\ s.post = "none"
      /\ ~Fenced
  BY <1>1 DEF SenderSound, SenderType, Claimant
<1>7. Goes(s, t)
  BY <1>2, <1>4, <1>5, <1>6, UnsentGoes
<1> QED BY <1>3, <1>4, <1>5, <1>6, <1>7

\* The start of a send keeps the shape.
LEMMA PlatformSendStartShape ==
  ASSUME Shape, UNCHANGED delivery, NEW p \in Process, PlatformSendStart(p)
  PROVE  Shape'
<1> DEFINE s == sender[p]
<1>1. s \in SenderType /\ SenderSound(s) /\ TypeOK
  BY DEF Shape, TypeOK, SendersSound
<1>2. /\ s.at = "start" /\ UNCHANGED <<intent, submits, crashes, visible, unproved>>
      /\ faults' \in 0 .. MaxFaults /\ Starts(p)
  BY PlatformSendStarts
<1>3. Around
  BY <1>2, AroundQuiet
<1>4. ASSUME s.claim # Nil, Promotable(s.claim), NEW now \in FreshStamp,
             row' = Promoted(s.claim, now), Marked(p)
      PROVE  Shape'
  <2>1. s.claim \in Id /\ now \in Stamp /\ Pending /\ row.producerClaimId = s.claim
    BY <1>1, <1>4 DEF SenderType, FreshStamp, Promotable
  <2>2. Fenced
    BY <1>4 DEF Shape, ClaimsFenced
  <2>3. PICK t \in SenderType :
           /\ Becomes(p, t) /\ SenderSound(t)
           /\ t.at = "dispatch" /\ t.accepted = s.accepted
           /\ t.claim = s.claim /\ t.seen = s.seen
    BY <1>2, <1>4, MarkedGoes
  <2>4. Holds(t, row')
    BY <1>4, <2>1, <2>3, PromotedRow DEF Holds
  <2>5. \A q \in Process : /\ q # p => sender[q].claim # t.claim
                           /\ sender[q].seen.platformSendAttemptId # t.claim
    BY <1>4, <2>1, <2>3 DEF Shape, ClaimsApart
  <2>6. /\ t.accepted => sender[p].accepted
        /\ t.seen \in {sender[p].seen, AbsentRow} /\ sender[p].at # "idle" /\ visible' = visible
    BY <1>2, <2>3
  <2> QED BY <1>3, <2>2, <2>3, <2>4, <2>5, <2>6, ClaimKeepsShape
<1>5. ASSUME s.claim = Nil, Pending, NEW now \in FreshStamp, row' = AttemptStarted(now), Marked(p)
      PROVE  Shape'
  <2>1. PICK c \in Id \cup {Nil} : c = Nil
    OBVIOUS
  <2>2. Lessens(row')
    BY <1>5, <2>1, MarkedRow DEF FreshStamp
  <2> QED BY <1>2, <1>3, <1>5, <2>2, MarkedGoes, GoingKeepsShape
<1>6. CASE row' = row /\ Fails(p)
  <2>1. Lessens(row')
    BY <1>6 DEF Lessens
  <2> QED BY <1>2, <1>3, <1>6, <2>1, FailsGoes, GoingKeepsShape
<1>7. CASE StartsAcked(p)
  <2>1. Lessens(row')
    BY <1>7, ReceiptRow DEF Lessens, StartsAcked
  <2> QED BY <1>2, <1>3, <1>7, <2>1, AckedGoes, GoingKeepsShape DEF StartsAcked
<1>8. StartsFenced(p) => Shape'
  BY <1>4 DEF StartsFenced
<1>9. StartsMarked(p) => Shape'
  BY <1>5 DEF StartsMarked
<1> QED BY <1>2, <1>6, <1>7, <1>8, <1>9 DEF Starts

\* How a sender crosses to the provider: with a fresh mark, or with the one it has.
CrossesMarked(p) ==
  /\ Reconciles /\ Entitled(p) /\ Pending
  /\ \E now \in FreshStamp : row' = Dispatched(now, sender[p].claim)
  /\ Crosses(p, [sender[p] EXCEPT !.pre = "marked"])

CrossesUnmarked(p) ==
  /\ row' = row /\ Crosses(p, sender[p])
  /\ ~Reconciles \/ sender[p].pre = "acked" \/ (~Exact /\ sender[p].claim = Nil)

\* These are all the ways.
LEMMA PlatformSendDispatches ==
  ASSUME Shape, NEW p \in Process, PlatformSendDispatch(p)
  PROVE  /\ sender[p].at = "dispatch" /\ UNCHANGED <<intent, submits, crashes, visible>>
         /\ faults' \in 0 .. MaxFaults
         /\ \/ CrossesMarked(p) \/ CrossesUnmarked(p)
            \/ row' = row /\ Fails(p) /\ unproved' = unproved
<1> DEFINE s == sender[p]
           owner == OwnerOf(s.claim)
<1>1. s.at = "dispatch" /\ UNCHANGED <<intent, submits, crashes, visible>>
  BY DEF PlatformSendDispatch
<1>2. PICK z \in 0 .. 3, one \in 0 .. 3 : z = 0 /\ one = 1
  OBVIOUS
<1>3. \/ /\ Reconciles
         /\ \E now \in FreshStamp : Took(owner, z, Dispatched(now, s.claim))
         /\ Crosses(p, [s EXCEPT !.pre = "marked"])
      \/ Refused(owner, one) /\ Fails(p) /\ unproved' = unproved
      \/ Refused(owner, one) /\ ~Exact /\ s.claim = Nil /\ Crosses(p, s)
      \/ (~Reconciles \/ s.pre = "acked") /\ NoWrite /\ Crosses(p, s)
  BY <1>2 DEF PlatformSendDispatch
<1>4. ASSUME Reconciles, NEW now \in FreshStamp, Took(owner, z, Dispatched(now, s.claim)),
             Crosses(p, [s EXCEPT !.pre = "marked"])
      PROVE  faults' \in 0 .. MaxFaults /\ CrossesMarked(p)
  <2>1. /\ Owned(owner) /\ row' = Dispatched(now, s.claim)
        /\ faults' \in 0 .. MaxFaults
    BY <1>4, TookIsOwned
  <2>2. Entitled(p) /\ Pending
    BY <1>1, <2>1, OwnerIsEntitled DEF Claimant
  <2>3. \E t \in FreshStamp : row' = Dispatched(t, s.claim)
    BY <2>1
  <2> QED BY <1>4, <2>1, <2>2, <2>3 DEF CrossesMarked
<1>5. ASSUME Refused(owner, one) \/ NoWrite
      PROVE  row' = row /\ faults' \in 0 .. MaxFaults
  BY <1>5, RefusedIsQuiet DEF NoWrite, Shape, TypeOK
<1> QED BY <1>1, <1>3, <1>4, <1>5 DEF CrossesUnmarked

\* A sender that crosses to the provider.
LEMMA CrossesGoes ==
  ASSUME Shape, NEW p \in Process, sender[p].at = "dispatch",
         Crosses(p, sender[p]) \/ Crosses(p, [sender[p] EXCEPT !.pre = "marked"])
  PROVE  /\ unproved' = unproved \cup {p}
         /\ \E t \in SenderType :
              /\ Becomes(p, t) /\ Goes(sender[p], t) /\ t.at = "sending"
              /\ t.accepted = sender[p].accepted /\ t.got = sender[p].got
              /\ t.claim = sender[p].claim /\ t.proved = sender[p].proved
              /\ t.pre \in {sender[p].pre, "marked"}
<1> DEFINE s == sender[p]
<1>1. s \in SenderType /\ SenderSound(s)
  BY DEF Shape, TypeOK, SendersSound
<1>2. PICK x \in {"none", "marked", "acked"} :
        /\ x \in {s.pre, "marked"} /\ Crosses(p, [s EXCEPT !.pre = x])
  <2>1. s.pre \in {"none", "marked", "acked"} /\ s = [s EXCEPT !.pre = s.pre]
    BY <1>1 DEF SenderType
  <2>2. CASE Crosses(p, s)
    BY <2>1, <2>2
  <2>3. CASE Crosses(p, [s EXCEPT !.pre = "marked"])
    <3>1. PICK x \in {"none", "marked", "acked"} : x = "marked"
      OBVIOUS
    <3> QED BY <2>3, <3>1
  <2> QED BY <2>2, <2>3
<1> DEFINE u == [s EXCEPT !.pre = x]
           t == [u EXCEPT !.at = "sending"]
<1>3. /\ u \in SenderType /\ u.at = s.at /\ u.role = s.role /\ u.claim = s.claim /\ u.seen = s.seen
      /\ u.proved = s.proved /\ u.pre = x /\ u.post = s.post /\ u.got = s.got
      /\ u.accepted = s.accepted /\ u.end = s.end
  <2>1. u \in SenderType
    BY <1>1 DEF SenderType
  <2> QED BY <1>1, <2>1 DEF SenderType
<1>4. Becomes(p, t) /\ unproved' = unproved \cup {p}
  BY <1>2 DEF Crosses
<1> HIDE DEF u
<1>5. /\ t \in SenderType /\ t.at = "sending" /\ t.role = u.role /\ t.claim = u.claim /\ t.seen = u.seen
      /\ t.proved = u.proved /\ t.pre = u.pre /\ t.post = u.post /\ t.got = u.got
      /\ t.accepted = u.accepted /\ t.end = u.end
  BY <1>3 DEF SenderType
<1> HIDE DEF t
<1>6. /\ ~s.got /\ ~s.accepted /\ s.end # "results" /\ s.role # "none"
      /\ s.role \in {"none", "live", "recovery"}
      /\ s.role = "recovery" => s.end # "abort"
      /\ Fenced => s.post # "acked" /\ s.pre = "marked"
  BY <1>1 DEF SenderSound, SenderType
<1>7. Goes(s, t)
  BY <1>2, <1>3, <1>5, <1>6, UnsentGoes
<1> QED BY <1>2, <1>3, <1>4, <1>5, <1>7

\* The dispatch of a send keeps the shape.
LEMMA PlatformSendDispatchShape ==
  ASSUME Shape, UNCHANGED delivery, NEW p \in Process, PlatformSendDispatch(p)
  PROVE  Shape' /\ Lessens(row')
<1> DEFINE s == sender[p]
<1>1. s \in SenderType /\ SenderSound(s) /\ TypeOK
  BY DEF Shape, TypeOK, SendersSound
<1>2. /\ s.at = "dispatch" /\ UNCHANGED <<intent, submits, crashes, visible>>
      /\ faults' \in 0 .. MaxFaults
      /\ \/ CrossesMarked(p) \/ CrossesUnmarked(p)
         \/ row' = row /\ Fails(p) /\ unproved' = unproved
  BY PlatformSendDispatches
<1>3. submits # 0
  BY <1>2, IdleGoes DEF Shape, Submissions
<1>4. ASSUME row' = row, Fails(p), unproved' = unproved
      PROVE  Shape' /\ Lessens(row')
  <2>1. Around /\ Lessens(row')
    BY <1>2, <1>4, AroundQuiet DEF Lessens
  <2> QED BY <1>2, <1>4, <2>1, FailsGoes, GoingKeepsShape
<1>5. ASSUME CrossesMarked(p) \/ CrossesUnmarked(p)
      PROVE  Shape' /\ Lessens(row')
  <2>1. /\ unproved' = unproved \cup {p}
        /\ \E t \in SenderType :
             Becomes(p, t) /\ Goes(sender[p], t) /\ t.accepted = sender[p].accepted
    BY <1>2, <1>5, CrossesGoes DEF CrossesMarked, CrossesUnmarked
  <2>2. Around
    BY <1>1, <1>2, <1>3, <2>1 DEF Around, TypeOK
  <2>3. Lessens(row')
    <3>1. CASE CrossesUnmarked(p)
      BY <3>1 DEF CrossesUnmarked, Lessens
    <3>2. CASE CrossesMarked(p)
      <4>1. s.claim \in Id \cup {Nil} /\ (s.claim = Nil \/ Fenced)
        BY <1>1 DEF SenderType, Shape, ClaimsFenced
      <4>2. PICK now \in Stamp : Pending /\ row' = Dispatched(now, s.claim)
        BY <3>2 DEF CrossesMarked, FreshStamp
      <4> QED BY <4>1, <4>2, MarkedRow
    <3> QED BY <1>5, <3>1, <3>2
  <2> QED BY <1>2, <2>1, <2>2, <2>3, GoingKeepsShape
<1> QED BY <1>2, <1>4, <1>5

-----------------------------------------------------------------------------
(* Shape *)

\* Whatever a process or the environment does, the shape of the queue is kept.
LEMMA StepShape ==
  ASSUME Shape, Next
  PROVE  Shape'
<1>1. UNCHANGED delivery
  BY DEF Next
<1>2. CASE LeaseExpires
  BY <1>1, <1>2, EnvironmentShape
<1>3. ASSUME NEW p \in Process, Step(p)
      PROVE  Shape'
  <2>1. CASE Submit(p)
    BY <1>1, <2>1, SubmitShape
  <2>2. CASE Live(p)
    BY <1>1, <2>2, LiveSenderEntersShape, EnvironmentShape, ClaimPendingShape, QuietStartShape DEF Live
  <2>3. CASE Scan(p)
    BY <1>1, <2>3, ScanWrites, ScanBeginsShape DEF Scan
  <2>4. CASE Recover(p)
    BY <1>1, <2>4, ReconciledShape, ReconciledNotSentShape, FenceRecoveryShape, ReserveAttemptShape
       DEF Recover, Reconcile
  <2>5. CASE Send(p)
    BY <1>1, <2>5, EndsBeforeSendShape, PlatformSendStartShape, QuietStartShape,
       PlatformSendDispatchShape, DeliveryResultShape, ProviderReturnsShape DEF Send
  <2>6. CASE ProviderAccepts(p)
    BY <1>1, <2>6, ProviderAcceptsShape
  <2>7. CASE Settle(p)
    BY <1>1, <2>7, SettlePostSendShape, SettleShape DEF Settle
  <2>8. CASE Crash(p)
    BY <1>1, <2>8, EnvironmentShape
  <2> QED BY <1>3, <2>1, <2>2, <2>3, <2>4, <2>5, <2>6, <2>7, <2>8 DEF Step
<1> QED BY <1>2, <1>3 DEF Next

\* The initial states have the shape.
LEMMA InitShape ==
  ASSUME Init
  PROVE  Shape
<1>1. /\ delivery \in Deliveries /\ row = AbsentRow /\ intent = [p \in Process |-> "none"]
      /\ sender = [p \in Process |-> Idle]
      /\ submits = 0 /\ crashes = 0 /\ faults = 0 /\ visible = 0 /\ unproved = {}
  BY DEF Init
<1>2. TypeOK
  BY <1>1, IdleGoes, EmptyRows, BoundAssumption DEF TypeOK
<1>3. \A p \in Process : sender[p] = Idle /\ intent[p] = "none"
  BY <1>1
<1>4. ClaimsFenced /\ RowSound /\ ClaimsApart
  BY <1>1, <1>3, IdleGoes, EmptyRows DEF ClaimsFenced, RowSound, ClaimsApart
<1>5. SendersSound /\ AcceptedSeen
  BY <1>3, IdleGoes DEF SendersSound, AcceptedSeen
<1>6. NotYetAttempts /\ Submissions
  BY <1>1, <1>3, IdleGoes DEF NotYetAttempts, Submissions, Early
<1> QED BY <1>2, <1>4, <1>5, <1>6 DEF Shape

\* The row, the claims and the senders fit together in every reachable state: a row has at
\* most one owner, claims are told apart, and a sender knows only what its steps can tell it
\* (delivery-queue-sqlite-claim.ts, deliver-queue-state.ts).
THEOREM DeliveryShape == Spec => []Shape
<1>1. Init => Shape
  BY InitShape
<1>2. Shape /\ [Next]_vars => Shape'
  <2> SUFFICES ASSUME Shape, [Next]_vars PROVE Shape'
    OBVIOUS
  <2>1. CASE Next
    BY <2>1, StepShape
  <2>2. CASE UNCHANGED vars
    BY <2>2 DEF vars, Shape, TypeOK, ClaimsFenced, RowSound, ClaimsApart, SendersSound, SenderSound,
       AcceptedSeen, NotYetAttempts, Submissions, Fenced, Kind, Reconciles, NeedsReconciliation
  <2> QED BY <2>1, <2>2
<1> QED BY <1>1, <1>2, PTL DEF Spec

\* The row and the senders have the shape of their types and attempts stay within the budget.
THEOREM DeliveryTypes == Spec => []TypeOK
<1>1. Shape => TypeOK
  BY DEF Shape
<1> QED BY <1>1, DeliveryShape, PTL

-----------------------------------------------------------------------------
(* Live owners *)

\* A process changes the row only where nobody owns it, where its lease has ended, or by its
\* own claim and with a step of its sender.
Careful(p) ==
  \/ row' = row
  \/ row.status = "absent" \/ row.lease # "live"
  \/ row.producerClaimId = Nil /\ row.platformSendAttemptId = Nil
  \/ Entitled(p) /\ sender'[p] # sender[p]

\* Every step is careful.
LEMMA StepsAreCareful ==
  ASSUME Shape, UNCHANGED delivery, Fenced, NEW p \in Process, Step(p)
  PROVE  Careful(p)
<1> DEFINE s == sender[p]
<1>1. TypeOK /\ SendersSound /\ RowSound /\ s \in SenderType /\ SenderSound(s)
  BY DEF Shape, TypeOK, SendersSound
<1>2. \A t : Becomes(p, t) => sender'[p] = t
  BY <1>1 DEF Becomes, TypeOK
<1>3. CASE Submit(p)
  BY <1>3 DEF Submit, Careful
<1>4. ASSUME NEW proved, Claimable(s.seen, proved)
      PROVE  Careful(p)
  BY <1>1, <1>4 DEF Claimable, Careful, Shape, ClaimsApart, RowSound
<1>5. CASE Live(p)
  <2>1. CASE ClaimPending(p)
    <3>1. row' = row \/ Claimable(AbsentRow, FALSE)
      BY <2>1 DEF ClaimPending
    <3>2. ASSUME Claimable(AbsentRow, FALSE)
          PROVE  row.lease # "live"
      BY <1>1, <3>2 DEF Claimable, RowSound
    <3> QED BY <3>1, <3>2 DEF Careful
  <2>2. CASE LiveSenderEnters(p) \/ LiveSenderTurnedAway(p) \/ TakeCustody(p)
    BY <2>2 DEF LiveSenderEnters, LiveSenderTurnedAway, TakeCustody, Careful
  <2> QED BY <1>5, <2>1, <2>2 DEF Live
<1>6. CASE Scan(p)
  <2>1. CASE ScanBegins(p)
    BY <2>1 DEF ScanBegins, Careful
  <2>2. CASE ScanRejects(p) \/ ScanDeadLetters(p)
    BY <2>2, ScanWrites DEF NobodyWrites, Careful
  <2> QED BY <1>6, <2>1, <2>2 DEF Scan
<1>7. CASE Recover(p)
  <2>1. CASE ReconciledSent(p) \/ Unreconciled(p)
    <3>1. \/ row' = row
          \/ row.lease # "live"
          \/ row.producerClaimId = Nil /\ row.platformSendAttemptId = Nil
      BY <2>1, ReconciledShape
    <3> QED BY <3>1 DEF Careful
  <2>2. CASE ReconciledNotSent(p)
    <3>1. NoWrite \/ Write(RecoveryOwner(Nil), MovedToFailed)
      BY <2>2 DEF ReconciledNotSent
    <3> QED BY <3>1, NobodyWrote DEF NoWrite, NobodyWrites, Careful
  <2>3. CASE FenceRecovery(p)
    <3>1. row' = row \/ Claimable(s.seen, s.proved)
      BY <2>3 DEF FenceRecovery, NoWrite
    <3> QED BY <1>4, <3>1 DEF Careful
  <2>4. CASE ReserveAttempt(p) \/ DeadLetterSpent(p)
    <3>1. /\ s.at \in {"reserve", "spent"}
          /\ \/ row' = row
             \/ Entitled(p) /\ Becomes(p, Idle)
             \/ Entitled(p) /\ Becomes(p, [s EXCEPT !.at = "start"])
      BY <2>4, ReserveAttemptShape
    <3>2. Idle # s /\ [s EXCEPT !.at = "start"] # s
      <4>1. [s EXCEPT !.at = "start"].at = "start"
        BY <1>1 DEF SenderType
      <4> QED BY <3>1, <4>1, IdleGoes
    <3> QED BY <1>2, <3>1, <3>2 DEF Careful
  <2> QED BY <1>7, <2>1, <2>2, <2>3, <2>4 DEF Recover, Reconcile
<1>8. ASSUME s.at \in {"sending", "settle"}, NEW u, NEW thrown, PersistPostSend(p, u, thrown),
             u \in SenderType, u.claim = s.claim, u.at = s.at, u.post = "none",
             thrown # s, s.post = "none"
      PROVE  Careful(p)
  <2>1. /\ PersistRow(p, row')
        /\ \/ Becomes(p, thrown)
           \/ \E x \in {"marked", "acked", "failed"} : Becomes(p, [u EXCEPT !.post = x])
    BY <1>8, PersistWrites DEF Claimant
  <2>2. row' = row \/ Entitled(p)
    BY <2>1 DEF PersistRow
  <2>3. sender'[p] # s
    <3>1. CASE Becomes(p, thrown)
      BY <1>2, <1>8, <3>1
    <3>2. ASSUME NEW x \in {"marked", "acked", "failed"}, Becomes(p, [u EXCEPT !.post = x])
          PROVE  sender'[p] # s
      <4>1. [u EXCEPT !.post = x].post = x
        BY <1>8 DEF SenderType
      <4>2. sender'[p].post = x
        BY <1>2, <3>2, <4>1
      <4> QED BY <1>8, <4>2
    <3> QED BY <2>1, <3>1, <3>2
  <2> QED BY <2>2, <2>3 DEF Careful
<1>9. CASE Send(p)
  <2>1. CASE EndsBeforeSend(p) \/ ExactSendStart(p) \/ ProviderReturns(p)
    BY <2>1 DEF EndsBeforeSend, ExactSendStart, ProviderReturns, Careful
  <2>2. CASE PlatformSendStart(p)
    <3>1. s.at = "start" /\ Starts(p)
      BY <2>2, PlatformSendStarts
    <3>2. s.claim # Nil
      BY <1>1, <3>1 DEF SenderSound, Claimant
    <3>3. CASE StartsFenced(p)
      <4>1. Entitled(p)
        BY <3>2, <3>3 DEF StartsFenced, Promotable, Entitled
      <4>2. \E t \in SenderType : Becomes(p, t) /\ t.at = "dispatch"
        BY <3>1, <3>3, MarkedGoes DEF StartsFenced
      <4> QED BY <1>2, <3>1, <4>1, <4>2 DEF Careful
    <3> QED BY <3>1, <3>2, <3>3 DEF Starts, StartsMarked, StartsAcked, Careful
  <2>3. CASE PlatformSendDispatch(p)
    <3>1. s.at = "dispatch" /\ (row' = row \/ CrossesMarked(p))
      BY <2>3, PlatformSendDispatches DEF CrossesUnmarked
    <3>2. CASE CrossesMarked(p)
      <4>1. Entitled(p) /\ \E t \in SenderType : Becomes(p, t) /\ t.at = "sending"
        BY <3>1, <3>2, CrossesGoes DEF CrossesMarked
      <4> QED BY <1>2, <3>1, <4>1 DEF Careful
    <3> QED BY <3>1, <3>2 DEF Careful
  <2>4. CASE DeliveryResult(p)
    <3> DEFINE u == [s EXCEPT !.got = TRUE]
               f == [u EXCEPT !.at = "settle", !.end = "error"]
    <3>1. s.at = "sending" /\ (NoWrite \/ (u.post = "none" /\ PersistPostSend(p, u, f)))
      <4>1. s.at = "sending"
        BY <2>4 DEF DeliveryResult
      <4>2. NoWrite \/ (u.post = "none" /\ PersistPostSend(p, u, f))
        BY <2>4, ZenonT(30) DEF DeliveryResult
      <4> QED BY <4>1, <4>2
    <3>2. u \in SenderType /\ u.claim = s.claim /\ u.at = s.at /\ u.post = s.post
      BY <1>1 DEF SenderType
    <3> HIDE DEF u
    <3>3. f.at = "settle"
      BY <3>2 DEF SenderType
    <3> HIDE DEF f
    <3>4. CASE NoWrite
      BY <3>4 DEF NoWrite, Careful
    <3>5. CASE u.post = "none" /\ PersistPostSend(p, u, f)
      <4>1. f # s /\ s.at \in {"sending", "settle"} /\ s.post = "none"
        BY <3>1, <3>2, <3>3, <3>5
      <4> QED BY <1>8, <3>2, <3>5, <4>1
    <3> QED BY <3>1, <3>4, <3>5
  <2> QED BY <1>9, <2>1, <2>2, <2>3, <2>4 DEF Send
<1>10. CASE ProviderAccepts(p) \/ Crash(p)
  BY <1>10 DEF ProviderAccepts, Crash, Careful
<1>11. CASE Settle(p)
  <2>1. CASE SettlePostSend(p)
    <3> DEFINE thrown == IF s.role = "recovery" /\ s.end = "results"
                         THEN [s EXCEPT !.end = "error"] ELSE Idle
    <3>1. s.at = "settle" /\ OwesPostSend(s) /\ PersistPostSend(p, s, thrown)
      BY <2>1 DEF SettlePostSend
    <3>2. thrown # s
      <4>1. CASE s.role = "recovery" /\ s.end = "results"
        <5>1. [s EXCEPT !.end = "error"].end = "error"
          BY <1>1 DEF SenderType
        <5> QED BY <4>1, <5>1
      <4>2. CASE ~(s.role = "recovery" /\ s.end = "results")
        BY <3>1, <4>2, IdleGoes
      <4> QED BY <4>1, <4>2
    <3> HIDE DEF thrown
    <3>3. s.post = "none" /\ s.at \in {"sending", "settle"}
      BY <3>1 DEF OwesPostSend
    <3> QED BY <1>1, <1>8, <3>1, <3>2, <3>3
  <2>2. CASE SettleLive(p) \/ SettleRecovery(p)
    <3>1. SettleWrites(p)
      BY <2>2, SettleLiveWrites, SettleRecoveryWrites
    <3>2. Becomes(p, Idle) /\ s.at = "settle"
      BY <2>2 DEF SettleLive, SettleRecovery
    <3>3. sender'[p] # s
      BY <1>2, <3>2, IdleGoes
    <3> QED BY <3>1, <3>3 DEF SettleWrites, Careful
  <2> QED BY <1>11, <2>1, <2>2 DEF Settle
<1> QED BY <1>3, <1>5, <1>6, <1>7, <1>9, <1>10, <1>11 DEF Step

\* While a producer holds a live lease on the row it sends for, nobody but its own calls
\* changes the row, whatever is delivered and however many processes share the database
\* (transitionOwnedDeliveryQueueEntry, hasActiveStableDeliveryOwner).
THEOREM LiveOwnersAreUndisturbed == Spec => LiveOwnerUndisturbed
<1> DEFINE A == \A p \in Process :
       /\ sender[p].claim # Nil /\ row.lease = "live"
       /\ sender[p].claim \in {row.producerClaimId, row.platformSendAttemptId}
       /\ sender'[p] = sender[p]
       => row' \in {row, [row EXCEPT !.lease = "expired"]}
<1>1. ASSUME Shape, [Next]_vars
      PROVE  A
  <2> SUFFICES ASSUME NEW p \in Process,
                      sender[p].claim # Nil, row.lease = "live",
                      sender[p].claim \in {row.producerClaimId, row.platformSendAttemptId},
                      sender'[p] = sender[p]
               PROVE  row' \in {row, [row EXCEPT !.lease = "expired"]}
    OBVIOUS
  <2>1. CASE UNCHANGED vars
    BY <2>1 DEF vars
  <2>2. CASE LeaseExpires
    BY <2>2 DEF LeaseExpires
  <2>3. ASSUME UNCHANGED delivery, NEW q \in Process, Step(q)
        PROVE  row' = row
    <3>1. Fenced
      BY <1>1 DEF Shape, ClaimsFenced
    <3>2. Careful(q)
      BY <1>1, <2>3, <3>1, StepsAreCareful
    <3>3. row.status # "absent"
      BY <1>1, EmptyRows DEF Shape, RowSound
    <3>4. Entitled(q) => q = p
      BY <1>1, <3>1 DEF Entitled, Shape, RowSound, ClaimsApart
    <3> QED BY <3>2, <3>3, <3>4 DEF Careful
  <2> QED BY <1>1, <2>1, <2>2, <2>3 DEF Next
<1>2. Shape /\ [Next]_vars => [A]_vars
  BY <1>1
<1> HIDE DEF A
<1>3. Spec => [][A]_vars
  BY <1>2, DeliveryShape, PTL DEF Spec
<1> QED BY <1>3 DEF A, LiveOwnerUndisturbed

-----------------------------------------------------------------------------
(* Evidence: what every step has to show *)

\* Two senders with claims are never both entitled to the row.
LEMMA SoleOwner ==
  ASSUME Shape, Fenced, NEW p \in Process, NEW q \in Process, Entitled(p), Entitled(q)
  PROVE  p = q
BY DEF Entitled, Shape, RowSound, ClaimsApart

FreshlyStamped ==
  \A q \in Process : row'.platformSendStartedAt # sender[q].seen.platformSendStartedAt

\* What p may do to the row where others have claims on it.
Considerate(p) ==
  Fenced =>
    /\ \A q \in Process : q # p /\ (Entitled(q))' => Entitled(q)
    /\ \A q \in Process : q # p /\ Entitled(q) /\ sender[q].at = "dispatch" =>
         /\ (Entitled(q))' => row'.recoveryState = row.recoveryState
         /\ ~Reconciles => (Entitled(q))'
    /\ row'.status = "pending" /\ row'.recoveryState = "send_attempt_started" =>
         \/ /\ Pending /\ row.recoveryState = "send_attempt_started"
            /\ row'.platformSendStartedAt = row.platformSendStartedAt
            /\ row'.platformSendAttemptId = row.platformSendAttemptId
         \/ FreshlyStamped

\* What p may do to the calls that are not proved undelivered.
Accounts(p) ==
  \/ unproved' \subseteq unproved
  \/ /\ unproved' = unproved \cup {p}
     /\ Fenced => Entitled(p) /\ (~Reconciles \/ FreshlyStamped)

\* What p knows of the past.
OwnEvidence(p) ==
  /\ Entitled(p) =>
       /\ sender[p].at \in Unsent => unproved = {}
       /\ sender[p].at \in {"sending", "settle"} => unproved \subseteq {p}
       /\ /\ sender[p].at = "settle"
          /\ \/ ~sender[p].got /\ sender[p].end \in {"not_sent", "rejected"}
             \/ Fenced /\ sender[p].pre # "marked"
          => unproved = {}
  /\ /\ sender[p].proved /\ Pending /\ row.recoveryState = "send_attempt_started"
     /\ row.platformSendStartedAt = sender[p].seen.platformSendStartedAt
     /\ row.platformSendAttemptId = sender[p].seen.platformSendAttemptId
     /\ row.platformSendAttemptId # Nil
     => unproved = {}
  /\ sender[p].at = "dispatch" =>
       /\ Fenced /\ Entitled(p) => row.recoveryState = "send_attempt_started"
       /\ Fenced /\ ~Reconciles => Entitled(p)
       /\ ~Fenced /\ ~Exact => \/ sender[p].pre = "marked" /\ (Pending => NeedsReconciliation(row))
                               \/ sender[p].pre = "acked" /\ ~Pending
  /\ Exact => sender[p].pre # "acked"
  /\ ~Fenced /\ intent[p] = "created" /\ sender[p].at # "sending" => unproved = {}

\* What the row says of the past.
RowEvidence ==
  /\ EvidenceSurvives /\ ReceiptMeansDelivered
  /\ row.status = "absent" /\ Kind # "ordinary" => unproved = {}

EvidenceOfAll == RowEvidence /\ \A p \in Process : OwnEvidence(p)

\* The parts of the evidence, by process.
LEMMA EvidenceByProcess == Evidence <=> EvidenceOfAll
<1>1. ASSUME Evidence
      PROVE  RowEvidence /\ \A p \in Process : OwnEvidence(p)
  BY <1>1 DEF Evidence, OwnCallOnly, ProofHolds, EvidenceFirst, FirstSend, OwnEvidence, RowEvidence
<1>2. ASSUME RowEvidence, \A p \in Process : OwnEvidence(p)
      PROVE  Evidence
  <2>1. OwnCallOnly
    BY <1>2 DEF OwnCallOnly, OwnEvidence
  <2>2. ProofHolds
    BY <1>2 DEF ProofHolds, OwnEvidence
  <2>3. EvidenceFirst
    BY <1>2 DEF EvidenceFirst, OwnEvidence
  <2>4. FirstSend
    BY <1>2 DEF FirstSend, OwnEvidence
  <2> QED BY <1>2, <2>1, <2>2, <2>3, <2>4 DEF Evidence, RowEvidence
<1> QED BY <1>1, <1>2 DEF EvidenceOfAll

\* A step of p that is considerate and accounts for its call leaves to the others what they know.
LEMMA OthersKeepEvidence ==
  ASSUME Shape, Evidence, Guarded, UNCHANGED delivery, NEW p \in Process, NEW q \in Process, q # p,
         sender'[q] = sender[q], Considerate(p), Accounts(p)
  PROVE  OwnEvidence(q)'
<1>1. Fenced /\ Fenced' /\ (Reconciles' <=> Reconciles) /\ (Exact' <=> Exact)
  BY DEF Guarded, Fenced, Kind, Reconciles, Exact
<1>2. OwnEvidence(q)
  BY EvidenceByProcess DEF EvidenceOfAll
<1>3. (Entitled(q))' => Entitled(q) /\ unproved' \subseteq unproved
  BY <1>1, SoleOwner DEF Considerate, Accounts
<1>4. (Entitled(q))' =>
       /\ sender'[q].at \in Unsent => unproved' = {}
       /\ sender'[q].at \in {"sending", "settle"} => unproved' \subseteq {q}
       /\ /\ sender'[q].at = "settle"
          /\ \/ ~sender'[q].got /\ sender'[q].end \in {"not_sent", "rejected"}
             \/ Fenced /\ sender'[q].pre # "marked"
          => unproved' = {}
  BY <1>2, <1>3 DEF OwnEvidence
<1>5. ASSUME sender'[q].proved, row'.status = "pending",
             row'.recoveryState = "send_attempt_started",
             row'.platformSendStartedAt = sender'[q].seen.platformSendStartedAt,
             row'.platformSendAttemptId = sender'[q].seen.platformSendAttemptId,
             row'.platformSendAttemptId # Nil
      PROVE  unproved' = {}
  <2>1. Reconciles
    BY <1>5 DEF Shape, SendersSound, SenderSound
  <2>2. ~FreshlyStamped
    BY <1>5 DEF FreshlyStamped
  <2>3. unproved = {}
    BY <1>1, <1>2, <1>5, <2>2 DEF OwnEvidence, Considerate
  <2> QED BY <1>1, <2>1, <2>2, <2>3 DEF Accounts
<1>6. ASSUME sender'[q].at = "dispatch"
      PROVE  /\ (Entitled(q))' => row'.recoveryState = "send_attempt_started"
             /\ ~Reconciles => (Entitled(q))'
  BY <1>1, <1>2, <1>3, <1>6 DEF OwnEvidence, Considerate
<1> QED BY <1>1, <1>2, <1>4, <1>5, <1>6 DEF OwnEvidence, Pending

\* With what p itself and the row know, that is all.
LEMMA EvidenceStep ==
  ASSUME Shape, Evidence, Guarded, UNCHANGED delivery, NEW p \in Process, NEW t, Becomes(p, t),
         Considerate(p), Accounts(p), OwnEvidence(p)', RowEvidence'
  PROVE  Evidence'
<1>1. \A q \in Process : q # p => sender'[q] = sender[q]
  BY DEF Shape, TypeOK, Becomes
<1>2. \A q \in Process : OwnEvidence(q)'
  BY <1>1, OthersKeepEvidence
<1>3. EvidenceOfAll'
  BY <1>2 DEF EvidenceOfAll
<1> QED BY <1>3, EvidenceByProcess, PTL

\* p writes where it is entitled to, where nobody is, or to what the adapter has settled.
Licensed(p) ==
  \/ row' = row \/ Entitled(p)
  \/ row.producerClaimId = Nil /\ row.platformSendAttemptId = Nil
  \/ Reconciles /\ (row'.status # "pending" \/ row'.recoveryState = row.recoveryState)

\* A send attempt that the row shows is the one it showed before, or a new one.
StampsKept ==
  Fenced /\ row'.status = "pending" /\ row'.recoveryState = "send_attempt_started" =>
    \/ /\ Pending /\ row.recoveryState = "send_attempt_started"
       /\ row'.platformSendStartedAt = row.platformSendStartedAt
       /\ row'.platformSendAttemptId = row.platformSendAttemptId
    \/ FreshlyStamped

\* Who is entitled after a step that makes no claim was so before.
LEMMA EntitledBefore ==
  ASSUME UNCHANGED delivery, Lessens(row'), NEW q \in Process,
         sender'[q].claim \in {sender[q].claim, Nil}, (Entitled(q))'
  PROVE  Entitled(q)
<1>1. Fenced' = Fenced
  BY DEF Fenced, Kind
<1> QED BY <1>1 DEF Entitled, Lessens, Pending

\* A licensed step that makes no claim is considerate.
LEMMA LicensedIsConsiderate ==
  ASSUME Shape, UNCHANGED delivery, NEW p \in Process, NEW t, Becomes(p, t),
         Lessens(row'), Licensed(p), StampsKept
  PROVE  Considerate(p)
<1> SUFFICES ASSUME Fenced PROVE Considerate(p)
  BY DEF Considerate
<1>1. \A q \in Process : q # p => sender'[q] = sender[q]
  BY DEF Shape, TypeOK, Becomes
<1>2. \A q \in Process : q # p /\ (Entitled(q))' => Entitled(q)
  BY <1>1, EntitledBefore
<1>3. ASSUME NEW q \in Process, q # p, Entitled(q)
      PROVE  /\ (Entitled(q))' => row'.recoveryState = row.recoveryState
             /\ ~Reconciles => (Entitled(q))'
  <2>1. ~Entitled(p)
    BY <1>3, SoleOwner
  <2>2. ~(row.producerClaimId = Nil /\ row.platformSendAttemptId = Nil)
    BY <1>3 DEF Entitled
  <2>3. row' = row => (Entitled(q))'
    <3>1. Fenced'
      BY DEF Fenced, Kind
    <3> QED BY <1>1, <1>3, <3>1 DEF Entitled, Pending
  <2>4. (Entitled(q))' => row'.status = "pending"
    <3>1. Fenced'
      BY DEF Fenced, Kind
    <3> QED BY <3>1 DEF Entitled, Pending
  <2> QED BY <2>1, <2>2, <2>3, <2>4 DEF Licensed
<1> QED BY <1>2, <1>3 DEF Considerate, StampsKept

\* What a step may do to the row and keep it true.
TruthKept ==
  \/ row' = row
  \/ Pending /\ row'.status = "pending" /\ row'.recoveryState = row.recoveryState
  \/ row'.status = "pending" /\ NeedsReconciliation(row')
  \/ row'.status = "pending" /\ unproved' = {}
  \/ row'.status = "failed"
  \/ row'.status = "completed" /\ (Fenced => visible > 0)
  \/ row'.status = "absent" /\ (Kind # "ordinary" => unproved' = {})

\* Such a step keeps it true.
LEMMA TruthIsKept ==
  ASSUME Shape, Evidence, UNCHANGED delivery, TruthKept, unproved' \subseteq unproved,
         visible > 0 => visible' > 0
  PROVE  RowEvidence'
<1>1. Kind' = Kind
  BY DEF Kind
<1>2. EvidenceSurvives /\ ReceiptMeansDelivered
      /\ (row.status = "absent" /\ Kind # "ordinary" => unproved = {})
  BY DEF Evidence
<1>3. EvidenceSurvives'
  BY <1>2 DEF TruthKept, EvidenceSurvives, Pending, NeedsReconciliation
<1>4. ReceiptMeansDelivered'
  BY <1>1, <1>2 DEF TruthKept, ReceiptMeansDelivered, Fenced
<1>5. row'.status = "absent" /\ Kind # "ordinary" => unproved' = {}
  BY <1>2 DEF TruthKept
<1> QED BY <1>1, <1>3, <1>4, <1>5 DEF RowEvidence

\* A sender that ends, and what it leaves.
LEMMA EndingKeepsEvidence ==
  ASSUME Shape, Evidence, Guarded, UNCHANGED delivery, NEW p \in Process, Becomes(p, Idle),
         Lessens(row'), Licensed(p), StampsKept, unproved' \subseteq unproved,
         intent'[p] \in {intent[p], "none"},
         sender[p].at # "sending" \/ intent'[p] # "created" \/ unproved' = {}, RowEvidence'
  PROVE  Evidence'
<1>1. Considerate(p) /\ Accounts(p)
  BY LicensedIsConsiderate DEF Accounts
<1>2. sender'[p] = Idle /\ Fenced' = Fenced
  BY DEF Shape, TypeOK, Becomes, Fenced, Kind
<1>3. OwnEvidence(p)
  BY EvidenceByProcess DEF EvidenceOfAll
<1>4. (Entitled(p))' => ~Fenced
  BY <1>2, IdleGoes DEF Entitled
<1>5. /\ Idle.at = "idle" /\ ~Idle.proved /\ Idle.pre = "none"
  BY IdleGoes
<1>6. ~Fenced /\ intent'[p] = "created" => unproved' = {}
  BY <1>3 DEF OwnEvidence
<1>7. OwnEvidence(p)'
  BY <1>2, <1>4, <1>5, <1>6 DEF OwnEvidence, Unsent
<1> QED BY <1>1, <1>7, EvidenceStep

-----------------------------------------------------------------------------
(* Evidence: the steps *)

\* A settlement.
LEMMA SettleEvidence ==
  ASSUME Shape, Evidence, Guarded, UNCHANGED delivery, NEW p \in Process,
         SettleLive(p) \/ SettleRecovery(p)
  PROVE  Evidence'
<1> DEFINE s == sender[p]
<1>1. SettleWrites(p)
  BY SettleLiveWrites, SettleRecoveryWrites
<1>2. s.at = "settle" /\ Becomes(p, Idle) /\ UNCHANGED <<intent, submits, crashes, visible, unproved>>
  BY DEF SettleLive, SettleRecovery
<1>3. Lessens(row') /\ Licensed(p)
  BY <1>1, SettleLessens DEF SettleWrites, Licensed
<1>4. OwnEvidence(p) /\ SenderSound(s)
  BY EvidenceByProcess DEF EvidenceOfAll, Shape, SendersSound
<1>5. StampsKept /\ TruthKept
  <2>1. CASE row' = row
    BY <2>1 DEF StampsKept, TruthKept, Pending
  <2>2. CASE Entitled(p) /\ Pending /\ SettleRow(p, row')
    <3>1. CASE row' = FailDelivery
      BY <2>2, <3>1, FailDeliveryRow DEF StampsKept, TruthKept
    <3>2. CASE row' = FailBeforePlatformSend /\ s.end \in {"not_sent", "rejected"} /\ ~s.got
      <4>1. unproved = {}
        BY <1>2, <1>4, <2>2, <3>2 DEF OwnEvidence
      <4> QED BY <1>2, <2>2, <3>2, <4>1, FailBeforeRow DEF StampsKept, TruthKept
    <3>3. CASE \E now \in Stamp : row' = FailAfterPlatformSend(now)
      BY <2>2, <3>3, UnknownRow DEF StampsKept, TruthKept, NeedsReconciliation
    <3>4. CASE row' = MovedToFailed
      BY <2>2, <3>4, MovedRow DEF StampsKept, TruthKept
    <3>5. CASE row' = Receipt /\ (Fenced => s.got)
      <4>1. Fenced => visible > 0
        BY <1>4, <3>5 DEF SenderSound, Shape, AcceptedSeen
      <4> QED BY <2>2, <3>5, <4>1, ReceiptRow DEF StampsKept, TruthKept
    <3>6. CASE /\ row' = AbsentRow /\ Kind # "receipt"
               /\ Fenced => \/ s.end = "rejected" /\ ~s.got
                            \/ s.pre # "marked"
      <4>1. Fenced => unproved = {}
        BY <1>2, <1>4, <2>2, <3>6 DEF OwnEvidence
      <4>2. Kind # "ordinary" => Fenced
        BY <3>6, DeliveryAssumption DEF Shape, TypeOK, Kind, DeliveryType, Fenced
      <4> QED BY <1>2, <3>6, <4>1, <4>2, EmptyRows DEF StampsKept, TruthKept
    <3> QED BY <2>2, <3>1, <3>2, <3>3, <3>4, <3>5, <3>6 DEF SettleRow
  <2> QED BY <1>1, <2>1, <2>2 DEF SettleWrites
<1>6. RowEvidence'
  BY <1>2, <1>5, TruthIsKept
<1> QED BY <1>2, <1>3, <1>5, <1>6, EndingKeepsEvidence

\* The evidence of a send is written.
LEMMA PersistKeepsTruth ==
  ASSUME Shape, Evidence, UNCHANGED <<delivery, visible, unproved>>, NEW p \in Process,
         PersistRow(p, row')
  PROVE  Lessens(row') /\ Licensed(p) /\ StampsKept /\ RowEvidence'
<1>1. Lessens(row')
  BY PersistLessens
<1>2. Licensed(p) /\ StampsKept /\ TruthKept
  <2>1. CASE row' = row
    BY <2>1 DEF Licensed, StampsKept, TruthKept, Pending
  <2>2. ASSUME Pending, Entitled(p), NEW now \in Stamp,
               row' \in {OutcomeUnknown(now), FailAfterPlatformSend(now)}
        PROVE  Licensed(p) /\ StampsKept /\ TruthKept
    BY <2>2, UnknownRow DEF Licensed, StampsKept, TruthKept, NeedsReconciliation
  <2>3. CASE Pending /\ ~Fenced /\ row' = Receipt
    BY <2>3, ReceiptRow DEF Licensed, StampsKept, TruthKept, Shape, ClaimsFenced
  <2>4. CASE Pending /\ ~Fenced /\ Kind # "receipt" /\ row' = AbsentRow
    <3>1. Kind = "ordinary"
      BY <2>4, DeliveryAssumption DEF Shape, TypeOK, Kind, DeliveryType, Fenced
    <3> QED BY <2>4, <3>1, EmptyRows DEF Licensed, StampsKept, TruthKept, Shape, ClaimsFenced
  <2> QED BY <2>1, <2>2, <2>3, <2>4 DEF PersistRow
<1> QED BY <1>1, <1>2, TruthIsKept

\* A sender that goes on at the platform, with what it knows.
LEMMA SendingKeepsEvidence ==
  ASSUME Shape, Evidence, Guarded, UNCHANGED delivery, NEW p \in Process, NEW t, Becomes(p, t),
         Lessens(row'), Licensed(p), StampsKept, RowEvidence',
         sender[p].at \in {"sending", "settle"}, t.at \in {"sending", "settle"},
         t.claim = sender[p].claim, ~t.proved, Exact => t.pre # "acked",
         unproved' \subseteq unproved,
         Entitled(p) /\ t.at = "settle" /\ ~t.got /\ t.end \in {"not_sent", "rejected"} => unproved' = {},
         Entitled(p) /\ t.at = "settle" /\ Fenced /\ t.pre # "marked" => unproved' = {},
         ~Fenced /\ intent'[p] = "created" /\ t.at # "sending" => unproved' = {}
  PROVE  Evidence'
<1>1. Considerate(p) /\ Accounts(p)
  BY LicensedIsConsiderate DEF Accounts
<1>2. sender'[p] = t /\ Fenced' = Fenced /\ Exact' = Exact
  BY DEF Shape, TypeOK, Becomes, Fenced, Kind, Exact
<1>3. OwnEvidence(p)
  BY EvidenceByProcess DEF EvidenceOfAll
<1>4. (Entitled(p))' => Entitled(p) /\ unproved' \subseteq {p}
  BY <1>2, <1>3, EntitledBefore DEF OwnEvidence
<1>5. OwnEvidence(p)'
  BY <1>2, <1>4 DEF OwnEvidence, Unsent
<1> QED BY <1>1, <1>5, EvidenceStep

\* The evidence of a send is written at settlement.
LEMMA SettlePostSendEvidence ==
  ASSUME Shape, Evidence, Guarded, UNCHANGED delivery, NEW p \in Process, SettlePostSend(p)
  PROVE  Evidence'
<1> DEFINE s == sender[p]
           thrown == IF s.role = "recovery" /\ s.end = "results"
                     THEN [s EXCEPT !.end = "error"] ELSE Idle
<1>1. s \in SenderType /\ SenderSound(s) /\ OwnEvidence(p)
  BY EvidenceByProcess DEF Shape, TypeOK, SendersSound, EvidenceOfAll
<1>2. /\ s.at = "settle" /\ OwesPostSend(s) /\ PersistPostSend(p, s, thrown)
      /\ UNCHANGED <<intent, submits, crashes, visible, unproved>>
  BY DEF SettlePostSend
<1>3. /\ PersistRow(p, row')
      /\ \/ Becomes(p, thrown)
         \/ \E x \in {"marked", "acked", "failed"} : Becomes(p, [s EXCEPT !.post = x])
  BY <1>2, PersistWrites DEF Claimant
<1>4. Lessens(row') /\ Licensed(p) /\ StampsKept /\ RowEvidence'
  BY <1>2, <1>3, PersistKeepsTruth
<1>5. ASSUME NEW t, Becomes(p, t), t.at = "settle", t.claim = s.claim, t.proved = s.proved,
             t.pre = s.pre, t.got = s.got, t.end = s.end \/ t.end = "error"
      PROVE  Evidence'
  <2>1. ~s.proved
    BY <1>1, <1>2 DEF SenderSound
  <2>2. Entitled(p) /\ ~t.got /\ t.end \in {"not_sent", "rejected"} => unproved' = {}
    BY <1>1, <1>2, <1>5 DEF OwnEvidence
  <2>3. Entitled(p) /\ Fenced /\ t.pre # "marked" => unproved' = {}
    BY <1>1, <1>2, <1>5 DEF OwnEvidence
  <2>4. ~Fenced /\ intent'[p] = "created" => unproved' = {}
    BY <1>1, <1>2 DEF OwnEvidence
  <2>5. Exact => t.pre # "acked"
    BY <1>1, <1>5 DEF OwnEvidence
  <2> QED BY <1>2, <1>4, <1>5, <2>1, <2>2, <2>3, <2>4, <2>5, SendingKeepsEvidence
<1>6. CASE Becomes(p, thrown)
  <2>1. CASE s.role = "recovery" /\ s.end = "results"
    <3> DEFINE t == [s EXCEPT !.end = "error"]
    <3>1. /\ t.at = s.at /\ t.claim = s.claim /\ t.proved = s.proved /\ t.pre = s.pre
          /\ t.got = s.got /\ t.end = "error"
      BY <1>1 DEF SenderType
    <3>2. Becomes(p, t)
      BY <1>6, <2>1
    <3> HIDE DEF t
    <3> QED BY <1>2, <1>5, <3>1, <3>2
  <2>2. CASE ~(s.role = "recovery" /\ s.end = "results")
    BY <1>2, <1>4, <1>6, <2>2, EndingKeepsEvidence
  <2> QED BY <2>1, <2>2
<1>7. ASSUME NEW x \in {"marked", "acked", "failed"}, Becomes(p, [s EXCEPT !.post = x])
      PROVE  Evidence'
  <2> DEFINE t == [s EXCEPT !.post = x]
  <2>1. /\ t.at = s.at /\ t.claim = s.claim /\ t.proved = s.proved /\ t.pre = s.pre
        /\ t.got = s.got /\ t.end = s.end
    BY <1>1 DEF SenderType
  <2>2. Becomes(p, t)
    BY <1>7
  <2> HIDE DEF t
  <2> QED BY <1>2, <1>5, <2>1, <2>2
<1> QED BY <1>3, <1>6, <1>7

\* The first result of a send arrives.
LEMMA DeliveryResultEvidence ==
  ASSUME Shape, Evidence, Guarded, UNCHANGED delivery, NEW p \in Process, DeliveryResult(p)
  PROVE  Evidence'
<1> DEFINE o == sender[p]
           s == [o EXCEPT !.got = TRUE]
           f == [s EXCEPT !.at = "settle", !.end = "error"]
<1>1. o \in SenderType /\ SenderSound(o) /\ OwnEvidence(p)
  BY EvidenceByProcess DEF Shape, TypeOK, SendersSound, EvidenceOfAll
<1>2. o.at = "sending" /\ AnswerArrives(p) /\ UNCHANGED <<intent, submits, crashes, visible, unproved>>
  BY DEF DeliveryResult
<1>3. (NoWrite /\ Becomes(p, s)) \/ PersistPostSend(p, s, f)
  BY ZenonT(30) DEF DeliveryResult
<1>4. /\ s \in SenderType /\ s.at = o.at /\ s.claim = o.claim /\ s.proved = o.proved /\ s.pre = o.pre
      /\ s.got
  BY <1>1 DEF SenderType
<1> HIDE DEF s
<1>5. f.at = "settle" /\ f.claim = o.claim /\ f.proved = o.proved /\ f.pre = o.pre /\ f.got
  BY <1>4 DEF SenderType
<1> HIDE DEF f
<1>6. PersistRow(p, row') /\ \E t : /\ Becomes(p, t) /\ t.at \in {"sending", "settle"} /\ t.got
                                    /\ t.claim = o.claim /\ t.proved = o.proved /\ t.pre = o.pre
  <2>1. CASE NoWrite /\ Becomes(p, s)
    BY <1>2, <1>4, <2>1 DEF NoWrite, PersistRow
  <2>2. CASE PersistPostSend(p, s, f)
    <3>1. /\ PersistRow(p, row')
          /\ \/ Becomes(p, f)
             \/ \E x \in {"marked", "acked", "failed"} : Becomes(p, [s EXCEPT !.post = x])
      BY <1>2, <1>4, <2>2, PersistWrites DEF Claimant
    <3>2. ASSUME NEW x \in {"marked", "acked", "failed"}, Becomes(p, [s EXCEPT !.post = x])
          PROVE  \E t : /\ Becomes(p, t) /\ t.at \in {"sending", "settle"} /\ t.got
                        /\ t.claim = o.claim /\ t.proved = o.proved /\ t.pre = o.pre
      <4> DEFINE t == [s EXCEPT !.post = x]
      <4>1. t.at = s.at /\ t.got = s.got /\ t.claim = s.claim /\ t.proved = s.proved /\ t.pre = s.pre
        BY <1>4 DEF SenderType
      <4>2. Becomes(p, t)
        BY <3>2
      <4> HIDE DEF t
      <4> QED BY <1>2, <1>4, <4>1, <4>2
    <3> QED BY <1>5, <3>1, <3>2
  <2> QED BY <1>3, <2>1, <2>2
<1>7. Lessens(row') /\ Licensed(p) /\ StampsKept /\ RowEvidence'
  BY <1>2, <1>6, PersistKeepsTruth
<1>8. PICK t : /\ Becomes(p, t) /\ t.at \in {"sending", "settle"} /\ t.got
               /\ t.claim = o.claim /\ t.proved = o.proved /\ t.pre = o.pre
  BY <1>6
<1>9. /\ ~t.proved /\ (Exact => t.pre # "acked")
      /\ Fenced => t.pre = "marked"
      /\ intent'[p] # "created"
  BY <1>1, <1>2, <1>8 DEF SenderSound, OwnEvidence, AnswerArrives
<1> QED BY <1>2, <1>7, <1>8, <1>9, SendingKeepsEvidence

\* The provider takes the call.
LEMMA ProviderAcceptsEvidence ==
  ASSUME Shape, Evidence, Guarded, UNCHANGED delivery, NEW p \in Process, ProviderAccepts(p)
  PROVE  Evidence'
<1> DEFINE s == sender[p]
           t == [s EXCEPT !.accepted = TRUE]
<1>1. s \in SenderType /\ SenderSound(s) /\ visible \in 0 .. 2 /\ OwnEvidence(p)
  BY EvidenceByProcess DEF Shape, TypeOK, SendersSound, EvidenceOfAll
<1>2. /\ s.at = "sending"
      /\ visible' = IF visible = 2 THEN 2 ELSE visible + 1
      /\ UNCHANGED <<row, intent, submits, crashes, faults, unproved>>
  BY DEF ProviderAccepts
<1>3. Becomes(p, t)
  BY ZenonT(20) DEF ProviderAccepts
<1>4. t.at = s.at /\ t.claim = s.claim /\ t.proved = s.proved /\ t.pre = s.pre
  BY <1>1 DEF SenderType
<1> HIDE DEF t
<1>5. ~t.proved /\ (Exact => t.pre # "acked")
  BY <1>1, <1>2, <1>4 DEF SenderSound, OwnEvidence
<1>6. Lessens(row') /\ Licensed(p) /\ StampsKept /\ TruthKept
  BY <1>2 DEF Lessens, Licensed, StampsKept, TruthKept, Pending
<1>7. RowEvidence'
  <2>1. visible' > 0
    BY <1>1, <1>2
  <2> QED BY <1>2, <1>6, <2>1, TruthIsKept
<1> QED BY <1>2, <1>3, <1>4, <1>5, <1>6, <1>7, SendingKeepsEvidence

\* The provider answers.
LEMMA ProviderReturnsEvidence ==
  ASSUME Shape, Evidence, Guarded, UNCHANGED delivery, NEW p \in Process, ProviderReturns(p)
  PROVE  Evidence'
<1> DEFINE s == sender[p]
<1>1. s \in SenderType /\ SenderSound(s) /\ OwnEvidence(p)
  BY EvidenceByProcess DEF Shape, TypeOK, SendersSound, EvidenceOfAll
<1>2. /\ s.at = "sending" /\ AnswerArrives(p)
      /\ UNCHANGED <<row, intent, submits, crashes, faults, visible>>
  BY DEF ProviderReturns
<1>3. PICK end \in {"results", "empty", "error", "not_sent", "rejected"}
                  \cup (IF s.role = "live" THEN {"abort"} ELSE {}) :
           /\ end \in {"not_sent", "rejected"} => s.got \/ ~s.accepted
           /\ Becomes(p, [s EXCEPT !.at = "settle", !.end = end, !.got = @ \/ end = "results"])
           /\ unproved' = IF end \in {"not_sent", "rejected"} /\ ~s.accepted
                          THEN unproved \ {p} ELSE unproved
  BY DEF ProviderReturns
<1>4. PICK g \in BOOLEAN : g = (s.got \/ end = "results")
  OBVIOUS
<1> DEFINE t == [s EXCEPT !.at = "settle", !.end = end, !.got = g]
<1>5. Becomes(p, t) /\ t = [s EXCEPT !.at = "settle", !.end = end, !.got = g]
  BY <1>3, <1>4
<1> HIDE DEF t
<1>6. t.at = "settle" /\ t.claim = s.claim /\ t.proved = s.proved /\ t.pre = s.pre /\ t.got = g /\ t.end = end
  BY <1>1, <1>5 DEF SenderType
<1>7. /\ ~t.proved /\ (Exact => t.pre # "acked")
      /\ Fenced => t.pre = "marked"
      /\ intent'[p] # "created"
  BY <1>1, <1>2, <1>6 DEF SenderSound, OwnEvidence, AnswerArrives
<1>8. unproved' \subseteq unproved
  BY <1>3
<1>9. Lessens(row') /\ Licensed(p) /\ StampsKept /\ TruthKept
  BY <1>2 DEF Lessens, Licensed, StampsKept, TruthKept, Pending
<1>10. RowEvidence'
  BY <1>2, <1>8, <1>9, TruthIsKept
<1>11. Entitled(p) /\ ~t.got /\ t.end \in {"not_sent", "rejected"} => unproved' = {}
  <2>1. Entitled(p) => unproved \subseteq {p}
    BY <1>1, <1>2 DEF OwnEvidence
  <2> QED BY <1>3, <1>4, <1>6, <2>1
<1> QED BY <1>2, <1>5, <1>6, <1>7, <1>8, <1>9, <1>10, <1>11, SendingKeepsEvidence

\* A sender before the platform goes on, but not yet to the dispatch.
LEMMA UnsentKeepsEvidence ==
  ASSUME Shape, Evidence, Guarded, UNCHANGED delivery, NEW p \in Process, NEW t, Becomes(p, t),
         Lessens(row'), Licensed(p), StampsKept, RowEvidence', UNCHANGED <<intent, unproved>>,
         sender[p].at \in Unsent, t.at \in {"reserve", "spent", "start", "settle"},
         t.claim = sender[p].claim, ~t.proved, t.pre = sender[p].pre
  PROVE  Evidence'
<1>1. Considerate(p) /\ Accounts(p)
  BY LicensedIsConsiderate DEF Accounts
<1>2. sender'[p] = t /\ Fenced' = Fenced /\ Exact' = Exact
  BY DEF Shape, TypeOK, Becomes, Fenced, Kind, Exact
<1>3. OwnEvidence(p)
  BY EvidenceByProcess DEF EvidenceOfAll
<1>4. (Entitled(p))' => unproved' = {}
  BY <1>2, <1>3, EntitledBefore DEF OwnEvidence
<1>5. /\ ~Fenced /\ intent'[p] = "created" => unproved' = {}
      /\ Exact => t.pre # "acked"
  BY <1>3 DEF OwnEvidence, Unsent
<1>6. OwnEvidence(p)'
  BY <1>2, <1>4, <1>5 DEF OwnEvidence, Unsent
<1> QED BY <1>1, <1>6, EvidenceStep

\* Where all calls are proved undelivered, a sender may go on to the dispatch.
LEMMA ProvedKeepsEvidence ==
  ASSUME Shape, Evidence, Guarded, UNCHANGED <<delivery, visible>>, NEW p \in Process, NEW t,
         Becomes(p, t), Considerate(p), unproved' = {}, row' = row \/ row'.status # "completed" \/ ~Fenced,
         Exact => t.pre # "acked",
         t.at = "dispatch" =>
           /\ Fenced /\ (Entitled(p))' => row'.recoveryState = "send_attempt_started"
           /\ Fenced /\ ~Reconciles => (Entitled(p))'
           /\ ~Fenced /\ ~Exact => \/ t.pre = "marked" /\ (row'.status = "pending" => NeedsReconciliation(row'))
                                   \/ t.pre = "acked" /\ row'.status # "pending"
  PROVE  Evidence'
<1>1. Accounts(p)
  BY DEF Accounts
<1>2. sender'[p] = t /\ Fenced' = Fenced /\ Exact' = Exact /\ Reconciles' = Reconciles /\ Kind' = Kind
  BY DEF Shape, TypeOK, Becomes, Fenced, Kind, Exact, Reconciles
<1>3. OwnEvidence(p)'
  BY <1>2 DEF OwnEvidence, Pending, NeedsReconciliation
<1>4. RowEvidence'
  BY <1>2 DEF RowEvidence, EvidenceSurvives, ReceiptMeansDelivered, Evidence, Fenced
<1> QED BY <1>1, <1>3, <1>4, EvidenceStep

\* The core send ends early, or custody of a claimed row is taken.
LEMMA QuietUnsentEvidence ==
  ASSUME Shape, Evidence, Guarded, UNCHANGED delivery, NEW p \in Process,
         EndsBeforeSend(p) \/ TakeCustody(p)
  PROVE  Evidence'
<1> DEFINE s == sender[p]
<1>1. s \in SenderType /\ SenderSound(s)
  BY DEF Shape, TypeOK, SendersSound
<1>2. /\ s.at \in {"start", "dispatch", "custody"}
      /\ UNCHANGED <<row, intent, submits, crashes, faults, visible, unproved>>
  BY DEF EndsBeforeSend, TakeCustody
<1>3. Lessens(row') /\ Licensed(p) /\ StampsKept /\ TruthKept
  BY <1>2 DEF Lessens, Licensed, StampsKept, TruthKept, Pending
<1>4. RowEvidence'
  BY <1>2, <1>3, TruthIsKept
<1>5. ASSUME NEW t, Becomes(p, t), t.at \in {"start", "settle"}, t.claim = s.claim,
             t.proved = s.proved, t.pre = s.pre
      PROVE  Evidence'
  <2>1. ~t.proved /\ s.at \in Unsent
    BY <1>1, <1>2, <1>5 DEF SenderSound, Unsent
  <2> QED BY <1>2, <1>3, <1>4, <1>5, <2>1, UnsentKeepsEvidence
<1>6. CASE EndsBeforeSend(p)
  <2>1. PICK end \in {"empty", "error", "not_sent", "rejected"}
                   \cup (IF s.role = "live" THEN {"abort"} ELSE {}) :
          Becomes(p, [s EXCEPT !.at = "settle", !.end = end])
    BY <1>6 DEF EndsBeforeSend
  <2> DEFINE t == [s EXCEPT !.at = "settle", !.end = end]
  <2>2. Becomes(p, t) /\ t = [s EXCEPT !.at = "settle", !.end = end]
    BY <2>1
  <2> HIDE DEF t
  <2>3. t.at = "settle" /\ t.claim = s.claim /\ t.proved = s.proved /\ t.pre = s.pre
    BY <1>1, <2>2 DEF SenderType
  <2> QED BY <1>5, <2>2, <2>3
<1>7. CASE TakeCustody(p)
  <2>1. Becomes(p, Idle) \/ Becomes(p, [s EXCEPT !.at = "start"])
    BY <1>7 DEF TakeCustody
  <2>2. CASE Becomes(p, Idle)
    BY <1>2, <1>3, <1>4, <2>2, EndingKeepsEvidence
  <2>3. CASE Becomes(p, [s EXCEPT !.at = "start"])
    <3> DEFINE t == [s EXCEPT !.at = "start"]
    <3>1. t.at = "start" /\ t.claim = s.claim /\ t.proved = s.proved /\ t.pre = s.pre
      BY <1>1 DEF SenderType
    <3>2. Becomes(p, t)
      BY <2>3
    <3> HIDE DEF t
    <3> QED BY <1>5, <3>1, <3>2
  <2> QED BY <2>1, <2>2, <2>3
<1> QED BY <1>6, <1>7

\* An attempt of recovery is reserved or refused.
LEMMA ReserveAttemptEvidence ==
  ASSUME Shape, Evidence, Guarded, UNCHANGED delivery, NEW p \in Process,
         ReserveAttempt(p) \/ DeadLetterSpent(p)
  PROVE  Evidence'
<1> DEFINE s == sender[p]
<1>1. s \in SenderType /\ SenderSound(s)
  BY DEF Shape, TypeOK, SendersSound
<1>2. /\ UNCHANGED <<intent, submits, crashes, visible, unproved>>
      /\ s.at \in {"reserve", "spent"}
      /\ \/ row' = row /\ Becomes(p, Idle)
         \/ row' = row /\ Becomes(p, [s EXCEPT !.at = "spent"])
         \/ Entitled(p) /\ Pending /\ row' = MovedToFailed /\ Becomes(p, Idle)
         \/ /\ Entitled(p) /\ Pending /\ ~Exhausted(row)
            /\ row' = [row EXCEPT !.attemptCount = AttemptCount(row) + 1]
            /\ Becomes(p, [s EXCEPT !.at = "start"])
  BY ReserveAttemptShape
<1>3. CASE row' = row /\ Becomes(p, Idle)
  <2>1. Lessens(row') /\ Licensed(p) /\ StampsKept /\ TruthKept
    BY <1>3 DEF Lessens, Licensed, StampsKept, TruthKept, Pending
  <2>2. RowEvidence'
    BY <1>2, <2>1, TruthIsKept
  <2> QED BY <1>2, <1>3, <2>1, <2>2, EndingKeepsEvidence
<1>6. CASE row' = row /\ Becomes(p, [s EXCEPT !.at = "spent"])
  <2>1. Lessens(row') /\ Licensed(p) /\ StampsKept /\ TruthKept
    BY <1>6 DEF Lessens, Licensed, StampsKept, TruthKept, Pending
  <2>2. RowEvidence'
    BY <1>2, <2>1, TruthIsKept
  <2> DEFINE t == [s EXCEPT !.at = "spent"]
  <2>3. t.at = "spent" /\ t.claim = s.claim /\ t.proved = s.proved /\ t.pre = s.pre
    BY <1>1 DEF SenderType
  <2>4. Becomes(p, t)
    BY <1>6
  <2> HIDE DEF t
  <2>5. ~t.proved /\ s.at \in Unsent
    BY <1>1, <1>2, <2>3 DEF SenderSound, Unsent
  <2> QED BY <1>2, <2>1, <2>2, <2>3, <2>4, <2>5, UnsentKeepsEvidence
<1>4. CASE Entitled(p) /\ Pending /\ row' = MovedToFailed /\ Becomes(p, Idle)
  <2>1. Lessens(row') /\ Licensed(p) /\ StampsKept /\ TruthKept
    BY <1>4, MovedRow DEF Licensed, StampsKept, TruthKept
  <2>2. RowEvidence'
    BY <1>2, <2>1, TruthIsKept
  <2> QED BY <1>2, <1>4, <2>1, <2>2, EndingKeepsEvidence
<1>5. CASE /\ Entitled(p) /\ Pending /\ ~Exhausted(row)
           /\ row' = [row EXCEPT !.attemptCount = AttemptCount(row) + 1]
           /\ Becomes(p, [s EXCEPT !.at = "start"])
  <2>1. Lessens(row') /\ Licensed(p) /\ StampsKept /\ TruthKept
    <3>1. /\ Lessens(row') /\ row'.status = "pending"
          /\ row'.recoveryState = row.recoveryState
          /\ row'.platformSendStartedAt = row.platformSendStartedAt
          /\ row'.platformSendAttemptId = row.platformSendAttemptId
      BY <1>5, ReservedRow
    <3> QED BY <1>5, <3>1 DEF Licensed, StampsKept, TruthKept
  <2>2. RowEvidence'
    BY <1>2, <2>1, TruthIsKept
  <2> DEFINE t == [s EXCEPT !.at = "start"]
  <2>3. t.at = "start" /\ t.claim = s.claim /\ t.proved = s.proved /\ t.pre = s.pre
    BY <1>1 DEF SenderType
  <2>4. Becomes(p, t)
    BY <1>5
  <2> HIDE DEF t
  <2>5. ~t.proved /\ s.at \in Unsent
    BY <1>1, <1>2, <2>3 DEF SenderSound, Unsent
  <2> QED BY <1>2, <2>1, <2>2, <2>3, <2>4, <2>5, UnsentKeepsEvidence
<1> QED BY <1>2, <1>3, <1>4, <1>5, <1>6

\* A row is claimed only where every call for it is proved undelivered.
LEMMA ClaimIsSafe ==
  ASSUME Shape, Evidence, UNCHANGED delivery, Fenced, NEW p \in Process, NEW t, Becomes(p, t),
         NEW proved \in BOOLEAN, Claimable(sender[p].seen, proved), proved => sender[p].proved,
         NEW id \in FreshId, row' = Claimed(id)
  PROVE  unproved = {} /\ Considerate(p) /\ row'.status = "pending"
<1>1. Pending /\ EvidenceSurvives /\ OwnEvidence(p)
  BY EvidenceByProcess DEF Claimable, Evidence, EvidenceOfAll
<1>2. unproved = {}
  BY <1>1 DEF Claimable, EvidenceSurvives, NeedsReconciliation, OwnEvidence
<1>3. /\ row'.status = "pending" /\ row'.producerClaimId = id /\ row'.platformSendAttemptId = Nil
      /\ row'.recoveryState = "producer_claimed"
  BY <1>1, FreshClaim, ClaimedRow
<1>4. Fenced'
  BY DEF Fenced, Kind
<1>5. \A q \in Process : q # p => sender'[q] = sender[q]
  BY DEF Shape, TypeOK, Becomes
<1>6. \A q \in Process : q # p => ~(Entitled(q))'
  BY <1>3, <1>4, <1>5, FreshClaim DEF Entitled
<1>7. ASSUME NEW q \in Process, Entitled(q), sender[q].at = "dispatch"
      PROVE  Reconciles
  <2>1. row.recoveryState = "send_attempt_started"
    BY <1>7, EvidenceByProcess DEF EvidenceOfAll, OwnEvidence
  <2>2. sender[p].proved
    BY <2>1 DEF Claimable
  <2> QED BY <2>2 DEF Shape, SendersSound, SenderSound
<1>8. Considerate(p)
  BY <1>3, <1>6, <1>7 DEF Considerate
<1> QED BY <1>2, <1>3, <1>8

\* A producer claims its row, or gives up.
LEMMA ClaimPendingEvidence ==
  ASSUME Shape, Evidence, Guarded, UNCHANGED delivery, NEW p \in Process, ClaimPending(p)
  PROVE  Evidence'
<1> DEFINE s == sender[p]
<1>1. s \in SenderType /\ SenderSound(s) /\ OwnEvidence(p)
  BY EvidenceByProcess DEF Shape, TypeOK, SendersSound, EvidenceOfAll
<1>2. s.at \in {"claim", "reclaim"} /\ UNCHANGED <<intent, submits, crashes, visible, unproved>>
  BY DEF ClaimPending
<1>3. \/ row' = row /\ Becomes(p, Idle)
      \/ /\ Claimable(AbsentRow, FALSE)
         /\ \E id \in FreshId :
              /\ row' = Claimed(id)
              /\ Becomes(p, [s EXCEPT !.claim = id, !.at = IF @ = "claim" THEN "start" ELSE "custody"])
  BY DEF ClaimPending
<1>4. CASE row' = row /\ Becomes(p, Idle)
  <2>1. Lessens(row') /\ Licensed(p) /\ StampsKept /\ TruthKept
    BY <1>4 DEF Lessens, Licensed, StampsKept, TruthKept, Pending
  <2>2. RowEvidence'
    BY <1>2, <2>1, TruthIsKept
  <2> QED BY <1>2, <1>4, <2>1, <2>2, EndingKeepsEvidence
<1>5. ASSUME Claimable(AbsentRow, FALSE), NEW id \in FreshId, row' = Claimed(id),
             Becomes(p, [s EXCEPT !.claim = id, !.at = IF @ = "claim" THEN "start" ELSE "custody"])
      PROVE  Evidence'
  <2>1. PICK a \in {"start", "custody"} : a = IF s.at = "claim" THEN "start" ELSE "custody"
    OBVIOUS
  <2>2. PICK no \in BOOLEAN : no = FALSE
    OBVIOUS
  <2> DEFINE t == [s EXCEPT !.claim = id, !.at = a]
  <2>3. Becomes(p, t)
    BY <1>1, <1>5, <2>1 DEF SenderType
  <2>4. t.at = a /\ t.pre = s.pre
    BY <1>1 DEF SenderType
  <2> HIDE DEF t
  <2>5. Claimable(s.seen, no)
    BY <1>5, <2>2 DEF Claimable
  <2>6. Fenced
    BY <1>1, <1>2 DEF SenderSound
  <2>7. unproved = {} /\ Considerate(p) /\ row'.status = "pending"
    BY <1>5, <2>2, <2>3, <2>5, <2>6, ClaimIsSafe
  <2>8. t.at # "dispatch" /\ (Exact => t.pre # "acked")
    BY <1>1, <2>4 DEF OwnEvidence
  <2> QED BY <1>2, <2>3, <2>7, <2>8, ProvedKeepsEvidence
<1> QED BY <1>3, <1>4, <1>5

\* Recovery goes on without a claim, with one, or not at all.
LEMMA FenceRecoveryEvidence ==
  ASSUME Shape, Evidence, Guarded, UNCHANGED delivery, NEW p \in Process, FenceRecovery(p)
  PROVE  Evidence'
<1> DEFINE s == sender[p]
           n == [s EXCEPT !.at = "reserve", !.seen = AbsentRow, !.proved = FALSE]
<1>1. s \in SenderType /\ SenderSound(s) /\ OwnEvidence(p)
  BY EvidenceByProcess DEF Shape, TypeOK, SendersSound, EvidenceOfAll
<1>2. s.at = "fence" /\ UNCHANGED <<intent, submits, crashes, visible, unproved>>
  BY DEF FenceRecovery
<1>3. \/ ~RequiresClaim(s.seen) /\ NoWrite /\ Becomes(p, n)
      \/ /\ RequiresClaim(s.seen) /\ Claimable(s.seen, s.proved)
         /\ \E id \in FreshId : row' = Claimed(id) /\ Becomes(p, [n EXCEPT !.claim = id])
      \/ row' = row /\ Becomes(p, Idle)
  BY ZenonT(30) DEF FenceRecovery
<1>4. /\ n \in SenderType /\ n.at = "reserve" /\ n.claim = s.claim /\ ~n.proved /\ n.pre = s.pre
  <2>1. n \in SenderType
    BY <1>1, EmptyRows DEF SenderType
  <2> QED BY <1>1, <2>1 DEF SenderType
<1> HIDE DEF n
<1>5. RequiresClaim(s.seen) = Fenced
  BY <1>1 DEF RequiresClaim, Shape, ClaimsFenced, Fenced
<1>6. ASSUME row' = row
      PROVE  Lessens(row') /\ Licensed(p) /\ StampsKept /\ RowEvidence'
  <2>1. Lessens(row') /\ Licensed(p) /\ StampsKept /\ TruthKept
    BY <1>6 DEF Lessens, Licensed, StampsKept, TruthKept, Pending
  <2> QED BY <1>2, <2>1, TruthIsKept
<1>7. CASE row' = row /\ Becomes(p, Idle)
  BY <1>2, <1>6, <1>7, EndingKeepsEvidence
<1>8. CASE ~Fenced /\ NoWrite /\ Becomes(p, n)
  <2>1. row' = row /\ s.at \in Unsent
    BY <1>2, <1>8 DEF NoWrite, Unsent
  <2> QED BY <1>2, <1>4, <1>6, <1>8, <2>1, UnsentKeepsEvidence
<1>9. ASSUME Fenced, Claimable(s.seen, s.proved), NEW id \in FreshId, row' = Claimed(id),
             Becomes(p, [n EXCEPT !.claim = id])
      PROVE  Evidence'
  <2> DEFINE t == [n EXCEPT !.claim = id]
  <2>1. t.at = "reserve" /\ t.pre = s.pre
    BY <1>4 DEF SenderType
  <2>2. Becomes(p, t)
    BY <1>9
  <2> HIDE DEF t
  <2>3. PICK b \in BOOLEAN : b = s.proved
    BY <1>1 DEF SenderType
  <2>4. unproved = {} /\ Considerate(p) /\ row'.status = "pending"
    BY <1>9, <2>2, <2>3, ClaimIsSafe
  <2>5. t.at # "dispatch" /\ (Exact => t.pre # "acked")
    BY <1>1, <2>1 DEF OwnEvidence
  <2> QED BY <1>2, <2>2, <2>4, <2>5, ProvedKeepsEvidence
<1> QED BY <1>3, <1>5, <1>7, <1>8, <1>9

\* A step that leaves the row alone.
LEMMA StillRow ==
  ASSUME row' = row, NEW p \in Process
  PROVE  Lessens(row') /\ Licensed(p) /\ StampsKept /\ TruthKept
BY DEF Lessens, Licensed, StampsKept, TruthKept, Pending

\* The start of a send: the evidence is in the row before the call is made.
LEMMA PlatformSendStartEvidence ==
  ASSUME Shape, Evidence, Guarded, UNCHANGED delivery, NEW p \in Process, PlatformSendStart(p)
  PROVE  Evidence'
<1> DEFINE s == sender[p]
<1>1. s \in SenderType /\ SenderSound(s) /\ OwnEvidence(p)
  BY EvidenceByProcess DEF Shape, TypeOK, SendersSound, EvidenceOfAll
<1>2. s.at = "start" /\ ~Exact /\ UNCHANGED <<intent, submits, crashes, visible, unproved>> /\ Starts(p)
  BY PlatformSendStarts
<1>3. Entitled(p) => unproved = {}
  BY <1>1, <1>2 DEF OwnEvidence, Unsent
<1>4. CASE row' = row /\ Fails(p)
  <2>1. PICK t \in SenderType :
          /\ Becomes(p, t) /\ t.at = "settle" /\ t.pre = s.pre
          /\ t.claim = s.claim /\ t.proved = s.proved
    BY <1>2, <1>4, FailsGoes
  <2>2. Lessens(row') /\ Licensed(p) /\ StampsKept /\ TruthKept
    BY <1>4, StillRow
  <2>3. RowEvidence'
    BY <1>2, <2>2, TruthIsKept
  <2>4. ~t.proved /\ s.at \in Unsent
    BY <1>1, <1>2, <2>1 DEF SenderSound, Unsent
  <2> QED BY <1>2, <2>1, <2>2, <2>3, <2>4, UnsentKeepsEvidence
<1>5. ASSUME s.claim # Nil, Promotable(s.claim), NEW now \in FreshStamp,
             row' = Promoted(s.claim, now), Marked(p)
      PROVE  Evidence'
  <2>1. s.claim \in Id /\ now \in Stamp /\ Pending /\ row.producerClaimId = s.claim
    BY <1>1, <1>5 DEF SenderType, FreshStamp, Promotable
  <2>2. Fenced /\ Fenced'
    BY <1>5 DEF Shape, ClaimsFenced, Fenced, Kind
  <2>3. Entitled(p) /\ unproved = {}
    BY <1>3, <1>5, <2>1 DEF Entitled
  <2>4. PICK t \in SenderType : Becomes(p, t) /\ t.at = "dispatch" /\ t.pre = "marked" /\ t.claim = s.claim
    BY <1>2, <1>5, MarkedGoes
  <2>5. /\ row'.status = "pending" /\ row'.platformSendAttemptId = s.claim
        /\ row'.producerClaimId = Nil
        /\ row'.recoveryState = "send_attempt_started" /\ row'.platformSendStartedAt = now
    BY <1>5, <2>1, PromotedRow
  <2>6. \A q \in Process : sender'[q] = IF q = p THEN t ELSE sender[q]
    BY <2>4 DEF Shape, TypeOK, Becomes
  <2>7. (Entitled(p))'
    BY <1>5, <2>4, <2>5, <2>6 DEF Entitled, Pending
  <2>8. \A q \in Process : q # p => ~Entitled(q)
    BY <2>2, <2>3, SoleOwner
  <2>9. \A q \in Process : q # p => ~(Entitled(q))'
    <3>1. \A q \in Process : q # p => sender[q].claim # s.claim
      BY <1>5 DEF Shape, ClaimsApart
    <3> QED BY <2>2, <2>5, <2>6, <3>1 DEF Entitled
  <2>10. FreshlyStamped
    BY <2>5 DEF FreshlyStamped, FreshStamp
  <2>11. Considerate(p)
    BY <2>8, <2>9, <2>10 DEF Considerate
  <2> QED BY <1>2, <2>2, <2>3, <2>4, <2>5, <2>7, <2>11, ProvedKeepsEvidence
<1>6. s.claim = Nil => ~Fenced /\ Considerate(p) /\ unproved = {}
  BY <1>1, <1>2, <1>3 DEF SenderSound, Claimant, Considerate, Entitled
<1>7. ASSUME s.claim = Nil, Pending, NEW now \in FreshStamp, row' = AttemptStarted(now), Marked(p)
      PROVE  Evidence'
  <2>1. PICK c \in Id \cup {Nil} : c = Nil
    OBVIOUS
  <2>2. row'.status = "pending" /\ NeedsReconciliation(row')
    BY <1>7, <2>1, MarkedRow DEF FreshStamp, NeedsReconciliation
  <2>3. PICK t \in SenderType : Becomes(p, t) /\ t.at = "dispatch" /\ t.pre = "marked"
    BY <1>2, <1>7, MarkedGoes
  <2> QED BY <1>2, <1>6, <1>7, <2>2, <2>3, ProvedKeepsEvidence
<1>8. CASE StartsAcked(p)
  <2>1. s.claim = Nil /\ row'.status # "pending"
    BY <1>8, ReceiptRow, EmptyRows DEF StartsAcked, Pending
  <2>2. PICK t \in SenderType : Becomes(p, t) /\ t.at = "dispatch" /\ t.pre = "acked"
    BY <1>2, <1>8, AckedGoes DEF StartsAcked
  <2> QED BY <1>2, <1>6, <2>1, <2>2, ProvedKeepsEvidence
<1>9. StartsFenced(p) => Evidence'
  BY <1>5 DEF StartsFenced
<1>10. StartsMarked(p) => Evidence'
  BY <1>7 DEF StartsMarked
<1> QED BY <1>2, <1>4, <1>8, <1>9, <1>10 DEF Starts

\* A send whose start is marked only at its dispatch.
LEMMA ExactSendStartEvidence ==
  ASSUME Shape, Evidence, Guarded, UNCHANGED delivery, NEW p \in Process, ExactSendStart(p)
  PROVE  Evidence'
<1> DEFINE s == sender[p]
           t == [s EXCEPT !.at = "dispatch"]
<1>1. s \in SenderType /\ SenderSound(s) /\ OwnEvidence(p)
  BY EvidenceByProcess DEF Shape, TypeOK, SendersSound, EvidenceOfAll
<1>2. /\ s.at = "start" /\ Exact
      /\ UNCHANGED <<row, intent, submits, crashes, faults, visible, unproved>>
  BY DEF ExactSendStart
<1>3. Becomes(p, t)
  BY DEF ExactSendStart
<1>4. t.at = "dispatch" /\ t.pre = s.pre
  BY <1>1 DEF SenderType
<1> HIDE DEF t
<1>5. ~Fenced
  BY <1>2, DeliveryAssumption DEF Shape, TypeOK, Fenced, Kind, Exact
<1>6. unproved' = {} /\ t.pre # "acked" /\ Considerate(p)
  BY <1>1, <1>2, <1>4, <1>5 DEF OwnEvidence, Unsent, Entitled, Considerate
<1> QED BY <1>2, <1>3, <1>5, <1>6, ProvedKeepsEvidence

\* A sender about to cross is entitled to, and every earlier call is proved undelivered.
LEMMA CrossingIsProved ==
  ASSUME Shape, Evidence, NEW p \in Process, sender[p].at = "dispatch",
         CrossesMarked(p) \/ CrossesUnmarked(p)
  PROVE  Entitled(p) /\ unproved = {}
<1>1. SenderSound(sender[p]) /\ OwnEvidence(p)
  BY EvidenceByProcess DEF Shape, TypeOK, SendersSound, EvidenceOfAll
<1>2. Entitled(p)
  <2>1. CASE CrossesMarked(p)
    BY <2>1 DEF CrossesMarked
  <2>2. CASE ~Fenced
    BY <2>2 DEF Entitled
  <2>3. CASE CrossesUnmarked(p) /\ Fenced
    BY <1>1, <2>3 DEF CrossesUnmarked, SenderSound, Claimant, OwnEvidence
  <2> QED BY <2>1, <2>2, <2>3
<1> QED BY <1>1, <1>2 DEF OwnEvidence, Unsent

\* The dispatch of a send.
LEMMA PlatformSendDispatchEvidence ==
  ASSUME Shape, Evidence, Guarded, UNCHANGED delivery, NEW p \in Process, PlatformSendDispatch(p)
  PROVE  Evidence'
<1> DEFINE s == sender[p]
<1>1. s \in SenderType /\ SenderSound(s) /\ OwnEvidence(p)
  BY EvidenceByProcess DEF Shape, TypeOK, SendersSound, EvidenceOfAll
<1>2. /\ s.at = "dispatch" /\ UNCHANGED <<intent, submits, crashes, visible>>
      /\ \/ CrossesMarked(p) \/ CrossesUnmarked(p)
         \/ row' = row /\ Fails(p) /\ unproved' = unproved
  BY PlatformSendDispatches
<1>3. ~s.proved
  BY <1>1, <1>2 DEF SenderSound
<1>4. ASSUME row' = row, Fails(p), unproved' = unproved
      PROVE  Evidence'
  <2>1. PICK t \in SenderType :
          /\ Becomes(p, t) /\ t.at = "settle" /\ t.pre = s.pre
          /\ t.claim = s.claim /\ t.proved = s.proved
    BY <1>2, <1>4, FailsGoes
  <2>2. Lessens(row') /\ Licensed(p) /\ StampsKept /\ TruthKept
    BY <1>4, StillRow
  <2>3. RowEvidence'
    BY <1>2, <1>4, <2>2, TruthIsKept
  <2>4. ~t.proved /\ s.at \in Unsent
    BY <1>2, <1>3, <2>1 DEF Unsent
  <2> QED BY <1>2, <1>4, <2>1, <2>2, <2>3, <2>4, UnsentKeepsEvidence
<1>5. ASSUME CrossesMarked(p) \/ CrossesUnmarked(p)
      PROVE  Evidence'
  <2>1. Entitled(p) /\ unproved = {}
    BY <1>2, <1>5, CrossingIsProved
  <2>2. /\ unproved' = unproved \cup {p}
        /\ \E t \in SenderType :
             /\ Becomes(p, t) /\ t.at = "sending" /\ t.proved = s.proved /\ t.pre \in {s.pre, "marked"}
    BY <1>2, <1>5, CrossesGoes DEF CrossesMarked, CrossesUnmarked
  <2>3. PICK t \in SenderType :
             /\ Becomes(p, t) /\ t.at = "sending" /\ t.proved = s.proved /\ t.pre \in {s.pre, "marked"}
    BY <2>2
  <2>4. /\ CrossesUnmarked(p) => row' = row
        /\ CrossesMarked(p) => /\ row'.status = "pending" /\ FreshlyStamped
                               /\ row'.recoveryState = "send_attempt_started"
    <3>1. CrossesUnmarked(p) => row' = row
      BY DEF CrossesUnmarked
    <3>2. ASSUME CrossesMarked(p)
          PROVE  /\ row'.status = "pending" /\ FreshlyStamped
                 /\ row'.recoveryState = "send_attempt_started"
      <4>1. s.claim \in Id \cup {Nil} /\ (s.claim = Nil \/ Fenced)
        BY <1>1 DEF SenderType, Shape, ClaimsFenced
      <4>2. PICK now \in FreshStamp : Pending /\ row' = Dispatched(now, s.claim)
        BY <3>2 DEF CrossesMarked
      <4>3. now \in Stamp /\ \A q \in Process : now # sender[q].seen.platformSendStartedAt
        BY DEF FreshStamp
      <4>4. /\ row'.status = "pending" /\ row'.recoveryState = "send_attempt_started"
            /\ row'.platformSendStartedAt = now
        BY <4>1, <4>2, <4>3, MarkedRow
      <4> QED BY <4>3, <4>4 DEF FreshlyStamped
    <3> QED BY <3>1, <3>2
  <2>5. Considerate(p)
    <3>1. Lessens(row')
      BY PlatformSendDispatchShape
    <3>2. Licensed(p) /\ StampsKept
      BY <1>5, <2>1, <2>4 DEF Licensed, StampsKept, Pending
    <3> QED BY <2>3, <3>1, <3>2, LicensedIsConsiderate
  <2>6. Fenced => ~Reconciles \/ FreshlyStamped
    BY <1>1, <1>2, <1>5, <2>4 DEF CrossesUnmarked, SenderSound, Claimant
  <2>7. Accounts(p)
    BY <2>1, <2>2, <2>6 DEF Accounts
  <2>8. sender'[p] = t /\ Fenced' = Fenced /\ Exact' = Exact /\ Reconciles' = Reconciles /\ Kind' = Kind
    BY <2>3 DEF Shape, TypeOK, Becomes, Fenced, Kind, Exact, Reconciles
  <2>9. OwnEvidence(p)'
    <3>1. ~t.proved /\ (Exact => t.pre # "acked")
      BY <1>1, <1>3, <2>3 DEF OwnEvidence
    <3>2. unproved' \subseteq {p} /\ t.at = "sending"
      BY <2>1, <2>2, <2>3
    <3> QED BY <2>8, <3>1, <3>2 DEF OwnEvidence, Unsent
  <2>10. CrossesUnmarked(p) /\ Pending => NeedsReconciliation(row)
    <3>1. CASE Fenced
      BY <1>1, <1>2, <2>1, <3>1 DEF OwnEvidence, NeedsReconciliation
    <3>2. CASE ~Fenced /\ ~Exact
      BY <1>1, <1>2, <3>2 DEF OwnEvidence
    <3>3. CASE CrossesUnmarked(p) /\ Exact
      <4>1. Reconciles /\ s.pre # "acked"
        BY <1>1, <3>3, DeliveryAssumption DEF OwnEvidence, Exact, Reconciles, Shape, TypeOK
      <4> QED BY <3>3, <4>1 DEF CrossesUnmarked
    <3> QED BY <3>1, <3>2, <3>3
  <2>11. row.status = "absent" => Kind = "ordinary"
    <3>1. Fenced => Pending
      BY <2>1 DEF Entitled
    <3>2. Kind \in {"ordinary", "receipt", "stable"}
      BY DeliveryAssumption DEF Shape, TypeOK, Kind, DeliveryType
    <3>3. ~Fenced /\ Kind = "receipt" => row.status # "absent"
      BY <1>2 DEF Shape, Submissions
    <3> QED BY <3>1, <3>2, <3>3 DEF Fenced, Pending
  <2>12. RowEvidence'
    <3>1. EvidenceSurvives'
      BY <1>5, <2>4, <2>10 DEF EvidenceSurvives, Pending, NeedsReconciliation
    <3>2. ReceiptMeansDelivered'
      BY <1>2, <1>5, <2>4, <2>8 DEF ReceiptMeansDelivered, Evidence
    <3> QED BY <1>5, <2>4, <2>8, <2>11, <3>1, <3>2 DEF RowEvidence
  <2> QED BY <2>3, <2>5, <2>7, <2>9, <2>12, EvidenceStep
<1> QED BY <1>2, <1>4, <1>5

\* Writing as nobody is licensed, and what it writes is true.
LEMMA NobodyIsLicensed ==
  ASSUME Shape, NEW p \in Process, NobodyWrites(MovedToFailed)
  PROVE  Lessens(row') /\ Licensed(p) /\ StampsKept /\ TruthKept
<1>1. CASE row' = row
  BY <1>1, StillRow
<1>2. CASE /\ Pending /\ row' = MovedToFailed
           /\ Fenced => row.producerClaimId = Nil /\ row.platformSendAttemptId = Nil
  <2>1. Lessens(row') /\ row'.status = "failed"
    BY <1>2, MovedRow
  <2>2. Licensed(p)
    BY <1>2 DEF Licensed, Shape, ClaimsFenced
  <2> QED BY <2>1, <2>2 DEF StampsKept, TruthKept
<1> QED BY <1>1, <1>2 DEF NobodyWrites

\* A reconciliation that finds the message delivered, or finds nothing out.
LEMMA ReconciledEvidence ==
  ASSUME Shape, Evidence, Guarded, UNCHANGED delivery, NEW p \in Process,
         ReconciledSent(p) \/ Unreconciled(p)
  PROVE  Evidence'
<1>1. /\ Becomes(p, Idle) /\ UNCHANGED <<intent, submits, crashes, visible, unproved>>
      /\ \/ row' = row
         \/ /\ Pending /\ row' \in {FailDelivery, MovedToFailed}
            /\ Fenced => row.producerClaimId = Nil /\ row.platformSendAttemptId = Nil
         \/ /\ Reconciles /\ visible > 0 /\ Pending
            /\ row' \in {FailDelivery, Receipt} \/ (row' = AbsentRow /\ Kind = "ordinary")
      /\ Lessens(row')
  BY ReconciledShape
<1>2. sender[p].at = "reconcile"
  BY DEF ReconciledSent, Unreconciled
<1>3. Licensed(p) /\ StampsKept /\ TruthKept
  <2>1. CASE row' = row
    BY <2>1, StillRow
  <2>2. CASE Pending /\ row' = FailDelivery
    <3>1. /\ row'.status = "pending" /\ row'.recoveryState = row.recoveryState
          /\ row'.platformSendStartedAt = row.platformSendStartedAt
          /\ row'.platformSendAttemptId = row.platformSendAttemptId
      BY <2>2, FailDeliveryRow
    <3>2. Licensed(p)
      BY <1>1, <3>1 DEF Licensed, Shape, ClaimsFenced
    <3> QED BY <2>2, <3>1, <3>2 DEF StampsKept, TruthKept
  <2>3. CASE /\ Pending /\ row' = MovedToFailed
             /\ Fenced => row.producerClaimId = Nil /\ row.platformSendAttemptId = Nil
    <3>1. row'.status = "failed"
      BY <2>3, MovedRow
    <3>2. Licensed(p)
      BY <2>3 DEF Licensed, Shape, ClaimsFenced
    <3> QED BY <3>1, <3>2 DEF StampsKept, TruthKept
  <2>4. CASE Reconciles /\ visible > 0 /\ Pending /\ row' = Receipt
    BY <2>4, ReceiptRow DEF Licensed, StampsKept, TruthKept
  <2>5. CASE Reconciles /\ row' = AbsentRow /\ Kind = "ordinary"
    BY <2>5, EmptyRows DEF Licensed, StampsKept, TruthKept
  <2> QED BY <1>1, <2>1, <2>2, <2>3, <2>4, <2>5
<1>4. RowEvidence'
  BY <1>1, <1>3, TruthIsKept
<1> QED BY <1>1, <1>2, <1>3, <1>4, EndingKeepsEvidence

\* A reconciliation that finds that nothing was sent.
LEMMA ReconciledNotSentEvidence ==
  ASSUME Shape, Evidence, Guarded, UNCHANGED delivery, NEW p \in Process, ReconciledNotSent(p)
  PROVE  Evidence'
<1> DEFINE s == sender[p]
           t == [s EXCEPT !.proved = TRUE, !.at = "fence"]
<1>1. s \in SenderType /\ OwnEvidence(p)
  BY EvidenceByProcess DEF Shape, TypeOK, EvidenceOfAll
<1>2. unproved' = {} /\ visible' = visible
  BY DEF ReconciledNotSent
<1>3. \/ NoWrite /\ Becomes(p, t)
      \/ Write(RecoveryOwner(Nil), MovedToFailed) /\ Becomes(p, Idle)
  BY ZenonT(20) DEF ReconciledNotSent
<1>4. t.at = "fence" /\ t.pre = s.pre
  BY <1>1 DEF SenderType
<1> HIDE DEF t
<1>5. CASE NoWrite /\ Becomes(p, t)
  <2>1. row' = row
    BY <1>5 DEF NoWrite
  <2>2. Considerate(p)
    BY <1>5, <2>1, StillRow, LicensedIsConsiderate
  <2>3. t.at # "dispatch" /\ (Exact => t.pre # "acked")
    BY <1>1, <1>4 DEF OwnEvidence
  <2> QED BY <1>2, <1>5, <2>1, <2>2, <2>3, ProvedKeepsEvidence
<1>6. CASE Write(RecoveryOwner(Nil), MovedToFailed) /\ Becomes(p, Idle)
  <2>1. NobodyWrites(MovedToFailed)
    BY <1>6, NobodyWrote
  <2>2. Considerate(p)
    BY <1>6, <2>1, NobodyIsLicensed, LicensedIsConsiderate
  <2>3. row' = row \/ row'.status # "completed"
    BY <2>1, MovedRow DEF NobodyWrites
  <2> QED BY <1>2, <1>6, <2>2, <2>3, IdleGoes, ProvedKeepsEvidence
<1> QED BY <1>3, <1>5, <1>6

\* A scan that moves the row to the dead letters.
LEMMA ScanEvidence ==
  ASSUME Shape, Evidence, Guarded, UNCHANGED delivery, NEW p \in Process,
         ScanRejects(p) \/ ScanDeadLetters(p)
  PROVE  Evidence'
<1>1. NobodyWrites(MovedToFailed) /\ UNCHANGED <<intent, sender, submits, crashes, visible, unproved>>
  BY ScanWrites
<1>2. Lessens(row') /\ Licensed(p) /\ StampsKept /\ TruthKept
  BY <1>1, NobodyIsLicensed
<1>3. RowEvidence'
  BY <1>1, <1>2, TruthIsKept
<1>4. sender[p] = Idle
  BY DEF ScanRejects, ScanDeadLetters, Scannable
<1>5. Becomes(p, Idle) /\ sender[p].at # "sending"
  BY <1>1, <1>4, IdleGoes DEF Becomes, Shape, TypeOK
<1> QED BY <1>1, <1>2, <1>3, <1>5, EndingKeepsEvidence

\* A sender enters, of either kind, and knows nothing yet.
LEMMA EnteringKeepsEvidence ==
  ASSUME Shape, Evidence, Guarded, UNCHANGED <<delivery, row, visible, unproved>>, NEW p \in Process,
         NEW t \in SenderType, Becomes(p, t), t.claim = Nil, ~t.proved, t.pre = "none",
         t.at \in {"start", "claim", "reclaim", "reconcile", "fence"},
         ~Fenced /\ t.at \in {"start", "fence"} => unproved = {},
         ~Fenced /\ intent'[p] = "created" => unproved = {}
  PROVE  Evidence'
<1>1. Lessens(row') /\ Licensed(p) /\ StampsKept /\ TruthKept
  BY StillRow
<1>2. RowEvidence'
  BY <1>1, TruthIsKept
<1>3. Considerate(p) /\ Accounts(p)
  BY <1>1, LicensedIsConsiderate DEF Accounts
<1>4. sender'[p] = t /\ Fenced' = Fenced
  BY DEF Shape, TypeOK, Becomes, Fenced, Kind
<1>5. (Entitled(p))' => ~Fenced
  BY <1>4 DEF Entitled
<1>6. OwnEvidence(p)'
  BY <1>4, <1>5 DEF OwnEvidence, Unsent
<1> QED BY <1>2, <1>3, <1>6, EvidenceStep

\* A live sender enters, or a scan begins.
LEMMA EntersEvidence ==
  ASSUME Shape, Evidence, Guarded, UNCHANGED delivery, NEW p \in Process,
         LiveSenderEnters(p) \/ ScanBegins(p)
  PROVE  Evidence'
<1>1. OwnEvidence(p) /\ EvidenceSurvives /\ TypeOK
  BY EvidenceByProcess DEF Shape, EvidenceOfAll, Evidence
<1>2. sender[p] = Idle /\ sender[p].at # "sending"
  BY IdleGoes DEF LiveSenderEnters, ScanBegins, Scannable
<1>3. CASE LiveSenderEnters(p)
  <2>1. /\ intent[p] # "none" /\ intent' = [intent EXCEPT ![p] = "none"]
        /\ UNCHANGED <<row, submits, crashes, faults, visible, unproved>>
    BY <1>3 DEF LiveSenderEnters
  <2>2. intent'[p] = "none"
    BY <1>1, <2>1 DEF TypeOK
  <2>3. ~Fenced => intent[p] = "created"
    BY <1>1, <2>1 DEF TypeOK, Shape, Submissions
  <2>4. ~Fenced => unproved = {}
    BY <1>1, <1>2, <2>3 DEF OwnEvidence
  <2>5. PICK t \in SenderType : /\ Becomes(p, t) /\ t.at \in {"start", "claim", "reclaim"}
                                /\ t.claim = Nil /\ ~t.proved /\ t.pre = "none"
    BY <1>3, LiveSenderEntersShape
  <2> QED BY <2>1, <2>2, <2>4, <2>5, EnteringKeepsEvidence
<1>4. CASE ScanBegins(p)
  <2>1. Pending /\ UNCHANGED <<row, intent, submits, crashes, faults, visible, unproved>>
    BY <1>4 DEF ScanBegins, Scannable
  <2>2. PICK t \in SenderType : /\ Becomes(p, t) /\ t.at \in {"reconcile", "fence"}
                                /\ t.claim = Nil /\ ~t.proved /\ t.pre = "none"
                                /\ t.at = "fence" => ~NeedsReconciliation(row)
    BY <1>4, ScanBeginsShape
  <2>3. t.at = "fence" => unproved = {}
    BY <1>1, <2>1, <2>2 DEF EvidenceSurvives
  <2>4. ~Fenced /\ intent'[p] = "created" => unproved = {}
    BY <1>1, <1>2, <2>1 DEF OwnEvidence
  <2> QED BY <2>1, <2>2, <2>3, <2>4, EnteringKeepsEvidence
<1> QED BY <1>3, <1>4

\* A producer is turned away, or a process dies.
LEMMA LeavesEvidence ==
  ASSUME Shape, Evidence, Guarded, UNCHANGED delivery, NEW p \in Process,
         LiveSenderTurnedAway(p) \/ Crash(p)
  PROVE  Evidence'
<1>1. intent' = [intent EXCEPT ![p] = "none"] /\ UNCHANGED <<row, visible, unproved>>
  BY DEF LiveSenderTurnedAway, Crash
<1>2. intent'[p] = "none"
  BY <1>1 DEF Shape, TypeOK
<1>3. Lessens(row') /\ Licensed(p) /\ StampsKept /\ TruthKept
  BY <1>1, StillRow
<1>4. RowEvidence'
  BY <1>1, <1>3, TruthIsKept
<1>5. CASE Crash(p)
  <2>1. Becomes(p, Idle)
    BY <1>5 DEF Crash
  <2> QED BY <1>1, <1>2, <1>3, <1>4, <2>1, EndingKeepsEvidence
<1>6. CASE LiveSenderTurnedAway(p)
  <2>1. sender' = sender /\ Becomes(p, sender[p])
    BY <1>6 DEF LiveSenderTurnedAway, Becomes, Shape, TypeOK
  <2>2. Considerate(p) /\ Accounts(p)
    BY <1>1, <1>3, <2>1, LicensedIsConsiderate DEF Accounts
  <2>3. OwnEvidence(p)
    BY EvidenceByProcess DEF EvidenceOfAll
  <2>4. OwnEvidence(p)'
    BY <1>1, <1>2, <2>1, <2>3
       DEF OwnEvidence, Entitled, Pending, Fenced, Kind, Reconciles, Exact, NeedsReconciliation
  <2> QED BY <1>4, <2>1, <2>2, <2>4, EvidenceStep
<1> QED BY <1>5, <1>6

\* A lease runs out.
LEMMA LeaseExpiresEvidence ==
  ASSUME Shape, Evidence, UNCHANGED delivery, LeaseExpires
  PROVE  Evidence'
<1>1. RowEvidence /\ \A p \in Process : OwnEvidence(p)
  BY EvidenceByProcess DEF EvidenceOfAll
<1> DEFINE r == [row EXCEPT !.lease = "expired"]
<1>2. row' = r /\ UNCHANGED <<intent, sender, visible, unproved>>
  BY DEF LeaseExpires
<1>3. /\ r.status = row.status /\ r.recoveryState = row.recoveryState
      /\ r.platformSendAttemptId = row.platformSendAttemptId
      /\ r.platformSendStartedAt = row.platformSendStartedAt
      /\ r.producerClaimId = row.producerClaimId
  BY DEF RowType, Shape, TypeOK
<1> HIDE DEF r
<1>4. RowEvidence'
  BY <1>1, <1>2, <1>3
     DEF RowEvidence, EvidenceSurvives, ReceiptMeansDelivered, Kind, Pending, NeedsReconciliation
<1>5. ASSUME NEW p \in Process
      PROVE  OwnEvidence(p)'
  BY <1>1, <1>2, <1>3
     DEF OwnEvidence, Entitled, Pending, Fenced, Kind, Reconciles, Exact, NeedsReconciliation
<1>6. EvidenceOfAll'
  BY <1>4, <1>5 DEF EvidenceOfAll
<1> QED BY <1>6, EvidenceByProcess, PTL

\* The producer submits its intent.
LEMMA SubmitEvidence ==
  ASSUME Shape, Evidence, UNCHANGED delivery, NEW p \in Process, Submit(p)
  PROVE  Evidence'
<1>1. RowEvidence /\ TypeOK /\ Submissions /\ \A q \in Process : OwnEvidence(q)
  BY EvidenceByProcess DEF EvidenceOfAll, Shape
<1>2. /\ Kind = "ordinary" => submits = 0
      /\ row' = IF row.status = "absent" THEN Inserted ELSE row
      /\ intent' = [intent EXCEPT ![p] = IF Kind = "receipt" THEN "none"
                                     ELSE IF row.status = "absent" THEN "created"
                                     ELSE "existing"]
      /\ UNCHANGED <<sender, crashes, faults, visible, unproved>>
  BY DEF Submit
<1>3. row.status = "absent" => unproved = {}
  BY <1>1, <1>2 DEF Submissions, RowEvidence
<1>4. Kind \in {"ordinary", "receipt", "stable"} /\ Kind' = Kind /\ Fenced' = Fenced
      /\ Exact' = Exact /\ Reconciles' = Reconciles
  BY <1>1, DeliveryAssumption DEF TypeOK, Kind, DeliveryType, Fenced, Exact, Reconciles
<1>5. \A q \in Process : ~Fenced /\ intent'[q] = "created" /\ sender[q].at # "sending" => unproved = {}
  <2> SUFFICES ASSUME NEW q \in Process, ~Fenced, intent'[q] = "created", sender[q].at # "sending"
               PROVE  unproved = {}
    OBVIOUS
  <2>1. CASE intent[q] = "created"
    BY <1>1, <2>1 DEF OwnEvidence
  <2>2. CASE intent[q] # "created"
    BY <1>1, <1>2, <1>3, <2>2 DEF TypeOK
  <2> QED BY <2>1, <2>2
<1>6. CASE row.status # "absent"
  <2>1. row' = row
    BY <1>2, <1>6
  <2>2. RowEvidence'
    BY <1>1, <1>2, <1>4, <2>1
       DEF RowEvidence, EvidenceSurvives, ReceiptMeansDelivered, Pending, NeedsReconciliation
  <2>3. ASSUME NEW q \in Process
        PROVE  OwnEvidence(q)'
    BY <1>1, <1>2, <1>4, <1>5, <2>1 DEF OwnEvidence, Entitled, Pending, NeedsReconciliation
  <2>4. EvidenceOfAll'
    BY <2>2, <2>3 DEF EvidenceOfAll
  <2> QED BY <2>4, EvidenceByProcess, PTL
<1>7. CASE row.status = "absent"
  <2>1. unproved' = {}
    BY <1>2, <1>3, <1>7
  <2>2. row'.status = "pending" /\ row'.producerClaimId = Nil /\ row'.platformSendAttemptId = Nil
    <3>1. PICK st \in {"pending", "completed"} : st = "pending"
      OBVIOUS
    <3> QED BY <1>2, <1>7, <3>1, EmptyRows DEF Inserted
  <2>3. RowEvidence'
    BY <2>1, <2>2 DEF RowEvidence, EvidenceSurvives, ReceiptMeansDelivered
  <2>4. ASSUME NEW q \in Process
        PROVE  OwnEvidence(q)'
    <3>1. Fenced => ~(Entitled(q))'
      BY <1>4, <2>2 DEF Entitled
    <3>2. sender[q].at = "dispatch" => Fenced /\ Reconciles
      <4>1. Fenced => ~Entitled(q)
        BY <1>7 DEF Entitled, Pending
      <4> QED BY <1>1, <1>2, <1>4, <1>7, <4>1, IdleGoes DEF OwnEvidence, Submissions, Fenced
    <3>3. Exact => sender[q].pre # "acked"
      BY <1>1 DEF OwnEvidence
    <3> QED BY <1>2, <1>4, <2>1, <3>1, <3>2, <3>3 DEF OwnEvidence
  <2>5. EvidenceOfAll'
    BY <2>3, <2>4 DEF EvidenceOfAll
  <2> QED BY <2>5, EvidenceByProcess, PTL
<1> QED BY <1>6, <1>7

\* Whatever a process or the environment does, the evidence is kept.
LEMMA StepEvidence ==
  ASSUME Shape, Evidence, Guarded, Next
  PROVE  Evidence'
<1>1. UNCHANGED delivery
  BY DEF Next
<1>2. CASE LeaseExpires
  BY <1>1, <1>2, LeaseExpiresEvidence
<1>3. ASSUME NEW p \in Process, Step(p)
      PROVE  Evidence'
  <2>1. CASE Submit(p)
    BY <1>1, <2>1, SubmitEvidence
  <2>2. CASE Live(p)
    BY <1>1, <2>2, EntersEvidence, LeavesEvidence, ClaimPendingEvidence, QuietUnsentEvidence DEF Live
  <2>3. CASE Scan(p)
    BY <1>1, <2>3, ScanEvidence, EntersEvidence DEF Scan
  <2>4. CASE Recover(p)
    BY <1>1, <2>4, ReconciledEvidence, ReconciledNotSentEvidence, FenceRecoveryEvidence,
       ReserveAttemptEvidence DEF Recover, Reconcile
  <2>5. CASE Send(p)
    BY <1>1, <2>5, QuietUnsentEvidence, PlatformSendStartEvidence, ExactSendStartEvidence,
       PlatformSendDispatchEvidence, DeliveryResultEvidence, ProviderReturnsEvidence DEF Send
  <2>6. CASE ProviderAccepts(p)
    BY <1>1, <2>6, ProviderAcceptsEvidence
  <2>7. CASE Settle(p)
    BY <1>1, <2>7, SettlePostSendEvidence, SettleEvidence DEF Settle
  <2>8. CASE Crash(p)
    BY <1>1, <2>8, LeavesEvidence
  <2> QED BY <1>3, <2>1, <2>2, <2>3, <2>4, <2>5, <2>6, <2>7, <2>8 DEF Step
<1> QED BY <1>2, <1>3 DEF Next

\* At the beginning there is nothing to know.
LEMMA InitEvidence ==
  ASSUME Init
  PROVE  Evidence
<1>1. row = AbsentRow /\ unproved = {} /\ \A p \in Process : sender[p] = Idle /\ intent[p] = "none"
  BY DEF Init
<1>2. RowEvidence
  BY <1>1, EmptyRows DEF RowEvidence, EvidenceSurvives, ReceiptMeansDelivered
<1>3. \A p \in Process : OwnEvidence(p)
  BY <1>1, IdleGoes DEF OwnEvidence
<1> QED BY <1>2, <1>3, EvidenceByProcess DEF EvidenceOfAll

-----------------------------------------------------------------------------
(* Calls of the provider *)

\* p makes no call of the provider in this step, and none of its calls is accepted.
CallsNobody(p) ==
  \A q \in Process : sender'[q].at = "sending" =>
    sender[q].at = "sending" /\ (sender[q].accepted => sender'[q].accepted)

\* What p becomes decides it.
LEMMA CallingNobody ==
  ASSUME Shape, NEW p \in Process, NEW t, Becomes(p, t),
         t.at = "sending" => sender[p].at = "sending" /\ (sender[p].accepted => t.accepted)
  PROVE  CallsNobody(p)
<1>1. \A q \in Process : sender'[q] = IF q = p THEN t ELSE sender[q]
  BY DEF Shape, TypeOK, Becomes
<1> QED BY <1>1 DEF CallsNobody

\* Writing the evidence of a send is no call.
LEMMA PersistingCallsNobody ==
  ASSUME Shape, NEW p \in Process, SettlePostSend(p) \/ DeliveryResult(p)
  PROVE  CallsNobody(p)
<1>1. sender[p] \in SenderType
  BY DEF Shape, TypeOK
<1>2. CASE SettlePostSend(p)
  <2> DEFINE s == sender[p]
             thrown == IF s.role = "recovery" /\ s.end = "results"
                       THEN [s EXCEPT !.end = "error"] ELSE Idle
  <2>1. s.at = "settle" /\ PersistPostSend(p, s, thrown)
    BY <1>2 DEF SettlePostSend
  <2>2. thrown.at # "sending" /\ \A x : [s EXCEPT !.post = x].at # "sending"
    BY <1>1, <2>1, IdleGoes DEF SenderType
  <2> HIDE DEF thrown
  <2>3. \/ Becomes(p, thrown)
        \/ \E x \in {"marked", "acked", "failed"} : Becomes(p, [s EXCEPT !.post = x])
    BY <2>1, PersistWrites DEF Claimant
  <2> QED BY <2>2, <2>3, CallingNobody
<1>3. CASE DeliveryResult(p)
  <2> DEFINE o == sender[p]
             s == [o EXCEPT !.got = TRUE]
             f == [s EXCEPT !.at = "settle", !.end = "error"]
  <2>1. o.at = "sending" /\ o.accepted
    BY <1>3 DEF DeliveryResult
  <2>2. (NoWrite /\ Becomes(p, s)) \/ PersistPostSend(p, s, f)
    BY <1>3, ZenonT(30) DEF DeliveryResult
  <2>3. /\ s \in SenderType /\ s.at = o.at /\ s.accepted = o.accepted /\ s.claim = o.claim
    BY <1>1 DEF SenderType
  <2> HIDE DEF s
  <2>4. f.at = "settle" /\ \A x : [s EXCEPT !.post = x].accepted = o.accepted
    BY <2>3 DEF SenderType
  <2> HIDE DEF f
  <2>5. \/ Becomes(p, s) \/ Becomes(p, f)
        \/ \E x \in {"marked", "acked", "failed"} : Becomes(p, [s EXCEPT !.post = x])
    BY <2>1, <2>2, <2>3, PersistWrites DEF Claimant
  <2> QED BY <2>1, <2>3, <2>4, <2>5, CallingNobody
<1> QED BY <1>2, <1>3

\* A sender that waits for no answer calls nobody before it is dispatched.
LEMMA WaitingCallsNobody ==
  ASSUME Shape, NEW p \in Process, ClaimPending(p) \/ TakeCustody(p) \/ FenceRecovery(p)
                                     \/ ReconciledNotSent(p) \/ EndsBeforeSend(p) \/ ExactSendStart(p)
  PROVE  CallsNobody(p)
<1> DEFINE s == sender[p]
<1>1. s \in SenderType
  BY DEF Shape, TypeOK
<1>2. Idle.at # "sending"
  BY IdleGoes
<1>3. ASSUME NEW a \in {"start", "custody", "dispatch"}, Becomes(p, [s EXCEPT !.at = a])
      PROVE  CallsNobody(p)
  <2>1. [s EXCEPT !.at = a].at # "sending"
    BY <1>1 DEF SenderType
  <2> QED BY <1>3, <2>1, CallingNobody
<1>4. CASE ClaimPending(p)
  <2>1. \/ Becomes(p, Idle)
        \/ \E id \in FreshId :
             Becomes(p, [s EXCEPT !.claim = id, !.at = IF @ = "claim" THEN "start" ELSE "custody"])
    BY <1>4 DEF ClaimPending
  <2>2. \A id : [s EXCEPT !.claim = id, !.at = IF @ = "claim" THEN "start" ELSE "custody"].at # "sending"
    BY <1>1 DEF SenderType
  <2> QED BY <1>2, <2>1, <2>2, CallingNobody
<1>5. CASE TakeCustody(p)
  <2>1. Becomes(p, Idle) \/ Becomes(p, [s EXCEPT !.at = "start"])
    BY <1>5 DEF TakeCustody
  <2> QED BY <1>2, <1>3, <2>1, CallingNobody
<1>6. CASE FenceRecovery(p)
  <2> DEFINE n == [s EXCEPT !.at = "reserve", !.seen = AbsentRow, !.proved = FALSE]
  <2>1. Becomes(p, n) \/ Becomes(p, Idle) \/ \E id \in FreshId : Becomes(p, [n EXCEPT !.claim = id])
    BY <1>6, ZenonT(30) DEF FenceRecovery
  <2>2. n \in SenderType /\ n.at = "reserve"
    BY <1>1, EmptyRows DEF SenderType
  <2> HIDE DEF n
  <2>3. \A id : [n EXCEPT !.claim = id].at = "reserve"
    BY <2>2 DEF SenderType
  <2> QED BY <1>2, <2>1, <2>2, <2>3, CallingNobody
<1>7. CASE ReconciledNotSent(p)
  <2> DEFINE t == [s EXCEPT !.proved = TRUE, !.at = "fence"]
  <2>1. Becomes(p, Idle) \/ Becomes(p, t)
    BY <1>7, ZenonT(20) DEF ReconciledNotSent
  <2>2. t.at = "fence"
    BY <1>1 DEF SenderType
  <2> HIDE DEF t
  <2> QED BY <1>2, <2>1, <2>2, CallingNobody
<1>8. CASE EndsBeforeSend(p)
  <2>1. PICK end : Becomes(p, [s EXCEPT !.at = "settle", !.end = end])
    BY <1>8 DEF EndsBeforeSend
  <2>2. [s EXCEPT !.at = "settle", !.end = end].at # "sending"
    BY <1>1 DEF SenderType
  <2> QED BY <2>1, <2>2, CallingNobody
<1>9. CASE ExactSendStart(p)
  BY <1>3, <1>9 DEF ExactSendStart
<1> QED BY <1>4, <1>5, <1>6, <1>7, <1>8, <1>9

\* Only a dispatch calls the provider.
LEMMA OnlyDispatchCalls ==
  ASSUME Shape, UNCHANGED delivery, NEW p \in Process, Step(p), ~PlatformSendDispatch(p)
  PROVE  CallsNobody(p)
<1> DEFINE s == sender[p]
<1>1. s \in SenderType
  BY DEF Shape, TypeOK
<1>2. Idle.at # "sending"
  BY IdleGoes
<1>3. ASSUME sender' = sender
      PROVE  CallsNobody(p)
  BY <1>3 DEF CallsNobody
<1>4. CASE Submit(p) \/ LiveSenderTurnedAway(p) \/ ScanRejects(p) \/ ScanDeadLetters(p)
  BY <1>3, <1>4 DEF Submit, LiveSenderTurnedAway, ScanRejects, ScanDeadLetters
<1>5. CASE ReconciledSent(p) \/ Unreconciled(p) \/ SettleLive(p) \/ SettleRecovery(p) \/ Crash(p)
  <2>1. Becomes(p, Idle)
    BY <1>5 DEF ReconciledSent, Unreconciled, SettleLive, SettleRecovery, Crash
  <2> QED BY <1>2, <2>1, CallingNobody
<1>6. CASE LiveSenderEnters(p) \/ ScanBegins(p)
  <2>1. \E t \in SenderType :
          Becomes(p, t) /\ t.at \in {"start", "claim", "reclaim", "reconcile", "fence"}
    BY <1>6, LiveSenderEntersShape, ScanBeginsShape
  <2> QED BY <2>1, CallingNobody
<1>7. CASE ReserveAttempt(p) \/ DeadLetterSpent(p)
  <2>1. \/ Becomes(p, Idle) \/ Becomes(p, [s EXCEPT !.at = "start"])
        \/ Becomes(p, [s EXCEPT !.at = "spent"])
    BY <1>7, ReserveAttemptShape
  <2>2. [s EXCEPT !.at = "start"].at # "sending" /\ [s EXCEPT !.at = "spent"].at # "sending"
    BY <1>1 DEF SenderType
  <2> QED BY <1>2, <2>1, <2>2, CallingNobody
<1>8. CASE PlatformSendStart(p)
  <2>1. s.at = "start" /\ Starts(p)
    BY <1>8, PlatformSendStarts
  <2>2. \E t \in SenderType : Becomes(p, t) /\ t.at \in {"dispatch", "settle"}
    BY <2>1, FailsGoes, MarkedGoes, AckedGoes DEF Starts, StartsFenced, StartsMarked, StartsAcked
  <2> QED BY <2>2, CallingNobody
<1>9. CASE ProviderAccepts(p)
  <2> DEFINE t == [s EXCEPT !.accepted = TRUE]
  <2>1. Becomes(p, t)
    BY <1>9, ZenonT(20) DEF ProviderAccepts
  <2>2. t.accepted /\ s.at = "sending"
    BY <1>1, <1>9 DEF SenderType, ProviderAccepts
  <2> HIDE DEF t
  <2> QED BY <2>1, <2>2, CallingNobody
<1>10. CASE ProviderReturns(p)
  <2>1. PICK end :
          Becomes(p, [s EXCEPT !.at = "settle", !.end = end, !.got = @ \/ end = "results"])
    BY <1>10 DEF ProviderReturns
  <2>2. [s EXCEPT !.at = "settle", !.end = end, !.got = @ \/ end = "results"].at = "settle"
    BY <1>1 DEF SenderType
  <2> QED BY <2>1, <2>2, CallingNobody
<1> QED BY <1>4, <1>5, <1>6, <1>7, <1>8, <1>9, <1>10, WaitingCallsNobody, PersistingCallsNobody
       DEF Step, Live, Scan, Recover, Reconcile, Send, Settle

\* A dispatch calls it only where every earlier call is proved undelivered.
LEMMA DispatchIsProved ==
  ASSUME Shape, Evidence, NEW p \in Process, PlatformSendDispatch(p)
  PROVE  /\ visible' = visible
         /\ \/ CallsNobody(p) /\ unproved' = unproved
            \/ /\ unproved = {} /\ unproved' = {p}
               /\ \A q \in Process : q # p => sender'[q] = sender[q]
<1>1. /\ sender[p].at = "dispatch" /\ visible' = visible
      /\ \/ CrossesMarked(p) \/ CrossesUnmarked(p)
         \/ row' = row /\ Fails(p) /\ unproved' = unproved
  BY PlatformSendDispatches
<1>2. CASE row' = row /\ Fails(p) /\ unproved' = unproved
  <2>1. \E t \in SenderType : Becomes(p, t) /\ t.at = "settle"
    BY <1>1, <1>2, FailsGoes
  <2> QED BY <1>1, <1>2, <2>1, CallingNobody
<1>3. CASE CrossesMarked(p) \/ CrossesUnmarked(p)
  <2>1. unproved = {}
    BY <1>1, <1>3, CrossingIsProved
  <2>2. unproved' = unproved \cup {p} /\ \E t : Becomes(p, t)
    BY <1>1, <1>3, CrossesGoes DEF CrossesMarked, CrossesUnmarked
  <2>3. \A q \in Process : q # p => sender'[q] = sender[q]
    BY <2>2 DEF Becomes, Shape, TypeOK
  <2> QED BY <1>1, <2>1, <2>2, <2>3
<1> QED BY <1>1, <1>2, <1>3

\* In one process the one accepted call stays unproved.
LEMMA StepOneCall ==
  ASSUME Shape, Evidence, OneCall, \A p, q \in Process : p = q, Next
  PROVE  OneCall'
<1>1. UNCHANGED delivery /\ visible \in 0 .. 2
  BY DEF Next, Shape, TypeOK
<1>2. ASSUME NEW p \in Process, CallsNobody(p), visible' = visible, unproved' = unproved
      PROVE  OneCall'
  BY <1>2 DEF OneCall, CallsNobody
<1>3. CASE LeaseExpires
  BY <1>3 DEF LeaseExpires, OneCall
<1>4. ASSUME NEW p \in Process, Step(p)
      PROVE  OneCall'
  <2> DEFINE s == sender[p]
  <2>1. CASE PlatformSendDispatch(p)
    <3>1. ASSUME visible' = visible, unproved = {}, unproved' = {p}
          PROVE  OneCall'
      <4>1. visible = 0
        BY <1>1, <3>1 DEF OneCall
      <4> QED BY <3>1, <4>1 DEF OneCall
    <3> QED BY <1>2, <2>1, <3>1, DispatchIsProved
  <2>2. ASSUME ~PlatformSendDispatch(p)
        PROVE  CallsNobody(p)
    BY <1>1, <1>4, <2>2, OnlyDispatchCalls
  <2>3. CASE ProviderAccepts(p)
    <3>1. /\ s.at = "sending" /\ ~s.accepted /\ unproved' = unproved
          /\ visible' = IF visible = 2 THEN 2 ELSE visible + 1
      BY <2>3 DEF ProviderAccepts
    <3>2. visible = 0 /\ unproved = {p}
      BY <3>1 DEF OneCall
    <3>3. sender'[p].accepted
      <4> DEFINE t == [s EXCEPT !.accepted = TRUE]
      <4>1. Becomes(p, t)
        BY <2>3, ZenonT(20) DEF ProviderAccepts
      <4>2. t.accepted
        BY DEF SenderType, Shape, TypeOK
      <4> HIDE DEF t
      <4> QED BY <4>1, <4>2 DEF Becomes, Shape, TypeOK
    <3> QED BY <3>1, <3>2, <3>3 DEF OneCall
  <2>4. CASE ProviderReturns(p)
    <3>1. /\ s.at = "sending" /\ visible' = visible
          /\ unproved' = unproved \/ ~s.accepted
      BY <2>4 DEF ProviderReturns
    <3>2. sender'[p].at # "sending"
      <4>1. PICK end :
              Becomes(p, [s EXCEPT !.at = "settle", !.end = end, !.got = @ \/ end = "results"])
        BY <2>4 DEF ProviderReturns
      <4>2. [s EXCEPT !.at = "settle", !.end = end, !.got = @ \/ end = "results"].at = "settle"
        BY DEF SenderType, Shape, TypeOK
      <4> QED BY <4>1, <4>2 DEF Becomes, Shape, TypeOK
    <3> QED BY <3>1, <3>2 DEF OneCall
  <2>5. CASE ReconciledNotSent(p)
    <3>1. s.at = "reconcile" /\ visible = 0 /\ visible' = visible
      BY <2>5 DEF ReconciledNotSent
    <3>2. CallsNobody(p)
      BY <2>5, WaitingCallsNobody
    <3> QED BY <3>1, <3>2 DEF OneCall, CallsNobody
  <2>6. ASSUME ~PlatformSendDispatch(p), ~ProviderAccepts(p), ~ProviderReturns(p), ~ReconciledNotSent(p)
        PROVE  visible' = visible /\ unproved' = unproved
    BY <1>4, <2>6
       DEF Step, Submit, Live, LiveSenderEnters, LiveSenderTurnedAway, ClaimPending, TakeCustody,
           Scan, ScanRejects, ScanDeadLetters, ScanBegins, Recover, Reconcile, ReconciledSent,
           Unreconciled, FenceRecovery, ReserveAttempt, DeadLetterSpent, Send, EndsBeforeSend, PlatformSendStart,
           ExactSendStart, DeliveryResult, Settle, SettlePostSend, SettleLive, SettleRecovery, Crash
  <2> QED BY <1>2, <2>1, <2>2, <2>3, <2>4, <2>5, <2>6
<1> QED BY <1>3, <1>4 DEF Next

-----------------------------------------------------------------------------
(* What the row says, and what is sent *)

Alone == \A p, q \in Process : p = q

\* What holds of guarded deliveries.
Proved ==
  /\ Shape
  /\ Guarded => Evidence
  /\ Alone => OneCall

\* It holds in every reachable state.
LEMMA DeliveryProved == Spec => []Proved
<1>1. ASSUME Init PROVE Proved
  <2>1. Shape /\ Evidence
    BY <1>1, InitShape, InitEvidence
  <2>2. OneCall
    <3>1. visible = 0 /\ \A p \in Process : sender[p] = Idle
      BY <1>1 DEF Init
    <3> QED BY <3>1, IdleGoes DEF OneCall
  <2> QED BY <2>1, <2>2 DEF Proved
<1>2. ASSUME Proved, [Next]_vars PROVE Proved'
  <2>1. CASE Next
    <3>1. Guarded' <=> Guarded
      BY <2>1 DEF Guarded, Fenced, Kind, Next
    <3>2. Shape'
      BY <1>2, <2>1, StepShape DEF Proved
    <3>3. Guarded => Evidence'
      BY <1>2, <2>1, StepEvidence DEF Proved
    <3>4. Alone => Guarded
      BY DEF Alone, Guarded
    <3>5. ASSUME Alone PROVE OneCall'
      BY <1>2, <2>1, <3>4, <3>5, StepOneCall DEF Proved, Alone
    <3> QED BY <3>1, <3>2, <3>3, <3>5 DEF Proved, Alone
  <2>2. CASE UNCHANGED vars
    <3>1. UNCHANGED <<delivery, row, intent, sender, submits, crashes, faults, visible, unproved>>
      BY <2>2 DEF vars
    <3>2. Shape'
      BY <1>2, <3>1 DEF Proved, Shape, TypeOK, ClaimsFenced, RowSound, ClaimsApart, SendersSound,
         SenderSound, AcceptedSeen, NotYetAttempts, Submissions, Fenced, Kind, Reconciles,
         NeedsReconciliation
    <3>3. Evidence => Evidence'
      BY <3>1 DEF Evidence, OwnCallOnly, ProofHolds, EvidenceFirst, FirstSend, EvidenceSurvives,
         ReceiptMeansDelivered, Entitled, Pending, Fenced, Kind, Reconciles, Exact,
         NeedsReconciliation
    <3>4. (OneCall => OneCall') /\ (Guarded' => Guarded)
      BY <3>1 DEF OneCall, Guarded, Fenced, Kind
    <3> QED BY <1>2, <3>2, <3>3, <3>4 DEF Proved, Alone
  <2> QED BY <1>2, <2>1, <2>2
<1> QED BY <1>1, <1>2, PTL DEF Spec

\* What the row says about the past is true, for deliveries with producer claims in any number
\* of processes and for every kind of delivery in one process: it never hides a send that may
\* have happened, and a stable receipt means that the provider accepted the message
\* (failDelivery and its variants, ackDelivery, claimDeliveryQueueEntry).
THEOREM RecordsAreTruthful == Spec => [](Guarded => RecordsTruthful)
<1>1. Proved => (Guarded => RecordsTruthful)
  BY DEF Proved, Evidence, RecordsTruthful
<1> QED BY <1>1, DeliveryProved, PTL

\* For the same deliveries, the message is handed to the provider again only after every
\* earlier call was proved undelivered (drainQueuedEntry, reserveDeliveryAttempt).
THEOREM ReplaysAreProved == Spec /\ Guarded => NoReplayWithoutProof
<1> DEFINE A == \A p \in Process : sender[p].at # "sending" /\ sender'[p].at = "sending" => unproved = {}
<1>1. ASSUME Proved, Guarded, [Next]_vars
      PROVE  [A]_vars
  <2>1. Shape /\ Evidence
    BY <1>1 DEF Proved
  <2>2. CASE LeaseExpires
    BY <2>2 DEF LeaseExpires
  <2>3. ASSUME NEW q \in Process, Step(q), UNCHANGED delivery
        PROVE  A
    <3>1. CASE PlatformSendDispatch(q)
      BY <2>1, <3>1, DispatchIsProved DEF CallsNobody
    <3>2. CASE ~PlatformSendDispatch(q)
      BY <2>1, <2>3, <3>2, OnlyDispatchCalls DEF CallsNobody
    <3> QED BY <3>1, <3>2
  <2> QED BY <1>1, <2>2, <2>3 DEF Next
<1>2. Guarded /\ [Next]_vars => Guarded'
  BY DEF Guarded, Fenced, Kind, Next, vars
<1>3. Spec /\ Guarded => [][A]_vars
  BY <1>1, <1>2, DeliveryProved, PTL DEF Spec
<1> QED BY <1>3 DEF A, NoReplayWithoutProof

\* In one process, with crashes and storage errors, the recipient sees the message at most
\* once, whatever the kind of the delivery (deliver-queue.ts, delivery-queue-recovery.ts).
THEOREM RecipientSeesItOnce == Spec => [](Alone => VisibleAtMostOnce)
<1>1. Proved => (Alone => VisibleAtMostOnce)
  BY DEF Proved, OneCall, VisibleAtMostOnce
<1> QED BY <1>1, DeliveryProved, PTL

=============================================================================
