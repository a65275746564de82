------------------------- MODULE ExecApprovalsProofs -------------------------
(***************************************************************************)
(* Machine-checked proofs about ExecApprovals, for every set of approval   *)
(* ids and kinds, any number of gateway lifetimes and of handoffs, and     *)
(* that it implements ApprovalContract.                                    *)
(***************************************************************************)
EXTENDS ExecApprovals, TLAPS

\* A row nobody has is empty, any other has an owner and, once terminal, a decision.
RowSound(r) ==
  /\ r \in RowType
  /\ r.status = "absent" => r = AbsentRow
  /\ r.status # "absent" => r.owner \in Manager
  /\ Terminal(r) => r.decision \in Decision
  /\ r.status = "denied" => r.decision = "deny"
  /\ r.status = "pending" => ~r.old

\* A waiter has its timer and nothing of a settled entry; an entry kept for the lifetime of
\* its manager failed; a held one is not past its grace.
EntrySound(e) ==
  /\ e \in EntryType
  /\ e.state = "none" => e = NoEntry
  /\ e.timer <=> e.state = "waiting"
  /\ e.state = "waiting" => /\ e.decision = "none" /\ ~e.corrupt /\ ~e.lifetime /\ ~e.cleanup
                            /\ ~e.graceOver /\ ~e.consumed /\ ~e.fallback
  /\ e.lifetime => e.corrupt
  /\ e.graceOver => e.retain = 0
  /\ e.fallback => e.decision = "none"

RowsSound == \A i \in Id : RowSound(row[i])
EntriesSound == \A m \in Manager, i \in Id : EntrySound(entry[m][i])

\* A manager of a gateway that is gone, or not yet there, has no entries.
DeadManagersEmpty == \A m \in Manager, i \in Id : ~Live(m) => entry[m][i] = NoEntry

\* A permission that was given out is recorded in the entry it was given for.
GrantsRecorded ==
  \A m \in Manager, i \in Id :
    /\ grants[m][i] \in {0, 1}
    /\ entry[m][i].state # "none" /\ grants[m][i] = 1 =>
         entry[m][i].consumed \/ entry[m][i].fallback

Core ==
  /\ TypeOK /\ RowsSound /\ EntriesSound /\ DeadManagersEmpty /\ GrantsRecorded
  /\ PendingRowOwned /\ AllowIsDurable /\ AllowReachedWaiter

-----------------------------------------------------------------------------
(* How the operations move rows and entries *)

\* The store leaves a row alone or closes a pending one; it never reopens one, and changes
\* neither its owner nor whether it was consumed.
Evolves(r, s) ==
  /\ RowSound(s)
  /\ s.owner = r.owner /\ s.consumed = r.consumed
  /\ r.status = "absent" <=> s.status = "absent"
  /\ Terminal(r) => s.status = r.status /\ s.decision = r.decision

\* A manager m leaves its entry alone or settles a waiter: by a storage failure, or from
\* the row s that is then its own and terminal.
Answers(e, f, m, s) ==
  /\ EntrySound(f)
  /\ \/ f = e
     \/ /\ e.state = "waiting" /\ f.state = "settled" /\ f.retain = e.retain
        /\ \/ f.lifetime /\ f.decision = "deny"
           \/ /\ s.owner = m /\ Terminal(s)
              /\ f.decision = "none" \/ (s.status \in {"allowed", "denied"} /\ f.decision = s.decision)

\* Where the store has just allowed a request, its requester hears of it in the same step.
AllowHeard(i) ==
  row[i].status = "pending" /\ row'[i].status = "allowed" =>
    LET e == entry'[row[i].owner][i] IN e.state = "settled" /\ e.decision = row'[i].decision

\* The verdict of a row is pruned.
Forgets(i) == Terminal(row[i]) /\ row'[i] = AbsentRow

\* The step of an operation that decides, denies, expires, prunes or reads.
Settling ==
  /\ row' \in [Id -> RowType] /\ entry' \in [Manager -> [Id -> EntryType]]
  /\ \A i \in Id : (Evolves(row[i], row'[i]) /\ AllowHeard(i)) \/ Forgets(i)
  /\ \A m \in Manager, i \in Id : Answers(entry[m][i], entry'[m][i], m, row'[i])
  /\ UNCHANGED <<due, epoch, alive, grants>>

\* The two empty values are what their predicates ask for.
LEMMA EmptySound == RowSound(AbsentRow) /\ EntrySound(NoEntry)
<1>1. AbsentRow \in RowType
  BY DEF AbsentRow, RowType, Status, Verdict, Decision
<1>2. NoEntry \in EntryType
  BY RetainAssumption DEF NoEntry, EntryType, Verdict, Decision
<1> QED
  BY <1>1, <1>2 DEF RowSound, EntrySound, AbsentRow, NoEntry, Terminal

\* Closing a pending row.
LEMMA ClosedEvolves ==
  ASSUME NEW r, RowSound(r), r.status = "pending", NEW st \in {"denied", "expired", "cancelled"}
  PROVE  /\ Evolves(r, Closed(r, st)) /\ Terminal(Closed(r, st))
         /\ Closed(r, st).status = st /\ Closed(r, st).decision = "deny"
         /\ ~Closed(r, st).old
<1>1. r \in RowType
  BY DEF RowSound
<1>2. /\ Closed(r, st) \in RowType
      /\ Closed(r, st).status = st /\ Closed(r, st).decision = "deny"
      /\ Closed(r, st).owner = r.owner /\ Closed(r, st).consumed = r.consumed
      /\ Closed(r, st).old = r.old
  BY <1>1 DEF Closed, RowType, Status, Verdict, Decision
<1> QED
  BY <1>2 DEF RowSound, Evolves, Terminal, Decision

\* Overwriting it, which may make it readable.
LEMMA OverwrittenEvolves ==
  ASSUME NEW r, RowSound(r), r.status = "pending", NEW st \in {"denied", "expired", "cancelled"},
         NEW repaired \in BOOLEAN
  PROVE  LET x == Overwritten(r, st, repaired) IN
         Evolves(r, x) /\ Terminal(x) /\ x.status = st /\ ~x.old
<1> DEFINE c == Closed(r, st)
           x == [c EXCEPT !.sound = @ \/ repaired]
<1>1. /\ RowSound(c) /\ c \in RowType /\ c.status = st /\ c.decision = "deny" /\ ~c.old
      /\ c.owner = r.owner /\ c.consumed = r.consumed
  BY ClosedEvolves DEF Evolves, RowSound
<1>2. x = Overwritten(r, st, repaired)
  BY DEF Overwritten
<1> HIDE DEF c
<1>3. /\ x \in RowType /\ x.status = st /\ x.decision = "deny" /\ ~x.old
      /\ x.owner = r.owner /\ x.consumed = r.consumed
  BY <1>1 DEF RowType
<1> HIDE DEF x
<1>4. RowSound(x)
  BY <1>1, <1>3 DEF RowSound, Terminal, Decision
<1>5. Evolves(r, x) /\ Terminal(x)
  BY <1>3, <1>4 DEF Evolves, Terminal
<1> QED BY <1>2, <1>3, <1>5

\* A row that is left alone evolves, too.
LEMMA SameEvolves ==
  ASSUME NEW r, RowSound(r)
  PROVE  Evolves(r, r)
  BY DEF Evolves

\* Denying what cannot be decoded closes a pending row and nothing else.
LEMMA DenyCorruptEvolves ==
  ASSUME NEW r, RowSound(r), NEW repaired \in BOOLEAN
  PROVE  /\ Evolves(r, DenyCorruptPendingRow(r, repaired))
         /\ r.status = "pending" => DenyCorruptPendingRow(r, repaired).status = "denied"
         /\ r.status # "pending" => DenyCorruptPendingRow(r, repaired) = r
<1>1. CASE r.status = "pending"
  <2> DEFINE c == Closed(r, "denied")
             d == DenyCorruptPendingRow(r, repaired)
  <2>1. /\ RowSound(c) /\ c.status = "denied" /\ c.decision = "deny"
        /\ c.owner = r.owner /\ c.consumed = r.consumed /\ c \in RowType
    BY <1>1, ClosedEvolves DEF Evolves, RowSound
  <2>2. d = [c EXCEPT !.corrupt = TRUE, !.sound = repaired]
    BY <1>1 DEF DenyCorruptPendingRow
  <2> HIDE DEF c, d
  <2>3. /\ d \in RowType /\ d.status = "denied" /\ d.decision = "deny"
        /\ d.owner = r.owner /\ d.consumed = r.consumed
    BY <2>1, <2>2 DEF RowType
  <2>4. RowSound(d)
    BY <1>1, <2>1, <2>3 DEF RowSound, Terminal, Decision
  <2>5. Evolves(r, d)
    BY <1>1, <2>3, <2>4 DEF Evolves, Terminal
  <2> QED BY <1>1, <2>3, <2>5 DEF d
<1>2. CASE r.status # "pending"
  BY <1>2, SameEvolves DEF DenyCorruptPendingRow
<1> QED BY <1>1, <1>2

\* Expiring what is due closes a pending row and nothing else.
LEMMA ExpiredEvolves ==
  ASSUME NEW r, RowSound(r), NEW i, NEW repaired \in BOOLEAN
  PROVE  LET x == ExpiredIfDue(r, i, repaired) IN
         /\ Evolves(r, x)
         /\ x = r \/ (r.status = "pending" /\ x.status = "expired")
         /\ Due(r, i) => Terminal(x)
<1>1. CASE Due(r, i)
  BY <1>1, OverwrittenEvolves DEF ExpiredIfDue, Due
<1>2. CASE ~Due(r, i)
  BY <1>2, SameEvolves DEF ExpiredIfDue
<1> QED BY <1>1, <1>2

\* Two evolutions in a row are one.
LEMMA EvolvesTwice ==
  ASSUME NEW r, NEW s, NEW t, Evolves(r, s), Evolves(s, t)
  PROVE  Evolves(r, t)
  BY DEF Evolves, Terminal

\* A storage failure answers a waiter with a deny that stays for the manager's lifetime.
LEMMA FailureAnswers ==
  ASSUME NEW e, EntrySound(e), NEW m, NEW s
  PROVE  /\ Answers(e, SettleLocalStorageFailure(e), m, s)
         /\ SettleLocalStorageFailure(e).state # "waiting"
<1> DEFINE f == SettleLocalStorageFailure(e)
<1>1. CASE e.state # "waiting"
  BY <1>1 DEF SettleLocalStorageFailure, SettleLocalEntry, Answers
<1>2. CASE e.state = "waiting"
  <2>1. e \in EntryType
    BY DEF EntrySound
  <2>2. f = [e EXCEPT !.state = "settled", !.decision = "deny", !.corrupt = TRUE,
                      !.lifetime = TRUE, !.timer = FALSE, !.cleanup = FALSE,
                      !.graceOver = FALSE]
    BY <1>2 DEF SettleLocalStorageFailure, SettleLocalEntry
  <2> HIDE DEF f
  <2>3. /\ f \in EntryType /\ f.state = "settled" /\ f.decision = "deny" /\ f.corrupt
        /\ f.lifetime /\ ~f.timer /\ f.retain = e.retain /\ ~f.graceOver
        /\ f.fallback = e.fallback
    BY <2>1, <2>2 DEF EntryType, Verdict, Decision
  <2>4. EntrySound(f)
    BY <1>2, <2>3 DEF EntrySound
  <2> QED BY <1>2, <2>3, <2>4 DEF Answers, f
<1> QED BY <1>1, <1>2

\* A terminal row of the manager's own answers a waiter with what it says.
LEMMA StoreAnswers ==
  ASSUME NEW e, EntrySound(e), NEW m, NEW s, RowSound(s), NEW local, NEW over \in BOOLEAN
  PROVE  LET f == SettleLocalFromStore(e, m, s, local, over) IN
         /\ Answers(e, f, m, s)
         /\ s.owner = m /\ Terminal(s) => f.state # "waiting"
         /\ s.owner = m /\ s.status = "allowed" /\ local = "row" /\ e.state = "waiting" =>
              f.state = "settled" /\ f.decision = s.decision
<1> DEFINE f == SettleLocalFromStore(e, m, s, local, over)
           d == LocalDecision(s, local)
<1>1. CASE s.owner = m /\ Terminal(s) /\ e.state = "waiting"
  <2>1. e \in EntryType /\ s.corrupt \in BOOLEAN /\ d \in Verdict
    BY <1>1 DEF EntrySound, LocalDecision, RowSound, RowType, Verdict
  <2>2. f = [e EXCEPT !.state = "settled", !.decision = d, !.corrupt = s.corrupt,
                      !.lifetime = FALSE, !.timer = FALSE, !.cleanup = e.retain = 0,
                      !.graceOver = over /\ e.retain = 0]
    BY <1>1 DEF SettleLocalFromStore, SettleLocalEntry
  <2>3. /\ d = "none" \/ (s.status \in {"allowed", "denied"} /\ d = s.decision)
        /\ local = "row" /\ s.status = "allowed" => d = s.decision
    BY DEF LocalDecision
  <2> HIDE DEF f, d
  <2>4. /\ f \in EntryType /\ f.state = "settled" /\ f.decision = d
        /\ ~f.lifetime /\ ~f.timer /\ f.retain = e.retain
        /\ f.graceOver => e.retain = 0
        /\ f.fallback = e.fallback
    BY <2>1, <2>2 DEF EntryType
  <2>5. EntrySound(f)
    BY <1>1, <2>4 DEF EntrySound
  <2>6. Answers(e, f, m, s)
    BY <1>1, <2>3, <2>4, <2>5 DEF Answers
  <2> QED BY <2>3, <2>4, <2>6 DEF f
<1>2. CASE ~(s.owner = m /\ Terminal(s) /\ e.state = "waiting")
  <2>1. f = e
    BY <1>2 DEF SettleLocalFromStore, SettleLocalEntry
  <2>2. s.status = "allowed" => Terminal(s)
    BY DEF Terminal
  <2> HIDE DEF f
  <2> QED BY <1>2, <2>1, <2>2 DEF Answers, f
<1> QED BY <1>1, <1>2

\* resolveOperatorApproval writes an allow only as the verdict of a pending row of m's own.
LEMMA ResolveEvolves ==
  ASSUME Core, NEW m \in Manager, NEW i \in Id, NEW d \in Decision, NEW repaired \in BOOLEAN
  PROVE  LET a == ResolveOperatorApproval(i, m, d, repaired) IN
         /\ a.outcome \in {"missing", "corrupt", "terminal"}
         /\ Evolves(row[i], a.row)
         /\ a.outcome = "terminal" => a.row.owner = m /\ Terminal(a.row)
         /\ row[i].status = "pending" /\ a.row.status = "allowed" =>
              a.outcome = "terminal" /\ d # "deny"
<1> DEFINE a == ResolveOperatorApproval(i, m, d, repaired)
           r == row[i]
           s == [r EXCEPT !.status = IF d = "deny" THEN "denied" ELSE "allowed", !.decision = d]
<1>0. RowSound(r)
  BY DEF Core, RowsSound
<1>1. CASE ~Owned(r, m)
  BY <1>0, <1>1, SameEvolves DEF ResolveOperatorApproval
<1>2. CASE Owned(r, m) /\ ~r.sound
  BY <1>0, <1>2, DenyCorruptEvolves DEF ResolveOperatorApproval
<1>3. CASE Owned(r, m) /\ r.sound /\ Terminal(r)
  BY <1>0, <1>3, SameEvolves DEF ResolveOperatorApproval, Owned, Terminal
<1>4. CASE Owned(r, m) /\ r.sound /\ ~Terminal(r) /\ Due(r, i)
  <2>1. r.status = "pending" /\ r.owner = m
    BY <1>4 DEF Due, Owned
  <2>2. a = [outcome |-> "terminal", row |-> Closed(r, "expired")]
    BY <1>4 DEF ResolveOperatorApproval
  <2>3. /\ Evolves(r, Closed(r, "expired")) /\ Terminal(Closed(r, "expired"))
        /\ Closed(r, "expired").status = "expired"
    BY <1>0, <2>1, ClosedEvolves
  <2> QED BY <2>1, <2>2, <2>3 DEF Evolves
<1>5. CASE Owned(r, m) /\ r.sound /\ ~Terminal(r) /\ ~Due(r, i)
  <2>1. r.status = "pending" /\ r.owner = m
    BY <1>5 DEF Terminal, Owned
  <2>2. a = [outcome |-> "terminal", row |-> s]
    BY <1>5 DEF ResolveOperatorApproval
  <2>3. r \in RowType
    BY <1>0 DEF RowSound
  <2>4. /\ s \in RowType /\ s.status = (IF d = "deny" THEN "denied" ELSE "allowed")
        /\ s.decision = d /\ s.owner = r.owner /\ s.consumed = r.consumed
    BY <2>3 DEF RowType, Status, Verdict
  <2> HIDE DEF s
  <2>5. Terminal(s)
    BY <2>4 DEF Terminal
  <2>6. RowSound(s)
    BY <1>0, <2>1, <2>4 DEF RowSound
  <2>7. Evolves(r, s)
    BY <2>1, <2>4, <2>6 DEF Evolves, Terminal
  <2> QED BY <2>1, <2>2, <2>4, <2>5, <2>7
<1> QED BY <1>1, <1>2, <1>3, <1>4, <1>5

\* forceDenyOperatorApproval never allows, and leaves a pending row of m's own only if it was
\* told to wait for the deadline.
LEMMA ForceDenyEvolves ==
  ASSUME Core, NEW m \in Manager, NEW i \in Id, NEW st \in {"denied", "expired", "cancelled"},
         NEW requireDue \in BOOLEAN, NEW repaired \in BOOLEAN
  PROVE  LET a == ForceDenyOperatorApproval(i, m, st, requireDue, repaired) IN
         /\ a.outcome \in {"missing", "corrupt", "terminal", "closed", "not-due"}
         /\ Evolves(row[i], a.row)
         /\ a.outcome \in {"terminal", "closed"} => a.row.owner = m /\ Terminal(a.row)
         /\ a.outcome = "not-due" => requireDue
         /\ row[i].status = "pending" => a.row.status # "allowed"
<1> DEFINE a == ForceDenyOperatorApproval(i, m, st, requireDue, repaired)
           r == row[i]
<1>0. RowSound(r)
  BY DEF Core, RowsSound
<1>1. CASE ~Owned(r, m)
  BY <1>0, <1>1, SameEvolves DEF ForceDenyOperatorApproval
<1>2. CASE Owned(r, m) /\ Due(r, i)
  <2>1. r.status = "pending" /\ r.owner = m
    BY <1>2 DEF Due, Owned
  <2> DEFINE x == Overwritten(r, "expired", repaired)
  <2>2. a = [outcome |-> IF x.sound THEN "terminal" ELSE "corrupt", row |-> x]
    BY <1>2 DEF ForceDenyOperatorApproval
  <2>3. Evolves(r, x) /\ Terminal(x) /\ x.status = "expired"
    BY <1>0, <2>1, OverwrittenEvolves
  <2> HIDE DEF x
  <2> QED BY <2>1, <2>2, <2>3 DEF Evolves
<1>3. CASE Owned(r, m) /\ ~Due(r, i) /\ ~r.sound
  BY <1>0, <1>3, DenyCorruptEvolves DEF ForceDenyOperatorApproval
<1>4. CASE Owned(r, m) /\ ~Due(r, i) /\ r.sound /\ Terminal(r)
  BY <1>0, <1>4, SameEvolves DEF ForceDenyOperatorApproval, Owned, Terminal
<1>5. CASE Owned(r, m) /\ ~Due(r, i) /\ r.sound /\ ~Terminal(r) /\ requireDue
  BY <1>0, <1>5, SameEvolves DEF ForceDenyOperatorApproval, Owned, Terminal
<1>6. CASE Owned(r, m) /\ ~Due(r, i) /\ r.sound /\ ~Terminal(r) /\ ~requireDue
  <2>1. r.status = "pending" /\ r.owner = m
    BY <1>6 DEF Terminal, Owned
  <2>2. a = [outcome |-> "closed", row |-> Closed(r, st)]
    BY <1>6 DEF ForceDenyOperatorApproval
  <2>3. /\ Evolves(r, Closed(r, st)) /\ Terminal(Closed(r, st)) /\ Closed(r, st).status = st
    BY <1>0, <2>1, ClosedEvolves
  <2> QED BY <2>1, <2>2, <2>3 DEF Evolves
<1> QED BY <1>1, <1>2, <1>3, <1>4, <1>5, <1>6

-----------------------------------------------------------------------------
(* The operations that decide, deny, expire or read are settling steps *)

\* An entry that is left alone.
LEMMA SameAnswers ==
  ASSUME NEW e, EntrySound(e), NEW m, NEW s
  PROVE  Answers(e, e, m, s)
  BY DEF Answers

\* One row and one entry move.
LEMMA SettlingAt ==
  ASSUME Core, NEW m \in Manager, NEW i \in Id, NEW r, NEW e,
         Evolves(row[i], r), Answers(entry[m][i], e, m, r),
         row[i].status = "pending" /\ r.status = "allowed" =>
           row[i].owner = m /\ e.state = "settled" /\ e.decision = r.decision,
         row' = [row EXCEPT ![i] = r], entry' = [entry EXCEPT ![m][i] = e],
         UNCHANGED <<due, epoch, alive, grants>>
  PROVE  Settling
<1>1. /\ row \in [Id -> RowType] /\ entry \in [Manager -> [Id -> EntryType]]
      /\ r \in RowType /\ e \in EntryType
  BY DEF Core, TypeOK, Evolves, RowSound, Answers, EntrySound
<1>2. /\ row' \in [Id -> RowType] /\ entry' \in [Manager -> [Id -> EntryType]]
      /\ row'[i] = r /\ entry'[m][i] = e
      /\ \A j \in Id : j # i => row'[j] = row[j]
      /\ \A n \in Manager, j \in Id : n # m \/ j # i => entry'[n][j] = entry[n][j]
  BY <1>1
<1>3. \A j \in Id : Evolves(row[j], row'[j])
  <2> SUFFICES ASSUME NEW j \in Id PROVE Evolves(row[j], row'[j])
    OBVIOUS
  <2>1. RowSound(row[j])
    BY DEF Core, RowsSound
  <2>2. j # i => Evolves(row[j], row'[j])
    BY <1>2, <2>1, SameEvolves
  <2> QED BY <1>2, <2>2
<1>4. \A j \in Id : AllowHeard(j)
  <2> SUFFICES ASSUME NEW j \in Id PROVE AllowHeard(j)
    OBVIOUS
  <2>1. CASE j = i
    BY <1>2, <2>1 DEF AllowHeard
  <2>2. CASE j # i
    BY <1>2, <2>2 DEF AllowHeard
  <2> QED BY <2>1, <2>2
<1>5. \A n \in Manager, j \in Id : Answers(entry[n][j], entry'[n][j], n, row'[j])
  <2> SUFFICES ASSUME NEW n \in Manager, NEW j \in Id
               PROVE  Answers(entry[n][j], entry'[n][j], n, row'[j])
    OBVIOUS
  <2>1. EntrySound(entry[n][j])
    BY DEF Core, EntriesSound
  <2>2. n # m \/ j # i => Answers(entry[n][j], entry'[n][j], n, row'[j])
    BY <1>2, <2>1, SameAnswers
  <2> QED BY <1>2, <2>2
<1> QED
  BY <1>2, <1>3, <1>4, <1>5 DEF Settling

\* The transaction threw: the waiter fails closed.
LEMMA ThrowSettles ==
  ASSUME Core, NEW m \in Manager, NEW i \in Id, StorageThrows(m, i),
         UNCHANGED <<due, epoch, alive, grants>>
  PROVE  Settling
<1> DEFINE e == SettleLocalStorageFailure(entry[m][i])
<1>0. /\ row \in [Id -> RowType] /\ RowSound(row[i]) /\ EntrySound(entry[m][i])
  BY DEF Core, TypeOK, RowsSound, EntriesSound
<1>1. row' = [row EXCEPT ![i] = row[i]] /\ entry' = [entry EXCEPT ![m][i] = e]
  BY <1>0 DEF StorageThrows, SetEntry
<1>2. Evolves(row[i], row[i]) /\ Answers(entry[m][i], e, m, row[i])
  BY <1>0, SameEvolves, FailureAnswers
<1> HIDE DEF e
<1> QED BY <1>1, <1>2, SettlingAt

\* The answer of the store is applied to the waiter.
LEMMA ApplySettles ==
  ASSUME Core, NEW m \in Manager, NEW i \in Id, NEW a, NEW local, NEW over \in BOOLEAN,
         a.outcome \in {"missing", "corrupt", "terminal", "closed", "not-due"},
         Evolves(row[i], a.row),
         a.outcome \in {"terminal", "closed"} => a.row.owner = m /\ Terminal(a.row),
         a.outcome = "not-due" => entry[m][i].state = "waiting",
         row[i].status = "pending" /\ a.row.status = "allowed" =>
           a.outcome = "terminal" /\ entry[m][i].state = "waiting",
         Apply(m, i, a, local, over), UNCHANGED <<due, epoch, alive, grants>>
  PROVE  Settling
<1> DEFINE e == entry[m][i]
           f == IF a.outcome \in {"missing", "corrupt"} THEN SettleLocalStorageFailure(e)
                ELSE IF a.outcome = "terminal" THEN SettleLocalFromStore(e, m, a.row, "row", over)
                ELSE IF a.outcome = "closed" THEN SettleLocalFromStore(e, m, a.row, local, over)
                ELSE ScheduleExpiryTimer(e)
<1>0. EntrySound(e) /\ RowSound(a.row) /\ row[i].owner = a.row.owner
  BY DEF Core, EntriesSound, Evolves
<1>1. row' = [row EXCEPT ![i] = a.row] /\ entry' = [entry EXCEPT ![m][i] = f]
  BY DEF Apply, SetRow, SetEntry
<1>2. CASE a.outcome \in {"missing", "corrupt"}
  <2>1. Answers(e, f, m, a.row)
    BY <1>0, <1>2, FailureAnswers
  <2> HIDE DEF f
  <2> QED BY <1>1, <1>2, <2>1, SettlingAt
<1>3. CASE a.outcome = "terminal"
  <2>1. f = SettleLocalFromStore(e, m, a.row, "row", over)
    BY <1>3
  <2> HIDE DEF f
  <2>2. /\ Answers(e, f, m, a.row)
        /\ a.row.owner = m /\ a.row.status = "allowed" /\ e.state = "waiting" =>
             f.state = "settled" /\ f.decision = a.row.decision
    BY <1>0, <2>1, StoreAnswers
  <2> QED BY <1>0, <1>1, <1>3, <2>2, SettlingAt
<1>4. CASE a.outcome = "closed"
  <2>1. f = SettleLocalFromStore(e, m, a.row, local, over)
    BY <1>4
  <2> HIDE DEF f
  <2>2. Answers(e, f, m, a.row)
    BY <1>0, <2>1, StoreAnswers
  <2> QED BY <1>1, <1>4, <2>2, SettlingAt
<1>5. CASE a.outcome = "not-due"
  <2>1. f = [e EXCEPT !.timer = TRUE]
    BY <1>5 DEF ScheduleExpiryTimer
  <2>2. e \in EntryType /\ e.timer = TRUE
    BY <1>0, <1>5 DEF EntrySound, EntryType
  <2> HIDE DEF f
  <2>3. f = e
    BY <2>1, <2>2 DEF EntryType
  <2>4. Answers(e, f, m, a.row)
    BY <1>0, <2>3, SameAnswers
  <2> QED BY <1>1, <1>5, <2>4, SettlingAt
<1> QED BY <1>2, <1>3, <1>4, <1>5

\* The deny of an entry that failed only writes the row.
LEMMA PersistSettles ==
  ASSUME Core, NEW m \in Manager, NEW i \in Id, PersistStorageCorruptDeny(m, i),
         UNCHANGED <<due, epoch, alive, grants>>
  PROVE  Settling
<1>0. PICK b \in BOOLEAN : ~b
  OBVIOUS
<1>1. PICK repaired \in BOOLEAN :
        LET answer == ForceDenyOperatorApproval(i, m, "denied", b, repaired) IN
        SetRow(i, [answer.row EXCEPT !.corrupt = @ \/ answer.outcome = "closed"])
  <2>1. PICK repaired \in BOOLEAN :
        LET answer == ForceDenyOperatorApproval(i, m, "denied", FALSE, repaired) IN
        SetRow(i, [answer.row EXCEPT !.corrupt = @ \/ answer.outcome = "closed"])
    BY DEF PersistStorageCorruptDeny
  <2>2. ForceDenyOperatorApproval(i, m, "denied", FALSE, repaired)
          = ForceDenyOperatorApproval(i, m, "denied", b, repaired)
    BY <1>0 DEF ForceDenyOperatorApproval
  <2> QED BY <2>1, <2>2
<1> DEFINE a == ForceDenyOperatorApproval(i, m, "denied", b, repaired)
           r == [a.row EXCEPT !.corrupt = @ \/ a.outcome = "closed"]
<1>2. Evolves(row[i], a.row) /\ (row[i].status = "pending" => a.row.status # "allowed")
  BY ForceDenyEvolves
<1>3. row' = [row EXCEPT ![i] = r]
  BY <1>1 DEF SetRow
<1>4. entry' = [entry EXCEPT ![m][i] = entry[m][i]]
  BY DEF PersistStorageCorruptDeny, Core, TypeOK
<1> HIDE DEF a
<1>5. Evolves(row[i], r) /\ r.status = a.row.status
  <2>1. a.row \in RowType
    BY <1>2 DEF Evolves, RowSound
  <2>2. /\ r \in RowType /\ r.status = a.row.status /\ r.decision = a.row.decision
        /\ r.owner = a.row.owner /\ r.consumed = a.row.consumed /\ r.old = a.row.old
        /\ r.sound = a.row.sound
    BY <2>1 DEF RowType
  <2>3. r.status = "absent" => r = AbsentRow
    <3> SUFFICES ASSUME r.status = "absent" PROVE r = AbsentRow
      OBVIOUS
    <3>1. a.row = AbsentRow
      BY <1>2, <2>2 DEF Evolves, RowSound
    <3>2. row[i].status = "absent"
      BY <1>2, <2>2 DEF Evolves
    <3>3. a.outcome = "missing"
      <4>1. ~Owned(row[i], m)
        BY <3>2 DEF Owned
      <4>2. a = [outcome |-> "missing", row |-> row[i]]
        BY <4>1 DEF a, ForceDenyOperatorApproval
      <4> QED BY <4>2
    <3>4. r.corrupt <=> a.row.corrupt
      BY <2>1, <3>3 DEF RowType
    <3> HIDE DEF r
    <3>5. r = a.row
      BY <2>1, <2>2, <3>4 DEF RowType
    <3> QED BY <3>1, <3>5
  <2> HIDE DEF r
  <2>4. RowSound(r)
    BY <1>2, <2>2, <2>3 DEF RowSound, Evolves, Terminal
  <2> QED
    BY <1>2, <2>2, <2>4 DEF Evolves, Terminal
<1>6. Answers(entry[m][i], entry[m][i], m, r)
  <2>1. EntrySound(entry[m][i])
    BY DEF Core, EntriesSound
  <2> QED BY <2>1, SameAnswers
<1> HIDE DEF r
<1> QED BY <1>2, <1>3, <1>4, <1>5, <1>6, SettlingAt

\* Nothing happens.
LEMMA IdleSettles ==
  ASSUME Core, UNCHANGED <<row, entry>>, UNCHANGED <<due, epoch, alive, grants>>
  PROVE  Settling
<1>1. \A i \in Id : Evolves(row[i], row[i])
  BY SameEvolves DEF Core, RowsSound
<1>2. \A m \in Manager, i \in Id : Answers(entry[m][i], entry[m][i], m, row'[i])
  BY SameAnswers DEF Core, EntriesSound
<1> QED BY <1>1, <1>2 DEF Settling, AllowHeard, Core, TypeOK

\* The instants found in a row are a choice between two.
LEMMA GraceIsBoolean ==
  ASSUME NEW r
  PROVE  GraceMayBeOver(r) \subseteq BOOLEAN
  BY DEF GraceMayBeOver

\* A pending row of a manager that did not fail has a waiter there.
LEMMA PendingHasWaiter ==
  ASSUME Core, NEW i \in Id, row[i].status = "pending", ~FailedClosed(row[i].owner, i)
  PROVE  row[i].owner \in Manager /\ entry[row[i].owner][i].state = "waiting"
<1>1. /\ row[i].owner \in Manager
      /\ entry[row[i].owner][i].state = "waiting" \/ entry[row[i].owner][i].lifetime
  BY DEF Core, PendingRowOwned
<1>2. EntrySound(entry[row[i].owner][i])
  BY <1>1 DEF Core, EntriesSound
<1> QED BY <1>1, <1>2 DEF EntrySound, FailedClosed

\* resolveDetailed
LEMMA ResolveSettles ==
  ASSUME Core, NEW m \in Manager, NEW i \in Id, NEW d \in Decision, ResolveDetailed(m, i, d)
  PROVE  Settling
<1>0. UNCHANGED <<due, epoch, alive, grants>>
  BY DEF ResolveDetailed
<1>1. CASE FailedClosed(m, i)
  BY <1>0, <1>1, PersistSettles DEF ResolveDetailed
<1>2. CASE ~FailedClosed(m, i) /\ StorageThrows(m, i)
  BY <1>0, <1>2, ThrowSettles
<1>3. CASE ~FailedClosed(m, i) /\ ~StorageThrows(m, i)
  <2>1. PICK repaired \in BOOLEAN, over \in GraceMayBeOver(row[i]) :
          Apply(m, i, ResolveOperatorApproval(i, m, d, repaired), "row", over)
    BY <1>3 DEF ResolveDetailed
  <2> DEFINE a == ResolveOperatorApproval(i, m, d, repaired)
  <2>2. /\ a.outcome \in {"missing", "corrupt", "terminal"}
        /\ Evolves(row[i], a.row)
        /\ a.outcome = "terminal" => a.row.owner = m /\ Terminal(a.row)
        /\ row[i].status = "pending" /\ a.row.status = "allowed" => a.outcome = "terminal"
    BY ResolveEvolves
  <2>3. Apply(m, i, a, "row", over) /\ over \in BOOLEAN
    BY <2>1, GraceIsBoolean
  <2> HIDE DEF a
  <2>4. ASSUME row[i].status = "pending", a.row.status = "allowed"
        PROVE  a.outcome = "terminal" /\ entry[m][i].state = "waiting"
    <3>1. a.outcome = "terminal" /\ row[i].owner = m
      BY <2>2, <2>4 DEF Evolves
    <3> QED BY <1>3, <2>4, <3>1, PendingHasWaiter
  <2> QED BY <1>0, <2>2, <2>3, <2>4, ApplySettles
<1> QED BY <1>1, <1>2, <1>3

\* forceDenyDetailed; one that waits for the deadline is for a waiter
LEMMA DenySettles ==
  ASSUME Core, NEW m \in Manager, NEW i \in Id, NEW st \in {"denied", "expired", "cancelled"},
         NEW local, NEW b \in BOOLEAN, ForceDenyDetailed(m, i, st, local, b),
         b => entry[m][i].state = "waiting", UNCHANGED <<due, epoch, alive, grants>>
  PROVE  Settling
<1>1. CASE FailedClosed(m, i)
  BY <1>1, PersistSettles DEF ForceDenyDetailed
<1>2. CASE ~FailedClosed(m, i) /\ StorageThrows(m, i)
  BY <1>2, ThrowSettles
<1>3. CASE ~FailedClosed(m, i) /\ ~StorageThrows(m, i)
  <2>1. PICK repaired \in BOOLEAN, over \in GraceMayBeOver(row[i]) :
          Apply(m, i, ForceDenyOperatorApproval(i, m, st, b, repaired), local, over)
    BY <1>3 DEF ForceDenyDetailed
  <2> DEFINE a == ForceDenyOperatorApproval(i, m, st, b, repaired)
  <2>2. /\ a.outcome \in {"missing", "corrupt", "terminal", "closed", "not-due"}
        /\ Evolves(row[i], a.row)
        /\ a.outcome \in {"terminal", "closed"} => a.row.owner = m /\ Terminal(a.row)
        /\ a.outcome = "not-due" => b
        /\ row[i].status = "pending" => a.row.status # "allowed"
    BY ForceDenyEvolves
  <2>3. Apply(m, i, a, local, over) /\ over \in BOOLEAN
    BY <2>1, GraceIsBoolean
  <2> HIDE DEF a
  <2> QED BY <2>2, <2>3, ApplySettles
<1> QED BY <1>1, <1>2, <1>3

\* forceDenyDetailed with its flag given
LEMMA DenyNowSettles ==
  ASSUME Core, NEW m \in Manager, NEW i \in Id, NEW st \in {"denied", "expired", "cancelled"},
         NEW local, ForceDenyDetailed(m, i, st, local, FALSE),
         UNCHANGED <<due, epoch, alive, grants>>
  PROVE  Settling
<1>1. PICK b \in BOOLEAN : ~b
  OBVIOUS
<1>2. \A repaired : ForceDenyOperatorApproval(i, m, st, FALSE, repaired)
                      = ForceDenyOperatorApproval(i, m, st, b, repaired)
  BY <1>1 DEF ForceDenyOperatorApproval
<1>3. ForceDenyDetailed(m, i, st, local, b)
  BY <1>2 DEF ForceDenyDetailed
<1> QED BY <1>1, <1>3, DenySettles

\* forceDenyDetailed of a waiter that may not be due
LEMMA DenyDueSettles ==
  ASSUME Core, NEW m \in Manager, NEW i \in Id, NEW st \in {"denied", "expired", "cancelled"},
         NEW local, ForceDenyDetailed(m, i, st, local, TRUE), entry[m][i].state = "waiting",
         UNCHANGED <<due, epoch, alive, grants>>
  PROVE  Settling
<1>1. PICK b \in BOOLEAN : b
  OBVIOUS
<1>2. \A repaired : ForceDenyOperatorApproval(i, m, st, TRUE, repaired)
                      = ForceDenyOperatorApproval(i, m, st, b, repaired)
  BY <1>1 DEF ForceDenyOperatorApproval
<1>3. ForceDenyDetailed(m, i, st, local, b)
  BY <1>2 DEF ForceDenyDetailed
<1> QED BY <1>3, DenySettles

\* expire, the cancellation of a run and a malformed verdict
LEMMA ForceDenySettles ==
  ASSUME Core, NEW m \in Manager, NEW i \in Id, ForceDeny(m, i)
  PROVE  Settling
<1>1. PICK call \in {<<"denied", "null">>, <<"expired", "row">>, <<"cancelled", "row">>,
                     <<"denied", "row">>} :
        ForceDenyDetailed(m, i, call[1], call[2], FALSE)
  BY DEF ForceDeny
<1>2. call[1] \in {"denied", "expired", "cancelled"}
  OBVIOUS
<1>3. UNCHANGED <<due, epoch, alive, grants>>
  BY DEF ForceDeny
<1> QED BY <1>1, <1>2, <1>3, DenyNowSettles

\* expireDue
LEMMA TimerSettles ==
  ASSUME Core, NEW m \in Manager, NEW i \in Id, ExpiryTimerFires(m, i)
  PROVE  Settling
<1>1. EntrySound(entry[m][i])
  BY DEF Core, EntriesSound
<1>2. entry[m][i].state = "waiting"
  BY <1>1 DEF ExpiryTimerFires, EntrySound
<1>3. /\ ForceDenyDetailed(m, i, "expired", "row", TRUE)
      /\ UNCHANGED <<due, epoch, alive, grants>>
  BY DEF ExpiryTimerFires
<1> QED BY <1>2, <1>3, DenyDueSettles

\* getOperatorApprovalDetailed never allows, and finds only a row that is there.
LEMMA DetailedEvolves ==
  ASSUME Core, NEW i \in Id, NEW repaired \in BOOLEAN
  PROVE  LET a == GetOperatorApprovalDetailed(i, repaired) IN
         /\ Evolves(row[i], a.row)
         /\ row[i].status = "pending" => a.row.status # "allowed"
         /\ a.outcome = "found" => row[i].status # "absent"
<1> DEFINE a == GetOperatorApprovalDetailed(i, repaired)
           r == row[i]
           x == ExpiredIfDue(r, i, repaired)
<1>0. RowSound(r)
  BY DEF Core, RowsSound
<1>2. /\ Evolves(r, x) /\ RowSound(x)
      /\ x = r \/ (r.status = "pending" /\ x.status = "expired")
  BY <1>0, ExpiredEvolves DEF Evolves
<1>1. CASE x.status = "absent"
  <2>1. a.row = x /\ a.outcome = "missing"
    BY <1>1 DEF GetOperatorApprovalDetailed
  <2> HIDE DEF a, x
  <2> QED BY <1>1, <1>2, <2>1 DEF a
<1>3. CASE x.status # "absent" /\ ~x.sound
  <2>1. a.row = DenyCorruptPendingRow(x, repaired) /\ a.outcome = "corrupt"
    BY <1>3 DEF GetOperatorApprovalDetailed
  <2> HIDE DEF a, x
  <2>2. /\ Evolves(x, a.row)
        /\ x.status = "pending" => a.row.status = "denied"
        /\ x.status # "pending" => a.row = x
    BY <1>2, <2>1, DenyCorruptEvolves
  <2>3. Evolves(r, a.row)
    BY <1>2, <2>2, EvolvesTwice
  <2>4. r.status = "pending" => a.row.status # "allowed"
    BY <1>2, <2>2
  <2> QED BY <2>1, <2>3, <2>4 DEF a
<1>4. CASE x.status # "absent" /\ x.sound
  <2>1. a.row = x /\ a.outcome = "found"
    BY <1>4 DEF GetOperatorApprovalDetailed
  <2>2. r.status # "absent"
    BY <1>2, <1>4 DEF Evolves
  <2> HIDE DEF a, x
  <2> QED BY <1>2, <2>1, <2>2 DEF a
<1> QED BY <1>1, <1>3, <1>4

\* A row that is missing or unreadable fails the waiters of every kind.
LEMMA UnreadSettles ==
  ASSUME Core, NEW g \in Epoch, NEW i \in Id, NEW r, Evolves(row[i], r),
         row[i].status = "pending" => r.status # "allowed",
         row' = [row EXCEPT ![i] = r], ReconcileUnread(g, i),
         UNCHANGED <<due, epoch, alive, grants>>
  PROVE  Settling
<1>1. /\ row \in [Id -> RowType] /\ entry \in [Manager -> [Id -> EntryType]] /\ r \in RowType
  BY DEF Core, TypeOK, Evolves, RowSound
<1>2. /\ row' \in [Id -> RowType] /\ row'[i] = r
      /\ \A j \in Id : j # i => row'[j] = row[j]
  BY <1>1
<1>3. \A n \in Manager, j \in Id :
        entry'[n][j] = IF n[1] = g /\ j = i THEN SettleLocalStorageFailure(entry[n][j])
                       ELSE entry[n][j]
  BY <1>1 DEF ReconcileUnread
<1>4. \A j \in Id : Evolves(row[j], row'[j]) /\ AllowHeard(j)
  <2> SUFFICES ASSUME NEW j \in Id PROVE Evolves(row[j], row'[j]) /\ AllowHeard(j)
    OBVIOUS
  <2>1. RowSound(row[j])
    BY DEF Core, RowsSound
  <2>2. Evolves(row[j], row'[j])
    BY <1>2, <2>1, SameEvolves
  <2>3. AllowHeard(j)
    BY <1>2 DEF AllowHeard
  <2> QED BY <2>2, <2>3
<1>5. \A n \in Manager, j \in Id : Answers(entry[n][j], entry'[n][j], n, row'[j])
  <2> SUFFICES ASSUME NEW n \in Manager, NEW j \in Id
               PROVE  Answers(entry[n][j], entry'[n][j], n, row'[j])
    OBVIOUS
  <2>1. EntrySound(entry[n][j])
    BY DEF Core, EntriesSound
  <2>2. CASE n[1] = g /\ j = i
    BY <1>3, <2>1, <2>2, FailureAnswers
  <2>3. CASE ~(n[1] = g /\ j = i)
    BY <1>3, <2>1, <2>3, SameAnswers
  <2> QED BY <2>2, <2>3
<1>6. entry' \in [Manager -> [Id -> EntryType]]
  <2>1. \A n \in Manager : entry'[n] \in [Id -> EntryType]
    <3> SUFFICES ASSUME NEW n \in Manager PROVE entry'[n] \in [Id -> EntryType]
      OBVIOUS
    <3>1. entry'[n] = IF n[1] = g THEN [entry[n] EXCEPT ![i] = SettleLocalStorageFailure(@)]
                      ELSE entry[n]
      BY DEF ReconcileUnread
    <3>2. SettleLocalStorageFailure(entry[n][i]) \in EntryType
      BY FailureAnswers DEF Core, EntriesSound, Answers, EntrySound
    <3> QED BY <1>1, <3>1, <3>2
  <2>2. entry' = [n \in Manager |-> entry'[n]]
    BY DEF ReconcileUnread
  <2> QED BY <2>1, <2>2
<1> QED BY <1>2, <1>4, <1>5, <1>6 DEF Settling

\* approval.get and approval.resolve
LEMMA LookupSettles ==
  ASSUME Core, NEW g \in Epoch, NEW i \in Id, LookupApproval(g, i)
  PROVE  Settling
<1>0. /\ row \in [Id -> RowType] /\ RowSound(row[i]) /\ UNCHANGED <<due, epoch, alive, grants>>
  BY DEF Core, TypeOK, RowsSound, LookupApproval
<1>1. CASE ReconcileUnread(g, i) /\ UNCHANGED row
  <2>1. row' = [row EXCEPT ![i] = row[i]]
    BY <1>0, <1>1
  <2>2. Evolves(row[i], row[i])
    BY <1>0, SameEvolves
  <2> QED BY <1>0, <1>1, <2>1, <2>2, UnreadSettles
<1>2. CASE ~(ReconcileUnread(g, i) /\ UNCHANGED row)
  <2>1. PICK repaired \in BOOLEAN, over \in GraceMayBeOver(row[i]) :
          LET answer == GetOperatorApprovalDetailed(i, repaired) IN
          IF answer.outcome = "found"
          THEN ReconcileFound(<<g, row[i].owner[2]>>, i, answer.row, over)
          ELSE SetRow(i, answer.row) /\ ReconcileUnread(g, i)
    BY <1>2 DEF LookupApproval
  <2> DEFINE a == GetOperatorApprovalDetailed(i, repaired)
             m == <<g, row[i].owner[2]>>
             f == SettleLocalFromStore(entry[m][i], m, a.row, "row", over)
  <2>2. /\ Evolves(row[i], a.row)
        /\ row[i].status = "pending" => a.row.status # "allowed"
        /\ a.outcome = "found" => row[i].status # "absent"
    BY DetailedEvolves
  <2>3. over \in BOOLEAN
    BY GraceIsBoolean
  <2>4. CASE a.outcome # "found"
    <3>1. row' = [row EXCEPT ![i] = a.row] /\ ReconcileUnread(g, i)
      BY <2>1, <2>4 DEF SetRow
    <3> HIDE DEF a
    <3> QED BY <1>0, <2>2, <3>1, UnreadSettles
  <2>5. CASE a.outcome = "found"
    <3>1. ReconcileFound(m, i, a.row, over)
      BY <2>1, <2>5
    <3>2. row[i].owner \in Manager
      BY <1>0, <2>2, <2>5 DEF RowSound
    <3>3. m \in Manager
      BY <3>2 DEF Manager
    <3> HIDE DEF m, a
    <3>4. CASE PersistStorageCorruptDeny(m, i)
      BY <1>0, <3>3, <3>4, PersistSettles
    <3>5. CASE UNCHANGED <<row, entry>>
      BY <1>0, <3>5, IdleSettles
    <3>6. CASE ~PersistStorageCorruptDeny(m, i) /\ ~UNCHANGED <<row, entry>>
      <4>1. row' = [row EXCEPT ![i] = a.row] /\ entry' = [entry EXCEPT ![m][i] = f]
        BY <3>1, <3>6 DEF ReconcileFound, SetRow, SetEntry
      <4>2. EntrySound(entry[m][i]) /\ RowSound(a.row)
        BY <2>2, <3>3 DEF Core, EntriesSound, Evolves
      <4>3. Answers(entry[m][i], f, m, a.row)
        BY <2>3, <4>2, StoreAnswers
      <4> HIDE DEF f
      <4> QED BY <1>0, <2>2, <3>3, <4>1, <4>3, SettlingAt
    <3> QED BY <3>4, <3>5, <3>6
  <2> QED BY <2>4, <2>5
<1> QED BY <1>1, <1>2

\* The replay of a session's approvals.
LEMMA ReplaySettles ==
  ASSUME Core, NEW g \in Epoch, Replay(g)
  PROVE  Settling
<1> DEFINE Expiring == {i \in Id : Due(row[i], i)}
           Broken == {i \in Id : row[i].status = "pending" /\ ~row[i].sound} \ Expiring
<1>0. row \in [Id -> RowType] /\ entry \in [Manager -> [Id -> EntryType]]
  BY DEF Core, TypeOK
<1>2. PICK scanned \in SUBSET Broken, repaired \in SUBSET Id :
        row' = [i \in Id |-> IF i \in scanned THEN DenyCorruptPendingRow(row[i], i \in repaired)
                             ELSE ExpiredIfDue(row[i], i, i \in repaired)]
  BY DEF Replay
<1>3. entry' = [m \in Manager |-> [i \in Id |->
                IF m[1] = g /\ i \in Expiring /\ row'[i].sound
                THEN SettleLocalFromStore(entry[m][i], m, row'[i], "row", FALSE)
                ELSE entry[m][i]]]
  BY DEF Replay
<1>4. ASSUME NEW i \in Id
      PROVE  /\ Evolves(row[i], row'[i])
             /\ row[i].status = "pending" => row'[i].status # "allowed"
  <2>0. RowSound(row[i])
    BY DEF Core, RowsSound
  <2>3. PICK b \in BOOLEAN : b <=> (i \in repaired)
    OBVIOUS
  <2>1. CASE i \in scanned
    <3>1. row'[i] = DenyCorruptPendingRow(row[i], i \in repaired)
      BY <1>2, <2>1
    <3>3. DenyCorruptPendingRow(row[i], i \in repaired) = DenyCorruptPendingRow(row[i], b)
      BY <2>3 DEF DenyCorruptPendingRow
    <3>4. Evolves(row[i], row'[i]) /\ (row[i].status = "pending" => row'[i].status = "denied")
      BY <2>0, <3>1, <3>3, DenyCorruptEvolves
    <3> QED BY <3>4
  <2>2. CASE i \notin scanned
    <3>1. row'[i] = ExpiredIfDue(row[i], i, i \in repaired)
      BY <1>2, <2>2
    <3>2. ExpiredIfDue(row[i], i, i \in repaired) = ExpiredIfDue(row[i], i, b)
      BY <2>3 DEF ExpiredIfDue, Overwritten
    <3> QED BY <2>0, <3>1, <3>2, ExpiredEvolves
  <2> QED BY <2>1, <2>2
<1>5. ASSUME NEW m \in Manager, NEW i \in Id
      PROVE  Answers(entry[m][i], entry'[m][i], m, row'[i])
  <2>0. EntrySound(entry[m][i]) /\ RowSound(row'[i])
    BY <1>4 DEF Core, EntriesSound, Evolves
  <2>1. CASE m[1] = g /\ i \in Expiring /\ row'[i].sound
    <3>1. PICK b \in BOOLEAN : b = FALSE
      OBVIOUS
    <3>2. entry'[m][i] = SettleLocalFromStore(entry[m][i], m, row'[i], "row", FALSE)
      BY <1>3, <2>1
    <3>3. SettleLocalFromStore(entry[m][i], m, row'[i], "row", FALSE)
            = SettleLocalFromStore(entry[m][i], m, row'[i], "row", b)
      BY <3>1
    <3>4. Answers(entry[m][i], SettleLocalFromStore(entry[m][i], m, row'[i], "row", b), m, row'[i])
      BY <2>0, StoreAnswers
    <3> QED BY <3>2, <3>3, <3>4
  <2>2. CASE ~(m[1] = g /\ i \in Expiring /\ row'[i].sound)
    <3>1. entry'[m][i] = entry[m][i]
      BY <1>3, <2>2
    <3> QED BY <2>0, <3>1, SameAnswers
  <2> QED BY <2>1, <2>2
<1>6. row' \in [Id -> RowType]
  <2>1. \A i \in Id : row'[i] \in RowType
    BY <1>4 DEF Evolves, RowSound
  <2>2. row' = [i \in Id |-> row'[i]]
    BY <1>2
  <2> QED BY <2>1, <2>2
<1>7. entry' \in [Manager -> [Id -> EntryType]]
  <2>1. \A m \in Manager, i \in Id : entry'[m][i] \in EntryType
    BY <1>5 DEF Answers, EntrySound
  <2>2. entry' = [m \in Manager |-> [i \in Id |-> entry'[m][i]]]
    BY <1>3
  <2> QED BY <2>1, <2>2
<1> QED BY <1>4, <1>5, <1>6, <1>7 DEF Settling, AllowHeard, Replay

\* A terminal row grows old, or breaks.
LEMMA RowAgesSettles ==
  ASSUME Core, NEW i \in Id, RetentionElapses(i) \/ RowBreaks(i)
  PROVE  Settling
<1>0. /\ row \in [Id -> RowType] /\ entry \in [Manager -> [Id -> EntryType]]
      /\ RowSound(row[i]) /\ row[i] \in RowType
  BY DEF Core, TypeOK, RowsSound
<1>1. PICK s : /\ row' = [row EXCEPT ![i] = s]
               /\ \/ Terminal(row[i]) /\ s = [row[i] EXCEPT !.old = TRUE]
                  \/ row[i].status # "absent" /\ s = [row[i] EXCEPT !.sound = FALSE]
  BY DEF RetentionElapses, RowBreaks, SetRow
<1>2. /\ s \in RowType /\ s.status = row[i].status /\ s.decision = row[i].decision
      /\ s.owner = row[i].owner /\ s.consumed = row[i].consumed
      /\ s.old = row[i].old \/ Terminal(row[i])
      /\ row[i].status # "absent"
  BY <1>0, <1>1 DEF RowType, Terminal
<1>3. Evolves(row[i], s)
  BY <1>0, <1>2 DEF Evolves, RowSound, Terminal
<1>4. \A m \in Manager, j \in Id : Answers(entry[m][j], entry[m][j], m, row'[j])
  BY SameAnswers DEF Core, EntriesSound
<1>5. \A j \in Id : Evolves(row[j], row'[j]) /\ AllowHeard(j)
  <2> SUFFICES ASSUME NEW j \in Id PROVE Evolves(row[j], row'[j]) /\ AllowHeard(j)
    OBVIOUS
  <2>1. j # i => Evolves(row[j], row[j]) /\ row'[j] = row[j]
    BY <1>0, <1>1, SameEvolves DEF Core, RowsSound
  <2>2. row'[i] = s
    BY <1>0, <1>1
  <2> QED BY <1>2, <1>3, <2>1, <2>2 DEF AllowHeard
<1>6. UNCHANGED <<entry, due, epoch, alive, grants>>
  BY DEF RetentionElapses, RowBreaks
<1>7. row' \in [Id -> RowType]
  BY <1>0, <1>1, <1>2
<1> QED BY <1>0, <1>4, <1>5, <1>6, <1>7 DEF Settling

-----------------------------------------------------------------------------
(* What a settling step keeps *)

\* A settling step keeps the invariant.
LEMMA SettlingKeepsCore ==
  ASSUME Core, Settling
  PROVE  Core'
<1>0. UNCHANGED <<due, epoch, alive, grants>>
  BY DEF Settling
<1>1. TypeOK'
  BY <1>0 DEF Core, TypeOK, Settling
<1>2. RowsSound'
  BY EmptySound DEF Settling, RowsSound, Evolves, Forgets
<1>3. EntriesSound'
  BY DEF Settling, EntriesSound, Answers
<1>4. DeadManagersEmpty'
  <2> SUFFICES ASSUME NEW m \in Manager, NEW i \in Id, ~Live(m)'
               PROVE  entry'[m][i] = NoEntry
    BY DEF DeadManagersEmpty
  <2>1. entry[m][i] = NoEntry
    BY <1>0 DEF Core, DeadManagersEmpty, Live
  <2> QED BY <2>1 DEF Settling, Answers, NoEntry
<1>5. GrantsRecorded'
  <2> SUFFICES ASSUME NEW m \in Manager, NEW i \in Id
               PROVE  /\ grants'[m][i] \in {0, 1}
                      /\ entry'[m][i].state # "none" /\ grants'[m][i] = 1 =>
                           entry'[m][i].consumed \/ entry'[m][i].fallback
    BY DEF GrantsRecorded
  <2>1. /\ grants'[m][i] = grants[m][i] /\ grants[m][i] \in {0, 1}
        /\ entry[m][i].state # "none" /\ grants[m][i] = 1 =>
             entry[m][i].consumed \/ entry[m][i].fallback
    BY <1>0 DEF Core, GrantsRecorded
  <2>2. EntrySound(entry[m][i])
    BY DEF Core, EntriesSound
  <2>3. \/ entry'[m][i] = entry[m][i]
        \/ entry[m][i].state = "waiting"
    BY DEF Settling, Answers
  <2> QED BY <2>1, <2>2, <2>3 DEF EntrySound
<1>6. PendingRowOwned'
  <2> SUFFICES ASSUME NEW i \in Id, row'[i].status = "pending"
               PROVE  /\ row'[i].owner \in Manager
                      /\ row'[i].owner[1] \in alive'
                      /\ \/ entry'[row'[i].owner][i].state = "waiting"
                         \/ entry'[row'[i].owner][i].lifetime
    BY DEF PendingRowOwned, Live
  <2>1. row[i].status = "pending" /\ row'[i].owner = row[i].owner
    BY DEF Settling, Evolves, Forgets, Terminal, AbsentRow
  <2> DEFINE m == row[i].owner
  <2>2. m \in Manager /\ Live(m) /\ (entry[m][i].state = "waiting" \/ entry[m][i].lifetime)
    BY <2>1 DEF Core, PendingRowOwned
  <2> HIDE DEF m
  <2>3. entry'[m][i].state = "waiting" \/ entry'[m][i].lifetime
    BY <2>2 DEF Settling, Answers, Terminal
  <2> QED BY <1>0, <2>1, <2>2, <2>3 DEF Live, m
<1>7. AllowIsDurable'
  <2> SUFFICES ASSUME NEW m \in Manager, NEW i \in Id,
                      entry'[m][i].decision \in {"allow-once", "allow-always"},
                      row'[i].status # "absent", row'[i].owner = m
               PROVE  row'[i].status = "allowed" /\ row'[i].decision = entry'[m][i].decision
    BY DEF AllowIsDurable, Owned
  <2>1. Evolves(row[i], row'[i]) /\ RowSound(row'[i])
    BY DEF Settling, Forgets, AbsentRow, Evolves
  <2>2. Answers(entry[m][i], entry'[m][i], m, row'[i])
    BY DEF Settling
  <2>3. CASE entry'[m][i] = entry[m][i]
    <3>1. row[i].status = "allowed" /\ row[i].decision = entry[m][i].decision
      BY <2>1, <2>3 DEF Core, AllowIsDurable, Owned, Evolves
    <3> QED BY <2>1, <2>3, <3>1 DEF Evolves, Terminal
  <2>4. CASE entry'[m][i] # entry[m][i]
    BY <2>1, <2>2, <2>4 DEF Answers, RowSound
  <2> QED BY <2>3, <2>4
<1>8. AllowReachedWaiter'
  <2> SUFFICES ASSUME NEW i \in Id, row'[i].status = "allowed", row'[i].owner[1] \in alive'
               PROVE  LET e == entry'[row'[i].owner][i] IN
                      e.state = "none" \/ (e.state = "settled" /\ e.decision = row'[i].decision)
    BY DEF AllowReachedWaiter, Live
  <2>1. /\ Evolves(row[i], row'[i]) /\ AllowHeard(i) /\ RowSound(row'[i])
    BY DEF Settling, Forgets, AbsentRow, Evolves
  <2> DEFINE m == row[i].owner
  <2>2. row'[i].owner = m /\ m \in Manager
    BY <2>1 DEF Evolves, RowSound
  <2>3. CASE row[i].status = "pending"
    BY <2>1, <2>2, <2>3 DEF AllowHeard
  <2>4. CASE row[i].status # "pending"
    <3>1. row[i].status = "allowed" /\ row[i].decision = row'[i].decision
      BY <2>1, <2>4 DEF Evolves, Terminal
    <3>2. \/ entry[m][i].state = "none"
          \/ entry[m][i].state = "settled" /\ entry[m][i].decision = row[i].decision
      BY <1>0, <2>2, <3>1 DEF Core, AllowReachedWaiter, Live
    <3> HIDE DEF m
    <3>3. entry'[m][i] = entry[m][i]
      BY <2>2, <3>2 DEF Settling, Answers
    <3> QED BY <2>2, <3>1, <3>2, <3>3
  <2> QED BY <2>3, <2>4
<1> QED BY <1>1, <1>2, <1>3, <1>4, <1>5, <1>6, <1>7, <1>8 DEF Core

\* What HandoffKeepsBinding asks of a step.
HandoffStep ==
  \A m \in Manager, i \in Id :
    entry[m][i].retain > 0 /\ m[1] \in alive' => entry'[m][i].state # "none"

\* A settling step keeps the entries that handoffs hold.
LEMMA SettlingKeepsHandoffs ==
  ASSUME Core, Settling
  PROVE  HandoffStep
<1> SUFFICES ASSUME NEW m \in Manager, NEW i \in Id, entry[m][i].retain > 0
             PROVE  entry'[m][i].state # "none"
  BY DEF HandoffStep
<1>1. EntrySound(entry[m][i]) /\ Answers(entry[m][i], entry'[m][i], m, row'[i])
  BY DEF Core, EntriesSound, Settling
<1> QED BY <1>1 DEF EntrySound, NoEntry, Answers

\* A settling step decides an open request or leaves it alone, and answers waiters.
LEMMA SettlingIsContract ==
  ASSUME Core, Settling
  PROVE  Contract!Next
<1>1. ASSUME NEW i \in Id
      PROVE  Contract!DecidedOn(i) \/ Contract!Forgotten(i) \/ Contract!Kept(i)
  <2>0. RowSound(row[i])
    BY DEF Core, RowsSound
  <2>1. CASE Forgets(i)
    <3>1. VerdictOf(row[i]) \in Decision /\ VerdictOf(row'[i]) = "none" /\ ~row'[i].consumed
      BY <2>0, <2>1 DEF Forgets, RowSound, VerdictOf, AbsentRow, Terminal
    <3> QED BY <3>1 DEF Contract!Forgotten, Contract!Decided, Contract!Allow, Decision
  <2>2. CASE ~Forgets(i)
    <3>1. Evolves(row[i], row'[i])
      BY <2>2 DEF Settling
    <3>2. CASE VerdictOf(row'[i]) = VerdictOf(row[i])
      BY <3>1, <3>2 DEF Evolves, Contract!Kept
    <3>3. CASE VerdictOf(row'[i]) # VerdictOf(row[i])
      <4>1. VerdictOf(row[i]) = "open" /\ VerdictOf(row'[i]) \in Decision
        BY <3>1, <3>3 DEF Evolves, VerdictOf, RowSound, Terminal
      <4> QED
        BY <3>1, <4>1 DEF Evolves, Contract!DecidedOn, Contract!Decided, Contract!Allow, Decision
    <3> QED BY <3>2, <3>3
  <2> QED BY <2>1, <2>2
<1>2. ASSUME NEW m \in Manager, NEW i \in Id
      PROVE  Contract!Answered(m, i)
  <2>1. Answers(entry[m][i], entry'[m][i], m, row'[i])
    BY DEF Settling
  <2>2. CASE entry'[m][i] = entry[m][i]
    BY <2>2 DEF Contract!Answered
  <2>3. CASE entry'[m][i] # entry[m][i]
    <3>1. /\ AnswerOf(entry[m][i]) = "waiting"
          /\ AnswerOf(entry'[m][i]) \in {"deny", "unanswered"} \cup Decision
          /\ AnswerOf(entry'[m][i]) \in {"allow-once", "allow-always"} =>
               VerdictOf(row'[i]) = AnswerOf(entry'[m][i]) /\ row'[i].owner = m
      <4>1. entry[m][i].state = "waiting" /\ entry'[m][i].state = "settled"
        BY <2>1, <2>3 DEF Answers
      <4>2. entry'[m][i] \in EntryType
        BY <2>1 DEF Answers, EntrySound
      <4>3. entry'[m][i].decision \in Verdict
        BY <4>2 DEF EntryType
      <4>4. entry'[m][i].decision \in {"allow-once", "allow-always"} =>
              row'[i].owner = m /\ Terminal(row'[i]) /\ row'[i].decision = entry'[m][i].decision
        BY <2>1, <2>3 DEF Answers
      <4> QED BY <4>1, <4>3, <4>4 DEF AnswerOf, VerdictOf, Terminal, Verdict, Decision
    <3> QED BY <3>1 DEF Contract!Answered, Contract!Allow, Decision
  <2> QED BY <2>2, <2>3
<1> QED BY <1>1, <1>2 DEF Contract!Next

-----------------------------------------------------------------------------
(* The other operations *)

\* What is shown of every step.
StepOK == Core' /\ HandoffStep /\ Contract!Next

\* The settling steps are such steps.
LEMMA SettlingOK ==
  ASSUME Core, Settling
  PROVE  StepOK
  BY SettlingKeepsCore, SettlingKeepsHandoffs, SettlingIsContract DEF StepOK

\* The entry e of a manager becomes f: its answer is the same, or it is settled, held by no
\* handoff and dropped.
Handles(e, f) ==
  /\ EntrySound(f)
  /\ \/ /\ f.state = e.state /\ f.decision = e.decision /\ f.lifetime = e.lifetime
        /\ e.state # "none"
     \/ f = NoEntry /\ e.state = "settled" /\ ~e.lifetime /\ e.retain = 0

\* A step that handles one entry without answering it, and at most redeems its permission.
LEMMA HandlingOK ==
  ASSUME Core, NEW m \in Manager, NEW i \in Id, NEW f, Live(m), Handles(entry[m][i], f),
         entry' = [entry EXCEPT ![m][i] = f],
         grants' \in [Manager -> [Id -> Nat]],
         \A n \in Manager, j \in Id : n # m \/ j # i => grants'[n][j] = grants[n][j],
         grants'[m][i] \in {0, 1},
         f # NoEntry /\ grants'[m][i] = 1 => f.consumed \/ f.fallback,
         UNCHANGED <<row, due, epoch, alive>>
  PROVE  StepOK
<1>0. /\ row \in [Id -> RowType] /\ entry \in [Manager -> [Id -> EntryType]]
      /\ EntrySound(entry[m][i]) /\ EntrySound(f) /\ f \in EntryType
  BY DEF Core, TypeOK, EntriesSound, Handles, EntrySound
<1>1. /\ entry' \in [Manager -> [Id -> EntryType]] /\ entry'[m][i] = f
      /\ \A n \in Manager, j \in Id : n # m \/ j # i => entry'[n][j] = entry[n][j]
  BY <1>0
<1> DEFINE e == entry[m][i]
<1>2. \/ f.state = e.state /\ f.decision = e.decision /\ f.lifetime = e.lifetime
      \/ f = NoEntry /\ e.state = "settled" /\ ~e.lifetime /\ e.retain = 0
  BY DEF Handles
<1>3. f = NoEntry => f.state = "none" /\ f.decision = "none"
  BY DEF NoEntry
<1> HIDE DEF e
<1>4. Core'
  <2>1. TypeOK'
    BY <1>1 DEF Core, TypeOK
  <2>2. RowsSound'
    BY DEF Core, RowsSound
  <2>3. EntriesSound'
    BY <1>0, <1>1 DEF Core, EntriesSound
  <2>4. DeadManagersEmpty'
    BY <1>1 DEF Core, DeadManagersEmpty, Live
  <2>5. GrantsRecorded'
    <3> SUFFICES ASSUME NEW n \in Manager, NEW j \in Id
                 PROVE  /\ grants'[n][j] \in {0, 1}
                        /\ entry'[n][j].state # "none" /\ grants'[n][j] = 1 =>
                             entry'[n][j].consumed \/ entry'[n][j].fallback
      BY DEF GrantsRecorded
    <3>1. CASE n = m /\ j = i
      BY <1>1, <1>3, <3>1
    <3>2. CASE ~(n = m /\ j = i)
      BY <1>1, <3>2 DEF Core, GrantsRecorded
    <3> QED BY <3>1, <3>2
  <2>6. PendingRowOwned'
    <3> SUFFICES ASSUME NEW j \in Id, row[j].status = "pending"
                 PROVE  /\ row[j].owner \in Manager
                        /\ row[j].owner[1] \in alive
                        /\ \/ entry'[row[j].owner][j].state = "waiting"
                           \/ entry'[row[j].owner][j].lifetime
      BY DEF PendingRowOwned, Live
    <3> DEFINE n == row[j].owner
    <3>1. n \in Manager /\ Live(n) /\ (entry[n][j].state = "waiting" \/ entry[n][j].lifetime)
      BY DEF Core, PendingRowOwned
    <3> HIDE DEF n
    <3>2. CASE n = m /\ j = i
      BY <1>1, <1>2, <3>1, <3>2 DEF Live, n, e
    <3>3. CASE ~(n = m /\ j = i)
      BY <1>1, <3>1, <3>3 DEF Live, n
    <3> QED BY <3>2, <3>3
  <2>7. AllowIsDurable'
    <3> SUFFICES ASSUME NEW n \in Manager, NEW j \in Id,
                        entry'[n][j].decision \in {"allow-once", "allow-always"},
                        Owned(row[j], n)
                 PROVE  row[j].status = "allowed" /\ row[j].decision = entry'[n][j].decision
      BY DEF AllowIsDurable, Owned
    <3>1. entry'[n][j].decision = entry[n][j].decision
      BY <1>1, <1>2, <1>3 DEF e
    <3> QED BY <3>1 DEF Core, AllowIsDurable
  <2>8. AllowReachedWaiter'
    <3> SUFFICES ASSUME NEW j \in Id, row[j].status = "allowed", row[j].owner[1] \in alive
                 PROVE  LET d == entry'[row[j].owner][j] IN
                        d.state = "none" \/ (d.state = "settled" /\ d.decision = row[j].decision)
      BY DEF AllowReachedWaiter, Live
    <3> DEFINE n == row[j].owner
    <3>0. n \in Manager
      BY DEF Core, RowsSound, RowSound
    <3>1. \/ entry[n][j].state = "none"
          \/ entry[n][j].state = "settled" /\ entry[n][j].decision = row[j].decision
      BY DEF Core, AllowReachedWaiter, Live
    <3> HIDE DEF n
    <3>2. CASE n = m /\ j = i
      BY <1>1, <1>2, <1>3, <3>1, <3>2 DEF n, e
    <3>3. CASE ~(n = m /\ j = i)
      BY <1>1, <3>0, <3>1, <3>3 DEF n
    <3> QED BY <3>2, <3>3
  <2> QED BY <2>1, <2>2, <2>3, <2>4, <2>5, <2>6, <2>7, <2>8 DEF Core
<1>5. HandoffStep
  <2> SUFFICES ASSUME NEW n \in Manager, NEW j \in Id, entry[n][j].retain > 0
               PROVE  entry'[n][j].state # "none"
    BY DEF HandoffStep
  <2>1. EntrySound(entry[n][j])
    BY DEF Core, EntriesSound
  <2>2. entry[n][j].state # "none"
    BY <2>1 DEF EntrySound, NoEntry
  <2> QED BY <1>1, <1>2, <2>2 DEF e
<1>6. Contract!Next
  <2>1. ASSUME NEW j \in Id PROVE Contract!Kept(j)
    BY DEF Contract!Kept
  <2>2. ASSUME NEW n \in Manager, NEW j \in Id PROVE Contract!Answered(n, j)
    <3>1. \/ AnswerOf(entry'[n][j]) = AnswerOf(entry[n][j])
          \/ AnswerOf(entry'[n][j]) = "none" /\ AnswerOf(entry[n][j]) # "none"
      <4>1. CASE n = m /\ j = i
        BY <1>1, <1>2, <1>3, <4>1 DEF AnswerOf, e
      <4>2. CASE ~(n = m /\ j = i)
        BY <1>1, <4>2
      <4> QED BY <4>1, <4>2
    <3> QED BY <3>1 DEF Contract!Answered
  <2> QED BY <2>1, <2>2 DEF Contract!Next
<1> QED BY <1>4, <1>5, <1>6 DEF StepOK

\* The permission of an entry that handling leaves alone.
LEMMA HandlingUnspentOK ==
  ASSUME Core, NEW m \in Manager, NEW i \in Id, NEW f, Live(m), Handles(entry[m][i], f),
         f = NoEntry \/ (f.consumed = entry[m][i].consumed /\ f.fallback = entry[m][i].fallback),
         SetEntry(m, i, f), UNCHANGED <<row, due, epoch, alive, grants>>
  PROVE  StepOK
<1>1. /\ grants \in [Manager -> [Id -> Nat]] /\ grants[m][i] \in {0, 1}
      /\ entry[m][i].state # "none" /\ grants[m][i] = 1 =>
           entry[m][i].consumed \/ entry[m][i].fallback
      /\ entry[m][i].state # "none"
  BY DEF Core, TypeOK, GrantsRecorded, Handles
<1>2. f # NoEntry /\ grants[m][i] = 1 => f.consumed \/ f.fallback
  BY <1>1
<1> QED BY <1>1, <1>2, HandlingOK DEF SetEntry

\* An entry past its grace, or one the cleanup timer finds, is dropped.
LEMMA DroppingOK ==
  ASSUME Core, NEW m \in Manager, NEW i \in Id, Live(m), SetEntry(m, i, NoEntry),
         Forgettable(entry[m][i]) \/ Sweepable(entry[m][i]),
         UNCHANGED <<row, due, epoch, alive, grants>>
  PROVE  StepOK
<1>1. EntrySound(entry[m][i])
  BY DEF Core, EntriesSound
<1>2. entry[m][i] \in EntryType
  BY <1>1 DEF EntrySound
<1>3. entry[m][i].state \in {"none", "waiting", "settled"}
  BY <1>2 DEF EntryType
<1>4. entry[m][i].state = "settled" /\ ~entry[m][i].lifetime /\ entry[m][i].retain = 0
  BY <1>1, <1>3 DEF Forgettable, Sweepable, EntrySound, NoEntry
<1>5. Handles(entry[m][i], NoEntry)
  BY <1>4, EmptySound DEF Handles
<1> QED BY <1>5, HandlingUnspentOK

\* retainForHandoff
LEMMA RetainOK ==
  ASSUME Core, NEW m \in Manager, NEW i \in Id, RetainForHandoff(m, i)
  PROVE  StepOK
<1> DEFINE e == entry[m][i]
           f == Retained(e)
<1>0. EntrySound(e) /\ e \in EntryType
  BY DEF Core, EntriesSound, EntrySound
<1>1. CASE Forgettable(e)
  BY <1>1, DroppingOK DEF RetainForHandoff
<1>2. CASE ~Forgettable(e)
  <2>1. /\ SetEntry(m, i, f) /\ Live(m) /\ e.state # "none" /\ e.retain < MaxRetain
        /\ UNCHANGED <<row, due, epoch, alive, grants>>
    BY <1>2 DEF RetainForHandoff
  <2>r. e.retain + 1 \in 0 .. MaxRetain
    <3>1. e.retain \in 0 .. MaxRetain
      BY <1>0 DEF EntryType
    <3> QED BY <2>1, <3>1, RetainAssumption
  <2>k. PICK k \in 0 .. MaxRetain : k = e.retain + 1
    BY <2>r
  <2>2. f = [e EXCEPT !.retain = k, !.cleanup = FALSE, !.graceOver = FALSE]
    BY <2>k DEF Retained
  <2> HIDE DEF e, f
  <2>3. /\ f \in EntryType /\ f.state = e.state /\ f.decision = e.decision
        /\ f.lifetime = e.lifetime /\ f.corrupt = e.corrupt /\ f.timer = e.timer
        /\ ~f.cleanup /\ ~f.graceOver /\ f.consumed = e.consumed /\ f.fallback = e.fallback
    BY <1>0, <2>2 DEF EntryType
  <2>4. EntrySound(f)
    BY <1>0, <2>1, <2>3 DEF EntrySound
  <2>5. Handles(e, f)
    BY <2>1, <2>3, <2>4 DEF Handles
  <2> QED BY <2>1, <2>3, <2>5, HandlingUnspentOK DEF e
<1> QED BY <1>1, <1>2

\* The release of a handoff
LEMMA ReleaseOK ==
  ASSUME Core, NEW m \in Manager, NEW i \in Id, ReleaseHandoff(m, i)
  PROVE  StepOK
<1> DEFINE e == entry[m][i]
           c == e.retain = 1 /\ e.state = "settled" /\ ~e.lifetime
           f == [e EXCEPT !.retain = e.retain - 1, !.cleanup = c]
<1>0. EntrySound(e) /\ e \in EntryType
  BY DEF Core, EntriesSound, EntrySound
<1>1. /\ SetEntry(m, i, f) /\ Live(m) /\ e.retain > 0
      /\ UNCHANGED <<row, due, epoch, alive, grants>>
  BY DEF ReleaseHandoff
<1>2. PICK b \in BOOLEAN : b <=> c
  OBVIOUS
<1>r. e.retain - 1 \in 0 .. MaxRetain
  <2>1. e.retain \in 0 .. MaxRetain
    BY <1>0 DEF EntryType
  <2> QED BY <1>1, <2>1, RetainAssumption
<1>k. PICK k \in 0 .. MaxRetain : k = e.retain - 1
  BY <1>r
<1>3. f = [e EXCEPT !.retain = k, !.cleanup = b]
  BY <1>2, <1>k
<1>4. e.state # "none" /\ ~e.graceOver
  BY <1>0, <1>1 DEF EntrySound, NoEntry
<1>5. b => e.state = "settled"
  BY <1>2
<1> HIDE DEF e, f, c
<1>6. /\ f \in EntryType /\ f.state = e.state /\ f.decision = e.decision
      /\ f.lifetime = e.lifetime /\ f.corrupt = e.corrupt /\ f.timer = e.timer
      /\ (f.cleanup <=> b) /\ f.graceOver = e.graceOver
      /\ f.consumed = e.consumed /\ f.fallback = e.fallback
  BY <1>0, <1>3 DEF EntryType
<1>7. EntrySound(f)
  BY <1>0, <1>4, <1>5, <1>6 DEF EntrySound
<1>8. Handles(e, f)
  BY <1>4, <1>6, <1>7 DEF Handles
<1> QED BY <1>1, <1>6, <1>8, HandlingUnspentOK DEF e

\* The grace of a settled entry that nobody holds is over.
LEMMA GraceOK ==
  ASSUME Core, NEW m \in Manager, NEW i \in Id, GraceElapses(m, i)
  PROVE  StepOK
<1> DEFINE e == entry[m][i]
           f == [e EXCEPT !.graceOver = TRUE]
<1>0. EntrySound(e) /\ e \in EntryType
  BY DEF Core, EntriesSound, EntrySound
<1>1. /\ SetEntry(m, i, f) /\ e.state = "settled" /\ e.retain = 0
      /\ UNCHANGED <<row, due, epoch, alive, grants>>
  BY DEF GraceElapses, GraceRuns
<1>2. Live(m)
  BY <1>1 DEF Core, DeadManagersEmpty, NoEntry
<1>3. f = [e EXCEPT !.graceOver = TRUE]
  OBVIOUS
<1> HIDE DEF e, f
<1>4. /\ f \in EntryType /\ f.state = e.state /\ f.decision = e.decision
      /\ f.lifetime = e.lifetime /\ f.corrupt = e.corrupt /\ f.timer = e.timer
      /\ f.retain = e.retain /\ f.consumed = e.consumed /\ f.fallback = e.fallback
  BY <1>0, <1>3 DEF EntryType
<1>5. EntrySound(f)
  BY <1>0, <1>1, <1>4 DEF EntrySound
<1>6. Handles(e, f)
  BY <1>1, <1>4, <1>5 DEF Handles
<1> QED BY <1>1, <1>2, <1>4, <1>6, HandlingUnspentOK DEF e

\* consumeAskFallback
LEMMA FallbackOK ==
  ASSUME Core, NEW m \in Manager, NEW i \in Id, ConsumeAskFallback(m, i)
  PROVE  StepOK
<1> DEFINE e == entry[m][i]
           f == [e EXCEPT !.fallback = TRUE]
<1>0. EntrySound(e) /\ e \in EntryType
  BY DEF Core, EntriesSound, EntrySound
<1>1. /\ entry' = [entry EXCEPT ![m][i] = f] /\ Live(m)
      /\ e.state = "settled" /\ e.decision = "none" /\ ~e.consumed /\ ~e.fallback
      /\ grants' = [grants EXCEPT ![m][i] = @ + 1]
      /\ UNCHANGED <<row, due, epoch, alive>>
  BY DEF ConsumeAskFallback, SetEntry
<1>2. grants \in [Manager -> [Id -> Nat]] /\ grants[m][i] = 0
  BY <1>1 DEF Core, TypeOK, GrantsRecorded
<1>3. f = [e EXCEPT !.fallback = TRUE]
  OBVIOUS
<1> HIDE DEF e, f
<1>4. /\ f \in EntryType /\ f.state = e.state /\ f.decision = e.decision
      /\ f.lifetime = e.lifetime /\ f.corrupt = e.corrupt /\ f.timer = e.timer
      /\ f.retain = e.retain /\ f.graceOver = e.graceOver /\ f.fallback
  BY <1>0, <1>3 DEF EntryType
<1>5. EntrySound(f)
  BY <1>0, <1>1, <1>4 DEF EntrySound
<1>6. Handles(e, f)
  BY <1>1, <1>4, <1>5 DEF Handles
<1>7. /\ grants' \in [Manager -> [Id -> Nat]] /\ grants'[m][i] \in {0, 1}
      /\ \A n \in Manager, j \in Id : n # m \/ j # i => grants'[n][j] = grants[n][j]
  BY <1>1, <1>2
<1> QED BY <1>1, <1>4, <1>6, <1>7, HandlingOK DEF e

\* A deadline passes.
LEMMA DeadlineOK ==
  ASSUME Core, NEW m \in Manager, NEW i \in Id, DeadlinePasses(m, i)
  PROVE  StepOK
<1>1. /\ due' \in [Manager -> [Id -> BOOLEAN]] /\ UNCHANGED <<row, entry, epoch, alive, grants>>
  BY DEF DeadlinePasses, Core, TypeOK
<1>2. Core'
  BY <1>1 DEF Core, TypeOK, RowsSound, EntriesSound, DeadManagersEmpty, GrantsRecorded,
              PendingRowOwned, AllowIsDurable, AllowReachedWaiter, Live
<1>3. HandoffStep
  <2> SUFFICES ASSUME NEW n \in Manager, NEW j \in Id, entry[n][j].retain > 0
               PROVE  entry[n][j].state # "none"
    BY <1>1 DEF HandoffStep
  <2>1. EntrySound(entry[n][j])
    BY DEF Core, EntriesSound
  <2> QED BY <2>1 DEF EntrySound, NoEntry
<1>4. Contract!Next
  BY <1>1 DEF Contract!Next, Contract!Kept, Contract!Answered
<1> QED BY <1>2, <1>3, <1>4 DEF StepOK

\* consumeAllowOnce
LEMMA ConsumeOK ==
  ASSUME Core, NEW m \in Manager, NEW i \in Id, ConsumeAllowOnce(m, i)
  PROVE  StepOK
<1> DEFINE e == entry[m][i]
           f == [e EXCEPT !.consumed = TRUE]
           r == row[i]
           s == [r EXCEPT !.consumed = TRUE]
<1>0. /\ row \in [Id -> RowType] /\ entry \in [Manager -> [Id -> EntryType]]
      /\ grants \in [Manager -> [Id -> Nat]]
      /\ EntrySound(e) /\ e \in EntryType /\ RowSound(r) /\ r \in RowType
  BY DEF Core, TypeOK, EntriesSound, EntrySound, RowsSound, RowSound
<1>1. /\ row' = [row EXCEPT ![i] = s] /\ entry' = [entry EXCEPT ![m][i] = f] /\ Live(m)
      /\ e.state = "settled" /\ e.decision = "allow-once" /\ ~e.consumed /\ ~r.consumed
      /\ r.owner = m /\ r.status = "allowed" /\ r.decision = "allow-once"
      /\ grants' = [grants EXCEPT ![m][i] = @ + 1]
      /\ UNCHANGED <<due, epoch, alive>>
  BY DEF ConsumeAllowOnce, SetEntry, SetRow, Consumable, Owned, Unspent
<1>2. grants[m][i] = 0
  BY <1>0, <1>1 DEF Core, GrantsRecorded, EntrySound
<1>3. f = [e EXCEPT !.consumed = TRUE] /\ s = [r EXCEPT !.consumed = TRUE]
  OBVIOUS
<1> HIDE DEF e, f, r, s
<1>4. /\ f \in EntryType /\ f.state = e.state /\ f.decision = e.decision
      /\ f.lifetime = e.lifetime /\ f.corrupt = e.corrupt /\ f.timer = e.timer
      /\ f.retain = e.retain /\ f.graceOver = e.graceOver /\ f.fallback = e.fallback /\ f.consumed
  BY <1>0, <1>3 DEF EntryType
<1>5. /\ s \in RowType /\ s.status = r.status /\ s.decision = r.decision /\ s.owner = r.owner
      /\ s.consumed
  BY <1>0, <1>3 DEF RowType
<1>6. EntrySound(f) /\ RowSound(s)
  BY <1>0, <1>1, <1>4, <1>5 DEF EntrySound, RowSound, Decision
<1>7. /\ row' \in [Id -> RowType] /\ row'[i] = s
      /\ \A j \in Id : j # i => row'[j] = row[j]
      /\ entry' \in [Manager -> [Id -> EntryType]] /\ entry'[m][i] = f
      /\ \A n \in Manager, j \in Id : n # m \/ j # i => entry'[n][j] = entry[n][j]
      /\ grants' \in [Manager -> [Id -> Nat]] /\ grants'[m][i] = 1
      /\ \A n \in Manager, j \in Id : n # m \/ j # i => grants'[n][j] = grants[n][j]
  BY <1>0, <1>1, <1>2, <1>4, <1>5
<1>8. \A j \in Id : /\ row'[j].status = row[j].status /\ row'[j].decision = row[j].decision
                    /\ row'[j].owner = row[j].owner
  BY <1>5, <1>7 DEF r
<1>9. \A n \in Manager, j \in Id :
        /\ entry'[n][j].state = entry[n][j].state /\ entry'[n][j].decision = entry[n][j].decision
        /\ entry'[n][j].lifetime = entry[n][j].lifetime
  BY <1>4, <1>7 DEF e
<1>10. Core'
  <2>1. TypeOK'
    BY <1>1, <1>7 DEF Core, TypeOK
  <2>2. RowsSound'
    BY <1>6, <1>7 DEF Core, RowsSound
  <2>3. EntriesSound'
    BY <1>6, <1>7 DEF Core, EntriesSound
  <2>4. DeadManagersEmpty'
    BY <1>1, <1>7 DEF Core, DeadManagersEmpty, Live
  <2>5. GrantsRecorded'
    BY <1>4, <1>7 DEF Core, GrantsRecorded
  <2>6. PendingRowOwned'
    BY <1>1, <1>8, <1>9 DEF Core, PendingRowOwned, Live
  <2>7. AllowIsDurable'
    BY <1>8, <1>9 DEF Core, AllowIsDurable, Owned
  <2>8. AllowReachedWaiter'
    <3>1. \A j \in Id : row[j].status = "allowed" => row[j].owner \in Manager
      BY DEF Core, RowsSound, RowSound
    <3> QED BY <1>1, <1>8, <1>9, <3>1 DEF Core, AllowReachedWaiter, Live
  <2> QED BY <2>1, <2>2, <2>3, <2>4, <2>5, <2>6, <2>7, <2>8 DEF Core
<1>11. HandoffStep
  <2> SUFFICES ASSUME NEW n \in Manager, NEW j \in Id, entry[n][j].retain > 0
               PROVE  entry[n][j].state # "none"
    BY <1>9 DEF HandoffStep
  <2>1. EntrySound(entry[n][j])
    BY DEF Core, EntriesSound
  <2> QED BY <2>1 DEF EntrySound, NoEntry
<1>12. Contract!Next
  <2>1. ASSUME NEW j \in Id PROVE Contract!Spent(j) \/ Contract!Kept(j)
    <3>1. CASE j = i
      <4>1. /\ VerdictOf(row[i]) = "allow-once" /\ VerdictOf(row'[i]) = "allow-once"
            /\ ~row[i].consumed /\ row'[i].consumed /\ row'[i].owner = row[i].owner
            /\ row[i].owner = m /\ AnswerOf(entry[m][i]) = "allow-once"
        BY <1>1, <1>5, <1>7 DEF r, e, VerdictOf, AnswerOf
      <4> QED BY <3>1, <4>1 DEF Contract!Spent
    <3>2. CASE j # i
      BY <1>7, <3>2 DEF Contract!Kept
    <3> QED BY <3>1, <3>2
  <2>2. ASSUME NEW n \in Manager, NEW j \in Id PROVE Contract!Answered(n, j)
    <3>1. AnswerOf(entry'[n][j]) = AnswerOf(entry[n][j])
      BY <1>9 DEF AnswerOf
    <3> QED BY <3>1 DEF Contract!Answered
  <2> QED BY <2>1, <2>2 DEF Contract!Next
<1> QED BY <1>10, <1>11, <1>12 DEF StepOK

\* Pruning leaves a row alone or forgets its verdict.
LEMMA PrunedRow ==
  ASSUME NEW r, RowSound(r)
  PROVE  Pruned(r) = r \/ (Terminal(r) /\ Pruned(r) = AbsentRow)
  BY DEF Pruned

\* register of an id that is taken
LEMMA ConflictSettles ==
  ASSUME Core, NEW m \in Manager, NEW i \in Id, NEW repaired \in BOOLEAN, Live(m),
         InsertOperatorApproval(i, m, repaired).outcome # "inserted",
         row' = InsertOperatorApproval(i, m, repaired).rows,
         UNCHANGED <<entry, due, epoch, alive, grants>>
  PROVE  Settling
<1> DEFINE pruned == [j \in Id |-> Pruned(row[j])]
           taken == Pruned(row[i])
           x == IF taken.sound THEN taken ELSE DenyCorruptPendingRow(taken, repaired)
<1>0. entry \in [Manager -> [Id -> EntryType]] /\ RowSound(row[i])
  BY DEF Core, TypeOK, RowsSound
<1>1. taken.status # "absent" /\ row' = [pruned EXCEPT ![i] = x]
  BY DEF InsertOperatorApproval
<1>2. taken = row[i]
  <2>1. AbsentRow.status = "absent"
    BY DEF AbsentRow
  <2> QED BY <1>0, <1>1, <2>1, PrunedRow
<1>3. Evolves(row[i], x) /\ (row[i].status = "pending" => x.status # "allowed")
  <2>1. CASE row[i].sound
    BY <1>0, <1>2, <2>1, SameEvolves
  <2>2. CASE ~row[i].sound
    BY <1>0, <1>2, <2>2, DenyCorruptEvolves
  <2> QED BY <2>1, <2>2
<1> HIDE DEF x
<1>4. row'[i] = x /\ \A j \in Id : j # i => row'[j] = Pruned(row[j])
  BY <1>1
<1>5. ASSUME NEW j \in Id
      PROVE  /\ row'[j] \in RowType
             /\ (Evolves(row[j], row'[j]) /\ AllowHeard(j)) \/ Forgets(j)
  <2>0. RowSound(row[j])
    BY DEF Core, RowsSound
  <2>1. CASE j = i
    BY <1>3, <1>4, <2>1 DEF AllowHeard, Evolves, RowSound
  <2>2. CASE j # i /\ row'[j] = row[j]
    BY <2>0, <2>2, SameEvolves DEF AllowHeard, RowSound
  <2>3. CASE j # i /\ row'[j] # row[j]
    <3>1. Terminal(row[j]) /\ row'[j] = AbsentRow
      BY <1>4, <2>0, <2>3, PrunedRow
    <3> QED BY <3>1, EmptySound DEF Forgets, RowSound
  <2> QED BY <2>1, <2>2, <2>3
<1>6. row' \in [Id -> RowType]
  <2>1. row' = [j \in Id |-> row'[j]]
    BY <1>1
  <2> QED BY <1>5, <2>1
<1>7. \A n \in Manager, j \in Id : Answers(entry[n][j], entry'[n][j], n, row'[j])
  BY SameAnswers DEF Core, EntriesSound
<1> QED BY <1>0, <1>5, <1>6, <1>7 DEF Settling

\* register of a new id
LEMMA RaiseOK ==
  ASSUME Core, NEW m \in Manager, NEW i \in Id, NEW repaired \in BOOLEAN, Live(m),
         entry[m][i].state = "none",
         InsertOperatorApproval(i, m, repaired).outcome = "inserted",
         row' = InsertOperatorApproval(i, m, repaired).rows,
         SetEntry(m, i, [NoEntry EXCEPT !.state = "waiting", !.timer = TRUE]),
         due' = [due EXCEPT ![m][i] = FALSE],
         grants' = [grants EXCEPT ![m][i] = 0],
         UNCHANGED <<epoch, alive>>
  PROVE  StepOK
<1> DEFINE pruned == [j \in Id |-> Pruned(row[j])]
           x == [AbsentRow EXCEPT !.status = "pending", !.owner = m]
           f == [NoEntry EXCEPT !.state = "waiting", !.timer = TRUE]
<1>0. /\ row \in [Id -> RowType] /\ entry \in [Manager -> [Id -> EntryType]]
      /\ grants \in [Manager -> [Id -> Nat]] /\ RowSound(row[i])
      /\ NoEntry \in EntryType /\ AbsentRow \in RowType
  BY EmptySound DEF Core, TypeOK, RowsSound, EntrySound, RowSound
<1>1. Pruned(row[i]).status = "absent" /\ row' = [pruned EXCEPT ![i] = x]
  BY DEF InsertOperatorApproval
<1>2. row[i].status = "absent" \/ Terminal(row[i])
  BY <1>0, <1>1, PrunedRow
<1>3. /\ x \in RowType /\ x.status = "pending" /\ x.owner = m /\ ~x.consumed /\ ~x.old
      /\ RowSound(x)
  <2>1. x = [AbsentRow EXCEPT !.status = "pending", !.owner = m]
    OBVIOUS
  <2> HIDE DEF x
  <2>2. /\ x \in RowType /\ x.status = "pending" /\ x.owner = m
        /\ x.consumed = AbsentRow.consumed /\ x.old = AbsentRow.old
    BY <1>0, <2>1 DEF RowType, Status
  <2>3. ~AbsentRow.consumed /\ ~AbsentRow.old
    BY DEF AbsentRow
  <2> QED BY <2>2, <2>3 DEF RowSound, Terminal
<1>4. /\ f \in EntryType /\ EntrySound(f) /\ f.state = "waiting" /\ f.decision = "none"
  <2>1. f = [NoEntry EXCEPT !.state = "waiting", !.timer = TRUE]
    OBVIOUS
  <2> HIDE DEF f
  <2>2. /\ f \in EntryType /\ f.state = "waiting" /\ f.timer
        /\ f.decision = NoEntry.decision /\ f.corrupt = NoEntry.corrupt
        /\ f.lifetime = NoEntry.lifetime /\ f.cleanup = NoEntry.cleanup
        /\ f.graceOver = NoEntry.graceOver /\ f.consumed = NoEntry.consumed
        /\ f.fallback = NoEntry.fallback
    BY <1>0, <2>1 DEF EntryType
  <2>3. /\ NoEntry.decision = "none" /\ ~NoEntry.corrupt /\ ~NoEntry.lifetime /\ ~NoEntry.cleanup
        /\ ~NoEntry.graceOver /\ ~NoEntry.consumed /\ ~NoEntry.fallback
    BY DEF NoEntry
  <2> QED BY <2>2, <2>3 DEF EntrySound
<1>5. entry' = [entry EXCEPT ![m][i] = f]
  BY DEF SetEntry
<1> HIDE DEF x, f
<1>6. row'[i] = x /\ \A j \in Id : j # i => row'[j] = Pruned(row[j])
  BY <1>1
<1>7. \A j \in Id : j # i => row'[j] = row[j] \/ Forgets(j)
  <2> SUFFICES ASSUME NEW j \in Id, j # i PROVE row'[j] = row[j] \/ Forgets(j)
    OBVIOUS
  <2>1. RowSound(row[j])
    BY DEF Core, RowsSound
  <2> QED BY <1>6, <2>1, PrunedRow DEF Forgets
<1>8. \A j \in Id : RowSound(row'[j])
  BY <1>3, <1>6, <1>7, EmptySound DEF Forgets, Core, RowsSound
<1>9. row' \in [Id -> RowType]
  <2>1. row' = [j \in Id |-> row'[j]]
    BY <1>1
  <2> QED BY <1>8, <2>1 DEF RowSound
<1>10. /\ entry' \in [Manager -> [Id -> EntryType]] /\ entry'[m][i] = f
       /\ \A n \in Manager, j \in Id : n # m \/ j # i => entry'[n][j] = entry[n][j]
       /\ grants' \in [Manager -> [Id -> Nat]] /\ grants'[m][i] = 0
       /\ \A n \in Manager, j \in Id : n # m \/ j # i => grants'[n][j] = grants[n][j]
  BY <1>0, <1>4, <1>5
<1>11. \A j \in Id : j # i /\ row'[j].status # "absent" => row'[j] = row[j]
  BY <1>7 DEF Forgets, AbsentRow
<1>12. Core'
  <2>1. TypeOK'
    BY <1>9, <1>10 DEF Core, TypeOK
  <2>2. RowsSound'
    BY <1>8 DEF RowsSound
  <2>3. EntriesSound'
    BY <1>4, <1>10 DEF Core, EntriesSound
  <2>4. DeadManagersEmpty'
    BY <1>10 DEF Core, DeadManagersEmpty, Live
  <2>5. GrantsRecorded'
    BY <1>10 DEF Core, GrantsRecorded
  <2>6. PendingRowOwned'
    <3> SUFFICES ASSUME NEW j \in Id, row'[j].status = "pending"
                 PROVE  /\ row'[j].owner \in Manager
                        /\ row'[j].owner[1] \in alive
                        /\ \/ entry'[row'[j].owner][j].state = "waiting"
                           \/ entry'[row'[j].owner][j].lifetime
      BY DEF PendingRowOwned, Live
    <3>1. CASE j = i
      BY <1>3, <1>4, <1>6, <1>10, <3>1 DEF Live
    <3>2. CASE j # i
      <4>1. row'[j] = row[j]
        BY <1>11, <3>2
      <4>2. /\ row[j].owner \in Manager /\ row[j].owner[1] \in alive
            /\ entry[row[j].owner][j].state = "waiting" \/ entry[row[j].owner][j].lifetime
        BY <4>1 DEF Core, PendingRowOwned, Live
      <4> QED BY <1>10, <3>2, <4>1, <4>2
    <3> QED BY <3>1, <3>2
  <2>7. AllowIsDurable'
    <3> SUFFICES ASSUME NEW n \in Manager, NEW j \in Id,
                        entry'[n][j].decision \in {"allow-once", "allow-always"},
                        row'[j].status # "absent", row'[j].owner = n
                 PROVE  row'[j].status = "allowed" /\ row'[j].decision = entry'[n][j].decision
      BY DEF AllowIsDurable, Owned
    <3>1. ~(n = m /\ j = i)
      BY <1>4, <1>10
    <3>2. j # i
      BY <1>3, <1>6, <3>1
    <3>3. row'[j] = row[j] /\ entry'[n][j] = entry[n][j]
      BY <1>10, <1>11, <3>2
    <3> QED BY <3>3 DEF Core, AllowIsDurable, Owned
  <2>8. AllowReachedWaiter'
    <3> SUFFICES ASSUME NEW j \in Id, row'[j].status = "allowed", row'[j].owner[1] \in alive
                 PROVE  LET d == entry'[row'[j].owner][j] IN
                        d.state = "none" \/ (d.state = "settled" /\ d.decision = row'[j].decision)
      BY DEF AllowReachedWaiter, Live
    <3>1. j # i /\ row'[j] = row[j]
      BY <1>3, <1>6, <1>11
    <3>2. row[j].owner \in Manager
      BY <3>1 DEF Core, RowsSound, RowSound
    <3>3. entry'[row[j].owner][j] = entry[row[j].owner][j]
      BY <1>10, <3>1, <3>2
    <3> QED BY <3>1, <3>3 DEF Core, AllowReachedWaiter, Live
  <2> QED BY <2>1, <2>2, <2>3, <2>4, <2>5, <2>6, <2>7, <2>8 DEF Core
<1>13. HandoffStep
  <2> SUFFICES ASSUME NEW n \in Manager, NEW j \in Id, entry[n][j].retain > 0
               PROVE  entry'[n][j].state # "none"
    BY DEF HandoffStep
  <2>1. EntrySound(entry[n][j])
    BY DEF Core, EntriesSound
  <2>2. entry[n][j].state # "none"
    BY <2>1 DEF EntrySound, NoEntry
  <2> QED BY <1>10, <2>2
<1>14. Contract!Next
  <2>0. Contract!Raised(i)
    <3>1. /\ VerdictOf(row[i]) \in {"none"} \cup Decision /\ VerdictOf(row'[i]) = "open"
          /\ ~row'[i].consumed /\ row'[i].owner = m
          /\ AnswerOf(entry[m][i]) = "none" /\ AnswerOf(entry'[m][i]) = "waiting"
      BY <1>0, <1>2, <1>3, <1>4, <1>6, <1>10 DEF VerdictOf, AnswerOf, RowSound, Terminal
    <3> QED BY <3>1 DEF Contract!Raised, Contract!Decided, Contract!Allow, Decision
  <2>1. ASSUME NEW j \in Id PROVE Contract!Raised(j) \/ Contract!Forgotten(j) \/ Contract!Kept(j)
    <3>1. CASE j # i /\ row'[j] = row[j]
      BY <3>1 DEF Contract!Kept
    <3>2. CASE j # i /\ row'[j] # row[j]
      <4>0. RowSound(row[j])
        BY DEF Core, RowsSound
      <4>1. VerdictOf(row[j]) \in Decision /\ VerdictOf(row'[j]) = "none" /\ ~row'[j].consumed
        BY <1>7, <3>2, <4>0 DEF Forgets, RowSound, VerdictOf, AbsentRow, Terminal
      <4> QED BY <4>1 DEF Contract!Forgotten, Contract!Decided, Contract!Allow, Decision
    <3> QED BY <2>0, <3>1, <3>2
  <2>2. ASSUME NEW n \in Manager, NEW j \in Id PROVE Contract!Answered(n, j)
    <3>1. CASE n = m /\ j = i
      <4>1. row'[i].owner = m
            /\ AnswerOf(entry[m][i]) = "none" /\ AnswerOf(entry'[m][i]) = "waiting"
        BY <1>3, <1>4, <1>6, <1>10 DEF AnswerOf
      <4> QED BY <2>0, <3>1, <4>1 DEF Contract!Answered
    <3>2. CASE ~(n = m /\ j = i)
      BY <1>10, <3>2 DEF Contract!Answered
    <3> QED BY <3>1, <3>2
  <2> QED BY <2>1, <2>2 DEF Contract!Next
<1> QED BY <1>12, <1>13, <1>14 DEF StepOK

\* register
LEMMA RegisterOK ==
  ASSUME Core, NEW m \in Manager, NEW i \in Id, Register(m, i)
  PROVE  StepOK
<1>1. PICK repaired \in BOOLEAN :
        LET answer == InsertOperatorApproval(i, m, repaired) IN
        /\ row' = answer.rows
        /\ IF answer.outcome = "inserted"
           THEN /\ SetEntry(m, i, [NoEntry EXCEPT !.state = "waiting", !.timer = TRUE])
                /\ due' = [due EXCEPT ![m][i] = FALSE]
                /\ grants' = [grants EXCEPT ![m][i] = 0]
           ELSE UNCHANGED <<entry, due, grants>>
  BY DEF Register
<1>2. Live(m) /\ entry[m][i].state = "none" /\ UNCHANGED <<epoch, alive>>
  BY DEF Register
<1>3. CASE InsertOperatorApproval(i, m, repaired).outcome = "inserted"
  BY <1>1, <1>2, <1>3, RaiseOK
<1>4. CASE InsertOperatorApproval(i, m, repaired).outcome # "inserted"
  BY <1>1, <1>2, <1>4, ConflictSettles, SettlingOK
<1> QED BY <1>3, <1>4

\* The next gateway starts: it closes what is pending, and a crash ends the managers before.
LEMMA StartOK ==
  ASSUME Core, NEW crash \in BOOLEAN, StartGateway(crash)
  PROVE  StepOK
<1>0. /\ entry \in [Manager -> [Id -> EntryType]] /\ NoEntry \in EntryType
      /\ NoEntry.state = "none" /\ NoEntry.decision = "none"
  BY EmptySound DEF Core, TypeOK, EntrySound, NoEntry
<1>7. PICK repaired \in SUBSET Id :
        row' = [i \in Id |-> Pruned(OrphanClosed(row[i], i \in repaired))]
  BY DEF StartGateway
<1>1. /\ epoch' = epoch + 1 /\ epoch < MaxEpoch /\ epoch \in Epoch /\ alive \subseteq Epoch
      /\ epoch' \in alive' /\ alive' \subseteq alive \cup {epoch'}
      /\ entry' = [m \in Manager |-> IF m[1] \in alive' THEN entry[m] ELSE [i \in Id |-> NoEntry]]
      /\ UNCHANGED <<due, grants>>
  BY DEF StartGateway, Core, TypeOK
<1>2. ASSUME NEW i \in Id
      PROVE  /\ row'[i].status # "pending" /\ RowSound(row'[i])
             /\ \/ row'[i] = row[i]
                \/ Forgets(i)
                \/ /\ row[i].status = "pending" /\ Terminal(row'[i]) /\ row'[i].status = "cancelled"
                   /\ row'[i].owner = row[i].owner /\ row'[i].consumed = row[i].consumed
  <2>0. RowSound(row[i]) /\ row'[i] = Pruned(OrphanClosed(row[i], i \in repaired))
    BY <1>7 DEF Core, RowsSound
  <2>1. CASE row[i].status = "pending"
    <3>4. PICK b \in BOOLEAN : b <=> (i \in repaired)
      OBVIOUS
    <3>1. OrphanClosed(row[i], i \in repaired) = Overwritten(row[i], "cancelled", b)
      BY <2>1, <3>4 DEF OrphanClosed, Overwritten
    <3> DEFINE c == Overwritten(row[i], "cancelled", b)
    <3>2. Evolves(row[i], c) /\ Terminal(c) /\ c.status = "cancelled" /\ ~c.old
      BY <2>0, <2>1, OverwrittenEvolves
    <3> HIDE DEF c
    <3>3. row'[i] = c
      BY <2>0, <3>1, <3>2 DEF Pruned, c
    <3> QED BY <2>1, <3>2, <3>3 DEF Evolves
  <2>2. CASE row[i].status # "pending"
    <3>1. row'[i] = Pruned(row[i])
      BY <2>0, <2>2 DEF OrphanClosed
    <3>2. row'[i] = row[i] \/ (Terminal(row[i]) /\ row'[i] = AbsentRow)
      BY <2>0, <3>1, PrunedRow
    <3>3. RowSound(AbsentRow) /\ AbsentRow.status # "pending"
      BY EmptySound DEF AbsentRow
    <3> QED BY <2>0, <2>2, <3>2, <3>3 DEF Forgets
  <2> QED BY <2>1, <2>2
<1>3. \A m \in Manager, i \in Id :
        entry'[m][i] = IF m[1] \in alive' THEN entry[m][i] ELSE NoEntry
  BY <1>1
<1>4. Core'
  <2>1. TypeOK'
    <3>1. row' \in [Id -> RowType]
      <4>1. \A i \in Id : row'[i] \in RowType
        BY <1>2 DEF RowSound
      <4> QED BY <1>7, <4>1
    <3>2. entry' \in [Manager -> [Id -> EntryType]]
      BY <1>0, <1>1
    <3>3. epoch' \in Epoch /\ alive' \subseteq Epoch
      <4>1. epoch' \in Epoch
        BY <1>1, EpochAssumption DEF Epoch
      <4> QED BY <1>1, <4>1
    <3> QED BY <1>1, <3>1, <3>2, <3>3 DEF Core, TypeOK
  <2>2. RowsSound'
    BY <1>2 DEF RowsSound
  <2>3. EntriesSound'
    BY <1>3, EmptySound DEF Core, EntriesSound
  <2>4. DeadManagersEmpty'
    BY <1>3 DEF DeadManagersEmpty, Live
  <2>5. GrantsRecorded'
    BY <1>0, <1>1, <1>3 DEF Core, GrantsRecorded
  <2>6. PendingRowOwned'
    BY <1>2 DEF PendingRowOwned
  <2>7. AllowIsDurable'
    <3> SUFFICES ASSUME NEW n \in Manager, NEW j \in Id,
                        entry'[n][j].decision \in {"allow-once", "allow-always"},
                        row'[j].status # "absent", row'[j].owner = n
                 PROVE  row'[j].status = "allowed" /\ row'[j].decision = entry'[n][j].decision
      BY DEF AllowIsDurable, Owned
    <3>1. entry'[n][j] = entry[n][j]
      BY <1>0, <1>3
    <3>2. ~Forgets(j)
      BY DEF Forgets, AbsentRow
    <3>3. row'[j].owner = row[j].owner /\ (row'[j] = row[j] \/ row[j].status = "pending")
      BY <1>2, <3>2
    <3>4. row[j].status # "absent"
      BY <3>3
    <3>5. row[j].status = "allowed" /\ row[j].decision = entry[n][j].decision
      BY <3>1, <3>3, <3>4 DEF Core, AllowIsDurable, Owned
    <3> QED BY <3>1, <3>3, <3>5
  <2>8. AllowReachedWaiter'
    <3> SUFFICES ASSUME NEW j \in Id, row'[j].status = "allowed", row'[j].owner[1] \in alive'
                 PROVE  LET d == entry'[row'[j].owner][j] IN
                        d.state = "none" \/ (d.state = "settled" /\ d.decision = row'[j].decision)
      BY DEF AllowReachedWaiter, Live
    <3>1. row'[j] = row[j]
      BY <1>2 DEF Forgets, AbsentRow
    <3> DEFINE n == row[j].owner
    <3>2. n \in Manager
      BY <3>1 DEF Core, RowsSound, RowSound
    <3>3. entry'[n][j] = entry[n][j]
      BY <1>3, <3>1, <3>2
    <3>4. CASE Live(n)
      BY <3>1, <3>3, <3>4 DEF Core, AllowReachedWaiter
    <3>5. CASE ~Live(n)
      BY <1>0, <3>1, <3>2, <3>3, <3>5 DEF Core, DeadManagersEmpty
    <3> QED BY <3>4, <3>5
  <2> QED BY <2>1, <2>2, <2>3, <2>4, <2>5, <2>6, <2>7, <2>8 DEF Core
<1>5. HandoffStep
  <2> SUFFICES ASSUME NEW n \in Manager, NEW j \in Id, entry[n][j].retain > 0, n[1] \in alive'
               PROVE  entry'[n][j].state # "none"
    BY DEF HandoffStep
  <2>1. EntrySound(entry[n][j])
    BY DEF Core, EntriesSound
  <2>2. entry[n][j].state # "none"
    BY <2>1 DEF EntrySound, NoEntry
  <2> QED BY <1>3, <2>2
<1>6. Contract!Next
  <2>1. ASSUME NEW j \in Id
        PROVE  Contract!DecidedOn(j) \/ Contract!Forgotten(j) \/ Contract!Kept(j)
    <3>0. RowSound(row[j]) /\ RowSound(row'[j])
      BY <1>2 DEF Core, RowsSound
    <3>1. CASE row'[j] = row[j]
      BY <3>1 DEF Contract!Kept
    <3>2. CASE Forgets(j)
      <4>1. VerdictOf(row[j]) \in Decision /\ VerdictOf(row'[j]) = "none" /\ ~row'[j].consumed
        BY <3>0, <3>2 DEF Forgets, RowSound, VerdictOf, AbsentRow, Terminal
      <4> QED BY <4>1 DEF Contract!Forgotten, Contract!Decided, Contract!Allow, Decision
    <3>3. CASE row'[j] # row[j] /\ ~Forgets(j)
      <4>1. /\ VerdictOf(row[j]) = "open" /\ VerdictOf(row'[j]) \in Decision
            /\ row'[j].owner = row[j].owner /\ row'[j].consumed = row[j].consumed
        BY <1>2, <3>0, <3>3 DEF VerdictOf, RowSound, Terminal
      <4> QED
        BY <4>1 DEF Contract!DecidedOn, Contract!Decided, Contract!Allow, Decision
    <3> QED BY <3>1, <3>2, <3>3
  <2>2. ASSUME NEW n \in Manager, NEW j \in Id PROVE Contract!Answered(n, j)
    <3>1. \/ AnswerOf(entry'[n][j]) = AnswerOf(entry[n][j])
          \/ AnswerOf(entry'[n][j]) = "none" /\ AnswerOf(entry[n][j]) # "none"
      BY <1>0, <1>3 DEF AnswerOf
    <3> QED BY <3>1 DEF Contract!Answered
  <2> QED BY <2>1, <2>2 DEF Contract!Next
<1> QED BY <1>4, <1>5, <1>6 DEF StepOK

\* getSnapshot drops an entry past its grace, or expires a waiter that is due.
LEMMA SnapshotOK ==
  ASSUME Core, NEW m \in Manager, NEW i \in Id, GetSnapshot(m, i)
  PROVE  StepOK
<1>0. Live(m) /\ UNCHANGED <<due, epoch, alive, grants>>
  BY DEF GetSnapshot
<1>1. CASE Forgettable(entry[m][i]) /\ SetEntry(m, i, NoEntry) /\ UNCHANGED row
  BY <1>0, <1>1, DroppingOK
<1>2. CASE entry[m][i].state = "waiting" /\ ForceDenyDetailed(m, i, "expired", "row", TRUE)
  <2>1. "expired" \in {"denied", "expired", "cancelled"}
    OBVIOUS
  <2> QED BY <1>0, <1>2, <2>1, DenyDueSettles, SettlingOK
<1> QED BY <1>1, <1>2, Zenon DEF GetSnapshot

\* Every step keeps the invariant and the handoffs and is a step of the contract.
LEMMA NextOK ==
  ASSUME Core, Next
  PROVE  StepOK
<1>1. ASSUME NEW m \in Manager, NEW i \in Id, Register(m, i) PROVE StepOK
  BY <1>1, RegisterOK
<1>2. ASSUME NEW m \in Manager, NEW i \in Id, NEW d \in Decision, ResolveDetailed(m, i, d)
      PROVE  StepOK
  BY <1>2, ResolveSettles, SettlingOK
<1>3. ASSUME NEW m \in Manager, NEW i \in Id, ForceDeny(m, i) PROVE StepOK
  BY <1>3, ForceDenySettles, SettlingOK
<1>4. ASSUME NEW m \in Manager, NEW i \in Id, ExpiryTimerFires(m, i) PROVE StepOK
  BY <1>4, TimerSettles, SettlingOK
<1>5. ASSUME NEW m \in Manager, NEW i \in Id, GetSnapshot(m, i) PROVE StepOK
  BY <1>5, SnapshotOK
<1>6. ASSUME NEW m \in Manager, NEW i \in Id, CleanupTimerFires(m, i) PROVE StepOK
  BY <1>6, DroppingOK DEF CleanupTimerFires
<1>7. ASSUME NEW m \in Manager, NEW i \in Id, RetainForHandoff(m, i) PROVE StepOK
  BY <1>7, RetainOK
<1>8. ASSUME NEW m \in Manager, NEW i \in Id, ReleaseHandoff(m, i) PROVE StepOK
  BY <1>8, ReleaseOK
<1>9. ASSUME NEW m \in Manager, NEW i \in Id, ConsumeAllowOnce(m, i) PROVE StepOK
  BY <1>9, ConsumeOK
<1>10. ASSUME NEW m \in Manager, NEW i \in Id, ConsumeAskFallback(m, i) PROVE StepOK
  BY <1>10, FallbackOK
<1>11. ASSUME NEW m \in Manager, NEW i \in Id, DeadlinePasses(m, i) PROVE StepOK
  BY <1>11, DeadlineOK
<1>12. ASSUME NEW m \in Manager, NEW i \in Id, GraceElapses(m, i) PROVE StepOK
  BY <1>12, GraceOK
<1>13. ASSUME NEW g \in Epoch, Replay(g) PROVE StepOK
  BY <1>13, ReplaySettles, SettlingOK
<1>14. ASSUME NEW g \in Epoch, NEW i \in Id, LookupApproval(g, i) PROVE StepOK
  BY <1>14, LookupSettles, SettlingOK
<1>15. ASSUME NEW i \in Id, RetentionElapses(i) \/ RowBreaks(i) PROVE StepOK
  BY <1>15, RowAgesSettles, SettlingOK
<1>16. ASSUME NEW crash \in BOOLEAN, StartGateway(crash) PROVE StepOK
  BY <1>16, StartOK
<1> QED
  BY <1>1, <1>2, <1>3, <1>4, <1>5, <1>6, <1>7, <1>8, <1>9, <1>10, <1>11, <1>12, <1>13, <1>14,
     <1>15, <1>16 DEF Next

\* A step that changes nothing of the store and the managers keeps the invariant.
LEMMA StutterOK ==
  ASSUME Core, UNCHANGED vars
  PROVE  Core'
  BY DEF vars, Core, TypeOK, RowsSound, EntriesSound, DeadManagersEmpty, GrantsRecorded,
         PendingRowOwned, AllowIsDurable, AllowReachedWaiter, Live

\* The invariant holds at the start.
LEMMA InitCore ==
  ASSUME Init
  PROVE  Core
<1>1. /\ \A i \in Id : row[i] = AbsentRow
      /\ \A m \in Manager, i \in Id : entry[m][i] = NoEntry /\ grants[m][i] = 0
  BY DEF Init
<1>2. AbsentRow \in RowType /\ NoEntry \in EntryType /\ AbsentRow.status = "absent"
      /\ NoEntry.state = "none" /\ NoEntry.decision = "none"
  BY EmptySound DEF RowSound, EntrySound, AbsentRow, NoEntry
<1>3. 1 \in Epoch
  BY EpochAssumption DEF Epoch
<1>4. TypeOK
  BY <1>2, <1>3 DEF Init, TypeOK
<1>5. RowsSound /\ EntriesSound
  BY <1>1, EmptySound DEF RowsSound, EntriesSound
<1>6. DeadManagersEmpty /\ GrantsRecorded
  BY <1>1, <1>2 DEF DeadManagersEmpty, GrantsRecorded
<1>7. PendingRowOwned /\ AllowIsDurable /\ AllowReachedWaiter
  BY <1>1, <1>2 DEF PendingRowOwned, AllowIsDurable, AllowReachedWaiter
<1> QED BY <1>4, <1>5, <1>6, <1>7 DEF Core

-----------------------------------------------------------------------------
(* The theorems *)

\* The inductive invariant of managers and store.
THEOREM ApprovalsCore == Spec => []Core
<1>1. Init => Core
  BY InitCore
<1>2. Core /\ [Next]_vars => Core'
  BY NextOK, StutterOK DEF StepOK
<1> QED BY <1>1, <1>2, PTL DEF Spec

\* Every variable keeps its type, and the managers of the present gateway exist.
THEOREM ApprovalTypes == Spec => []TypeOK
<1>1. Core => TypeOK
  BY DEF Core
<1> QED BY <1>1, ApprovalsCore, PTL

\* No request hangs: a prompt that reviewers see as pending has a living entry behind it, and
\* a waiting entry has its expiry timer, through restarts, storage errors and early timers.
THEOREM NoRequestHangs == Spec => []WaitersGuarded
<1>1. Core => WaitersGuarded
  BY DEF Core, WaitersGuarded, WaiterHasTimer, EntriesSound, EntrySound
<1> QED BY <1>1, ApprovalsCore, PTL

\* A waiter is given an allow exactly if the row says so, and a request gives out at most one
\* permission.
THEOREM PermissionIsSound == Spec => []AllowSound
<1>1. Core => GrantedOnce
  BY DEF Core, GrantsRecorded, GrantedOnce
<1>2. Core => AllowSound
  BY <1>1 DEF Core, AllowSound
<1> QED BY <1>2, ApprovalsCore, PTL

\* The entry a handoff retains stays while its manager exists.
THEOREM HandoffsKeepBindings == Spec => HandoffKeepsBinding
<1>1. Core /\ [Next]_vars =>
        [\A m \in Manager, i \in Id :
           entry[m][i].retain > 0 /\ m[1] \in alive' => entry'[m][i].state # "none"]_vars
  BY NextOK DEF StepOK, HandoffStep
<1> QED BY <1>1, ApprovalsCore, PTL DEF Spec, HandoffKeepsBinding

\* The managers and the store together implement the contract of an approval: one verdict,
\* one answer, an allow only if it is the verdict, spent once by the one who was answered.
THEOREM ApprovalsImplementContract == Spec => ImplementsContract
<1>1. Init => Contract!Init
  <2> SUFFICES ASSUME Init PROVE Contract!Init
    OBVIOUS
  <2>1. \A i \in Id : VerdictOf(row[i]) = "none" /\ ~row[i].consumed
    BY DEF Init, VerdictOf, AbsentRow
  <2>2. \A m \in Manager, i \in Id : AnswerOf(entry[m][i]) = "none"
    BY DEF Init, AnswerOf, NoEntry
  <2> QED BY <2>1, <2>2 DEF Contract!Init
<1>2. Core /\ [Next]_vars => [Contract!Next]_Contract!vars
  <2>1. Core /\ Next => Contract!Next
    BY NextOK DEF StepOK
  <2>2. UNCHANGED vars => UNCHANGED Contract!vars
    BY DEF vars, Contract!vars
  <2> QED BY <2>1, <2>2
<1> QED BY <1>1, <1>2, ApprovalsCore, PTL DEF Spec, ImplementsContract, Contract!Spec
=============================================================================
