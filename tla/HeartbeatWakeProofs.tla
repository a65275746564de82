------------------------- MODULE HeartbeatWakeProofs -------------------------
(***************************************************************************)
(* Proofs about HeartbeatWake, for any targets, requests and number of     *)
(* handler generations.                                                    *)
(*                                                                         *)
(* The wakes that wait, and the wakes of each batch, form tidy heaps: one  *)
(* wake per target and class, no request in two of them, and a scheduled   *)
(* wake carries nothing but scheduled ticks.  Queueing and taking a batch  *)
(* turn tidy heaps into tidy heaps with the same requests; everything else *)
(* follows from that and from which heap a step moves its wakes to.        *)
(***************************************************************************)
EXTENDS HeartbeatWake, TLAPS

\* An event of source "retry" may be merged into a scheduled wake and dropped with it.
Proper == EventPriority \subseteq {2}

Carries(W, r) == \E w \in W : r \in w.requests

\* A manual wake has no guard, and only a guard makes a wake wait.
GuardShape(w) ==
  /\ w.intent = "manual" => w.guardBy = 0
  /\ w.waiting => w.guardBy # 0

\* The priority is that of the intent, and a guard that drops a scheduled wake drops ticks.
Shaped(w, intents) ==
  /\ w.intent \in {"scheduled", "task"} => w.priority = 1
  /\ w.intent = "event" => w.priority = 2
  /\ w.intent \in {"manual", "immediate"} => w.priority = 3
  /\ w.intent = "scheduled" => \A r \in w.requests : intents[r] = "scheduled"
  /\ GuardShape(w)

Tidy(W, intents) ==
  /\ W \subseteq Wake
  /\ \A v, w \in W : SameSlot(v, w) => v = w
  /\ \A v, w \in W : \A r \in Request : r \in v.requests /\ r \in w.requests => v = w
  /\ \A w \in W : Shaped(w, intents)

-----------------------------------------------------------------------------
(* Merging *)

\* What the merge m of p and n takes from the preferred one, q.
Outcome(m, p, n, q) ==
  /\ m \in Wake
  /\ m.target = p.target
  /\ m.requests = p.requests \cup n.requests
  /\ m.intent = q.intent
  /\ m.priority = q.priority
  /\ m.waiting => p.waiting \/ n.waiting
  /\ GuardShape(p) /\ GuardShape(n) => GuardShape(m)

\* A merge keeps the intent of the preferred wake and carries the requests of both.
LEMMA MergeFields ==
  ASSUME NEW p \in Wake, NEW n \in Wake, NEW newer \in BOOLEAN, p.target = n.target
  PROVE  Outcome(MergePendingWakeReasons(p, n, newer), p, n, Preferred(p, n, newer))
<1> DEFINE q == Preferred(p, n, newer)
<1>1. q \in {p, n}
  BY DEF Preferred
<1>2. GuardOfEither(p, n) \in Generation
  BY DEF GuardOfEither, Wake
<1> DEFINE b == BypassGuardRetry(q, GuardOfEither(p, n))
           gb == IF b THEN 0 ELSE GuardOfEither(p, n)
           wt == IF b THEN q.waiting ELSE p.waiting \/ n.waiting
           m == MergePendingWakeReasons(p, n, newer)
<1>3. m = [q EXCEPT !.requests = p.requests \cup n.requests, !.guardBy = gb, !.waiting = wt]
  BY DEF MergePendingWakeReasons
<1>4. q \in Wake /\ gb \in Generation /\ wt \in BOOLEAN
      /\ p.requests \cup n.requests \in SUBSET Request
  <2>1. q \in Wake
    BY <1>1
  <2>2. gb \in Generation
    BY <1>2, GenerationAssumption DEF Generation
  <2>3. wt \in BOOLEAN
    BY <2>1 DEF Wake
  <2>4. p.requests \cup n.requests \in SUBSET Request
    BY DEF Wake
  <2> QED BY <2>1, <2>2, <2>3, <2>4
<1> HIDE DEF q, b, gb, wt, m
<1>5. m \in Wake
  BY <1>3, <1>4 DEF Wake
<1>6. m.target = q.target /\ m.requests = p.requests \cup n.requests
      /\ m.intent = q.intent /\ m.priority = q.priority
  BY <1>3, <1>4 DEF Wake
<1>7. m.target = p.target
  BY <1>1, <1>6
<1>8. m.guardBy = gb /\ (m.waiting <=> wt)
  BY <1>3, <1>4 DEF Wake
<1>9. wt => p.waiting \/ n.waiting
  BY <1>1 DEF wt
<1>10. ASSUME GuardShape(p), GuardShape(n) PROVE GuardShape(m)
  <2>1. GuardOfEither(p, n) = 0 => p.guardBy = 0 /\ n.guardBy = 0
    BY GenerationAssumption DEF GuardOfEither, Wake, Generation
  <2>2. CASE b
    <3>1. gb = 0 /\ (wt <=> q.waiting)
      BY <2>2 DEF gb, wt
    <3>2. q.guardBy = 0
      BY <2>2 DEF b, BypassGuardRetry
    <3>3. ~q.waiting
      BY <1>1, <1>10, <3>2 DEF GuardShape
    <3> QED BY <1>8, <3>1, <3>3 DEF GuardShape
  <2>3. CASE ~b
    <3>1. gb = GuardOfEither(p, n) /\ (wt <=> p.waiting \/ n.waiting)
      BY <2>3 DEF gb, wt
    <3>2. wt => gb # 0
      BY <1>10, <2>1, <3>1 DEF GuardShape
    <3>3. q.intent = "manual" => gb = 0
      BY <1>1, <1>10, <2>3, <3>1 DEF GuardShape, BypassGuardRetry, b
    <3> QED BY <1>6, <1>8, <3>2, <3>3 DEF GuardShape
  <2> QED BY <2>2, <2>3
<1>11. Outcome(m, p, n, q)
  BY <1>5, <1>6, <1>7, <1>8, <1>9, <1>10 DEF Outcome
<1> QED BY <1>11 DEF m, q

\* A merge within a slot stays in it and keeps the shape.
LEMMA MergeInSlot ==
  ASSUME NEW p \in Wake, NEW n \in Wake, NEW newer \in BOOLEAN, SameSlot(p, n),
         NEW intents, Shaped(p, intents), Shaped(n, intents)
  PROVE  LET m == MergePendingWakeReasons(p, n, newer) IN
         SameSlot(m, p) /\ SameSlot(m, n) /\ Shaped(m, intents)
<1> DEFINE m == MergePendingWakeReasons(p, n, newer)
<1>1. /\ m.target = p.target /\ m.target = n.target
      /\ m.requests = p.requests \cup n.requests
      /\ \/ m.intent = p.intent /\ m.priority = p.priority
         \/ m.intent = n.intent /\ m.priority = n.priority
      /\ GuardShape(m)
  <2> DEFINE q == Preferred(p, n, newer)
  <2>1. p.target = n.target
    BY DEF SameSlot
  <2>2. q = p \/ q = n
    BY DEF Preferred
  <2>3. Outcome(m, p, n, q)
    BY <2>1, MergeFields
  <2> HIDE DEF m, q
  <2> QED BY <2>1, <2>2, <2>3 DEF Outcome, Shaped
<1> HIDE DEF m
<1>2. SameSlot(m, p) /\ SameSlot(m, n)
  BY <1>1 DEF SameSlot, Slot
<1>3. Shaped(m, intents)
  BY <1>1, <1>2 DEF Shaped, SameSlot, Slot
<1> QED BY <1>2, <1>3 DEF m

\* A scheduled wake that joins a task or an event takes its intent.
LEMMA MergeScheduled ==
  ASSUME NEW p \in Wake, NEW n \in Wake, p.target = n.target, p.intent = "scheduled",
         n.intent # "scheduled", NEW intents, Shaped(p, intents), Shaped(n, intents)
  PROVE  LET m == MergePendingWakeReasons(p, n, TRUE) IN
         SameSlot(m, n) /\ Shaped(m, intents)
<1> DEFINE m == MergePendingWakeReasons(p, n, TRUE)
<1>1. Preferred(p, n, TRUE) = n
  BY DEF Preferred, Shaped, Wake, Intent
<1>2. Outcome(m, p, n, Preferred(p, n, TRUE))
  BY MergeFields
<1>3. Outcome(m, p, n, n)
  BY <1>1, <1>2
<1> HIDE DEF m
<1>4. SameSlot(m, n) /\ Shaped(m, intents)
  BY <1>3 DEF SameSlot, Slot, Shaped, Outcome
<1> QED BY <1>4 DEF m

-----------------------------------------------------------------------------
(* Queueing *)

\* The three kinds of wakes after queueing W into P.
Stays(x, P, W) == x \in P /\ \A w \in W : ~SameSlot(x, w)
IsNew(x, P, W) == x \in W /\ \A p \in P : ~SameSlot(p, x)
IsMerge(x, p, w, newer) ==
  SameSlot(p, w) /\ x = MergePendingWakeReasons(p, w, w.target \in newer)

\* Every wake after queueing is of one of the three kinds, and all of these are there.
LEMMA QueueMembers ==
  ASSUME NEW P, NEW W, NEW newer, NEW x
  PROVE  x \in QueueWakes(P, W, newer)
         <=> \/ Stays(x, P, W)
             \/ IsNew(x, P, W)
             \/ \E p \in P, w \in W : IsMerge(x, p, w, newer)
<1> DEFINE pairs == {q \in P \X W : SameSlot(q[1], q[2])}
           merges == {MergePendingWakeReasons(q[1], q[2], q[2].target \in newer) : q \in pairs}
<1>1. x \in merges <=> \E p \in P, w \in W : IsMerge(x, p, w, newer)
  <2>1. ASSUME x \in merges PROVE \E p \in P, w \in W : IsMerge(x, p, w, newer)
    <3>1. PICK q \in pairs : x = MergePendingWakeReasons(q[1], q[2], q[2].target \in newer)
      BY <2>1
    <3>2. q[1] \in P /\ q[2] \in W /\ SameSlot(q[1], q[2])
      BY <3>1
    <3> QED BY <3>1, <3>2 DEF IsMerge
  <2>2. ASSUME NEW p \in P, NEW w \in W, IsMerge(x, p, w, newer) PROVE x \in merges
    <3>1. <<p, w>> \in pairs /\ <<p, w>>[1] = p /\ <<p, w>>[2] = w
      BY <2>2 DEF IsMerge
    <3> QED BY <2>2, <3>1 DEF IsMerge
  <2> QED BY <2>1, <2>2
<1> HIDE DEF merges
<1>2. QueueWakes(P, W, newer)
        = {p \in P : \A w \in W : ~SameSlot(p, w)}
          \cup {w \in W : \A p \in P : ~SameSlot(p, w)} \cup merges
  BY DEF QueueWakes, merges
<1> QED BY <1>1, <1>2 DEF Stays, IsNew

\* What a merged wake has of the two it was made of.
LEMMA MergeParts ==
  ASSUME NEW p \in Wake, NEW w \in Wake, NEW newer, NEW x, IsMerge(x, p, w, newer),
         NEW intents, Shaped(p, intents), Shaped(w, intents)
  PROVE  /\ x \in Wake
         /\ SameSlot(x, p)
         /\ SameSlot(x, w)
         /\ x.requests = p.requests \cup w.requests
         /\ Shaped(x, intents)
<1> DEFINE b == w.target \in newer
<1>1. b \in BOOLEAN /\ SameSlot(p, w) /\ x = MergePendingWakeReasons(p, w, b)
  BY DEF IsMerge
<1> HIDE DEF b
<1>2. SameSlot(x, p) /\ SameSlot(x, w) /\ Shaped(x, intents)
  BY <1>1, MergeInSlot
<1>3. p.target = w.target
  BY <1>1 DEF SameSlot
<1>4. Outcome(x, p, w, Preferred(p, w, b))
  BY <1>1, <1>3, MergeFields
<1> QED BY <1>2, <1>4 DEF Outcome

\* Queueing one tidy heap into another, with no request in both, gives a tidy heap with
\* the requests of both.
LEMMA QueueTidy ==
  ASSUME NEW intents, NEW P, NEW W, NEW newer, Tidy(P, intents), Tidy(W, intents),
         \A r \in Request : ~(Carries(P, r) /\ Carries(W, r))
  PROVE  /\ Tidy(QueueWakes(P, W, newer), intents)
         /\ \A r \in Request :
              Carries(QueueWakes(P, W, newer), r) <=> Carries(P, r) \/ Carries(W, r)
<1> DEFINE Q == QueueWakes(P, W, newer)
<1>1. \A x \in Q : \/ Stays(x, P, W)
                   \/ IsNew(x, P, W)
                   \/ \E p \in P, w \in W : IsMerge(x, p, w, newer)
  BY QueueMembers
<1>2. \A x : \A p \in P, w \in W : IsMerge(x, p, w, newer)
        => /\ x \in Q
           /\ x \in Wake
           /\ SameSlot(p, w) /\ SameSlot(x, p) /\ SameSlot(x, w)
           /\ \A r \in Request : r \in x.requests <=> r \in p.requests \/ r \in w.requests
           /\ Shaped(x, intents)
  <2> TAKE x
  <2> TAKE p \in P, w \in W
  <2> HAVE IsMerge(x, p, w, newer)
  <2>1. p \in Wake /\ w \in Wake /\ Shaped(p, intents) /\ Shaped(w, intents)
    BY DEF Tidy
  <2>2. x \in Q
    BY QueueMembers
  <2>3. SameSlot(p, w)
    BY DEF IsMerge
  <2> HIDE DEF Q
  <2>4. /\ x \in Wake /\ SameSlot(x, p) /\ SameSlot(x, w) /\ Shaped(x, intents)
        /\ x.requests = p.requests \cup w.requests
    BY <2>1, MergeParts
  <2> QED BY <2>2, <2>3, <2>4
<1>3. \A x : Stays(x, P, W) \/ IsNew(x, P, W) => x \in Q
  BY QueueMembers
<1>4. \A x, y : \A p1, p2 \in P, w1, w2 \in W :
        p1 = p2 /\ w1 = w2 /\ IsMerge(x, p1, w1, newer) /\ IsMerge(y, p2, w2, newer) => x = y
  BY DEF IsMerge
<1> HIDE DEF Q
<1>5. Q \subseteq Wake /\ \A x \in Q : Shaped(x, intents)
  BY <1>1, <1>2 DEF Stays, IsNew, Tidy
<1>6. \A x, y \in Q : SameSlot(x, y) => x = y
  <2> SUFFICES ASSUME NEW x \in Q, NEW y \in Q, SameSlot(x, y) PROVE x = y
    OBVIOUS
  <2>1. CASE Stays(x, P, W)
    BY <1>1, <1>2, <2>1 DEF Stays, IsNew, Tidy, SameSlot
  <2>2. CASE IsNew(x, P, W)
    BY <1>1, <1>2, <2>2 DEF Stays, IsNew, Tidy, SameSlot
  <2>3. ASSUME NEW p \in P, NEW w \in W, IsMerge(x, p, w, newer) PROVE x = y
    <3>1. SameSlot(y, p) /\ SameSlot(y, w)
      BY <1>2, <2>3 DEF SameSlot
    <3>2. PICK q \in P, v \in W : IsMerge(y, q, v, newer)
      BY <1>1, <3>1 DEF Stays, IsNew, SameSlot
    <3>3. SameSlot(y, q) /\ SameSlot(y, v)
      BY <1>2, <3>2
    <3>4. SameSlot(p, q) /\ SameSlot(w, v)
      BY <3>1, <3>3 DEF SameSlot
    <3>5. p = q /\ w = v
      BY <3>4 DEF Tidy
    <3> QED BY <1>4, <2>3, <3>2, <3>5
  <2> QED BY <1>1, <2>1, <2>2, <2>3
<1>7. ASSUME NEW x \in Q, NEW r \in Request, r \in x.requests
      PROVE  \/ \E p \in P : r \in p.requests /\ SameSlot(x, p)
             \/ \E w \in W : r \in w.requests /\ SameSlot(x, w)
  BY <1>1, <1>2, <1>7 DEF Stays, IsNew, SameSlot
<1>8. \A x, y \in Q : \A r \in Request : r \in x.requests /\ r \in y.requests => x = y
  <2> SUFFICES ASSUME NEW x \in Q, NEW y \in Q, NEW r \in Request,
                      r \in x.requests, r \in y.requests
               PROVE  SameSlot(x, y)
    BY <1>6
  <2>1. \/ \E p \in P : r \in p.requests /\ SameSlot(x, p) /\ SameSlot(y, p)
        \/ \E w \in W : r \in w.requests /\ SameSlot(x, w) /\ SameSlot(y, w)
    BY <1>7 DEF Tidy, Carries
  <2> QED BY <2>1 DEF SameSlot
<1>9. ASSUME NEW r \in Request, Carries(P, r) \/ Carries(W, r) PROVE Carries(Q, r)
  <2>1. ASSUME NEW p \in P, r \in p.requests PROVE Carries(Q, r)
    <3>1. CASE Stays(p, P, W)
      BY <1>3, <2>1, <3>1 DEF Carries
    <3>2. CASE ~Stays(p, P, W)
      <4>1. PICK w \in W : SameSlot(p, w)
        BY <3>2 DEF Stays
      <4> DEFINE x == MergePendingWakeReasons(p, w, w.target \in newer)
      <4>2. IsMerge(x, p, w, newer)
        BY <4>1 DEF IsMerge
      <4> HIDE DEF x
      <4>3. x \in Q
        BY <1>2, <4>2
      <4>4. r \in x.requests
        BY <1>2, <2>1, <4>2
      <4> QED BY <4>3, <4>4 DEF Carries
    <3> QED BY <3>1, <3>2
  <2>2. ASSUME NEW w \in W, r \in w.requests PROVE Carries(Q, r)
    <3>1. CASE IsNew(w, P, W)
      BY <1>3, <2>2, <3>1 DEF Carries
    <3>2. CASE ~IsNew(w, P, W)
      <4>1. PICK p \in P : SameSlot(p, w)
        BY <3>2 DEF IsNew
      <4> DEFINE x == MergePendingWakeReasons(p, w, w.target \in newer)
      <4>2. IsMerge(x, p, w, newer)
        BY <4>1 DEF IsMerge
      <4> HIDE DEF x
      <4>3. x \in Q
        BY <1>2, <4>2
      <4>4. r \in x.requests
        BY <1>2, <2>2, <4>2
      <4> QED BY <4>3, <4>4 DEF Carries
    <3> QED BY <3>1, <3>2
  <2> QED BY <1>9, <2>1, <2>2 DEF Carries
<1>10. \A r \in Request : Carries(Q, r) <=> Carries(P, r) \/ Carries(W, r)
  BY <1>7, <1>9 DEF Carries
<1>11. Tidy(Q, intents)
  BY <1>5, <1>6, <1>8 DEF Tidy
<1> QED BY <1>10, <1>11 DEF Q

-----------------------------------------------------------------------------
(* Taking a batch *)

Alone(x, R) == x \in R /\ \A v \in R : ~Joins(R, v, x) /\ ~Joins(R, x, v)
IsJoint(x, s, w, R) == Joins(R, s, w) /\ x = MergePendingWakeReasons(s, w, TRUE)

\* The wakes of a batch were ready wakes or are joint ones.
LEMMA CoalescedMembers ==
  ASSUME NEW R, NEW x
  PROVE  x \in Coalesced(R) <=> Alone(x, R) \/ \E s \in R, w \in R : IsJoint(x, s, w, R)
<1> DEFINE pairs == {q \in R \X R : Joins(R, q[1], q[2])}
           joints == {MergePendingWakeReasons(q[1], q[2], TRUE) : q \in pairs}
<1>1. x \in joints <=> \E s \in R, w \in R : IsJoint(x, s, w, R)
  <2>1. ASSUME x \in joints PROVE \E s \in R, w \in R : IsJoint(x, s, w, R)
    <3>1. PICK q \in pairs : x = MergePendingWakeReasons(q[1], q[2], TRUE)
      BY <2>1
    <3>2. q[1] \in R /\ q[2] \in R /\ Joins(R, q[1], q[2])
      BY <3>1
    <3> QED BY <3>1, <3>2 DEF IsJoint
  <2>2. ASSUME NEW s \in R, NEW w \in R, IsJoint(x, s, w, R) PROVE x \in joints
    <3>1. <<s, w>> \in pairs /\ <<s, w>>[1] = s /\ <<s, w>>[2] = w
      BY <2>2 DEF IsJoint
    <3> QED BY <2>2, <3>1 DEF IsJoint
  <2> QED BY <2>1, <2>2
<1> HIDE DEF joints
<1>2. Coalesced(R) = {w \in R : \A v \in R : ~Joins(R, v, w) /\ ~Joins(R, w, v)} \cup joints
  BY DEF Coalesced, joints
<1> QED BY <1>1, <1>2 DEF Alone

\* A batch made of a tidy heap is tidy and has its requests; nothing in it waits if
\* nothing of the heap does.
LEMMA BatchTidy ==
  ASSUME NEW intents, NEW R, Tidy(R, intents)
  PROVE  /\ Tidy(Coalesced(R), intents)
         /\ \A r \in Request : Carries(Coalesced(R), r) <=> Carries(R, r)
         /\ (\A w \in R : ~w.waiting) => \A w \in Coalesced(R) : ~w.waiting
<1> DEFINE C == Coalesced(R)
<1>1. \A x \in C : Alone(x, R) \/ \E s \in R, w \in R : IsJoint(x, s, w, R)
  BY CoalescedMembers
<1>2. \A x : Alone(x, R) => x \in C
  BY CoalescedMembers
<1>3. \A x : \A s \in R, w \in R : IsJoint(x, s, w, R)
        => /\ x \in C
           /\ x \in Wake
           /\ SameSlot(x, w)
           /\ x.requests = s.requests \cup w.requests
           /\ Shaped(x, intents)
           /\ x.waiting => s.waiting \/ w.waiting
  <2> TAKE x
  <2> TAKE s \in R, w \in R
  <2> HAVE IsJoint(x, s, w, R)
  <2>1. s \in Wake /\ w \in Wake /\ Shaped(s, intents) /\ Shaped(w, intents)
    BY DEF Tidy
  <2>2. /\ s.target = w.target /\ s.intent = "scheduled" /\ w.intent # "scheduled"
        /\ x = MergePendingWakeReasons(s, w, TRUE)
    BY DEF IsJoint, Joins
  <2>3. x \in C
    BY CoalescedMembers
  <2>4. SameSlot(x, w) /\ Shaped(x, intents)
    BY <2>1, <2>2, MergeScheduled
  <2>5. Outcome(x, s, w, Preferred(s, w, TRUE))
    BY <2>1, <2>2, MergeFields
  <2> HIDE DEF C
  <2> QED BY <2>3, <2>4, <2>5 DEF Outcome
<1> HIDE DEF C
<1>4. C \subseteq Wake /\ \A x \in C : Shaped(x, intents)
  BY <1>1, <1>3 DEF Alone, Tidy
<1>5. \A s1, s2, w1, w2 \in R : Joins(R, s1, w1) /\ Joins(R, s2, w2) /\ SameSlot(w1, w2)
        => s1 = s2 /\ w1 = w2
  <2> TAKE s1, s2, w1, w2 \in R
  <2> HAVE Joins(R, s1, w1) /\ Joins(R, s2, w2) /\ SameSlot(w1, w2)
  <2>1. SameSlot(s1, s2)
    BY DEF Joins, SameSlot, Slot
  <2> QED BY <2>1 DEF Tidy
<1>6. \A s, w1, w2 \in R : Joins(R, s, w1) /\ Joins(R, s, w2) => w1 = w2
  <2> TAKE s, w1, w2 \in R
  <2> HAVE Joins(R, s, w1) /\ Joins(R, s, w2)
  <2>1. SameSlot(w1, w2)
    BY DEF Joins, SameSlot, Slot
  <2> QED BY <2>1 DEF Tidy
<1>7. \A x, y : \A s \in R, w \in R :
        IsJoint(x, s, w, R) /\ IsJoint(y, s, w, R) => x = y
  BY DEF IsJoint
<1>8. \A x, y \in C : SameSlot(x, y) => x = y
  <2> SUFFICES ASSUME NEW x \in C, NEW y \in C, SameSlot(x, y) PROVE x = y
    OBVIOUS
  <2>1. CASE Alone(x, R) /\ Alone(y, R)
    BY <2>1 DEF Alone, Tidy
  <2>2. ASSUME NEW z, NEW s \in R, NEW w \in R, IsJoint(z, s, w, R),
               NEW a, Alone(a, R), SameSlot(a, z)
        PROVE  FALSE
    <3>1. SameSlot(a, w) /\ a \in R
      BY <1>3, <2>2 DEF SameSlot, Alone
    <3>2. a = w
      BY <3>1 DEF Tidy
    <3> QED BY <2>2, <3>2 DEF Alone, IsJoint
  <2>3. ASSUME NEW s \in R, NEW w \in R, IsJoint(x, s, w, R),
               NEW t \in R, NEW v \in R, IsJoint(y, t, v, R)
        PROVE  x = y
    <3>1. SameSlot(x, w) /\ SameSlot(y, v)
      BY <1>3, <2>3
    <3>2. SameSlot(w, v)
      BY <3>1 DEF SameSlot
    <3>3. s = t /\ w = v
      BY <1>5, <2>3, <3>2 DEF IsJoint
    <3> QED BY <1>7, <2>3, <3>3
  <2>4. SameSlot(y, x)
    BY DEF SameSlot
  <2> QED BY <1>1, <2>1, <2>2, <2>3, <2>4
<1>9. \A x, y \in C : \A r \in Request : r \in x.requests /\ r \in y.requests => x = y
  <2> SUFFICES ASSUME NEW x \in C, NEW y \in C, NEW r \in Request,
                      r \in x.requests, r \in y.requests
               PROVE  x = y
    OBVIOUS
  <2>1. CASE Alone(x, R) /\ Alone(y, R)
    BY <2>1 DEF Alone, Tidy
  <2>2. ASSUME NEW z, NEW s \in R, NEW w \in R, IsJoint(z, s, w, R), r \in z.requests,
               NEW a, Alone(a, R), r \in a.requests
        PROVE  FALSE
    <3>1. r \in s.requests \/ r \in w.requests
      BY <1>3, <2>2
    <3>2. a = s \/ a = w
      BY <2>2, <3>1 DEF Tidy, Alone
    <3> QED BY <2>2, <3>2 DEF Alone, IsJoint
  <2>3. ASSUME NEW s \in R, NEW w \in R, IsJoint(x, s, w, R),
               NEW t \in R, NEW v \in R, IsJoint(y, t, v, R)
        PROVE  x = y
    <3>1. r \in s.requests \/ r \in w.requests
      BY <1>3, <2>3
    <3>2. r \in t.requests \/ r \in v.requests
      BY <1>3, <2>3
    <3>3. Joins(R, s, w) /\ Joins(R, t, v)
      BY <2>3 DEF IsJoint
    <3>4. s # v /\ w # t
      BY <3>3 DEF Joins
    <3>5. s = t \/ w = v
      BY <3>1, <3>2, <3>4 DEF Tidy
    <3>6. s = t /\ w = v
      BY <1>5, <1>6, <3>3, <3>5 DEF SameSlot
    <3> QED BY <1>7, <2>3, <3>6
  <2> QED BY <1>1, <2>1, <2>2, <2>3
<1>10. ASSUME NEW r \in Request, NEW w \in R, r \in w.requests PROVE Carries(C, r)
  <2>1. CASE Alone(w, R)
    BY <1>2, <1>10, <2>1 DEF Carries
  <2>2. ASSUME NEW v \in R, Joins(R, v, w) \/ Joins(R, w, v) PROVE Carries(C, r)
    <3>1. PICK x : IsJoint(x, v, w, R) \/ IsJoint(x, w, v, R)
      BY <2>2 DEF IsJoint
    <3> QED BY <1>3, <1>10, <3>1 DEF Carries
  <2> QED BY <2>1, <2>2 DEF Alone
<1>11. ASSUME NEW r \in Request, Carries(C, r) PROVE Carries(R, r)
  BY <1>1, <1>3, <1>11 DEF Carries, Alone
<1>12. ASSUME \A w \in R : ~w.waiting PROVE \A x \in C : ~x.waiting
  BY <1>1, <1>3, <1>12 DEF Alone
<1>13. Tidy(C, intents)
  BY <1>4, <1>8, <1>9 DEF Tidy
<1>14. \A r \in Request : Carries(C, r) <=> Carries(R, r)
  BY <1>10, <1>11 DEF Carries
<1> QED BY <1>12, <1>13, <1>14 DEF C

-----------------------------------------------------------------------------
(* The inductive invariant *)

InLoop(r) == \E g \in Generation : Carries(batch[g], r)

\* Tidy heaps, and nothing in a batch waits.
HeapsTidy ==
  /\ Tidy(pendingWakes, intentOf)
  /\ \A g \in Generation : Tidy(batch[g], intentOf) /\ \A w \in batch[g] : ~w.waiting

\* The requests of different heaps differ, and together they are the ones owed.
HeapsApart ==
  \A r \in Request :
    /\ r \in owed <=> Carries(pendingWakes, r) \/ InLoop(r)
    /\ ~(Carries(pendingWakes, r) /\ InLoop(r))
    /\ \A g, h \in Generation : Carries(batch[g], r) /\ Carries(batch[h], r) => g = h
    /\ intentOf[r] = "none" => r \notin owed

\* Only generations that had a handler have a batch.
Generations ==
  /\ handler => handlerGeneration # 0
  /\ \A g \in Generation : batch[g] # {} => g # 0 /\ g <= handlerGeneration

Core ==
  /\ TypeOK
  /\ HeapsTidy
  /\ HeapsApart
  /\ Generations
  /\ RunningHasOwner
  /\ PendingIsScheduled

-----------------------------------------------------------------------------
(* Heaps that differ in guards only *)

Twin(x, p) ==
  /\ x.target = p.target /\ x.intent = p.intent /\ x.priority = p.priority
  /\ x.requests = p.requests

\* A heap whose wakes are those of a tidy one, with other guards, is as tidy.
LEMMA TwinsTidy ==
  ASSUME NEW intents, NEW P, NEW Q, Tidy(P, intents), Q \subseteq Wake,
         \A x \in Q : GuardShape(x),
         \A x \in Q : \E p \in P : Twin(x, p),
         \A p \in P : \E x \in Q : Twin(x, p),
         \A x, y \in Q : \A p \in P : Twin(x, p) /\ Twin(y, p) => x = y
  PROVE  /\ Tidy(Q, intents)
         /\ \A r \in Request : Carries(Q, r) <=> Carries(P, r)
<1>1. \A x, y \in Q : SameSlot(x, y) => x = y
  <2> SUFFICES ASSUME NEW x \in Q, NEW y \in Q, SameSlot(x, y) PROVE x = y
    OBVIOUS
  <2>1. PICK p \in P : Twin(x, p)
    OBVIOUS
  <2>2. PICK q \in P : Twin(y, q)
    OBVIOUS
  <2>3. SameSlot(p, q)
    BY <2>1, <2>2 DEF Twin, SameSlot, Slot
  <2>4. p = q
    BY <2>3 DEF Tidy
  <2> QED BY <2>1, <2>2, <2>4
<1>2. \A x, y \in Q : \A r \in Request : r \in x.requests /\ r \in y.requests => x = y
  <2> SUFFICES ASSUME NEW x \in Q, NEW y \in Q, NEW r \in Request,
                      r \in x.requests, r \in y.requests
               PROVE  x = y
    OBVIOUS
  <2>1. PICK p \in P : Twin(x, p)
    OBVIOUS
  <2>2. PICK q \in P : Twin(y, q)
    OBVIOUS
  <2>3. p = q
    BY <2>1, <2>2 DEF Twin, Tidy
  <2> QED BY <2>1, <2>2, <2>3
<1>3. \A x \in Q : Shaped(x, intents)
  <2> TAKE x \in Q
  <2>1. PICK p \in P : Twin(x, p)
    OBVIOUS
  <2>2. Shaped(p, intents) /\ GuardShape(x)
    BY DEF Tidy
  <2> QED BY <2>1, <2>2 DEF Twin, Shaped
<1>4. \A r \in Request : Carries(Q, r) <=> Carries(P, r)
  BY DEF Carries, Twin
<1> QED BY <1>1, <1>2, <1>3, <1>4 DEF Tidy

\* A heap of one wake is tidy if the wake is.
LEMMA SingletonTidy ==
  ASSUME NEW intents, NEW w \in Wake, Shaped(w, intents)
  PROVE  Tidy({w}, intents)
BY DEF Tidy

\* Part of a tidy heap is tidy.
LEMMA SubsetTidy ==
  ASSUME NEW intents, NEW P, NEW Q, Tidy(P, intents), Q \subseteq P
  PROVE  Tidy(Q, intents)
BY DEF Tidy

\* Queueing nothing changes nothing.
LEMMA QueueNothing ==
  ASSUME NEW P, NEW newer
  PROVE  QueueWakes(P, {}, newer) = P
<1>1. \A x : x \in QueueWakes(P, {}, newer) <=> x \in P
  <2> TAKE x
  <2>1. x \in QueueWakes(P, {}, newer)
        <=> \/ Stays(x, P, {}) \/ IsNew(x, P, {}) \/ \E p \in P, w \in {} : IsMerge(x, p, w, newer)
    BY QueueMembers
  <2> QED BY <2>1 DEF Stays, IsNew
<1> QED BY <1>1

-----------------------------------------------------------------------------
(* The heaps under a step *)

\* The initial state has empty heaps.
LEMMA CoreInit == Init => Core
<1> SUFFICES ASSUME Init PROVE Core
  OBVIOUS
<1>1. TypeOK
  <2>1. 0 \in Generation
    BY GenerationAssumption DEF Generation
  <2> QED BY <2>1 DEF Init, TypeOK
<1>2. HeapsTidy
  BY DEF Init, HeapsTidy, Tidy
<1>3. HeapsApart
  BY DEF Init, HeapsApart, Carries, InLoop
<1>4. Generations /\ RunningHasOwner /\ PendingIsScheduled
  BY DEF Init, Generations, RunningHasOwner, PendingIsScheduled
<1> QED BY <1>1, <1>2, <1>3, <1>4 DEF Core

\* A wake that is requested.
NewWake(r, t, intent, priority) ==
  [target |-> t, intent |-> intent, priority |-> priority, guardBy |-> 0,
   waiting |-> FALSE, requests |-> {r}]

\* A new request joins the pending wakes and no other heap.
LEMMA CoreRequest ==
  ASSUME Proper, Core, NEW r \in Request, NEW t \in Target, NEW i \in Intent,
         NEW p \in Priorities(i), RequestHeartbeat(r, t, i, p)
  PROVE  Core'
<1> DEFINE n == NewWake(r, t, i, p)
<1> USE DEF Core
<1>1. /\ intentOf[r] = "none"
      /\ intentOf' = [intentOf EXCEPT ![r] = i]
      /\ owed' = owed \cup {r}
      /\ pendingWakes' = QueueWakes(pendingWakes, {n}, {t})
      /\ timer' = TRUE
      /\ UNCHANGED <<handler, handlerGeneration, blocked, running, batch>>
  BY DEF RequestHeartbeat, NewWake
<1>2. r \notin owed /\ ~Carries(pendingWakes, r) /\ \A g \in Generation : ~Carries(batch[g], r)
  BY <1>1 DEF HeapsApart, InLoop
<1>3. intentOf'[r] = i /\ \A q \in Request \ {r} : intentOf'[q] = intentOf[q]
  BY <1>1 DEF TypeOK
<1>4. n \in Wake /\ n.requests = {r} /\ Shaped(n, intentOf')
  <2>1. p \in 0..3 /\ 0 \in Generation
    BY GenerationAssumption DEF Priorities, Generation
  <2>2. n \in Wake
    BY <2>1 DEF NewWake, Wake
  <2>3. /\ i \in {"scheduled", "task"} => p = 1
        /\ i = "event" => p = 2
        /\ i \in {"manual", "immediate"} => p = 3
    BY DEF Priorities, Proper
  <2>4. /\ n.intent = i /\ n.priority = p /\ n.requests = {r} /\ n.guardBy = 0 /\ ~n.waiting
    BY DEF NewWake
  <2> HIDE DEF n
  <2> QED BY <1>3, <2>2, <2>3, <2>4 DEF Shaped, GuardShape
<1> HIDE DEF n
<1>5. ASSUME NEW W, Tidy(W, intentOf), ~Carries(W, r) PROVE Tidy(W, intentOf')
  <2>1. \A w \in W : Shaped(w, intentOf')
    <3> TAKE w \in W
    <3>1. Shaped(w, intentOf) /\ r \notin w.requests /\ w.requests \subseteq Request
      BY <1>5 DEF Tidy, Carries, Wake
    <3> QED BY <1>3, <3>1 DEF Shaped
  <2> QED BY <1>5, <2>1 DEF Tidy
<1>6. Tidy(pendingWakes, intentOf') /\ Tidy({n}, intentOf')
  <2>1. Tidy(pendingWakes, intentOf')
    BY <1>2, <1>5 DEF HeapsTidy
  <2> QED BY <1>4, <2>1, SingletonTidy
<1>7. \A q \in Request : Carries({n}, q) <=> q = r
  BY <1>4 DEF Carries
<1>8. /\ Tidy(pendingWakes', intentOf')
      /\ \A q \in Request : Carries(pendingWakes', q) <=> Carries(pendingWakes, q) \/ q = r
  <2>1. \A q \in Request : ~(Carries(pendingWakes, q) /\ Carries({n}, q))
    BY <1>2, <1>7
  <2>2. /\ Tidy(QueueWakes(pendingWakes, {n}, {t}), intentOf')
        /\ \A q \in Request : Carries(QueueWakes(pendingWakes, {n}, {t}), q)
                              <=> Carries(pendingWakes, q) \/ Carries({n}, q)
    BY <1>6, <2>1, QueueTidy
  <2> QED BY <1>1, <1>7, <2>2
<1>9. HeapsTidy'
  <2>1. \A g \in Generation : Tidy(batch[g], intentOf')
    BY <1>2, <1>5 DEF HeapsTidy
  <2> QED BY <1>1, <1>8, <2>1 DEF HeapsTidy
<1>10. TypeOK'
  BY <1>1, <1>8 DEF TypeOK, Tidy
<1>11. HeapsApart'
  <2>1. \A q \in Request : InLoop(q)' <=> InLoop(q)
    BY <1>1 DEF InLoop, Carries
  <2>2. ~InLoop(r)
    BY <1>2 DEF InLoop
  <2>3. \A q \in Request : intentOf'[q] = "none" => q # r /\ intentOf[q] = "none"
    BY <1>3 DEF Intent
  <2> QED BY <1>1, <1>2, <1>8, <2>1, <2>2, <2>3 DEF HeapsApart
<1>12. Generations' /\ RunningHasOwner' /\ PendingIsScheduled'
  BY <1>1 DEF Generations, RunningHasOwner, PendingIsScheduled
<1> QED BY <1>9, <1>10, <1>11, <1>12

\* A new handler finds the pending wakes with their guards removed.
LEMMA CoreSetHandler ==
  ASSUME Core, SetHeartbeatWakeHandler
  PROVE  Core'
<1> DEFINE Free(w) == [w EXCEPT !.waiting = FALSE, !.guardBy = 0]
<1> USE DEF Core
<1>1. /\ handlerGeneration < MaxGeneration
      /\ handlerGeneration' = handlerGeneration + 1
      /\ handler' = TRUE
      /\ running' = FALSE
      /\ blocked' = {}
      /\ pendingWakes' = {Free(w) : w \in pendingWakes}
      /\ (timer' <=> pendingWakes # {})
      /\ UNCHANGED <<batch, intentOf, owed>>
  BY DEF SetHeartbeatWakeHandler, SchedulePendingWakes
<1>2. timer' \in BOOLEAN
  BY DEF SetHeartbeatWakeHandler, SchedulePendingWakes
<1>3. /\ handlerGeneration' \in Generation /\ handlerGeneration' # 0
      /\ \A g \in Generation : g <= handlerGeneration
           => g <= handlerGeneration' /\ g # handlerGeneration'
  <2>1. handlerGeneration \in Generation /\ handlerGeneration < MaxGeneration
        /\ handlerGeneration' = handlerGeneration + 1
    BY <1>1 DEF TypeOK
  <2> QED BY <2>1, GenerationAssumption DEF Generation
<1>4. \A w \in Wake : /\ Free(w) \in Wake /\ Twin(Free(w), w) /\ GuardShape(Free(w))
  <2> TAKE w \in Wake
  <2>1. 0 \in Generation
    BY GenerationAssumption DEF Generation
  <2>2. Free(w) \in Wake
    BY <2>1 DEF Wake
  <2>3. Twin(Free(w), w)
    BY DEF Wake, Twin
  <2>4. Free(w).guardBy = 0 /\ ~Free(w).waiting
    BY DEF Wake
  <2> HIDE DEF Free
  <2> QED BY <2>2, <2>3, <2>4 DEF GuardShape
<1>5. \A x \in pendingWakes' : \E p \in pendingWakes : x = Free(p)
  BY <1>1
<1>6. \A p \in pendingWakes : Free(p) \in pendingWakes'
  BY <1>1
<1> HIDE DEF Free
<1>7. /\ Tidy(pendingWakes', intentOf)
      /\ \A r \in Request : Carries(pendingWakes', r) <=> Carries(pendingWakes, r)
  <2>1. \A x \in pendingWakes' : x \in Wake /\ GuardShape(x) /\ \E p \in pendingWakes : Twin(x, p)
    BY <1>4, <1>5 DEF TypeOK
  <2>2. \A p \in pendingWakes : \E x \in pendingWakes' : Twin(x, p)
    BY <1>4, <1>6 DEF TypeOK
  <2>3. \A x, y \in pendingWakes' : \A p \in pendingWakes : Twin(x, p) /\ Twin(y, p) => x = y
    <3> SUFFICES ASSUME NEW p \in pendingWakes, NEW x \in pendingWakes', Twin(x, p)
                 PROVE  x = Free(p)
      OBVIOUS
    <3>1. PICK q \in pendingWakes : x = Free(q)
      BY <1>5
    <3>2. SameSlot(p, q)
      BY <1>4, <3>1 DEF Twin, SameSlot, Slot, TypeOK
    <3>3. p = q
      BY <3>2 DEF HeapsTidy, Tidy
    <3> QED BY <3>1, <3>3
  <2>4. Tidy(pendingWakes, intentOf) /\ pendingWakes' \subseteq Wake
    BY <2>1 DEF HeapsTidy
  <2> DEFINE P == pendingWakes
             Q == pendingWakes'
  <2> HIDE DEF P, Q
  <2> QED BY <2>1, <2>2, <2>3, <2>4, TwinsTidy DEF P, Q
<1>8. TypeOK'
  BY <1>1, <1>2, <1>3, <1>7 DEF TypeOK, Tidy
<1>9. HeapsTidy'
  BY <1>1, <1>7 DEF HeapsTidy
<1>10. HeapsApart'
  <2>1. \A r \in Request : InLoop(r)' <=> InLoop(r)
    BY <1>1 DEF InLoop, Carries
  <2> QED BY <1>1, <1>7, <2>1 DEF HeapsApart
<1>11. Generations'
  BY <1>1, <1>3 DEF Generations
<1>12. RunningHasOwner'
  BY <1>1, <1>3 DEF Generations, RunningHasOwner
<1>13. PendingIsScheduled'
  BY <1>1, <1>5 DEF PendingIsScheduled
<1> QED BY <1>8, <1>9, <1>10, <1>11, <1>12, <1>13

\* Disposing of the handler touches no wake.
LEMMA CoreDispose ==
  ASSUME Core, DisposeHandler
  PROVE  Core'
<1> USE DEF Core, DisposeHandler
<1>1. handlerGeneration' \in Generation /\ \A g \in Generation :
        g <= handlerGeneration => g <= handlerGeneration'
  BY GenerationAssumption DEF TypeOK, Generation
<1>2. TypeOK'
  BY <1>1 DEF TypeOK
<1>3. HeapsTidy'
  BY DEF HeapsTidy
<1>4. HeapsApart'
  BY DEF HeapsApart, InLoop, Carries
<1>5. Generations'
  BY <1>1 DEF Generations
<1> QED BY <1>2, <1>3, <1>4, <1>5 DEF RunningHasOwner, PendingIsScheduled

\* A backoff that is over touches no wake.
LEMMA CoreBackoffElapses ==
  ASSUME Core, NEW t \in Target, BackoffElapses(t)
  PROVE  Core'
<1> USE DEF Core, BackoffElapses
<1>1. TypeOK'
  BY DEF TypeOK
<1>2. HeapsTidy'
  BY DEF HeapsTidy
<1>3. HeapsApart'
  BY DEF HeapsApart, InLoop, Carries
<1> QED BY <1>1, <1>2, <1>3 DEF Generations, RunningHasOwner, PendingIsScheduled

\* A guard that is over changes one pending wake.
LEMMA CoreGuardElapses ==
  ASSUME Core, NEW w \in pendingWakes, GuardElapses(w)
  PROVE  Core'
<1> DEFINE n == [w EXCEPT !.waiting = FALSE]
<1> USE DEF Core
<1>1. /\ pendingWakes' = (pendingWakes \ {w}) \cup {n}
      /\ UNCHANGED <<handler, handlerGeneration, blocked, timer, running, batch, intentOf, owed>>
  BY DEF GuardElapses
<1>2. n \in Wake /\ Twin(n, w) /\ GuardShape(n)
  <2>1. w \in Wake /\ GuardShape(w)
    BY DEF HeapsTidy, Tidy, Shaped
  <2>2. n \in Wake
    BY <2>1 DEF Wake
  <2>3. Twin(n, w) /\ n.guardBy = w.guardBy
    BY <2>1 DEF Wake, Twin
  <2>4. ~n.waiting
    BY <2>1 DEF Wake
  <2> HIDE DEF n
  <2> QED BY <2>1, <2>2, <2>3, <2>4 DEF GuardShape, Twin
<1> HIDE DEF n
<1>3. /\ Tidy(pendingWakes', intentOf)
      /\ \A r \in Request : Carries(pendingWakes', r) <=> Carries(pendingWakes, r)
  <2> DEFINE P == pendingWakes
             Q == pendingWakes'
  <2>1. Tidy(P, intentOf) /\ Q = (P \ {w}) \cup {n} /\ w \in P
    BY <1>1 DEF HeapsTidy
  <2> HIDE DEF P, Q
  <2>2. \A x \in Q : x \in Wake /\ GuardShape(x)
    BY <1>2, <2>1 DEF Tidy, Shaped
  <2>3. \A p, q \in P : Twin(p, q) => p = q
    BY <2>1 DEF Tidy, Twin, SameSlot, Slot
  <2>4. \A p \in P : Twin(p, p)
    BY DEF Twin
  <2>5. \A x \in Q : \E p \in P : Twin(x, p)
    BY <1>2, <2>1, <2>4
  <2>6. \A p \in P : \E x \in Q : Twin(x, p)
    BY <1>2, <2>1, <2>4
  <2>7. \A p \in P : Twin(n, p) => p = w
    <3> TAKE p \in P
    <3> HAVE Twin(n, p)
    <3>1. Twin(w, p)
      BY <1>2 DEF Twin
    <3> QED BY <2>1, <2>3, <3>1
  <2>8. \A x, y \in Q : \A p \in P : Twin(x, p) /\ Twin(y, p) => x = y
    BY <2>1, <2>3, <2>7
  <2>9. Q \subseteq Wake /\ (\A x \in Q : GuardShape(x)) /\ Tidy(P, intentOf)
    BY <2>1, <2>2
  <2>10. /\ Tidy(Q, intentOf)
         /\ \A r \in Request : Carries(Q, r) <=> Carries(P, r)
    BY <2>5, <2>6, <2>8, <2>9, TwinsTidy, Zenon
  <2> QED BY <2>10 DEF P, Q
<1>4. TypeOK'
  BY <1>1, <1>3 DEF TypeOK, Tidy
<1>5. HeapsTidy'
  BY <1>1, <1>3 DEF HeapsTidy
<1>6. HeapsApart'
  <2>1. \A r \in Request : InLoop(r)' <=> InLoop(r)
    BY <1>1 DEF InLoop, Carries
  <2> QED BY <1>1, <1>3, <2>1 DEF HeapsApart
<1>7. Generations' /\ RunningHasOwner' /\ PendingIsScheduled'
  BY <1>1 DEF Generations, RunningHasOwner, PendingIsScheduled
<1> QED BY <1>4, <1>5, <1>6, <1>7

\* The ready wakes move to the batch of the handler's generation.
LEMMA CoreTimerFires ==
  ASSUME Core, TimerFires
  PROVE  Core'
<1> USE DEF Core
<1>1. CASE ~handler
  <2>1. UNCHANGED <<handler, handlerGeneration, pendingWakes, blocked, running, batch, intentOf, owed>>
        /\ timer' = FALSE
    BY <1>1 DEF TimerFires
  <2>2. TypeOK'
    BY <2>1 DEF TypeOK
  <2>3. HeapsTidy'
    BY <2>1 DEF HeapsTidy
  <2>4. HeapsApart'
    BY <2>1 DEF HeapsApart, InLoop, Carries
  <2> QED BY <1>1, <2>1, <2>2, <2>3, <2>4 DEF Generations, RunningHasOwner, PendingIsScheduled
<1>2. CASE handler
  <2> DEFINE g == handlerGeneration
             R == Ready
             C == Coalesced(R)
  <2>1. /\ ~running
        /\ batch' = [batch EXCEPT ![g] = C]
        /\ pendingWakes' = pendingWakes \ R
        /\ (running' <=> C # {})
        /\ (timer' <=> C = {} /\ pendingWakes \ R # {})
        /\ UNCHANGED <<handler, handlerGeneration, blocked, intentOf, owed>>
    BY <1>2 DEF TimerFires, TakenBatch, SchedulePendingWakes
  <2>2. running' \in BOOLEAN /\ timer' \in BOOLEAN
    BY <1>2 DEF TimerFires
  <2>3. R \subseteq pendingWakes /\ \A w \in R : ~w.waiting
    BY DEF Ready, IsReady
  <2>4. g \in Generation /\ g # 0 /\ batch[g] = {}
    BY <1>2, <2>1 DEF TypeOK, Generations, RunningHasOwner
  <2> HIDE DEF g, R, C
  <2>5. Tidy(R, intentOf) /\ Tidy(pendingWakes \ R, intentOf)
    BY <2>3, SubsetTidy DEF HeapsTidy
  <2>6. /\ Tidy(C, intentOf)
        /\ \A r \in Request : Carries(C, r) <=> Carries(R, r)
        /\ \A w \in C : ~w.waiting
    BY <2>3, <2>5, BatchTidy DEF C
  <2>7. /\ \A h \in Generation : batch'[h] = IF h = g THEN C ELSE batch[h]
    BY <2>1, <2>4 DEF TypeOK
  <2>8. \A r \in Request : /\ Carries(pendingWakes, r) <=> Carries(pendingWakes', r) \/ Carries(R, r)
                           /\ ~(Carries(pendingWakes', r) /\ Carries(R, r))
    BY <2>1, <2>3 DEF Carries, HeapsTidy, Tidy
  <2>9. \A r \in Request : ~Carries(batch[g], r)
    BY <2>4 DEF Carries
  <2>10. TypeOK'
    <3>1. batch' \in [Generation -> SUBSET Wake]
      BY <2>1, <2>6 DEF TypeOK, Tidy
    <3> QED BY <2>1, <2>2, <3>1 DEF TypeOK
  <2>11. HeapsTidy'
    BY <2>1, <2>5, <2>6, <2>7 DEF HeapsTidy
  <2>12. HeapsApart'
    <3>1. \A r \in Request : InLoop(r)' <=> InLoop(r) \/ Carries(R, r)
      BY <2>4, <2>6, <2>7, <2>9 DEF InLoop
    <3>2. \A r \in Request : \A h \in Generation :
            Carries(batch'[h], r) <=> Carries(batch[h], r) \/ (h = g /\ Carries(R, r))
      BY <2>6, <2>7, <2>9
    <3>3. \A r \in Request : \A h \in Generation : Carries(batch[h], r) => InLoop(r)
      BY DEF InLoop
    <3>4. \A r \in Request : /\ r \in owed' <=> Carries(pendingWakes', r) \/ InLoop(r)'
                             /\ ~(Carries(pendingWakes', r) /\ InLoop(r)')
                             /\ intentOf'[r] = "none" => r \notin owed'
      BY <2>1, <2>8, <3>1 DEF HeapsApart
    <3>5. \A r \in Request : \A h, k \in Generation :
            Carries(batch'[h], r) /\ Carries(batch'[k], r) => h = k
      BY <2>8, <3>2, <3>3 DEF HeapsApart
    <3> QED BY <3>4, <3>5 DEF HeapsApart
  <2>13. Generations'
    BY <2>1, <2>4, <2>7 DEF Generations, g, TypeOK, Generation
  <2>14. RunningHasOwner'
    BY <2>1, <2>4, <2>7 DEF RunningHasOwner, g
  <2>15. PendingIsScheduled'
    BY <2>1 DEF PendingIsScheduled
  <2> QED BY <2>10, <2>11, <2>12, <2>13, <2>14, <2>15
<1> QED BY <1>1, <1>2

\* Of the batch of generation g, W is queued again, rest stays and A is answered.
Settles(g, W, rest, A, newer) ==
  /\ batch' = [batch EXCEPT ![g] = rest]
  /\ pendingWakes' = QueueWakes(pendingWakes, W, newer)
  /\ owed' = owed \ A
  /\ intentOf' = intentOf
  /\ rest \subseteq batch[g]
  /\ Tidy(W, intentOf)
  /\ \A r \in Request :
       /\ Carries(batch[g], r) <=> Carries(W, r) \/ Carries(rest, r) \/ r \in A
       /\ ~(Carries(W, r) /\ Carries(rest, r))
       /\ r \in A => ~Carries(W, r) /\ ~Carries(rest, r)

\* Such a step keeps the heaps tidy and apart.
LEMMA SettlesHeaps ==
  ASSUME Core, NEW g \in Generation, NEW W, NEW rest, NEW A, NEW newer,
         Settles(g, W, rest, A, newer)
  PROVE  /\ HeapsTidy' /\ HeapsApart'
         /\ pendingWakes' \subseteq Wake
         /\ batch' \in [Generation -> SUBSET Wake]
         /\ owed' \subseteq Request
<1> USE DEF Core
<1>1. \A h \in Generation : batch'[h] = IF h = g THEN rest ELSE batch[h]
  BY DEF Settles, TypeOK
<1>2. \A r \in Request : Carries(batch[g], r) => InLoop(r) /\ ~Carries(pendingWakes, r)
  BY DEF InLoop, HeapsApart
<1>3. /\ Tidy(pendingWakes', intentOf)
      /\ \A r \in Request : Carries(pendingWakes', r) <=> Carries(pendingWakes, r) \/ Carries(W, r)
  <2> DEFINE P == pendingWakes
             Q == QueueWakes(P, W, newer)
  <2>1. Tidy(P, intentOf) /\ Tidy(W, intentOf)
    BY DEF HeapsTidy, Settles
  <2>2. \A r \in Request : ~(Carries(P, r) /\ Carries(W, r))
    BY <1>2 DEF Settles
  <2>3. pendingWakes' = Q
    BY DEF Settles
  <2> HIDE DEF P
  <2>4. Tidy(Q, intentOf) /\ \A r \in Request : Carries(Q, r) <=> Carries(P, r) \/ Carries(W, r)
    BY <2>1, <2>2, QueueTidy
  <2> HIDE DEF Q
  <2> QED BY <2>3, <2>4 DEF P
<1>4. Tidy(rest, intentOf) /\ \A w \in rest : ~w.waiting
  <2>1. rest \subseteq batch[g] /\ Tidy(batch[g], intentOf)
    BY DEF HeapsTidy, Settles
  <2>2. Tidy(rest, intentOf)
    BY <2>1, SubsetTidy
  <2> QED BY <2>1, <2>2 DEF HeapsTidy
<1>5. HeapsTidy'
  BY <1>1, <1>3, <1>4 DEF HeapsTidy, Settles
<1>6. pendingWakes' \subseteq Wake
  BY <1>3 DEF Tidy
<1>7. batch' \in [Generation -> SUBSET Wake] /\ owed' \subseteq Request
  BY <1>4 DEF Settles, TypeOK, Tidy
<1>8. HeapsApart'
  <2>1. \A r \in Request : \A h \in Generation :
          Carries(batch'[h], r) <=> Carries(batch[h], r) /\ (h = g => Carries(rest, r))
    BY <1>1 DEF Settles
  <2>2. \A r \in Request : /\ Carries(W, r) => Carries(batch[g], r)
                           /\ r \in A => Carries(batch[g], r)
                           /\ Carries(W, r) \/ r \in A => ~Carries(rest, r)
                           /\ Carries(W, r) => r \notin A
                           /\ Carries(batch[g], r) => Carries(W, r) \/ Carries(rest, r) \/ r \in A
    BY DEF Settles
  <2>3. \A r \in Request : \A h \in Generation : Carries(batch[h], r) /\ h # g
          => ~Carries(batch[g], r)
    BY DEF HeapsApart
  <2>4. \A r \in Request : InLoop(r)' <=> InLoop(r) /\ ~Carries(W, r) /\ r \notin A
    <3> TAKE r \in Request
    <3>1. ASSUME InLoop(r)' PROVE InLoop(r) /\ ~Carries(W, r) /\ r \notin A
      <4>1. PICK h \in Generation : Carries(batch'[h], r)
        BY <3>1 DEF InLoop
      <4> QED BY <2>1, <2>2, <2>3, <4>1 DEF InLoop
    <3>2. ASSUME InLoop(r), ~Carries(W, r), r \notin A PROVE InLoop(r)'
      <4>1. PICK h \in Generation : Carries(batch[h], r)
        BY <3>2 DEF InLoop
      <4>2. Carries(batch'[h], r)
        BY <2>1, <2>2, <3>2, <4>1
      <4> QED BY <4>2 DEF InLoop
    <3> QED BY <3>1, <3>2
  <2>5. owed' = owed \ A /\ intentOf' = intentOf
    BY DEF Settles
  <2>6. \A r \in Request : /\ r \in owed' <=> Carries(pendingWakes', r) \/ InLoop(r)'
                           /\ ~(Carries(pendingWakes', r) /\ InLoop(r)')
                           /\ intentOf'[r] = "none" => r \notin owed'
    BY <1>2, <1>3, <2>2, <2>4, <2>5 DEF HeapsApart
  <2>7. \A r \in Request : \A h, k \in Generation :
          Carries(batch'[h], r) /\ Carries(batch'[k], r) => h = k
    BY <2>1 DEF HeapsApart
  <2> QED BY <2>6, <2>7 DEF HeapsApart
<1> QED BY <1>5, <1>6, <1>7, <1>8

\* A wake that is not put back was answered for all its requests.
LEMMA AnsweredOrKept ==
  ASSUME Core, NEW g \in Generation, NEW w \in batch[g], NEW result \in Result,
         result \in ResultsFor(w)
  PROVE  Answered(w, result)
           = IF result = "threw" \/ RetainedWake(w, result) THEN {} ELSE w.requests
<1>1. w \in Wake /\ Shaped(w, intentOf)
  BY DEF Core, HeapsTidy, Tidy
<1>2. CASE result = "threw" \/ RetainedWake(w, result)
  BY <1>2 DEF Answered
<1>3. CASE ~(result = "threw" \/ RetainedWake(w, result))
  <2>1. result = "guard" => \A r \in w.requests : intentOf[r] = "scheduled"
    <3>1. result = "guard" => w.intent = "scheduled"
      BY <1>1, <1>3 DEF RetainedWake, ResultsFor, Wake, Intent
    <3> QED BY <1>1, <3>1 DEF Shaped
  <2> QED BY <1>3, <2>1 DEF Answered
<1> QED BY <1>2, <1>3

\* A wake that the loop puts back is one wake with the same requests, or none.
LEMMA KeptTidy ==
  ASSUME Core, NEW g \in Generation, NEW w \in batch[g], NEW result \in Result,
         result \in ResultsFor(w)
  PROVE  /\ Tidy(KeptWakes(g, w, result), intentOf)
         /\ \A r \in Request : Carries(KeptWakes(g, w, result), r)
              <=> r \in w.requests /\ r \notin Answered(w, result)
<1> DEFINE K == KeptWakes(g, w, result)
<1>1. w \in Wake /\ Shaped(w, intentOf) /\ ~w.waiting /\ g # 0
  BY DEF Core, HeapsTidy, Tidy, Generations
<1>2. Answered(w, result)
        = IF result = "threw" \/ RetainedWake(w, result) THEN {} ELSE w.requests
  BY AnsweredOrKept
<1>3. ASSUME NEW x, K = {x}, x \in Wake, Twin(x, w), GuardShape(x), Answered(w, result) = {}
      PROVE  /\ Tidy(K, intentOf)
             /\ \A r \in Request : Carries(K, r) <=> r \in w.requests /\ r \notin Answered(w, result)
  <2>1. Shaped(x, intentOf)
    BY <1>1, <1>3 DEF Twin, Shaped
  <2>2. Tidy({x}, intentOf)
    BY <1>3, <2>1, SingletonTidy
  <2>3. \A r \in Request : Carries({x}, r) <=> r \in w.requests
    BY <1>3 DEF Carries, Twin
  <2> QED BY <1>3, <2>2, <2>3
<1>4. CASE result \in {"busy", "threw"}
  <2> DEFINE x == [w EXCEPT !.guardBy = 0]
  <2>1. K = {x}
    BY <1>4 DEF KeptWakes
  <2>2. 0 \in Generation
    BY GenerationAssumption DEF Generation
  <2>3. x \in Wake
    BY <1>1, <2>2 DEF Wake
  <2>4. Twin(x, w) /\ x.guardBy = 0 /\ ~x.waiting
    BY <1>1 DEF Twin, Wake
  <2>5. Answered(w, result) = {}
    BY <1>2, <1>4 DEF RetainedWake
  <2> HIDE DEF x, K
  <2>6. GuardShape(x)
    BY <2>4 DEF GuardShape
  <2> QED BY <1>3, <2>1, <2>3, <2>4, <2>5, <2>6 DEF K
<1>5. CASE result \notin {"busy", "threw"} /\ RetainedWake(w, result)
  <2> DEFINE x == [w EXCEPT !.waiting = TRUE, !.guardBy = g]
  <2>1. K = {x}
    BY <1>5 DEF KeptWakes
  <2>2. x \in Wake
    BY <1>1 DEF Wake
  <2>3. Twin(x, w) /\ x.guardBy = g
    BY <1>1 DEF Twin, Wake
  <2>4. Answered(w, result) = {}
    BY <1>2, <1>5
  <2>5. w.intent # "manual"
    BY <1>5 DEF RetainedWake
  <2> HIDE DEF x, K
  <2>6. GuardShape(x)
    BY <1>1, <2>3, <2>5 DEF GuardShape, Twin
  <2> QED BY <1>3, <2>1, <2>2, <2>3, <2>4, <2>6 DEF K
<1>6. CASE result \notin {"busy", "threw"} /\ ~RetainedWake(w, result)
  <2>1. K = {} /\ Answered(w, result) = w.requests
    BY <1>2, <1>6 DEF KeptWakes
  <2> HIDE DEF K
  <2> QED BY <2>1 DEF Tidy, Carries, K
<1> QED BY <1>4, <1>5, <1>6

\* The loop of the registered handler.
LEMMA CoreLoopContinues ==
  ASSUME Core, NEW g \in Generation, NEW w \in batch[g], NEW result \in Result, NEW newer,
         HandlerReturns(g, w, result, newer), OwnGeneration(g)
  PROVE  Core'
<1> USE DEF Core
<1> DEFINE K == KeptWakes(g, w, result)
           rest == batch[g] \ {w}
           A == Answered(w, result)
           P == QueueWakes(pendingWakes, K, newer)
<1>1. /\ result \in ResultsFor(w)
      /\ LoopContinues(g, w, result, newer)
      /\ owed' = owed \ A
      /\ UNCHANGED <<handler, handlerGeneration, intentOf>>
  BY DEF HandlerReturns
<1>2. /\ batch' = [batch EXCEPT ![g] = rest]
      /\ pendingWakes' = P
      /\ blocked' \in {blocked, blocked \cup {w.target}}
      /\ (running' <=> running /\ rest # {})
      /\ (timer' <=> timer \/ K # {} \/ (rest = {} /\ P # {}))
  BY <1>1 DEF LoopContinues, SchedulePendingWakes
<1>3. running' \in BOOLEAN /\ timer' \in BOOLEAN
  BY <1>1 DEF LoopContinues, SchedulePendingWakes, TypeOK
<1>4. /\ Tidy(K, intentOf)
      /\ \A r \in Request : Carries(K, r) <=> r \in w.requests /\ r \notin A
  BY <1>1, KeptTidy
<1>5. A \subseteq w.requests /\ w.target \in Target
  BY DEF Answered, HeapsTidy, Tidy, Wake
<1> HIDE DEF K, A, P
<1>6. Settles(g, K, rest, A, newer)
  <2>1. \A r \in Request : Carries(batch[g], r) <=> r \in w.requests \/ Carries(rest, r)
    BY DEF Carries
  <2>2. \A r \in Request : ~(r \in w.requests /\ Carries(rest, r))
    BY DEF Carries, HeapsTidy, Tidy
  <2>3. rest \subseteq batch[g]
    OBVIOUS
  <2> HIDE DEF rest
  <2>4. \A r \in Request :
          /\ Carries(batch[g], r) <=> Carries(K, r) \/ Carries(rest, r) \/ r \in A
          /\ ~(Carries(K, r) /\ Carries(rest, r))
          /\ r \in A => ~Carries(K, r) /\ ~Carries(rest, r)
    BY <1>4, <1>5, <2>1, <2>2
  <2> QED BY <1>1, <1>2, <1>4, <2>3, <2>4 DEF Settles, P
<1>7. /\ HeapsTidy' /\ HeapsApart' /\ pendingWakes' \subseteq Wake
      /\ batch' \in [Generation -> SUBSET Wake] /\ owed' \subseteq Request
  BY <1>6, SettlesHeaps
<1>8. TypeOK'
  BY <1>1, <1>2, <1>3, <1>5, <1>7 DEF TypeOK
<1>9. \A h \in Generation : batch'[h] = IF h = g THEN rest ELSE batch[h]
  BY <1>2 DEF TypeOK
<1>10. Generations'
  BY <1>1, <1>9 DEF Generations
<1>11. g = handlerGeneration
  BY DEF OwnGeneration
<1>12. RunningHasOwner'
  BY <1>1, <1>2, <1>9, <1>11 DEF RunningHasOwner
<1>13. PendingIsScheduled'
  BY <1>1, <1>2, <1>11 DEF PendingIsScheduled, RunningHasOwner
<1> QED BY <1>7, <1>8, <1>10, <1>12, <1>13

\* The loop of a handler that was replaced hands the rest of its batch over.
LEMMA CoreLoopHandsOff ==
  ASSUME Core, NEW g \in Generation, NEW w \in batch[g], NEW result \in Result, NEW newer,
         HandlerReturns(g, w, result, newer), ~OwnGeneration(g)
  PROVE  Core'
<1> USE DEF Core
<1> DEFINE W == HandedOff(g, w, result)
           A == Answered(w, result)
           P == QueueWakes(pendingWakes, W, newer)
<1>1. /\ result \in ResultsFor(w)
      /\ LoopHandsOff(g, w, result, newer)
      /\ owed' = owed \ A
      /\ UNCHANGED <<handler, handlerGeneration, intentOf>>
  BY DEF HandlerReturns
<1>2. /\ batch' = [batch EXCEPT ![g] = {}]
      /\ pendingWakes' = P
      /\ (timer' <=> timer \/ (handler /\ W # {} /\ P # {}))
      /\ UNCHANGED <<blocked, running>>
  BY <1>1 DEF LoopHandsOff, SchedulePendingWakes
<1>3. timer' \in BOOLEAN
  BY <1>1 DEF LoopHandsOff, SchedulePendingWakes, TypeOK
<1>4. \/ W = batch[g] /\ A = {}
      \/ W = batch[g] \ {w} /\ A = w.requests
  <2>1. A = IF result = "threw" \/ RetainedWake(w, result) THEN {} ELSE w.requests
    BY <1>1, AnsweredOrKept
  <2> HIDE DEF A
  <2> QED BY <2>1 DEF HandedOff
<1> HIDE DEF W, A, P
<1>5. Tidy(W, intentOf)
  <2>1. W \subseteq batch[g] /\ Tidy(batch[g], intentOf)
    BY <1>4 DEF HeapsTidy
  <2> QED BY <2>1, SubsetTidy
<1>6. Settles(g, W, {}, A, newer)
  <2>1. \A r \in Request : Carries(batch[g], r) <=> r \in w.requests \/ Carries(batch[g] \ {w}, r)
    BY DEF Carries
  <2>2. \A r \in Request : ~(r \in w.requests /\ Carries(batch[g] \ {w}, r))
    BY DEF Carries, HeapsTidy, Tidy
  <2>3. \A r \in Request : ~Carries({}, r)
    BY DEF Carries
  <2>4. \A r \in Request :
          /\ Carries(batch[g], r) <=> Carries(W, r) \/ Carries({}, r) \/ r \in A
          /\ ~(Carries(W, r) /\ Carries({}, r))
          /\ r \in A => ~Carries(W, r) /\ ~Carries({}, r)
    BY <1>4, <2>1, <2>2, <2>3
  <2> QED BY <1>1, <1>2, <1>5, <2>4 DEF Settles, P
<1>7. /\ HeapsTidy' /\ HeapsApart' /\ pendingWakes' \subseteq Wake
      /\ batch' \in [Generation -> SUBSET Wake] /\ owed' \subseteq Request
  BY <1>6, SettlesHeaps
<1>8. TypeOK'
  BY <1>1, <1>2, <1>3, <1>7 DEF TypeOK
<1>9. \A h \in Generation : batch'[h] = IF h = g THEN {} ELSE batch[h]
  BY <1>2 DEF TypeOK
<1>10. Generations'
  BY <1>1, <1>9 DEF Generations
<1>11. g # handlerGeneration /\ handlerGeneration \in Generation
  BY DEF OwnGeneration, TypeOK
<1>12. RunningHasOwner'
  BY <1>1, <1>2, <1>9, <1>11 DEF RunningHasOwner
<1>13. PendingIsScheduled'
  <2>1. CASE W = {}
    <3>1. pendingWakes' = pendingWakes
      BY <1>2, <2>1, QueueNothing DEF P
    <3> QED BY <1>1, <1>2, <3>1 DEF PendingIsScheduled
  <2>2. CASE W # {}
    BY <1>1, <1>2, <2>2 DEF PendingIsScheduled
  <2> QED BY <2>1, <2>2
<1> QED BY <1>7, <1>8, <1>10, <1>12, <1>13

\* Every step preserves the invariant.
LEMMA CoreStep ==
  ASSUME Proper, Core, [Next]_vars
  PROVE  Core'
<1>1. CASE UNCHANGED vars
  BY <1>1 DEF Core, TypeOK, HeapsTidy, HeapsApart, InLoop, Carries, Generations,
              RunningHasOwner, PendingIsScheduled, vars
<1>2. ASSUME NEW r \in Request, NEW t \in Target, NEW i \in Intent, NEW p \in Priorities(i),
             RequestHeartbeat(r, t, i, p)
      PROVE  Core'
  BY <1>2, CoreRequest
<1>3. CASE SetHeartbeatWakeHandler
  BY <1>3, CoreSetHandler
<1>4. CASE DisposeHandler
  BY <1>4, CoreDispose
<1>5. ASSUME NEW t \in Target, BackoffElapses(t) PROVE Core'
  BY <1>5, CoreBackoffElapses
<1>6. ASSUME NEW w \in pendingWakes, GuardElapses(w) PROVE Core'
  BY <1>6, CoreGuardElapses
<1>7. CASE TimerFires
  BY <1>7, CoreTimerFires
<1>8. ASSUME NEW g \in Generation, NEW w \in batch[g], NEW result \in Result,
             NEW newer \in SUBSET Target, HandlerReturns(g, w, result, newer)
      PROVE  Core'
  BY <1>8, CoreLoopContinues, CoreLoopHandsOff
<1> QED BY <1>1, <1>2, <1>3, <1>4, <1>5, <1>6, <1>7, <1>8 DEF Next

-----------------------------------------------------------------------------
(* Theorems *)

\* The heaps of the wake queue stay tidy and apart whatever the handlers answer, as long
\* as no event comes with source "retry".
THEOREM WakeCore ==
  ASSUME Proper
  PROVE  Spec => []Core
<1>1. Init => Core
  BY CoreInit
<1>2. Core /\ [Next]_vars => Core'
  BY CoreStep
<1> QED BY <1>1, <1>2, PTL DEF Spec

\* Every variable of the wake queue keeps its type.
THEOREM WakeTypes ==
  ASSUME Proper
  PROVE  Spec => []TypeOK
<1>1. Core => TypeOK
  BY DEF Core
<1> QED BY <1>1, WakeCore, PTL

\* `running` is owned by the loop of the registered handler, for any number of
\* replacements in any order with late answers.
THEOREM RunningIsOwned ==
  ASSUME Proper
  PROVE  Spec => []RunningHasOwner
<1>1. Core => RunningHasOwner
  BY DEF Core
<1> QED BY <1>1, WakeCore, PTL

\* A pending wake is never forgotten by the timers of a registered handler.
THEOREM NoForgottenWake ==
  ASSUME Proper
  PROVE  Spec => []PendingIsScheduled
<1>1. Core => PendingIsScheduled
  BY DEF Core
<1> QED BY <1>1, WakeCore, PTL

\* The running flag has its owner and no pending wake is left without a timer or a loop.
THEOREM LoopAlwaysOwned ==
  ASSUME Proper
  PROVE  Spec => []LoopOwned
<1>1. RunningHasOwner /\ PendingIsScheduled => LoopOwned
  BY DEF LoopOwned
<1> QED BY <1>1, RunningIsOwned, NoForgottenWake, PTL

\* Coalescing leaves one pending wake per target and class.
THEOREM CoalescedPerSlot ==
  ASSUME Proper
  PROVE  Spec => []OneWakePerSlot
<1>1. Core => OneWakePerSlot
  BY DEF Core, HeapsTidy, Tidy, SameSlot, OneWakePerSlot
<1> QED BY <1>1, WakeCore, PTL

\* Retries, guards, errors and replaced handlers neither lose nor double a request.
THEOREM NoWakeLostOrDoubled ==
  ASSUME Proper
  PROVE  Spec => []RequestsCarriedOnce
<1>1. Core => RequestsCarriedOnce
  BY DEF Core, HeapsTidy, HeapsApart, Tidy, Carries, InLoop, RequestsCarriedOnce
<1> QED BY <1>1, WakeCore, PTL

\* No guard holds back a manual wake.
THEOREM ManualIsFree ==
  ASSUME Proper
  PROVE  Spec => []ManualNeverGuarded
<1>1. Core => ManualNeverGuarded
  BY DEF Core, HeapsTidy, Tidy, Shaped, GuardShape, ManualNeverGuarded
<1> QED BY <1>1, WakeCore, PTL

\* The only change to the batch of a replaced handler is that its loop lets all of it go
\* (the generation check of schedule).
THEOREM ReplacedHandlerStops ==
  ASSUME Proper
  PROVE  Spec => ReplacedHandlerStopsNow
<1> DEFINE Stops == \A g \in Generation :
             g # handlerGeneration /\ batch'[g] # batch[g] => batch'[g] = {}
<1>1. TypeOK /\ [Next]_vars => [Stops]_vars
  <2> SUFFICES ASSUME TypeOK, Next PROVE Stops
    OBVIOUS
  <2>1. \/ UNCHANGED batch
        \/ TimerFires
        \/ \E g \in Generation : \E w \in batch[g], result \in Result, newer \in SUBSET Target :
             HandlerReturns(g, w, result, newer)
    BY DEF Next, RequestHeartbeat, SetHeartbeatWakeHandler, DisposeHandler, BackoffElapses,
           GuardElapses
  <2>2. CASE UNCHANGED batch
    BY <2>2
  <2>3. CASE TimerFires
    BY <2>3 DEF TimerFires, TypeOK
  <2>4. ASSUME NEW g \in Generation, NEW w \in batch[g], NEW result \in Result,
               NEW newer \in SUBSET Target, HandlerReturns(g, w, result, newer)
        PROVE  Stops
    <3>1. CASE OwnGeneration(g)
      <4>1. batch' = [batch EXCEPT ![g] = batch[g] \ {w}] /\ g = handlerGeneration
        BY <2>4, <3>1 DEF HandlerReturns, LoopContinues, OwnGeneration
      <4> QED BY <4>1 DEF TypeOK
    <3>2. CASE ~OwnGeneration(g)
      <4>1. batch' = [batch EXCEPT ![g] = {}]
        BY <2>4, <3>2 DEF HandlerReturns, LoopHandsOff
      <4> QED BY <4>1 DEF TypeOK
    <3> QED BY <3>1, <3>2
  <2> QED BY <2>1, <2>2, <2>3, <2>4
<1> QED BY <1>1, WakeTypes, PTL DEF Spec, ReplacedHandlerStopsNow
=============================================================================
