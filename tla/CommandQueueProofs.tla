------------------------- MODULE CommandQueueProofs -------------------------
(***************************************************************************)
(* Machine-checked proofs about CommandQueue, for every set of lanes,      *)
(* entries, objects and waiters and every limit.                           *)
(***************************************************************************)
EXTENDS CommandQueue, FiniteSetTheorems, SequenceTheorems, WellFoundedInduction,
        TLAPS

\* The pump starts no more entries than are queued, and none when the lane is full.
LEMMA PumpCountType ==
  ASSUME NEW q \in Seq(Entry), NEW a \in SUBSET Entry, NEW m \in Nat
  PROVE  /\ PumpCount(q, a, m) \in 0..Len(q)
         /\ Cardinality(a) \in Nat
         /\ PumpCount(q, a, m) > 0 => PumpCount(q, a, m) + Cardinality(a) <= m
         /\ PumpCount(q, a, m) < Len(q) => PumpCount(q, a, m) + Cardinality(a) >= m
<1>1. IsFiniteSet(a)
  BY FS_Subset, EntriesAssumption
<1>2. Cardinality(a) \in Nat
  BY <1>1, FS_CardinalityType
<1> QED
  BY <1>2 DEF PumpCount

\* What stays queued keeps its order, and the queue splits into what starts and what stays.
LEMMA RemainingProperties ==
  ASSUME NEW q \in Seq(Entry), NEW a \in SUBSET Entry, NEW m \in Nat
  PROVE  /\ Remaining(q, a, m) \in Seq(Entry)
         /\ Len(Remaining(q, a, m)) = Len(q) - PumpCount(q, a, m)
         /\ \A i \in 1..Len(Remaining(q, a, m)) :
              /\ i + PumpCount(q, a, m) \in 1..Len(q)
              /\ Remaining(q, a, m)[i] = q[i + PumpCount(q, a, m)]
<1> DEFINE n == PumpCount(q, a, m)
<1>1. n \in 0..Len(q) /\ Len(q) \in Nat
  <2>1. Len(q) \in Nat
    BY LenProperties
  <2> QED BY <2>1, PumpCountType
<1> HIDE DEF n
<1>2. SubSeq(q, n + 1, Len(q)) = [i \in 1..(Len(q) - n) |-> q[i + n]]
  BY <1>1
<1>3. \A i \in 1..(Len(q) - n) : i + n \in 1..Len(q) /\ q[i + n] \in Entry
  BY <1>1
<1>4. [i \in 1..(Len(q) - n) |-> q[i + n]] \in Seq(Entry)
  BY <1>1, <1>3, IsASeq
<1>5. Len(SubSeq(q, n + 1, Len(q))) = Len(q) - n
  BY <1>1, <1>2, <1>4
<1> QED
  BY <1>1, <1>2, <1>3, <1>4, <1>5 DEF Remaining, n

\* Starting n distinct entries that hold no slot occupies n further slots.
LEMMA SlotCount ==
  ASSUME NEW q \in Seq(Entry), NEW a \in SUBSET Entry, NEW m \in Nat,
         \A i, j \in 1..Len(q) : q[i] = q[j] => i = j,
         \A i \in 1..Len(q) : q[i] \notin a
  PROVE  Cardinality(a \cup Dequeued(q, a, m)) = Cardinality(a) + PumpCount(q, a, m)
<1> DEFINE n == PumpCount(q, a, m)
           D == {q[i] : i \in 1..n}
           f == [i \in 1..n |-> q[i]]
<1>1. n \in 0..Len(q) /\ Len(q) \in Nat
  <2>1. Len(q) \in Nat
    BY LenProperties
  <2> QED BY <2>1, PumpCountType
<1> HIDE DEF n
<1>2. f \in Bijection(1..n, D)
  <2>1. f \in [1..n -> D]
    OBVIOUS
  <2>2. \A i, j \in 1..n : f[i] = f[j] => i = j
    BY <1>1
  <2>3. \A d \in D : \E i \in 1..n : f[i] = d
    OBVIOUS
  <2> QED
    BY <2>1, <2>2, <2>3 DEF Bijection, Injection, Surjection, IsInjective
<1>3. IsFiniteSet(1..n) /\ Cardinality(1..n) = n
  BY <1>1, FS_Interval
<1>4. IsFiniteSet(D) /\ Cardinality(D) = n
  BY <1>2, <1>3, FS_Bijection DEF ExistsBijection
<1>5. IsFiniteSet(a) /\ Cardinality(a) \in Nat
  BY FS_Subset, EntriesAssumption, FS_CardinalityType
<1>6. a \cap D = {}
  BY <1>1
<1>7. Cardinality(a \cup D) = Cardinality(a) + Cardinality(D) - Cardinality(a \cap D)
  BY <1>4, <1>5, FS_Union
<1>8. Cardinality(a \cap D) = 0
  BY <1>6, FS_EmptySet
<1>9. Cardinality(a \cup D) = Cardinality(a) + n
  <2> HIDE DEF D
  <2> QED BY <1>1, <1>4, <1>5, <1>7, <1>8
<1> QED
  BY <1>9 DEF Dequeued, n

\* Every queued entry either starts or stays, never both, and none is duplicated.
LEMMA PumpSplits ==
  ASSUME NEW q \in Seq(Entry), NEW a \in SUBSET Entry, NEW m \in Nat,
         \A i, j \in 1..Len(q) : q[i] = q[j] => i = j
  PROVE  /\ \A e \in Dequeued(q, a, m) : e \in Entry /\ \E i \in 1..Len(q) : q[i] = e
         /\ \A e : (\E i \in 1..Len(Remaining(q, a, m)) : Remaining(q, a, m)[i] = e)
                    <=> (\E i \in 1..Len(q) : q[i] = e) /\ e \notin Dequeued(q, a, m)
         /\ \A i, j \in 1..Len(Remaining(q, a, m)) :
              Remaining(q, a, m)[i] = Remaining(q, a, m)[j] => i = j
<1> DEFINE n == PumpCount(q, a, m)
           r == Remaining(q, a, m)
<1>1. n \in 0..Len(q) /\ Len(q) \in Nat
  <2>1. Len(q) \in Nat
    BY LenProperties
  <2> QED BY <2>1, PumpCountType
<1>2. /\ Len(r) = Len(q) - n
      /\ \A i \in 1..Len(r) : i + n \in 1..Len(q) /\ r[i] = q[i + n]
  BY RemainingProperties
<1>3. Dequeued(q, a, m) = {q[i] : i \in 1..n}
  BY DEF Dequeued
<1> HIDE DEF n, r
<1>4. \A e \in Dequeued(q, a, m) : e \in Entry /\ \E i \in 1..Len(q) : q[i] = e
  BY <1>1, <1>3
<1>5. \A e : (\E i \in 1..Len(r) : r[i] = e)
             => (\E i \in 1..Len(q) : q[i] = e) /\ e \notin Dequeued(q, a, m)
  <2> SUFFICES ASSUME NEW i \in 1..Len(r)
               PROVE  /\ \E k \in 1..Len(q) : q[k] = r[i]
                      /\ \A k \in 1..n : q[k] # r[i]
    BY <1>3
  <2>1. i + n \in 1..Len(q) /\ r[i] = q[i + n]
    BY <1>2
  <2>2. \A k \in 1..n : k \in 1..Len(q) /\ k # i + n
    BY <1>1, <1>2
  <2> QED BY <2>1, <2>2
<1>6. ASSUME NEW k \in 1..Len(q), q[k] \notin Dequeued(q, a, m)
      PROVE  \E i \in 1..Len(r) : r[i] = q[k]
  <2>1. k \notin 1..n
    BY <1>3, <1>6
  <2>2. k - n \in 1..Len(r) /\ (k - n) + n = k
    BY <1>1, <1>2, <2>1
  <2> QED BY <1>2, <2>2
<1>7. \A i, j \in 1..Len(r) : r[i] = r[j] => i = j
  <2> SUFFICES ASSUME NEW i \in 1..Len(r), NEW j \in 1..Len(r), r[i] = r[j]
               PROVE  i = j
    OBVIOUS
  <2>1. i + n = j + n
    BY <1>2
  <2> QED BY <1>1, <1>2, <2>1
<1> QED
  BY <1>4, <1>5, <1>6, <1>7 DEF r

\* A nonempty set of naturals has a least element.
LEMMA LeastNatural ==
  ASSUME NEW T \in SUBSET Nat, T # {}
  PROVE  \E x \in T : \A y \in T : x <= y
<1>1. PICK x \in T : \A y \in T : <<y, x>> \notin OpToRel(<, Nat)
  BY NatLessThanWellFounded, WFMin
<1>2. \A y \in T : ~(y < x)
  BY <1>1 DEF OpToRel
<1> QED BY <1>2

\* enqueueLaneEntry finds a position of the queue or its end, with nothing of lower
\* priority in front of it and something of lower priority at it.
LEMMA InsertionPointProperties ==
  ASSUME NEW q \in Seq(Entry), NEW p \in -1..1, priority \in [Entry -> -1..1]
  PROVE  /\ InsertionPoint(q, p) \in 1..(Len(q) + 1)
         /\ \A j \in 1..Len(q) : j < InsertionPoint(q, p) => priority[q[j]] >= p
         /\ InsertionPoint(q, p) <= Len(q) => priority[q[InsertionPoint(q, p)]] < p
<1>0. Len(q) \in Nat /\ \A i \in 1..Len(q) : priority[q[i]] \in -1..1
  BY LenProperties
<1>1. CASE \E i \in 1..Len(q) : priority[q[i]] < p
  <2> DEFINE T == {i \in 1..Len(q) : priority[q[i]] < p}
             P(i) == /\ priority[q[i]] < p
                     /\ \A j \in 1..(i - 1) : ~(priority[q[j]] < p)
  <2>1. T \in SUBSET Nat /\ T # {}
    <3>1. T \in SUBSET Nat
      BY <1>0
    <3>2. PICK i \in 1..Len(q) : priority[q[i]] < p
      BY <1>1
    <3>3. i \in T
      BY <3>2
    <3> QED BY <3>1, <3>3
  <2>2. PICK x \in T : \A y \in T : x <= y
    <3> HIDE DEF T
    <3> QED BY <2>1, LeastNatural
  <2>3. x \in 1..Len(q) /\ P(x)
    BY <1>0, <2>2
  <2>4. InsertionPoint(q, p) = CHOOSE i \in 1..Len(q) : P(i)
    BY <1>1 DEF InsertionPoint
  <2>5. InsertionPoint(q, p) \in 1..Len(q) /\ P(InsertionPoint(q, p))
    <3> HIDE DEF P
    <3> QED BY <2>3, <2>4
  <2> QED BY <1>0, <2>5
<1>2. CASE ~ \E i \in 1..Len(q) : priority[q[i]] < p
  <2>1. InsertionPoint(q, p) = Len(q) + 1
    BY <1>2 DEF InsertionPoint
  <2> QED BY <1>0, <1>2, <2>1
<1> QED BY <1>1, <1>2

\* r is q with the entry e, which q does not hold, added to it.
Splices(q, e) == /\ \A i \in 1..Len(q) : q[i] # e
                 /\ \A i, j \in 1..Len(q) : q[i] = q[j] => i = j

Spliced(q, e, r) == /\ r \in Seq(Entry)
                    /\ Len(r) = Len(q) + 1
                    /\ \A f : (\E i \in 1..Len(r) : r[i] = f)
                               <=> f = e \/ \E i \in 1..Len(q) : q[i] = f
                    /\ \A i, j \in 1..Len(r) : r[i] = r[j] => i = j

\* Splicing an entry in adds exactly that entry to the queue.
LEMMA EnqueueLaneEntryProperties ==
  ASSUME NEW q \in Seq(Entry), NEW e \in Entry, NEW p \in -1..1,
         priority \in [Entry -> -1..1], Splices(q, e)
  PROVE  Spliced(q, e, EnqueueLaneEntry(q, e, p))
<1> /\ \A i \in 1..Len(q) : q[i] # e
    /\ \A i, j \in 1..Len(q) : q[i] = q[j] => i = j
  BY DEF Splices
<1> DEFINE at == InsertionPoint(q, p)
           r == EnqueueLaneEntry(q, e, p)
<1>1. at \in 1..(Len(q) + 1) /\ Len(q) \in Nat
  BY InsertionPointProperties, LenProperties
<1>2. r = [i \in 1..(Len(q) + 1) |->
             IF i < at THEN q[i] ELSE IF i = at THEN e ELSE q[i - 1]]
  BY DEF EnqueueLaneEntry
<1> HIDE DEF at, r
<1>3. \A i \in 1..(Len(q) + 1) :
        /\ i < at => i \in 1..Len(q) /\ r[i] = q[i]
        /\ i = at => r[i] = e
        /\ i > at => i - 1 \in 1..Len(q) /\ r[i] = q[i - 1]
  BY <1>1, <1>2
<1>4. \A i \in 1..(Len(q) + 1) : r[i] \in Entry
  BY <1>1, <1>3
<1>5. r \in Seq(Entry) /\ Len(r) = Len(q) + 1
  BY <1>1, <1>2, <1>4, IsASeq
<1>6. \A f : (\E i \in 1..(Len(q) + 1) : r[i] = f)
             => f = e \/ \E i \in 1..Len(q) : q[i] = f
  BY <1>1, <1>3
<1>7. \E i \in 1..(Len(q) + 1) : r[i] = e
  BY <1>1, <1>3
<1>8. ASSUME NEW k \in 1..Len(q)
      PROVE  \E i \in 1..(Len(q) + 1) : r[i] = q[k]
  <2>1. CASE k < at
    BY <1>1, <1>3, <2>1
  <2>2. CASE k >= at
    <3>1. k + 1 \in 1..(Len(q) + 1) /\ k + 1 > at /\ (k + 1) - 1 = k
      BY <1>1, <2>2
    <3> QED BY <1>3, <3>1
  <2> QED BY <1>1, <2>1, <2>2
<1>9. ASSUME NEW i \in 1..(Len(q) + 1), NEW j \in 1..(Len(q) + 1), r[i] = r[j]
      PROVE  i = j
  <2>1. i = at => j = at
    BY <1>1, <1>3, <1>9
  <2>2. j = at => i = at
    BY <1>1, <1>3, <1>9
  <2>3. CASE i < at /\ j < at
    BY <1>1, <1>3, <1>9, <2>3
  <2>4. CASE i > at /\ j > at
    BY <1>1, <1>3, <1>9, <2>4
  <2>5. CASE i < at /\ j > at
    <3>1. i = j - 1
      BY <1>1, <1>3, <1>9, <2>5
    <3> QED BY <1>1, <2>5, <3>1
  <2>6. CASE i > at /\ j < at
    <3>1. i - 1 = j
      BY <1>1, <1>3, <1>9, <2>6
    <3> QED BY <1>1, <2>6, <3>1
  <2> QED BY <1>1, <2>1, <2>2, <2>3, <2>4, <2>5, <2>6
<1> QED
  BY <1>5, <1>6, <1>7, <1>8, <1>9 DEF Spliced, r

-----------------------------------------------------------------------------
(* The pump as a whole *)

\* SlotsOwned and QueuedExactlyOnce of the values a handler hands to drainLane.
Owned(a, ph, pl, g) ==
  \A o \in Object, e \in Entry :
    e \in a[o] <=> ph[e] = "running" /\ pl[e] = o /\ taskGeneration[e] = g[o]

Lined(q, ph, pl) ==
  \A o \in Object :
    /\ \A e \in Entry : (\E i \in 1..Len(q[o]) : q[o][i] = e)
                         <=> ph[e] = "queued" /\ pl[e] = o
    /\ \A i, j \in 1..Len(q[o]) : q[o][i] = q[o][j] => i = j

\* What a handler hands to drainLane.
Handed(objs, map, q, a, m, g, ph, t, b) ==
  /\ objs \in SUBSET Object /\ map \in [Lane -> Object \cup {Nil}]
  /\ q \in [Object -> Seq(Entry)] /\ a \in [Object -> SUBSET Entry]
  /\ m \in [Object -> Nat] /\ g \in [Object -> Nat]
  /\ ph \in [Entry -> Phase] /\ t \in [Entry -> Timer]
  /\ b \in [Entry -> {"idle", "running", "done"}]
  /\ taskGeneration \in [Entry -> Nat]
  /\ place' \in [Entry -> Object \cup {Nil}]
  /\ Owned(a, ph, place', g)
  /\ Lined(q, ph, place')

\* What drainLane does to slots and queues.
Drained(objs, q, a, m) ==
  /\ lanes' \in [Lane -> Object \cup {Nil}]
  /\ queue' \in [Object -> Seq(Entry)]
  /\ activeTaskIds' \in [Object -> SUBSET Entry]
  /\ maxConcurrent' \in [Object -> Nat]
  /\ generation' \in [Object -> Nat]
  /\ phase' \in [Entry -> Phase]
  /\ taskGeneration' \in [Entry -> Nat]
  /\ timer' \in [Entry -> Timer]
  /\ body' \in [Entry -> {"idle", "running", "done"}]
  /\ SlotsOwned'
  /\ QueuedExactlyOnce'
  /\ \A o \in objs :
       /\ queue'[o] # <<>> => Cardinality(activeTaskIds'[o]) >= m[o]
       /\ ~(activeTaskIds'[o] \subseteq a[o])
            => Cardinality(activeTaskIds'[o]) <= m[o]
  /\ \A o \in Object \ objs : queue'[o] = q[o] /\ activeTaskIds'[o] = a[o]
  /\ \A o \in Object : a[o] \subseteq activeTaskIds'[o]

\* What it does to the Map and to the entries.
Unbound(objs, map, q, a, m, ph) ==
  /\ \A l \in Lane : lanes'[l] \in {map[l], Nil}
  /\ \A l \in Lane : map[l] \in Object /\ lanes'[l] # map[l] =>
       queue'[map[l]] = <<>> /\ activeTaskIds'[map[l]] = {}
  /\ \A l \in Lane : map[l] \in objs /\ lanes'[l] = map[l] =>
       ~ Retires(map[l], queue'[map[l]], activeTaskIds'[map[l]], m[map[l]])
  /\ \A e \in Entry : \/ phase'[e] = ph[e] /\ taskGeneration'[e] = taskGeneration[e]
                      \/ /\ ph[e] = "queued" /\ phase'[e] = "running"
                         /\ place'[e] \in objs
                         /\ taskGeneration'[e] = generation'[place'[e]]
  /\ \A o \in Object : q[o] = <<>> => queue'[o] = <<>> /\ activeTaskIds'[o] = a[o]

\* drainLane keeps the types, the ownership of slots and the exactness of the queues,
\* and leaves every drained lane saturated and within its limit.
LEMMA DrainLanesPreserves ==
  ASSUME NEW objs, NEW map, NEW q, NEW a, NEW m, NEW g, NEW ph, NEW t, NEW b,
         Handed(objs, map, q, a, m, g, ph, t, b),
         DrainLanes(objs, map, q, a, m, g, ph, t, b)
  PROVE  Drained(objs, q, a, m)
<1> /\ objs \in SUBSET Object /\ map \in [Lane -> Object \cup {Nil}]
    /\ q \in [Object -> Seq(Entry)] /\ a \in [Object -> SUBSET Entry]
    /\ m \in [Object -> Nat] /\ g \in [Object -> Nat]
    /\ ph \in [Entry -> Phase] /\ t \in [Entry -> Timer]
    /\ b \in [Entry -> {"idle", "running", "done"}]
    /\ taskGeneration \in [Entry -> Nat]
    /\ place' \in [Entry -> Object \cup {Nil}]
    /\ Owned(a, ph, place', g)
    /\ Lined(q, ph, place')
  BY DEF Handed
<1> DEFINE Deq(o) == Dequeued(q[o], a[o], m[o])
           Rem(o) == Remaining(q[o], a[o], m[o])
           Started == UNION {Deq(o) : o \in objs}
<1>1. /\ queue' = [o \in Object |-> IF o \in objs THEN Rem(o) ELSE q[o]]
      /\ activeTaskIds' = [o \in Object |-> IF o \in objs THEN a[o] \cup Deq(o) ELSE a[o]]
      /\ maxConcurrent' = m
      /\ generation' = g
      /\ phase' = [e \in Entry |-> IF e \in Started THEN "running" ELSE ph[e]]
      /\ taskGeneration' = [e \in Entry |->
            IF e \in Started THEN g[place'[e]] ELSE taskGeneration[e]]
      /\ timer' = [e \in Entry |-> IF e \in Started THEN ArmedTimer(e) ELSE t[e]]
      /\ body' = [e \in Entry |-> IF e \in Started THEN "running" ELSE b[e]]
  BY DEF DrainLanes
<1>2. ASSUME NEW o \in Object
      PROVE  /\ \A e \in Deq(o) : e \in Entry /\ ph[e] = "queued" /\ place'[e] = o
             /\ \A e \in Entry : (\E i \in 1..Len(Rem(o)) : Rem(o)[i] = e)
                    <=> ph[e] = "queued" /\ place'[e] = o /\ e \notin Deq(o)
             /\ \A i, j \in 1..Len(Rem(o)) : Rem(o)[i] = Rem(o)[j] => i = j
             /\ Rem(o) \in Seq(Entry)
  <2>1. /\ q[o] \in Seq(Entry) /\ a[o] \in SUBSET Entry /\ m[o] \in Nat
        /\ \A i, j \in 1..Len(q[o]) : q[o][i] = q[o][j] => i = j
        /\ \A e \in Entry : (\E i \in 1..Len(q[o]) : q[o][i] = e)
                         <=> ph[e] = "queued" /\ place'[e] = o
    BY DEF Lined
  <2>2. /\ \A e \in Deq(o) : e \in Entry /\ \E i \in 1..Len(q[o]) : q[o][i] = e
        /\ \A e : (\E i \in 1..Len(Rem(o)) : Rem(o)[i] = e)
                   <=> (\E i \in 1..Len(q[o]) : q[o][i] = e) /\ e \notin Deq(o)
        /\ \A i, j \in 1..Len(Rem(o)) : Rem(o)[i] = Rem(o)[j] => i = j
    BY <2>1, PumpSplits
  <2>3. Rem(o) \in Seq(Entry)
    BY <2>1, RemainingProperties
  <2> HIDE DEF Deq, Rem
  <2> QED BY <2>1, <2>2, <2>3
<1> HIDE DEF Deq, Rem
<1>3. \A o \in Object : \A e \in Entry :
        e \in Deq(o) => ph[e] = "queued" /\ place'[e] = o
  BY <1>2
<1>4. \A e \in Entry : e \in Started <=> (\E o \in objs : e \in Deq(o))
  OBVIOUS
<1> HIDE DEF Started
<1>5. \A e \in Entry : e \in Started => /\ place'[e] \in objs
                                        /\ e \in Deq(place'[e])
                                        /\ ph[e] = "queued"
  BY <1>3, <1>4
<1>6. lanes' \in [Lane -> Object \cup {Nil}]
  BY DEF DrainLanes
<1>7. /\ queue' \in [Object -> Seq(Entry)]
      /\ activeTaskIds' \in [Object -> SUBSET Entry]
      /\ maxConcurrent' \in [Object -> Nat]
      /\ generation' \in [Object -> Nat]
  BY <1>1, <1>2
<1>8. /\ phase' \in [Entry -> Phase]
      /\ taskGeneration' \in [Entry -> Nat]
      /\ body' \in [Entry -> {"idle", "running", "done"}]
  BY <1>1, <1>5 DEF Phase
<1>9. timer' \in [Entry -> Timer]
  BY <1>1 DEF Timer, ArmedTimer
<1>10. SlotsOwned'
  <2> SUFFICES ASSUME NEW o \in Object, NEW e \in Entry
               PROVE  e \in activeTaskIds'[o] <=> /\ phase'[e] = "running"
                                                  /\ place'[e] = o
                                                  /\ taskGeneration'[e] = generation'[o]
    BY DEF SlotsOwned
  <2>1. e \in a[o] <=> ph[e] = "running" /\ place'[e] = o /\ taskGeneration[e] = g[o]
    BY DEF Owned
  <2>2. CASE e \in Started
    <3>1. ph[e] # "running" /\ place'[e] \in objs /\ e \in Deq(place'[e])
      BY <1>5, <2>2
    <3>2. e \in activeTaskIds'[o] <=> place'[e] = o
      BY <1>1, <1>3, <2>1, <3>1
    <3> QED BY <1>1, <2>2, <3>2
  <2>3. CASE e \notin Started
    <3>1. o \in objs => e \notin Deq(o)
      BY <1>4, <2>3
    <3> QED BY <1>1, <2>1, <2>3, <3>1
  <2> QED BY <2>2, <2>3
<1>11. QueuedExactlyOnce'
  <2> SUFFICES ASSUME NEW o \in Object
               PROVE  /\ \A e \in Entry : (\E i \in 1..Len(queue'[o]) : queue'[o][i] = e)
                                       <=> phase'[e] = "queued" /\ place'[e] = o
                      /\ \A i, j \in 1..Len(queue'[o]) : queue'[o][i] = queue'[o][j] => i = j
    BY DEF QueuedExactlyOnce
  <2>1. \A e \in Entry : place'[e] = o =>
          (phase'[e] = "queued" <=> ph[e] = "queued" /\ ~(o \in objs /\ e \in Deq(o)))
    BY <1>1, <1>4, <1>5
  <2>2. CASE o \in objs
    BY <1>1, <1>2, <2>1, <2>2
  <2>3. CASE o \notin objs
    <3>1. queue'[o] = q[o]
      BY <1>1, <2>3
    <3>2. /\ \A e \in Entry : (\E i \in 1..Len(q[o]) : q[o][i] = e)
                         <=> ph[e] = "queued" /\ place'[e] = o
          /\ \A i, j \in 1..Len(q[o]) : q[o][i] = q[o][j] => i = j
      BY DEF Lined
    <3> QED BY <2>1, <2>3, <3>1, <3>2
  <2> QED BY <2>2, <2>3
<1>12. ASSUME NEW o \in objs
       PROVE  /\ queue'[o] # <<>> => Cardinality(activeTaskIds'[o]) >= m[o]
              /\ ~(activeTaskIds'[o] \subseteq a[o])
                   => Cardinality(activeTaskIds'[o]) <= m[o]
  <2> DEFINE n == PumpCount(q[o], a[o], m[o])
  <2>1. q[o] \in Seq(Entry) /\ a[o] \in SUBSET Entry /\ m[o] \in Nat
    OBVIOUS
  <2>2. /\ \A i, j \in 1..Len(q[o]) : q[o][i] = q[o][j] => i = j
        /\ \A i \in 1..Len(q[o]) : q[o][i] \notin a[o]
    <3>1. \A i \in 1..Len(q[o]) : q[o][i] \in Entry
      BY <2>1
    <3>2. /\ \A i, j \in 1..Len(q[o]) : q[o][i] = q[o][j] => i = j
          /\ \A i \in 1..Len(q[o]) : ph[q[o][i]] = "queued"
      BY <3>1 DEF Lined
    <3>3. \A e \in a[o] : ph[e] = "running"
      BY <2>1 DEF Owned
    <3> QED BY <3>2, <3>3
  <2>3. Cardinality(activeTaskIds'[o]) = Cardinality(a[o]) + n
    BY <1>1, <2>1, <2>2, SlotCount DEF Deq
  <2>4. /\ n \in 0..Len(q[o])
        /\ Cardinality(a[o]) \in Nat
        /\ n > 0 => n + Cardinality(a[o]) <= m[o]
        /\ n < Len(q[o]) => n + Cardinality(a[o]) >= m[o]
    BY <2>1, PumpCountType
  <2>5. Rem(o) \in Seq(Entry) /\ Len(Rem(o)) = Len(q[o]) - n /\ Len(q[o]) \in Nat
    BY <2>1, RemainingProperties, LenProperties DEF Rem
  <2>6. Rem(o) # <<>> => n < Len(q[o])
    <3> HIDE DEF n
    <3> QED BY <2>4, <2>5
  <2>7. ~(activeTaskIds'[o] \subseteq a[o]) => n > 0
    <3>1. n = 0 => Deq(o) = {}
      BY DEF Deq, Dequeued
    <3>2. activeTaskIds'[o] = a[o] \cup Deq(o)
      BY <1>1
    <3>3. n = 0 \/ n > 0
      <4> HIDE DEF n
      <4> QED BY <2>4, <2>5
    <3> HIDE DEF n
    <3> QED BY <3>1, <3>2, <3>3
  <2>8. queue'[o] = Rem(o)
    BY <1>1
  <2> HIDE DEF n
  <2> QED BY <2>1, <2>3, <2>4, <2>6, <2>7, <2>8
<1>13. /\ \A o \in Object \ objs : queue'[o] = q[o] /\ activeTaskIds'[o] = a[o]
       /\ \A o \in Object : a[o] \subseteq activeTaskIds'[o]
  BY <1>1
<1> QED
  BY <1>6, <1>7, <1>8, <1>9, <1>10, <1>11, <1>12, <1>13 DEF Drained

\* What drainLane does to the Map and to the entries: it only unbinds lanes it leaves
\* idle, unbinds every idle scoped one, and only starts queued entries of drained lanes.
LEMMA DrainLanesEffects ==
  ASSUME NEW objs, NEW map, NEW q, NEW a, NEW m, NEW g, NEW ph, NEW t, NEW b,
         Handed(objs, map, q, a, m, g, ph, t, b),
         DrainLanes(objs, map, q, a, m, g, ph, t, b)
  PROVE  Unbound(objs, map, q, a, m, ph)
<1> /\ objs \in SUBSET Object /\ map \in [Lane -> Object \cup {Nil}]
    /\ q \in [Object -> Seq(Entry)] /\ a \in [Object -> SUBSET Entry]
    /\ m \in [Object -> Nat] /\ g \in [Object -> Nat]
    /\ ph \in [Entry -> Phase] /\ t \in [Entry -> Timer]
    /\ b \in [Entry -> {"idle", "running", "done"}]
    /\ taskGeneration \in [Entry -> Nat]
    /\ place' \in [Entry -> Object \cup {Nil}]
    /\ Owned(a, ph, place', g)
    /\ Lined(q, ph, place')
  BY DEF Handed
<1> DEFINE Started == UNION {Dequeued(q[o], a[o], m[o]) : o \in objs}
<1>1. \A l \in Lane : /\ lanes'[l] \in {map[l], Nil}
                      /\ lanes'[l] # map[l] =>
                           queue'[map[l]] = <<>> /\ activeTaskIds'[map[l]] = {}
                      /\ map[l] \in objs /\ lanes'[l] = map[l] =>
                           ~ Retires(map[l], queue'[map[l]], activeTaskIds'[map[l]], m[map[l]])
  <2> SUFFICES ASSUME NEW l \in Lane
               PROVE  /\ lanes'[l] \in {map[l], Nil}
                      /\ lanes'[l] # map[l] =>
                           queue'[map[l]] = <<>> /\ activeTaskIds'[map[l]] = {}
                      /\ map[l] \in objs /\ lanes'[l] = map[l] =>
                           ~ Retires(map[l], queue'[map[l]], activeTaskIds'[map[l]], m[map[l]])
    OBVIOUS
  <2> DEFINE R == Retires(map[l], queue'[map[l]], activeTaskIds'[map[l]], m[map[l]])
  <2>1. lanes'[l] = IF map[l] \in objs /\ R THEN Nil ELSE map[l]
    BY DEF DrainLanes
  <2>2. R => queue'[map[l]] = <<>> /\ activeTaskIds'[map[l]] = {}
    BY DEF Retires
  <2> HIDE DEF R
  <2>3. map[l] \in objs => map[l] # Nil
    BY NilAssumption
  <2>4. map[l] \in objs /\ lanes'[l] = map[l] => ~R
    BY <2>1, <2>3
  <2>5. lanes'[l] \in {map[l], Nil} /\ (lanes'[l] # map[l] => R)
    BY <2>1
  <2> QED BY <2>2, <2>4, <2>5 DEF R
<1>2. \A o \in objs : \A e \in Dequeued(q[o], a[o], m[o]) :
        e \in Entry /\ ph[e] = "queued" /\ place'[e] = o
  <2> SUFFICES ASSUME NEW o \in objs, NEW e \in Dequeued(q[o], a[o], m[o])
               PROVE  e \in Entry /\ ph[e] = "queued" /\ place'[e] = o
    OBVIOUS
  <2>1. /\ q[o] \in Seq(Entry) /\ a[o] \in SUBSET Entry /\ m[o] \in Nat
        /\ \A i, j \in 1..Len(q[o]) : q[o][i] = q[o][j] => i = j
    BY DEF Lined
  <2>2. e \in Entry /\ \E i \in 1..Len(q[o]) : q[o][i] = e
    BY <2>1, PumpSplits
  <2> QED BY <2>2 DEF Lined
<1>3. \A e \in Entry : e \in Started => ph[e] = "queued" /\ place'[e] \in objs
  BY <1>2
<1>4. \A e \in Entry : \/ phase'[e] = ph[e] /\ taskGeneration'[e] = taskGeneration[e]
                       \/ /\ ph[e] = "queued" /\ phase'[e] = "running"
                          /\ place'[e] \in objs
                          /\ taskGeneration'[e] = generation'[place'[e]]
  <2>1. /\ phase' = [e \in Entry |-> IF e \in Started THEN "running" ELSE ph[e]]
        /\ taskGeneration' = [e \in Entry |->
             IF e \in Started THEN g[place'[e]] ELSE taskGeneration[e]]
        /\ generation' = g
    BY DEF DrainLanes
  <2> HIDE DEF Started
  <2> QED BY <1>3, <2>1
<1>5. ASSUME NEW o \in Object, q[o] = <<>>
      PROVE  queue'[o] = <<>> /\ activeTaskIds'[o] = a[o]
  <2>1. PumpCount(q[o], a[o], m[o]) = 0
    <3>1. q[o] \in Seq(Entry) /\ a[o] \in SUBSET Entry /\ m[o] \in Nat /\ Len(q[o]) = 0
      BY <1>5
    <3>2. PumpCount(q[o], a[o], m[o]) \in 0..Len(q[o])
      BY <3>1, PumpCountType
    <3> QED BY <3>1, <3>2
  <2>2. Dequeued(q[o], a[o], m[o]) = {}
    BY <2>1 DEF Dequeued
  <2>3. Remaining(q[o], a[o], m[o]) = <<>>
    <3>1. Len(Remaining(q[o], a[o], m[o])) = 0 /\ Remaining(q[o], a[o], m[o]) \in Seq(Entry)
      BY <1>5, <2>1, RemainingProperties
    <3> QED BY <3>1
  <2> QED BY <1>5, <2>2, <2>3 DEF DrainLanes
<1>6. \A o \in Object : q[o] = <<>> => queue'[o] = <<>> /\ activeTaskIds'[o] = a[o]
  BY <1>5
<1> QED
  BY <1>1, <1>4, <1>6 DEF Unbound

\* The Map and the objects still agree after drainLane if they did before it.
LEMMA DrainLanesBookkeeping ==
  ASSUME NEW objs, NEW map, NEW q, NEW a, NEW m, NEW g, NEW ph, NEW t, NEW b,
         Handed(objs, map, q, a, m, g, ph, t, b),
         DrainLanes(objs, map, q, a, m, g, ph, t, b),
         \A l \in Lane : map[l] # Nil => laneOf'[map[l]] = l,
         \A o \in Object : laneOf'[o] = Nil =>
           q[o] = <<>> /\ a[o] = {} /\ \A e \in Entry : place'[e] # o,
         \A e \in Entry : ph[e] \in {"queued", "running"} => place'[e] \in Object,
         \A e \in Entry : ph[e] = "running" => taskGeneration[e] <= g[place'[e]],
         \A e \in Entry : sequence'[e] < nextQueueSequence'
  PROVE  Bookkeeping'
<1> objs \in SUBSET Object
  BY DEF Handed
<1>1. Unbound(objs, map, q, a, m, ph)
  BY DrainLanesEffects
<1>2. \A l \in Lane : lanes'[l] # Nil => laneOf'[lanes'[l]] = l
  BY <1>1 DEF Unbound
<1>3. \A o \in Object : laneOf'[o] = Nil =>
        queue'[o] = <<>> /\ activeTaskIds'[o] = {} /\ \A e \in Entry : place'[e] # o
  BY <1>1 DEF Unbound
<1>4. \A e \in Entry : phase'[e] \in {"queued", "running"} => place'[e] \in Object
  BY <1>1 DEF Unbound
<1>5. ASSUME NEW e \in Entry, phase'[e] = "running"
      PROVE  taskGeneration'[e] <= generation'[place'[e]]
  <2>1. generation' = g /\ g \in [Object -> Nat] /\ place'[e] \in Object
    BY <1>4, <1>5 DEF DrainLanes, Handed
  <2>2. \/ ph[e] = "running" /\ taskGeneration'[e] = taskGeneration[e]
        \/ taskGeneration'[e] = generation'[place'[e]]
    BY <1>1, <1>5 DEF Unbound
  <2> QED BY <2>1, <2>2
<1> QED
  BY <1>2, <1>3, <1>4, <1>5 DEF Bookkeeping, Unallocated

-----------------------------------------------------------------------------
(* The core of the inductive invariant *)

Core == TypeOK /\ SlotsOwned /\ QueuedExactlyOnce /\ Bookkeeping

\* SlotsOwned and QueuedExactlyOnce read as predicates of the values they are about, so that
\* they can be applied to the intermediate values of a step.
LEMMA CoreOwned == SlotsOwned <=> Owned(activeTaskIds, phase, place, generation)
  BY DEF SlotsOwned, Owned

LEMMA CoreLined == QueuedExactlyOnce <=> Lined(queue, phase, place)
  BY DEF QueuedExactlyOnce, Lined

\* getLaneState returns an object of the lane: the bound one or a fresh, unused one.
LEMMA GetLaneStateProperties ==
  ASSUME Core, NEW l \in Lane, NEW o \in Object, GetLaneState(l, o)
  PROVE  /\ laneOf' \in [Object -> Lane \cup {Nil}]
         /\ laneOf'[o] = l
         /\ \A k \in Object : k # o => laneOf'[k] = laneOf[k]
         /\ \A k \in Lane : [lanes EXCEPT ![l] = o][k] # Nil
                              => laneOf'[[lanes EXCEPT ![l] = o][k]] = k
         /\ [lanes EXCEPT ![l] = o] \in [Lane -> Object \cup {Nil}]
         /\ lanes[l] # o => /\ queue[o] = <<>> /\ activeTaskIds[o] = {}
                            /\ lanes[l] = Nil
                            /\ \A e \in Entry : place[e] # o
         /\ \A k \in Lane : k # l => lanes[k] # o
<1>1. /\ lanes \in [Lane -> Object \cup {Nil}] /\ laneOf \in [Object -> Lane \cup {Nil}]
      /\ \A k \in Lane : lanes[k] # Nil => laneOf[lanes[k]] = k
      /\ IF lanes[l] # Nil THEN o = lanes[l] ELSE laneOf[o] = Nil
      /\ laneOf' = [laneOf EXCEPT ![o] = l]
      /\ laneOf[o] = Nil =>
           queue[o] = <<>> /\ activeTaskIds[o] = {} /\ \A e \in Entry : place[e] # o
  BY DEF Core, TypeOK, Bookkeeping, GetLaneState, Unallocated
<1>2. o # Nil /\ l # Nil
  BY NilAssumption
<1>3. \A k \in Lane : k # l => lanes[k] # o
  BY <1>1, <1>2, NilAssumption
<1> QED
  BY <1>1, <1>2, <1>3, NilAssumption

\* getQueueState starts with no lanes and no entries.
LEMMA InitCore == Init => Core
<1> SUFFICES ASSUME Init PROVE Core
  OBVIOUS
<1>1. <<>> \in Seq(Entry) /\ Len(<<>>) = 0
  OBVIOUS
<1>2. TypeOK
  BY <1>1 DEF Init, TypeOK, Phase, Timer
<1>3. SlotsOwned
  BY DEF Init, SlotsOwned
<1>4. QueuedExactlyOnce
  BY <1>1 DEF Init, QueuedExactlyOnce
<1>5. Bookkeeping
  BY NilAssumption DEF Init, Bookkeeping
<1> QED BY <1>2, <1>3, <1>4, <1>5 DEF Core

-----------------------------------------------------------------------------
(* Every handler hands a consistent state to drainLane *)

\* enqueueCommandInLane hands the pump a lined queue with the new entry in it.
LEMMA EnqueueHands ==
  ASSUME Core, NEW l \in Lane, NEW e \in Entry, NEW p \in Priority, NEW o \in Object,
         phase[e] = "new", GetLaneState(l, o), place' = [place EXCEPT ![e] = o]
  PROVE  Handed({o}, [lanes EXCEPT ![l] = o],
                [queue EXCEPT ![o] = EnqueueLaneEntry(queue[o], e, p)],
                activeTaskIds, maxConcurrent, generation,
                [phase EXCEPT ![e] = "queued"], timer, body)
<1> DEFINE q == [queue EXCEPT ![o] = EnqueueLaneEntry(queue[o], e, p)]
           ph == [phase EXCEPT ![e] = "queued"]
           r == EnqueueLaneEntry(queue[o], e, p)
<1>1. /\ queue \in [Object -> Seq(Entry)] /\ activeTaskIds \in [Object -> SUBSET Entry]
      /\ phase \in [Entry -> Phase] /\ priority \in [Entry -> -1..1]
      /\ place \in [Entry -> Object \cup {Nil}]
      /\ maxConcurrent \in [Object -> Nat] /\ generation \in [Object -> Nat]
      /\ timer \in [Entry -> Timer] /\ body \in [Entry -> {"idle", "running", "done"}]
      /\ taskGeneration \in [Entry -> Nat]
  BY DEF Core, TypeOK
<1>2. p \in -1..1
  BY NumbersAssumption
<1>3. [lanes EXCEPT ![l] = o] \in [Lane -> Object \cup {Nil}]
  BY GetLaneStateProperties
<1>4. \A k \in Object :
        /\ \A f \in Entry : (\E i \in 1..Len(queue[k]) : queue[k][i] = f)
                             <=> phase[f] = "queued" /\ place[f] = k
        /\ \A i, j \in 1..Len(queue[k]) : queue[k][i] = queue[k][j] => i = j
  BY DEF Core, QueuedExactlyOnce
<1>5. \A i \in 1..Len(queue[o]) : queue[o][i] # e
  <2> SUFFICES ASSUME NEW i \in 1..Len(queue[o]), queue[o][i] = e PROVE FALSE
    OBVIOUS
  <2>1. \E j \in 1..Len(queue[o]) : queue[o][j] = e
    OBVIOUS
  <2>2. phase[e] = "queued"
    BY <1>4, <2>1
  <2> QED BY <2>2
<1>6. Spliced(queue[o], e, r)
  <2>1. queue[o] \in Seq(Entry) /\ Splices(queue[o], e)
    BY <1>1, <1>4, <1>5 DEF Splices
  <2> QED BY <1>1, <1>2, <2>1, EnqueueLaneEntryProperties
<1> HIDE DEF r
<1>7. q \in [Object -> Seq(Entry)] /\ q[o] = r /\ \A k \in Object : k # o => q[k] = queue[k]
  BY <1>1, <1>6 DEF r, Spliced
<1>8. ph \in [Entry -> Phase]
  BY <1>1 DEF Phase
<1>9. place' \in [Entry -> Object \cup {Nil}]
  BY <1>1
<1>10. \A f \in Entry : f # e => ph[f] = phase[f] /\ place'[f] = place[f]
  BY <1>1
<1>11. ph[e] = "queued" /\ place'[e] = o
  BY <1>1
<1> HIDE DEF q, ph
<1>12. Owned(activeTaskIds, ph, place', generation)
  <2> SUFFICES ASSUME NEW k \in Object, NEW f \in Entry
               PROVE  f \in activeTaskIds[k] <=> /\ ph[f] = "running" /\ place'[f] = k
                                                 /\ taskGeneration[f] = generation[k]
    BY DEF Owned
  <2>1. f \in activeTaskIds[k] <=> /\ phase[f] = "running" /\ place[f] = k
                                   /\ taskGeneration[f] = generation[k]
    BY DEF Core, SlotsOwned
  <2> QED BY <1>10, <1>11, <2>1
<1>13. Lined(q, ph, place')
  <2> SUFFICES ASSUME NEW k \in Object
               PROVE  /\ \A f \in Entry : (\E i \in 1..Len(q[k]) : q[k][i] = f)
                                           <=> ph[f] = "queued" /\ place'[f] = k
                      /\ \A i, j \in 1..Len(q[k]) : q[k][i] = q[k][j] => i = j
    BY DEF Lined
  <2>0. /\ \A f \in Entry : (\E i \in 1..Len(queue[k]) : queue[k][i] = f)
                             <=> phase[f] = "queued" /\ place[f] = k
        /\ \A i, j \in 1..Len(queue[k]) : queue[k][i] = queue[k][j] => i = j
    BY <1>4
  <2>1. CASE k = o
    <3>1. \A f \in Entry : (\E i \in 1..Len(r) : r[i] = f)
                            <=> f = e \/ (phase[f] = "queued" /\ place[f] = k)
      <4>1. \A f : (\E i \in 1..Len(r) : r[i] = f)
                   <=> f = e \/ \E i \in 1..Len(queue[k]) : queue[k][i] = f
        BY <1>6, <2>1 DEF Spliced
      <4> QED BY <2>0, <4>1
    <3>2. \A i, j \in 1..Len(r) : r[i] = r[j] => i = j
      BY <1>6 DEF Spliced
    <3>3. \A f \in Entry : ph[f] = "queued" /\ place'[f] = k
                            <=> f = e \/ (phase[f] = "queued" /\ place[f] = k)
      BY <1>10, <1>11, <2>1
    <3>4. q[k] = r
      BY <1>7, <2>1
    <3> QED BY <3>1, <3>2, <3>3, <3>4
  <2>2. CASE k # o
    <3>1. \A f \in Entry : ph[f] = "queued" /\ place'[f] = k
                            <=> phase[f] = "queued" /\ place[f] = k
      BY <1>10, <1>11, <2>2
    <3>2. q[k] = queue[k]
      BY <1>7, <2>2
    <3> QED BY <2>0, <3>1, <3>2
  <2> QED BY <2>1, <2>2
<1> QED
  BY <1>1, <1>3, <1>7, <1>8, <1>9, <1>12, <1>13 DEF Handed, q, ph

\* setCommandLaneConcurrency hands the pump the queues as they are.
LEMMA SetConcurrencyHands ==
  ASSUME Core, NEW l \in Lane, NEW n \in Concurrency, NEW o \in Object,
         GetLaneState(l, o), place' = place
  PROVE  Handed(IF LaneLimit(l, n) > 0 THEN {o} ELSE {}, [lanes EXCEPT ![l] = o], queue,
                activeTaskIds, [maxConcurrent EXCEPT ![o] = LaneLimit(l, n)], generation,
                phase, timer, body)
<1>1. LaneLimit(l, n) \in Nat
  BY NumbersAssumption DEF LaneLimit
<1>2. [lanes EXCEPT ![l] = o] \in [Lane -> Object \cup {Nil}]
  BY GetLaneStateProperties
<1>3. Owned(activeTaskIds, phase, place', generation) /\ Lined(queue, phase, place')
  BY CoreOwned, CoreLined DEF Core
<1>4. [maxConcurrent EXCEPT ![o] = LaneLimit(l, n)] \in [Object -> Nat]
  BY <1>1 DEF Core, TypeOK
<1> QED
  BY <1>2, <1>3, <1>4 DEF Core, TypeOK, Handed

\* completeTask hands the pump slots without the settled task.
LEMMA SettleHands ==
  ASSUME Core, NEW e \in Entry, phase[e] = "running", NEW outcome \in Outcome,
         NEW b \in [Entry -> {"idle", "running", "done"}], place' = place,
         NEW a, a = IF CompletesCurrentGeneration(e)
                    THEN [activeTaskIds EXCEPT ![place[e]] = @ \ {e}] ELSE activeTaskIds
  PROVE  /\ place[e] \in Object
         /\ Handed(IF CompletesCurrentGeneration(e) THEN {place[e]} ELSE {}, lanes, queue, a,
                   maxConcurrent, generation, [phase EXCEPT ![e] = outcome],
                   [timer EXCEPT ![e] = "off"], b)
<1> DEFINE ph == [phase EXCEPT ![e] = outcome]
<1>1. place[e] \in Object
  BY DEF Core, Bookkeeping
<1>2. /\ queue \in [Object -> Seq(Entry)] /\ activeTaskIds \in [Object -> SUBSET Entry]
      /\ phase \in [Entry -> Phase] /\ place \in [Entry -> Object \cup {Nil}]
      /\ maxConcurrent \in [Object -> Nat] /\ generation \in [Object -> Nat]
      /\ timer \in [Entry -> Timer] /\ taskGeneration \in [Entry -> Nat]
      /\ lanes \in [Lane -> Object \cup {Nil}]
  BY DEF Core, TypeOK
<1>3. a \in [Object -> SUBSET Entry]
  BY <1>1, <1>2
<1>4. ph \in [Entry -> Phase] /\ [timer EXCEPT ![e] = "off"] \in [Entry -> Timer]
  BY <1>2 DEF Phase, Timer
<1>5. /\ ph[e] \notin {"queued", "running"}
      /\ \A f \in Entry : f # e => ph[f] = phase[f]
  BY <1>2 DEF Outcome
<1> HIDE DEF ph
<1>6. Owned(a, ph, place', generation)
  <2> SUFFICES ASSUME NEW k \in Object, NEW f \in Entry
               PROVE  f \in a[k] <=> /\ ph[f] = "running" /\ place[f] = k
                                     /\ taskGeneration[f] = generation[k]
    BY DEF Owned
  <2>1. f \in activeTaskIds[k] <=> /\ phase[f] = "running" /\ place[f] = k
                                   /\ taskGeneration[f] = generation[k]
    BY DEF Core, SlotsOwned
  <2>2. f \in a[k] <=> f \in activeTaskIds[k] /\ f # e
    <3>1. CASE CompletesCurrentGeneration(e) /\ k = place[e]
      BY <1>1, <1>2, <3>1
    <3>2. CASE CompletesCurrentGeneration(e) /\ k # place[e]
      BY <1>1, <1>2, <2>1, <3>2
    <3>3. CASE ~CompletesCurrentGeneration(e)
      BY <2>1, <3>3 DEF CompletesCurrentGeneration
    <3> QED BY <3>1, <3>2, <3>3
  <2> QED BY <1>5, <2>1, <2>2
<1>7. Lined(queue, ph, place')
  <2> SUFFICES ASSUME NEW k \in Object
               PROVE  /\ \A f \in Entry : (\E i \in 1..Len(queue[k]) : queue[k][i] = f)
                                           <=> ph[f] = "queued" /\ place[f] = k
                      /\ \A i, j \in 1..Len(queue[k]) : queue[k][i] = queue[k][j] => i = j
    BY DEF Lined
  <2>1. /\ \A f \in Entry : (\E i \in 1..Len(queue[k]) : queue[k][i] = f)
                             <=> phase[f] = "queued" /\ place[f] = k
        /\ \A i, j \in 1..Len(queue[k]) : queue[k][i] = queue[k][j] => i = j
    BY DEF Core, QueuedExactlyOnce
  <2> QED BY <1>5, <2>1
<1> QED
  BY <1>1, <1>2, <1>3, <1>4, <1>6, <1>7 DEF Handed, ph

\* resetLane hands the pump empty slots of a new generation.
LEMMA ResetHands ==
  ASSUME Core, NEW objs \in SUBSET Object, place' = place
  PROVE  Handed({o \in objs : queue[o] # <<>>}, lanes, queue,
                [o \in Object |-> IF o \in objs THEN {} ELSE activeTaskIds[o]],
                maxConcurrent, NextGeneration(objs), phase, timer, body)
<1> DEFINE a == [o \in Object |-> IF o \in objs THEN {} ELSE activeTaskIds[o]]
           g == NextGeneration(objs)
<1>1. /\ activeTaskIds \in [Object -> SUBSET Entry] /\ generation \in [Object -> Nat]
      /\ taskGeneration \in [Entry -> Nat]
  BY DEF Core, TypeOK
<1>2. g \in [Object -> Nat] /\ \A o \in Object : o \in objs => g[o] > generation[o]
  BY <1>1 DEF NextGeneration
<1>3. \A o \in Object \ objs : g[o] = generation[o]
  BY DEF NextGeneration
<1> HIDE DEF g
<1>4. Owned(a, phase, place', g)
  <2> SUFFICES ASSUME NEW k \in Object, NEW f \in Entry
               PROVE  f \in a[k] <=> /\ phase[f] = "running" /\ place[f] = k
                                     /\ taskGeneration[f] = g[k]
    BY DEF Owned
  <2>1. f \in activeTaskIds[k] <=> /\ phase[f] = "running" /\ place[f] = k
                                   /\ taskGeneration[f] = generation[k]
    BY DEF Core, SlotsOwned
  <2>2. CASE k \notin objs
    BY <1>3, <2>1, <2>2
  <2>3. CASE k \in objs
    <3>1. phase[f] = "running" /\ place[f] = k => taskGeneration[f] <= generation[k]
      BY DEF Core, Bookkeeping
    <3>2. generation[k] \in Nat /\ taskGeneration[f] \in Nat /\ g[k] \in Nat /\ g[k] > generation[k]
      BY <1>1, <1>2, <2>3
    <3> QED BY <2>3, <3>1, <3>2
  <2> QED BY <2>2, <2>3
<1>5. Lined(queue, phase, place')
  BY CoreLined DEF Core
<1> QED
  BY <1>1, <1>2, <1>4, <1>5 DEF Core, TypeOK, Handed, g

-----------------------------------------------------------------------------
(* Every action preserves the core *)

\* Enqueueing keeps the invariant.
LEMMA EnqueueCore ==
  ASSUME Core, NEW l \in Lane, NEW e \in Entry, NEW p \in Priority,
         EnqueueCommandInLane(l, e, p)
  PROVE  Core'
<1>1. PICK o \in Object :
        /\ GetLaneState(l, o)
        /\ place' = [place EXCEPT ![e] = o]
        /\ priority' = [priority EXCEPT ![e] = p]
        /\ sequence' = [sequence EXCEPT ![e] = nextQueueSequence]
        /\ nextQueueSequence' = nextQueueSequence + 1
        /\ DrainLanes({o}, [lanes EXCEPT ![l] = o],
                      [queue EXCEPT ![o] = EnqueueLaneEntry(queue[o], e, p)],
                      activeTaskIds, maxConcurrent, generation,
                      [phase EXCEPT ![e] = "queued"], timer, body)
  BY DEF EnqueueCommandInLane
<1> DEFINE map == [lanes EXCEPT ![l] = o]
           q == [queue EXCEPT ![o] = EnqueueLaneEntry(queue[o], e, p)]
           ph == [phase EXCEPT ![e] = "queued"]
<1>2. phase[e] = "new" /\ UNCHANGED <<signalled, waiting, waitsFor, admission>>
  BY DEF EnqueueCommandInLane
<1>3. Handed({o}, map, q, activeTaskIds, maxConcurrent, generation, ph, timer, body)
  BY <1>1, <1>2, EnqueueHands
<1>4. /\ phase \in [Entry -> Phase] /\ queue \in [Object -> Seq(Entry)]
      /\ place \in [Entry -> Object \cup {Nil}]
      /\ sequence \in [Entry -> Nat] /\ nextQueueSequence \in Nat
      /\ priority \in [Entry -> -1..1] /\ laneOf \in [Object -> Lane \cup {Nil}]
      /\ p \in -1..1
  BY NumbersAssumption DEF Core, TypeOK
<1>5. /\ \A f \in Entry : f # e => ph[f] = phase[f] /\ place'[f] = place[f]
      /\ ph[e] = "queued" /\ place'[e] = o
      /\ \A k \in Object : k # o => q[k] = queue[k]
  BY <1>1, <1>4
<1>6. /\ laneOf' \in [Object -> Lane \cup {Nil}] /\ laneOf'[o] = l
      /\ \A k \in Object : k # o => laneOf'[k] = laneOf[k]
      /\ \A k \in Lane : map[k] # Nil => laneOf'[map[k]] = k
  BY <1>1, GetLaneStateProperties
<1>7. DrainLanes({o}, map, q, activeTaskIds, maxConcurrent, generation, ph, timer, body)
  BY <1>1
<1> HIDE DEF map, q, ph
<1>8. Drained({o}, q, activeTaskIds, maxConcurrent)
  BY <1>3, <1>7, DrainLanesPreserves
<1>9. TypeOK'
  <2>1. /\ sequence' \in [Entry -> Nat] /\ nextQueueSequence' \in Nat
        /\ priority' \in [Entry -> -1..1] /\ place' \in [Entry -> Object \cup {Nil}]
    BY <1>1, <1>4
  <2> QED BY <1>2, <1>6, <1>8, <2>1 DEF Core, TypeOK, Drained
<1>10. Bookkeeping'
  <2>1. \A k \in Object : laneOf'[k] = Nil =>
          q[k] = <<>> /\ activeTaskIds[k] = {} /\ \A f \in Entry : place'[f] # k
    <3>1. \A k \in Object : laneOf'[k] = Nil => k # o /\ laneOf[k] = Nil
      BY <1>6, NilAssumption
    <3>2. \A k \in Object : laneOf[k] = Nil =>
            queue[k] = <<>> /\ activeTaskIds[k] = {} /\ \A f \in Entry : place[f] # k
      BY DEF Core, Bookkeeping, Unallocated
    <3> QED BY <1>5, <3>1, <3>2
  <2>2. \A f \in Entry : ph[f] \in {"queued", "running"} => place'[f] \in Object
    BY <1>5 DEF Core, Bookkeeping
  <2>3. \A f \in Entry : ph[f] = "running" => taskGeneration[f] <= generation[place'[f]]
    BY <1>5 DEF Core, Bookkeeping
  <2>4. \A f \in Entry : sequence'[f] < nextQueueSequence'
    <3>1. \A f \in Entry : sequence[f] < nextQueueSequence
      BY DEF Core, Bookkeeping
    <3> QED BY <1>1, <1>4, <3>1
  <2> QED BY <1>3, <1>6, <1>7, <2>1, <2>2, <2>3, <2>4, DrainLanesBookkeeping
<1> QED BY <1>8, <1>9, <1>10 DEF Core, Drained

\* Changing a limit keeps the invariant.
LEMMA SetConcurrencyCore ==
  ASSUME Core, NEW l \in Lane, NEW n \in Concurrency, SetCommandLaneConcurrency(l, n)
  PROVE  Core'
<1>1. PICK o \in Object :
        /\ GetLaneState(l, o)
        /\ DrainLanes(IF LaneLimit(l, n) > 0 THEN {o} ELSE {}, [lanes EXCEPT ![l] = o],
                      queue, activeTaskIds, [maxConcurrent EXCEPT ![o] = LaneLimit(l, n)],
                      generation, phase, timer, body)
  BY DEF SetCommandLaneConcurrency
<1> DEFINE objs == IF LaneLimit(l, n) > 0 THEN {o} ELSE {}
           map == [lanes EXCEPT ![l] = o]
           m == [maxConcurrent EXCEPT ![o] = LaneLimit(l, n)]
<1>2. UNCHANGED <<nextQueueSequence, sequence, priority, place, signalled, waiting,
                  waitsFor, admission>>
  BY DEF SetCommandLaneConcurrency
<1>3. Handed(objs, map, queue, activeTaskIds, m, generation, phase, timer, body)
  BY <1>1, <1>2, SetConcurrencyHands
<1>4. DrainLanes(objs, map, queue, activeTaskIds, m, generation, phase, timer, body)
  BY <1>1
<1>5. /\ laneOf' \in [Object -> Lane \cup {Nil}] /\ laneOf'[o] = l
      /\ \A k \in Object : k # o => laneOf'[k] = laneOf[k]
      /\ \A k \in Lane : map[k] # Nil => laneOf'[map[k]] = k
  BY <1>1, GetLaneStateProperties
<1> HIDE DEF objs, map, m
<1>6. Drained(objs, queue, activeTaskIds, m)
  BY <1>3, <1>4, DrainLanesPreserves
<1>7. TypeOK'
  BY <1>2, <1>5, <1>6 DEF Core, TypeOK, Drained
<1>8. Bookkeeping'
  <2>1. \A k \in Object : laneOf'[k] = Nil =>
          queue[k] = <<>> /\ activeTaskIds[k] = {} /\ \A f \in Entry : place'[f] # k
    BY <1>2, <1>5, NilAssumption DEF Core, Bookkeeping, Unallocated
  <2>2. /\ \A f \in Entry : phase[f] \in {"queued", "running"} => place'[f] \in Object
        /\ \A f \in Entry : phase[f] = "running" => taskGeneration[f] <= generation[place'[f]]
        /\ \A f \in Entry : sequence'[f] < nextQueueSequence'
    BY <1>2 DEF Core, Bookkeeping
  <2> QED BY <1>3, <1>4, <1>5, <2>1, <2>2, DrainLanesBookkeeping
<1> QED BY <1>6, <1>7, <1>8 DEF Core, Drained

\* Settling a task, in time or too late for its slot, keeps the invariant.
LEMMA SettleCore ==
  ASSUME Core, NEW e \in Entry, phase[e] = "running", NEW outcome \in Outcome,
         NEW b \in [Entry -> {"idle", "running", "done"}], SettleTask(e, outcome, b)
  PROVE  Core'
<1> DEFINE objs == IF CompletesCurrentGeneration(e) THEN {place[e]} ELSE {}
           a == IF CompletesCurrentGeneration(e)
                THEN [activeTaskIds EXCEPT ![place[e]] = @ \ {e}] ELSE activeTaskIds
           ph == [phase EXCEPT ![e] = outcome]
           t == [timer EXCEPT ![e] = "off"]
<1>1. /\ UNCHANGED <<laneOf, nextQueueSequence, sequence, priority, place, signalled,
                     waitsFor, admission>>
      /\ DrainLanes(objs, lanes, queue, a, maxConcurrent, generation, ph, t, b)
      /\ waiting' = IF CompletesCurrentGeneration(e)
                    THEN NotifyActiveTaskWaiters(waiting, waitsFor, lanes, a) ELSE waiting
  BY DEF SettleTask
<1>2. Handed(objs, lanes, queue, a, maxConcurrent, generation, ph, t, b)
  BY <1>1, SettleHands
<1>3. /\ phase \in [Entry -> Phase] /\ activeTaskIds \in [Object -> SUBSET Entry]
      /\ waiting \in [Waiter -> {"idle", "waiting", "drained", "timedOut"}]
  BY DEF Core, TypeOK
<1>4. /\ ph[e] \notin {"queued", "running"}
      /\ \A f \in Entry : f # e => ph[f] = phase[f]
  BY <1>3 DEF Outcome
<1>5. \A k \in Object : a[k] \subseteq activeTaskIds[k]
  BY <1>3
<1>6. waiting' \in [Waiter -> {"idle", "waiting", "drained", "timedOut"}]
  BY <1>1, <1>3 DEF NotifyActiveTaskWaiters
<1> HIDE DEF objs, a, ph, t
<1>7. Drained(objs, queue, a, maxConcurrent)
  BY <1>1, <1>2, DrainLanesPreserves
<1>8. TypeOK'
  BY <1>1, <1>6, <1>7 DEF Core, TypeOK, Drained
<1>9. Bookkeeping'
  <2>1. \A k \in Object : laneOf'[k] = Nil =>
          queue[k] = <<>> /\ a[k] = {} /\ \A f \in Entry : place'[f] # k
    BY <1>1, <1>5 DEF Core, Bookkeeping, Unallocated
  <2>2. /\ \A f \in Entry : ph[f] \in {"queued", "running"} => place'[f] \in Object
        /\ \A f \in Entry : ph[f] = "running" => taskGeneration[f] <= generation[place'[f]]
        /\ \A f \in Entry : sequence'[f] < nextQueueSequence'
        /\ \A l \in Lane : lanes[l] # Nil => laneOf'[lanes[l]] = l
    BY <1>1, <1>4 DEF Core, Bookkeeping
  <2> QED BY <1>1, <1>2, <2>1, <2>2, DrainLanesBookkeeping
<1> QED BY <1>7, <1>8, <1>9 DEF Core, Drained

\* Resetting one or all lanes keeps the invariant.
LEMMA ResetCore ==
  ASSUME Core, NEW objs \in SUBSET Object, ResetObjects(objs),
         admission' \in {"open", "fenced", "draining"}
  PROVE  Core'
<1> DEFINE D == {o \in objs : queue[o] # <<>>}
           a == [o \in Object |-> IF o \in objs THEN {} ELSE activeTaskIds[o]]
           g == NextGeneration(objs)
<1>1. /\ UNCHANGED <<laneOf, nextQueueSequence, sequence, priority, place, signalled, waitsFor>>
      /\ DrainLanes(D, lanes, queue, a, maxConcurrent, g, phase, timer, body)
      /\ waiting' = NotifyActiveTaskWaiters(waiting, waitsFor, lanes', activeTaskIds')
  BY DEF ResetObjects
<1>2. Handed(D, lanes, queue, a, maxConcurrent, g, phase, timer, body)
  BY <1>1, ResetHands
<1>3. waiting' \in [Waiter -> {"idle", "waiting", "drained", "timedOut"}]
  BY <1>1 DEF NotifyActiveTaskWaiters, Core, TypeOK
<1>4. \A k \in Object : activeTaskIds[k] = {} => a[k] = {}
  OBVIOUS
<1>5. \A k \in Object : generation[k] \in Nat /\ g[k] \in Nat /\ generation[k] <= g[k]
  BY DEF NextGeneration, Core, TypeOK
<1> HIDE DEF D, a, g
<1>6. Drained(D, queue, a, maxConcurrent)
  BY <1>1, <1>2, DrainLanesPreserves
<1>7. TypeOK'
  BY <1>1, <1>3, <1>6 DEF Core, TypeOK, Drained
<1>8. Bookkeeping'
  <2>1. \A k \in Object : laneOf'[k] = Nil =>
          queue[k] = <<>> /\ a[k] = {} /\ \A f \in Entry : place'[f] # k
    BY <1>1, <1>4 DEF Core, Bookkeeping, Unallocated
  <2>2. /\ \A f \in Entry : phase[f] \in {"queued", "running"} => place'[f] \in Object
        /\ \A f \in Entry : sequence'[f] < nextQueueSequence'
        /\ \A l \in Lane : lanes[l] # Nil => laneOf'[lanes[l]] = l
    BY <1>1 DEF Core, Bookkeeping
  <2>3. ASSUME NEW f \in Entry, phase[f] = "running"
        PROVE  taskGeneration[f] <= g[place'[f]]
    <3>1. place[f] \in Object /\ taskGeneration[f] <= generation[place[f]]
      BY <2>3 DEF Core, Bookkeeping
    <3>2. taskGeneration[f] \in Nat /\ place' = place
      BY <1>1 DEF Core, TypeOK
    <3> QED BY <1>5, <3>1, <3>2
  <2> QED BY <1>1, <1>2, <2>1, <2>2, <2>3, DrainLanesBookkeeping
<1> QED BY <1>6, <1>7, <1>8 DEF Core, Drained

\* Clearing a lane keeps the invariant.
LEMMA ClearCore ==
  ASSUME Core, NEW l \in Lane, ClearCommandLane(l)
  PROVE  Core'
<1> DEFINE o == lanes[l]
           Pending(e) == \E i \in 1..Len(queue[o]) : queue[o][i] = e
<1>1. o \in Object
  BY DEF Core, TypeOK, ClearCommandLane
<1>2. /\ queue' = [queue EXCEPT ![o] = <<>>]
      /\ phase' = [e \in Entry |-> IF Pending(e) THEN "cleared" ELSE phase[e]]
      /\ UNCHANGED <<lanes, laneOf, activeTaskIds, maxConcurrent, generation,
                     nextQueueSequence, sequence, priority, place, taskGeneration, body,
                     timer, signalled, waiting, waitsFor, admission>>
  BY DEF ClearCommandLane
<1>3. \A e \in Entry : Pending(e) <=> phase[e] = "queued" /\ place[e] = o
  BY <1>1 DEF Core, QueuedExactlyOnce
<1> HIDE DEF Pending
<1>4. /\ queue \in [Object -> Seq(Entry)] /\ phase \in [Entry -> Phase]
      /\ <<>> \in Seq(Entry) /\ Len(<<>>) = 0
  BY DEF Core, TypeOK
<1>5. queue'[o] = <<>> /\ \A k \in Object : k # o => queue'[k] = queue[k]
  BY <1>1, <1>2, <1>4
<1>6. \A e \in Entry : /\ phase'[e] = "queued" <=> phase[e] = "queued" /\ place[e] # o
                       /\ phase'[e] = "running" <=> phase[e] = "running"
  BY <1>2, <1>3
<1> HIDE DEF o
<1>7. TypeOK'
  <2>1. queue' \in [Object -> Seq(Entry)] /\ phase' \in [Entry -> Phase]
    BY <1>1, <1>2, <1>4 DEF Phase, Outcome
  <2> QED BY <1>2, <2>1 DEF Core, TypeOK
<1>8. SlotsOwned'
  BY <1>2, <1>6 DEF Core, SlotsOwned
<1>9. QueuedExactlyOnce'
  <2> SUFFICES ASSUME NEW k \in Object
               PROVE  /\ \A e \in Entry : (\E i \in 1..Len(queue'[k]) : queue'[k][i] = e)
                                           <=> phase'[e] = "queued" /\ place[e] = k
                      /\ \A i, j \in 1..Len(queue'[k]) : queue'[k][i] = queue'[k][j] => i = j
    BY <1>2 DEF QueuedExactlyOnce
  <2>1. CASE k = o
    <3>1. 1..Len(queue'[k]) = {}
      BY <1>4, <1>5, <2>1
    <3> QED BY <1>6, <2>1, <3>1
  <2>2. CASE k # o
    <3>1. /\ \A e \in Entry : (\E i \in 1..Len(queue[k]) : queue[k][i] = e)
                               <=> phase[e] = "queued" /\ place[e] = k
          /\ \A i, j \in 1..Len(queue[k]) : queue[k][i] = queue[k][j] => i = j
      BY DEF Core, QueuedExactlyOnce
    <3> QED BY <1>5, <1>6, <2>2, <3>1
  <2> QED BY <2>1, <2>2
<1>10. Bookkeeping'
  <2>1. \A k \in Object : queue[k] = <<>> => queue'[k] = <<>>
    BY <1>5
  <2> QED BY <1>2, <1>6, <2>1 DEF Core, Bookkeeping, Unallocated
<1> QED BY <1>7, <1>8, <1>9, <1>10 DEF Core

\* The actions that change neither a lane nor an entry's place in one.
LEMMA OtherCore ==
  ASSUME Core,
         UNCHANGED <<laneVars, nextQueueSequence, sequence, priority, place, taskGeneration>>,
         \A e \in Entry : phase'[e] = phase[e] \/ (phase[e] = "new" /\ phase'[e] = "refused"),
         TypeOK'
  PROVE  Core'
<1>1. \A e \in Entry : /\ phase'[e] = "queued" <=> phase[e] = "queued"
                       /\ phase'[e] = "running" <=> phase[e] = "running"
  OBVIOUS
<1>2. SlotsOwned'
  BY <1>1 DEF Core, SlotsOwned, laneVars
<1>3. QueuedExactlyOnce'
  BY <1>1 DEF Core, QueuedExactlyOnce, laneVars
<1>4. Bookkeeping'
  BY <1>1 DEF Core, Bookkeeping, Unallocated, laneVars
<1> QED BY <1>2, <1>3, <1>4 DEF Core

\* Every step keeps the invariant.
LEMMA NextCore == Core /\ [Next]_vars => Core'
<1> SUFFICES ASSUME Core, [Next]_vars PROVE Core'
  OBVIOUS
<1> USE DEF laneVars, entryVars
<1>1. ASSUME NEW l \in Lane, NEW e \in Entry, NEW p \in Priority, EnqueueCommandInLane(l, e, p)
      PROVE  Core'
  BY <1>1, EnqueueCore
<1>2. ASSUME NEW e \in Entry, EnqueueRefused(e) PROVE Core'
  <2>1. TypeOK'
    BY <1>2 DEF EnqueueRefused, Core, TypeOK, Phase, Outcome
  <2>2. \A f \in Entry : phase'[f] = phase[f] \/ (phase[f] = "new" /\ phase'[f] = "refused")
    BY <1>2 DEF EnqueueRefused, Core, TypeOK
  <2> QED BY <1>2, <2>1, <2>2, OtherCore DEF EnqueueRefused
<1>3. ASSUME NEW l \in Lane, NEW n \in Concurrency, SetCommandLaneConcurrency(l, n) PROVE Core'
  BY <1>3, SetConcurrencyCore
<1>4. ASSUME NEW e \in Entry, BodyFinishes(e) PROVE Core'
  <2>1. [body EXCEPT ![e] = "done"] \in [Entry -> {"idle", "running", "done"}]
    BY DEF Core, TypeOK
  <2> QED BY <1>4, <2>1, SettleCore DEF BodyFinishes, Outcome
<1>5. ASSUME NEW e \in Entry, BodyFinishesLate(e) PROVE Core'
  <2>1. TypeOK'
    BY <1>5 DEF BodyFinishesLate, Core, TypeOK
  <2> QED BY <1>5, <2>1, OtherCore DEF BodyFinishesLate
<1>6. ASSUME NEW e \in Entry, TaskTimesOut(e) PROVE Core'
  <2>1. body \in [Entry -> {"idle", "running", "done"}]
    BY DEF Core, TypeOK
  <2> QED BY <1>6, <2>1, SettleCore DEF TaskTimesOut, Outcome
<1>7. ASSUME NEW e \in Entry, Abort(e) PROVE Core'
  <2>1. TypeOK'
    BY <1>7 DEF Abort, Core, TypeOK, Timer
  <2> QED BY <1>7, <2>1, OtherCore DEF Abort
<1>8. ASSUME NEW e \in Entry, Release(e) PROVE Core'
  <2>1. TypeOK'
    BY <1>8 DEF Release, Core, TypeOK, Timer
  <2> QED BY <1>8, <2>1, OtherCore DEF Release
<1>9. ASSUME NEW l \in Lane, ClearCommandLane(l) PROVE Core'
  BY <1>9, ClearCore
<1>10. ASSUME NEW l \in Lane, ResetCommandLane(l) PROVE Core'
  <2>1. {lanes[l]} \in SUBSET Object /\ admission' \in {"open", "fenced", "draining"}
    BY <1>10 DEF ResetCommandLane, Core, TypeOK
  <2> QED BY <1>10, <2>1, ResetCore DEF ResetCommandLane
<1>11. CASE ResetAllLanes
  <2>1. {lanes[l] : l \in Lane} \ {Nil} \in SUBSET Object
    BY DEF Core, TypeOK
  <2> QED BY <1>11, <2>1, ResetCore DEF ResetAllLanes
<1>12. ASSUME NEW w \in Waiter, NEW zero \in BOOLEAN, WaitRefused(w, zero) PROVE Core'
  <2>1. TypeOK'
    BY <1>12 DEF WaitRefused, Core, TypeOK
  <2> QED BY <1>12, <2>1, OtherCore DEF WaitRefused
<1>13. ASSUME NEW w \in Waiter, WaitForActiveTasks(w) PROVE Core'
  <2>1. ActiveTasks \in SUBSET Entry
    BY DEF Core, TypeOK, ActiveTasks
  <2>2. TypeOK'
    BY <1>13, <2>1 DEF WaitForActiveTasks, Core, TypeOK, NotifyActiveTaskWaiters
  <2> QED BY <1>13, <2>2, OtherCore DEF WaitForActiveTasks
<1>14. ASSUME NEW w \in Waiter, WaiterTimesOut(w) PROVE Core'
  <2>1. TypeOK'
    BY <1>14 DEF WaiterTimesOut, Core, TypeOK
  <2> QED BY <1>14, <2>1, OtherCore DEF WaiterTimesOut
<1>15. CASE MarkGatewayDraining \/ FenceChanges
  <2>1. TypeOK'
    BY <1>15 DEF MarkGatewayDraining, FenceChanges, Core, TypeOK
  <2> QED BY <1>15, <2>1, OtherCore DEF MarkGatewayDraining, FenceChanges
<1>16. CASE UNCHANGED vars
  <2>1. TypeOK'
    BY <1>16 DEF vars, Core, TypeOK
  <2> QED BY <1>16, <2>1, OtherCore DEF vars
<1> QED
  BY <1>1, <1>2, <1>3, <1>4, <1>5, <1>6, <1>7, <1>8, <1>9, <1>10, <1>11, <1>12, <1>13,
     <1>14, <1>15, <1>16 DEF Next

\* The inductive invariant holds after any sequence of calls, settlements, timeouts and resets.
THEOREM CoreInvariant == Spec => []Core
  BY InitCore, NextCore, PTL DEF Spec

\* Every variable keeps its type whatever lanes, entries and limits there are.
THEOREM TypeCorrectness == Spec => []TypeOK
<1>1. Core => TypeOK
  BY DEF Core
<1> QED BY <1>1, CoreInvariant, PTL

\* Slots are held exactly by unsettled tasks of the lane's present generation.
THEOREM SlotOwnership == Spec => []SlotsOwned
<1>1. Core => SlotsOwned
  BY DEF Core
<1> QED BY <1>1, CoreInvariant, PTL

\* A waiting entry stands exactly once in exactly one queue, a settled one in none.
THEOREM QueueExactness == Spec => []QueuedExactlyOnce
<1>1. Core => QueuedExactlyOnce
  BY DEF Core
<1> QED BY <1>1, CoreInvariant, PTL

\* An unsettled entry is in exactly one queue or holds exactly one slot.
THEOREM EntriesAlwaysAccounted == Spec => []EntriesAccounted
<1>1. Core => EntriesAccounted
  BY DEF Core, EntriesAccounted
<1> QED BY <1>1, CoreInvariant, PTL

-----------------------------------------------------------------------------
(* The Map binds what has work, and no lane idles over waiting work *)

\* LanesSound of the values a handler hands to drainLane, outside the lanes it drains.
Sound(objs, map, q, a, m, g) ==
  /\ \A l \in Lane : map[l] # Nil => laneOf'[map[l]] = l
  /\ \A o \in Object : q[o] # <<>> \/ a[o] # {}
                         => laneOf'[o] \in Lane /\ map[laneOf'[o]] = o
  /\ \A o \in Object \ objs : q[o] # <<>> => Cardinality(a[o]) >= m[o]
  /\ \A l \in ScopedLane :
       map[l] \in Object \ objs /\ q[map[l]] = <<>> /\ a[map[l]] = {} /\ m[map[l]] = 1
         => g[map[l]] > 0

\* drainLane repairs the lanes it drains: it saturates them and unbinds those it leaves
\* idle, and unbinds nothing that has work.
LEMMA DrainLanesSound ==
  ASSUME NEW objs, NEW map, NEW q, NEW a, NEW m, NEW g, NEW ph, NEW t, NEW b,
         Handed(objs, map, q, a, m, g, ph, t, b),
         DrainLanes(objs, map, q, a, m, g, ph, t, b),
         Sound(objs, map, q, a, m, g)
  PROVE  LanesSound'
<1>1. Drained(objs, q, a, m) /\ Unbound(objs, map, q, a, m, ph)
  BY DrainLanesPreserves, DrainLanesEffects
<1>2. /\ objs \in SUBSET Object /\ map \in [Lane -> Object \cup {Nil}]
      /\ maxConcurrent' = m /\ generation' = g
  BY DEF Handed, DrainLanes
<1>3. NoStrandedWork'
  <2> SUFFICES ASSUME NEW o \in Object, queue'[o] # <<>> \/ activeTaskIds'[o] # {}
               PROVE  laneOf'[o] \in Lane /\ lanes'[laneOf'[o]] = o
    BY DEF NoStrandedWork
  <2>1. q[o] # <<>> \/ a[o] # {}
    BY <1>1 DEF Unbound
  <2>2. laneOf'[o] \in Lane /\ map[laneOf'[o]] = o
    BY <2>1 DEF Sound
  <2> QED BY <1>1, <2>2 DEF Unbound
<1>4. LaneSaturated'
  BY <1>1, <1>2 DEF LaneSaturated, Drained, Sound
<1>5. IdleScopedLanesRetire'
  <2> SUFFICES ASSUME NEW l \in ScopedLane, lanes'[l] # Nil, queue'[lanes'[l]] = <<>>,
                      activeTaskIds'[lanes'[l]] = {}, maxConcurrent'[lanes'[l]] = 1
               PROVE  generation'[lanes'[l]] > 0
    BY DEF IdleScopedLanesRetire
  <2>1. l \in Lane
    BY LanesAssumption
  <2>2. lanes'[l] = map[l] /\ map[l] \in Object /\ laneOf'[map[l]] = l
    BY <1>1, <1>2, <2>1 DEF Unbound, Sound
  <2>3. map[l] \notin objs
    <3>1. Retires(map[l], queue'[map[l]], activeTaskIds'[map[l]], m[map[l]])
      BY <1>2, <2>2 DEF Retires
    <3> QED BY <1>1, <2>1, <2>2, <3>1 DEF Unbound
  <2>4. q[map[l]] = <<>> /\ a[map[l]] = {} /\ m[map[l]] = 1
    BY <1>1, <1>2, <2>2, <2>3 DEF Drained
  <2> QED BY <1>2, <2>2, <2>3, <2>4 DEF Sound
<1> QED BY <1>3, <1>4, <1>5 DEF LanesSound

\* What the Map is once getLaneState has bound l to o.
Rebound(map, l, o) ==
  /\ \A k \in Lane : map[k] # Nil => laneOf'[map[k]] = k
  /\ laneOf'[o] = l /\ map[l] = o
  /\ \A k \in Object : k # o /\ (queue[k] # <<>> \/ activeTaskIds[k] # {})
                         => laneOf'[k] \in Lane /\ map[laneOf'[k]] = k
  /\ \A k \in ScopedLane : map[k] # o => map[k] = lanes[k]

\* getLaneState binds no object away from under its work.
LEMMA GetLaneStateSound ==
  ASSUME Core, LanesSound, NEW l \in Lane, NEW o \in Object, GetLaneState(l, o)
  PROVE  Rebound([lanes EXCEPT ![l] = o], l, o)
<1> DEFINE map == [lanes EXCEPT ![l] = o]
<1>1. /\ laneOf'[o] = l
      /\ \A k \in Object : k # o => laneOf'[k] = laneOf[k]
      /\ \A k \in Lane : map[k] # Nil => laneOf'[map[k]] = k
      /\ lanes[l] # o => lanes[l] = Nil
  BY GetLaneStateProperties
<1>2. lanes \in [Lane -> Object \cup {Nil}]
  BY DEF Core, TypeOK
<1>3. map[l] = o /\ \A k \in Lane : k # l => map[k] = lanes[k]
  BY <1>2
<1>4. ASSUME NEW k \in Object, k # o, queue[k] # <<>> \/ activeTaskIds[k] # {}
      PROVE  laneOf'[k] \in Lane /\ map[laneOf'[k]] = k
  <2>1. laneOf[k] \in Lane /\ lanes[laneOf[k]] = k
    BY <1>4 DEF LanesSound, NoStrandedWork
  <2>2. laneOf[k] # l
    BY <1>1, <1>4, <2>1, NilAssumption
  <2> QED BY <1>1, <1>3, <1>4, <2>1, <2>2
<1>5. \A k \in ScopedLane : map[k] # o => map[k] = lanes[k]
  BY <1>3, LanesAssumption
<1> QED BY <1>1, <1>3, <1>4, <1>5 DEF Rebound

\* Enqueueing: the pump repairs the one lane that has a new entry.
LEMMA EnqueueSound ==
  ASSUME Core, LanesSound, NEW l \in Lane, NEW e \in Entry, NEW p \in Priority,
         EnqueueCommandInLane(l, e, p)
  PROVE  LanesSound'
<1>1. PICK o \in Object :
        /\ GetLaneState(l, o)
        /\ place' = [place EXCEPT ![e] = o]
        /\ DrainLanes({o}, [lanes EXCEPT ![l] = o],
                      [queue EXCEPT ![o] = EnqueueLaneEntry(queue[o], e, p)],
                      activeTaskIds, maxConcurrent, generation,
                      [phase EXCEPT ![e] = "queued"], timer, body)
  BY DEF EnqueueCommandInLane
<1> DEFINE map == [lanes EXCEPT ![l] = o]
           q == [queue EXCEPT ![o] = EnqueueLaneEntry(queue[o], e, p)]
           ph == [phase EXCEPT ![e] = "queued"]
<1>2. phase[e] = "new"
  BY DEF EnqueueCommandInLane
<1>3. Handed({o}, map, q, activeTaskIds, maxConcurrent, generation, ph, timer, body)
  BY <1>1, <1>2, EnqueueHands
<1>4. DrainLanes({o}, map, q, activeTaskIds, maxConcurrent, generation, ph, timer, body)
  BY <1>1
<1>5. \A k \in Object : k # o => q[k] = queue[k]
  BY DEF Core, TypeOK
<1>6. /\ \A k \in Lane : map[k] # Nil => laneOf'[map[k]] = k
      /\ laneOf'[o] = l /\ map[l] = o
      /\ \A k \in Object : k # o /\ (queue[k] # <<>> \/ activeTaskIds[k] # {})
                             => laneOf'[k] \in Lane /\ map[laneOf'[k]] = k
      /\ \A k \in ScopedLane : map[k] # o => map[k] = lanes[k]
  <2>1. Rebound(map, l, o)
    BY <1>1, GetLaneStateSound
  <2> QED BY <2>1 DEF Rebound
<1> HIDE DEF map, q, ph
<1>7. /\ \A k \in Object \ {o} : q[k] # <<>> => Cardinality(activeTaskIds[k]) >= maxConcurrent[k]
      /\ \A k \in ScopedLane :
           map[k] \in Object \ {o} /\ q[map[k]] = <<>>
             /\ activeTaskIds[map[k]] = {} /\ maxConcurrent[map[k]] = 1
             => generation[map[k]] > 0
  BY <1>5, <1>6, NilAssumption DEF LanesSound, LaneSaturated, IdleScopedLanesRetire
<1>8. \A k \in Object : q[k] # <<>> \/ activeTaskIds[k] # {}
                          => laneOf'[k] \in Lane /\ map[laneOf'[k]] = k
  BY <1>5, <1>6
<1>9. Sound({o}, map, q, activeTaskIds, maxConcurrent, generation)
  BY <1>6, <1>7, <1>8 DEF Sound
<1> QED BY <1>3, <1>4, <1>9, DrainLanesSound

\* Changing a limit: a positive one pumps the lane, a zero one has no free slot to fill.
LEMMA SetConcurrencySound ==
  ASSUME Core, LanesSound, NEW l \in Lane, NEW n \in Concurrency,
         SetCommandLaneConcurrency(l, n)
  PROVE  LanesSound'
<1>1. PICK o \in Object :
        /\ GetLaneState(l, o)
        /\ DrainLanes(IF LaneLimit(l, n) > 0 THEN {o} ELSE {}, [lanes EXCEPT ![l] = o],
                      queue, activeTaskIds, [maxConcurrent EXCEPT ![o] = LaneLimit(l, n)],
                      generation, phase, timer, body)
  BY DEF SetCommandLaneConcurrency
<1> DEFINE objs == IF LaneLimit(l, n) > 0 THEN {o} ELSE {}
           map == [lanes EXCEPT ![l] = o]
           m == [maxConcurrent EXCEPT ![o] = LaneLimit(l, n)]
<1>2. place' = place
  BY DEF SetCommandLaneConcurrency
<1>3. Handed(objs, map, queue, activeTaskIds, m, generation, phase, timer, body)
  BY <1>1, <1>2, SetConcurrencyHands
<1>4. DrainLanes(objs, map, queue, activeTaskIds, m, generation, phase, timer, body)
  BY <1>1
<1>5. /\ \A k \in Object : k # o => m[k] = maxConcurrent[k]
      /\ o \notin objs => m[o] = 0
  <2>1. LaneLimit(l, n) \in Nat
    BY NumbersAssumption DEF LaneLimit
  <2> QED BY <2>1 DEF Core, TypeOK
<1>6. /\ \A k \in Lane : map[k] # Nil => laneOf'[map[k]] = k
      /\ laneOf'[o] = l /\ map[l] = o
      /\ \A k \in Object : k # o /\ (queue[k] # <<>> \/ activeTaskIds[k] # {})
                             => laneOf'[k] \in Lane /\ map[laneOf'[k]] = k
      /\ \A k \in ScopedLane : map[k] # o => map[k] = lanes[k]
  <2>1. Rebound(map, l, o)
    BY <1>1, GetLaneStateSound
  <2> QED BY <2>1 DEF Rebound
<1>7. Cardinality(activeTaskIds[o]) \in Nat
  <2>1. IsFiniteSet(activeTaskIds[o])
    BY FS_Subset, EntriesAssumption DEF Core, TypeOK
  <2> QED BY <2>1, FS_CardinalityType
<1> HIDE DEF objs, map, m
<1>8. /\ \A k \in Object \ objs : queue[k] # <<>> => Cardinality(activeTaskIds[k]) >= m[k]
      /\ \A k \in ScopedLane :
           map[k] \in Object \ objs /\ queue[map[k]] = <<>>
             /\ activeTaskIds[map[k]] = {} /\ m[map[k]] = 1
             => generation[map[k]] > 0
  <2>1. \A k \in Object \ objs : queue[k] # <<>> => Cardinality(activeTaskIds[k]) >= m[k]
    BY <1>5, <1>7 DEF LanesSound, LaneSaturated
  <2>2. ASSUME NEW k \in ScopedLane, map[k] \in Object \ objs, queue[map[k]] = <<>>,
               activeTaskIds[map[k]] = {}, m[map[k]] = 1
        PROVE  generation[map[k]] > 0
    <3>1. map[k] # o
      BY <1>5, <2>2
    <3>2. map[k] = lanes[k] /\ lanes[k] # Nil /\ maxConcurrent[lanes[k]] = 1
      BY <1>5, <1>6, <2>2, <3>1, NilAssumption
    <3> QED BY <2>2, <3>2 DEF LanesSound, IdleScopedLanesRetire
  <2> QED BY <2>1, <2>2
<1>9. \A k \in Object : queue[k] # <<>> \/ activeTaskIds[k] # {}
                          => laneOf'[k] \in Lane /\ map[laneOf'[k]] = k
  BY <1>6
<1>10. Sound(objs, map, queue, activeTaskIds, m, generation)
  BY <1>6, <1>8, <1>9 DEF Sound
<1> QED BY <1>3, <1>4, <1>10, DrainLanesSound

\* Settling a task of the present generation pumps and retires the lane whose slot it
\* frees; settling a stale one leaves every lane as it is.
LEMMA SettleSound ==
  ASSUME Core, LanesSound, NEW e \in Entry, phase[e] = "running", NEW outcome \in Outcome,
         NEW b \in [Entry -> {"idle", "running", "done"}], SettleTask(e, outcome, b)
  PROVE  LanesSound'
<1> DEFINE objs == IF CompletesCurrentGeneration(e) THEN {place[e]} ELSE {}
           a == IF CompletesCurrentGeneration(e)
                THEN [activeTaskIds EXCEPT ![place[e]] = @ \ {e}] ELSE activeTaskIds
           ph == [phase EXCEPT ![e] = outcome]
           t == [timer EXCEPT ![e] = "off"]
<1>1. /\ laneOf' = laneOf /\ place' = place
      /\ DrainLanes(objs, lanes, queue, a, maxConcurrent, generation, ph, t, b)
  BY DEF SettleTask
<1>2. Handed(objs, lanes, queue, a, maxConcurrent, generation, ph, t, b)
  BY <1>1, SettleHands
<1>3. /\ \A k \in Object : a[k] \subseteq activeTaskIds[k]
      /\ \A k \in Object \ objs : a[k] = activeTaskIds[k]
  BY DEF Core, TypeOK
<1> HIDE DEF objs, a, ph, t
<1>4. /\ \A l \in Lane : lanes[l] # Nil => laneOf[lanes[l]] = l
      /\ \A k \in Object : queue[k] # <<>> \/ a[k] # {}
                             => laneOf[k] \in Lane /\ lanes[laneOf[k]] = k
  BY <1>3 DEF Core, Bookkeeping, LanesSound, NoStrandedWork
<1>5. /\ \A k \in Object \ objs : queue[k] # <<>> => Cardinality(a[k]) >= maxConcurrent[k]
      /\ \A l \in ScopedLane :
           lanes[l] \in Object \ objs /\ queue[lanes[l]] = <<>>
             /\ a[lanes[l]] = {} /\ maxConcurrent[lanes[l]] = 1
             => generation[lanes[l]] > 0
  BY <1>3, NilAssumption DEF LanesSound, LaneSaturated, IdleScopedLanesRetire
<1>6. Sound(objs, lanes, queue, a, maxConcurrent, generation)
  BY <1>1, <1>4, <1>5 DEF Sound
<1> QED BY <1>1, <1>2, <1>6, DrainLanesSound

\* A reset empties the slots: it pumps what has work, and what it leaves idle is of a new
\* generation.
LEMMA ResetSound ==
  ASSUME Core, LanesSound, NEW objs \in SUBSET Object, ResetObjects(objs)
  PROVE  LanesSound'
<1> DEFINE D == {o \in objs : queue[o] # <<>>}
           a == [o \in Object |-> IF o \in objs THEN {} ELSE activeTaskIds[o]]
           g == NextGeneration(objs)
<1>1. /\ laneOf' = laneOf /\ place' = place
      /\ DrainLanes(D, lanes, queue, a, maxConcurrent, g, phase, timer, body)
  BY DEF ResetObjects
<1>2. Handed(D, lanes, queue, a, maxConcurrent, g, phase, timer, body)
  BY <1>1, ResetHands
<1>3. /\ \A k \in Object : a[k] # {} => activeTaskIds[k] # {}
      /\ \A k \in Object \ objs : a[k] = activeTaskIds[k] /\ g[k] = generation[k]
      /\ \A k \in objs : g[k] > 0
  BY DEF NextGeneration, Core, TypeOK
<1>4. \A k \in Object \ D : k \in objs => queue[k] = <<>>
  OBVIOUS
<1> HIDE DEF D, a, g
<1>5. /\ \A l \in Lane : lanes[l] # Nil => laneOf[lanes[l]] = l
      /\ \A k \in Object : queue[k] # <<>> \/ a[k] # {}
                             => laneOf[k] \in Lane /\ lanes[laneOf[k]] = k
  BY <1>3 DEF Core, Bookkeeping, LanesSound, NoStrandedWork
<1>6. /\ \A k \in Object \ D : queue[k] # <<>> => Cardinality(a[k]) >= maxConcurrent[k]
      /\ \A l \in ScopedLane :
           lanes[l] \in Object \ D /\ queue[lanes[l]] = <<>>
             /\ a[lanes[l]] = {} /\ maxConcurrent[lanes[l]] = 1
             => g[lanes[l]] > 0
  BY <1>3, <1>4, NilAssumption DEF LanesSound, LaneSaturated, IdleScopedLanesRetire
<1>7. Sound(D, lanes, queue, a, maxConcurrent, g)
  BY <1>1, <1>5, <1>6 DEF Sound
<1> QED BY <1>1, <1>2, <1>7, DrainLanesSound

\* Clearing does not retire: a lane of one slot whose queue it empties has a task running.
LEMMA ClearSound ==
  ASSUME Core, LanesSound, NEW l \in Lane, ClearCommandLane(l)
  PROVE  LanesSound'
<1>1. /\ UNCHANGED <<lanes, laneOf, activeTaskIds, maxConcurrent, generation>>
      /\ queue' = [queue EXCEPT ![lanes[l]] = <<>>]
  BY DEF ClearCommandLane
<1>2. \A o \in Object : queue'[o] = queue[o] \/ (queue'[o] = <<>> /\ queue[o] # <<>>)
  BY <1>1 DEF Core, TypeOK
<1>3. NoStrandedWork' /\ LaneSaturated'
  BY <1>1, <1>2 DEF LanesSound, NoStrandedWork, LaneSaturated
<1>4. ASSUME NEW o \in Object, queue'[o] # queue[o], maxConcurrent[o] = 1
      PROVE  activeTaskIds[o] # {}
  <2>1. Cardinality(activeTaskIds[o]) >= 1
    BY <1>2, <1>4 DEF LanesSound, LaneSaturated
  <2>2. Cardinality({}) = 0
    BY FS_EmptySet
  <2> QED BY <2>1, <2>2
<1>5. IdleScopedLanesRetire'
  <2>1. \A k \in ScopedLane : lanes[k] # Nil => lanes[k] \in Object
    BY LanesAssumption DEF Core, TypeOK
  <2> QED BY <1>1, <1>2, <1>4, <2>1 DEF LanesSound, IdleScopedLanesRetire
<1> QED BY <1>3, <1>5 DEF LanesSound

\* The empty Map is sound.
LEMMA InitSound == Init => LanesSound
  BY NilAssumption, LanesAssumption
     DEF Init, LanesSound, NoStrandedWork, LaneSaturated, IdleScopedLanesRetire

\* Every step keeps the lanes sound.
LEMMA NextSound == Core /\ LanesSound /\ [Next]_vars => LanesSound'
<1> SUFFICES ASSUME Core, LanesSound, [Next]_vars PROVE LanesSound'
  OBVIOUS
<1>1. ASSUME NEW l \in Lane, NEW e \in Entry, NEW p \in Priority, EnqueueCommandInLane(l, e, p)
      PROVE  LanesSound'
  BY <1>1, EnqueueSound
<1>2. ASSUME NEW l \in Lane, NEW n \in Concurrency, SetCommandLaneConcurrency(l, n)
      PROVE  LanesSound'
  BY <1>2, SetConcurrencySound
<1>3. ASSUME NEW e \in Entry, BodyFinishes(e) PROVE LanesSound'
  <2>1. [body EXCEPT ![e] = "done"] \in [Entry -> {"idle", "running", "done"}]
    BY DEF Core, TypeOK
  <2> QED BY <1>3, <2>1, SettleSound DEF BodyFinishes, Outcome
<1>4. ASSUME NEW e \in Entry, TaskTimesOut(e) PROVE LanesSound'
  <2>1. body \in [Entry -> {"idle", "running", "done"}]
    BY DEF Core, TypeOK
  <2> QED BY <1>4, <2>1, SettleSound DEF TaskTimesOut, Outcome
<1>5. ASSUME NEW l \in Lane, ClearCommandLane(l) PROVE LanesSound'
  BY <1>5, ClearSound
<1>6. ASSUME NEW l \in Lane, ResetCommandLane(l) PROVE LanesSound'
  <2>1. {lanes[l]} \in SUBSET Object
    BY <1>6 DEF ResetCommandLane, Core, TypeOK
  <2> QED BY <1>6, <2>1, ResetSound DEF ResetCommandLane
<1>7. CASE ResetAllLanes
  <2>1. {lanes[l] : l \in Lane} \ {Nil} \in SUBSET Object
    BY DEF Core, TypeOK
  <2> QED BY <1>7, <2>1, ResetSound DEF ResetAllLanes
<1>8. ASSUME UNCHANGED laneVars PROVE LanesSound'
  BY <1>8 DEF laneVars, LanesSound, NoStrandedWork, LaneSaturated, IdleScopedLanesRetire
<1>9. CASE \/ \E e \in Entry : \/ EnqueueRefused(e) \/ BodyFinishesLate(e)
                               \/ Abort(e) \/ Release(e)
           \/ \E w \in Waiter : \/ WaitForActiveTasks(w) \/ WaiterTimesOut(w)
                                \/ \E zero \in BOOLEAN : WaitRefused(w, zero)
           \/ MarkGatewayDraining \/ FenceChanges
           \/ UNCHANGED vars
  <2>1. UNCHANGED laneVars
    BY <1>9 DEF EnqueueRefused, BodyFinishesLate, Abort, Release, WaitForActiveTasks,
                WaiterTimesOut, WaitRefused, MarkGatewayDraining, FenceChanges, vars
  <2> QED BY <1>8, <2>1
<1> QED
  BY <1>1, <1>2, <1>3, <1>4, <1>5, <1>6, <1>7, <1>9 DEF Next

\* The Map binds exactly the lanes worth binding, and no lane has a free slot while an entry
\* of it waits: retirement, pump and limit changes agree after any sequence of calls.
THEOREM LanesAlwaysSound == Spec => []LanesSound
<1>1. Spec => [](Core /\ LanesSound)
  BY InitCore, NextCore, InitSound, NextSound, PTL DEF Spec
<1> QED BY <1>1, PTL

-----------------------------------------------------------------------------
(* The order in which entries start *)

\* Before, for the priorities pr and the sequence numbers sq.
Ahead(pr, sq, e, f) == pr[e] > pr[f] \/ (pr[e] = pr[f] /\ sq[e] < sq[f])

\* The queue s stands in the order in which its entries are to start.
Ordered(s, pr, sq) == \A i, j \in 1..Len(s) : i < j => Ahead(pr, sq, s[i], s[j])

QueuesOrdered == \A o \in Object : Ordered(queue[o], priority, sequence)

\* What StartOrder and StaleCompletionInert say of one step.
StartStep == \A e, f \in Entry :
  phase'[e] = "running" /\ phase[e] # "running"
    /\ phase'[f] = "queued" /\ place'[f] = place'[e]
    => Before(e, f)'

StaleStep == \A e \in Entry :
  phase[e] = "running" /\ phase'[e] # "running" /\ taskGeneration[e] # generation[place[e]]
    => UNCHANGED <<laneVars, waiting>>

StepOrdered == QueuesOrdered' /\ StartStep /\ StaleStep

\* A queue that holds only entries whose priority and number stay is ordered as before.
LEMMA OrderedFrame ==
  ASSUME NEW s \in Seq(Entry), Ordered(s, priority, sequence),
         \A i \in 1..Len(s) : /\ priority'[s[i]] = priority[s[i]]
                              /\ sequence'[s[i]] = sequence[s[i]]
  PROVE  Ordered(s, priority', sequence')
  BY DEF Ordered, Ahead

\* enqueueLaneEntry puts the newest entry behind everything of its priority or a higher
\* one and in front of everything of a lower one.
LEMMA EnqueueLaneEntryOrdered ==
  ASSUME Core, NEW o \in Object, NEW e \in Entry, NEW p \in -1..1, phase[e] = "new",
         Ordered(queue[o], priority, sequence),
         priority' = [priority EXCEPT ![e] = p],
         sequence' = [sequence EXCEPT ![e] = nextQueueSequence]
  PROVE  Ordered(EnqueueLaneEntry(queue[o], e, p), priority', sequence')
<1> DEFINE q == queue[o]
           at == InsertionPoint(q, p)
           r == EnqueueLaneEntry(q, e, p)
<1>1. /\ q \in Seq(Entry) /\ Len(q) \in Nat /\ priority \in [Entry -> -1..1]
      /\ sequence \in [Entry -> Nat] /\ nextQueueSequence \in Nat
  BY LenProperties DEF Core, TypeOK
<1>2. \A i \in 1..Len(q) : q[i] \in Entry /\ q[i] # e
  <2>1. \A f \in Entry : (\E i \in 1..Len(q) : q[i] = f) => phase[f] = "queued"
    BY DEF Core, QueuedExactlyOnce
  <2>2. ~ \E i \in 1..Len(q) : q[i] = e
    BY <2>1
  <2> QED BY <1>1, <2>2
<1>3. /\ at \in 1..(Len(q) + 1)
      /\ \A j \in 1..Len(q) : j < at => priority[q[j]] >= p
      /\ at <= Len(q) => priority[q[at]] < p
  BY <1>1, InsertionPointProperties
<1>4. r = [i \in 1..(Len(q) + 1) |->
             IF i < at THEN q[i] ELSE IF i = at THEN e ELSE q[i - 1]]
  BY DEF EnqueueLaneEntry
<1>5. Spliced(q, e, r)
  <2>1. Splices(q, e)
    BY <1>2 DEF Splices, Core, QueuedExactlyOnce
  <2> QED BY <1>1, <2>1, EnqueueLaneEntryProperties
<1>6. \A f \in Entry : /\ f # e => priority'[f] = priority[f] /\ sequence'[f] = sequence[f]
                       /\ f = e => priority'[f] = p /\ sequence'[f] = nextQueueSequence
  BY <1>1
<1>7. \A f \in Entry : /\ priority[f] \in -1..1 /\ sequence[f] \in Nat
                       /\ sequence[f] < nextQueueSequence
  BY <1>1 DEF Core, Bookkeeping
<1>8. \A i, j \in 1..Len(q) : i < j => Ahead(priority, sequence, q[i], q[j])
  BY DEF Ordered
<1> SUFFICES ASSUME NEW i \in 1..(Len(q) + 1), NEW j \in 1..(Len(q) + 1), i < j
             PROVE  Ahead(priority', sequence', r[i], r[j])
  BY <1>5 DEF Ordered, Spliced
<1> HIDE DEF q, at, r
<1>9. \A k \in 1..(Len(q) + 1) :
        /\ k < at => k \in 1..Len(q) /\ r[k] = q[k]
        /\ k = at => r[k] = e
        /\ k > at => k - 1 \in 1..Len(q) /\ r[k] = q[k - 1]
  BY <1>1, <1>3, <1>4
<1>10. ASSUME NEW x \in 1..Len(q), NEW y \in 1..Len(q), x < y
       PROVE  Ahead(priority', sequence', q[x], q[y])
  <2>1. Ahead(priority, sequence, q[x], q[y])
    BY <1>8, <1>10
  <2>2. /\ priority'[q[x]] = priority[q[x]] /\ sequence'[q[x]] = sequence[q[x]]
        /\ priority'[q[y]] = priority[q[y]] /\ sequence'[q[y]] = sequence[q[y]]
    BY <1>2, <1>6
  <2> QED BY <2>1, <2>2 DEF Ahead
<1>11. CASE j < at
  <2>1. i \in 1..Len(q) /\ j \in 1..Len(q) /\ r[i] = q[i] /\ r[j] = q[j]
    BY <1>1, <1>3, <1>9, <1>11
  <2> QED BY <1>10, <2>1
<1>12. CASE j = at
  <2>1. i \in 1..Len(q) /\ r[i] = q[i] /\ r[j] = e /\ priority[q[i]] >= p
    BY <1>1, <1>3, <1>9, <1>12
  <2>2. /\ priority'[q[i]] = priority[q[i]] /\ sequence'[q[i]] = sequence[q[i]]
        /\ priority'[e] = p /\ sequence'[e] = nextQueueSequence
        /\ priority[q[i]] \in -1..1 /\ sequence[q[i]] < nextQueueSequence
    BY <1>2, <1>6, <1>7, <2>1
  <2> QED BY <2>1, <2>2 DEF Ahead
<1>13. CASE i < at /\ at < j
  <2>1. i \in 1..Len(q) /\ j - 1 \in 1..Len(q) /\ i < j - 1
    BY <1>1, <1>3, <1>9, <1>13
  <2> QED BY <1>9, <1>10, <1>13, <2>1
<1>14. CASE i = at
  <2>1. at \in 1..Len(q) /\ j - 1 \in 1..Len(q) /\ at <= j - 1 /\ r[i] = e /\ r[j] = q[j - 1]
    BY <1>1, <1>3, <1>9, <1>14
  <2>2. priority[q[at]] < p
    BY <1>1, <1>3, <2>1
  <2>3. q[at] \in Entry /\ q[j - 1] \in Entry /\ q[j - 1] # e
    BY <1>2, <2>1
  <2>4. priority[q[j - 1]] <= priority[q[at]]
    <3>1. CASE at = j - 1
      BY <1>7, <2>3, <3>1
    <3>2. CASE at < j - 1
      <4>1. Ahead(priority, sequence, q[at], q[j - 1])
        BY <1>8, <2>1, <3>2
      <4> QED BY <1>7, <2>3, <4>1 DEF Ahead
    <3> QED BY <1>3, <2>1, <3>1, <3>2
  <2>5. p > priority[q[j - 1]]
    BY <1>7, <2>2, <2>3, <2>4
  <2>6. priority'[e] = p /\ priority'[q[j - 1]] = priority[q[j - 1]]
    BY <1>6, <2>3
  <2> QED BY <2>1, <2>5, <2>6 DEF Ahead
<1>15. CASE i > at
  <2>1. i - 1 \in 1..Len(q) /\ j - 1 \in 1..Len(q) /\ i - 1 < j - 1 /\ j > at
    BY <1>1, <1>3, <1>9, <1>15
  <2> QED BY <1>9, <1>10, <1>15, <2>1
<1> QED BY <1>1, <1>3, <1>11, <1>12, <1>13, <1>14, <1>15

\* The pump takes entries from the head: what starts was in front of what stays, and
\* what stays is still in order.
LEMMA PumpOrdered ==
  ASSUME NEW q \in Seq(Entry), NEW a \in SUBSET Entry, NEW m \in Nat, NEW pr, NEW sq,
         Ordered(q, pr, sq)
  PROVE  /\ Ordered(Remaining(q, a, m), pr, sq)
         /\ \A e \in Dequeued(q, a, m) : \A i \in 1..Len(Remaining(q, a, m)) :
              Ahead(pr, sq, e, Remaining(q, a, m)[i])
<1> DEFINE n == PumpCount(q, a, m)
           r == Remaining(q, a, m)
<1>1. n \in 0..Len(q) /\ Len(q) \in Nat
  <2>1. Len(q) \in Nat
    BY LenProperties
  <2> QED BY <2>1, PumpCountType
<1>2. /\ Len(r) = Len(q) - n
      /\ \A i \in 1..Len(r) : i + n \in 1..Len(q) /\ r[i] = q[i + n]
  BY RemainingProperties
<1>3. Dequeued(q, a, m) = {q[i] : i \in 1..n}
  BY DEF Dequeued
<1>4. \A i, j \in 1..Len(q) : i < j => Ahead(pr, sq, q[i], q[j])
  BY DEF Ordered
<1> HIDE DEF n, r
<1>5. \A i, j \in 1..Len(r) : i < j => Ahead(pr, sq, r[i], r[j])
  <2> SUFFICES ASSUME NEW i \in 1..Len(r), NEW j \in 1..Len(r), i < j
               PROVE  Ahead(pr, sq, r[i], r[j])
    OBVIOUS
  <2>1. i + n \in 1..Len(q) /\ j + n \in 1..Len(q) /\ i + n < j + n
    BY <1>1, <1>2
  <2> QED BY <1>2, <1>4, <2>1
<1>6. ASSUME NEW k \in 1..n, NEW i \in 1..Len(r)
      PROVE  Ahead(pr, sq, q[k], r[i])
  <2>1. k \in 1..Len(q) /\ i + n \in 1..Len(q) /\ k < i + n
    BY <1>1, <1>2
  <2> QED BY <1>2, <1>4, <2>1
<1>7. Ordered(r, pr, sq)
  BY <1>5 DEF Ordered
<1>8. \A e \in Dequeued(q, a, m) : \A i \in 1..Len(r) : Ahead(pr, sq, e, r[i])
  BY <1>3, <1>6
<1> QED BY <1>7, <1>8 DEF r

\* drainLane keeps the queues in order and starts nothing that has to wait for what it
\* leaves queued.
LEMMA DrainLanesOrdered ==
  ASSUME NEW objs, NEW map, NEW q, NEW a, NEW m, NEW g, NEW ph, NEW t, NEW b,
         Handed(objs, map, q, a, m, g, ph, t, b),
         DrainLanes(objs, map, q, a, m, g, ph, t, b),
         \A o \in Object : Ordered(q[o], priority', sequence')
  PROVE  /\ QueuesOrdered'
         /\ \A e, f \in Entry :
              phase'[e] = "running" /\ ph[e] # "running"
                /\ phase'[f] = "queued" /\ place'[f] = place'[e]
                => Before(e, f)'
<1>1. /\ objs \in SUBSET Object /\ q \in [Object -> Seq(Entry)]
      /\ a \in [Object -> SUBSET Entry] /\ m \in [Object -> Nat]
      /\ Lined(q, ph, place')
  BY DEF Handed
<1> DEFINE Deq(o) == Dequeued(q[o], a[o], m[o])
           Rem(o) == Remaining(q[o], a[o], m[o])
           Started == UNION {Deq(o) : o \in objs}
<1>2. /\ queue' = [o \in Object |-> IF o \in objs THEN Rem(o) ELSE q[o]]
      /\ phase' = [e \in Entry |-> IF e \in Started THEN "running" ELSE ph[e]]
  BY DEF DrainLanes
<1>3. \A o \in Object :
        /\ Ordered(Rem(o), priority', sequence')
        /\ \A e \in Deq(o) : \A i \in 1..Len(Rem(o)) : Ahead(priority', sequence', e, Rem(o)[i])
  <2> SUFFICES ASSUME NEW o \in Object
               PROVE  /\ Ordered(Rem(o), priority', sequence')
                      /\ \A e \in Deq(o) : \A i \in 1..Len(Rem(o)) :
                           Ahead(priority', sequence', e, Rem(o)[i])
    OBVIOUS
  <2>1. /\ q[o] \in Seq(Entry) /\ a[o] \in SUBSET Entry /\ m[o] \in Nat
        /\ Ordered(q[o], priority', sequence')
    BY <1>1
  <2> QED BY <2>1, PumpOrdered
<1>4. \A o \in objs : \A e \in Deq(o) : place'[e] = o
  <2> SUFFICES ASSUME NEW o \in objs, NEW e \in Deq(o) PROVE place'[e] = o
    OBVIOUS
  <2>1. /\ q[o] \in Seq(Entry) /\ a[o] \in SUBSET Entry /\ m[o] \in Nat
        /\ \A i, j \in 1..Len(q[o]) : q[o][i] = q[o][j] => i = j
    BY <1>1 DEF Lined
  <2>2. e \in Entry /\ \E i \in 1..Len(q[o]) : q[o][i] = e
    BY <2>1, PumpSplits
  <2> QED BY <1>1, <2>2 DEF Lined
<1> HIDE DEF Deq, Rem
<1>5. QueuesOrdered'
  BY <1>2, <1>3 DEF QueuesOrdered
<1>6. ASSUME NEW e \in Entry, NEW f \in Entry, phase'[e] = "running", ph[e] # "running",
             phase'[f] = "queued", place'[f] = place'[e]
      PROVE  Before(e, f)'
  <2>1. PICK o \in objs : e \in Deq(o)
    <3>1. e \in Started
      <4> HIDE DEF Started
      <4> QED BY <1>2, <1>6
    <3> QED BY <3>1
  <2>2. place'[f] = o /\ o \in Object
    BY <1>1, <1>4, <1>6, <2>1
  <2>3. QueuedExactlyOnce'
    BY DrainLanesPreserves DEF Drained
  <2>4. PICK i \in 1..Len(queue'[o]) : queue'[o][i] = f
    BY <1>6, <2>2, <2>3 DEF QueuedExactlyOnce
  <2>5. queue'[o] = Rem(o)
    BY <1>2, <2>2
  <2>6. Ahead(priority', sequence', e, f)
    BY <1>3, <2>1, <2>2, <2>4, <2>5
  <2> QED BY <2>6 DEF Ahead, Before
<1> QED BY <1>5, <1>6

\* Enqueueing starts in order and ends no task.
LEMMA EnqueueOrdered ==
  ASSUME Core, QueuesOrdered, NEW l \in Lane, NEW e \in Entry, NEW p \in Priority,
         EnqueueCommandInLane(l, e, p)
  PROVE  StepOrdered
<1>1. PICK o \in Object :
        /\ GetLaneState(l, o)
        /\ place' = [place EXCEPT ![e] = o]
        /\ priority' = [priority EXCEPT ![e] = p]
        /\ sequence' = [sequence EXCEPT ![e] = nextQueueSequence]
        /\ DrainLanes({o}, [lanes EXCEPT ![l] = o],
                      [queue EXCEPT ![o] = EnqueueLaneEntry(queue[o], e, p)],
                      activeTaskIds, maxConcurrent, generation,
                      [phase EXCEPT ![e] = "queued"], timer, body)
  BY DEF EnqueueCommandInLane
<1> DEFINE map == [lanes EXCEPT ![l] = o]
           q == [queue EXCEPT ![o] = EnqueueLaneEntry(queue[o], e, p)]
           ph == [phase EXCEPT ![e] = "queued"]
<1>2. phase[e] = "new"
  BY DEF EnqueueCommandInLane
<1>3. Handed({o}, map, q, activeTaskIds, maxConcurrent, generation, ph, timer, body)
  BY <1>1, <1>2, EnqueueHands
<1>4. DrainLanes({o}, map, q, activeTaskIds, maxConcurrent, generation, ph, timer, body)
  BY <1>1
<1>5. /\ phase \in [Entry -> Phase] /\ queue \in [Object -> Seq(Entry)]
      /\ priority \in [Entry -> -1..1] /\ sequence \in [Entry -> Nat] /\ p \in -1..1
  BY NumbersAssumption DEF Core, TypeOK
<1>6. /\ \A f \in Entry : ph[f] = phase[f] \/ (f = e /\ ph[f] = "queued")
      /\ q[o] = EnqueueLaneEntry(queue[o], e, p)
      /\ \A k \in Object : k # o => q[k] = queue[k]
  BY <1>5
<1>7. Ordered(q[o], priority', sequence')
  <2>1. Ordered(queue[o], priority, sequence)
    BY DEF QueuesOrdered
  <2> QED BY <1>1, <1>2, <1>5, <1>6, <2>1, EnqueueLaneEntryOrdered
<1>8. ASSUME NEW k \in Object, k # o
      PROVE  Ordered(q[k], priority', sequence')
  <2>1. queue[k] \in Seq(Entry) /\ Ordered(queue[k], priority, sequence) /\ q[k] = queue[k]
    BY <1>5, <1>6, <1>8 DEF QueuesOrdered
  <2>2. \A f \in Entry : (\E i \in 1..Len(queue[k]) : queue[k][i] = f) => phase[f] = "queued"
    BY DEF Core, QueuedExactlyOnce
  <2>3. \A i \in 1..Len(queue[k]) : queue[k][i] \in Entry /\ queue[k][i] # e
    <3>1. ~ \E i \in 1..Len(queue[k]) : queue[k][i] = e
      BY <1>2, <2>2
    <3> QED BY <2>1, <3>1
  <2>4. \A i \in 1..Len(queue[k]) : /\ priority'[queue[k][i]] = priority[queue[k][i]]
                                    /\ sequence'[queue[k][i]] = sequence[queue[k][i]]
    BY <1>1, <1>5, <2>3
  <2> QED BY <2>1, <2>4, OrderedFrame
<1> HIDE DEF map, q, ph
<1>9. \A k \in Object : Ordered(q[k], priority', sequence')
  BY <1>7, <1>8
<1>10. /\ QueuesOrdered'
       /\ \A c, f \in Entry :
            phase'[c] = "running" /\ ph[c] # "running"
              /\ phase'[f] = "queued" /\ place'[f] = place'[c]
              => Before(c, f)'
  BY <1>3, <1>4, <1>9, DrainLanesOrdered
<1>11. StartStep
  BY <1>6, <1>10 DEF StartStep
<1>12. \A f \in Entry : phase[f] = "running" => phase'[f] = "running"
  <2>1. Unbound({o}, map, q, activeTaskIds, maxConcurrent, ph)
    BY <1>3, <1>4, DrainLanesEffects
  <2> QED BY <1>2, <1>6, <2>1 DEF Unbound
<1> QED BY <1>10, <1>11, <1>12 DEF StepOrdered, StaleStep

\* Changing a limit starts in order and ends no task.
LEMMA SetConcurrencyOrdered ==
  ASSUME Core, QueuesOrdered, NEW l \in Lane, NEW n \in Concurrency,
         SetCommandLaneConcurrency(l, n)
  PROVE  StepOrdered
<1>1. PICK o \in Object :
        /\ GetLaneState(l, o)
        /\ DrainLanes(IF LaneLimit(l, n) > 0 THEN {o} ELSE {}, [lanes EXCEPT ![l] = o],
                      queue, activeTaskIds, [maxConcurrent EXCEPT ![o] = LaneLimit(l, n)],
                      generation, phase, timer, body)
  BY DEF SetCommandLaneConcurrency
<1> DEFINE objs == IF LaneLimit(l, n) > 0 THEN {o} ELSE {}
           map == [lanes EXCEPT ![l] = o]
           m == [maxConcurrent EXCEPT ![o] = LaneLimit(l, n)]
<1>2. place' = place /\ priority' = priority /\ sequence' = sequence
  BY DEF SetCommandLaneConcurrency
<1>3. Handed(objs, map, queue, activeTaskIds, m, generation, phase, timer, body)
  BY <1>1, <1>2, SetConcurrencyHands
<1>4. DrainLanes(objs, map, queue, activeTaskIds, m, generation, phase, timer, body)
  BY <1>1
<1> HIDE DEF objs, map, m
<1>5. \A k \in Object : Ordered(queue[k], priority', sequence')
  BY <1>2 DEF QueuesOrdered
<1>6. QueuesOrdered' /\ StartStep
  BY <1>3, <1>4, <1>5, DrainLanesOrdered DEF StartStep
<1>7. \A f \in Entry : phase[f] = "running" => phase'[f] = "running"
  <2>1. Unbound(objs, map, queue, activeTaskIds, m, phase)
    BY <1>3, <1>4, DrainLanesEffects
  <2> QED BY <2>1 DEF Unbound
<1> QED BY <1>6, <1>7 DEF StepOrdered, StaleStep

\* Settling starts in order, and a completion of an earlier generation changes no lane.
LEMMA SettleOrdered ==
  ASSUME Core, QueuesOrdered, NEW e \in Entry, phase[e] = "running", NEW outcome \in Outcome,
         NEW b \in [Entry -> {"idle", "running", "done"}], SettleTask(e, outcome, b)
  PROVE  StepOrdered
<1> DEFINE objs == IF CompletesCurrentGeneration(e) THEN {place[e]} ELSE {}
           a == IF CompletesCurrentGeneration(e)
                THEN [activeTaskIds EXCEPT ![place[e]] = @ \ {e}] ELSE activeTaskIds
           ph == [phase EXCEPT ![e] = outcome]
           t == [timer EXCEPT ![e] = "off"]
<1>1. /\ laneOf' = laneOf /\ place' = place /\ priority' = priority /\ sequence' = sequence
      /\ DrainLanes(objs, lanes, queue, a, maxConcurrent, generation, ph, t, b)
      /\ waiting' = IF CompletesCurrentGeneration(e)
                    THEN NotifyActiveTaskWaiters(waiting, waitsFor, lanes, a) ELSE waiting
  BY DEF SettleTask
<1>2. Handed(objs, lanes, queue, a, maxConcurrent, generation, ph, t, b)
  BY <1>1, SettleHands
<1>3. \A f \in Entry : f # e => ph[f] = phase[f]
  BY DEF Core, TypeOK
<1>4. ~CompletesCurrentGeneration(e) => objs = {} /\ a = activeTaskIds /\ waiting' = waiting
  BY <1>1
<1> HIDE DEF objs, a, ph, t
<1>5. \A k \in Object : Ordered(queue[k], priority', sequence')
  BY <1>1 DEF QueuesOrdered
<1>6. /\ QueuesOrdered'
      /\ \A c, f \in Entry :
           phase'[c] = "running" /\ ph[c] # "running"
             /\ phase'[f] = "queued" /\ place'[f] = place'[c]
             => Before(c, f)'
  BY <1>1, <1>2, <1>5, DrainLanesOrdered
<1>7. StartStep
  BY <1>3, <1>6 DEF StartStep
<1>8. \A f \in Entry : phase[f] = "running" /\ phase'[f] # "running" => f = e
  <2>1. Unbound(objs, lanes, queue, a, maxConcurrent, ph)
    BY <1>1, <1>2, DrainLanesEffects
  <2> QED BY <1>3, <2>1 DEF Unbound
<1>9. ASSUME ~CompletesCurrentGeneration(e)
      PROVE  UNCHANGED <<laneVars, waiting>>
  <2>1. /\ lanes \in [Lane -> Object \cup {Nil}] /\ queue \in [Object -> Seq(Entry)]
        /\ activeTaskIds \in [Object -> SUBSET Entry]
    BY DEF Core, TypeOK
  <2>2. DrainLanes({}, lanes, queue, activeTaskIds, maxConcurrent, generation, ph, t, b)
    BY <1>1, <1>4, <1>9
  <2>3. /\ queue' = [k \in Object |-> queue[k]]
        /\ activeTaskIds' = [k \in Object |-> activeTaskIds[k]]
        /\ maxConcurrent' = maxConcurrent /\ generation' = generation
        /\ lanes' = [k \in Lane |-> lanes[k]]
    BY <2>2 DEF DrainLanes
  <2>4. queue' = queue /\ activeTaskIds' = activeTaskIds /\ lanes' = lanes
    BY <2>1, <2>3
  <2> QED BY <1>1, <1>4, <1>9, <2>3, <2>4 DEF laneVars
<1>10. StaleStep
  BY <1>8, <1>9 DEF StaleStep, CompletesCurrentGeneration
<1> QED BY <1>6, <1>7, <1>10 DEF StepOrdered

\* A reset starts in order and ends no task.
LEMMA ResetOrdered ==
  ASSUME Core, QueuesOrdered, NEW objs \in SUBSET Object, ResetObjects(objs)
  PROVE  StepOrdered
<1> DEFINE D == {o \in objs : queue[o] # <<>>}
           a == [o \in Object |-> IF o \in objs THEN {} ELSE activeTaskIds[o]]
           g == NextGeneration(objs)
<1>1. /\ place' = place /\ priority' = priority /\ sequence' = sequence
      /\ DrainLanes(D, lanes, queue, a, maxConcurrent, g, phase, timer, body)
  BY DEF ResetObjects
<1>2. Handed(D, lanes, queue, a, maxConcurrent, g, phase, timer, body)
  BY <1>1, ResetHands
<1> HIDE DEF D, a, g
<1>3. \A k \in Object : Ordered(queue[k], priority', sequence')
  BY <1>1 DEF QueuesOrdered
<1>4. QueuesOrdered' /\ StartStep
  BY <1>1, <1>2, <1>3, DrainLanesOrdered DEF StartStep
<1>5. \A f \in Entry : phase[f] = "running" => phase'[f] = "running"
  <2>1. Unbound(D, lanes, queue, a, maxConcurrent, phase)
    BY <1>1, <1>2, DrainLanesEffects
  <2> QED BY <2>1 DEF Unbound
<1> QED BY <1>4, <1>5 DEF StepOrdered, StaleStep

\* Clearing a lane starts nothing and ends no task.
LEMMA ClearOrdered ==
  ASSUME Core, QueuesOrdered, NEW l \in Lane, ClearCommandLane(l)
  PROVE  StepOrdered
<1>1. /\ priority' = priority /\ sequence' = sequence
      /\ queue' = [queue EXCEPT ![lanes[l]] = <<>>]
      /\ phase' = [e \in Entry |->
           IF \E i \in 1..Len(queue[lanes[l]]) : queue[lanes[l]][i] = e
           THEN "cleared" ELSE phase[e]]
  BY DEF ClearCommandLane
<1>2. \A o \in Object : queue'[o] = queue[o] \/ queue'[o] = <<>>
  BY <1>1 DEF Core, TypeOK
<1>3. Ordered(<<>>, priority, sequence)
  BY DEF Ordered
<1>4. QueuesOrdered'
  BY <1>1, <1>2, <1>3 DEF QueuesOrdered
<1>5. lanes[l] \in Object
  BY DEF ClearCommandLane, Core, TypeOK
<1>6. \A f \in Entry : phase'[f] = "running" <=> phase[f] = "running"
  <2>1. \A f \in Entry : (\E i \in 1..Len(queue[lanes[l]]) : queue[lanes[l]][i] = f)
                          => phase[f] = "queued"
    BY <1>5 DEF Core, QueuedExactlyOnce
  <2> QED BY <1>1, <2>1
<1> QED BY <1>4, <1>6 DEF StepOrdered, StartStep, StaleStep

\* Every step keeps the queues in order, starts in order and respects generations.
LEMMA NextOrdered ==
  ASSUME Core, QueuesOrdered, [Next]_vars
  PROVE  StepOrdered
<1>1. ASSUME NEW l \in Lane, NEW e \in Entry, NEW p \in Priority, EnqueueCommandInLane(l, e, p)
      PROVE  StepOrdered
  BY <1>1, EnqueueOrdered
<1>2. ASSUME NEW l \in Lane, NEW n \in Concurrency, SetCommandLaneConcurrency(l, n)
      PROVE  StepOrdered
  BY <1>2, SetConcurrencyOrdered
<1>3. ASSUME NEW e \in Entry, BodyFinishes(e) PROVE StepOrdered
  <2>1. [body EXCEPT ![e] = "done"] \in [Entry -> {"idle", "running", "done"}]
    BY DEF Core, TypeOK
  <2> QED BY <1>3, <2>1, SettleOrdered DEF BodyFinishes, Outcome
<1>4. ASSUME NEW e \in Entry, TaskTimesOut(e) PROVE StepOrdered
  <2>1. body \in [Entry -> {"idle", "running", "done"}]
    BY DEF Core, TypeOK
  <2> QED BY <1>4, <2>1, SettleOrdered DEF TaskTimesOut, Outcome
<1>5. ASSUME NEW l \in Lane, ClearCommandLane(l) PROVE StepOrdered
  BY <1>5, ClearOrdered
<1>6. ASSUME NEW l \in Lane, ResetCommandLane(l) PROVE StepOrdered
  <2>1. {lanes[l]} \in SUBSET Object
    BY <1>6 DEF ResetCommandLane, Core, TypeOK
  <2> QED BY <1>6, <2>1, ResetOrdered DEF ResetCommandLane
<1>7. CASE ResetAllLanes
  <2>1. {lanes[l] : l \in Lane} \ {Nil} \in SUBSET Object
    BY DEF Core, TypeOK
  <2> QED BY <1>7, <2>1, ResetOrdered DEF ResetAllLanes
<1>8. ASSUME queue' = queue, priority' = priority, sequence' = sequence,
             \A f \in Entry : phase'[f] = "running" <=> phase[f] = "running"
      PROVE  StepOrdered
  <2>1. QueuesOrdered'
    BY <1>8 DEF QueuesOrdered
  <2> QED BY <1>8, <2>1 DEF StepOrdered, StartStep, StaleStep
<1>9. ASSUME NEW e \in Entry, EnqueueRefused(e) PROVE StepOrdered
  <2>1. \A f \in Entry : phase'[f] = "running" <=> phase[f] = "running"
    BY <1>9 DEF EnqueueRefused, Core, TypeOK
  <2> QED BY <1>8, <1>9, <2>1 DEF EnqueueRefused, laneVars
<1>10. CASE \/ \E e \in Entry : BodyFinishesLate(e) \/ Abort(e) \/ Release(e)
            \/ \E w \in Waiter : \/ WaitForActiveTasks(w) \/ WaiterTimesOut(w)
                                 \/ \E zero \in BOOLEAN : WaitRefused(w, zero)
            \/ MarkGatewayDraining \/ FenceChanges
            \/ UNCHANGED vars
  <2>1. queue' = queue /\ priority' = priority /\ sequence' = sequence /\ phase' = phase
    BY <1>10 DEF BodyFinishesLate, Abort, Release, WaitForActiveTasks, WaiterTimesOut,
                 WaitRefused, MarkGatewayDraining, FenceChanges, vars, laneVars, entryVars
  <2> QED BY <1>8, <2>1
<1> QED
  BY <1>1, <1>2, <1>3, <1>4, <1>5, <1>6, <1>7, <1>9, <1>10 DEF Next

\* The queues stand in starting order at any time.
THEOREM QueuesAlwaysOrdered == Spec => [](Core /\ QueuesOrdered)
<1>1. Init => QueuesOrdered
  BY DEF Init, QueuesOrdered, Ordered
<1>2. Core /\ QueuesOrdered /\ [Next]_vars => QueuesOrdered'
  BY NextOrdered DEF StepOrdered
<1> QED BY <1>1, <1>2, InitCore, NextCore, PTL DEF Spec

\* Whatever starts in a lane has a higher priority than what stays queued there, or the
\* same and an earlier number.
THEOREM StartsInOrder == Spec => StartOrder
<1>1. Core /\ QueuesOrdered /\ [Next]_vars =>
        [\A e, f \in Entry :
           phase'[e] = "running" /\ phase[e] # "running"
             /\ phase'[f] = "queued" /\ place'[f] = place'[e]
             => Before(e, f)']_vars
  BY NextOrdered DEF StepOrdered, StartStep
<1> QED BY <1>1, QueuesAlwaysOrdered, PTL DEF Spec, StartOrder

\* The completion of a task that was started before a reset touches no lane and no waiter.
THEOREM StaleCompletionsAreInert == Spec => StaleCompletionInert
<1>1. Core /\ QueuesOrdered /\ [Next]_vars =>
        [\A e \in Entry :
           phase[e] = "running" /\ phase'[e] # "running"
             /\ taskGeneration[e] # generation[place[e]]
             => UNCHANGED <<laneVars, waiting>>]_vars
  BY NextOrdered DEF StepOrdered, StaleStep
<1> QED BY <1>1, QueuesAlwaysOrdered, PTL DEF Spec, StaleCompletionInert
=============================================================================
