----------------------- MODULE SessionSuspensionProofs -----------------------
(***************************************************************************)
(* Machine-checked proofs about SessionSuspension, for every set of lanes, *)
(* sessions, suspensions and limits and any number of restarts.            *)
(***************************************************************************)
EXTENDS SessionSuspension, SequenceTheorems, TLAPS

\* The two maps of timers are never in use together: armed timers belong to a gateway
\* that is up, saved ones to one that closes, and a close leaves room for its start.
TimersApart ==
  /\ cleanupActive <=> phase # "up"
  /\ cleanupActive => \A l \in Lane : laneResumeTimers[l] = NoResume
  /\ ~cleanupActive => \A l \in Lane : clearedLaneResumes[l] = NoResume
  /\ phase \in {"closing", "stopped"} => cleanupGeneration + 2 <= MaxGeneration
  /\ phase = "closed" => cleanupGeneration + 1 <= MaxGeneration

\* A call is in the chain once, and neither it nor its identity was used before.
ChainFresh ==
  /\ throttled \subseteq requested
  /\ \A i \in 1..Len(chain) : chain[i].id \in requested \ throttled
  /\ \A i, j \in 1..Len(chain) : chain[i].id = chain[j].id => i = j

\* What the write at the head of the chain knows: its generation is the one it was queued
\* in, its snapshot is what the entry held, and the entry holds that or its own record.
WriterHonest ==
  LET call == Head(chain) IN
  /\ writer.at # "idle" => writer.generation = call.queuedGeneration
  /\ writer.at \in {"commit", "check", "rollback"} =>
       writer.previous \in throttled \cup stuck \cup {Nil}
  /\ writer.at = "commit" => store[call.session] = writer.previous
  /\ writer.at \in {"check", "rollback"} => store[call.session] \in {call.id, writer.previous}

Core ==
  /\ TypeOK /\ TimersApart /\ ChainFresh /\ WriterHonest
  /\ ThrottledLaneHasResumer /\ StoredMeansThrottled

-----------------------------------------------------------------------------
(* Operators *)

\* A limit is positive, so an armed or saved timer is never the absent one.
LEMMA ResumeIsProper ==
  /\ 0 \notin Limit /\ 1 \in Limit
  /\ \A r \in Resume : r # NoResume /\ r.resumeConcurrency \in Limit /\ r.due \in BOOLEAN
  /\ \A n \in Limit, b \in BOOLEAN : [resumeConcurrency |-> n, due |-> b] \in Resume
  BY LimitAssumption DEF Resume, NoResume

\* The oldest call, and the chain without it.
LEMMA ChainParts ==
  ASSUME TypeOK, chain # <<>>
  PROVE  /\ Len(chain) \in Nat \ {0} /\ Head(chain) = chain[1] /\ Head(chain) \in Call
         /\ Tail(chain) \in Seq(Call) /\ Len(Tail(chain)) = Len(chain) - 1
         /\ \A i \in 1..Len(Tail(chain)) : i + 1 \in 1..Len(chain) /\ Tail(chain)[i] = chain[i + 1]
<1>1. chain \in Seq(Call)
  BY DEF TypeOK
<1> QED
  BY <1>1, HeadTailProperties, EmptySeq, LenProperties

\* The chain with one more call at its end.
LEMMA ChainGrows ==
  ASSUME TypeOK, NEW c \in Call
  PROVE  /\ Append(chain, c) \in Seq(Call) /\ Append(chain, c) # <<>>
         /\ Len(chain) \in Nat /\ Len(Append(chain, c)) = Len(chain) + 1
         /\ \A i \in 1..Len(chain) : Append(chain, c)[i] = chain[i]
         /\ Append(chain, c)[Len(chain) + 1] = c
         /\ chain # <<>> => Head(Append(chain, c)) = Head(chain)
<1>1. chain \in Seq(Call)
  BY DEF TypeOK
<1>2. /\ Append(chain, c) \in Seq(Call) /\ Append(chain, c) # <<>>
      /\ Len(chain) \in Nat /\ Len(Append(chain, c)) = Len(chain) + 1
      /\ \A i \in 1..Len(chain) : Append(chain, c)[i] = chain[i]
      /\ Append(chain, c)[Len(chain) + 1] = c
  BY <1>1, AppendProperties, LenProperties
<1>3. chain # <<>> => Head(chain) = chain[1] /\ 1 \in 1..Len(chain)
  BY ChainParts
<1>4. Head(Append(chain, c)) = Append(chain, c)[1]
  BY <1>2, HeadTailProperties
<1> QED
  BY <1>2, <1>3, <1>4

LEMMA InitCore == Init => Core
<1> SUFFICES ASSUME Init PROVE Core
  OBVIOUS
<1>1. TypeOK
  <2>1. limit \in [Lane -> Limit \cup {0}] /\ configured \in [Configurable -> Limit]
    BY LimitAssumption DEF Init, Lane
  <2>2. writer \in Writing /\ cleanupGeneration \in 0..MaxGeneration
    BY GenerationAssumption DEF Init, Writing, IdleWriter
  <2>3. chain \in Seq(Call)
    BY EmptySeq DEF Init
  <2> QED
    BY <2>1, <2>2, <2>3 DEF Init, TypeOK
<1>2. TimersApart
  BY DEF Init, TimersApart
<1>3. ChainFresh
  BY EmptySeq DEF Init, ChainFresh
<1>4. WriterHonest
  BY DEF Init, WriterHonest, IdleWriter
<1>5. ThrottledLaneHasResumer
  BY LimitAssumption DEF Init, ThrottledLaneHasResumer, Lane
<1>6. StoredMeansThrottled
  BY DEF Init, StoredMeansThrottled
<1> QED
  BY <1>1, <1>2, <1>3, <1>4, <1>5, <1>6 DEF Core

-----------------------------------------------------------------------------
(* The steps of a suspension *)

\* A new call joins the chain under an identity of its own and disturbs no write under way.
LEMMA SuspendSessionCore ==
  ASSUME Core, NEW u \in Suspension, NEW s \in Session, NEW l \in Lane \cup {Nil},
         SuspendSession(u, s, l)
  PROVE  Core'
<1> USE DEF SuspendSession
<1>0. TypeOK
  BY DEF Core
<1>8. PICK resume \in ResumeConcurrency(l) :
        chain' = Append(chain, [id |-> u, session |-> s, lane |-> l,
                                resumeConcurrency |-> resume,
                                queuedGeneration |-> cleanupGeneration])
  OBVIOUS
<1> DEFINE c == [id |-> u, session |-> s, lane |-> l, resumeConcurrency |-> resume,
                 queuedGeneration |-> cleanupGeneration]
<1>1. resume \in Limit
  BY ResumeIsProper DEF ResumeConcurrency
<1>2. c \in Call
  BY <1>0, <1>1 DEF Call, TypeOK
<1>3. chain' = Append(chain, c)
  BY <1>8
<1> HIDE DEF c
<1>4. TypeOK'
  BY <1>0, <1>2, <1>3, ChainGrows DEF TypeOK
<1>5. TimersApart' /\ ThrottledLaneHasResumer'
  BY DEF Core, TimersApart, ThrottledLaneHasResumer
<1>6. ChainFresh'
  <2>1. c.id = u
    BY DEF c
  <2>2. \A i \in 1..Len(chain') : i \in 1..Len(chain) \/ i = Len(chain) + 1
    BY <1>0, <1>2, <1>3, ChainGrows
  <2>3. u \notin throttled
    BY DEF Core, ChainFresh
  <2> QED
    BY <1>0, <1>2, <1>3, <2>1, <2>2, <2>3, ChainGrows DEF Core, ChainFresh
<1>7. WriterHonest' /\ StoredMeansThrottled'
  <2>1. CASE chain = <<>>
    BY <1>0, <2>1 DEF Core, TypeOK, WriterHonest, StoredMeansThrottled, IdleWriter
  <2>2. CASE chain # <<>>
    <3>1. Head(chain)' = Head(chain)
      BY <1>0, <1>2, <1>3, <2>2, ChainGrows
    <3> QED
      BY <3>1 DEF Core, WriterHonest, StoredMeansThrottled
  <2> QED BY <2>1, <2>2
<1> QED
  BY <1>4, <1>5, <1>6, <1>7 DEF Core

\* The call at the head is over: what the chain and the writer still say holds.
LEMMA FinishedChain ==
  ASSUME Core, chain # <<>>, Finished,
         requested' = requested, throttled' \in {throttled, throttled \cup {Head(chain).id}}
  PROVE  /\ chain' \in Seq(Call) /\ writer' = IdleWriter /\ IdleWriter \in Writing
         /\ ChainFresh' /\ WriterHonest'
<1> USE DEF Finished
<1>0. TypeOK
  BY DEF Core
<1>1. ChainFresh'
  <2>1. \A i \in 1..Len(chain') : i + 1 \in 1..Len(chain) /\ chain'[i] = chain[i + 1]
    BY <1>0, ChainParts
  <2>2. \A i \in 1..Len(chain') : i \in Nat /\ i + 1 # 1
    BY <1>0, ChainParts
  <2>3. Head(chain) = chain[1] /\ 1 \in 1..Len(chain)
    BY <1>0, ChainParts
  <2>4. \A i \in 1..Len(chain') : chain'[i].id # Head(chain).id
    BY <2>1, <2>2, <2>3 DEF Core, ChainFresh
  <2>5. \A i, j \in 1..Len(chain') : chain'[i].id = chain'[j].id => i = j
    <3> SUFFICES ASSUME NEW i \in 1..Len(chain'), NEW j \in 1..Len(chain'),
                        chain'[i].id = chain'[j].id
                 PROVE  i = j
      OBVIOUS
    <3>1. i + 1 = j + 1
      BY <2>1 DEF Core, ChainFresh
    <3> QED BY <2>2, <3>1
  <2> QED
    BY <2>1, <2>3, <2>4, <2>5 DEF Core, ChainFresh
<1>2. IdleWriter \in Writing
  BY GenerationAssumption DEF Writing, IdleWriter
<1> QED
  BY <1>0, <1>1, <1>2, ChainParts DEF WriterHonest, IdleWriter

\* Throttling the lane of a call arms its timer with the limit it comes back to.
LEMMA ThrottleLaneKeeps ==
  ASSUME Core, chain # <<>>, ~cleanupActive, ThrottleLane(Head(chain)), WriterLeaves
  PROVE  /\ limit' \in [Lane -> Limit \cup {0}] /\ throttled' \subseteq Suspension
         /\ laneResumeTimers' \in [Lane -> Resume \cup {NoResume}]
         /\ throttled' = throttled \cup {Head(chain).id}
         /\ TimersApart' /\ ThrottledLaneHasResumer'
<1> DEFINE call == Head(chain)
           armed == [resumeConcurrency |-> call.resumeConcurrency, due |-> FALSE]
<1>0. TypeOK /\ call \in Call
  BY ChainParts DEF Core
<1>1. /\ call.id \in Suspension /\ call.lane \in Lane \cup {Nil}
      /\ armed \in Resume /\ armed # NoResume
  BY <1>0, ResumeIsProper DEF Call
<1>2. throttled' = throttled \cup {call.id}
  BY DEF ThrottleLane
<1>3. \/ UNCHANGED <<limit, laneResumeTimers>>
      \/ /\ call.lane \in Lane
         /\ limit' = [limit EXCEPT ![call.lane] = 0]
         /\ laneResumeTimers' = [laneResumeTimers EXCEPT ![call.lane] = armed]
  BY <1>1 DEF ThrottleLane
<1> HIDE DEF call, armed
<1>4. /\ limit' \in [Lane -> Limit \cup {0}]
      /\ laneResumeTimers' \in [Lane -> Resume \cup {NoResume}]
  BY <1>0, <1>1, <1>3 DEF TypeOK
<1>5. TimersApart'
  BY <1>3 DEF Core, TimersApart, WriterLeaves
<1>6. ThrottledLaneHasResumer'
  BY <1>0, <1>1, <1>3 DEF Core, TypeOK, ThrottledLaneHasResumer, WriterLeaves
<1> QED
  BY <1>0, <1>1, <1>2, <1>4, <1>5, <1>6 DEF TypeOK, call

\* A step of the writer that leaves the lanes alone keeps what is said of them.
LEMMA LanesLeft ==
  ASSUME Core, LanesUnchanged, WriterLeaves
  PROVE  TimersApart' /\ ThrottledLaneHasResumer'
  BY DEF Core, LanesUnchanged, WriterLeaves, TimersApart, ThrottledLaneHasResumer

\* A write under way works for the call at the head of the chain.
LEMMA WriterHasCall ==
  ASSUME Core, writer.at # "idle"
  PROVE  chain # <<>>
  BY DEF Core, TypeOK, IdleWriter

\* The call that is served has not throttled its lane before.
LEMMA HeadIsFresh ==
  ASSUME Core, chain # <<>>
  PROVE  Head(chain).id \in Suspension \ throttled /\ Head(chain).session \in Session
<1>1. TypeOK
  BY DEF Core
<1>2. Head(chain) = chain[1] /\ 1 \in 1..Len(chain) /\ Head(chain) \in Call
  BY <1>1, ChainParts
<1> QED
  BY <1>2 DEF Core, ChainFresh, Call

\* A write begins only in the generation its call was queued in, or the call is dropped.
LEMMA WriteBeginsCore ==
  ASSUME Core, WriteBegins
  PROVE  Core'
<1>0. TypeOK /\ chain # <<>> /\ writer.at = "idle"
  BY DEF Core, WriteBegins
<1>1. /\ TimersApart' /\ ThrottledLaneHasResumer'
      /\ UNCHANGED <<limit, configured, laneResumeTimers, clearedLaneResumes,
                     cleanupGeneration, cleanupActive, phase, requested, store, throttled, stuck>>
  BY LanesLeft DEF WriteBegins, LanesUnchanged, WriterLeaves
<1>2. CASE Finished
  <2>1. chain' \in Seq(Call) /\ writer' = IdleWriter /\ IdleWriter \in Writing
        /\ ChainFresh' /\ WriterHonest'
    BY <1>0, <1>1, <1>2, FinishedChain
  <2>2. TypeOK'
    BY <1>0, <1>1, <2>1 DEF TypeOK
  <2>3. StoredMeansThrottled'
    BY <1>0, <1>1, <2>1 DEF Core, StoredMeansThrottled, IdleWriter
  <2> QED
    BY <1>1, <2>1, <2>2, <2>3 DEF Core
<1>3. CASE /\ Current(Head(chain).queuedGeneration)
           /\ writer' = [IdleWriter EXCEPT !.at = "patch", !.generation = cleanupGeneration]
           /\ chain' = chain
  <2>1. /\ writer' \in Writing /\ writer'.at = "patch"
        /\ writer'.generation = cleanupGeneration
    BY <1>0, <1>3 DEF TypeOK, Writing, IdleWriter
  <2>2. TypeOK'
    BY <1>0, <1>1, <1>3, <2>1 DEF TypeOK
  <2>3. ChainFresh' /\ WriterHonest' /\ StoredMeansThrottled'
    BY <1>0, <1>1, <1>3, <2>1 DEF Core, ChainFresh, WriterHonest, StoredMeansThrottled, Current
  <2> QED
    BY <1>1, <2>2, <2>3 DEF Core
<1> QED
  BY <1>2, <1>3 DEF WriteBegins

\* The snapshot is taken before the record is written, so it is an earlier record or none.
LEMMA WritePatchesCore ==
  ASSUME Core, WritePatches
  PROVE  Core'
<1>0. TypeOK /\ chain # <<>> /\ writer.at = "patch"
  BY WriterHasCall DEF Core, WritePatches
<1>1. /\ TimersApart' /\ ThrottledLaneHasResumer'
      /\ UNCHANGED <<limit, configured, laneResumeTimers, clearedLaneResumes,
                     cleanupGeneration, cleanupActive, phase, requested, store, throttled, stuck>>
  BY LanesLeft DEF WritePatches, LanesUnchanged, WriterLeaves
<1>2. CASE Finished
  <2>1. chain' \in Seq(Call) /\ writer' = IdleWriter /\ IdleWriter \in Writing
        /\ ChainFresh' /\ WriterHonest'
    BY <1>0, <1>1, <1>2, FinishedChain
  <2>2. TypeOK'
    BY <1>0, <1>1, <2>1 DEF TypeOK
  <2>3. StoredMeansThrottled'
    BY <1>0, <1>1, <2>1 DEF Core, StoredMeansThrottled, IdleWriter
  <2> QED
    BY <1>1, <2>1, <2>2, <2>3 DEF Core
<1>3. CASE /\ writer' = [writer EXCEPT !.at = "commit",
                            !.empty = cleanupGeneration # writer.generation,
                            !.previous = store[Head(chain).session]]
           /\ chain' = chain
  <2>0. Head(chain).session \in Session
    BY <1>0, HeadIsFresh
  <2>1. /\ writer' \in Writing /\ writer'.at = "commit"
        /\ writer'.generation = writer.generation
        /\ writer'.previous = store[Head(chain).session]
    BY <1>0, <1>3, <2>0 DEF TypeOK, Writing
  <2>2. TypeOK'
    BY <1>0, <1>1, <1>3, <2>1 DEF TypeOK
  <2>3. store[Head(chain).session] \in throttled \cup stuck \cup {Nil}
    BY <1>0, <2>0 DEF Core, StoredMeansThrottled
  <2>4. ChainFresh' /\ WriterHonest' /\ StoredMeansThrottled'
    BY <1>0, <1>1, <1>3, <2>1, <2>3 DEF Core, ChainFresh, WriterHonest, StoredMeansThrottled
  <2> QED
    BY <1>1, <2>2, <2>4 DEF Core
<1> QED
  BY <1>2, <1>3 DEF WritePatches

\* After the transaction the entry holds the new record or, for an empty patch, the old one.
LEMMA WriteCommitsCore ==
  ASSUME Core, WriteCommits
  PROVE  Core'
<1>0. TypeOK /\ chain # <<>> /\ writer.at = "commit" /\ chain' = chain
  BY WriterHasCall DEF Core, WriteCommits
<1>1. /\ TimersApart' /\ ThrottledLaneHasResumer'
      /\ UNCHANGED <<limit, configured, laneResumeTimers, clearedLaneResumes,
                     cleanupGeneration, cleanupActive, phase, requested, throttled, stuck>>
  BY LanesLeft DEF WriteCommits, LanesUnchanged, WriterLeaves
<1>2. Head(chain).session \in Session /\ Head(chain).id \in Suspension
  BY <1>0, HeadIsFresh
<1>3. /\ writer' \in Writing /\ writer'.at = "check"
      /\ writer'.generation = writer.generation /\ writer'.previous = writer.previous
  BY <1>0 DEF WriteCommits, TypeOK, Writing
<1>4. store' \in [Session -> Suspension \cup {Nil}]
  BY <1>0, <1>2 DEF WriteCommits, TypeOK
<1>5. /\ store'[Head(chain).session] \in {Head(chain).id, writer.previous}
      /\ \A s \in Session \ {Head(chain).session} : store'[s] = store[s]
  BY <1>0, <1>2 DEF WriteCommits, Core, WriterHonest, TypeOK
<1>6. TypeOK'
  BY <1>0, <1>1, <1>3, <1>4 DEF TypeOK
<1>7. ChainFresh' /\ WriterHonest'
  BY <1>0, <1>1, <1>3, <1>5 DEF Core, ChainFresh, WriterHonest
<1>8. StoredMeansThrottled'
  BY <1>0, <1>1, <1>3, <1>5 DEF Core, StoredMeansThrottled
<1> QED
  BY <1>1, <1>6, <1>7, <1>8 DEF Core

\* A write that throws throttles the lane without a record, unless a close came first.
LEMMA WriteFailsCore ==
  ASSUME Core, WriteFails
  PROVE  Core'
<1>0. TypeOK /\ chain # <<>> /\ writer.at \in {"patch", "commit"}
  BY WriterHasCall DEF Core, WriteFails
<1>1. /\ Finished /\ UNCHANGED <<store, stuck>>
      /\ UNCHANGED <<configured, clearedLaneResumes, cleanupGeneration, cleanupActive, phase,
                     requested>>
  BY DEF WriteFails, WriterLeaves
<1>2. /\ limit' \in [Lane -> Limit \cup {0}] /\ throttled' \subseteq Suspension
      /\ laneResumeTimers' \in [Lane -> Resume \cup {NoResume}]
      /\ throttled' \in {throttled, throttled \cup {Head(chain).id}}
      /\ TimersApart' /\ ThrottledLaneHasResumer'
  <2>1. CASE Current(writer.generation)
    BY <1>0, <2>1, ThrottleLaneKeeps DEF WriteFails, Current
  <2>2. CASE ~Current(writer.generation)
    BY <1>0, <2>2, LanesLeft DEF WriteFails, LanesUnchanged, TypeOK
  <2> QED BY <2>1, <2>2
<1>3. chain' \in Seq(Call) /\ writer' = IdleWriter /\ IdleWriter \in Writing
      /\ ChainFresh' /\ WriterHonest'
  BY <1>0, <1>1, <1>2, FinishedChain
<1>4. TypeOK'
  BY <1>0, <1>1, <1>2, <1>3 DEF TypeOK
<1>5. StoredMeansThrottled'
  BY <1>0, <1>1, <1>2, <1>3 DEF Core, StoredMeansThrottled, IdleWriter
<1> QED
  BY <1>2, <1>3, <1>4, <1>5 DEF Core

\* A suspension that is still current is applied together with its record; one that a close
\* overtook goes on to take its record back.
LEMMA WriteCheckedCore ==
  ASSUME Core, WriteChecked
  PROVE  Core'
<1>0. TypeOK /\ chain # <<>> /\ writer.at = "check"
  BY WriterHasCall DEF Core, WriteChecked
<1>1. /\ UNCHANGED <<store, stuck>> /\ WriterLeaves
      /\ UNCHANGED <<configured, clearedLaneResumes, cleanupGeneration, cleanupActive, phase,
                     requested>>
  BY DEF WriteChecked, WriterLeaves
<1>2. CASE Current(writer.generation)
  <2>1. ThrottleLane(Head(chain)) /\ Finished /\ ~cleanupActive
    BY <1>2 DEF WriteChecked, Current
  <2>2. /\ limit' \in [Lane -> Limit \cup {0}] /\ throttled' \subseteq Suspension
        /\ laneResumeTimers' \in [Lane -> Resume \cup {NoResume}]
        /\ throttled' = throttled \cup {Head(chain).id}
        /\ TimersApart' /\ ThrottledLaneHasResumer'
    BY <1>0, <1>1, <2>1, ThrottleLaneKeeps
  <2>3. chain' \in Seq(Call) /\ writer' = IdleWriter /\ IdleWriter \in Writing
        /\ ChainFresh' /\ WriterHonest'
    BY <1>0, <1>1, <2>1, <2>2, FinishedChain
  <2>4. TypeOK'
    BY <1>0, <1>1, <2>2, <2>3 DEF TypeOK
  <2>5. store[Head(chain).session] \in throttled' \cup stuck \cup {Nil}
    BY <1>0, <2>2 DEF Core, WriterHonest
  <2>6. StoredMeansThrottled'
    BY <1>0, <1>1, <2>2, <2>3, <2>5 DEF Core, StoredMeansThrottled, IdleWriter
  <2> QED
    BY <2>2, <2>3, <2>4, <2>6 DEF Core
<1>3. CASE ~Current(writer.generation)
  <2>1. /\ LanesUnchanged /\ UNCHANGED <<limit, laneResumeTimers, throttled>> /\ chain' = chain
        /\ writer' = [writer EXCEPT !.at = "rollback"]
    BY <1>3 DEF WriteChecked, LanesUnchanged
  <2>2. TimersApart' /\ ThrottledLaneHasResumer'
    BY <1>1, <2>1, LanesLeft
  <2>3. /\ writer' \in Writing /\ writer'.at = "rollback"
        /\ writer'.generation = writer.generation /\ writer'.previous = writer.previous
    BY <1>0, <2>1 DEF TypeOK, Writing
  <2>4. TypeOK'
    BY <1>0, <1>1, <2>1, <2>3 DEF TypeOK
  <2>5. ChainFresh' /\ WriterHonest' /\ StoredMeansThrottled'
    BY <1>0, <1>1, <2>1, <2>3 DEF Core, ChainFresh, WriterHonest, StoredMeansThrottled
  <2> QED
    BY <2>2, <2>4, <2>5 DEF Core
<1> QED
  BY <1>2, <1>3

\* The rollback puts the earlier record back, or is known to have failed.
LEMMA RollbackCore ==
  ASSUME Core, Rollback
  PROVE  Core'
<1>0. TypeOK /\ chain # <<>> /\ writer.at = "rollback"
  BY WriterHasCall DEF Core, Rollback
<1>1. /\ TimersApart' /\ ThrottledLaneHasResumer' /\ Finished
      /\ UNCHANGED <<limit, configured, laneResumeTimers, clearedLaneResumes,
                     cleanupGeneration, cleanupActive, phase, requested, throttled>>
  BY LanesLeft DEF Rollback, LanesUnchanged, WriterLeaves
<1>2. Head(chain).session \in Session /\ Head(chain).id \in Suspension
  BY <1>0, HeadIsFresh
<1>3. /\ store[Head(chain).session] \in {Head(chain).id, writer.previous}
      /\ writer.previous \in throttled \cup stuck \cup {Nil}
  BY <1>0 DEF Core, WriterHonest
<1>4. chain' \in Seq(Call) /\ writer' = IdleWriter /\ IdleWriter \in Writing
      /\ ChainFresh' /\ WriterHonest'
  BY <1>0, <1>1, FinishedChain
<1>5. /\ store' \in [Session -> Suspension \cup {Nil}]
      /\ stuck' \subseteq Suspension /\ stuck \subseteq stuck'
      /\ store'[Head(chain).session] \in throttled \cup stuck' \cup {Nil}
      /\ \A s \in Session \ {Head(chain).session} : store'[s] = store[s]
  <2>1. CASE stuck' = stuck \cup {Head(chain).id} /\ store' = store
    BY <1>0, <1>2, <1>3, <2>1 DEF TypeOK
  <2>2. CASE /\ store' = IF store[Head(chain).session] = Head(chain).id
                         THEN [store EXCEPT ![Head(chain).session] = writer.previous] ELSE store
             /\ stuck' = stuck
    BY <1>0, <1>2, <1>3, <2>2 DEF TypeOK, Writing
  <2> QED
    BY <2>1, <2>2 DEF Rollback
<1>6. TypeOK'
  BY <1>0, <1>1, <1>4, <1>5 DEF TypeOK
<1>7. StoredMeansThrottled'
  BY <1>0, <1>1, <1>4, <1>5 DEF Core, StoredMeansThrottled, IdleWriter
<1> QED
  BY <1>1, <1>4, <1>6, <1>7 DEF Core

-----------------------------------------------------------------------------
(* Timers, closes and starts *)

\* A step that leaves the chain, the writer and the records alone keeps what is said of them.
LEMMA RecordsLeft ==
  ASSUME Core, UNCHANGED <<chain, writer, requested, store, throttled, stuck>>
  PROVE  ChainFresh' /\ WriterHonest' /\ StoredMeansThrottled'
  BY DEF Core, ChainFresh, WriterHonest, StoredMeansThrottled

\* A timer that becomes due stays the timer of its lane.
LEMMA TtlElapsesCore ==
  ASSUME Core, NEW l \in Lane, TtlElapses(l)
  PROVE  Core'
<1>0. TypeOK
  BY DEF Core
<1>1. /\ UNCHANGED <<limit, configured, cleanupGeneration, cleanupActive, phase, chain, writer,
                     requested, store, throttled, stuck>>
      /\ ChainFresh' /\ WriterHonest' /\ StoredMeansThrottled'
  BY RecordsLeft DEF TtlElapses
<1>2. CASE /\ laneResumeTimers[l] # NoResume
           /\ laneResumeTimers' = [laneResumeTimers EXCEPT ![l].due = TRUE]
           /\ UNCHANGED clearedLaneResumes
  <2>1. laneResumeTimers[l] \in Resume
    BY <1>0, <1>2 DEF TypeOK
  <2>2. laneResumeTimers'[l] \in Resume /\ laneResumeTimers'[l] # NoResume
    <3>1. laneResumeTimers'[l] = [laneResumeTimers[l] EXCEPT !.due = TRUE]
      BY <1>0, <1>2 DEF TypeOK
    <3>2. laneResumeTimers'[l] \in Resume
      BY <2>1, <3>1 DEF Resume
    <3> QED BY <3>2, ResumeIsProper
  <2>3. /\ laneResumeTimers' \in [Lane -> Resume \cup {NoResume}]
        /\ \A k \in Lane \ {l} : laneResumeTimers'[k] = laneResumeTimers[k]
    BY <1>0, <1>2, <2>2 DEF TypeOK
  <2>4. ~cleanupActive
    BY <1>2 DEF Core, TimersApart
  <2>5. TypeOK'
    BY <1>0, <1>1, <1>2, <2>3 DEF TypeOK
  <2>6. TimersApart' /\ ThrottledLaneHasResumer'
    BY <1>1, <1>2, <2>2, <2>3, <2>4 DEF Core, TimersApart, ThrottledLaneHasResumer
  <2> QED BY <1>1, <2>5, <2>6 DEF Core
<1>3. CASE /\ clearedLaneResumes[l] # NoResume
           /\ clearedLaneResumes' = [clearedLaneResumes EXCEPT ![l].due = TRUE]
           /\ UNCHANGED laneResumeTimers
  <2>1. clearedLaneResumes[l] \in Resume
    BY <1>0, <1>3 DEF TypeOK
  <2>2. clearedLaneResumes'[l] \in Resume /\ clearedLaneResumes'[l] # NoResume
    <3>1. clearedLaneResumes'[l] = [clearedLaneResumes[l] EXCEPT !.due = TRUE]
      BY <1>0, <1>3 DEF TypeOK
    <3>2. clearedLaneResumes'[l] \in Resume
      BY <2>1, <3>1 DEF Resume
    <3> QED BY <3>2, ResumeIsProper
  <2>3. /\ clearedLaneResumes' \in [Lane -> Resume \cup {NoResume}]
        /\ \A k \in Lane \ {l} : clearedLaneResumes'[k] = clearedLaneResumes[k]
    BY <1>0, <1>3, <2>2 DEF TypeOK
  <2>4. cleanupActive
    BY <1>3 DEF Core, TimersApart
  <2>5. TypeOK'
    BY <1>0, <1>1, <1>3, <2>3 DEF TypeOK
  <2>6. TimersApart' /\ ThrottledLaneHasResumer'
    BY <1>1, <1>3, <2>2, <2>3, <2>4 DEF Core, TimersApart, ThrottledLaneHasResumer
  <2> QED BY <1>1, <2>5, <2>6 DEF Core
<1> QED
  BY <1>2, <1>3 DEF TtlElapses

\* A timer that fires gives its lane a positive limit.
LEMMA LaneAutoResumesCore ==
  ASSUME Core, NEW l \in Lane, LaneAutoResumes(l)
  PROVE  Core'
<1>0. TypeOK
  BY DEF Core
<1>1. /\ UNCHANGED <<configured, clearedLaneResumes, cleanupGeneration, cleanupActive, phase,
                     chain, writer, requested, store, throttled, stuck>>
      /\ ChainFresh' /\ WriterHonest' /\ StoredMeansThrottled'
  BY RecordsLeft DEF LaneAutoResumes
<1>2. laneResumeTimers[l].resumeConcurrency \in Limit
  <2>1. laneResumeTimers[l] # NoResume
    BY DEF LaneAutoResumes, NoResume
  <2> QED BY <1>0, <2>1, ResumeIsProper DEF TypeOK
<1>3. TypeOK'
  BY <1>0, <1>1, <1>2 DEF TypeOK, LaneAutoResumes
<1>4. TimersApart'
  BY <1>0, <1>1 DEF Core, TypeOK, TimersApart, LaneAutoResumes
<1>5. ThrottledLaneHasResumer'
  BY <1>0, <1>1, <1>2, ResumeIsProper DEF Core, TypeOK, ThrottledLaneHasResumer, LaneAutoResumes
<1> QED
  BY <1>1, <1>3, <1>4, <1>5 DEF Core

\* A close saves every timer, and a second one forgets none of them.
LEMMA ClearKeeps ==
  ASSUME Core, ClearSessionSuspensionTimers, UNCHANGED limit
  PROVE  /\ laneResumeTimers' \in [Lane -> Resume \cup {NoResume}]
         /\ clearedLaneResumes' \in [Lane -> Resume \cup {NoResume}]
         /\ \A l \in Lane : laneResumeTimers'[l] = NoResume
         /\ cleanupGeneration' = cleanupGeneration + 1 /\ cleanupActive' = TRUE
         /\ ThrottledLaneHasResumer'
<1>0. TypeOK
  BY DEF Core
<1>1. /\ laneResumeTimers' = [l \in Lane |-> NoResume]
      /\ clearedLaneResumes' = [l \in Lane |-> IF laneResumeTimers[l] # NoResume
                                               THEN laneResumeTimers[l] ELSE clearedLaneResumes[l]]
      /\ cleanupGeneration' = cleanupGeneration + 1 /\ cleanupActive' = TRUE
  BY DEF ClearSessionSuspensionTimers
<1>2. ThrottledLaneHasResumer'
  BY <1>0, <1>1 DEF Core, TypeOK, ThrottledLaneHasResumer, TimersApart
<1> QED
  BY <1>0, <1>1, <1>2 DEF TypeOK

\* The two steps of a close that take the timers away, and the one between them.
LEMMA CloseCore ==
  ASSUME Core, ClosePrelude \/ ReloaderStops \/ CloseHandler
  PROVE  Core'
<1>0. TypeOK
  BY DEF Core
<1>1. /\ UNCHANGED <<limit, configured, chain, writer, requested, store, throttled, stuck>>
      /\ ChainFresh' /\ WriterHonest' /\ StoredMeansThrottled'
  BY RecordsLeft DEF ClosePrelude, ReloaderStops, CloseHandler
<1>2. CASE ReloaderStops
  <2>1. TypeOK'
    BY <1>0, <1>2 DEF TypeOK, ReloaderStops
  <2>2. TimersApart' /\ ThrottledLaneHasResumer'
    BY <1>2 DEF Core, TimersApart, ThrottledLaneHasResumer, ReloaderStops
  <2> QED BY <1>1, <2>1, <2>2 DEF Core
<1>3. CASE ClosePrelude \/ CloseHandler
  <2>1. /\ laneResumeTimers' \in [Lane -> Resume \cup {NoResume}]
        /\ clearedLaneResumes' \in [Lane -> Resume \cup {NoResume}]
        /\ \A l \in Lane : laneResumeTimers'[l] = NoResume
        /\ cleanupGeneration' = cleanupGeneration + 1 /\ cleanupActive' = TRUE
        /\ ThrottledLaneHasResumer'
    BY <1>1, <1>3, ClearKeeps DEF ClosePrelude, CloseHandler
  <2>2. /\ cleanupGeneration' \in 0..MaxGeneration /\ TimersApart'
    BY <1>0, <1>3, <2>1, GenerationAssumption
    DEF Core, TypeOK, TimersApart, ClosePrelude, CloseHandler
  <2>3. phase' \in {"closing", "closed"}
    BY <1>3 DEF ClosePrelude, CloseHandler
  <2>4. TypeOK'
    BY <1>0, <1>1, <2>1, <2>2, <2>3 DEF TypeOK
  <2> QED BY <1>1, <2>1, <2>2, <2>4 DEF Core
<1> QED
  BY <1>2, <1>3

\* A reload gives positive limits, and passes by the lanes that a close holds.
LEMMA ReloadCore ==
  ASSUME Core, NEW c \in [Configurable -> Limit], Reload(c)
  PROVE  Core'
<1>0. TypeOK
  BY DEF Core
<1>1. /\ UNCHANGED <<laneResumeTimers, clearedLaneResumes, cleanupGeneration, cleanupActive,
                     phase, chain, writer, requested, store, throttled, stuck>>
      /\ configured' = c
      /\ ChainFresh' /\ WriterHonest' /\ StoredMeansThrottled'
  BY RecordsLeft DEF Reload
<1>2. TypeOK'
  BY <1>0, <1>1 DEF TypeOK, Reload
<1>3. TimersApart'
  BY <1>1 DEF Core, TimersApart
<1>4. ThrottledLaneHasResumer'
  BY <1>0, <1>1, ResumeIsProper DEF Core, TypeOK, ThrottledLaneHasResumer, Reload
<1> QED
  BY <1>1, <1>2, <1>3, <1>4 DEF Core

\* A start arms a timer for every lane it throttles again and frees all the others.
LEMMA GatewayStartCore ==
  ASSUME Core, NEW c \in [Configurable -> Limit], GatewayStart(c)
  PROVE  Core'
<1> DEFINE resumeTo(l) == IF l \in Managed THEN PublishedLimit(c, l)
                          ELSE clearedLaneResumes[l].resumeConcurrency
<1>0. TypeOK
  BY DEF Core
<1>1. /\ UNCHANGED <<chain, writer, requested, store, throttled, stuck>>
      /\ configured' = c /\ phase = "closed" /\ phase' = "up"
      /\ cleanupGeneration' = cleanupGeneration + 1 /\ cleanupActive' = FALSE
      /\ clearedLaneResumes' = [l \in Lane |-> NoResume]
      /\ ChainFresh' /\ WriterHonest' /\ StoredMeansThrottled'
  BY RecordsLeft DEF GatewayStart
<1>2. /\ limit' = [l \in Lane |-> IF l \in StillSuspended THEN 0
                                  ELSE IF l \in Managed THEN PublishedLimit(c, l)
                                  ELSE IF clearedLaneResumes[l] # NoResume THEN resumeTo(l)
                                  ELSE limit[l]]
      /\ laneResumeTimers' = [l \in Lane |->
           IF l \in StillSuspended THEN [resumeConcurrency |-> resumeTo(l), due |-> FALSE]
           ELSE laneResumeTimers[l]]
  BY DEF GatewayStart
<1>3. \A l \in Lane : clearedLaneResumes[l] # NoResume => resumeTo(l) \in Limit
  BY <1>0, ResumeIsProper DEF TypeOK, PublishedLimit
<1>4. \A l \in Managed : PublishedLimit(c, l) \in Limit
  BY ResumeIsProper DEF PublishedLimit
<1>5. \A l \in StillSuspended : clearedLaneResumes[l] # NoResume /\ l \in Lane
  BY DEF StillSuspended
<1> HIDE DEF resumeTo
<1>6. limit' \in [Lane -> Limit \cup {0}]
  BY <1>0, <1>2, <1>3, <1>4 DEF TypeOK
<1>7. \A l \in StillSuspended :
        /\ [resumeConcurrency |-> resumeTo(l), due |-> FALSE] \in Resume
        /\ [resumeConcurrency |-> resumeTo(l), due |-> FALSE] # NoResume
  BY <1>3, <1>5, ResumeIsProper
<1>8. laneResumeTimers' \in [Lane -> Resume \cup {NoResume}]
  BY <1>0, <1>2, <1>7 DEF TypeOK
<1>9. cleanupGeneration' \in 0..MaxGeneration
  BY <1>0, <1>1, GenerationAssumption DEF Core, TypeOK, TimersApart
<1>10. TypeOK'
  BY <1>0, <1>1, <1>6, <1>8, <1>9 DEF TypeOK
<1>11. TimersApart'
  BY <1>1 DEF TimersApart
<1>12. \A l \in Lane : limit'[l] = 0 => l \in StillSuspended
  BY <1>0, <1>1, <1>2, <1>3, <1>4, ResumeIsProper DEF Core, ThrottledLaneHasResumer, TimersApart
<1>13. ThrottledLaneHasResumer'
  BY <1>1, <1>2, <1>7, <1>12 DEF ThrottledLaneHasResumer
<1> QED
  BY <1>1, <1>10, <1>11, <1>13 DEF Core

\* Every step keeps the inductive invariant.
LEMMA NextCore ==
  ASSUME Core, [Next]_vars
  PROVE  Core'
<1>1. ASSUME NEW u \in Suspension, NEW s \in Session, NEW l \in Lane \cup {Nil},
             SuspendSession(u, s, l)
      PROVE  Core'
  BY <1>1, SuspendSessionCore
<1>2. CASE WriterStep
  BY <1>2, WriteBeginsCore, WritePatchesCore, WriteCommitsCore, WriteFailsCore,
     WriteCheckedCore, RollbackCore DEF WriterStep
<1>3. ASSUME NEW l \in Lane, TtlElapses(l) \/ LaneAutoResumes(l)
      PROVE  Core'
  BY <1>3, TtlElapsesCore, LaneAutoResumesCore
<1>4. CASE ClosePrelude \/ ReloaderStops \/ CloseHandler
  BY <1>4, CloseCore
<1>5. ASSUME NEW c \in [Configurable -> Limit], Reload(c) \/ GatewayStart(c)
      PROVE  Core'
  BY <1>5, ReloadCore, GatewayStartCore
<1>6. CASE UNCHANGED vars
  BY <1>6 DEF vars, Core, TypeOK, TimersApart, ChainFresh, WriterHonest,
     ThrottledLaneHasResumer, StoredMeansThrottled
<1> QED
  BY <1>1, <1>2, <1>3, <1>4, <1>5, <1>6 DEF Next

-----------------------------------------------------------------------------
(* Theorems *)

\* The inductive invariant holds of session-suspension.ts in every reachable state.
THEOREM SuspensionCore == Spec => []Core
<1>1. Init => Core
  BY InitCore
<1>2. Core /\ [Next]_vars => Core'
  BY NextCore
<1> QED
  BY <1>1, <1>2, PTL DEF Spec

\* Every variable of SessionSuspensionRuntimeState keeps its type.
THEOREM SuspensionTypes == Spec => []TypeOK
<1>1. Core => TypeOK
  BY DEF Core
<1> QED BY <1>1, SuspensionCore, PTL

\* However closes, starts, reloads and late writes interleave, a lane at limit 0 has a
\* timer, armed or saved, that gives it a positive limit again (scheduleLaneAutoResume,
\* clearSessionSuspensionTimers, enableSessionSuspensionTimersForGatewayStart).
THEOREM NoLaneForgotten == Spec => []ThrottledLaneHasResumer
<1>1. Core => ThrottledLaneHasResumer
  BY DEF Core
<1> QED BY <1>1, SuspensionCore, PTL

\* An entry nobody writes holds only suspensions that were applied, or whose rollback is
\* known to have failed (suspendSessionQueued).
THEOREM RecordsAreApplied == Spec => []StoredMeansThrottled
<1>1. Core => StoredMeansThrottled
  BY DEF Core
<1> QED BY <1>1, SuspensionCore, PTL

\* Only the head of the chain throttles, and only in the generation it was queued in.
LEMMA ThrottledInGeneration ==
  ASSUME Core, [Next]_vars, throttled' # throttled
  PROVE  ~cleanupActive /\ Head(chain).queuedGeneration = cleanupGeneration
<1>1. CASE WriteFails \/ WriteChecked
  <2>1. Current(writer.generation) /\ writer.at # "idle"
    BY <1>1 DEF WriteFails, WriteChecked, LanesUnchanged
  <2> QED
    BY <2>1 DEF Core, WriterHonest, Current
<1>2. CASE ~(WriteFails \/ WriteChecked)
  BY <1>2 DEF Next, vars, SuspendSession, WriterStep, WriteBegins, WritePatches,
     WriteCommits, Rollback, LanesUnchanged, TtlElapses, LaneAutoResumes, ClosePrelude,
     ReloaderStops, CloseHandler, Reload, GatewayStart
<1> QED BY <1>1, <1>2

\* While a gateway closes, a lane at 0 stays at 0: reloads pass it by and no timer is armed.
LEMMA HeldLanesStay ==
  ASSUME Core, [Next]_vars, cleanupActive, cleanupActive', NEW l \in Lane, limit[l] = 0
  PROVE  limit'[l] = 0
<1>0. TypeOK
  BY DEF Core
<1>1. \A k \in Lane : laneResumeTimers[k] = NoResume
  BY DEF Core, TimersApart
<1>2. ASSUME NEW c \in [Configurable -> Limit], Reload(c)
      PROVE  limit'[l] = 0
  <2>1. l \in Held
    BY DEF Core, ThrottledLaneHasResumer, Held
  <2> QED BY <1>2, <2>1 DEF Reload
<1>3. ASSUME NEW k \in Lane, LaneAutoResumes(k)
      PROVE  limit'[l] = 0
  BY <1>1, <1>3 DEF LaneAutoResumes, NoResume
<1>4. CASE WriterStep
  BY <1>0, <1>4 DEF TypeOK, WriterStep, WriteBegins, WritePatches, WriteCommits, WriteFails,
     WriteChecked, Rollback, LanesUnchanged, Current
<1>5. CASE UNCHANGED limit
  BY <1>5
<1> QED
  BY <1>2, <1>3, <1>4, <1>5 DEF Next, vars, SuspendSession, TtlElapses, ClosePrelude,
     ReloaderStops, CloseHandler, GatewayStart

\* A close is final until the next start: it holds the lanes it found suspended, arms
\* nothing, and no suspension asked for before it is applied after it.
THEOREM CloseIsRespected == Spec => CloseRespected
<1>1. Core /\ [Next]_vars =>
        [cleanupActive' =>
           /\ \A l \in Lane : laneResumeTimers'[l] = NoResume
           /\ cleanupActive => \A l \in Lane : limit[l] = 0 => limit'[l] = 0]_vars
  <2> SUFFICES ASSUME Core, [Next]_vars, cleanupActive'
               PROVE  /\ \A l \in Lane : laneResumeTimers'[l] = NoResume
                      /\ cleanupActive => \A l \in Lane : limit[l] = 0 => limit'[l] = 0
    OBVIOUS
  <2>1. Core'
    BY NextCore
  <2> QED BY <2>1, HeldLanesStay DEF Core, TimersApart
<1>2. Core /\ [Next]_vars =>
        [throttled' # throttled =>
           ~cleanupActive /\ Head(chain).queuedGeneration = cleanupGeneration]_vars
  BY ThrottledInGeneration
<1> QED
  BY <1>1, <1>2, SuspensionCore, PTL
  DEF Spec, CloseRespected, CleanupHoldsLanes, NotAppliedAfterClose

\* A record of a suspension that was applied is replaced, never erased: the rollback of a
\* later one puts it back (previousQuotaSuspension).
THEOREM AppliedRecordsStay == Spec => RecordsNotErased
<1>1. Core /\ [Next]_vars =>
        [\A s \in Session : store[s] \in throttled => store'[s] # Nil]_vars
  <2> SUFFICES ASSUME Core, [Next]_vars, NEW s \in Session, store[s] \in throttled
               PROVE  store'[s] # Nil
    OBVIOUS
  <2>0. TypeOK /\ store[s] # Nil
    BY NilAssumption DEF Core, TypeOK
  <2>1. CASE store' = store
    BY <2>0, <2>1
  <2>2. CASE WriteCommits
    <3>1. Head(chain).id \in Suspension
      BY <2>2, WriterHasCall, HeadIsFresh DEF WriteCommits
    <3> QED BY <2>0, <2>2, <3>1, NilAssumption DEF WriteCommits, TypeOK
  <2>3. CASE Rollback
    <3>1. Head(chain).id \notin throttled
      BY <2>3, WriterHasCall, HeadIsFresh DEF Rollback
    <3> QED BY <2>0, <2>3, <3>1 DEF Rollback, TypeOK
  <2> QED
    BY <2>1, <2>2, <2>3 DEF Next, vars, SuspendSession, WriterStep, WriteBegins, WritePatches,
       WriteFails, WriteChecked, TtlElapses, LaneAutoResumes, ClosePrelude, ReloaderStops,
       CloseHandler, Reload, GatewayStart
<1> QED
  BY <1>1, SuspensionCore, PTL DEF Spec, RecordsNotErased

=============================================================================
