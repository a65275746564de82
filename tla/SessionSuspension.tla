-------------------------- MODULE SessionSuspension --------------------------
(***************************************************************************)
(* Quota suspensions of src/src/agents/session-suspension.ts: a run that   *)
(* meets a quota persists a suspension in its session's entry, throttles   *)
(* its lane to 0 and arms a timer that resumes it.  The close of a gateway *)
(* takes the timers away and its next start in the same process restores   *)
(* them, while the lane limits of the configuration are published around   *)
(* both (src/src/gateway/server-lanes.ts).                                 *)
(*                                                                         *)
(* A time to live is a flag that turns on.  The lane itself is reduced to  *)
(* its limit; CommandQueue says what a limit does.                         *)
(***************************************************************************)
EXTENDS Naturals, Sequences

CONSTANTS
  Configurable,    \* lanes whose limit comes from the configuration
  Nested,          \* the shared nested lane, managed but without a setting
  Custom,          \* lanes that plugins name
  Session,
  Suspension,      \* identities of calls of suspendSession, each used once
  Limit,           \* limits a configuration may set
  MaxGeneration,   \* bound on cleanupGeneration
  Nil

ASSUME LimitAssumption == Limit \subseteq Nat \ {0} /\ 1 \in Limit
ASSUME GenerationAssumption == MaxGeneration \in Nat \ {0}
ASSUME NilAssumption == Nil \notin Suspension \cup Configurable \cup Custom \cup {Nested}
ASSUME LaneAssumption ==
  Nested \notin Configurable \cup Custom /\ Configurable \cap Custom = {}

VARIABLES
  limit,               \* lane -> maxConcurrent
  configured,          \* limits of the configuration published last
  laneResumeTimers,    \* lane -> armed timer or NoResume
  clearedLaneResumes,  \* lane -> saved timer or NoResume
  cleanupGeneration,
  cleanupActive,
  phase,               \* of the gateway: "up", "closing", "stopped", "closed"
  chain,               \* suspensionWriteChain: calls not finished, oldest first
  writer,              \* how far the oldest one is
  requested,           \* identities in use
  store,               \* session -> the suspension its entry holds, or Nil
  throttled,           \* suspensions that were applied to their lane
  stuck                \* suspensions whose rollback failed

vars == <<limit, configured, laneResumeTimers, clearedLaneResumes, cleanupGeneration,
          cleanupActive, phase, chain, writer, requested, store, throttled, stuck>>

Lane == Configurable \cup Custom \cup {Nested}
Managed == Configurable \cup {Nested}

NoResume == [resumeConcurrency |-> 0, due |-> FALSE]
Resume == [resumeConcurrency : Limit, due : BOOLEAN]

\* A call with the configuration of its run, queued in a generation.
Call == [id : Suspension, session : Session, lane : Lane \cup {Nil},
         resumeConcurrency : Limit, queuedGeneration : 0..MaxGeneration]

\* The call at the head of the chain: its generation, the snapshot for the
\* rollback and whether its patch was empty.  The chain lets one write run at
\* a time, so pendingSuspensionWrites has no entry but this one's.
Writing == [at : {"idle", "patch", "commit", "check", "rollback"},
            generation : 0..MaxGeneration, previous : Suspension \cup {Nil}, empty : BOOLEAN]
IdleWriter == [at |-> "idle", generation |-> 0, previous |-> Nil, empty |-> FALSE]

\* Every variable has the shape of SessionSuspensionRuntimeState, lanes have a limit of
\* the configuration or 0, and no write runs outside the chain.
TypeOK ==
  /\ limit \in [Lane -> Limit \cup {0}]
  /\ configured \in [Configurable -> Limit]
  /\ laneResumeTimers \in [Lane -> Resume \cup {NoResume}]
  /\ clearedLaneResumes \in [Lane -> Resume \cup {NoResume}]
  /\ cleanupGeneration \in 0..MaxGeneration
  /\ cleanupActive \in BOOLEAN
  /\ phase \in {"up", "closing", "stopped", "closed"}
  /\ chain \in Seq(Call)
  /\ writer \in Writing
  /\ chain = <<>> => writer = IdleWriter
  /\ requested \subseteq Suspension
  /\ store \in [Session -> Suspension \cup {Nil}]
  /\ throttled \subseteq Suspension
  /\ stuck \subseteq Suspension

\* After the first start of a gateway in the process, which began generation 1.
Init ==
  /\ \E c \in [Configurable -> Limit] :
       /\ configured = c
       /\ limit = [l \in Lane |-> IF l \in Configurable THEN c[l] ELSE 1]
  /\ laneResumeTimers = [l \in Lane |-> NoResume]
  /\ clearedLaneResumes = [l \in Lane |-> NoResume]
  /\ cleanupGeneration = 1 /\ cleanupActive = FALSE
  /\ phase = "up"
  /\ chain = <<>> /\ writer = IdleWriter /\ requested = {}
  /\ store = [s \in Session |-> Nil]
  /\ throttled = {} /\ stuck = {}

-----------------------------------------------------------------------------
(* suspendSession *)

\* mutant: a lane comes back to the limit it has when it is suspended.
ResumeToPresent(lane) == IF lane = Nil THEN {1} ELSE {limit[lane]}

\* The configuration of a call is the one its run was started with, which may
\* be older than the one published now.
ResumeConcurrency(lane) == IF lane \in Configurable THEN Limit ELSE {1}

SuspendSession(u, s, lane) ==
  /\ u \notin requested
  /\ requested' = requested \cup {u}
  /\ \E resume \in ResumeConcurrency(lane) :
       chain' = Append(chain, [id |-> u, session |-> s, lane |-> lane,
                               resumeConcurrency |-> resume,
                               queuedGeneration |-> cleanupGeneration])
  /\ UNCHANGED <<limit, configured, laneResumeTimers, clearedLaneResumes,
                 cleanupGeneration, cleanupActive, phase, writer, store, throttled, stuck>>

\* mutant: the generation is not looked at, only whether a cleanup is going on.
CurrentIgnoresGeneration(generation) == ~cleanupActive

Current(generation) == ~cleanupActive /\ cleanupGeneration = generation

Finished == chain' = Tail(chain) /\ writer' = IdleWriter

LanesUnchanged == UNCHANGED <<limit, laneResumeTimers, throttled>>

\* setCommandLaneConcurrency(0) and scheduleLaneAutoResume, which replaces the
\* timer of an earlier suspension.
ThrottleLane(call) ==
  /\ throttled' = throttled \cup {call.id}
  /\ IF call.lane = Nil THEN UNCHANGED <<limit, laneResumeTimers>>
     ELSE /\ limit' = [limit EXCEPT ![call.lane] = 0]
          /\ laneResumeTimers' = [laneResumeTimers EXCEPT ![call.lane] =
               [resumeConcurrency |-> call.resumeConcurrency, due |-> FALSE]]

WriterLeaves ==
  UNCHANGED <<configured, clearedLaneResumes, cleanupGeneration, cleanupActive, phase,
              requested>>

\* suspendSessionQueued up to its first await; a session that is not known
\* ends it as well.
WriteBegins ==
  /\ chain # <<>> /\ writer.at = "idle"
  /\ \/ /\ Current(Head(chain).queuedGeneration)
        /\ writer' = [IdleWriter EXCEPT !.at = "patch", !.generation = cleanupGeneration]
        /\ chain' = chain
     \/ Finished
  /\ LanesUnchanged /\ UNCHANGED <<store, stuck>> /\ WriterLeaves

\* The callback of patchSessionEntry, run under the lock of the store.  A
\* session without entry ends the call: patchSessionEntry returns null.
WritePatches ==
  /\ writer.at = "patch"
  /\ \/ writer' = [writer EXCEPT !.at = "commit",
                     !.empty = cleanupGeneration # writer.generation,
                     !.previous = store[Head(chain).session]]
        /\ chain' = chain
     \/ Finished
  /\ LanesUnchanged /\ UNCHANGED <<store, stuck>> /\ WriterLeaves

\* The transaction, which writes nothing for an empty patch and returns the
\* entry in both cases.
WriteCommits ==
  /\ writer.at = "commit"
  /\ writer' = [writer EXCEPT !.at = "check"]
  /\ store' = IF writer.empty THEN store
              ELSE [store EXCEPT ![Head(chain).session] = Head(chain).id]
  /\ LanesUnchanged /\ UNCHANGED <<chain, stuck>> /\ WriterLeaves

\* patchSessionEntry throws: the lane is throttled without a record.
WriteFails ==
  /\ writer.at \in {"patch", "commit"}
  /\ Finished
  /\ IF Current(writer.generation) THEN ThrottleLane(Head(chain)) ELSE LanesUnchanged
  /\ UNCHANGED <<store, stuck>> /\ WriterLeaves

\* After the await: apply the suspension, or take it back if a cleanup won.
WriteChecked ==
  /\ writer.at = "check"
  /\ IF Current(writer.generation)
     THEN ThrottleLane(Head(chain)) /\ Finished
     ELSE LanesUnchanged /\ chain' = chain /\ writer' = [writer EXCEPT !.at = "rollback"]
  /\ UNCHANGED <<store, stuck>> /\ WriterLeaves

\* mutant: the rollback forgets what the entry held before.
RollbackClears ==
  /\ writer.at = "rollback"
  /\ store' = [store EXCEPT ![Head(chain).session] = Nil]
  /\ stuck' = stuck
  /\ Finished /\ LanesUnchanged /\ WriterLeaves

\* mutant: the suspension is left in the entry.
RollbackSkipped ==
  /\ writer.at = "rollback"
  /\ UNCHANGED <<store, stuck>>
  /\ Finished /\ LanesUnchanged /\ WriterLeaves

Rollback ==
  /\ writer.at = "rollback"
  /\ \/ /\ store' = IF store[Head(chain).session] = Head(chain).id
                    THEN [store EXCEPT ![Head(chain).session] = writer.previous] ELSE store
        /\ stuck' = stuck
     \/ stuck' = stuck \cup {Head(chain).id} /\ store' = store
  /\ Finished /\ LanesUnchanged /\ WriterLeaves

-----------------------------------------------------------------------------
(* Timers *)

TtlElapses(l) ==
  /\ \/ /\ laneResumeTimers[l] # NoResume
        /\ laneResumeTimers' = [laneResumeTimers EXCEPT ![l].due = TRUE]
        /\ UNCHANGED clearedLaneResumes
     \/ /\ clearedLaneResumes[l] # NoResume
        /\ clearedLaneResumes' = [clearedLaneResumes EXCEPT ![l].due = TRUE]
        /\ UNCHANGED laneResumeTimers
  /\ UNCHANGED <<limit, configured, cleanupGeneration, cleanupActive, phase, chain, writer,
                 requested, store, throttled, stuck>>

LaneAutoResumes(l) ==
  /\ laneResumeTimers[l].due
  /\ laneResumeTimers' = [laneResumeTimers EXCEPT ![l] = NoResume]
  /\ limit' = [limit EXCEPT ![l] = laneResumeTimers[l].resumeConcurrency]
  /\ UNCHANGED <<configured, clearedLaneResumes, cleanupGeneration, cleanupActive, phase,
                 chain, writer, requested, store, throttled, stuck>>

-----------------------------------------------------------------------------
(* The gateway closes and starts again *)

\* mutant: the timers are stopped and forgotten.
ClearForgets ==
  /\ cleanupGeneration' = cleanupGeneration + 1 /\ cleanupActive' = TRUE
  /\ laneResumeTimers' = [l \in Lane |-> NoResume]
  /\ clearedLaneResumes' = clearedLaneResumes

ClearSessionSuspensionTimers ==
  /\ cleanupGeneration' = cleanupGeneration + 1 /\ cleanupActive' = TRUE
  /\ clearedLaneResumes' = [l \in Lane |-> IF laneResumeTimers[l] # NoResume
                                           THEN laneResumeTimers[l]
                                           ELSE clearedLaneResumes[l]]
  /\ laneResumeTimers' = [l \in Lane |-> NoResume]

\* beginClosePrelude; MaxGeneration leaves room for the rest of the restart.
ClosePrelude ==
  /\ phase = "up" /\ cleanupGeneration + 3 <= MaxGeneration
  /\ phase' = "closing"
  /\ ClearSessionSuspensionTimers
  /\ UNCHANGED <<limit, configured, chain, writer, requested, store, throttled, stuck>>

\* stopConfigReloaderForClose: the last reload has been joined.
ReloaderStops ==
  /\ phase = "closing" /\ phase' = "stopped"
  /\ UNCHANGED <<limit, configured, laneResumeTimers, clearedLaneResumes,
                 cleanupGeneration, cleanupActive, chain, writer, requested, store,
                 throttled, stuck>>

CloseHandler ==
  /\ phase = "stopped" /\ phase' = "closed"
  /\ ClearSessionSuspensionTimers
  /\ UNCHANGED <<limit, configured, chain, writer, requested, store, throttled, stuck>>

\* getCleanupSuspendedLaneIdsForGatewayPublication
Held == IF cleanupActive THEN {l \in Lane : clearedLaneResumes[l] # NoResume} ELSE {}

\* applyGatewayLaneConcurrency of a live reload
Reload(c) ==
  /\ phase \in {"up", "closing"}
  /\ configured' = c
  /\ limit' = [l \in Lane |-> IF l \in Configurable \ Held THEN c[l] ELSE limit[l]]
  /\ UNCHANGED <<laneResumeTimers, clearedLaneResumes, cleanupGeneration, cleanupActive,
                 phase, chain, writer, requested, store, throttled, stuck>>

\* The lanes that enableSessionSuspensionTimersForGatewayStart throttles again.
StillSuspended ==
  {l \in Lane : clearedLaneResumes[l] # NoResume /\ ~clearedLaneResumes[l].due}

PublishedLimit(c, l) == IF l \in Configurable THEN c[l] ELSE 1

\* applyGatewayLaneConcurrency with gatewayStart.  A custom lane that is due
\* resumes to the limit that was saved with it.
GatewayStart(c) ==
  LET resumeTo(l) == IF l \in Managed THEN PublishedLimit(c, l)
                     ELSE clearedLaneResumes[l].resumeConcurrency
  IN  /\ phase = "closed" /\ phase' = "up"
      /\ configured' = c
      /\ cleanupGeneration' = cleanupGeneration + 1 /\ cleanupActive' = FALSE
      /\ limit' = [l \in Lane |-> IF l \in StillSuspended THEN 0
                                  ELSE IF l \in Managed THEN PublishedLimit(c, l)
                                  ELSE IF clearedLaneResumes[l] # NoResume THEN resumeTo(l)
                                  ELSE limit[l]]
      /\ laneResumeTimers' = [l \in Lane |->
           IF l \in StillSuspended THEN [resumeConcurrency |-> resumeTo(l), due |-> FALSE]
           ELSE laneResumeTimers[l]]
      /\ clearedLaneResumes' = [l \in Lane |-> NoResume]
      /\ UNCHANGED <<chain, writer, requested, store, throttled, stuck>>

-----------------------------------------------------------------------------
WriterStep ==
  WriteBegins \/ WritePatches \/ WriteCommits \/ WriteFails \/ WriteChecked \/ Rollback

Next ==
  \/ \E u \in Suspension, s \in Session, l \in Lane \cup {Nil} : SuspendSession(u, s, l)
  \/ WriterStep
  \/ \E l \in Lane : TtlElapses(l) \/ LaneAutoResumes(l)
  \/ ClosePrelude \/ ReloaderStops \/ CloseHandler
  \/ \E c \in [Configurable -> Limit] : Reload(c) \/ GatewayStart(c)

Spec == Init /\ [][Next]_vars

\* Clocks and timers go on, and a gateway that closes in this process is
\* started again (an in-process restart; otherwise the lanes end with it).
Fairness ==
  /\ \A l \in Lane : WF_vars(TtlElapses(l)) /\ WF_vars(LaneAutoResumes(l))
  /\ WF_vars(ReloaderStops) /\ WF_vars(CloseHandler)
  /\ WF_vars(\E c \in [Configurable -> Limit] : GatewayStart(c))

FairSpec == Spec /\ Fairness

-----------------------------------------------------------------------------
(* Properties *)

\* A lane throttled to 0 has somebody who will resume it: its timer, or while
\* a gateway closes the saved timer (scheduleLaneAutoResume,
\* clearSessionSuspensionTimers, enableSessionSuspensionTimersForGatewayStart).
ThrottledLaneHasResumer ==
  \A l \in Lane : limit[l] = 0 =>
    IF cleanupActive THEN clearedLaneResumes[l] # NoResume ELSE laneResumeTimers[l] # NoResume

\* From the first step of a close to the next start no timer is armed and no
\* lane resumes, whatever write or reload is still under way
\* (server-close.ts: fence lane auto-resume timers before the first await).
CleanupHoldsLanes ==
  [][cleanupActive' =>
       /\ \A l \in Lane : laneResumeTimers'[l] = NoResume
       /\ cleanupActive => \A l \in Lane : limit[l] = 0 => limit'[l] = 0]_vars

\* A suspension asked for before a close throttles no lane after it, however
\* long its write took (cleanupGeneration, checked before and after the write).
NotAppliedAfterClose ==
  [][throttled' # throttled =>
       ~cleanupActive /\ Head(chain).queuedGeneration = cleanupGeneration]_vars

\* A close is final for the lanes: what it holds stays held until the next start, and what
\* it overtook is not applied behind its back (clearSessionSuspensionTimers, suspendSessionQueued).
CloseRespected == CleanupHoldsLanes /\ NotAppliedAfterClose

\* An entry that no write is working on holds a suspension only if its lane
\* was throttled for it, unless the rollback itself failed: a suspension
\* overtaken by a close leaves no trace (the second patchSessionEntry).
StoredMeansThrottled ==
  \A s \in Session :
    (store[s] # Nil /\ ~(writer.at \in {"check", "rollback"} /\ Head(chain).session = s))
      => store[s] \in throttled \cup stuck

\* What an entry held before a suspension that was taken back is there again:
\* a record is never erased, only replaced by a later one
\* (previousQuotaSuspension).
RecordsNotErased ==
  [][\A s \in Session : store[s] \in throttled => store'[s] # Nil]_vars

\* A throttled lane resumes in the end, across any number of restarts.
LanesResume == \A l \in Lane : limit[l] = 0 ~> limit[l] # 0

=============================================================================
