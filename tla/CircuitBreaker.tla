--------------------------- MODULE CircuitBreaker ---------------------------
(***************************************************************************)
(* One CircuitBreaker object of infrastructure/circuit_breaker.py, shared  *)
(* by the threads that call a protected service through `with cb:' or      *)
(* @cb.protect.                                                            *)
(*                                                                         *)
(* The code takes its lock twice on the way in: __enter__ reads `self.state'*)
(* (which may itself move OPEN to HALF_OPEN) and releases the lock, then   *)
(* takes it again to decide on the value it read.  The two critical        *)
(* sections are the two actions ReadState and Admit, and other threads run *)
(* in between.  __exit__ is one critical section: the action Return.       *)
(***************************************************************************)
EXTENDS Integers, FiniteSets

CONSTANTS
    Threads,           \* callers of the protected service
    FailureThreshold,  \* config.failure_threshold
    RecoveryTimeout,   \* config.recovery_timeout, in clock ticks
    HalfOpenMaxCalls,  \* config.half_open_max_calls
    SuccessThreshold,  \* config.success_threshold
    MaxManual          \* bound on the manual trip() and reset() calls

ASSUME ConfigAssumption ==
    /\ FailureThreshold \in Nat \ {0}
    /\ RecoveryTimeout \in Nat \ {0}
    /\ HalfOpenMaxCalls \in Nat \ {0}
    /\ SuccessThreshold \in Nat \ {0}
    /\ SuccessThreshold <= HalfOpenMaxCalls   \* true of every SERVICE_CONFIGS entry
    /\ MaxManual \in Nat

ASSUME ThreadsFinite == IsFiniteSet(Threads)

VARIABLES
    state,          \* _state
    failureCount,   \* _failure_count, saturated at FailureThreshold
    successCount,   \* _success_count
    halfOpenCalls,  \* _half_open_calls
    elapsed,        \* ticks since _last_failure_time, saturated at RecoveryTimeout
    pc,             \* where each caller is
    seen,           \* the value of `current' in each caller's __enter__
    manual,         \* trip() and reset() calls so far
    probes,         \* observer: callers in flight on a permit of this half-open episode
    lost,           \* observer: permits of this episode whose call ended unrecorded
    proven,         \* observer: successes this episode has had from its own probes
    strays          \* observer: and from calls that hold no permit of it

observers == <<probes, lost, proven, strays>>
vars == <<state, failureCount, successCount, halfOpenCalls, elapsed, pc, seen,
          manual, observers>>

\* What a protected call ends in; the exceptions the config excludes are their own.
Outcomes == {"success", "failure", "excluded"}

States == {"CLOSED", "OPEN", "HALF_OPEN"}
Never  == -1               \* _last_failure_time is None

TypeOK ==
    /\ state \in States
    /\ failureCount \in 0..FailureThreshold
    /\ successCount \in 0..SuccessThreshold
    /\ halfOpenCalls \in 0..HalfOpenMaxCalls
    /\ elapsed \in Never..RecoveryTimeout
    /\ pc \in [Threads -> {"idle", "entering", "calling"}]
    /\ seen \in [Threads -> States]
    /\ manual \in 0..MaxManual
    /\ probes \subseteq Threads
    /\ lost \in Nat
    /\ proven \in 0..SuccessThreshold
    /\ strays \in 0..SuccessThreshold

Init ==
    /\ state = "CLOSED"
    /\ failureCount = 0
    /\ successCount = 0
    /\ halfOpenCalls = 0
    /\ elapsed = Never
    /\ pc = [t \in Threads |-> "idle"]
    /\ seen = [t \in Threads |-> "CLOSED"]
    /\ manual = 0
    /\ probes = {}
    /\ lost = 0
    /\ proven = 0
    /\ strays = 0

-----------------------------------------------------------------------------
(* The `state' property: an OPEN breaker whose timeout has elapsed becomes  *)
(* HALF_OPEN when somebody looks at it, and _transition_to clears the       *)
(* permits and the successes of the previous episode.                       *)

TimedOut == state = "OPEN" /\ elapsed = RecoveryTimeout

LookedAt == IF TimedOut THEN "HALF_OPEN" ELSE state

\* A new episode starts with nobody probing and nothing counted.
NewEpisode ==
    /\ probes' = IF TimedOut THEN {} ELSE probes
    /\ lost' = IF TimedOut THEN 0 ELSE lost
    /\ proven' = IF TimedOut THEN 0 ELSE proven
    /\ strays' = IF TimedOut THEN 0 ELSE strays

\* (Mutations: the permits, or the successes, of the previous episode are kept.)
AutoTransitionKeepsPermits ==
    /\ state' = LookedAt
    /\ successCount' = IF TimedOut THEN 0 ELSE successCount
    /\ NewEpisode
    /\ UNCHANGED <<failureCount, halfOpenCalls, elapsed>>

AutoTransitionKeepsSuccesses ==
    /\ state' = LookedAt
    /\ halfOpenCalls' = IF TimedOut THEN 0 ELSE halfOpenCalls
    /\ NewEpisode
    /\ UNCHANGED <<failureCount, successCount, elapsed>>

AutoTransition ==
    /\ state' = LookedAt
    /\ halfOpenCalls' = IF TimedOut THEN 0 ELSE halfOpenCalls
    /\ successCount' = IF TimedOut THEN 0 ELSE successCount
    /\ NewEpisode
    /\ UNCHANGED <<failureCount, elapsed>>

\* __enter__, first half: current = self.state
ReadState(t) ==
    /\ pc[t] = "idle"
    /\ AutoTransition
    /\ pc' = [pc EXCEPT ![t] = "entering"]
    /\ seen' = [seen EXCEPT ![t] = LookedAt]
    /\ UNCHANGED manual

\* all_states() and any_open() of the registry read `state' too (health check).
HealthCheck ==
    /\ TimedOut
    /\ AutoTransition
    /\ UNCHANGED <<pc, seen, manual>>

\* (Mutation: one permit too many.)
MayPassOneMore(t) ==
    \/ seen[t] = "CLOSED"
    \/ seen[t] = "HALF_OPEN" /\ halfOpenCalls <= HalfOpenMaxCalls

MayPass(t) ==
    \/ seen[t] = "CLOSED"
    \/ seen[t] = "HALF_OPEN" /\ halfOpenCalls < HalfOpenMaxCalls

\* __enter__, second half, the caller goes through: it decides on `current',
\* not on the state the breaker has by now.
Admit(t) ==
    /\ pc[t] = "entering"
    /\ MayPass(t)
    /\ pc' = [pc EXCEPT ![t] = "calling"]
    /\ IF seen[t] = "HALF_OPEN"
         THEN /\ halfOpenCalls' = halfOpenCalls + 1
              /\ probes' = probes \cup {t}
         ELSE UNCHANGED <<halfOpenCalls, probes>>
    /\ UNCHANGED <<state, failureCount, successCount, elapsed, seen, manual, lost,
                   proven, strays>>

\* (Mutation: a rejection counts as a failure and restarts the clock.)
RejectRestartsClock(t) ==
    /\ pc[t] = "entering"
    /\ ~MayPass(t)
    /\ pc' = [pc EXCEPT ![t] = "idle"]
    /\ elapsed' = IF seen[t] = "OPEN" THEN 0 ELSE elapsed
    /\ UNCHANGED <<state, failureCount, successCount, halfOpenCalls, seen, manual,
                   observers>>

\* __enter__, second half, CircuitBreakerOpenError or ...HalfOpenLimitError;
\* protect() then runs the fallback or re-raises.
Reject(t) ==
    /\ pc[t] = "entering"
    /\ ~MayPass(t)
    /\ pc' = [pc EXCEPT ![t] = "idle"]
    /\ UNCHANGED <<state, failureCount, successCount, halfOpenCalls, elapsed,
                   seen, manual, observers>>

-----------------------------------------------------------------------------
RecordSuccess ==
    /\ CASE state = "HALF_OPEN" ->
              /\ successCount' = successCount + 1
              /\ IF successCount + 1 >= SuccessThreshold
                   THEN state' = "CLOSED" /\ failureCount' = 0
                   ELSE UNCHANGED <<state, failureCount>>
         [] state = "CLOSED" ->
              failureCount' = 0 /\ UNCHANGED <<state, successCount>>
         [] state = "OPEN" -> UNCHANGED <<state, failureCount, successCount>>
    /\ UNCHANGED elapsed

OneMoreFailure == IF failureCount < FailureThreshold THEN failureCount + 1
                                                     ELSE failureCount

\* (Mutation: only the threshold opens the breaker, a failed probe does not.)
RecordFailureByCount ==
    /\ failureCount' = OneMoreFailure
    /\ elapsed' = 0
    /\ state' = IF state = "CLOSED" /\ OneMoreFailure >= FailureThreshold
                  THEN "OPEN" ELSE state
    /\ UNCHANGED successCount

\* A failure restarts the clock in every state, OPEN included.
RecordFailure ==
    /\ failureCount' = OneMoreFailure
    /\ elapsed' = 0
    /\ state' = IF \/ state = "HALF_OPEN"
                   \/ state = "CLOSED" /\ OneMoreFailure >= FailureThreshold
                  THEN "OPEN" ELSE state
    /\ UNCHANGED successCount

\* Whose success a half-open breaker has just counted.
CountedFrom(t, outcome) ==
    LET counted == outcome = "success" /\ state = "HALF_OPEN" IN
    /\ proven' = IF counted /\ t \in probes THEN proven + 1 ELSE proven
    /\ strays' = IF counted /\ t \notin probes THEN strays + 1 ELSE strays

\* __exit__: an excluded exception is recorded neither way.
Return(t, outcome) ==
    /\ pc[t] = "calling"
    /\ pc' = [pc EXCEPT ![t] = "idle"]
    /\ CASE outcome = "success"  -> RecordSuccess
         [] outcome = "failure"  -> RecordFailure
         [] outcome = "excluded" ->
              UNCHANGED <<state, failureCount, successCount, elapsed>>
    /\ CountedFrom(t, outcome)
    /\ probes' = probes \ {t}
    /\ lost' = IF outcome = "excluded" /\ t \in probes THEN lost + 1 ELSE lost
    /\ UNCHANGED <<halfOpenCalls, seen, manual>>

ManualReset ==
    /\ manual < MaxManual
    /\ manual' = manual + 1
    /\ state' = "CLOSED"
    /\ failureCount' = 0
    /\ successCount' = 0
    /\ halfOpenCalls' = 0
    /\ probes' = {}
    /\ lost' = 0
    /\ proven' = 0
    /\ strays' = 0
    /\ UNCHANGED <<elapsed, pc, seen>>

ManualTrip ==
    /\ manual < MaxManual
    /\ manual' = manual + 1
    /\ state' = "OPEN"
    /\ elapsed' = 0
    /\ UNCHANGED <<failureCount, successCount, halfOpenCalls, pc, seen,
                   observers>>

Tick ==
    /\ elapsed # Never
    /\ elapsed < RecoveryTimeout
    /\ elapsed' = elapsed + 1
    /\ UNCHANGED <<state, failureCount, successCount, halfOpenCalls, pc, seen,
                   manual, observers>>

Caller(t) ==
    \/ ReadState(t)
    \/ Admit(t)
    \/ Reject(t)
    \/ \E outcome \in Outcomes : Return(t, outcome)

Next ==
    \/ \E t \in Threads : Caller(t)
    \/ HealthCheck
    \/ ManualReset
    \/ ManualTrip
    \/ Tick

Spec == Init /\ [][Next]_vars

\* Time passes, calls return (every protected client has a timeout) and the
\* service keeps being called.
FairSpec ==
    /\ Spec
    /\ WF_vars(Tick)
    /\ \A t \in Threads : WF_vars(Caller(t))

-----------------------------------------------------------------------------
(* Properties.                                                             *)

\* A breaker that lets everything through has not yet counted a threshold's
\* worth of failures: whatever closes it (probes that succeed, a manual reset)
\* also forgets the failures that opened it, and no interleaving of late results
\* leaves it CLOSED on a full count.
ClosedBelowThreshold == state = "CLOSED" => failureCount < FailureThreshold

\* An open breaker can always time out: whoever opened it (a failure, or trip()
\* on a breaker that never saw one) also started the clock.
OpenHasClock == state = "OPEN" => elapsed # Never

\* Every caller in flight on a permit of the current half-open episode is
\* counted, so no more than half_open_max_calls of them are ever in flight,
\* however the two halves of __enter__ interleave.
ProbesArePermitted ==
    /\ Cardinality(probes) <= halfOpenCalls
    /\ halfOpenCalls <= HalfOpenMaxCalls

\* Permits are never given back, so each one taken in a half-open episode must
\* be accounted for: by a recorded success, a caller still in flight or a call
\* that ended in an excluded exception.  No late result of an earlier episode and
\* no interleaving of __enter__ loses another one.
NoLostPermit ==
    state = "HALF_OPEN" => halfOpenCalls <= successCount + Cardinality(probes) + lost

\* A half-open breaker that nobody is probing lets the next request through,
\* unless an excluded exception has cost it a permit.
HalfOpenTests ==
    state = "HALF_OPEN" /\ probes = {} /\ lost = 0 => halfOpenCalls < HalfOpenMaxCalls

\* A half-open episode in which every result is recorded comes to a verdict.
EpisodeEnds == state = "HALF_OPEN" ~> state # "HALF_OPEN" \/ lost > 0

\* The breaker does not stay open for ever: the timeout leads to an episode.
OpenEnds == state = "OPEN" ~> state # "OPEN"

\* A breaker that has tripped closes by an operator's reset, or at the end of one
\* half-open episode in which success_threshold calls ended well; no success of an
\* earlier episode or of the time it was open is among them.  It is not promised that
\* these calls are probes: _record_success counts a call admitted before the trip, if it
\* ends in the episode, like a probe (strays).
ClosesOnVerdict ==
    [][state # "CLOSED" /\ state' = "CLOSED" =>
          \/ manual' = manual + 1
          \/ state = "HALF_OPEN" /\ proven' + strays' = SuccessThreshold]_vars
=============================================================================
