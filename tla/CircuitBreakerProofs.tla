------------------------ MODULE CircuitBreakerProofs ------------------------
(***************************************************************************)
(* Proofs about CircuitBreaker, for every set of callers and every config. *)
(*                                                                         *)
(* ClosedBelowThreshold, OpenHasClock and ProbesArePermitted are not       *)
(* inductive: a permit is taken on a value of the state read earlier, and  *)
(* the success count of an episode is bounded only while the episode lasts.*)
(* IInv adds these two facts.                                              *)
(***************************************************************************)
EXTENDS CircuitBreaker, FiniteSetTheorems, TLAPS

\* In a half-open episode the breaker has not yet seen the successes that close it.
EpisodeUndecided == state = "HALF_OPEN" => successCount < SuccessThreshold

\* Its count is the successes of its probes and those of the strays.
EpisodeCounted == state = "HALF_OPEN" => successCount = proven + strays

\* A permit is held only by a caller that is inside the protected call.
ProbesInFlight == \A t \in probes : pc[t] = "calling"

IInv ==
    /\ TypeOK
    /\ ClosedBelowThreshold
    /\ OpenHasClock
    /\ EpisodeUndecided
    /\ EpisodeCounted
    /\ ProbesInFlight
    /\ ProbesArePermitted

-----------------------------------------------------------------------------
LEMMA ProbesFinite ==
    ASSUME TypeOK
    PROVE  IsFiniteSet(probes) /\ Cardinality(probes) \in Nat
<1>1. IsFiniteSet(probes)
  BY ThreadsFinite, FS_Subset DEF TypeOK
<1>2. QED
  BY <1>1, FS_CardinalityType

LEMMA ProbesShrink ==
    ASSUME TypeOK, NEW t
    PROVE  Cardinality(probes \ {t}) <= Cardinality(probes)
<1>1. IsFiniteSet(probes) /\ Cardinality(probes) \in Nat
  BY ProbesFinite
<1>2. QED
  BY <1>1, FS_Subset, FS_CardinalityType

LEMMA ProbesGrow ==
    ASSUME TypeOK, NEW t
    PROVE  Cardinality(probes \cup {t}) <= Cardinality(probes) + 1
<1>1. IsFiniteSet(probes) /\ Cardinality(probes) \in Nat
  BY ProbesFinite
<1>2. Cardinality(probes \cup {t}) =
        IF t \in probes THEN Cardinality(probes) ELSE Cardinality(probes) + 1
  BY <1>1, FS_AddElement
<1>3. QED
  BY <1>1, <1>2

-----------------------------------------------------------------------------
LEMMA InitIInv == Init => IInv
<1>1. Cardinality({}) = 0
  BY FS_EmptySet
<1>2. QED
  BY <1>1, ConfigAssumption
     DEF Init, IInv, TypeOK, ClosedBelowThreshold, OpenHasClock, EpisodeUndecided, EpisodeCounted,
         ProbesInFlight, ProbesArePermitted, States, Never

\* Looking at the breaker, whoever does it, keeps the invariant: a new episode
\* starts with no permit, no success and no probe.
LEMMA AutoTransitionIInv ==
    ASSUME IInv, AutoTransition, manual' = manual,
           pc' \in [Threads -> {"idle", "entering", "calling"}],
           seen' \in [Threads -> States],
           \A t \in Threads : pc[t] = "calling" => pc'[t] = "calling"
    PROVE  IInv'
<1> USE ConfigAssumption DEF IInv, AutoTransition, TimedOut, LookedAt, NewEpisode
<1>1. TypeOK'
  BY DEF TypeOK, States
<1>2. ClosedBelowThreshold' /\ OpenHasClock' /\ EpisodeUndecided' /\ EpisodeCounted'
  BY DEF TypeOK, ClosedBelowThreshold, OpenHasClock, EpisodeUndecided, EpisodeCounted
<1>3. ProbesInFlight'
  BY DEF TypeOK, ProbesInFlight
<1>4. ProbesArePermitted'
  <2>1. CASE TimedOut
    BY <2>1, FS_EmptySet DEF ProbesArePermitted
  <2>2. CASE ~TimedOut
    BY <2>2 DEF ProbesArePermitted
  <2>3. QED
    BY <2>1, <2>2
<1>5. QED
  BY <1>1, <1>2, <1>3, <1>4

LEMMA AdmitIInv ==
    ASSUME IInv, NEW t \in Threads, Admit(t)
    PROVE  IInv'
<1> USE ConfigAssumption DEF IInv, Admit, MayPass
<1>1. TypeOK'
  BY DEF TypeOK, States
<1>2. ClosedBelowThreshold' /\ OpenHasClock' /\ EpisodeUndecided' /\ EpisodeCounted'
  BY DEF ClosedBelowThreshold, OpenHasClock, EpisodeUndecided, EpisodeCounted
<1>3. ProbesInFlight'
  BY DEF TypeOK, ProbesInFlight
<1>4. ProbesArePermitted'
  <2>1. CASE seen[t] = "HALF_OPEN"
    <3>1. Cardinality(probes') <= Cardinality(probes) + 1
      BY <2>1, ProbesGrow
    <3>2. Cardinality(probes) \in Nat /\ Cardinality(probes') \in Nat
      BY <1>1, ProbesFinite, FS_CardinalityType, ThreadsFinite, FS_Subset DEF TypeOK
    <3>3. halfOpenCalls' = halfOpenCalls + 1 /\ halfOpenCalls < HalfOpenMaxCalls
      BY <2>1
    <3>4. Cardinality(probes) <= halfOpenCalls /\ halfOpenCalls \in Nat
      BY DEF ProbesArePermitted, TypeOK
    <3>5. QED
      BY <3>1, <3>2, <3>3, <3>4 DEF ProbesArePermitted
  <2>2. CASE seen[t] # "HALF_OPEN"
    BY <2>2 DEF ProbesArePermitted
  <2>3. QED
    BY <2>1, <2>2
<1>5. QED
  BY <1>1, <1>2, <1>3, <1>4

LEMMA ReturnIInv ==
    ASSUME IInv, NEW t \in Threads, NEW outcome \in Outcomes, Return(t, outcome)
    PROVE  IInv'
<1> USE ConfigAssumption DEF IInv
<1>1. outcome \in {"success", "failure", "excluded"}
  BY DEF Outcomes
<1>2. TypeOK' /\ ClosedBelowThreshold' /\ OpenHasClock' /\ EpisodeUndecided' /\ EpisodeCounted'
  <2> USE DEF TypeOK, States, Never, ClosedBelowThreshold, OpenHasClock,
              EpisodeUndecided, EpisodeCounted, Return, CountedFrom
  <2>1. CASE outcome = "success"
    <3>1. pc' = [pc EXCEPT ![t] = "idle"] /\ probes' = probes \ {t}
          /\ halfOpenCalls' = halfOpenCalls /\ seen' = seen /\ manual' = manual
          /\ elapsed' = elapsed
      BY <2>1 DEF RecordSuccess
    <3>2. CASE state = "HALF_OPEN"
      BY <2>1, <3>1, <3>2 DEF RecordSuccess
    <3>3. CASE state = "CLOSED"
      BY <2>1, <3>1, <3>3 DEF RecordSuccess
    <3>4. CASE state = "OPEN"
      BY <2>1, <3>1, <3>4 DEF RecordSuccess
    <3>5. QED
      BY <3>2, <3>3, <3>4
  <2>2. CASE outcome = "failure"
    BY <2>2 DEF RecordFailure, OneMoreFailure
  <2>3. CASE outcome = "excluded"
    BY <2>3
  <2>4. QED
    BY <1>1, <2>1, <2>2, <2>3
<1>3. ProbesInFlight'
  BY DEF Return, TypeOK, ProbesInFlight
<1>4. ProbesArePermitted'
  <2>1. Cardinality(probes') <= Cardinality(probes) /\ halfOpenCalls' = halfOpenCalls
    BY ProbesShrink DEF Return
  <2>2. TypeOK /\ TypeOK'
    BY <1>2
  <2>3. Cardinality(probes) \in Nat /\ Cardinality(probes') \in Nat
    BY <2>2, ThreadsFinite, FS_Subset, FS_CardinalityType DEF TypeOK
  <2>4. QED
    BY <2>1, <2>2, <2>3 DEF ProbesArePermitted, TypeOK
<1>5. QED
  BY <1>2, <1>3, <1>4

LEMMA ManualIInv ==
    ASSUME IInv, ManualReset \/ ManualTrip
    PROVE  IInv'
<1> USE ConfigAssumption
    DEF IInv, TypeOK, States, Never, ClosedBelowThreshold, OpenHasClock,
        EpisodeUndecided, EpisodeCounted, ProbesInFlight, ProbesArePermitted
<1>1. CASE ManualReset
  BY <1>1, FS_EmptySet DEF observers, ManualReset
<1>2. CASE ManualTrip
  BY <1>2 DEF observers, ManualTrip
<1>3. QED
  BY <1>1, <1>2

LEMMA NextIInv == IInv /\ [Next]_vars => IInv'
<1> SUFFICES ASSUME IInv, [Next]_vars
             PROVE  IInv'
  OBVIOUS
<1>1. ASSUME NEW t \in Threads, ReadState(t)
      PROVE  IInv'
  <2>1. pc' \in [Threads -> {"idle", "entering", "calling"}]
    BY <1>1 DEF ReadState, IInv, TypeOK
  <2>2. seen' \in [Threads -> States]
    BY <1>1 DEF ReadState, IInv, TypeOK, LookedAt, States
  <2>3. \A u \in Threads : pc[u] = "calling" => pc'[u] = "calling"
    BY <1>1 DEF ReadState, IInv, TypeOK
  <2>4. QED
    BY <1>1, <2>1, <2>2, <2>3, AutoTransitionIInv DEF ReadState
<1>2. ASSUME NEW t \in Threads, Admit(t)
      PROVE  IInv'
  BY <1>2, AdmitIInv
<1>3. ASSUME NEW t \in Threads, Reject(t)
      PROVE  IInv'
  BY <1>3 DEF Reject, observers, IInv, TypeOK, ClosedBelowThreshold, OpenHasClock,
              EpisodeUndecided, EpisodeCounted, ProbesInFlight, ProbesArePermitted
<1>4. ASSUME NEW t \in Threads, NEW outcome \in Outcomes, Return(t, outcome)
      PROVE  IInv'
  BY <1>4, ReturnIInv
<1>5. CASE HealthCheck
  <2>1. pc' = pc /\ seen' = seen /\ manual' = manual /\ AutoTransition
    BY <1>5 DEF HealthCheck
  <2>2. QED
    BY <2>1, AutoTransitionIInv DEF IInv, TypeOK
<1>6. CASE ManualReset \/ ManualTrip
  BY <1>6, ManualIInv
<1>7. CASE Tick
  BY <1>7, ConfigAssumption
     DEF Tick, observers, IInv, TypeOK, Never, ClosedBelowThreshold, OpenHasClock,
         EpisodeUndecided, EpisodeCounted, ProbesInFlight, ProbesArePermitted
<1>8. CASE UNCHANGED vars
  BY <1>8 DEF vars, observers, IInv, TypeOK, ClosedBelowThreshold, OpenHasClock,
              EpisodeUndecided, EpisodeCounted, ProbesInFlight, ProbesArePermitted
<1>9. QED
  BY <1>1, <1>2, <1>3, <1>4, <1>5, <1>6, <1>7, <1>8 DEF Next, Caller

LEMMA SpecIInv == Spec => []IInv
  BY InitIInv, NextIInv, PTL DEF Spec

-----------------------------------------------------------------------------
\* Every variable keeps its type, in particular the permits and the successes
\* of an episode never exceed the config's half_open_max_calls and
\* success_threshold.
THEOREM TypeCorrect == Spec => []TypeOK
  BY SpecIInv, PTL DEF IInv

\* No interleaving of late results, probes and manual calls leaves the breaker
\* CLOSED on a full failure count.
THEOREM ClosedIsBelowThreshold == Spec => []ClosedBelowThreshold
  BY SpecIInv, PTL DEF IInv

\* An open breaker always has a failure time, so it can always time out.
THEOREM OpenCanTimeOut == Spec => []OpenHasClock
  BY SpecIInv, PTL DEF IInv

\* However the two critical sections of __enter__ interleave, at most
\* half_open_max_calls callers are in flight on permits of one episode.
THEOREM PermitsBoundProbes == Spec => []ProbesArePermitted
  BY SpecIInv, PTL DEF IInv
-----------------------------------------------------------------------------
(* The permits of an episode: each is a success, a caller in flight or lost *)
(* to an excluded exception.                                                *)

\* Looking at the breaker leaves the accounting alone or starts a new episode.
LEMMA AutoTransitionNoLostPermit ==
    ASSUME TypeOK, NoLostPermit, AutoTransition
    PROVE  NoLostPermit'
<1>1. CASE TimedOut
  <2>1. halfOpenCalls' = 0 /\ successCount' = 0 /\ Cardinality(probes') = 0 /\ lost' = 0
    BY <1>1, FS_EmptySet DEF AutoTransition, NewEpisode
  <2>2. QED
    BY <2>1 DEF NoLostPermit
<1>2. CASE ~TimedOut
  BY <1>2 DEF AutoTransition, NewEpisode, LookedAt, NoLostPermit
<1>3. QED
  BY <1>1, <1>2

LEMMA AdmitNoLostPermit ==
    ASSUME IInv, NoLostPermit, NEW t \in Threads, Admit(t)
    PROVE  NoLostPermit'
<1>1. CASE seen[t] = "HALF_OPEN"
  <2>1. t \notin probes
    BY DEF IInv, ProbesInFlight, Admit
  <2>2. Cardinality(probes \cup {t}) = Cardinality(probes) + 1
    BY <2>1, ProbesFinite, FS_AddElement DEF IInv
  <2>3. halfOpenCalls' = halfOpenCalls + 1 /\ probes' = probes \cup {t}
        /\ state' = state /\ successCount' = successCount /\ lost' = lost
    BY <1>1 DEF Admit
  <2>4. halfOpenCalls \in Nat /\ successCount \in Nat /\ Cardinality(probes) \in Nat
        /\ lost \in Nat
    BY ProbesFinite DEF IInv, TypeOK
  <2>5. QED
    BY <2>2, <2>3, <2>4 DEF NoLostPermit
<1>2. CASE seen[t] # "HALF_OPEN"
  BY <1>2 DEF Admit, NoLostPermit
<1>3. QED
  BY <1>1, <1>2

LEMMA ReturnNoLostPermit ==
    ASSUME IInv, NoLostPermit, NEW t \in Threads, NEW outcome \in Outcomes,
           Return(t, outcome)
    PROVE  NoLostPermit'
<1>1. (IF t \in probes THEN Cardinality(probes \ {t}) = Cardinality(probes) - 1
                       ELSE Cardinality(probes \ {t}) = Cardinality(probes))
      /\ Cardinality(probes \ {t}) \in Nat /\ Cardinality(probes) \in Nat
  <2>1. IsFiniteSet(probes) /\ Cardinality(probes) \in Nat
    BY ProbesFinite DEF IInv
  <2>2. /\ IsFiniteSet(probes \ {t})
        /\ Cardinality(probes \ {t}) =
             IF t \in probes THEN Cardinality(probes) - 1 ELSE Cardinality(probes)
    BY <2>1, FS_RemoveElement
  <2>3. Cardinality(probes \ {t}) \in Nat
    BY <2>2, FS_CardinalityType
  <2>4. QED
    BY <2>1, <2>2, <2>3
<1>2. halfOpenCalls' = halfOpenCalls /\ probes' = probes \ {t}
  BY DEF Return
<1>3. halfOpenCalls \in Nat /\ successCount \in Nat /\ lost \in Nat /\ state \in States
  BY DEF IInv, TypeOK
<1>4. CASE outcome = "success"
  <2>1. state' = "HALF_OPEN" => state = "HALF_OPEN" /\ successCount' = successCount + 1
    <3>1. CASE state = "HALF_OPEN"
      BY <1>4, <3>1 DEF Return, RecordSuccess
    <3>2. CASE state = "CLOSED"
      BY <1>4, <3>2 DEF Return, RecordSuccess
    <3>3. CASE state = "OPEN"
      BY <1>4, <3>3 DEF Return, RecordSuccess
    <3>4. QED
      BY <1>3, <3>1, <3>2, <3>3 DEF States
  <2>2. lost' = lost
    BY <1>4 DEF Return
  <2>3. QED
    BY <1>1, <1>2, <1>3, <2>1, <2>2 DEF NoLostPermit
<1>5. CASE outcome = "failure"
  <2>1. state' # "HALF_OPEN"
    BY <1>3, <1>5 DEF Return, RecordFailure, States
  <2>2. QED
    BY <2>1 DEF NoLostPermit
<1>6. CASE outcome = "excluded"
  <2>1. /\ state' = state /\ successCount' = successCount
        /\ lost' = IF t \in probes THEN lost + 1 ELSE lost
    BY <1>6 DEF Return
  <2>2. QED
    BY <1>1, <1>2, <1>3, <2>1 DEF NoLostPermit
<1>7. QED
  BY <1>4, <1>5, <1>6 DEF Outcomes

LEMMA NextNoLostPermit == IInv /\ NoLostPermit /\ [Next]_vars => NoLostPermit'
<1> SUFFICES ASSUME IInv, NoLostPermit, [Next]_vars
             PROVE  NoLostPermit'
  OBVIOUS
<1>1. ASSUME NEW t \in Threads, ReadState(t)
      PROVE  NoLostPermit'
  BY <1>1, AutoTransitionNoLostPermit DEF ReadState, IInv
<1>2. ASSUME NEW t \in Threads, Admit(t)
      PROVE  NoLostPermit'
  BY <1>2, AdmitNoLostPermit
<1>3. ASSUME NEW t \in Threads, Reject(t)
      PROVE  NoLostPermit'
  BY <1>3 DEF Reject, observers, NoLostPermit
<1>4. ASSUME NEW t \in Threads, NEW outcome \in Outcomes, Return(t, outcome)
      PROVE  NoLostPermit'
  BY <1>4, ReturnNoLostPermit
<1>5. CASE HealthCheck
  BY <1>5, AutoTransitionNoLostPermit DEF HealthCheck, IInv
<1>6. CASE ManualReset \/ ManualTrip
  BY <1>6 DEF observers, ManualReset, ManualTrip, NoLostPermit
<1>7. CASE Tick
  BY <1>7 DEF Tick, observers, NoLostPermit
<1>8. CASE UNCHANGED vars
  BY <1>8 DEF vars, observers, NoLostPermit
<1>9. QED
  BY <1>1, <1>2, <1>3, <1>4, <1>5, <1>6, <1>7, <1>8 DEF Next, Caller

\* Every permit taken in a half-open episode is accounted for by a success, a
\* caller in flight or an excluded exception ...
THEOREM PermitsAreAccountedFor == Spec => []NoLostPermit
<1>1. Init => NoLostPermit
  BY DEF Init, NoLostPermit
<1>2. IInv /\ NoLostPermit /\ [Next]_vars => NoLostPermit'
  BY NextNoLostPermit
<1>3. QED
  BY <1>1, <1>2, SpecIInv, PTL DEF Spec

\* ... so a half-open breaker that nobody is probing admits the next probe, unless
\* an excluded exception took a permit with it.
THEOREM HalfOpenNeverWedged == Spec => []HalfOpenTests
<1>1. IInv /\ NoLostPermit => HalfOpenTests
  BY ConfigAssumption, FS_EmptySet
     DEF IInv, TypeOK, EpisodeUndecided, NoLostPermit, HalfOpenTests
<1>2. QED
  BY <1>1, SpecIInv, PermitsAreAccountedFor, PTL

-----------------------------------------------------------------------------
LEMMA ClosingStep ==
    ASSUME IInv, [Next]_vars, state # "CLOSED", state' = "CLOSED"
    PROVE  \/ manual' = manual + 1
           \/ state = "HALF_OPEN" /\ proven' + strays' = SuccessThreshold
<1>1. ASSUME NEW t \in Threads, Caller(t)
      PROVE  state = "HALF_OPEN" /\ proven' + strays' = SuccessThreshold
  <2>1. CASE ReadState(t) \/ Admit(t) \/ Reject(t)
    BY <2>1 DEF ReadState, AutoTransition, LookedAt, Admit, Reject
  <2>2. ASSUME NEW outcome \in Outcomes, Return(t, outcome)
        PROVE  state = "HALF_OPEN" /\ proven' + strays' = SuccessThreshold
    <3>1. outcome = "success"
      BY <2>2 DEF Return, RecordFailure, Outcomes
    <3>2. state = "HALF_OPEN"
      BY <2>2, <3>1 DEF Return, RecordSuccess, IInv, TypeOK, States
    <3>3. successCount + 1 >= SuccessThreshold
      BY <2>2, <3>1, <3>2 DEF Return, RecordSuccess
    <3>4. successCount + 1 = SuccessThreshold
      BY <3>2, <3>3, ConfigAssumption DEF IInv, TypeOK, EpisodeUndecided
    <3>5. proven' + strays' = proven + strays + 1
      BY <2>2, <3>1, <3>2 DEF Return, CountedFrom, IInv, TypeOK
    <3>6. QED
      BY <3>2, <3>4, <3>5 DEF IInv, EpisodeCounted
  <2>3. QED
    BY <1>1, <2>1, <2>2 DEF Caller
<1>2. CASE HealthCheck \/ Tick \/ UNCHANGED vars
  BY <1>2 DEF HealthCheck, AutoTransition, LookedAt, Tick, vars, observers
<1>3. CASE ManualReset \/ ManualTrip
  BY <1>3 DEF ManualReset, ManualTrip
<1>4. QED
  BY <1>1, <1>2, <1>3 DEF Next

\* Whatever results come late, a breaker that has tripped closes by a reset or on the
\* full count of successes of one episode: those of its probes and of the strays.
THEOREM VerdictsCloseIt == Spec => ClosesOnVerdict
<1>1. IInv /\ [Next]_vars =>
        [state # "CLOSED" /\ state' = "CLOSED" =>
           \/ manual' = manual + 1
           \/ state = "HALF_OPEN" /\ proven' + strays' = SuccessThreshold]_vars
  BY ClosingStep
<1>2. QED
  BY <1>1, SpecIInv, PTL DEF Spec, ClosesOnVerdict
=============================================================================
