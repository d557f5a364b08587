------------------------ MODULE GracefulShutdownProofs ------------------------
(***************************************************************************)
(* Proofs about the pool and the shutdown that closes it, for any number   *)
(* of threads and any sizes.  The inductive invariant ties the counter to  *)
(* the tracked threads, the held connections to the step of acquire, and   *)
(* every live connection to the queue or to one thread.                    *)
(***************************************************************************)
EXTENDS GracefulShutdown, FiniteSetTheorems, TLAPS

HoldingSteps == {"check", "use", "put"}

Tracked == {t \in Threads : stage[t] = "tracked"}

\* A thread holds a connection in the steps that use it, and connections are new
\* beyond the count.
Held ==
    /\ \A t \in Threads : held[t] # NoConn <=> pc[t] \in HoldingSteps
    /\ \A c \in Conns : c > total => conn[c] = "new"
    /\ \A c \in Conns : c <= total => conn[c] # "new"
    /\ total <= MaxConns

\* Every live connection is in the queue or held.
NothingLost ==
    \A c \in Conns : conn[c] \in {"open", "broken"} =>
        c \in idle \/ \E t \in Threads : held[t] = c

Shutdown ==
    /\ draining <=> phase # "running"
    /\ isClosed <=> phase \in {"closing", "done"}
    /\ \A t \in Threads : pc[t] # "out" => stage[t] = "tracked"
    /\ active = Cardinality(Tracked)

\* What an orderly shutdown has behind it.
Orderly ==
    ~forced /\ ~slipped =>
        /\ phase \in {"cleanup", "closing", "done"} => Tracked = {}
        /\ \A c \in Conns : conn[c] # "dropped"
        /\ phase = "done" => idle = {}

PoolInv == PoolTypeOK /\ Held /\ ExclusiveUse /\ NothingLost

-----------------------------------------------------------------------------
(* The pool.                                                               *)

LEMMA PoolInitially == PoolInit => PoolInv
<1> SUFFICES ASSUME PoolInit PROVE PoolInv
  OBVIOUS
<1>1. total \in Nat /\ total <= MaxConns /\ idle = 1..total
  BY PoolAssumption DEF PoolInit
<1>2. PoolTypeOK
  <2>1. idle \subseteq Conns
    BY <1>1, PoolAssumption DEF Conns
  <2>2. conn \in [Conns -> {"new", "open", "broken", "closed", "dropped"}]
    BY DEF PoolInit
  <2>3. NoConn \in Conns \cup {NoConn}
    OBVIOUS
  <2> QED
    BY <1>1, <2>1, <2>2, <2>3 DEF PoolInit, PoolTypeOK
<1>3. Held /\ NothingLost
  BY <1>1, PoolAssumption DEF PoolInit, Held, NothingLost, HoldingSteps, Conns, NoConn
<1>4. ExclusiveUse
  BY <1>1, PoolAssumption DEF PoolInit, ExclusiveUse, Conns, NoConn
<1> QED
  BY <1>2, <1>3, <1>4 DEF PoolInv

LEMMA GetStep == ASSUME NEW t \in Threads, PoolInv, Get(t) PROVE PoolInv'
<1> USE PoolAssumption DEF PoolInv, PoolTypeOK, HoldingSteps, Get, Goto, Hold, Conns,
        NoConn
<1>1. PoolTypeOK'
  OBVIOUS
<1>2. Held'
  BY DEF Held
<1>3. ExclusiveUse'
  BY DEF Held, ExclusiveUse
<1>4. NothingLost'
  BY DEF Held, ExclusiveUse, NothingLost
<1> QED
  BY <1>1, <1>2, <1>3, <1>4

LEMMA CheckStep == ASSUME NEW t \in Threads, PoolInv, Check(t) PROVE PoolInv'
<1> USE PoolAssumption DEF PoolInv, PoolTypeOK, HoldingSteps, Check, Open, Goto, Hold, Mark,
        Conns, NoConn
<1>1. PoolTypeOK'
  OBVIOUS
<1>2. Held'
  BY DEF Held
<1>3. ExclusiveUse'
  BY DEF Held, ExclusiveUse
<1>4. NothingLost'
  BY DEF Held, ExclusiveUse, NothingLost
<1> QED
  BY <1>1, <1>2, <1>3, <1>4

LEMMA CountStep == ASSUME NEW t \in Threads, PoolInv, Count(t) PROVE PoolInv'
BY PoolAssumption DEF PoolInv, PoolTypeOK, Held, ExclusiveUse, NothingLost, HoldingSteps,
   Count, Goto, Conns, NoConn

LEMMA WaitStep == ASSUME NEW t \in Threads, PoolInv, Wait(t) PROVE PoolInv'
<1> USE PoolAssumption DEF PoolInv, PoolTypeOK, HoldingSteps, Wait, Goto, Hold, Conns,
        NoConn
<1>1. PoolTypeOK'
  OBVIOUS
<1>2. Held'
  BY DEF Held
<1>3. ExclusiveUse'
  BY DEF Held, ExclusiveUse
<1>4. NothingLost'
  BY DEF Held, ExclusiveUse, NothingLost
<1> QED
  BY <1>1, <1>2, <1>3, <1>4

LEMMA CreateStep == ASSUME NEW t \in Threads, PoolInv, Create(t) PROVE PoolInv'
<1> USE PoolAssumption DEF PoolInv, PoolTypeOK, HoldingSteps, Create, Open, Goto, Hold, Mark,
        Conns, NoConn
<1>1. PoolTypeOK'
  OBVIOUS
<1>2. Held'
  BY DEF Held
<1>3. ExclusiveUse'
  BY DEF Held, ExclusiveUse
<1>4. NothingLost'
  BY DEF Held, ExclusiveUse, NothingLost
<1> QED
  BY <1>1, <1>2, <1>3, <1>4

LEMMA ReleaseStep == ASSUME NEW t \in Threads, PoolInv, Release(t) PROVE PoolInv'
<1> USE PoolAssumption DEF PoolInv, PoolTypeOK, HoldingSteps, Release, Goto, Hold, Mark,
        Conns, NoConn
<1>1. PoolTypeOK'
  OBVIOUS
<1>h. held[t] \in Conns /\ conn[held[t]] \in {"open", "broken"}
  BY DEF Held, ExclusiveUse
<1>2. Held'
  <2>1. CASE UNCHANGED <<conn, held>>
    BY <2>1 DEF Held
  <2>2. CASE Mark(held[t], "dropped") /\ Hold(t, NoConn) /\ Goto(t, "out")
    BY <1>h, <2>2 DEF Held
  <2> QED
    BY <2>1, <2>2
<1>3. ExclusiveUse'
  BY DEF Held, ExclusiveUse
<1>4. NothingLost'
  BY DEF Held, ExclusiveUse, NothingLost
<1> QED
  BY <1>1, <1>2, <1>3, <1>4

LEMMA PutStep == ASSUME NEW t \in Threads, PoolInv, Put(t) PROVE PoolInv'
<1> USE PoolAssumption DEF PoolInv, PoolTypeOK, HoldingSteps, Put, Goto, Hold, Mark,
        Conns, NoConn
<1>h. held[t] \in Conns
  BY DEF Held
<1>1. PoolTypeOK'
  <2>1. idle' \subseteq Conns
    BY <1>h
  <2>2. conn' \in [Conns -> {"new", "open", "broken", "closed", "dropped"}]
    BY <1>h
  <2> QED
    BY <2>1, <2>2
<1>2. Held'
  BY DEF Held
<1>3. ExclusiveUse'
  BY DEF Held, ExclusiveUse
<1>4. NothingLost'
  BY DEF Held, ExclusiveUse, NothingLost
<1> QED
  BY <1>1, <1>2, <1>3, <1>4

LEMMA EnterStep == ASSUME NEW t \in Threads, PoolInv, Enter(t) PROVE PoolInv'
BY PoolAssumption DEF PoolInv, PoolTypeOK, Held, ExclusiveUse, NothingLost, HoldingSteps,
   Enter, Goto, Conns, NoConn

LEMMA BreakStep == ASSUME NEW c \in Conns, PoolInv, Break(c) PROVE PoolInv'
BY PoolAssumption DEF PoolInv, PoolTypeOK, Held, ExclusiveUse, NothingLost, HoldingSteps,
   Break, Mark, Conns, NoConn

LEMMA CloseStep == ASSUME PoolInv, CloseFlag \/ CloseOne PROVE PoolInv'
<1> USE PoolAssumption DEF PoolInv, PoolTypeOK, HoldingSteps, CloseFlag, CloseOne, Mark,
        Conns, NoConn
<1>1. PoolTypeOK'
  OBVIOUS
<1>2. Held'
  BY DEF Held, ExclusiveUse
<1>3. ExclusiveUse'
  BY DEF Held, ExclusiveUse
<1>4. NothingLost'
  BY DEF Held, ExclusiveUse, NothingLost
<1> QED
  BY <1>1, <1>2, <1>3, <1>4

LEMMA AcquireStep ==
  ASSUME NEW t \in Threads, PoolInv, Enter(t) \/ InAcquire(t)
  PROVE  PoolInv'
BY EnterStep, GetStep, CheckStep, CountStep, WaitStep, CreateStep, ReleaseStep, PutStep
   DEF InAcquire

LEMMA PoolStep == PoolInv /\ [Next]_vars => PoolInv'
<1> SUFFICES ASSUME PoolInv, [Next]_vars PROVE PoolInv'
  OBVIOUS
<1>1. CASE UNCHANGED poolVars
  BY <1>1 DEF poolVars, PoolInv, PoolTypeOK, Held, ExclusiveUse, NothingLost
<1>2. CASE CloseFlag \/ CloseOne
  BY <1>2, CloseStep
<1>3. CASE \E c \in Conns : Break(c)
  BY <1>3, BreakStep
<1>4. CASE \E t \in Threads : Enter(t) \/ InAcquire(t)
  BY <1>4, AcquireStep
<1> QED
  BY <1>1, <1>2, <1>3, <1>4 DEF Next, vars, Admit, Track, UsePool, Finish, Initiate,
     ShutdownStep, Drained, CleanupFlag, CleanupOne, CleanupEnd, Outage

-----------------------------------------------------------------------------
(* The shutdown.                                                           *)

ShutdownTypeOK ==
    /\ draining \in BOOLEAN
    /\ active \in Nat
    /\ phase \in {"running", "drain", "cleanup", "closing", "done"}
    /\ stage \in [Threads -> {"free", "admitted", "tracked"}]
    /\ forced \in BOOLEAN
    /\ slipped \in BOOLEAN

IInv == PoolInv /\ ShutdownTypeOK /\ Shutdown /\ Orderly

\* What a step inside acquire does to what the shutdown sees of the pool.
LEMMA AcquireIsLocal ==
  ASSUME NEW t \in Threads, PoolInv, Enter(t) \/ InAcquire(t)
  PROVE  /\ isClosed' = isClosed
         /\ \A s \in Threads : s # t => pc'[s] = pc[s]
         /\ \A c \in Conns : conn[c] # "dropped" /\ ~isClosed => conn'[c] # "dropped"
BY DEF PoolInv, PoolTypeOK, InAcquire, Enter, Get, Check, Count, Wait, Create, Release,
       Put, Open, Goto, Hold, Mark, Held, HoldingSteps, Conns, NoConn

LEMMA TrackedFinite == IsFiniteSet(Tracked) /\ Cardinality(Tracked) \in Nat
BY PoolAssumption, FS_Subset, FS_CardinalityType DEF Tracked

LEMMA NoneTracked == Cardinality(Tracked) = 0 <=> Tracked = {}
BY TrackedFinite, FS_EmptySet

LEMMA OneMore ==
  ASSUME NEW t \in Threads, ShutdownTypeOK, stage[t] # "tracked",
         stage' = [stage EXCEPT ![t] = "tracked"]
  PROVE  Cardinality(Tracked') = Cardinality(Tracked) + 1
<1>1. Tracked' = Tracked \cup {t} /\ t \notin Tracked
  BY DEF Tracked, ShutdownTypeOK
<1> QED
  BY <1>1, TrackedFinite, FS_AddElement

LEMMA OneLess ==
  ASSUME NEW t \in Threads, ShutdownTypeOK, stage[t] = "tracked",
         stage' = [stage EXCEPT ![t] = "free"]
  PROVE  Cardinality(Tracked') = Cardinality(Tracked) - 1 /\ Cardinality(Tracked) > 0
<1>1. Tracked' = Tracked \ {t} /\ t \in Tracked
  BY DEF Tracked, ShutdownTypeOK
<1>2. Cardinality(Tracked') = Cardinality(Tracked) - 1
  BY <1>1, TrackedFinite, FS_RemoveElement
<1> QED
  BY <1>1, <1>2, TrackedFinite, NoneTracked

LEMMA ShutdownKept ==
  ASSUME IInv, UNCHANGED <<draining, active, phase, stage, forced, slipped, isClosed, pc>>
  PROVE  ShutdownTypeOK' /\ Shutdown'
BY DEF IInv, ShutdownTypeOK, Shutdown, Tracked

LEMMA ShutdownStepHolds == IInv /\ [Next]_vars => (ShutdownTypeOK /\ Shutdown /\ Orderly)'
<1> SUFFICES ASSUME IInv, [Next]_vars PROVE (ShutdownTypeOK /\ Shutdown /\ Orderly)'
  OBVIOUS
<1>i. ShutdownTypeOK /\ Shutdown /\ Orderly /\ PoolInv /\ PoolTypeOK
  BY DEF IInv, PoolInv
<1>0. CASE UNCHANGED vars
  BY <1>0, <1>i, ShutdownKept
     DEF vars, poolVars, shutdownVars, Orderly, Tracked
<1>1. ASSUME NEW t \in Threads, Admit(t)
      PROVE  (ShutdownTypeOK /\ Shutdown /\ Orderly)'
  <2>1. Tracked' = Tracked
    BY <1>1, <1>i DEF Admit, ToStage, Tracked, ShutdownTypeOK
  <2> QED
    BY <1>1, <1>i, <2>1
       DEF Admit, ToStage, poolVars, ShutdownTypeOK, Shutdown, Orderly
<1>2. ASSUME NEW t \in Threads, Track(t)
      PROVE  (ShutdownTypeOK /\ Shutdown /\ Orderly)'
  <2>1. Cardinality(Tracked') = Cardinality(Tracked) + 1
    BY <1>2, <1>i, OneMore DEF Track, ToStage
  <2>2. ShutdownTypeOK' /\ Shutdown'
    BY <1>2, <1>i, <2>1 DEF Track, ToStage, poolVars, ShutdownTypeOK, Shutdown
  <2>3. Orderly'
    BY <1>2, <1>i DEF Track, poolVars, ShutdownTypeOK, Orderly
  <2> QED
    BY <2>2, <2>3
<1>3. ASSUME NEW t \in Threads, UsePool(t)
      PROVE  (ShutdownTypeOK /\ Shutdown /\ Orderly)'
  <2>1. /\ stage[t] = "tracked" /\ t \in Tracked /\ UNCHANGED shutdownVars
        /\ Enter(t) \/ InAcquire(t)
    BY <1>3 DEF UsePool, Tracked
  <2>2. /\ isClosed' = isClosed /\ \A s \in Threads : s # t => pc'[s] = pc[s]
        /\ \A c \in Conns : conn[c] # "dropped" /\ ~isClosed => conn'[c] # "dropped"
    BY <2>1, <1>i, AcquireIsLocal
  <2>3. ShutdownTypeOK' /\ Shutdown'
    BY <2>1, <2>2, <1>i DEF shutdownVars, ShutdownTypeOK, Shutdown, Tracked
  <2>4. Orderly'
    BY <2>1, <2>2, <1>i DEF shutdownVars, ShutdownTypeOK, Shutdown, Orderly, Tracked
  <2> QED
    BY <2>3, <2>4
<1>4. ASSUME NEW t \in Threads, Finish(t)
      PROVE  (ShutdownTypeOK /\ Shutdown /\ Orderly)'
  <2>1. Cardinality(Tracked') = Cardinality(Tracked) - 1 /\ Cardinality(Tracked) > 0
    BY <1>4, <1>i, OneLess DEF Finish, ToStage
  <2>2. Tracked' \subseteq Tracked
    BY <1>4, <1>i DEF Finish, ToStage, Tracked, ShutdownTypeOK
  <2>3. ShutdownTypeOK' /\ Shutdown'
    BY <1>4, <1>i, <2>1, TrackedFinite
       DEF Finish, ToStage, poolVars, ShutdownTypeOK, Shutdown
  <2>4. Orderly'
    BY <1>4, <1>i, <2>2 DEF Finish, poolVars, Orderly
  <2> QED
    BY <2>3, <2>4
<1>5. CASE Initiate
  BY <1>5, <1>i DEF Initiate, poolVars, ShutdownTypeOK, Shutdown, Orderly, Tracked
<1>6. CASE Drained
  <2>1. active = 0 => Tracked = {}
    BY <1>i, NoneTracked DEF Shutdown
  <2> QED
    BY <1>6, <1>i, <2>1 DEF Drained, poolVars, ShutdownTypeOK, Shutdown, Orderly, Tracked
<1>7. CASE CleanupFlag
  BY <1>7, <1>i
     DEF CleanupFlag, CloseFlag, ShutdownTypeOK, Shutdown, Orderly, Tracked
<1>8. CASE CleanupOne
  <2>1. \A c \in Conns : conn[c] # "dropped" => conn'[c] # "dropped"
    BY <1>8, <1>i DEF CleanupOne, CloseOne, Mark, PoolTypeOK
  <2> QED
    BY <1>8, <1>i, <2>1, ShutdownKept
       DEF CleanupOne, CloseOne, shutdownVars, Orderly, Tracked
<1>9. CASE CleanupEnd
  BY <1>9, <1>i DEF CleanupEnd, poolVars, ShutdownTypeOK, Shutdown, Orderly, Tracked
<1>10. CASE Outage
  <2>1. \A c \in Conns : conn[c] # "dropped" => conn'[c] # "dropped"
    BY <1>10, <1>i DEF Outage, Break, Mark, PoolTypeOK
  <2> QED
    BY <1>10, <1>i, <2>1, ShutdownKept
       DEF Outage, Break, shutdownVars, Orderly, Tracked
<1> QED
  BY <1>0, <1>1, <1>2, <1>3, <1>4, <1>5, <1>6, <1>7, <1>8, <1>9, <1>10
     DEF Next, ShutdownStep

THEOREM Invariance == Spec => []IInv
<1>1. Init => IInv
  <2>1. ASSUME Init PROVE Tracked = {}
    BY <2>1 DEF Init, Tracked
  <2>2. ASSUME Init PROVE ShutdownTypeOK /\ Shutdown /\ Orderly
    BY <2>1, <2>2, NoneTracked, PoolAssumption
       DEF Init, PoolInit, ShutdownTypeOK, Shutdown, Orderly, Conns
  <2> QED
    BY <2>2, PoolInitially DEF Init, IInv
<1>2. IInv /\ [Next]_vars => IInv'
  BY PoolStep, ShutdownStepHolds DEF IInv
<1> QED
  BY <1>1, <1>2, PTL DEF Spec

-----------------------------------------------------------------------------
\* Types of the pool and of the shutdown, for any number of threads.
THEOREM TypeCorrect == Spec => []TypeOK
<1>1. IInv => TypeOK
  BY DEF IInv, PoolInv, ShutdownTypeOK, TypeOK
<1> QED
  BY <1>1, Invariance, PTL

\* No two threads ever share a connection, and none in use or idle is closed under
\* its user, whatever the interleaving of acquire, release and close.
THEOREM ConnectionsAreExclusive == Spec => []ExclusiveUse
<1>1. IInv => ExclusiveUse
  BY DEF IInv, PoolInv
<1> QED
  BY <1>1, Invariance, PTL

\* A shutdown that was neither forced by its timeout nor slipped past leaves every
\* connection closed and no thread in the pool.
THEOREM OrderlyStopIsClean == Spec => []StopLeavesNothing
<1>1. IInv => StopLeavesNothing
  <2> SUFFICES ASSUME IInv, phase = "done", ~forced, ~slipped
               PROVE  /\ \A t \in Threads : pc[t] = "out"
                      /\ \A c \in Conns : conn[c] \in {"new", "closed"}
    BY DEF StopLeavesNothing
  <2>1. \A t \in Threads : pc[t] = "out"
    BY DEF IInv, Shutdown, Orderly, Tracked
  <2>2. idle = {} /\ \A t \in Threads : held[t] = NoConn
    BY <2>1 DEF IInv, Orderly, PoolInv, Held, HoldingSteps
  <2>3. \A c \in Conns : conn[c] \notin {"open", "broken", "dropped"}
    BY <2>2 DEF IInv, Orderly, PoolInv, NothingLost, Conns, NoConn
  <2> QED
    BY <2>1, <2>3 DEF IInv, PoolInv, PoolTypeOK
<1> QED
  BY <1>1, Invariance, PTL

-----------------------------------------------------------------------------
(* The bound of the pool.  A thread that has a connection, or has seen the  *)
(* queue empty and may open one, claims one place.                         *)

ClaimingSteps == {"check", "count", "create", "use", "put"}

Claiming == {t \in Threads : pc[t] \in ClaimingSteps}

Limit == IF MinSize > Cardinality(Threads) THEN MinSize ELSE Cardinality(Threads)

\* The places taken: inductive, because a place beyond the queue and the claims is
\* claimed only when the queue is empty.
PlacesBounded == Cardinality(idle) + Cardinality(Claiming) <= Limit

LEMMA PlacesFinite ==
  ASSUME PoolTypeOK
  PROVE  /\ IsFiniteSet(idle) /\ Cardinality(idle) \in Nat
         /\ IsFiniteSet(Claiming) /\ Cardinality(Claiming) \in Nat
         /\ Cardinality(Claiming) <= Cardinality(Threads)
         /\ Cardinality(Threads) \in Nat /\ Limit \in Nat
         /\ Cardinality(Threads) <= Limit
<1>1. IsFiniteSet(Conns)
  BY PoolAssumption, FS_Interval DEF Conns
<1>2. IsFiniteSet(idle)
  BY <1>1, FS_Subset DEF PoolTypeOK
<1>3. Claiming \in SUBSET Threads
  BY DEF Claiming
<1> QED
  BY <1>2, <1>3, PoolAssumption, FS_Subset, FS_CardinalityType DEF Limit

LEMMA PlacesGivenUp ==
  ASSUME PoolTypeOK, PlacesBounded, idle' \subseteq idle, Claiming' \subseteq Claiming
  PROVE  PlacesBounded'
<1>1. Cardinality(idle') \in Nat /\ Cardinality(idle') <= Cardinality(idle)
  BY PlacesFinite, FS_Subset, FS_CardinalityType
<1>2. Cardinality(Claiming') \in Nat /\ Cardinality(Claiming') <= Cardinality(Claiming)
  BY PlacesFinite, FS_Subset, FS_CardinalityType
<1> QED
  BY <1>1, <1>2, PlacesFinite DEF PlacesBounded, Limit

\* get: the connection leaves the queue and the thread claims its place.
LEMMA PlaceTaken ==
  ASSUME PoolTypeOK, PlacesBounded, NEW t \in Threads, NEW c \in idle,
         pc[t] \notin ClaimingSteps, idle' = idle \ {c},
         pc' = [pc EXCEPT ![t] = "check"] \/ pc' = [pc EXCEPT ![t] = "use"]
  PROVE  PlacesBounded'
<1>1. Claiming' = Claiming \cup {t} /\ t \notin Claiming
  BY DEF Claiming, ClaimingSteps, PoolTypeOK
<1>2. Cardinality(Claiming') = Cardinality(Claiming) + 1
  BY <1>1, PlacesFinite, FS_AddElement
<1>3. Cardinality(idle') = Cardinality(idle) - 1
  BY PlacesFinite, FS_RemoveElement
<1> QED
  BY <1>2, <1>3, PlacesFinite DEF PlacesBounded, Limit

\* put: the thread's place is in the queue again.
LEMMA PlaceReturned ==
  ASSUME PoolTypeOK, PlacesBounded, NEW t \in Threads, NEW c,
         pc[t] = "put", idle' = idle \cup {c}, pc' = [pc EXCEPT ![t] = "out"]
  PROVE  PlacesBounded'
<1>1. Claiming' = Claiming \ {t} /\ t \in Claiming
  BY DEF Claiming, ClaimingSteps, PoolTypeOK
<1>2. Cardinality(Claiming') = Cardinality(Claiming) - 1
  BY <1>1, PlacesFinite, FS_RemoveElement
<1>3. Cardinality(idle') =
        IF c \in idle THEN Cardinality(idle) ELSE Cardinality(idle) + 1
  BY PlacesFinite, FS_AddElement
<1> QED
  BY <1>2, <1>3, PlacesFinite DEF PlacesBounded, Limit

\* The queue was seen empty: there are no places but the claims.
LEMMA PlaceClaimed ==
  ASSUME PoolTypeOK', idle' = {}
  PROVE  PlacesBounded'
<1>1. Claiming' \in SUBSET Threads
  BY DEF Claiming
<1>2. Cardinality(Claiming') \in Nat /\ Cardinality(Claiming') <= Cardinality(Threads)
  BY <1>1, PoolAssumption, FS_Subset, FS_CardinalityType
<1>3. Cardinality(idle') = 0
  BY FS_EmptySet
<1>4. Cardinality(Threads) \in Nat
  BY PoolAssumption, FS_CardinalityType
<1> QED
  BY <1>2, <1>3, <1>4, PoolAssumption DEF PlacesBounded, Limit

LEMMA PlacesStep == PoolInv /\ PlacesBounded /\ [Next]_vars => PlacesBounded'
<1> SUFFICES ASSUME PoolInv, PlacesBounded, [Next]_vars PROVE PlacesBounded'
  OBVIOUS
<1>t. PoolTypeOK /\ PoolTypeOK'
  BY PoolStep DEF PoolInv
<1>0. CASE UNCHANGED <<idle, pc>>
  BY <1>0, <1>t, PlacesGivenUp DEF Claiming
<1>1. CASE CloseOne
  BY <1>1, <1>t, PlacesGivenUp DEF CloseOne, Claiming
<1>2. ASSUME NEW t \in Threads, Enter(t) \/ InAcquire(t) PROVE PlacesBounded'
  <2>1. CASE Get(t)
    <3>1. ASSUME NEW c \in idle, Hold(t, c), Goto(t, "check"), idle' = idle \ {c}
          PROVE  PlacesBounded'
      BY <2>1, <3>1, <1>t, PlaceTaken DEF Get, Goto, ClaimingSteps
    <3>2. CASE idle = {} /\ UNCHANGED idle
      BY <3>2, <1>t, PlaceClaimed
    <3> QED
      BY <2>1, <3>1, <3>2 DEF Get
  <2>2. CASE Wait(t)
    <3>1. ASSUME NEW c \in idle, Hold(t, c), Goto(t, "use"), idle' = idle \ {c}
          PROVE  PlacesBounded'
      BY <2>2, <3>1, <1>t, PlaceTaken DEF Wait, Goto, ClaimingSteps
    <3>2. CASE idle = {} /\ UNCHANGED idle
      BY <3>2, <1>t, PlaceClaimed
    <3> QED
      BY <2>2, <3>1, <3>2 DEF Wait
  <2>3. CASE Put(t)
    <3>1. CASE idle' = idle \cup {held[t]}
      BY <2>3, <3>1, <1>t, PlaceReturned DEF Put, Goto
    <3>2. CASE UNCHANGED idle
      <4>1. Claiming' \subseteq Claiming
        BY <2>3, <1>t DEF Put, Goto, Claiming, ClaimingSteps, PoolTypeOK
      <4> QED
        BY <3>2, <4>1, <1>t, PlacesGivenUp
    <3> QED
      BY <2>3, <3>1, <3>2 DEF Put
  <2>4. CASE Enter(t) \/ Check(t) \/ Count(t) \/ Create(t) \/ Release(t)
    <3>1. idle' = idle /\ Claiming' \subseteq Claiming
      BY <2>4, <1>t
         DEF Enter, Check, Count, Create, Release, Open, Goto, Claiming, ClaimingSteps,
             PoolTypeOK
    <3> QED
      BY <3>1, <1>t, PlacesGivenUp
  <2> QED
    BY <1>2, <2>1, <2>2, <2>3, <2>4 DEF InAcquire
<1> QED
  BY <1>0, <1>1, <1>2 DEF Next, vars, poolVars, Admit, Track, UsePool, Finish, Initiate,
     ShutdownStep, Drained, CleanupFlag, CloseFlag, CleanupOne, CleanupEnd, Outage, Break

LEMMA LiveHasPlaces == PoolInv /\ PlacesBounded => PoolIsBounded
<1> SUFFICES ASSUME PoolInv, PlacesBounded PROVE Cardinality(Live) <= Limit
  BY DEF PoolIsBounded, Limit
<1> DEFINE Users == {t \in Threads : held[t] # NoConn}
           Used  == {c \in Conns : \E t \in Users : held[t] = c}
           f     == [t \in Users |-> held[t]]
<1>t. PoolTypeOK
  BY DEF PoolInv
<1>1. Users \in SUBSET Claiming
  BY DEF PoolInv, Held, HoldingSteps, Claiming, ClaimingSteps
<1>2. IsFiniteSet(Users) /\ Cardinality(Users) <= Cardinality(Claiming)
      /\ Cardinality(Users) \in Nat
  BY <1>1, <1>t, PlacesFinite, FS_Subset, FS_CardinalityType
<1>3. f \in Surjection(Users, Used)
  <2>1. \A t \in Users : held[t] \in Used
    BY <1>t DEF PoolTypeOK
  <2>2. f \in [Users -> Used]
    BY <2>1
  <2>3. \A c \in Used : \E t \in Users : f[t] = c
    OBVIOUS
  <2> HIDE DEF f, Users, Used
  <2> QED
    BY <2>2, <2>3 DEF Surjection
<1>4. IsFiniteSet(Used) /\ Cardinality(Used) <= Cardinality(Users)
  <2> HIDE DEF f, Users, Used
  <2> QED
    BY <1>2, <1>3, FS_Surjection
<1>5. Live \in SUBSET (idle \cup Used)
  BY DEF PoolInv, NothingLost, Live, Conns, NoConn
<1>6. /\ IsFiniteSet(idle \cup Used)
      /\ Cardinality(idle \cup Used) <= Cardinality(idle) + Cardinality(Used)
      /\ Cardinality(idle \cup Used) \in Nat /\ Cardinality(Used) \in Nat
  <2> HIDE DEF Used
  <2>1. IsFiniteSet(idle) /\ Cardinality(idle) \in Nat
    BY <1>t, PlacesFinite
  <2>2. IsFiniteSet(idle \cap Used)
    BY <2>1, FS_Subset
  <2>3. IsFiniteSet(idle \cup Used)
    BY <2>1, <1>4, FS_Union
  <2>4. Cardinality(idle \cup Used) =
          Cardinality(idle) + Cardinality(Used) - Cardinality(idle \cap Used)
    BY <2>1, <1>4, FS_Union
  <2>5. {Cardinality(idle \cup Used), Cardinality(Used), Cardinality(idle \cap Used)}
          \subseteq Nat
    BY <2>2, <2>3, <1>4, FS_CardinalityType
  <2> QED
    BY <2>1, <2>3, <2>4, <2>5
<1>7. Cardinality(Live) \in Nat /\ Cardinality(Live) <= Cardinality(idle \cup Used)
  <2> HIDE DEF Used
  <2> QED
    BY <1>5, <1>6, FS_Subset, FS_CardinalityType
<1> HIDE DEF Used, Users
<1> QED
  BY <1>2, <1>4, <1>6, <1>7, <1>t, PlacesFinite DEF PlacesBounded

\* The pool never has more live connections than threads, or than its minimum, although
\* the count is read under the lock and compared outside it.
THEOREM ConnectionsAreBounded == Spec => []PoolIsBounded
<1>1. Init => PlacesBounded
  <2> SUFFICES ASSUME Init PROVE PlacesBounded
    OBVIOUS
  <2>1. total \in Nat /\ total <= MinSize /\ idle = 1..total
    BY PoolAssumption DEF Init, PoolInit
  <2>2. Claiming = {}
    BY DEF Init, PoolInit, Claiming, ClaimingSteps
  <2>3. Cardinality(idle) <= MinSize /\ Cardinality(idle) \in Nat
    <3>1. 1 \in Int /\ total \in Int
      BY <2>1
    <3>2. Cardinality(1..total) = IF 1 > total THEN 0 ELSE total - 1 + 1
      BY <3>1, FS_Interval, Zenon
    <3> QED
      BY <2>1, <3>2, PoolAssumption
  <2> QED
    BY <2>2, <2>3, PoolAssumption, FS_EmptySet, FS_CardinalityType
       DEF PlacesBounded, Limit
<1>2. IInv => PoolInv
  BY DEF IInv
<1> QED
  BY <1>1, <1>2, PlacesStep, LiveHasPlaces, Invariance, PTL DEF Spec

-----------------------------------------------------------------------------
(* The refinement of Lending.                                              *)

\* What the queue, a hand and the count say of a connection.
LEMMA LendingFacts ==
    ASSUME PoolInv
    PROVE  /\ \A c \in Conns : c \in idle => Status[c] = "ready"
           /\ \A c \in Conns : c > total => Status[c] = "new"
           /\ \A t \in Threads, c \in Conns : held[t] = c => Pool!Has(t, c)
           /\ \A t \in Threads : pc[t] \notin HoldingSteps => Pool!HasNone(t)
<1> USE DEF PoolInv
<1>1. ASSUME NEW c \in Conns, c \in idle
      PROVE  Status[c] = "ready"
  BY <1>1 DEF ExclusiveUse, Status, StatusOf
<1>2. ASSUME NEW c \in Conns, c > total
      PROVE  Status[c] = "new"
  BY <1>2 DEF Held, Status, StatusOf
<1>3. ASSUME NEW t \in Threads, NEW c \in Conns, held[t] = c
      PROVE  Pool!Has(t, c)
  <2>1. /\ conn[c] \in {"open", "broken"} /\ c \notin idle
        /\ \A s \in Threads : held[s] = c => s = t
    BY <1>3 DEF ExclusiveUse, Conns, NoConn
  <2>2. Status[c] = "lent"
    BY <2>1 DEF Status, StatusOf
  <2>3. Holders[c] = {t}
    BY <1>3, <2>1 DEF Holders, HoldersOf
  <2> QED
    BY <2>2, <2>3 DEF Pool!Has
<1>4. ASSUME NEW t \in Threads, pc[t] \notin HoldingSteps
      PROVE  Pool!HasNone(t)
  <2>1. held[t] = NoConn
    BY <1>4 DEF Held
  <2> QED
    BY <2>1 DEF Pool!HasNone, Holders, HoldersOf, Conns, NoConn
<1> QED
  BY <1>1, <1>2, <1>3, <1>4

\* The connections a step does not touch stay what they are to everybody.
Untouched(S) ==
    \A d \in Conns \ S : /\ conn'[d] = conn[d]
                         /\ d \in idle' <=> d \in idle
                         /\ \A u \in Threads : held'[u] = d <=> held[u] = d

LEMMA OneMoves ==
    ASSUME NEW c \in Conns, Untouched({c}),
           NEW to, Status'[c] = to, NEW with, Holders'[c] = with
    PROVE  Pool!Becomes(c, to, with)
<1>1. Status' = [Status EXCEPT ![c] = to]
  <2>1. ASSUME NEW d \in Conns \ {c}
        PROVE  StatusOf(d)' = StatusOf(d)
    BY <2>1 DEF Untouched, StatusOf
  <2>2. StatusOf(c)' = to
    BY DEF Status
  <2> QED
    BY <2>1, <2>2 DEF Status
<1>2. Holders' = [Holders EXCEPT ![c] = with]
  <2>1. ASSUME NEW d \in Conns \ {c}
        PROVE  HoldersOf(d)' = HoldersOf(d)
    BY <2>1 DEF Untouched, HoldersOf
  <2>2. HoldersOf(c)' = with
    BY DEF Holders
  <2> QED
    BY <2>1, <2>2 DEF Holders
<1> QED
  BY <1>1, <1>2 DEF Pool!Becomes

LEMMA NothingMoves ==
    ASSUME \A c \in Conns : StatusOf(c)' = StatusOf(c), held' = held, isClosed' = isClosed
    PROVE  UNCHANGED Pool!vars
<1>1. Status' = Status
  BY DEF Status
<1>2. Holders' = Holders
  BY DEF Holders, HoldersOf
<1> QED
  BY <1>1, <1>2 DEF Pool!vars

LEMMA PcMoves ==
    ASSUME UNCHANGED <<conn, idle, isClosed, held>>
    PROVE  UNCHANGED Pool!vars
BY NothingMoves DEF StatusOf

-----------------------------------------------------------------------------
\* A connection comes to a thread that has none.
LEMMA TakeStep ==
    ASSUME PoolInv, NEW t \in Threads, NEW c \in Conns,
           pc[t] \notin HoldingSteps, Status[c] \in {"new", "ready"}, Untouched({c}),
           held' = [held EXCEPT ![t] = c], c \notin idle', conn'[c] = "open" \/ conn'[c] = "broken",
           isClosed' = isClosed, \A u \in Threads : held[u] # c
    PROVE  Pool!Take(t, c)
<1>1. Status'[c] = "lent"
  BY DEF Status, StatusOf
<1>2. Holders'[c] = {t}
  BY DEF Holders, HoldersOf, PoolInv, PoolTypeOK
<1>3. Pool!Becomes(c, "lent", {t})
  BY <1>1, <1>2, OneMoves
<1> QED
  BY <1>3, LendingFacts DEF Pool!Take

\* A thread has its connection no more.
LEMMA LeaveStep ==
    ASSUME PoolInv, NEW t \in Threads, NEW c \in Conns, held[t] = c, Untouched({c}),
           held' = [held EXCEPT ![t] = NoConn], isClosed' = isClosed,
           \/ Status'[c] \in {"ready", "ended"}
           \/ Status'[c] = "lost" /\ isClosed
    PROVE  Pool!Leave(t, c)
<1>1. Holders'[c] = {}
  BY DEF Holders, HoldersOf, PoolInv, PoolTypeOK, ExclusiveUse, Conns, NoConn
<1>2. Pool!Has(t, c)
  BY LendingFacts
<1>3. Pool!Becomes(c, Status'[c], {})
  BY <1>1, OneMoves
<1> QED
  BY <1>2, <1>3 DEF Pool!Leave

\* get and wait: the queue gives up a connection nobody has.
LEMMA QueueGives ==
    ASSUME PoolInv, NEW t \in Threads, pc[t] \notin HoldingSteps, NEW c \in idle,
           held' = [held EXCEPT ![t] = c], idle' = idle \ {c}, conn' = conn,
           isClosed' = isClosed
    PROVE  c \in Conns /\ Pool!Take(t, c)
<1>1. c \in Conns /\ conn[c] \in {"open", "broken"} /\ \A u \in Threads : held[u] # c
  BY DEF PoolInv, PoolTypeOK, ExclusiveUse
<1>2. Status[c] = "ready"
  BY <1>1, LendingFacts
<1>3. held[t] = NoConn
  BY DEF PoolInv, Held
<1>4. Untouched({c})
  BY <1>3 DEF Untouched, PoolInv, PoolTypeOK, Conns, NoConn
<1> QED
  BY <1>1, <1>2, <1>4, TakeStep

\* _create_connection for a thread that has none.
LEMMA OpenGives ==
    ASSUME PoolInv, NEW t \in Threads, pc[t] \notin HoldingSteps, total < MaxConns,
           held' = [held EXCEPT ![t] = total + 1], idle' = idle, isClosed' = isClosed,
           conn' = [conn EXCEPT ![total + 1] = "open"]
    PROVE  total + 1 \in Conns /\ Pool!Take(t, total + 1)
<1>1. total + 1 \in Conns /\ conn[total + 1] = "new"
  BY PoolAssumption DEF PoolInv, PoolTypeOK, Held, Conns
<1>2. total + 1 \notin idle /\ \A u \in Threads : held[u] # total + 1
  BY <1>1 DEF PoolInv, ExclusiveUse
<1>3. Status[total + 1] = "new" /\ held[t] = NoConn
  BY <1>1 DEF PoolInv, Held, Status, StatusOf
<1>4. Untouched({total + 1}) /\ conn'[total + 1] = "open"
  BY <1>1, <1>3 DEF Untouched, PoolInv, PoolTypeOK, Conns, NoConn
<1> QED
  BY <1>1, <1>2, <1>3, <1>4, TakeStep

\* _recycle_if_needed: one is closed, another opened for the same thread.
LEMMA Recycles ==
    ASSUME PoolInv, NEW t \in Threads, pc[t] \in HoldingSteps, total < MaxConns,
           held' = [held EXCEPT ![t] = total + 1], idle' = idle, isClosed' = isClosed,
           conn' = [conn EXCEPT ![held[t]] = "closed", ![total + 1] = "open"]
    PROVE  held[t] \in Conns /\ Pool!Replace(t, held[t])
<1> USE DEF PoolInv
<1>1. PICK c \in Conns : c = held[t]
  BY DEF PoolTypeOK, Held, Conns, NoConn
<1>2. PICK d \in Conns : d = total + 1
  BY PoolAssumption DEF PoolTypeOK, Held, Conns
<1>3. /\ conn[d] = "new" /\ conn[c] \in {"open", "broken"} /\ c # d
      /\ c \notin idle /\ d \notin idle
      /\ \A u \in Threads : held[u] # d /\ (held[u] = c => u = t)
  BY <1>1, <1>2 DEF PoolTypeOK, Held, ExclusiveUse, Conns, NoConn
<1>4. Untouched({c, d}) /\ conn'[c] = "closed" /\ conn'[d] = "open"
  BY <1>1, <1>2, <1>3 DEF Untouched, PoolTypeOK
<1>5. Status' = [Status EXCEPT ![c] = "ended", ![d] = "lent"]
  <2>1. ASSUME NEW e \in Conns \ {c, d}
        PROVE  StatusOf(e)' = StatusOf(e)
    BY <1>4, <2>1 DEF Untouched, StatusOf
  <2>2. StatusOf(c)' = "ended" /\ StatusOf(d)' = "lent"
    BY <1>3, <1>4 DEF StatusOf
  <2> QED
    BY <1>3, <2>1, <2>2 DEF Status
<1>6. Holders' = [Holders EXCEPT ![c] = {}, ![d] = {t}]
  <2>1. ASSUME NEW e \in Conns \ {c, d}
        PROVE  HoldersOf(e)' = HoldersOf(e)
    BY <1>4, <2>1 DEF Untouched, HoldersOf
  <2>2. HoldersOf(c)' = {} /\ HoldersOf(d)' = {t}
    BY <1>2, <1>3 DEF HoldersOf, PoolTypeOK
  <2> QED
    BY <1>3, <2>1, <2>2 DEF Holders
<1>7. Pool!Has(t, c) /\ Status[d] = "new"
  BY <1>1, <1>3, LendingFacts DEF Status, StatusOf
<1>8. Pool!Replace(t, c)
  BY <1>5, <1>6, <1>7 DEF Pool!Replace
<1> QED
  BY <1>1, <1>8

\* A connection is closed, dropped or put back by the thread that has it.
LEMMA Leaves ==
    ASSUME PoolInv, NEW t \in Threads, pc[t] \in HoldingSteps,
           held' = [held EXCEPT ![t] = NoConn], isClosed' = isClosed,
           \/ /\ idle' = idle
              /\ \/ conn' = [conn EXCEPT ![held[t]] = "closed"]
                 \/ conn' = [conn EXCEPT ![held[t]] = "dropped"] /\ isClosed
           \/ idle' = idle \cup {held[t]} /\ conn' = conn
    PROVE  held[t] \in Conns /\ Pool!Leave(t, held[t])
<1> USE DEF PoolInv
<1>1. PICK c \in Conns : c = held[t]
  BY DEF PoolTypeOK, Held, Conns, NoConn
<1>2. Untouched({c})
  <2> SUFFICES ASSUME NEW d \in Conns \ {c}
               PROVE  /\ conn'[d] = conn[d]
                      /\ d \in idle' <=> d \in idle
                      /\ \A u \in Threads : held'[u] = d <=> held[u] = d
    BY DEF Untouched
  <2>1. conn'[d] = conn[d] /\ (d \in idle' <=> d \in idle)
    BY <1>1 DEF PoolTypeOK
  <2>2. \A u \in Threads : held'[u] = d <=> held[u] = d
    BY <1>1 DEF PoolTypeOK, Conns, NoConn
  <2> QED
    BY <2>1, <2>2
<1>3. conn[c] \in {"open", "broken"}
  BY <1>1 DEF ExclusiveUse
<1>4. \/ Status'[c] \in {"ready", "ended"}
      \/ Status'[c] = "lost" /\ isClosed
  BY <1>1, <1>3 DEF PoolTypeOK, Status, StatusOf
<1>5. Pool!Leave(t, c)
  BY <1>1, <1>2, <1>4, LeaveStep
<1> QED
  BY <1>1, <1>5

LEMMA AcquireIsLending ==
    ASSUME PoolInv, NEW t \in Threads, Enter(t) \/ InAcquire(t)
    PROVE  \/ UNCHANGED Pool!vars
           \/ \E c \in Conns : Pool!Take(t, c) \/ Pool!Leave(t, c) \/ Pool!Replace(t, c)
<1> USE DEF Goto, Hold, Mark
<1>1. CASE Enter(t) \/ Count(t)
  BY <1>1, PcMoves DEF Enter, Count
<1>2. CASE Get(t)
  <2>1. pc[t] \notin HoldingSteps
    BY <1>2 DEF Get, HoldingSteps
  <2>2. CASE idle = {} /\ UNCHANGED <<idle, held>>
    BY <1>2, <2>2, PcMoves DEF Get
  <2>3. CASE \E c \in idle : Hold(t, c) /\ Goto(t, "check") /\ idle' = idle \ {c}
    BY <1>2, <2>1, <2>3, QueueGives DEF Get
  <2> QED
    BY <1>2, <2>2, <2>3 DEF Get
<1>3. CASE Wait(t)
  <2>1. pc[t] \notin HoldingSteps
    BY <1>3 DEF Wait, HoldingSteps
  <2>2. CASE idle = {} /\ UNCHANGED <<idle, held>>
    BY <1>3, <2>2, PcMoves DEF Wait
  <2>3. CASE \E c \in idle : Hold(t, c) /\ Goto(t, "use") /\ idle' = idle \ {c}
    BY <1>3, <2>1, <2>3, QueueGives DEF Wait
  <2> QED
    BY <1>3, <2>2, <2>3 DEF Wait
<1>4. CASE Create(t)
  <2>1. pc[t] \notin HoldingSteps /\ idle' = idle /\ isClosed' = isClosed
    BY <1>4 DEF Create, HoldingSteps
  <2>2. CASE UNCHANGED <<conn, total, held>>
    BY <2>1, <2>2, PcMoves
  <2>3. CASE Open(t) /\ conn' = [conn EXCEPT ![total + 1] = "open"]
    BY <2>1, <2>3, OpenGives DEF Open
  <2> QED
    BY <1>4, <2>2, <2>3 DEF Create
<1>5. CASE Check(t)
  <2>1. pc[t] \in HoldingSteps /\ idle' = idle /\ isClosed' = isClosed
    BY <1>5 DEF Check, HoldingSteps
  <2>2. CASE UNCHANGED <<conn, total, held>>
    BY <2>1, <2>2, PcMoves
  <2>3. CASE Mark(held[t], "closed") /\ Hold(t, NoConn)
    BY <2>1, <2>3, Leaves
  <2>4. CASE Open(t) /\ conn' = [conn EXCEPT ![held[t]] = "closed", ![total + 1] = "open"]
    BY <2>1, <2>4, Recycles DEF Open
  <2> QED
    BY <1>5, <2>2, <2>3, <2>4 DEF Check
<1>6. CASE Release(t)
  <2>1. pc[t] \in HoldingSteps /\ idle' = idle /\ isClosed' = isClosed
    BY <1>6 DEF Release, HoldingSteps
  <2>2. CASE UNCHANGED <<conn, held>>
    BY <2>1, <2>2, PcMoves
  <2>3. CASE isClosed /\ Mark(held[t], "dropped") /\ Hold(t, NoConn)
    BY <2>1, <2>3, Leaves
  <2> QED
    BY <1>6, <2>2, <2>3 DEF Release
<1>7. CASE Put(t)
  <2>1. pc[t] \in HoldingSteps /\ isClosed' = isClosed /\ Hold(t, NoConn)
    BY <1>7 DEF Put, HoldingSteps
  <2>2. \/ idle' = idle \cup {held[t]} /\ UNCHANGED conn
        \/ Mark(held[t], "closed") /\ UNCHANGED idle
    BY <1>7 DEF Put
  <2> QED
    BY <2>1, <2>2, Leaves
<1> QED
  BY <1>1, <1>2, <1>3, <1>4, <1>5, <1>6, <1>7 DEF InAcquire

LEMMA StepIsLending == IInv /\ [Next]_vars => [Pool!Next]_(Pool!vars)
<1> SUFFICES ASSUME IInv, [Next]_vars
             PROVE  Pool!Next \/ UNCHANGED Pool!vars
  OBVIOUS
<1>i. PoolInv
  BY DEF IInv
<1>1. CASE UNCHANGED poolVars
  BY <1>1, PcMoves DEF poolVars
<1>2. ASSUME NEW c \in Conns, Break(c)
      PROVE  UNCHANGED Pool!vars
  <2>1. \A d \in Conns : StatusOf(d)' = StatusOf(d)
    BY <1>i, <1>2 DEF Break, Mark, StatusOf, PoolInv, PoolTypeOK
  <2> QED
    BY <1>2, <2>1, NothingMoves DEF Break
<1>3. CASE CloseFlag
  <2>1. Status' = Status /\ Holders' = Holders /\ isClosed' = TRUE
    BY <1>3 DEF CloseFlag, Status, StatusOf, Holders, HoldersOf
  <2> QED
    BY <2>1 DEF Pool!Next, Pool!Stop
<1>4. CASE CleanupOne
  <2>1. PICK c \in idle : idle' = idle \ {c} /\ Mark(c, "closed")
    BY <1>4 DEF CleanupOne, CloseOne
  <2>2. c \in Conns /\ held' = held /\ isClosed' = isClosed /\ isClosed
    BY <1>4, <1>i DEF CleanupOne, CloseOne, IInv, Shutdown, PoolInv, PoolTypeOK
  <2>3. Untouched({c}) /\ conn'[c] = "closed"
    BY <2>1, <2>2, <1>i DEF Untouched, Mark, PoolInv, PoolTypeOK
  <2>4. Status[c] = "ready" /\ Status'[c] = "ended"
    BY <1>i, <2>1, <2>2, <2>3, LendingFacts DEF Status, StatusOf
  <2>5. Holders'[c] = {}
    BY <1>i, <2>2 DEF Holders, HoldersOf, PoolInv, ExclusiveUse
  <2>6. Pool!Becomes(c, "ended", {})
    BY <2>2, <2>3, <2>4, <2>5, OneMoves
  <2> QED
    BY <2>2, <2>4, <2>6 DEF Pool!Next, Pool!Retire
<1>5. ASSUME NEW t \in Threads, Enter(t) \/ InAcquire(t)
      PROVE  Pool!Next \/ UNCHANGED Pool!vars
  BY <1>i, <1>5, AcquireIsLending DEF Pool!Next
<1> QED
  BY <1>1, <1>2, <1>3, <1>4, <1>5 DEF Next, vars, Admit, Track, UsePool, Finish, Initiate,
     ShutdownStep, Drained, CleanupFlag, CleanupEnd, Outage

\* The pool keeps the promise of Lending, for any number of threads and connections and
\* through a close that runs while they acquire and release.
THEOREM PoolImplementsLending == Spec => ImplementsLending
<1>1. Init => Pool!Init
  <2> SUFFICES ASSUME Init
               PROVE  Pool!Init
    OBVIOUS
  <2>1. \A c \in Conns : StatusOf(c) \in {"new", "ready"} /\ HoldersOf(c) = {}
    BY DEF Init, PoolInit, StatusOf, HoldersOf, Conns, NoConn
  <2> QED
    BY <2>1 DEF Pool!Init, Init, PoolInit, Status, Holders
<1>2. IInv /\ [Next]_vars => [Pool!Next]_(Pool!vars)
  BY StepIsLending
<1> QED
  BY <1>1, <1>2, Invariance, PTL DEF Spec, ImplementsLending, Pool!Spec
=============================================================================
