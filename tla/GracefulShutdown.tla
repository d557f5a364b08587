--------------------------- MODULE GracefulShutdown ---------------------------
(***************************************************************************)
(* infrastructure/graceful_shutdown.py with the connection pool it closes: *)
(* requests are tracked while they run and use the pool, and a signal sets *)
(* the draining flag, waits for the tracked requests for a while and runs  *)
(* the cleanup tasks, among them the pool's close.  A request looks at the *)
(* flag first and is counted after.  Requests run in other threads than    *)
(* the signal handler.                                                     *)
(***************************************************************************)
EXTENDS ConnectionPool

VARIABLES
    draining,   \* is_draining
    active,     \* RequestTracker._active
    phase,      \* of _initiate_shutdown
    stage,      \* where each thread is around its use of the pool
    forced,     \* observer: the drain ended by its timeout
    slipped     \* observer: a request was counted after the drain had ended

shutdownVars == <<draining, active, phase, stage, forced, slipped>>
vars == <<poolVars, shutdownVars>>

TypeOK ==
    /\ PoolTypeOK
    /\ draining \in BOOLEAN
    /\ active \in Nat
    /\ phase \in {"running", "drain", "cleanup", "closing", "done"}
    /\ stage \in [Threads -> {"free", "admitted", "tracked"}]
    /\ forced \in BOOLEAN
    /\ slipped \in BOOLEAN

Init ==
    /\ PoolInit
    /\ draining = FALSE
    /\ active = 0
    /\ phase = "running"
    /\ stage = [t \in Threads |-> "free"]
    /\ forced = FALSE
    /\ slipped = FALSE

-----------------------------------------------------------------------------
ToStage(t, s) == stage' = [stage EXCEPT ![t] = s]

\* _RequestTrackerContext.__enter__ looks at the flag; a draining service refuses.
Admit(t) ==
    /\ stage[t] = "free"
    /\ ~draining
    /\ ToStage(t, "admitted")
    /\ UNCHANGED <<poolVars, draining, active, phase, forced, slipped>>

\* increment, a step later.
Track(t) ==
    /\ stage[t] = "admitted"
    /\ ToStage(t, "tracked")
    /\ active' = active + 1
    /\ slipped' = (slipped \/ phase \notin {"running", "drain"})
    /\ UNCHANGED <<poolVars, draining, phase, forced>>

\* The request uses the pool, any number of times.
UsePool(t) ==
    /\ stage[t] = "tracked"
    /\ Enter(t) \/ InAcquire(t)
    /\ UNCHANGED shutdownVars

\* (Mutation: the request is not counted any more once it has its connection.)
FinishEarly(t) ==
    /\ stage[t] = "tracked" /\ pc[t] \in {"out", "use"}
    /\ active' = IF active > 0 THEN active - 1 ELSE 0
    /\ UNCHANGED <<poolVars, draining, phase, stage, forced, slipped>>

\* decrement.
Finish(t) ==
    /\ stage[t] = "tracked" /\ pc[t] = "out"
    /\ ToStage(t, "free")
    /\ active' = IF active > 0 THEN active - 1 ELSE 0
    /\ UNCHANGED <<poolVars, draining, phase, forced, slipped>>

\* _initiate_shutdown, from a signal or at exit; once draining it returns.
Initiate ==
    /\ ~draining
    /\ draining' = TRUE
    /\ phase' = "drain"
    /\ UNCHANGED <<poolVars, active, stage, forced, slipped>>

\* (Mutation: the drain has no timeout.)
DrainedOnly ==
    /\ phase = "drain"
    /\ active = 0
    /\ phase' = "cleanup"
    /\ UNCHANGED <<poolVars, draining, active, stage, forced, slipped>>

\* wait_for_zero sees no tracked request, or its time is up.
Drained ==
    /\ phase = "drain"
    /\ phase' = "cleanup"
    /\ \/ active = 0 /\ UNCHANGED forced
       \/ active > 0 /\ forced' = TRUE
    /\ UNCHANGED <<poolVars, draining, active, stage, slipped>>

\* _cleanup_phase: the pool's close, which cannot fail; _flush_phase.
CleanupFlag ==
    /\ phase = "cleanup"
    /\ CloseFlag
    /\ phase' = "closing"
    /\ UNCHANGED <<draining, active, stage, forced, slipped>>

CleanupOne ==
    /\ phase = "closing"
    /\ CloseOne
    /\ UNCHANGED shutdownVars

CleanupEnd ==
    /\ phase = "closing"
    /\ idle = {}
    /\ phase' = "done"
    /\ UNCHANGED <<poolVars, draining, active, stage, forced, slipped>>

\* A connection breaks.
Outage == (\E c \in Conns : Break(c)) /\ UNCHANGED shutdownVars

ShutdownStep == Drained \/ CleanupFlag \/ CleanupOne \/ CleanupEnd

Next ==
    \/ \E t \in Threads : Admit(t) \/ Track(t) \/ UsePool(t) \/ Finish(t)
    \/ Initiate
    \/ ShutdownStep
    \/ Outage

Spec == Init /\ [][Next]_vars

\* The thread that shuts down goes on; requests may hang.
FairSpec == Spec /\ WF_vars(ShutdownStep)

-----------------------------------------------------------------------------
(* Properties.                                                             *)

\* A shutdown that was neither cut short by its timeout nor passed by a request that
\* had looked at the flag before leaves no connection behind: none open, none given up
\* unclosed, no matter when connections broke or were replaced.
StopLeavesNothing ==
    phase = "done" /\ ~forced /\ ~slipped =>
        /\ \A t \in Threads : pc[t] = "out"
        /\ \A c \in Conns : conn[c] \in {"new", "closed"}

\* A shutdown that has begun comes to its end, although requests may still hold and
\* put back connections while the pool is being emptied.
ShutdownEnds == phase = "drain" ~> phase = "done"
=============================================================================
