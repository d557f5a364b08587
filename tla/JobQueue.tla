------------------------------ MODULE JobQueue ------------------------------
(***************************************************************************)
(* What a queue of jobs that several workers serve promises to whoever     *)
(* hands one in, with the heap, the clock, the tokens and the two retry    *)
(* loops left out:                                                         *)
(*                                                                         *)
(*   - a job waits, or one worker has it, or it is settled for good;       *)
(*   - only the worker that has a job tries it, and has no other meanwhile; *)
(*   - a job is tried MaxTries times at most, and is given up only when     *)
(*     all of these tries have been made;                                  *)
(*   - a worker may hand a job back untried, but not one that is used up.  *)
(*                                                                         *)
(* It does not promise that a job is tried once only, nor an order.        *)
(***************************************************************************)
EXTENDS Naturals

CONSTANTS Jobs, Takers, MaxTries

VARIABLES
    state,    \* of each job
    holders,  \* the workers that have it
    tries     \* how often it has been tried

vars == <<state, holders, tries>>

Init ==
    /\ state = [j \in Jobs |-> "new"]
    /\ holders = [j \in Jobs |-> {}]
    /\ tries = [j \in Jobs |-> 0]

Becomes(j, to, with) ==
    /\ state' = [state EXCEPT ![j] = to]
    /\ holders' = [holders EXCEPT ![j] = with]

Submit(j) ==
    /\ state[j] = "new"
    /\ Becomes(j, "waiting", {})
    /\ UNCHANGED tries

Claim(o, j) ==
    /\ state[j] = "waiting"
    /\ \A k \in Jobs : o \notin holders[k]
    /\ Becomes(j, "taken", {o})
    /\ UNCHANGED tries

Has(o, j) == state[j] = "taken" /\ holders[j] = {o}

Try(o, j) ==
    /\ Has(o, j)
    /\ tries[j] < MaxTries
    /\ tries' = [tries EXCEPT ![j] = @ + 1]
    /\ \/ UNCHANGED <<state, holders>>
       \/ Becomes(j, "done", {})
       \/ tries'[j] = MaxTries /\ Becomes(j, "dead", {})

Release(o, j) ==
    /\ Has(o, j)
    /\ tries[j] < MaxTries
    /\ Becomes(j, "waiting", {})
    /\ UNCHANGED tries

Next ==
    \/ \E j \in Jobs : Submit(j)
    \/ \E o \in Takers, j \in Jobs : Claim(o, j) \/ Try(o, j) \/ Release(o, j)

Spec == Init /\ [][Next]_vars
=============================================================================
