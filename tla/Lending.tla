------------------------------- MODULE Lending -------------------------------
(***************************************************************************)
(* What a pool of resources that several users share promises, with its    *)
(* queue, its count, the pings and the waits left out:                     *)
(*                                                                         *)
(*   - a resource is made once, by the user that is given it;              *)
(*   - a user has one at a time, and one it has nobody else has;           *)
(*   - a resource that somebody has is ended by that user alone, and one   *)
(*     that lies ready only once the pool has been stopped;                *)
(*   - a resource that was ended never comes back, and none is given up    *)
(*     without being ended as long as the pool has not been stopped.       *)
(*                                                                         *)
(* It does not promise that everything is ended once the pool is stopped:  *)
(* a user may still put one back, or make one.                             *)
(***************************************************************************)

CONSTANTS Users, Resources

VARIABLES
    status,   \* of each resource: new, ready, lent, ended or lost
    holders,  \* the users that have it
    stopped

vars == <<status, holders, stopped>>

Init ==
    /\ status \in [Resources -> {"new", "ready"}]
    /\ holders = [r \in Resources |-> {}]
    /\ stopped = FALSE

Becomes(r, to, with) ==
    /\ status' = [status EXCEPT ![r] = to]
    /\ holders' = [holders EXCEPT ![r] = with]

HasNone(u) == \A r \in Resources : u \notin holders[r]
Has(u, r)  == status[r] = "lent" /\ holders[r] = {u}

\* One that lies ready, or one that is made for the user.
Take(u, r) ==
    /\ status[r] \in {"new", "ready"}
    /\ HasNone(u)
    /\ Becomes(r, "lent", {u})
    /\ UNCHANGED stopped

\* Put back, ended, or given up.
Leave(u, r) ==
    /\ Has(u, r)
    /\ \/ Becomes(r, "ready", {})
       \/ Becomes(r, "ended", {})
       \/ stopped /\ Becomes(r, "lost", {})
    /\ UNCHANGED stopped

\* Ended, and another one made for the same user.
Replace(u, r) ==
    /\ Has(u, r)
    /\ \E s \in Resources :
         /\ status[s] = "new"
         /\ status' = [status EXCEPT ![r] = "ended", ![s] = "lent"]
         /\ holders' = [holders EXCEPT ![r] = {}, ![s] = {u}]
    /\ UNCHANGED stopped

Stop ==
    /\ stopped' = TRUE
    /\ UNCHANGED <<status, holders>>

Retire(r) ==
    /\ stopped
    /\ status[r] = "ready"
    /\ Becomes(r, "ended", {})
    /\ UNCHANGED stopped

Next ==
    \/ Stop
    \/ \E r \in Resources :
         \/ Retire(r)
         \/ \E u \in Users : Take(u, r) \/ Leave(u, r) \/ Replace(u, r)

Spec == Init /\ [][Next]_vars
=============================================================================
