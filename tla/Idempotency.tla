----------------------------- MODULE Idempotency -----------------------------
(***************************************************************************)
(* api/idempotency.py: IdempotencyMiddleware around the write endpoints of *)
(* the API, on the store that all the processes of a deployment share      *)
(* (Redis).  Each call of the store is atomic; the requests interleave at  *)
(* every one of them.  With the in-memory store is_conflict and get follow *)
(* each other without an await, so its behaviours are among these.         *)
(*                                                                         *)
(* A key is what the Idempotency-Key header holds: neither the code nor    *)
(* the model qualifies it with the caller or the path.  Requests without   *)
(* one, and those of exempt methods and paths, pass by the middleware.     *)
(***************************************************************************)
EXTENDS Naturals

CONSTANTS
    Requests,     \* the requests that carry a key, retries included
    Keys, Bodies, \* their idempotency keys and (hashes of) bodies
    NoEntry,      \* what the store holds for an unknown or expired key
    Nobody,       \* whose response a request without one has
    MaxExpiries,  \* bound on the entries that expire
    MaxFailures   \* bound on the requests that fail

ASSUME IdempotencyAssumption ==
    /\ NoEntry \notin [body: Bodies, by: Requests]
    /\ Nobody \notin Requests
    /\ MaxExpiries \in Nat
    /\ MaxFailures \in Nat

VARIABLES
    req,       \* the key and the body of each request: fixed
    pc,        \* where dispatch is with it
    store,     \* the entry of each key: body_hash, and whose response it is
    answer,    \* whose response each request was answered with
    effects,   \* requests whose handler has changed the system
    covered,   \* observer: requests that arrived at a key held for a body, as it is still
    expiries, failures

vars == <<req, pc, store, answer, effects, covered, expiries, failures>>

Entries == [body: Bodies, by: Requests]

TypeOK ==
    /\ req \in [Requests -> [key: Keys, body: Bodies]]
    /\ pc \in [Requests -> {"new", "check", "lookup", "execute", "cache", "done"}]
    /\ store \in [Keys -> Entries \cup {NoEntry}]
    /\ answer \in [Requests -> Requests \cup {Nobody}]
    /\ effects \subseteq Requests
    /\ covered \subseteq Requests
    /\ expiries \in 0..MaxExpiries
    /\ failures \in 0..MaxFailures

Init ==
    /\ req \in [Requests -> [key: Keys, body: Bodies]]
    /\ pc = [r \in Requests |-> "new"]
    /\ store = [k \in Keys |-> NoEntry]
    /\ answer = [r \in Requests |-> Nobody]
    /\ effects = {}
    /\ covered = {}
    /\ expiries = 0
    /\ failures = 0

-----------------------------------------------------------------------------
Entry(r)      == store[req[r].key]
Goto(r, step) == pc' = [pc EXCEPT ![r] = step]

\* dispatch has read the body of a request that has a key.
Arrive(r) ==
    /\ pc[r] = "new"
    /\ Goto(r, "check")
    /\ covered' = IF Entry(r) # NoEntry THEN covered \cup {r} ELSE covered
    /\ UNCHANGED <<req, store, answer, effects, expiries, failures>>

\* is_conflict: 422 for a key that was used with another body.
Check(r) ==
    /\ pc[r] = "check"
    /\ Goto(r, IF Entry(r) # NoEntry /\ Entry(r).body # req[r].body
                 THEN "done" ELSE "lookup")
    /\ UNCHANGED <<req, store, answer, effects, covered, expiries, failures>>

\* (Mutation: get leaves the bodies to is_conflict.)
LookupAnyBody(r) ==
    /\ pc[r] = "lookup"
    /\ IF Entry(r) # NoEntry
         THEN Goto(r, "done") /\ answer' = [answer EXCEPT ![r] = Entry(r).by]
         ELSE Goto(r, "execute") /\ UNCHANGED answer
    /\ UNCHANGED <<req, store, effects, covered, expiries, failures>>

\* (Mutation: an answer is replayed once and forgotten.)
LookupOnce(r) ==
    /\ pc[r] = "lookup"
    /\ IF Entry(r) # NoEntry /\ Entry(r).body = req[r].body
         THEN /\ Goto(r, "done")
              /\ answer' = [answer EXCEPT ![r] = Entry(r).by]
              /\ store' = [store EXCEPT ![req[r].key] = NoEntry]
         ELSE Goto(r, "execute") /\ UNCHANGED <<answer, store>>
    /\ UNCHANGED <<req, effects, covered, expiries, failures>>

\* get: an entry of the same body is replayed, anything else is a miss.
Lookup(r) ==
    /\ pc[r] = "lookup"
    /\ IF Entry(r) # NoEntry /\ Entry(r).body = req[r].body
         THEN Goto(r, "done") /\ answer' = [answer EXCEPT ![r] = Entry(r).by]
         ELSE Goto(r, "execute") /\ UNCHANGED answer
    /\ UNCHANGED <<req, store, effects, covered, expiries, failures>>

\* call_next: the handler does what it is asked, or refuses (4xx): both are cached.
Execute(r) ==
    /\ pc[r] = "execute"
    /\ Goto(r, "cache")
    /\ effects' \in {effects, effects \cup {r}}
    /\ UNCHANGED <<req, store, answer, covered, expiries, failures>>

\* (Mutation: the entry does not say which body it answers.)
CacheUnhashed(r) ==
    /\ pc[r] = "cache"
    /\ Goto(r, "done")
    /\ store' = [store EXCEPT ![req[r].key] = [by |-> r]]
    /\ answer' = [answer EXCEPT ![r] = r]
    /\ UNCHANGED <<req, effects, covered, expiries, failures>>

\* set: the response takes the key over, whatever it held.
Cache(r) ==
    /\ pc[r] = "cache"
    /\ Goto(r, "done")
    /\ store' = [store EXCEPT ![req[r].key] = [body |-> req[r].body, by |-> r]]
    /\ answer' = [answer EXCEPT ![r] = r]
    /\ covered' = {p \in covered : req[p].key = req[r].key
                                     => Entry(r) # NoEntry /\ Entry(r).body = req[r].body}
    /\ UNCHANGED <<req, effects, expiries, failures>>

\* An exception of the store or the handler, or an answer of 500 or more, which
\* is not cached; the handler may have changed something before.
Fail(r) ==
    /\ pc[r] \in {"check", "lookup", "execute", "cache"}
    /\ failures < MaxFailures
    /\ failures' = failures + 1
    /\ Goto(r, "done")
    /\ \/ UNCHANGED effects
       \/ pc[r] = "execute" /\ effects' = effects \cup {r}
    /\ UNCHANGED <<req, store, answer, covered, expiries>>

\* The TTL of an entry is over (get, is_conflict and _sweep delete it when they
\* meet it, Redis by itself: nobody sees the difference).
Expire(k) ==
    /\ store[k] # NoEntry
    /\ expiries < MaxExpiries
    /\ expiries' = expiries + 1
    /\ store' = [store EXCEPT ![k] = NoEntry]
    /\ covered' = {p \in covered : req[p].key # k}
    /\ UNCHANGED <<req, pc, answer, effects, failures>>

Next ==
    \/ \E r \in Requests :
          \/ Arrive(r) \/ Check(r) \/ Lookup(r) \/ Execute(r) \/ Cache(r)
          \/ Fail(r)
    \/ \E k \in Keys : Expire(k)

Spec == Init /\ [][Next]_vars

-----------------------------------------------------------------------------
(* Properties.                                                             *)

\* A request is answered with a response to an equal request, replayed or its
\* own, even when the key is taken over by another body between the two looks
\* at the store.
AnswersAreOwn ==
    \A r \in Requests : answer[r] # Nobody => req[answer[r]] = req[r]

\* "Prevents duplicate mutations from network retries" (api/idempotency.py:5): a
\* request that arrives at a key somebody already holds never reaches its handler, and
\* so changes nothing, as long as the key is held for that body: it is replayed or
\* refused.  (A retry that arrives before the first answer is cached is executed too.)
HeldKeyIsNotExecuted ==
    \A r \in covered : pc[r] \notin {"execute", "cache"} /\ r \notin effects
=============================================================================
