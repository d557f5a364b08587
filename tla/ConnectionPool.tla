---------------------------- MODULE ConnectionPool ----------------------------
(***************************************************************************)
(* infrastructure/db_pool.py EnterpriseConnectionPool: acquire, the release *)
(* in its finally, and close, taken by several threads.  The idle queue is *)
(* thread-safe; the count of connections and the closed flag are read      *)
(* outside the lock, steps before they are used.  The order of the idle    *)
(* queue, the metrics and the queries are left out.                        *)
(***************************************************************************)
EXTENDS Integers, FiniteSets

CONSTANTS
    Threads,    \* threads that use the pool
    MinSize,    \* min_size
    MaxAllowed, \* max_size + overflow
    MaxConns    \* bound: connections opened in a run

ASSUME PoolAssumption ==
    /\ IsFiniteSet(Threads)
    /\ MinSize \in Nat
    /\ MaxAllowed \in Nat
    /\ MaxConns \in Nat
    /\ MinSize <= MaxConns

\* Connections are numbered in the order they are opened; 0 is none.
Conns  == 1..MaxConns
NoConn == 0

VARIABLES
    conn,       \* of each connection: new (not opened), open, broken, closed, dropped
    idle,       \* connections in the idle queue
    total,      \* _total_created
    isClosed,   \* _closed
    pc,         \* the step of acquire each thread is in
    held        \* its mc

poolVars == <<conn, idle, total, isClosed, pc, held>>

PoolTypeOK ==
    /\ conn \in [Conns -> {"new", "open", "broken", "closed", "dropped"}]
    /\ idle \subseteq Conns
    /\ total \in Nat
    /\ isClosed \in BOOLEAN
    /\ pc \in [Threads -> {"out", "get", "check", "count", "wait", "create",
                           "use", "put"}]
    /\ held \in [Threads -> Conns \cup {NoConn}]

\* _initialize_pool opens min_size connections, or fewer when one fails.
PoolInit ==
    /\ total \in 0..MinSize
    /\ idle = 1..total
    /\ conn = [c \in Conns |-> IF c \in idle THEN "open" ELSE "new"]
    /\ isClosed = FALSE
    /\ pc = [t \in Threads |-> "out"]
    /\ held = [t \in Threads |-> NoConn]

-----------------------------------------------------------------------------
Goto(t, step) == pc' = [pc EXCEPT ![t] = step]
Hold(t, c)    == held' = [held EXCEPT ![t] = c]
Mark(c, s)    == conn' = [conn EXCEPT ![c] = s]

\* acquire of a pool that is not closed; a closed one raises.
Enter(t) ==
    /\ pc[t] = "out"
    /\ ~isClosed
    /\ Goto(t, "get")
    /\ UNCHANGED <<conn, idle, total, isClosed, held>>

\* (Mutation: the connection handed out stays in the queue.)
GetKeeps(t) ==
    /\ pc[t] = "get"
    /\ \/ \E c \in idle : Hold(t, c) /\ Goto(t, "check") /\ UNCHANGED idle
       \/ idle = {} /\ Goto(t, "count") /\ UNCHANGED <<idle, held>>
    /\ UNCHANGED <<conn, total, isClosed>>

\* get_nowait.
Get(t) ==
    /\ pc[t] = "get"
    /\ \/ \E c \in idle : Hold(t, c) /\ Goto(t, "check") /\ idle' = idle \ {c}
       \/ idle = {} /\ Goto(t, "count") /\ UNCHANGED <<idle, held>>
    /\ UNCHANGED <<conn, total, isClosed>>

\* _create_connection.  The thread that calls it takes the connection.
Open(t) ==
    /\ total < MaxConns
    /\ total' = total + 1
    /\ Hold(t, total')
    /\ Goto(t, "use")

\* (Mutation: the connection that is replaced is not closed.)
CheckLeaks(t) ==
    /\ pc[t] = "check"
    /\ \/ /\ conn[held[t]] = "open"
          /\ Goto(t, "use")
          /\ UNCHANGED <<conn, total, held>>
       \/ /\ conn[held[t]] = "broken"
          /\ Mark(held[t], "closed") /\ Hold(t, NoConn) /\ Goto(t, "count")
          /\ UNCHANGED total
       \/ /\ conn[held[t]] = "open"
          /\ Open(t) /\ conn' = [conn EXCEPT ![total + 1] = "open"]
       \/ /\ conn[held[t]] = "open"
          /\ Mark(held[t], "closed") /\ Hold(t, NoConn) /\ Goto(t, "out")
          /\ UNCHANGED total
    /\ UNCHANGED <<idle, isClosed>>

\* pre_ping and _recycle_if_needed: a connection that does not answer is closed and
\* another one looked for; one past max_lifetime is replaced, or when that fails the
\* exception leaves acquire.
Check(t) ==
    /\ pc[t] = "check"
    /\ \/ /\ conn[held[t]] = "open"
          /\ Goto(t, "use")
          /\ UNCHANGED <<conn, total, held>>
       \/ /\ conn[held[t]] = "broken"
          /\ Mark(held[t], "closed") /\ Hold(t, NoConn) /\ Goto(t, "count")
          /\ UNCHANGED total
       \/ /\ conn[held[t]] = "open"
          /\ Open(t) /\ conn' = [conn EXCEPT ![held[t]] = "closed", ![total + 1] = "open"]
       \/ /\ conn[held[t]] = "open"
          /\ Mark(held[t], "closed") /\ Hold(t, NoConn) /\ Goto(t, "out")
          /\ UNCHANGED total
    /\ UNCHANGED <<idle, isClosed>>

\* The count is read under the lock and compared after it.
Count(t) ==
    /\ pc[t] = "count"
    /\ Goto(t, IF total >= MaxAllowed THEN "wait" ELSE "create")
    /\ UNCHANGED <<conn, idle, total, isClosed, held>>

\* get with a timeout: the connection is handed out as it is, or TimeoutError.
Wait(t) ==
    /\ pc[t] = "wait"
    /\ \/ \E c \in idle : Hold(t, c) /\ Goto(t, "use") /\ idle' = idle \ {c}
       \/ idle = {} /\ Goto(t, "out") /\ UNCHANGED <<idle, held>>
    /\ UNCHANGED <<conn, total, isClosed>>

Create(t) ==
    /\ pc[t] = "create"
    /\ \/ Open(t) /\ Mark(total + 1, "open")
       \/ Goto(t, "out") /\ UNCHANGED <<conn, total, held>>
    /\ UNCHANGED <<idle, isClosed>>

\* The body is over: the closed flag is read.  A connection of a pool that has been
\* closed meanwhile is neither put back nor closed.
Release(t) ==
    /\ pc[t] = "use"
    /\ \/ ~isClosed /\ Goto(t, "put") /\ UNCHANGED <<conn, held>>
       \/ /\ isClosed
          /\ Mark(held[t], "dropped") /\ Hold(t, NoConn) /\ Goto(t, "out")
    /\ UNCHANGED <<idle, total, isClosed>>

\* (Mutation: a connection whose rollback failed is put back after it was closed.)
PutEvenClosed(t) ==
    /\ pc[t] = "put"
    /\ \/ UNCHANGED conn
       \/ conn[held[t]] = "broken" /\ Mark(held[t], "closed")
    /\ idle' = idle \cup {held[t]}
    /\ Hold(t, NoConn)
    /\ Goto(t, "out")
    /\ UNCHANGED <<total, isClosed>>

\* The rollback fails on a broken connection at most.
Put(t) ==
    /\ pc[t] = "put"
    /\ \/ idle' = idle \cup {held[t]} /\ UNCHANGED conn
       \/ conn[held[t]] = "broken" /\ Mark(held[t], "closed") /\ UNCHANGED idle
    /\ Hold(t, NoConn)
    /\ Goto(t, "out")
    /\ UNCHANGED <<total, isClosed>>

\* The other end goes away.
Break(c) ==
    /\ conn[c] = "open"
    /\ Mark(c, "broken")
    /\ UNCHANGED <<idle, total, isClosed, pc, held>>

\* close raises the flag, then empties the queue.
CloseFlag ==
    /\ isClosed' = TRUE
    /\ UNCHANGED <<conn, idle, total, pc, held>>

CloseOne ==
    /\ \E c \in idle : idle' = idle \ {c} /\ Mark(c, "closed")
    /\ UNCHANGED <<total, isClosed, pc, held>>

InAcquire(t) ==
    \/ Get(t)
    \/ Check(t)
    \/ Count(t)
    \/ Wait(t)
    \/ Create(t)
    \/ Release(t)
    \/ Put(t)

-----------------------------------------------------------------------------
(* Properties.                                                             *)

\* A connection is used by one thread at a time and by none while it is in the queue,
\* and nobody closes or drops one that is in use or in the queue.
ExclusiveUse ==
    /\ \A s, t \in Threads : held[s] # NoConn /\ held[s] = held[t] => s = t
    /\ \A t \in Threads : held[t] \notin idle
    /\ \A c \in Conns :
         c \in idle \/ (\E t \in Threads : held[t] = c) => conn[c] \in {"open", "broken"}

Live == {c \in Conns : conn[c] \in {"open", "broken"}}

\* Although the count is compared outside the lock and grows with every replacement,
\* the pool never has more connections than threads (or its minimum).
PoolIsBounded ==
    Cardinality(Live) <=
        IF MinSize > Cardinality(Threads) THEN MinSize ELSE Cardinality(Threads)

\* What a connection is to those that share the pool: a broken one is still lent or in
\* the queue, and its user does not know.
StatusOf(c) ==
    IF conn[c] = "new" THEN "new"
    ELSE IF conn[c] = "closed" THEN "ended"
    ELSE IF conn[c] = "dropped" THEN "lost"
    ELSE IF c \in idle THEN "ready" ELSE "lent"

Status == [c \in Conns |-> StatusOf(c)]

HoldersOf(c) == {t \in Threads : held[t] = c}

Holders == [c \in Conns |-> HoldersOf(c)]

Pool == INSTANCE Lending
          WITH Users <- Threads, Resources <- Conns,
               status <- Status, holders <- Holders, stopped <- isClosed

\* The pool implements Lending: through pings, replacements, timeouts and a close in the
\* middle of it all, no connection is closed under its user, used after it was closed,
\* opened twice or given up while the pool is open.
ImplementsLending == Pool!Spec
=============================================================================
