-------------------------- MODULE NotificationQueue --------------------------
(***************************************************************************)
(* notifications/scheduler.py NotificationScheduler and its RateLimiter: a *)
(* heap of messages that workers take, post to the WhatsApp API and put    *)
(* back for another try.  EmailScheduler repeats the same code.            *)
(*                                                                         *)
(* Time goes by in ticks.  A tick brings Rate tokens; wait[m] is how many  *)
(* ticks are left until the run_at of a message.  Who calls process_once   *)
(* is not in the repository: a worker is any thread that does so again and *)
(* again, as `run' does.                                                   *)
(***************************************************************************)
EXTENDS Integers

CONSTANTS
    Workers,       \* threads that call process_once
    Messages,      \* messages that may be enqueued
    NoMsg,         \* what a worker without a message holds
    Rank,          \* place of each message in the heap: (priority, created_at)
    Delays,        \* ticks until run_at that enqueue may be called with
    MaxRetries,    \* max_retries
    Backoff,       \* retry_backoff_seconds, in ticks
    MaxAttempts,   \* posts of one send_message
    Burst, Rate    \* of the RateLimiter

\* Two messages of one rank would make heapq compare the messages themselves,
\* which have no order.
ASSUME QueueAssumption ==
    /\ NoMsg \notin Messages
    /\ Rank \in [Messages -> Nat]
    /\ \A m, n \in Messages : Rank[m] = Rank[n] => m = n
    /\ Delays \subseteq Nat
    /\ MaxRetries \in Nat
    /\ \A n \in 0..MaxRetries : Backoff * 2^n \in Nat
    /\ MaxAttempts \in Nat \ {0}
    /\ Burst \in Nat \ {0}
    /\ Rate \in Nat \ {0}

VARIABLES
    queue,      \* the messages in the heap
    status,     \* of each message; "new" before it is enqueued
    retries,    \* of each message
    wait,       \* ticks until run_at
    tokens,     \* whole tokens in the bucket
    pc,         \* the step of process_once each worker is in
    hand,       \* the message it has taken
    attempt,    \* posts made by its send_message
    posts,      \* observer: posts of each message so far
    granted,    \* observer: tokens given out so far
    ticks       \* observer: time since the start

worker == <<pc, hand, attempt>>
vars   == <<queue, status, retries, wait, tokens, worker, posts, granted, ticks>>

TypeOK ==
    /\ queue \subseteq Messages
    /\ status \in [Messages -> {"new", "queued", "sent", "failed"}]
    /\ retries \in [Messages -> 0..MaxRetries + 1]
    /\ wait \in [Messages -> Nat]
    /\ tokens \in 0..Burst
    /\ pc \in [Workers -> {"idle", "poll", "acquire", "send", "again", "later"}]
    /\ hand \in [Workers -> Messages \cup {NoMsg}]
    /\ attempt \in [Workers -> 0..MaxAttempts - 1]
    /\ posts \in [Messages -> Nat]
    /\ granted \in Nat
    /\ ticks \in Nat

Init ==
    /\ queue = {}
    /\ status = [m \in Messages |-> "new"]
    /\ retries = [m \in Messages |-> 0]
    /\ wait = [m \in Messages |-> 0]
    /\ tokens = Burst
    /\ pc = [w \in Workers |-> "idle"]
    /\ hand = [w \in Workers |-> NoMsg]
    /\ attempt = [w \in Workers |-> 0]
    /\ posts = [m \in Messages |-> 0]
    /\ granted = 0
    /\ ticks = 0

-----------------------------------------------------------------------------
Goto(w, step) == pc' = [pc EXCEPT ![w] = step]
Take(w, m)    == hand' = [hand EXCEPT ![w] = m]

Enqueue(m, delay) ==
    /\ status[m] = "new"
    /\ status' = [status EXCEPT ![m] = "queued"]
    /\ wait' = [wait EXCEPT ![m] = delay]
    /\ queue' = queue \cup {m}
    /\ UNCHANGED <<retries, tokens, worker, posts, granted, ticks>>

Call(w) ==
    /\ pc[w] = "idle"
    /\ Goto(w, "poll")
    /\ UNCHANGED <<queue, status, retries, wait, tokens, hand, attempt, posts,
                   granted, ticks>>

\* The message heappop returns.
IsHead(m) == m \in queue /\ \A n \in queue : Rank[m] <= Rank[n]

\* (Mutation: the head is read but not removed.)
PopDueKeeps(w) ==
    /\ pc[w] = "poll"
    /\ \E m \in queue : /\ IsHead(m) /\ wait[m] = 0
                        /\ Take(w, m)
    /\ Goto(w, "acquire")
    /\ UNCHANGED <<queue, status, retries, wait, tokens, attempt, posts, granted,
                   ticks>>

PopDue(w) ==
    /\ pc[w] = "poll"
    /\ \E m \in queue : /\ IsHead(m) /\ wait[m] = 0
                        /\ Take(w, m)
                        /\ queue' = queue \ {m}
    /\ Goto(w, "acquire")
    /\ UNCHANGED <<status, retries, wait, tokens, attempt, posts, granted, ticks>>

\* The heap is empty, or its head goes back because it is not due.
PopNothing(w) ==
    /\ pc[w] = "poll"
    /\ \A m \in queue : IsHead(m) => wait[m] > 0
    /\ Goto(w, "idle")
    /\ UNCHANGED <<queue, status, retries, wait, tokens, hand, attempt, posts,
                   granted, ticks>>

\* (Mutation: a token is granted but not taken, as the blocking path has it.)
AcquireKeepsToken(w) ==
    /\ pc[w] = "acquire"
    /\ tokens > 0
    /\ granted' = granted + 1
    /\ Goto(w, "send")
    /\ UNCHANGED <<queue, status, retries, wait, tokens, hand, attempt, posts, ticks>>

Acquire(w) ==
    /\ pc[w] = "acquire"
    /\ tokens > 0
    /\ tokens' = tokens - 1
    /\ granted' = granted + 1
    /\ Goto(w, "send")
    /\ UNCHANGED <<queue, status, retries, wait, hand, attempt, posts, ticks>>

\* (Mutation: the call ends without putting the message back.)
NoTokenDrops(w) ==
    /\ pc[w] = "acquire"
    /\ tokens = 0
    /\ Goto(w, "idle")
    /\ Take(w, NoMsg)
    /\ UNCHANGED <<queue, status, retries, wait, tokens, attempt, posts, granted, ticks>>

NoToken(w) ==
    /\ pc[w] = "acquire"
    /\ tokens = 0
    /\ wait' = [wait EXCEPT ![hand[w]] = 0]
    /\ Goto(w, "later")
    /\ UNCHANGED <<queue, status, retries, tokens, hand, attempt, posts, granted, ticks>>

\* (Mutation: < MaxRetries became <= MaxRetries + 1.)
RetriesLeftOneMore(m) == retries[m] <= MaxRetries

RetriesLeft(m) == retries[m] < MaxRetries

\* One post of send_message.  The API confirms it, or does not (an error, a
\* timeout; it may have been delivered all the same) and send_message posts again
\* until it has made MaxAttempts of them.
Post(w) ==
    LET m == hand[w] IN
    /\ pc[w] = "send"
    /\ posts' = [posts EXCEPT ![m] = @ + 1]
    /\ \/ /\ status' = [status EXCEPT ![m] = "sent"]
          /\ attempt' = [attempt EXCEPT ![w] = 0]
          /\ Goto(w, "poll") /\ Take(w, NoMsg)
          /\ UNCHANGED retries
       \/ /\ attempt[w] + 1 < MaxAttempts
          /\ attempt' = [attempt EXCEPT ![w] = @ + 1]
          /\ UNCHANGED <<status, retries, pc, hand>>
       \/ /\ attempt[w] + 1 = MaxAttempts
          /\ attempt' = [attempt EXCEPT ![w] = 0]
          /\ retries' = [retries EXCEPT ![m] = @ + 1]
          /\ \/ RetriesLeft(m) /\ Goto(w, "again") /\ UNCHANGED <<status, hand>>
             \/ /\ ~RetriesLeft(m)
                /\ status' = [status EXCEPT ![m] = "failed"]
                /\ Goto(w, "poll") /\ Take(w, NoMsg)
    /\ UNCHANGED <<queue, wait, tokens, granted, ticks>>

\* _retry_later, or the end of a call that got no token.
PutBack(w) ==
    LET m == hand[w] IN
    /\ queue' = queue \cup {m}
    /\ \/ /\ pc[w] = "again" /\ Goto(w, "poll")
          /\ wait' = [wait EXCEPT ![m] = Backoff * 2^retries[m]]
       \/ /\ pc[w] = "later" /\ Goto(w, "idle")
          /\ UNCHANGED wait
    /\ Take(w, NoMsg)
    /\ UNCHANGED <<status, retries, tokens, attempt, posts, granted, ticks>>

Refill == IF tokens + Rate <= Burst THEN tokens + Rate ELSE Burst

\* Time goes by.  Nothing depends on it when the bucket is full and all is due.
Tick ==
    /\ tokens < Burst \/ \E m \in Messages : wait[m] > 0
    /\ ticks' = ticks + 1
    /\ tokens' = Refill
    /\ wait' = [m \in Messages |-> IF wait[m] > 0 THEN wait[m] - 1 ELSE 0]
    /\ UNCHANGED <<queue, status, retries, worker, posts, granted>>

Step(w) ==
    \/ Call(w)
    \/ PopDue(w)
    \/ PopNothing(w)
    \/ Acquire(w)
    \/ NoToken(w)
    \/ Post(w)
    \/ PutBack(w)

Next ==
    \/ \E m \in Messages, delay \in Delays : Enqueue(m, delay)
    \/ \E w \in Workers : Step(w)
    \/ Tick

Spec == Init /\ [][Next]_vars

\* Workers call process_once again and again and time goes by.
FairSpec == Spec /\ WF_vars(Tick) /\ \A w \in Workers : WF_vars(Step(w))

-----------------------------------------------------------------------------
(* Properties.                                                             *)

\* A message that is neither sent nor given up is in the heap or with exactly one
\* worker, and no other message is: however workers interleave, none is lost when
\* tokens run out or a send fails, and none is posted by two workers at once.
OnePlace ==
    \A m \in Messages :
        /\ status[m] = "queued" <=> (m \in queue \/ \E w \in Workers : hand[w] = m)
        /\ m \in queue => \A w \in Workers : hand[w] # m
        /\ \A v, w \in Workers : hand[v] = m /\ hand[w] = m => v = w

\* The two retry loops together post a message a bounded number of times, and one
\* is given up only when all of these posts have been made.
PostsBounded ==
    \A m \in Messages :
        /\ posts[m] <= MaxAttempts * (MaxRetries + 1)
        /\ status[m] = "failed" => posts[m] = MaxAttempts * (MaxRetries + 1)

\* The bucket holds over any time, not only for a moment: the tokens given out
\* never exceed a burst and what the time that has passed allows, and no quiet time
\* saves more than a burst for later.
RateRespected ==
    /\ tokens <= Burst
    /\ granted + tokens <= Burst + Rate * ticks

StateOf(m) ==
    IF m \in queue THEN "waiting"
    ELSE [new |-> "new", queued |-> "taken", sent |-> "done", failed |-> "dead"][status[m]]

JobState == [m \in Messages |-> StateOf(m)]

HoldersOf(m) == {w \in Workers : hand[w] = m}

Holders == [m \in Messages |-> HoldersOf(m)]

Jobs == INSTANCE JobQueue
          WITH Jobs <- Messages, Takers <- Workers,
               MaxTries <- MaxAttempts * (MaxRetries + 1),
               state <- JobState, holders <- Holders, tries <- posts

\* Heap, bucket, clock and the two retry loops together keep the promise of a job queue:
\* a message is posted by the one worker that has popped it, is settled once and for
\* good, goes back only while posts are left, and is given up only when none are.
ImplementsJobs == Jobs!Spec

\* A queued message is sent or given up in the end, although retries of other
\* messages, missing tokens and messages not yet due stand before it.
Settles ==
    \A m \in Messages : status[m] = "queued" ~> status[m] \in {"sent", "failed"}
=============================================================================
