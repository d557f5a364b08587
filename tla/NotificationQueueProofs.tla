----------------------- MODULE NotificationQueueProofs -----------------------
(***************************************************************************)
(* Proofs about NotificationQueue, for any workers, messages, ranks,       *)
(* delays, numbers of retries and posts, and any bucket.                   *)
(*                                                                         *)
(* That no post is made twice needs to know where a message is (OnePlace); *)
(* how many posts it has had depends on who holds it and where that worker *)
(* is in the loop of send_message (Counts).                                *)
(***************************************************************************)
EXTENDS NotificationQueue, TLAPS

HandFacts ==
    \A w \in Workers :
        /\ hand[w] = NoMsg <=> pc[w] \in {"idle", "poll"}
        /\ pc[w] # "send" => attempt[w] = 0

\* The posts of r sends that ran out of attempts.
Total(r) == MaxAttempts * r

Counts ==
    \A m \in Messages :
        /\ status[m] = "new" => posts[m] = 0 /\ retries[m] = 0
        /\ m \in queue => posts[m] = Total(retries[m]) /\ retries[m] <= MaxRetries
        /\ \A w \in Workers : hand[w] = m =>
             posts[m] = Total(retries[m]) + attempt[w] /\ retries[m] <= MaxRetries
        /\ status[m] \in {"sent", "failed"} => posts[m] <= Total(MaxRetries + 1)
        /\ status[m] = "failed" => posts[m] = Total(MaxRetries + 1)

IInv == TypeOK /\ OnePlace /\ HandFacts /\ Counts

-----------------------------------------------------------------------------
\* What the proofs need of the products with MaxAttempts.
LEMMA Products ==
    /\ Total(0) = 0
    /\ \A r \in Nat : Total(r) \in Nat /\ Total(r + 1) = Total(r) + MaxAttempts
    /\ \A r \in 0..MaxRetries : Total(r + 1) <= Total(MaxRetries + 1)
<1>1. \A k \in Nat \ {0} :
        /\ k * 0 = 0
        /\ \A r \in Nat : k * r \in Nat /\ k * (r + 1) = k * r + k
  OBVIOUS
<1>2. ASSUME NEW k \in Nat \ {0}, NEW r \in Nat, NEW s \in Nat, r <= s
      PROVE  k * r <= k * s
  BY <1>2
<1>3. MaxRetries + 1 \in Nat /\ \A r \in 0..MaxRetries : r + 1 \in Nat /\ r + 1 <= MaxRetries + 1
  BY QueueAssumption
<1>4. QED
  BY <1>1, <1>2, <1>3, QueueAssumption DEF Total

LEMMA InitIInv == Init => IInv
  BY QueueAssumption, Products
     DEF Init, IInv, TypeOK, OnePlace, HandFacts, Counts

LEMMA EnqueueIInv ==
    ASSUME IInv, NEW m \in Messages, NEW delay \in Delays, Enqueue(m, delay)
    PROVE  IInv'
<1>1. TypeOK'
  BY QueueAssumption DEF IInv, TypeOK, Enqueue, worker
<1>2. OnePlace' /\ HandFacts'
  BY DEF IInv, TypeOK, OnePlace, HandFacts, Enqueue, worker
<1>3. Counts'
  BY QueueAssumption, Products DEF IInv, TypeOK, Counts, Enqueue, worker
<1>4. QED
  BY <1>1, <1>2, <1>3 DEF IInv

\* A worker begins a call or ends one empty-handed.
LEMMA PollIInv ==
    ASSUME IInv, NEW w \in Workers, Call(w) \/ PopNothing(w)
    PROVE  IInv'
<1>1. TypeOK' /\ OnePlace' /\ HandFacts'
  BY DEF IInv, TypeOK, OnePlace, HandFacts, Call, PopNothing, Goto
<1>2. Counts'
  BY DEF IInv, Counts, Call, PopNothing
<1>3. QED
  BY <1>1, <1>2 DEF IInv

LEMMA PopDueIInv ==
    ASSUME IInv, NEW w \in Workers, PopDue(w)
    PROVE  IInv'
<1>1. PICK m \in queue : hand' = [hand EXCEPT ![w] = m] /\ queue' = queue \ {m}
  BY DEF PopDue, Take
<1>2. m \in Messages /\ hand[w] = NoMsg /\ attempt[w] = 0
  BY DEF IInv, TypeOK, HandFacts, PopDue
<1>3. TypeOK' /\ HandFacts'
  BY <1>1, <1>2, QueueAssumption DEF IInv, TypeOK, HandFacts, PopDue, Goto
<1>4. OnePlace'
  BY <1>1, <1>2, QueueAssumption DEF IInv, TypeOK, OnePlace, PopDue
<1>5. Counts'
  BY <1>1, <1>2, Products DEF IInv, TypeOK, Counts, PopDue
<1>6. QED
  BY <1>3, <1>4, <1>5 DEF IInv

LEMMA AcquireIInv ==
    ASSUME IInv, NEW w \in Workers, Acquire(w) \/ NoToken(w)
    PROVE  IInv'
<1>1. TypeOK'
  BY QueueAssumption DEF IInv, TypeOK, Acquire, NoToken, Goto
<1>2. OnePlace' /\ HandFacts'
  BY DEF IInv, TypeOK, OnePlace, HandFacts, Acquire, NoToken, Goto
<1>3. Counts'
  BY DEF IInv, Counts, Acquire, NoToken
<1>4. QED
  BY <1>1, <1>2, <1>3 DEF IInv

-----------------------------------------------------------------------------
\* The worker that posts is the only one that holds the message, so what its post
\* does to posts and retries contradicts nothing anybody else relies on.
LEMMA PostIInv ==
    ASSUME IInv, NEW w \in Workers, Post(w)
    PROVE  IInv'
<1>0. PICK m \in Messages : m = hand[w]
  BY DEF IInv, TypeOK, HandFacts, Post
<1>1. /\ hand[w] = m /\ m # NoMsg /\ status[m] = "queued" /\ m \notin queue
      /\ \A v \in Workers \ {w} : hand[v] # m
      /\ posts[m] = Total(retries[m]) + attempt[w]
      /\ retries[m] \in 0..MaxRetries /\ attempt[w] \in 0..MaxAttempts - 1
      /\ pc[w] = "send"
  BY <1>0, QueueAssumption DEF IInv, TypeOK, OnePlace, HandFacts, Counts, Post
<1>2. /\ UNCHANGED <<queue, wait, tokens, granted, ticks>>
      /\ posts' = [posts EXCEPT ![m] = @ + 1]
  BY <1>0 DEF Post
<1>3. \A g \in Messages \ {m} :
        UNCHANGED <<status[g], retries[g], posts[g]>>
  BY <1>1, <1>2 DEF IInv, TypeOK, Post
<1>4. \A v \in Workers \ {w} : UNCHANGED <<pc[v], hand[v], attempt[v]>>
  BY DEF IInv, TypeOK, Post, Goto, Take
<1>5. \/ /\ status'[m] = "sent" /\ retries'[m] = retries[m]
         /\ pc'[w] = "poll" /\ hand'[w] = NoMsg /\ attempt'[w] = 0
      \/ /\ status'[m] = "queued" /\ retries'[m] = retries[m]
         /\ pc'[w] = "send" /\ hand'[w] = m /\ attempt'[w] = attempt[w] + 1
         /\ attempt[w] + 1 < MaxAttempts
      \/ /\ status'[m] = "queued" /\ retries'[m] = retries[m] + 1
         /\ pc'[w] = "again" /\ hand'[w] = m /\ attempt'[w] = 0
         /\ attempt[w] + 1 = MaxAttempts /\ retries[m] < MaxRetries
      \/ /\ status'[m] = "failed" /\ retries'[m] = retries[m] + 1
         /\ pc'[w] = "poll" /\ hand'[w] = NoMsg /\ attempt'[w] = 0
         /\ attempt[w] + 1 = MaxAttempts /\ ~(retries[m] < MaxRetries)
  BY <1>1 DEF IInv, TypeOK, Post, Goto, Take, RetriesLeft
<1>6. TypeOK'
  <2>1. /\ status' \in [Messages -> {"new", "queued", "sent", "failed"}]
        /\ retries' \in [Messages -> 0..MaxRetries + 1]
        /\ posts' \in [Messages -> Nat]
    BY <1>1, <1>2, QueueAssumption DEF IInv, TypeOK, Post
  <2>2. /\ pc' \in [Workers -> {"idle", "poll", "acquire", "send", "again", "later"}]
        /\ hand' \in [Workers -> Messages \cup {NoMsg}]
        /\ attempt' \in [Workers -> 0..MaxAttempts - 1]
    BY <1>1, QueueAssumption DEF IInv, TypeOK, Post, Goto, Take
  <2>3. QED
    BY <1>2, <2>1, <2>2 DEF IInv, TypeOK
<1>7. HandFacts'
  <2>1. ASSUME NEW v \in Workers \ {w}
        PROVE  HandFacts!(v)'
    BY <1>4, <2>1 DEF IInv, HandFacts
  <2>2. HandFacts!(w)'
    BY <1>1, <1>5
  <2>3. QED
    BY <2>1, <2>2 DEF HandFacts
<1>8. OnePlace'
  <2>1. ASSUME NEW g \in Messages \ {m}
        PROVE  OnePlace!(g)'
    <3>1. \A v \in Workers : hand'[v] = g <=> hand[v] = g
      BY <1>1, <1>4, <1>5, <2>1, QueueAssumption
    <3>2. QED
      BY <1>2, <1>3, <2>1, <3>1 DEF IInv, OnePlace
  <2>2. OnePlace!(m)'
    BY <1>1, <1>2, <1>4, <1>5
  <2>3. QED
    BY <1>1, <2>1, <2>2 DEF OnePlace
<1>9. Counts'
  <2>1. ASSUME NEW g \in Messages \ {m}
        PROVE  Counts!(g)'
    <3>1. \A v \in Workers : hand'[v] = g => hand[v] = g /\ attempt'[v] = attempt[v]
      BY <1>1, <1>4, <1>5, <2>1, QueueAssumption
    <3>2. QED
      BY <1>2, <1>3, <2>1, <3>1 DEF IInv, Counts
  <2>2. Counts!(m)'
    <3>1. posts'[m] = Total(retries[m]) + attempt[w] + 1
      BY <1>1, <1>2 DEF IInv, TypeOK
    <3>2. /\ Total(retries[m] + 1) = Total(retries[m]) + MaxAttempts
          /\ Total(retries[m] + 1) <= Total(MaxRetries + 1)
          /\ Total(retries[m]) \in Nat
      BY <1>1, Products, QueueAssumption
    <3>3. CASE status'[m] = "sent"
      <4>1. posts'[m] <= Total(MaxRetries + 1)
        BY <1>1, <3>1, <3>2, QueueAssumption, Products
      <4>2. \A v \in Workers : hand'[v] # m
        BY <1>1, <1>4, <1>5, <3>3
      <4>3. QED
        BY <1>1, <1>2, <3>3, <4>1, <4>2
    <3>4. CASE status'[m] = "queued"
      <4>1. /\ posts'[m] = Total(retries'[m]) + attempt'[w]
            /\ retries'[m] <= MaxRetries
        BY <1>1, <1>5, <3>1, <3>2, <3>4, QueueAssumption
      <4>2. \A v \in Workers \ {w} : hand'[v] # m
        BY <1>1, <1>4
      <4>3. QED
        BY <1>1, <1>2, <3>4, <4>1, <4>2
    <3>5. CASE status'[m] = "failed"
      <4>1. retries[m] = MaxRetries /\ attempt[w] + 1 = MaxAttempts
        BY <1>1, <1>5, <3>5, QueueAssumption
      <4>2. posts'[m] = Total(MaxRetries + 1)
        BY <1>1, <3>1, <3>2, <4>1, QueueAssumption
      <4>3. \A v \in Workers : hand'[v] # m
        BY <1>1, <1>4, <1>5, <3>5
      <4>4. posts'[m] <= Total(MaxRetries + 1)
        BY <4>2, QueueAssumption, Products
      <4>5. QED
        BY <1>1, <1>2, <3>5, <4>2, <4>3, <4>4
    <3>6. QED
      BY <1>5, <3>3, <3>4, <3>5
  <2>3. QED
    BY <1>1, <2>1, <2>2 DEF Counts
<1>10. QED
  BY <1>6, <1>7, <1>8, <1>9 DEF IInv

LEMMA PutBackIInv ==
    ASSUME IInv, NEW w \in Workers, PutBack(w)
    PROVE  IInv'
<1> DEFINE m == hand[w]
<1>0. /\ m \in Messages /\ attempt[w] = 0
  BY DEF IInv, TypeOK, HandFacts, PutBack
<1>1. /\ m \in Messages /\ retries[m] \in 0..MaxRetries /\ attempt[w] = 0
      /\ posts[m] = Total(retries[m]) /\ status[m] = "queued"
      /\ \A v \in Workers \ {w} : hand[v] # m
  <2>1. retries[m] \in 0..MaxRetries /\ posts[m] = Total(retries[m]) + attempt[w]
    BY <1>0, QueueAssumption DEF IInv, TypeOK, Counts
  <2>2. Total(retries[m]) \in Nat
    BY <2>1, Products
  <2>3. status[m] = "queued" /\ \A v \in Workers \ {w} : hand[v] # m
    BY <1>0 DEF IInv, OnePlace
  <2>4. QED
    BY <1>0, <2>1, <2>2, <2>3
<1>2. /\ queue' = queue \cup {m} /\ hand' = [hand EXCEPT ![w] = NoMsg]
      /\ UNCHANGED <<status, retries, tokens, attempt, posts, granted, ticks>>
      /\ pc' \in {[pc EXCEPT ![w] = "poll"], [pc EXCEPT ![w] = "idle"]}
  BY DEF PutBack, Goto, Take
<1>3. wait' \in [Messages -> Nat]
  <2>1. CASE wait' = wait
    BY <2>1 DEF IInv, TypeOK
  <2>2. CASE wait' = [wait EXCEPT ![m] = Backoff * 2^retries[m]]
    BY <1>1, <2>2, QueueAssumption DEF IInv, TypeOK
  <2>3. QED
    BY <2>1, <2>2 DEF PutBack
<1>4. TypeOK' /\ HandFacts'
  BY <1>1, <1>2, <1>3, QueueAssumption DEF IInv, TypeOK, HandFacts
<1>5. OnePlace'
  BY <1>1, <1>2, QueueAssumption DEF IInv, TypeOK, OnePlace
<1>6. Counts'
  BY <1>1, <1>2, QueueAssumption DEF IInv, TypeOK, Counts
<1>7. QED
  BY <1>4, <1>5, <1>6 DEF IInv

LEMMA TickIInv ==
    ASSUME IInv, Tick
    PROVE  IInv'
<1>1. TypeOK'
  BY QueueAssumption DEF IInv, TypeOK, Tick, Refill, worker
<1>2. OnePlace' /\ HandFacts' /\ Counts'
  BY DEF IInv, OnePlace, HandFacts, Counts, Tick, worker
<1>3. QED
  BY <1>1, <1>2 DEF IInv

-----------------------------------------------------------------------------
LEMMA SpecIInv == Spec => []IInv
<1>1. IInv /\ [Next]_vars => IInv'
  <2> SUFFICES ASSUME IInv, [Next]_vars
               PROVE  IInv'
    OBVIOUS
  <2>1. CASE UNCHANGED vars
    BY <2>1 DEF vars, worker, IInv, TypeOK, OnePlace, HandFacts, Counts
  <2>2. CASE Next
    BY <2>2, EnqueueIInv, PollIInv, PopDueIInv, AcquireIInv, PostIInv,
       PutBackIInv, TickIInv DEF Next, Step
  <2>3. QED
    BY <2>1, <2>2
<1>2. QED
  BY <1>1, InitIInv, PTL DEF Spec

\* Every variable keeps its type; no message is retried once too often.
THEOREM TypeCorrect == Spec => []TypeOK
  BY SpecIInv, PTL DEF IInv

\* Whatever the workers, a queued message is in the heap or with one worker.
THEOREM MessagesAreInOnePlace == Spec => []OnePlace
  BY SpecIInv, PTL DEF IInv

\* No message is posted more often than the two loops allow together, and none is
\* given up before.
THEOREM PostsAreBounded == Spec => []PostsBounded
<1>1. IInv => PostsBounded
  <2> SUFFICES ASSUME IInv, NEW m \in Messages
               PROVE  /\ posts[m] <= Total(MaxRetries + 1)
                      /\ status[m] = "failed" => posts[m] = Total(MaxRetries + 1)
    BY DEF PostsBounded, Total
  <2>1. CASE status[m] = "new"
    BY <2>1, Products, QueueAssumption DEF IInv, Counts
  <2>2. CASE status[m] \in {"sent", "failed"}
    BY <2>2 DEF IInv, Counts
  <2>3. CASE status[m] = "queued"
    <3>1. /\ posts[m] \in Nat /\ retries[m] \in 0..MaxRetries
          /\ posts[m] <= Total(retries[m]) + MaxAttempts - 1
      <4>1. CASE m \in queue
        BY <4>1, Products, QueueAssumption DEF IInv, TypeOK, Counts
      <4>2. CASE \E w \in Workers : hand[w] = m
        BY <4>2, Products, QueueAssumption DEF IInv, TypeOK, Counts
      <4>3. QED
        BY <2>3, <4>1, <4>2 DEF IInv, OnePlace
    <3>2. /\ Total(retries[m] + 1) = Total(retries[m]) + MaxAttempts
          /\ Total(retries[m] + 1) <= Total(MaxRetries + 1)
      BY <3>1, Products, QueueAssumption
    <3>3. Total(retries[m]) \in Nat /\ Total(MaxRetries + 1) \in Nat
      BY <3>1, Products, QueueAssumption
    <3>4. posts[m] <= Total(MaxRetries + 1)
      BY <3>1, <3>2, <3>3, QueueAssumption
    <3>5. QED
      BY <2>3, <3>4
  <2>4. QED
    BY <2>1, <2>2, <2>3 DEF IInv, TypeOK
<1>2. QED
  BY <1>1, SpecIInv, PTL

\* The bucket never gives out more than a burst and what the time allows.
THEOREM BucketHolds == Spec => []RateRespected
<1>1. Init => RateRespected
  BY QueueAssumption DEF Init, RateRespected
<1>2. TypeOK /\ RateRespected /\ [Next]_vars => RateRespected'
  <2> SUFFICES ASSUME TypeOK, RateRespected, [Next]_vars
               PROVE  RateRespected'
    OBVIOUS
  <2>1. CASE Tick
    <3>1. PICK earned \in Nat : earned = Rate * ticks /\ Rate * (ticks + 1) = earned + Rate
      BY QueueAssumption DEF TypeOK
    <3>2. tokens' <= tokens + Rate /\ tokens' \in Nat /\ granted' = granted
          /\ ticks' = ticks + 1
      BY <2>1, QueueAssumption DEF TypeOK, Tick, Refill
    <3>3. granted + tokens <= Burst + earned
      BY <3>1 DEF RateRespected
    <3>4. granted' + tokens' <= Burst + (earned + Rate)
      <4>1. granted \in Nat /\ tokens \in Nat /\ Burst \in Nat /\ Rate \in Nat
        BY QueueAssumption DEF TypeOK
      <4>2. \A g, t, u, b, r, e \in Nat :
              u <= t + r /\ g + t <= b + e => g + u <= b + (e + r)
        OBVIOUS
      <4>3. QED
        BY <3>2, <3>3, <4>1, <4>2
    <3>5. Rate * ticks' = earned + Rate
      BY <3>1, <3>2
    <3>6. tokens' <= Burst
      BY <2>1, QueueAssumption DEF TypeOK, Tick, Refill
    <3>7. QED
      BY <3>4, <3>5, <3>6 DEF RateRespected
  <2>2. CASE \E w \in Workers : Acquire(w)
    <3>1. granted' + tokens' = granted + tokens /\ ticks' = ticks /\ tokens' <= Burst
      BY <2>2, QueueAssumption DEF TypeOK, Acquire
    <3>2. QED
      BY <3>1 DEF RateRespected
  <2>3. CASE UNCHANGED <<granted, tokens, ticks>>
    BY <2>3 DEF RateRespected
  <2>4. Tick \/ (\E w \in Workers : Acquire(w)) \/ UNCHANGED <<granted, tokens, ticks>>
    BY DEF Next, Step, Enqueue, Call, PopDue, PopNothing, NoToken, Post, PutBack, vars
  <2>5. QED
    BY <2>1, <2>2, <2>3, <2>4
<1>3. QED
  BY <1>1, <1>2, TypeCorrect, PTL DEF Spec

-----------------------------------------------------------------------------
(* The refinement of JobQueue.                                             *)

\* A message is a waiting job in the heap, a taken one in a hand, settled otherwise.
LEMMA JobFacts ==
    ASSUME IInv, NEW m \in Messages
    PROVE  /\ m \in queue => JobState[m] = "waiting" /\ Holders[m] = {}
           /\ \A w \in Workers : hand[w] = m => Jobs!Has(w, m) /\ m \notin queue
<1>1. m \in queue => JobState[m] = "waiting" /\ Holders[m] = {}
  BY DEF IInv, OnePlace, JobState, StateOf, Holders, HoldersOf
<1>2. ASSUME NEW w \in Workers, hand[w] = m
      PROVE  Jobs!Has(w, m) /\ m \notin queue
  <2>1. m \notin queue /\ status[m] = "queued" /\ \A v \in Workers : hand[v] = m => v = w
    BY <1>2 DEF IInv, OnePlace
  <2>2. JobState[m] = "taken"
    BY <2>1 DEF JobState, StateOf
  <2>3. Holders[m] = {w}
    BY <1>2, <2>1 DEF Holders, HoldersOf
  <2>4. QED
    BY <2>1, <2>2, <2>3 DEF Jobs!Has
<1>3. QED
  BY <1>1, <1>2

\* A step that moves one message changes that job only.
LEMMA OneJobMoves ==
    ASSUME NEW m \in Messages,
           \A n \in Messages \ {m} :
              /\ n \in queue' <=> n \in queue
              /\ status'[n] = status[n]
              /\ \A v \in Workers : hand'[v] = n <=> hand[v] = n,
           NEW to, JobState'[m] = to,
           NEW with, {v \in Workers : hand'[v] = m} = with
    PROVE  Jobs!Becomes(m, to, with)
<1>1. JobState' = [JobState EXCEPT ![m] = to]
  <2>1. ASSUME NEW n \in Messages \ {m}
        PROVE  StateOf(n)' = StateOf(n)
    BY <2>1 DEF StateOf
  <2>2. StateOf(m)' = to
    BY DEF JobState
  <2>3. QED
    BY <2>1, <2>2 DEF JobState
<1>2. Holders' = [Holders EXCEPT ![m] = with]
  <2>1. ASSUME NEW n \in Messages \ {m}
        PROVE  HoldersOf(n)' = HoldersOf(n)
    BY <2>1 DEF HoldersOf
  <2>2. HoldersOf(m)' = with
    BY DEF HoldersOf
  <2>3. QED
    BY <2>1, <2>2 DEF Holders
<1>3. QED
  BY <1>1, <1>2 DEF Jobs!Becomes

LEMMA QueueStepIsJobStep ==
    ASSUME IInv, Next \/ UNCHANGED vars
    PROVE  [Jobs!Next]_(Jobs!vars)
<1> USE DEF IInv
<1>1. ASSUME NEW m \in Messages, NEW delay \in Delays, Enqueue(m, delay)
      PROVE  Jobs!Submit(m)
  <2>1. status[m] = "new" /\ m \notin queue /\ \A w \in Workers : hand[w] # m
    BY <1>1 DEF OnePlace, Enqueue
  <2>2. queue' = queue \cup {m} /\ status' = [status EXCEPT ![m] = "queued"] /\ hand' = hand
        /\ posts' = posts
    BY <1>1 DEF Enqueue, worker
  <2>3. JobState[m] = "new" /\ JobState'[m] = "waiting"
    BY <2>1, <2>2 DEF JobState, StateOf
  <2>4. Jobs!Becomes(m, "waiting", {})
    BY <2>1, <2>2, <2>3, OneJobMoves DEF TypeOK
  <2>5. QED
    BY <2>2, <2>3, <2>4 DEF Jobs!Submit
<1>2. ASSUME NEW w \in Workers, PopDue(w)
      PROVE  \E m \in Messages : Jobs!Claim(w, m)
  <2>1. PICK m \in queue : hand' = [hand EXCEPT ![w] = m] /\ queue' = queue \ {m}
    BY <1>2 DEF PopDue, Take
  <2>2. /\ m \in Messages /\ hand[w] = NoMsg /\ status[m] = "queued"
        /\ UNCHANGED <<status, posts>>
        /\ \A v \in Workers : hand[v] # m
    BY <1>2, <2>1 DEF TypeOK, OnePlace, HandFacts, PopDue
  <2>3. JobState[m] = "waiting" /\ JobState'[m] = "taken"
    BY <2>1, <2>2 DEF JobState, StateOf
  <2>4. {v \in Workers : hand'[v] = m} = {w}
    BY <2>1, <2>2 DEF TypeOK
  <2>5. Jobs!Becomes(m, "taken", {w})
    <3>1. \A n \in Messages \ {m} :
             /\ n \in queue' <=> n \in queue
             /\ status'[n] = status[n]
             /\ \A v \in Workers : hand'[v] = n <=> hand[v] = n
      BY <2>1, <2>2, QueueAssumption DEF TypeOK
    <3>2. QED
      BY <2>2, <2>3, <2>4, <3>1, OneJobMoves
  <2>6. \A k \in Messages : w \notin Holders[k]
    BY <2>2, QueueAssumption DEF Holders, HoldersOf
  <2>7. QED
    BY <2>2, <2>3, <2>5, <2>6 DEF Jobs!Claim
<1>3. ASSUME NEW w \in Workers, Post(w)
      PROVE  \E m \in Messages : Jobs!Try(w, m)
  <2>0. PICK m \in Messages : m = hand[w]
    BY <1>3 DEF TypeOK, HandFacts, Post
  <2>1. /\ posts[m] = Total(retries[m]) + attempt[w] /\ retries[m] \in 0..MaxRetries
        /\ attempt[w] \in 0..MaxAttempts - 1
        /\ status[m] = "queued" /\ m \notin queue /\ m # NoMsg
        /\ \A v \in Workers \ {w} : hand[v] # m
    BY <2>0, QueueAssumption DEF TypeOK, OnePlace, Counts
  <2>2. /\ posts' = [posts EXCEPT ![m] = @ + 1] /\ queue' = queue
        /\ posts'[m] = posts[m] + 1
    BY <1>3, <2>0 DEF TypeOK, Post
  <2>3. /\ Total(retries[m]) \in Nat /\ Total(MaxRetries + 1) \in Nat
        /\ Total(retries[m] + 1) = Total(retries[m]) + MaxAttempts
        /\ Total(retries[m] + 1) <= Total(MaxRetries + 1)
    BY <2>1, Products, QueueAssumption
  <2>4. posts[m] < Total(MaxRetries + 1)
    BY <2>1, <2>3, QueueAssumption
  <2>5. Jobs!Has(w, m)
    BY <2>0, JobFacts
  <2>6. CASE UNCHANGED <<status, hand>>
    <3>1. UNCHANGED <<JobState, Holders>>
      BY <2>2, <2>6 DEF JobState, StateOf, Holders, HoldersOf
    <3>2. QED
      BY <2>2, <2>4, <2>5, <3>1 DEF Jobs!Try, Total
  <2>7. ASSUME NEW end \in {"sent", "failed"}, status' = [status EXCEPT ![m] = end],
               hand' = [hand EXCEPT ![w] = NoMsg]
        PROVE  Jobs!Becomes(m, IF end = "sent" THEN "done" ELSE "dead", {})
    <3>1. JobState'[m] = IF end = "sent" THEN "done" ELSE "dead"
      BY <2>1, <2>2, <2>7 DEF TypeOK, JobState, StateOf
    <3>2. {v \in Workers : hand'[v] = m} = {}
      BY <2>1, <2>7 DEF TypeOK
    <3>3. \A n \in Messages \ {m} :
             /\ n \in queue' <=> n \in queue
             /\ status'[n] = status[n]
             /\ \A v \in Workers : hand'[v] = n <=> hand[v] = n
      BY <2>0, <2>2, <2>7, QueueAssumption DEF TypeOK
    <3>4. QED
      BY <3>1, <3>2, <3>3, OneJobMoves
  <2>8. CASE status' = [status EXCEPT ![m] = "sent"] /\ hand' = [hand EXCEPT ![w] = NoMsg]
    BY <2>2, <2>4, <2>5, <2>7, <2>8 DEF Jobs!Try, Total
  <2>9. CASE /\ attempt[w] + 1 = MaxAttempts /\ ~RetriesLeft(m)
             /\ status' = [status EXCEPT ![m] = "failed"]
             /\ hand' = [hand EXCEPT ![w] = NoMsg]
    <3>1. retries[m] = MaxRetries
      BY <2>1, <2>9, QueueAssumption DEF RetriesLeft
    <3>2. posts'[m] = Total(MaxRetries + 1)
      BY <2>1, <2>2, <2>3, <2>9, <3>1, QueueAssumption
    <3>3. QED
      BY <2>2, <2>4, <2>5, <2>7, <2>9, <3>2 DEF Jobs!Try, Total
  <2>10. QED
    BY <1>3, <2>0, <2>6, <2>8, <2>9 DEF Post, Take
<1>4. ASSUME NEW w \in Workers, PutBack(w)
      PROVE  \E m \in Messages : Jobs!Release(w, m)
  <2>0. PICK m \in Messages : m = hand[w]
    BY <1>4 DEF TypeOK, HandFacts, PutBack
  <2>1. /\ posts[m] = Total(retries[m]) + attempt[w] /\ retries[m] \in 0..MaxRetries
        /\ attempt[w] = 0 /\ m # NoMsg
        /\ \A v \in Workers \ {w} : hand[v] # m
    BY <1>4, <2>0, QueueAssumption DEF TypeOK, OnePlace, HandFacts, Counts, PutBack
  <2>2. /\ queue' = queue \cup {m} /\ hand' = [hand EXCEPT ![w] = NoMsg]
        /\ UNCHANGED <<status, posts>>
    BY <1>4, <2>0 DEF PutBack, Take
  <2>3. posts[m] < Total(MaxRetries + 1)
    <3>1. /\ Total(retries[m]) \in Nat /\ Total(MaxRetries + 1) \in Nat
          /\ Total(retries[m] + 1) = Total(retries[m]) + MaxAttempts
          /\ Total(retries[m] + 1) <= Total(MaxRetries + 1)
      BY <2>1, Products, QueueAssumption
    <3>2. QED
      BY <2>1, <3>1, QueueAssumption
  <2>4. JobState'[m] = "waiting" /\ {v \in Workers : hand'[v] = m} = {}
    BY <2>1, <2>2 DEF TypeOK, JobState, StateOf
  <2>5. Jobs!Becomes(m, "waiting", {})
    BY <2>0, <2>2, <2>4, OneJobMoves, QueueAssumption DEF TypeOK
  <2>6. QED
    BY <2>0, <2>2, <2>3, <2>5, JobFacts DEF Jobs!Release, Total
<1>5. CASE UNCHANGED <<queue, status, hand, posts>>
  BY <1>5 DEF Jobs!vars, JobState, StateOf, Holders, HoldersOf
<1>6. \/ \E m \in Messages, delay \in Delays : Enqueue(m, delay)
      \/ \E w \in Workers : PopDue(w) \/ Post(w) \/ PutBack(w)
      \/ UNCHANGED <<queue, status, hand, posts>>
  BY DEF Next, Step, Call, PopNothing, Acquire, NoToken, Tick, vars, worker
<1>7. QED
  BY <1>1, <1>2, <1>3, <1>4, <1>5, <1>6, Zenon DEF Jobs!Next

\* The queue keeps the promise of JobQueue, for any number of workers and messages: what
\* happens to a message is a submission, claims, tries and releases by one worker at a
\* time, and one end.
THEOREM QueueImplementsJobs == Spec => ImplementsJobs
<1>1. Init => Jobs!Init
  BY QueueAssumption DEF Init, Jobs!Init, JobState, StateOf, Holders, HoldersOf
<1>2. IInv /\ [Next]_vars => [Jobs!Next]_(Jobs!vars)
  BY QueueStepIsJobStep
<1>3. QED
  BY <1>1, <1>2, SpecIInv, PTL DEF Spec, ImplementsJobs, Jobs!Spec
=============================================================================
