---------------------- MODULE CollectionsRemindersProofs ----------------------
(***************************************************************************)
(* Proofs about CollectionsReminders, for any number of requests and any   *)
(* set of reminders.  What has to be added to the properties: a key that   *)
(* is not exposed and not sent in the store is in at most one copy, that   *)
(* copy has it pending only if the store has, an event is known to the     *)
(* store or to that copy, and only process_pending is ahead of the store.  *)
(* About cancellations, CancelsAreKnown is enough of an invariant.         *)
(***************************************************************************)
EXTENDS CollectionsReminders, TLAPS

Active(w) == pc[w] # "idle"

\* A mark is never ahead of its event, in the store or in a copy.
MarksAreBacked ==
    \A k \in Keys :
        /\ queue[k] = "sent" => events[k] >= 1
        /\ \A w \in Workers : copy[w][k] = "sent" => events[k] >= 1

\* What holds of a key as long as nothing has exposed it.
Orderly(k) ==
    /\ events[k] # 2
    /\ queue[k] = "sent" => \A w \in Workers : Active(w) => copy[w][k] = "sent"
    /\ queue[k] # "sent" => \A v, w \in Workers : Active(v) /\ Active(w) => v = w
    /\ events[k] >= 1 =>
         queue[k] = "sent" \/ \E w \in Workers : Active(w) /\ copy[w][k] = "sent"
    /\ \A w \in Workers : Active(w) /\ copy[w][k] = "pending" => queue[k] = "pending"
    /\ \A w \in Workers :
         Active(w) /\ pc[w] # "process" /\ copy[w][k] = "sent" => queue[k] = "sent"

IInv == TypeOK /\ MarksAreBacked /\ \A k \in Keys \ exposed : Orderly(k)

-----------------------------------------------------------------------------
LEMMA TypeStep == TypeOK /\ [Next]_vars => TypeOK'
<1> SUFFICES ASSUME TypeOK, [Next]_vars PROVE TypeOK'
  OBVIOUS
<1> USE DEF TypeOK, Ops, Status, Empty, Done, Set, Keep, SentKeys, Overlapping,
            OneMore, IsToSend, Forget, StillCancelled
<1>0. CASE UNCHANGED vars
  BY <1>0 DEF vars, request, observers
<1>1. ASSUME NEW w \in Workers, NEW op \in Ops, NEW keys \in SUBSET Keys,
             Begin(w, op, keys)
      PROVE  TypeOK'
  BY <1>1 DEF Begin
<1>2. ASSUME NEW w \in Workers, AlreadyThere(w) PROVE TypeOK'
  BY <1>2 DEF AlreadyThere, observers
<1>3. ASSUME NEW w \in Workers, Append(w) PROVE TypeOK'
  BY <1>3 DEF Append
<1>4. ASSUME NEW w \in Workers, Scheduled(w) PROVE TypeOK'
  <2>1. CASE pc[w] = "schedule" /\ Done(w) /\ Forget(w)
    BY <1>4, <2>1 DEF Scheduled
  <2>2. CASE pc' = [pc EXCEPT ![w] = "process"] /\ UNCHANGED <<copy, todo, outdated>>
    BY <1>4, <2>2 DEF Scheduled
  <2> QED
    BY <1>4, <2>1, <2>2, Zenon DEF Scheduled
<1>5. ASSUME NEW w \in Workers, Send(w) PROVE TypeOK'
  <2>1. PICK k \in Keys :
          /\ \/ Set(w, k, "sent") \/ Set(w, k, "failed")
          /\ events' = events \/ events' = [events EXCEPT ![k] = OneMore(@)]
          /\ exposed' = exposed \/ exposed' = exposed \cup {k}
          /\ UNCHANGED <<queue, pc, todo, cancelled, outdated>>
    BY <1>5 DEF Send
  <2>2. copy' \in [Workers -> [Keys -> Status]]
    <3>1. PICK status \in {"sent", "failed"} : Set(w, k, status)
      BY <2>1
    <3>2. [copy[w] EXCEPT ![k] = status] \in [Keys -> Status]
      OBVIOUS
    <3> QED
      BY <3>1, <3>2
  <2>3. events' \in [Keys -> 0..2]
    BY <2>1
  <2> QED
    BY <2>1, <2>2, <2>3
<1>6. ASSUME NEW w \in Workers, Processed(w) PROVE TypeOK'
  BY <1>6 DEF Processed
<1>7. ASSUME NEW w \in Workers, Cancel(w) PROVE TypeOK'
  <2>1. /\ pc' \in [Workers -> Ops \cup {"idle"}]
        /\ copy' \in [Workers -> [Keys -> Status]]
        /\ todo' \in [Workers -> SUBSET Keys]
        /\ UNCHANGED <<events, exposed>>
    BY <1>7 DEF Cancel
  <2>2. PICK k \in Keys :
          \/ /\ queue' = [copy[w] EXCEPT ![k] = "skipped"]
             /\ cancelled' = {j \in cancelled : queue'[j] # "pending"} \cup {k}
             /\ outdated' = [v \in Workers |->
                   IF v = w \/ pc[v] = "idle" THEN {} ELSE outdated[v] \cup {k}]
          \/ UNCHANGED <<queue, cancelled>> /\ outdated' = [outdated EXCEPT ![w] = {}]
    BY <1>7 DEF Cancel
  <2>3. queue' \in [Keys -> Status] /\ cancelled' \subseteq Keys
    BY <2>2
  <2>4. outdated' \in [Workers -> SUBSET Keys]
    <3>1. \A v \in Workers : outdated[v] \cup {k} \subseteq Keys
      OBVIOUS
    <3>2. CASE outdated' = [outdated EXCEPT ![w] = {}]
      BY <3>2
    <3>3. CASE outdated' = [v \in Workers |->
                 IF v = w \/ pc[v] = "idle" THEN {} ELSE outdated[v] \cup {k}]
      BY <3>1, <3>3
    <3> QED
      BY <2>2, <3>2, <3>3
  <2> QED
    BY <2>1, <2>3, <2>4
<1>8. ASSUME NEW w \in Workers, Clear(w) PROVE TypeOK'
  BY <1>8 DEF Clear
<1>9. ASSUME NEW w \in Workers, Die(w) PROVE TypeOK'
  BY <1>9 DEF Die
<1> QED
  BY <1>0, <1>1, <1>2, <1>3, <1>4, <1>5, <1>6, <1>7, <1>8, <1>9 DEF Next, Step

LEMMA MarksStep == TypeOK /\ MarksAreBacked /\ [Next]_vars => MarksAreBacked'
<1> SUFFICES ASSUME TypeOK, MarksAreBacked, [Next]_vars PROVE MarksAreBacked'
  OBVIOUS
<1> USE DEF TypeOK, MarksAreBacked, Status, Empty, Done, Set, Keep, OneMore
<1>0. CASE UNCHANGED vars
  BY <1>0 DEF vars, request, observers
<1>1. ASSUME NEW w \in Workers, NEW op \in Ops, NEW keys \in SUBSET Keys,
             Begin(w, op, keys)
      PROVE  MarksAreBacked'
  BY <1>1 DEF Begin
<1>2. ASSUME NEW w \in Workers, AlreadyThere(w) PROVE MarksAreBacked'
  BY <1>2 DEF AlreadyThere, observers
<1>3. ASSUME NEW w \in Workers, Append(w) PROVE MarksAreBacked'
  BY <1>3 DEF Append
<1>4. ASSUME NEW w \in Workers, Scheduled(w) PROVE MarksAreBacked'
  <2>1. UNCHANGED <<queue, events>>
    BY <1>4 DEF Scheduled
  <2>2. \A v \in Workers : copy'[v] = copy[v] \/ copy'[v] = Empty
    BY <1>4 DEF Scheduled
  <2> QED
    BY <2>1, <2>2
<1>5. ASSUME NEW w \in Workers, Send(w) PROVE MarksAreBacked'
  <2>1. PICK k \in Keys :
          /\ queue' = queue
          /\ \/ Set(w, k, "sent") /\ events' = [events EXCEPT ![k] = OneMore(@)]
             \/ Set(w, k, "failed") /\ UNCHANGED events
             \/ Set(w, k, "failed") /\ events' = [events EXCEPT ![k] = OneMore(@)]
    BY <1>5 DEF Send
  <2>2. /\ \A j \in Keys : events[j] >= 1 => events'[j] >= 1
        /\ Set(w, k, "sent") => events'[k] >= 1 \/ Set(w, k, "failed")
    BY <2>1
  <2>3. \A v \in Workers, j \in Keys :
          copy'[v][j] = "sent" => copy[v][j] = "sent" \/ (j = k /\ events'[k] >= 1)
    BY <2>1
  <2> QED
    BY <2>1, <2>2, <2>3
<1>6. ASSUME NEW w \in Workers, Processed(w) PROVE MarksAreBacked'
  BY <1>6 DEF Processed
<1>7. ASSUME NEW w \in Workers, Cancel(w) PROVE MarksAreBacked'
  BY <1>7 DEF Cancel
<1>8. ASSUME NEW w \in Workers, Clear(w) PROVE MarksAreBacked'
  BY <1>8 DEF Clear
<1>9. ASSUME NEW w \in Workers, Die(w) PROVE MarksAreBacked'
  BY <1>9 DEF Die
<1> QED
  BY <1>0, <1>1, <1>2, <1>3, <1>4, <1>5, <1>6, <1>7, <1>8, <1>9 DEF Next, Step

LEMMA OrderlyStep ==
  ASSUME IInv, [Next]_vars, NEW k \in Keys, k \notin exposed'
  PROVE  Orderly(k)'
<1> USE DEF TypeOK, Orderly, Active, Status, Ops
<1>o. k \notin exposed /\ Orderly(k)
  <2>1. exposed \subseteq exposed'
    BY DEF Next, Step, vars, observers, Begin, AlreadyThere, Append, Scheduled, Send,
           Processed, Cancel, Clear, Die
  <2> QED
    BY <2>1 DEF IInv
<1>t. TypeOK
  BY DEF IInv
<1>0. CASE UNCHANGED vars
  BY <1>0, <1>o DEF vars, request, observers
<1>1. ASSUME NEW w \in Workers, NEW op \in Ops, NEW keys \in SUBSET Keys,
             Begin(w, op, keys)
      PROVE  Orderly(k)'
  <2>1. queue[k] # "sent" => \A v \in Workers : pc[v] = "idle"
    BY <1>1 DEF Begin, Overlapping
  <2>2. /\ queue' = queue /\ events' = events
        /\ pc' = [pc EXCEPT ![w] = op] /\ op # "idle" /\ pc[w] = "idle"
        /\ \/ copy' = [copy EXCEPT ![w] = queue]
           \/ copy' = [copy EXCEPT ![w] = Empty] /\ queue[k] # "sent"
    BY <1>1 DEF Begin, SentKeys
  <2>3. Empty[k] = "absent"
    BY DEF Empty
  <2> QED
    BY <1>o, <1>t, <2>1, <2>2, <2>3
<1>2. ASSUME NEW w \in Workers, AlreadyThere(w) PROVE Orderly(k)'
  BY <1>2, <1>o, <1>t DEF AlreadyThere
<1>3. ASSUME NEW w \in Workers, Append(w) PROVE Orderly(k)'
  BY <1>3, <1>o, <1>t DEF Append, Set, Keep
<1>4. ASSUME NEW w \in Workers, Scheduled(w) PROVE Orderly(k)'
  <2>1. CASE pc' = [pc EXCEPT ![w] = "idle"] /\ copy' = [copy EXCEPT ![w] = Empty]
    <3>1. /\ pc[w] = "schedule" /\ UNCHANGED <<queue, events>>
      BY <1>4, <1>t, <2>1 DEF Scheduled
    <3>2. Empty[k] = "absent"
      BY DEF Empty
    <3> QED
      BY <1>o, <1>t, <2>1, <3>1, <3>2
  <2>2. CASE pc' = [pc EXCEPT ![w] = "process"] /\ UNCHANGED copy
    BY <1>4, <1>o, <1>t, <2>2 DEF Scheduled
  <2> QED
    BY <1>4, <2>1, <2>2, Zenon DEF Scheduled, Done
<1>5. ASSUME NEW w \in Workers, Send(w) PROVE Orderly(k)'
  <2>1. PICK j \in Keys :
          /\ IsToSend(w, j)
          /\ \/ /\ Set(w, j, "sent")
                /\ events' = [events EXCEPT ![j] = OneMore(@)]
             \/ Set(w, j, "failed") /\ (j # k \/ events' = events)
          /\ j # k => events'[k] = events[k]
          /\ pc[w] = "process" /\ UNCHANGED <<queue, pc>>
    BY <1>5, <1>t DEF Send
  <2>2. CASE j # k
    <3>1. \A v \in Workers : copy'[v][k] = copy[v][k]
      BY <1>t, <2>1, <2>2 DEF Set
    <3> QED
      BY <1>o, <2>1, <2>2, <3>1
  <2>3. CASE j = k
    <3>1. \A v \in Workers : Active(v) => v = w
      BY <1>o, <1>t, <2>1, <2>3 DEF IsToSend
    <3>2. events[k] = 0 /\ queue[k] = "pending"
      BY <1>o, <1>t, <2>1, <2>3, <3>1 DEF IsToSend
    <3>3. \/ copy'[w][k] = "sent" /\ events'[k] = 1
          \/ copy'[w][k] = "failed" /\ events'[k] = 0
      BY <1>t, <2>1, <2>3, <3>2 DEF Set, OneMore
    <3> QED
      BY <2>1, <3>1, <3>2, <3>3
  <2> QED
    BY <2>2, <2>3
<1>6. ASSUME NEW w \in Workers, Processed(w) PROVE Orderly(k)'
  BY <1>6, <1>o, <1>t DEF Processed, Done
<1>7. ASSUME NEW w \in Workers, Cancel(w) PROVE Orderly(k)'
  <2>1. PICK j \in todo[w] :
          queue' = IF copy[w][j] = "pending" THEN [copy[w] EXCEPT ![j] = "skipped"]
                                             ELSE queue
    BY <1>7 DEF Cancel
  <2>2. /\ pc[w] = "cancel" /\ j \in Keys /\ events' = events
        /\ pc' = [pc EXCEPT ![w] = "idle"] /\ copy' = [copy EXCEPT ![w] = Empty]
    BY <1>7, <1>t, <2>1 DEF Cancel, Done
  <2>3. \/ queue'[k] = queue[k]
        \/ queue'[k] = copy[w][k]
        \/ queue'[k] = "skipped" /\ copy[w][k] = "pending"
    BY <1>t, <2>1, <2>2
  <2>4. Empty[k] = "absent"
    BY DEF Empty
  <2> QED
    BY <1>o, <1>t, <2>2, <2>3, <2>4
<1>8. ASSUME NEW w \in Workers, Clear(w) PROVE Orderly(k)'
  BY <1>8, <1>o, <1>t DEF Clear, Done, SentKeys
<1>9. ASSUME NEW w \in Workers, Die(w) PROVE Orderly(k)'
  BY <1>9, <1>o, <1>t DEF Die, Done, SentKeys
<1> QED
  BY <1>0, <1>1, <1>2, <1>3, <1>4, <1>5, <1>6, <1>7, <1>8, <1>9 DEF Next, Step

THEOREM Invariance == Spec => []IInv
<1>1. Init => IInv
  BY DEF Init, IInv, TypeOK, MarksAreBacked, Orderly, Active, Empty, Status
<1>2. IInv /\ [Next]_vars => IInv'
  BY TypeStep, MarksStep, OrderlyStep DEF IInv
<1> QED
  BY <1>1, <1>2, PTL DEF Spec

-----------------------------------------------------------------------------
\* Statuses, copies and counters have the values the code gives them, for any number
\* of requests at a time.
THEOREM TypeCorrect == Spec => []TypeOK
BY Invariance, PTL DEF IInv

\* One reminder goes out per invoice, stage and channel unless the key was exposed,
\* for any number of overlapping requests, crashes and read errors.
THEOREM RemindersGoOutOnce == Spec => []OneReminder
<1>1. IInv => OneReminder
  BY DEF IInv, OneReminder, Orderly
<1> QED
  BY <1>1, Invariance, PTL

\* The stored queue has as sent only what is in collection_events, and once nobody is
\* at work all of it, exposed keys apart.
THEOREM QueueIsTruthful == Spec => []QueueTellsTruth
<1>1. IInv => QueueTellsTruth
  BY DEF IInv, QueueTellsTruth, Orderly, MarksAreBacked, Active
<1> QED
  BY <1>1, Invariance, PTL

-----------------------------------------------------------------------------
(* Cancellations.  A copy that has a cancelled reminder pending is out of   *)
(* date about it.                                                           *)

CancelsAreKnown ==
    \A k \in cancelled :
        /\ queue[k] # "pending"
        /\ \A w \in Workers :
             Active(w) /\ copy[w][k] = "pending" => k \in outdated[w]

LEMMA CancelsStayKnown ==
    ASSUME TypeOK, CancelsAreKnown, [Next]_vars
    PROVE  CancelsAreKnown'
<1> USE DEF TypeOK, CancelsAreKnown, Active, Status, Ops, Done, Forget
<1>e. \A k \in Keys : Empty[k] = "absent"
  BY DEF Empty
<1>0. CASE UNCHANGED vars
  BY <1>0 DEF vars, request, observers
<1>1. ASSUME NEW w \in Workers, NEW op \in Ops, NEW keys \in SUBSET Keys,
             Begin(w, op, keys)
      PROVE  CancelsAreKnown'
  BY <1>1, <1>e DEF Begin
<1>2. ASSUME NEW w \in Workers, AlreadyThere(w) PROVE CancelsAreKnown'
  BY <1>2 DEF AlreadyThere, observers
<1>3. ASSUME NEW w \in Workers, Append(w) PROVE CancelsAreKnown'
  <2>1. PICK k \in Keys : Set(w, k, "pending")
    BY <1>3 DEF Append
  <2>2. queue' = copy'[w] /\ queue'[k] = "pending" /\ pc' = pc /\ outdated' = outdated
    BY <1>3, <2>1 DEF Append, Set, Keep
  <2>3. cancelled' = {j \in cancelled : queue'[j] # "pending"} /\ k \notin cancelled'
    BY <1>3, <2>2 DEF Append, StillCancelled
  <2>4. \A j \in cancelled', v \in Workers : copy'[v][j] = copy[v][j]
    BY <2>1, <2>3 DEF Set
  <2> QED
    BY <2>2, <2>3, <2>4
<1>4. ASSUME NEW w \in Workers, Scheduled(w) PROVE CancelsAreKnown'
  <2>1. UNCHANGED <<queue, cancelled>>
    BY <1>4 DEF Scheduled
  <2>2. \A v \in Workers :
          Active(v)' => Active(v) /\ copy'[v] = copy[v] /\ outdated'[v] = outdated[v]
    BY <1>4 DEF Scheduled
  <2> QED
    BY <2>1, <2>2
<1>5. ASSUME NEW w \in Workers, Send(w) PROVE CancelsAreKnown'
  <2>1. PICK k \in Keys : Set(w, k, "sent") \/ Set(w, k, "failed")
    BY <1>5 DEF Send
  <2>2. UNCHANGED <<queue, pc, cancelled, outdated>>
    BY <1>5 DEF Send
  <2>3. \A j \in Keys, v \in Workers :
          copy'[v][j] = "pending" => copy[v][j] = "pending"
    BY <2>1 DEF Set
  <2> QED
    BY <2>2, <2>3
<1>6. ASSUME NEW w \in Workers, Processed(w) PROVE CancelsAreKnown'
  BY <1>6 DEF Processed, StillCancelled
<1>7. ASSUME NEW w \in Workers, Cancel(w) PROVE CancelsAreKnown'
  <2>1. /\ pc' = [pc EXCEPT ![w] = "idle"]
        /\ \A v \in Workers : v # w => copy'[v] = copy[v]
    BY <1>7 DEF Cancel
  <2>2. PICK k \in Keys :
          \/ /\ queue' = [copy[w] EXCEPT ![k] = "skipped"]
             /\ cancelled' = {j \in cancelled : queue'[j] # "pending"} \cup {k}
             /\ outdated' = [v \in Workers |->
                   IF v = w \/ pc[v] = "idle" THEN {} ELSE outdated[v] \cup {k}]
          \/ UNCHANGED <<queue, cancelled>> /\ outdated' = [outdated EXCEPT ![w] = {}]
    BY <1>7 DEF Cancel
  <2>3. CASE UNCHANGED <<queue, cancelled>> /\ outdated' = [outdated EXCEPT ![w] = {}]
    BY <2>1, <2>3
  <2>4. CASE /\ queue' = [copy[w] EXCEPT ![k] = "skipped"]
             /\ cancelled' = {j \in cancelled : queue'[j] # "pending"} \cup {k}
             /\ outdated' = [v \in Workers |->
                   IF v = w \/ pc[v] = "idle" THEN {} ELSE outdated[v] \cup {k}]
    <3>1. \A j \in cancelled' : queue'[j] # "pending" /\ (j = k \/ j \in cancelled)
      BY <2>4
    <3>2. \A v \in Workers : Active(v)' =>
            v # w /\ Active(v) /\ outdated'[v] = outdated[v] \cup {k}
      BY <2>1, <2>4
    <3> QED
      BY <2>1, <3>1, <3>2
  <2> QED
    BY <2>2, <2>3, <2>4
<1>8. ASSUME NEW w \in Workers, Clear(w) PROVE CancelsAreKnown'
  BY <1>8 DEF Clear, StillCancelled
<1>9. ASSUME NEW w \in Workers, Die(w) PROVE CancelsAreKnown'
  BY <1>9 DEF Die
<1> QED
  BY <1>0, <1>1, <1>2, <1>3, <1>4, <1>5, <1>6, <1>7, <1>8, <1>9 DEF Next, Step

\* Who sends a cancelled reminder has a copy from before.
LEMMA SentFromBefore ==
    ASSUME TypeOK, CancelsAreKnown, NEW k \in cancelled, NEW w \in Workers, Send(w),
           copy'[w][k] # copy[w][k]
    PROVE  k \in outdated[w]
  BY DEF TypeOK, CancelsAreKnown, Active, Send, IsToSend, Set

\* Who makes it pending again has a copy from before, or schedules it anew.
LEMMA BackFromBefore ==
    ASSUME TypeOK, CancelsAreKnown, [Next]_vars, NEW k \in cancelled,
           queue'[k] = "pending"
    PROVE  \E w \in Workers :
              \/ k \in outdated[w] /\ Step(w)
              \/ Append(w) /\ copy'[w][k] # copy[w][k]
<1>1. k \in Keys /\ queue' # queue /\ queue[k] # "pending"
  BY DEF TypeOK, CancelsAreKnown
<1>2. PICK w \in Workers : Append(w) \/ Processed(w) \/ Cancel(w) \/ Clear(w)
  BY <1>1 DEF Next, Step, vars, Begin, AlreadyThere, Scheduled, Send, Die
<1>3. Active(w)
  BY <1>2 DEF Append, Processed, Cancel, Clear, Active
<1>4. CASE Append(w)
  <2>1. copy'[w][k] = "pending"
    BY <1>4 DEF Append, Keep
  <2> QED
    BY <1>3, <1>4, <2>1 DEF CancelsAreKnown, Step
<1>5. CASE Processed(w) \/ Cancel(w) \/ Clear(w)
  <2>1. copy[w][k] = "pending"
    BY <1>1, <1>5 DEF TypeOK, Processed, Cancel, Clear
  <2> QED
    BY <1>3, <1>5, <2>1 DEF CancelsAreKnown, Step
<1> QED
  BY <1>2, <1>4, <1>5

\* A cancellation holds against every request that loads the queue after it was saved,
\* for any number of requests at the same time.
THEOREM CancelledStaysCancelled == Spec => CancelHolds
<1>1. Init => CancelsAreKnown
  BY DEF Init, CancelsAreKnown
<1>2. TypeOK /\ CancelsAreKnown /\ [Next]_vars => CancelsAreKnown'
  BY CancelsStayKnown
<1>3. TypeOK /\ CancelsAreKnown /\ [Next]_vars =>
        [\A k \in cancelled :
          /\ \A w \in Workers :
               Send(w) /\ copy'[w][k] # copy[w][k] => k \in outdated[w]
          /\ queue'[k] = "pending" =>
               \E w \in Workers :
                  \/ k \in outdated[w] /\ Step(w)
                  \/ Append(w) /\ copy'[w][k] # copy[w][k]]_vars
  BY SentFromBefore, BackFromBefore
<1> QED
  BY <1>1, <1>2, <1>3, TypeCorrect, PTL DEF Spec, CancelHolds
=============================================================================
