------------------------- MODULE CollectionsReminders -------------------------
(***************************************************************************)
(* collections/scheduler.py CollectionsScheduler behind collections/api.py: *)
(* the reminders of a tenant are one JSON value.  Every request makes a    *)
(* scheduler of its own, loads the whole value, works on the copy and saves *)
(* it as a whole.  The endpoints run in a thread pool, so requests overlap; *)
(* the module's _LOCK is never taken.                                      *)
(*                                                                         *)
(* A key is what the queue tells reminders apart by: invoice, stage and    *)
(* channel.  A queue keeps at most one pending or sent reminder of a key,  *)
(* so a function from keys to the status of the latest one stands for the  *)
(* list.  schedule_batch dates a reminder today: a pending one is due.     *)
(***************************************************************************)
EXTENDS Integers

CONSTANTS
    Workers,    \* threads that serve requests
    Keys        \* (factura_id, stage, channel) of the reminders

VARIABLES
    queue,      \* the value in tenant_config: status of each reminder
    pc,         \* the operation each worker is in
    copy,       \* its _queue
    todo,       \* the keys schedule_batch or cancel_reminder has yet to look at
    events,     \* rows of each key in collection_events: 0, 1, or 2 for more
    exposed,    \* observer: keys whose mark may be lost, see Overlapping
    cancelled,  \* observer: keys cancelled and not pending again since
    outdated    \* observer: of each request, keys cancelled since it loaded its copy

request   == <<pc, copy, todo>>
observers == <<exposed, cancelled, outdated>>
vars      == <<queue, request, events, observers>>

Status == {"absent", "pending", "sent", "skipped", "failed"}
Ops    == {"schedule", "autosend", "process", "cancel", "clear"}

TypeOK ==
    /\ queue \in [Keys -> Status]
    /\ pc \in [Workers -> Ops \cup {"idle"}]
    /\ copy \in [Workers -> [Keys -> Status]]
    /\ todo \in [Workers -> SUBSET Keys]
    /\ events \in [Keys -> 0..2]
    /\ exposed \subseteq Keys
    /\ cancelled \subseteq Keys
    /\ outdated \in [Workers -> SUBSET Keys]

Empty == [k \in Keys |-> "absent"]

Init ==
    /\ queue = Empty
    /\ pc = [w \in Workers |-> "idle"]
    /\ copy = [w \in Workers |-> Empty]
    /\ todo = [w \in Workers |-> {}]
    /\ events = [k \in Keys |-> 0]
    /\ exposed = {}
    /\ cancelled = {}
    /\ outdated = [w \in Workers |-> {}]

-----------------------------------------------------------------------------
\* The keys a request puts at risk by starting while another one is under way:
\* those the stored queue does not have as sent.
Overlapping ==
    {k \in Keys : queue[k] # "sent" /\ \E v \in Workers : pc[v] # "idle"}

SentKeys(q) == {k \in Keys : q[k] = "sent"}

Set(w, k, status) == copy' = [copy EXCEPT ![w][k] = status]
Keep(w)           == queue' = copy'[w]

\* What a save by somebody else than cancel_reminder leaves of the cancellations.
StillCancelled == cancelled' = {k \in cancelled : queue'[k] # "pending"}

\* The request is over and its scheduler gone.
Done(w) ==
    /\ pc' = [pc EXCEPT ![w] = "idle"]
    /\ copy' = [copy EXCEPT ![w] = Empty]
    /\ todo' = [todo EXCEPT ![w] = {}]

\* ... and so is what its copy missed.
Forget(w) == outdated' = [outdated EXCEPT ![w] = {}]

\* A request comes in and loads the queue.  Which keys schedule_batch looks at is
\* up to the invoices of the request and the stage they are in today.
Begin(w, op, keys) ==
    /\ pc[w] = "idle"
    /\ op = "cancel" => \E k \in Keys : keys = {k}
    /\ op \in {"process", "clear"} => keys = {}
    /\ pc' = [pc EXCEPT ![w] = op]
    /\ todo' = [todo EXCEPT ![w] = keys]
    /\ \/ /\ copy' = [copy EXCEPT ![w] = queue]
          /\ exposed' = exposed \cup Overlapping
       \/ \* Reading fails: the exception is swallowed, the copy stays empty, and
          \* what is saved later replaces the whole queue.
          /\ copy' = [copy EXCEPT ![w] = Empty]
          /\ exposed' = exposed \cup Overlapping \cup SentKeys(queue)
    /\ UNCHANGED <<queue, events, cancelled, outdated>>

\* schedule_reminder finds a pending or sent one.
AlreadyThere(w) ==
    /\ pc[w] \in {"schedule", "autosend"}
    /\ \E k \in todo[w] : /\ copy[w][k] \in {"pending", "sent"}
                          /\ todo' = [todo EXCEPT ![w] = @ \ {k}]
    /\ UNCHANGED <<queue, pc, copy, events, observers>>

\* schedule_reminder appends a new one and saves.
Append(w) ==
    /\ pc[w] \in {"schedule", "autosend"}
    /\ \E k \in todo[w] : /\ copy[w][k] \notin {"pending", "sent"}
                          /\ todo' = [todo EXCEPT ![w] = @ \ {k}]
                          /\ Set(w, k, "pending")
    /\ Keep(w)
    /\ StillCancelled
    /\ UNCHANGED <<pc, events, exposed, outdated>>

\* The batch is through: answer, or go on to process_pending with the same copy.
Scheduled(w) ==
    /\ todo[w] = {}
    /\ \/ pc[w] = "schedule" /\ Done(w) /\ Forget(w)
       \/ /\ pc[w] = "autosend"
          /\ pc' = [pc EXCEPT ![w] = "process"]
          /\ UNCHANGED <<copy, todo, outdated>>
    /\ UNCHANGED <<queue, events, exposed, cancelled>>

OneMore(n) == IF n < 2 THEN n + 1 ELSE 2

\* (Mutation: only what was sent is passed over, not what was cancelled.)
IsToSendUnlessSent(w, k) == copy[w][k] \in {"pending", "skipped"}

IsToSend(w, k) == copy[w][k] = "pending"

\* (Mutation: the mark is set before the event is written, and stays if that fails.)
SendMarksFirst(w) ==
    /\ pc[w] = "process"
    /\ \E k \in Keys :
         /\ IsToSend(w, k)
         /\ Set(w, k, "sent")
         /\ \/ events' = [events EXCEPT ![k] = OneMore(@)]
            \/ UNCHANGED events
    /\ UNCHANGED <<queue, pc, todo, observers>>

\* One reminder of process_pending: its event is committed, then the copy has it as
\* sent.  When rendering or the insert fails the copy has it as failed; a commit that
\* fails leaves the row to the next commit of the connection.
Send(w) ==
    /\ pc[w] = "process"
    /\ \E k \in Keys :
         /\ IsToSend(w, k)
         /\ \/ /\ Set(w, k, "sent")
               /\ events' = [events EXCEPT ![k] = OneMore(@)]
               /\ UNCHANGED exposed
            \/ /\ Set(w, k, "failed")
               /\ UNCHANGED <<events, exposed>>
            \/ /\ Set(w, k, "failed")
               /\ events' = [events EXCEPT ![k] = OneMore(@)]
               /\ exposed' = exposed \cup {k}
    /\ UNCHANGED <<queue, pc, todo, cancelled, outdated>>

\* (Mutation: the one save at the end is missing.)
ProcessedUnsaved(w) ==
    /\ pc[w] = "process"
    /\ \A k \in Keys : ~IsToSend(w, k)
    /\ Done(w)
    /\ Forget(w)
    /\ UNCHANGED <<queue, events, exposed, cancelled>>

\* process_pending has been through the queue and saves it.
Processed(w) ==
    /\ pc[w] = "process"
    /\ \A k \in Keys : ~IsToSend(w, k)
    /\ queue' = copy[w]
    /\ StillCancelled
    /\ Done(w)
    /\ Forget(w)
    /\ UNCHANGED <<events, exposed>>

\* cancel_reminder.  Only a pending one is skipped and saved, with the rest of the
\* copy; the copies of the other requests are out of date about it.
Cancel(w) ==
    /\ pc[w] = "cancel"
    /\ \E k \in todo[w] :
         IF copy[w][k] = "pending"
           THEN /\ queue' = [copy[w] EXCEPT ![k] = "skipped"]
                /\ cancelled' = {j \in cancelled : queue'[j] # "pending"} \cup {k}
                /\ outdated' = [v \in Workers |->
                      IF v = w \/ pc[v] = "idle" THEN {} ELSE outdated[v] \cup {k}]
           ELSE UNCHANGED <<queue, cancelled>> /\ Forget(w)
    /\ Done(w)
    /\ UNCHANGED <<events, exposed>>

\* clear_processed keeps the pending ones only, and so forgets what was sent.
Clear(w) ==
    /\ pc[w] = "clear"
    /\ queue' = [k \in Keys |-> IF copy[w][k] = "pending" THEN "pending" ELSE "absent"]
    /\ exposed' = exposed \cup SentKeys(copy[w])
    /\ StillCancelled
    /\ Done(w)
    /\ Forget(w)
    /\ UNCHANGED events

\* The process dies or a save raises: the copy is lost with the marks not yet saved.
Die(w) ==
    /\ pc[w] # "idle"
    /\ exposed' = exposed \cup (SentKeys(copy[w]) \ SentKeys(queue))
    /\ Done(w)
    /\ Forget(w)
    /\ UNCHANGED <<queue, events, cancelled>>

Step(w) ==
    \/ AlreadyThere(w)
    \/ Append(w)
    \/ Scheduled(w)
    \/ Send(w)
    \/ Processed(w)
    \/ Cancel(w)
    \/ Clear(w)
    \/ Die(w)

Next ==
    \E w \in Workers :
        \/ \E op \in Ops, keys \in SUBSET Keys : Begin(w, op, keys)
        \/ Step(w)

Spec == Init /\ [][Next]_vars

-----------------------------------------------------------------------------
(* Properties.                                                             *)

\* However often a batch is scheduled and the queue processed, a debtor gets a
\* reminder once, unless the request that sent it died before its save, or two
\* requests worked on a queue that did not have it as sent, or the queue was cleared
\* or could not be read (scheduler.py:188, one save at :312).
OneReminder ==
    \A k \in Keys : events[k] = 2 => k \in exposed

\* What the queue has as sent is in collection_events whatever fails; and once no
\* request is under way, what is in collection_events the queue has as sent, unless
\* the key was exposed.
QueueTellsTruth ==
    \A k \in Keys :
        /\ queue[k] = "sent" => events[k] >= 1
        /\ events[k] >= 1 /\ queue[k] # "sent" =>
             k \in exposed \/ \E w \in Workers : pc[w] # "idle"

\* A cancelled reminder is sent only by a request that loaded the queue before the
\* cancellation was saved, and is pending again only when such a request saves its copy
\* or when it is scheduled anew.  Requests that overlap a cancellation are not exempt: one
\* that loads after the save neither sends the reminder nor brings it back, whoever
\* else is at work.
CancelHolds ==
    [][\A k \in cancelled :
          /\ \A w \in Workers :
               Send(w) /\ copy'[w][k] # copy[w][k] => k \in outdated[w]
          /\ queue'[k] = "pending" =>
               \E w \in Workers :
                  \/ k \in outdated[w] /\ Step(w)
                  \/ Append(w) /\ copy'[w][k] # copy[w][k]]_vars
=============================================================================
