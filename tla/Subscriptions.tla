---------------------------- MODULE Subscriptions ----------------------------
(***************************************************************************)
(* features/billing: the subscription of one tenant, in process memory, and *)
(* its copies at the payment provider.  Payment callbacks of the onboarding *)
(* (activate_pilot) and the cancel endpoint run in a thread pool; the      *)
(* provider's webhook runs in the event loop, one event at a time.  None of *)
(* them takes a lock, and the provider repeats and reorders its events.    *)
(*                                                                         *)
(* A local subscription is made for one at the provider and only finds     *)
(* events through it, so both have one number, given in order of creation. *)
(* start_trial and convert_trial_to_paid have no caller: nobody is on trial.*)
(***************************************************************************)
EXTENDS Integers, Sequences, FiniteSets

CONSTANTS
    Workers,    \* threads that serve callbacks and cancellations
    MaxSubs,    \* bound on the subscriptions the provider makes
    MaxEvents,  \* bound on the events of each
    MaxBilled   \* bound on the invoices of each that recoveries start from

ASSUME SubscriptionAssumption == {MaxSubs, MaxEvents, MaxBilled} \subseteq Nat

VARIABLES
    status,     \* _subscriptions_by_id: the status of each subscription
    current,    \* _subscriptions: the one the tenant has, or 0
    invoices,   \* number of invoices of each
    pc, mine,   \* where each worker is, and the subscription it works on
    handled,    \* the event the webhook is at, or Nothing
    remote,     \* the status of each at the provider
    log,        \* the events the provider has sent of each, oldest first
    seen,       \* observer: how many of them came, each in its turn
    exposed,    \* observer: subscriptions with an event out of turn
    raced,      \* observer: those cancelled under an event or an activation
    mixed       \* observer: an activation had company or replaced a past_due one

store    == <<status, current, invoices>>
threads  == <<pc, mine>>
provider == <<remote, log>>
observed == <<seen, exposed, raced, mixed>>
vars == <<store, threads, handled, provider, observed>>

Subs  == 1..MaxSubs
Kinds == {"paid", "failed", "canceled"}

\* What an event does to a subscription.
Effect == [paid |-> "active", failed |-> "past_due", canceled |-> "canceled"]
Status == {"none", "active", "past_due", "canceled"}

Handlings ==
    [sub : Subs \cup {0}, kind : Kinds, recovers : BOOLEAN, marked : BOOLEAN]

Nothing == [sub |-> 0, kind |-> "paid", recovers |-> FALSE, marked |-> FALSE]

TypeOK ==
    /\ status \in [Subs -> Status]
    /\ current \in Subs \cup {0}
    /\ invoices \in [Subs -> Nat]
    /\ pc \in [Workers -> {"idle", "create", "save", "invoice", "cancel", "canceled"}]
    /\ mine \in [Workers -> Subs \cup {0}]
    /\ handled \in Handlings
    /\ remote \in [Subs -> Status]
    /\ log \in [Subs -> Seq(Kinds)]
    /\ seen \in [Subs -> Nat]
    /\ exposed \subseteq Subs
    /\ raced \subseteq Subs
    /\ mixed \in BOOLEAN

Unsaved == [s \in Subs |-> "none"]
Unpaid  == [s \in Subs |-> 0]
AllIdle == [w \in Workers |-> "idle"]
NoneOf  == [w \in Workers |-> 0]

Init ==
    /\ status = Unsaved /\ current = 0 /\ invoices = Unpaid
    /\ pc = AllIdle /\ mine = NoneOf
    /\ handled = Nothing
    /\ remote = Unsaved /\ log = [s \in Subs |-> <<>>]
    /\ seen = Unpaid /\ exposed = {} /\ raced = {} /\ mixed = FALSE

-----------------------------------------------------------------------------
(* activate_pilot and the cancel endpoint.                                 *)

Goto(w, place, s) ==
    /\ pc' = [pc EXCEPT ![w] = place]
    /\ mine' = [mine EXCEPT ![w] = s]

Leave(w) == Goto(w, "idle", 0)

StatusOf(s) == IF s = 0 THEN "none" ELSE status[s]

\* (Mutation: the tenant's subscription is not looked at.)
IsFreeAlways == TRUE

\* A tenant whose subscription is active is rejected.
IsFree == StatusOf(current) # "active"

Company(w) == handled # Nothing \/ \E v \in Workers \ {w} : pc[v] # "idle"

Ask(w) ==
    /\ pc[w] = "idle"
    /\ IsFree
    /\ Goto(w, "create", 0)
    /\ mixed' = (mixed \/ Company(w) \/ StatusOf(current) = "past_due")
    /\ UNCHANGED <<store, handled, provider, seen, exposed, raced>>

\* The provider makes the customer and the subscription.  A failure ends the
\* callback, before or after the provider has made it.
Create(w) ==
    /\ pc[w] = "create"
    /\ \/ Leave(w) /\ UNCHANGED provider
       \/ \E s \in Subs :
            /\ \A r \in Subs : remote[r] = "none" <=> r >= s
            /\ remote' = [remote EXCEPT ![s] = "active"]
            /\ UNCHANGED log
            /\ Goto(w, "save", s) \/ Leave(w)
    /\ UNCHANGED <<store, handled, observed>>

Save(w) ==
    /\ pc[w] = "save"
    /\ status' = [status EXCEPT ![mine[w]] = "active"]
    /\ current' = mine[w]
    /\ Goto(w, "invoice", mine[w])
    /\ UNCHANGED <<invoices, handled, provider, observed>>

Bill(w) ==
    /\ pc[w] = "invoice"
    /\ invoices' = [invoices EXCEPT ![mine[w]] = @ + 1]
    /\ Leave(w)
    /\ UNCHANGED <<status, current, handled, provider, observed>>

\* The endpoint takes the tenant's subscription and finds it not cancelled.
CancelAsk(w) ==
    /\ pc[w] = "idle"
    /\ StatusOf(current) \in {"active", "past_due"}
    /\ Goto(w, "cancel", current)
    /\ UNCHANGED <<store, handled, provider, observed>>

CancelMark(w) ==
    /\ pc[w] = "cancel"
    /\ status' = [status EXCEPT ![mine[w]] = "canceled"]
    /\ raced' = IF handled.sub = mine[w] THEN raced \cup {mine[w]} ELSE raced
    /\ Goto(w, "canceled", mine[w])
    /\ UNCHANGED <<current, invoices, handled, provider, seen, exposed, mixed>>

\* save_subscription makes it the tenant's, whatever that was.  The provider is not told.
CancelSave(w) ==
    /\ pc[w] = "canceled"
    /\ current' = mine[w]
    /\ Leave(w)
    /\ UNCHANGED <<status, invoices, handled, provider, observed>>

-----------------------------------------------------------------------------
(* handle_webhook_event.                                                   *)

\* The observers: the n-th event of s came.  It is in its turn when it is the first
\* that was not seen, and when the subscription is there.
Came(s, n) ==
    IF n = seen[s] + 1 /\ status[s] # "none"
    THEN seen' = [seen EXCEPT ![s] = n] /\ UNCHANGED exposed
    ELSE exposed' = exposed \cup {s} /\ UNCHANGED seen

\* An event of a subscription that is not (yet) known is answered and forgotten.
Unknown(s, n) ==
    /\ handled = Nothing
    /\ status[s] = "none"
    /\ n \in DOMAIN log[s]
    /\ Came(s, n)
    /\ UNCHANGED <<store, threads, handled, provider, raced, mixed>>

\* (Mutation: a payment brings a cancelled subscription back.)
IsFinalUnlessPaid(s, kind) == status[s] = "canceled" /\ kind # "paid"

\* What is cancelled stays so.
IsFinal(s, kind) == status[s] = "canceled"

Ignored(s, n) ==
    /\ handled = Nothing
    /\ n \in DOMAIN log[s]
    /\ IsFinal(s, log[s][n])
    /\ Came(s, n)
    /\ UNCHANGED <<store, threads, handled, provider, raced, mixed>>

Receive(s, n) ==
    /\ handled = Nothing
    /\ n \in DOMAIN log[s]
    /\ status[s] # "none" /\ ~IsFinal(s, log[s][n])
    /\ handled' = [sub |-> s, kind |-> log[s][n],
                   recovers |-> log[s][n] = "paid" /\ status[s] = "past_due",
                   marked |-> FALSE]
    /\ handled'.recovers => invoices[s] < MaxBilled
    /\ Came(s, n)
    /\ UNCHANGED <<store, threads, provider, raced, mixed>>

\* The status is written on the strength of what was read.
HandleMark ==
    /\ handled # Nothing /\ ~handled.marked
    /\ status' = [status EXCEPT ![handled.sub] = Effect[handled.kind]]
    /\ handled' = [handled EXCEPT !.marked = TRUE]
    /\ UNCHANGED <<current, invoices, threads, provider, observed>>

\* (Mutation: every payment is taken for a recovery.)
HandleSaveBills ==
    /\ handled.marked
    /\ current' = handled.sub
    /\ invoices' = IF handled.kind = "paid"
                   THEN [invoices EXCEPT ![handled.sub] = @ + 1] ELSE invoices
    /\ handled' = Nothing
    /\ UNCHANGED <<status, threads, provider, observed>>

\* save_subscription makes it the tenant's; a recovery gets an invoice.
HandleSave ==
    /\ handled.marked
    /\ current' = handled.sub
    /\ invoices' = IF handled.recovers
                   THEN [invoices EXCEPT ![handled.sub] = @ + 1] ELSE invoices
    /\ handled' = Nothing
    /\ UNCHANGED <<status, threads, provider, observed>>

-----------------------------------------------------------------------------
\* The provider charges, fails to, or ends a subscription, and sends an event.
ProviderEvent(s, kind) ==
    /\ remote[s] \in {"active", "past_due"}
    /\ Len(log[s]) < MaxEvents
    /\ remote' = [remote EXCEPT ![s] = Effect[kind]]
    /\ log' = [log EXCEPT ![s] = Append(@, kind)]
    /\ UNCHANGED <<store, threads, handled, observed>>

\* The process starts again: its memory is empty.
Restart ==
    /\ status' = Unsaved /\ current' = 0 /\ invoices' = Unpaid
    /\ pc' = AllIdle /\ mine' = NoneOf
    /\ handled' = Nothing
    /\ raced' = {} /\ mixed' = FALSE
    /\ UNCHANGED <<provider, seen, exposed>>

Worker(w) ==
    \/ Ask(w)
    \/ Create(w)
    \/ Save(w)
    \/ Bill(w)
    \/ CancelAsk(w)
    \/ CancelMark(w)
    \/ CancelSave(w)

Webhook ==
    \/ \E s \in Subs : \E n \in 1..MaxEvents :
         \/ Unknown(s, n)
         \/ Ignored(s, n)
         \/ Receive(s, n)
    \/ HandleMark
    \/ HandleSave

Next ==
    \/ \E w \in Workers : Worker(w)
    \/ Webhook
    \/ \E s \in Subs, kind \in Kinds : ProviderEvent(s, kind)
    \/ Restart

Spec == Init /\ [][Next]_vars

-----------------------------------------------------------------------------
(* Properties.                                                             *)

\* A subscription somebody is at work on.
Busy(s) == handled.sub = s \/ \E w \in Workers : mine[w] = s

\* A cancelled subscription is not brought back by an event that comes late, twice or
\* in the wrong order, only by one that was being handled as the user cancelled
\* (service.py:307 reads, :310 writes), and by a restart.
CanceledStays ==
    [][\A s \in Subs : status[s] = "canceled" =>
         status'[s] \in {"canceled", "none"} \/ s \in raced]_vars

\* The live subscription is the one the tenant has, so that cancel reaches it and a
\* second activation is rejected: unless an activation overlapped other work or
\* replaced a past_due subscription (service.py:131-181), or a cancel was raced.
LiveIsCurrent ==
    ~mixed /\ raced = {} =>
        \A s \in Subs : status[s] \in {"active", "past_due"} => current = s

Recoveries(s) ==
    Cardinality({n \in 2..seen[s] : log[s][n] = "paid" /\ log[s][n - 1] = "failed"})

\* Between events a subscription that is not cancelled has the status of the last event
\* the provider sent, and an invoice for its activation and for each recovery, unless
\* an event came out of turn, twice, or before the activation had been saved.
FollowsProvider ==
    \A s \in Subs \ (exposed \cup raced) :
        status[s] \in {"active", "past_due"} /\ ~Busy(s) =>
            /\ status[s] = IF seen[s] = 0 THEN "active" ELSE Effect[log[s][seen[s]]]
            /\ invoices[s] = 1 + Recoveries(s)
=============================================================================
