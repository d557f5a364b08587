-------------------------- MODULE SubscriptionsProofs --------------------------
(***************************************************************************)
(* Proofs about Subscriptions, for any number of threads, subscriptions and *)
(* events.  Three inductions on top of the types: a status other than      *)
(* "none" is written once per number and by whoever made it (Made), what   *)
(* holds of the tenant while nothing was mixed or raced (Orderly), and the *)
(* books of events and invoices (Recorded, Followed).                      *)
(***************************************************************************)
EXTENDS Subscriptions, FiniteSetTheorems, TLAPS

Live(s) == status[s] \in {"active", "past_due"}

Created(w) == pc[w] \in {"save", "invoice", "cancel", "canceled"}

\* Whoever is past the creation works on a subscription of the provider, and a callback
\* about to save has it to itself.
Made ==
    /\ \A w \in Workers : Created(w) => mine[w] \in Subs /\ remote[mine[w]] # "none"
    /\ \A s \in Subs : status[s] # "none" => remote[s] # "none"
    /\ current # 0 => remote[current] # "none"
    /\ \A w \in Workers : Created(w) => (status[mine[w]] = "none" <=> pc[w] = "save")
    /\ \A v, w \in Workers : pc[v] = "save" /\ pc[w] = "save" /\ mine[v] = mine[w] => v = w

\* The webhook is at a known subscription, and one that was cancelled under it is raced.
Handling ==
    handled # Nothing =>
        /\ handled.sub \in Subs /\ status[handled.sub] # "none"
        /\ status[handled.sub] = "canceled" => handled.marked \/ handled.sub \in raced

IInv == TypeOK /\ Made /\ Handling

\* What keeps the live subscription the tenant's own.
Orderly ==
    ~mixed /\ raced = {} =>
        /\ \A s \in Subs : Live(s) => current = s
        /\ \A w \in Workers : pc[w] \in {"create", "save"} =>
             /\ \A v \in Workers \ {w} : pc[v] = "idle"
             /\ handled = Nothing
             /\ \A s \in Subs : ~Live(s)
        /\ \A w \in Workers : pc[w] \in {"cancel", "canceled"} => mine[w] = current
        /\ handled # Nothing => handled.sub = current

-----------------------------------------------------------------------------
LEMMA NothingIsHandling == Nothing \in Handlings
BY DEF Nothing, Handlings, Kinds

LEMMA EffectType == \A k \in Kinds : Effect[k] \in Status \ {"none"}
BY DEF Effect, Kinds, Status

LEMMA InitIInv == Init => IInv /\ Orderly
<1> SUFFICES ASSUME Init PROVE IInv /\ Orderly
  OBVIOUS
<1>1. TypeOK
  <2>1. log \in [Subs -> Seq(Kinds)]
    BY DEF Init
  <2>2. status \in [Subs -> Status] /\ remote \in [Subs -> Status]
    BY DEF Init, Unsaved, Status
  <2>3. invoices \in [Subs -> Nat] /\ seen \in [Subs -> Nat]
    BY DEF Init, Unpaid
  <2> QED
    BY <2>1, <2>2, <2>3, NothingIsHandling DEF Init, TypeOK, AllIdle, NoneOf
<1>2. Made /\ Handling /\ Orderly
  BY DEF Init, Made, Handling, Orderly, Created, Live, Unsaved, AllIdle
<1> QED
  BY <1>1, <1>2 DEF IInv

LEMMA CameType ==
    ASSUME TypeOK, NEW s \in Subs, NEW n \in Nat, Came(s, n)
    PROVE  seen' \in [Subs -> Nat] /\ exposed' \subseteq Subs
BY DEF TypeOK, Came

LEMMA TypeStep == IInv /\ [Next]_vars => TypeOK'
<1> SUFFICES ASSUME IInv, [Next]_vars PROVE TypeOK'
  OBVIOUS
<1> USE DEF IInv, TypeOK, Goto, Leave, store, threads, provider, observed
<1>0. CASE UNCHANGED vars
  BY <1>0 DEF vars
<1>1. ASSUME NEW w \in Workers, Ask(w) PROVE TypeOK'
  BY <1>1 DEF Ask, Company
<1>2. ASSUME NEW w \in Workers, Create(w) PROVE TypeOK'
  <2>1. /\ remote' \in [Subs -> Status] /\ log' = log
        /\ Leave(w) \/ \E s \in Subs : Goto(w, "save", s)
    BY <1>2 DEF Create, Status
  <2>2. mine' \in [Workers -> Subs \cup {0}]
    BY <2>1
  <2>3. pc' = [pc EXCEPT ![w] = "idle"] \/ pc' = [pc EXCEPT ![w] = "save"]
    BY <2>1
  <2> QED
    BY <1>2, <2>1, <2>2, <2>3 DEF Create
<1>3. ASSUME NEW w \in Workers, Save(w) PROVE TypeOK'
  <2>1. mine[w] \in Subs
    BY <1>3 DEF Save, Made, Created
  <2> QED
    BY <1>3, <2>1 DEF Save, Status
<1>4. ASSUME NEW w \in Workers, Bill(w) PROVE TypeOK'
  <2>1. mine[w] \in Subs
    BY <1>4 DEF Bill, Made, Created
  <2>2. invoices' \in [Subs -> Nat]
    BY <1>4, <2>1 DEF Bill
  <2> QED
    BY <1>4, <2>2 DEF Bill
<1>5. ASSUME NEW w \in Workers, CancelAsk(w) PROVE TypeOK'
  BY <1>5 DEF CancelAsk
<1>6. ASSUME NEW w \in Workers, CancelMark(w) PROVE TypeOK'
  <2>1. mine[w] \in Subs
    BY <1>6 DEF CancelMark, Made, Created
  <2> QED
    BY <1>6, <2>1 DEF CancelMark, Status
<1>7. ASSUME NEW w \in Workers, CancelSave(w) PROVE TypeOK'
  BY <1>7 DEF CancelSave
<1>8. ASSUME NEW s \in Subs, NEW n \in 1..MaxEvents, Unknown(s, n) \/ Ignored(s, n)
      PROVE  TypeOK'
  <2>1. seen' \in [Subs -> Nat] /\ exposed' \subseteq Subs
    BY <1>8, CameType, SubscriptionAssumption DEF Unknown, Ignored
  <2> QED
    BY <1>8, <2>1 DEF Unknown, Ignored
<1>9. ASSUME NEW s \in Subs, NEW n \in 1..MaxEvents, Receive(s, n) PROVE TypeOK'
  <2>1. seen' \in [Subs -> Nat] /\ exposed' \subseteq Subs
    BY <1>9, CameType, SubscriptionAssumption DEF Receive
  <2>2. log[s][n] \in Kinds
    BY <1>9 DEF Receive
  <2>3. handled' \in Handlings
    BY <1>9, <2>2 DEF Receive, Handlings
  <2> QED
    BY <1>9, <2>1, <2>3 DEF Receive
<1>10. CASE HandleMark
  <2>1. handled.kind \in Kinds /\ handled' \in Handlings
    BY <1>10 DEF HandleMark, Handlings
  <2>2. status' \in [Subs -> Status]
    BY <1>10, <2>1, EffectType DEF HandleMark
  <2> QED
    BY <1>10, <2>1, <2>2 DEF HandleMark
<1>11. CASE HandleSave
  <2>1. handled.sub \in Subs \cup {0}
    BY DEF Handlings
  <2>2. invoices' = invoices
          \/ invoices' = [invoices EXCEPT ![handled.sub] = invoices[handled.sub] + 1]
    BY <1>11 DEF HandleSave
  <2>3. invoices' \in [Subs -> Nat]
    <3>1. CASE invoices' = invoices
      BY <3>1
    <3>2. CASE invoices' = [invoices EXCEPT ![handled.sub] = invoices[handled.sub] + 1]
      <4>1. \A s \in Subs : invoices[s] + 1 \in Nat
        OBVIOUS
      <4> QED
        BY <3>2, <4>1
    <3> QED
      BY <2>2, <3>1, <3>2
  <2> QED
    BY <1>11, <2>1, <2>3, NothingIsHandling DEF HandleSave
<1>12. ASSUME NEW s \in Subs, NEW kind \in Kinds, ProviderEvent(s, kind) PROVE TypeOK'
  <2>1. log' \in [Subs -> Seq(Kinds)]
    BY <1>12 DEF ProviderEvent
  <2>2. remote' \in [Subs -> Status]
    BY <1>12, EffectType DEF ProviderEvent
  <2> QED
    BY <1>12, <2>1, <2>2 DEF ProviderEvent
<1>13. CASE Restart
  BY <1>13, NothingIsHandling DEF Restart, Unsaved, Unpaid, AllIdle, NoneOf, Status
<1> QED
  BY <1>0, <1>1, <1>2, <1>3, <1>4, <1>5, <1>6, <1>7, <1>8, <1>9, <1>10, <1>11, <1>12,
     <1>13 DEF Next, Worker, Webhook

LEMMA MadeStep == IInv /\ [Next]_vars => Made'
<1> SUFFICES ASSUME IInv, [Next]_vars PROVE Made'
  OBVIOUS
<1> USE SubscriptionAssumption
    DEF IInv, TypeOK, Made, Created, Subs, Status, Goto, Leave, StatusOf, store,
        threads, provider, observed
<1>0. CASE UNCHANGED vars
  BY <1>0 DEF vars
<1>1. ASSUME NEW w \in Workers, Ask(w) PROVE Made'
  BY <1>1 DEF Ask
<1>2. ASSUME NEW w \in Workers, Create(w) PROVE Made'
  <2>1. CASE Leave(w) /\ UNCHANGED provider
    BY <1>2, <2>1 DEF Create
  <2>2. ASSUME NEW s \in Subs,
               \A r \in Subs : remote[r] = "none" <=> r >= s,
               remote' = [remote EXCEPT ![s] = "active"],
               Goto(w, "save", s) \/ Leave(w)
        PROVE  Made'
    <3>1. remote[s] = "none"
      BY <2>2
    <3>2. status' = status /\ current' = current
      BY <1>2 DEF Create
    <3>3. CASE Goto(w, "save", s)
      BY <2>2, <3>1, <3>2, <3>3
    <3>4. CASE Leave(w)
      BY <2>2, <3>1, <3>2, <3>4
    <3> QED
      BY <2>2, <3>3, <3>4
  <2> QED
    BY <1>2, <2>1, <2>2 DEF Create
<1>3. ASSUME NEW w \in Workers, Save(w) PROVE Made'
  BY <1>3 DEF Save
<1>4. ASSUME NEW w \in Workers, Bill(w) PROVE Made'
  BY <1>4 DEF Bill
<1>5. ASSUME NEW w \in Workers, CancelAsk(w) PROVE Made'
  BY <1>5 DEF CancelAsk
<1>6. ASSUME NEW w \in Workers, CancelMark(w) PROVE Made'
  <2>1. mine' = mine /\ pc' = [pc EXCEPT ![w] = "canceled"] /\ pc[w] = "cancel"
    BY <1>6 DEF CancelMark
  <2>2. UNCHANGED <<remote, current>> /\ status' = [status EXCEPT ![mine[w]] = "canceled"]
    BY <1>6 DEF CancelMark
  <2>3. mine[w] \in Subs /\ status[mine[w]] # "none"
    BY <2>1
  <2>4. \A s \in Subs : status'[s] = "none" <=> status[s] = "none"
    BY <2>2, <2>3
  <2>5. \A v \in Workers :
          /\ Created(v)' <=> Created(v)
          /\ pc'[v] = "save" <=> pc[v] = "save"
    BY <2>1
  <2>6. \A v \in Workers : pc'[v] \in {"save", "invoice", "cancel", "canceled"} =>
          /\ mine'[v] \in Subs /\ remote'[mine'[v]] # "none"
          /\ status'[mine'[v]] = "none" <=> pc'[v] = "save"
    <3> TAKE v \in Workers
    <3>1. Created(v) => /\ mine[v] \in Subs /\ remote[mine[v]] # "none"
                        /\ status[mine[v]] = "none" <=> pc[v] = "save"
      OBVIOUS
    <3>2. Created(v)' <=> Created(v)
      BY <2>5
    <3> HIDE DEF IInv, TypeOK, Made
    <3> QED
      BY <2>1, <2>2, <2>4, <2>5, <3>1, <3>2
  <2>7. \A u, v \in Workers :
          pc'[u] = "save" /\ pc'[v] = "save" /\ mine'[u] = mine'[v] => u = v
    BY <2>1, <2>5
  <2>8. \A s \in Subs : status'[s] # "none" => remote'[s] # "none"
    BY <2>2, <2>4
  <2> QED
    BY <2>2, <2>6, <2>7, <2>8
<1>7. ASSUME NEW w \in Workers, CancelSave(w) PROVE Made'
  BY <1>7 DEF CancelSave
<1>8. ASSUME NEW s \in Subs, NEW n \in 1..MaxEvents,
             Unknown(s, n) \/ Ignored(s, n) \/ Receive(s, n)
      PROVE  Made'
  BY <1>8 DEF Unknown, Ignored, Receive
<1>9. CASE HandleMark
  <2>1. handled.kind \in Kinds /\ handled.sub \in Subs /\ status[handled.sub] # "none"
    BY <1>9 DEF HandleMark, Handling, Handlings
  <2>2. \A s \in Subs : status'[s] = "none" <=> status[s] = "none"
    BY <1>9, <2>1, EffectType DEF HandleMark
  <2> QED
    BY <1>9, <2>2 DEF HandleMark
<1>10. CASE HandleSave
  BY <1>10 DEF HandleSave, Handling, Nothing
<1>11. ASSUME NEW s \in Subs, NEW kind \in Kinds, ProviderEvent(s, kind) PROVE Made'
  <2>1. \A r \in Subs : remote[r] # "none" => remote'[r] # "none"
    BY <1>11, EffectType DEF ProviderEvent
  <2> QED
    BY <1>11, <2>1 DEF ProviderEvent
<1>12. CASE Restart
  BY <1>12 DEF Restart, Unsaved, Unpaid, AllIdle, NoneOf
<1> QED
  BY <1>0, <1>1, <1>2, <1>3, <1>4, <1>5, <1>6, <1>7, <1>8, <1>9, <1>10, <1>11, <1>12
     DEF Next, Worker, Webhook

LEMMA HandlingStep == IInv /\ [Next]_vars => Handling'
<1> SUFFICES ASSUME IInv, [Next]_vars PROVE Handling'
  OBVIOUS
<1> USE DEF IInv, TypeOK, Handling, Goto, Leave, store, threads, provider, observed
<1>0. CASE UNCHANGED vars
  BY <1>0 DEF vars
<1>1. ASSUME NEW w \in Workers,
             \/ Ask(w) \/ Create(w) \/ Bill(w) \/ CancelAsk(w) \/ CancelSave(w)
      PROVE  Handling'
  BY <1>1 DEF Ask, Create, Bill, CancelAsk, CancelSave
<1>2. ASSUME NEW w \in Workers, Save(w) PROVE Handling'
  BY <1>2 DEF Save
<1>3. ASSUME NEW w \in Workers, CancelMark(w) PROVE Handling'
  BY <1>3 DEF CancelMark
<1>4. ASSUME NEW s \in Subs, NEW n \in 1..MaxEvents, Unknown(s, n) \/ Ignored(s, n)
      PROVE  Handling'
  BY <1>4 DEF Unknown, Ignored
<1>5. ASSUME NEW s \in Subs, NEW n \in 1..MaxEvents, Receive(s, n) PROVE Handling'
  BY <1>5 DEF Receive, IsFinal
<1>6. CASE HandleMark
  <2>1. handled.kind \in Kinds /\ handled' = [handled EXCEPT !.marked = TRUE]
    BY <1>6 DEF HandleMark, Handlings
  <2>2. handled'.sub = handled.sub /\ handled'.marked
    BY <2>1 DEF Handlings
  <2>3. status' = [status EXCEPT ![handled.sub] = Effect[handled.kind]]
    BY <1>6 DEF HandleMark
  <2> QED
    BY <1>6, <2>1, <2>2, <2>3, EffectType DEF HandleMark
<1>7. CASE HandleSave
  BY <1>7 DEF HandleSave
<1>8. ASSUME NEW s \in Subs, NEW kind \in Kinds, ProviderEvent(s, kind) PROVE Handling'
  BY <1>8 DEF ProviderEvent
<1>9. CASE Restart
  BY <1>9 DEF Restart
<1> QED
  BY <1>0, <1>1, <1>2, <1>3, <1>4, <1>5, <1>6, <1>7, <1>8, <1>9 DEF Next, Worker, Webhook

\* The types of everything the program keeps and of the observers.
THEOREM TypeCorrect == Spec => []TypeOK
<1>1. Init => IInv
  BY InitIInv
<1>2. IInv /\ [Next]_vars => IInv'
  BY TypeStep, MadeStep, HandlingStep DEF IInv
<1>3. IInv => TypeOK
  BY DEF IInv
<1> QED
  BY <1>1, <1>2, <1>3, PTL DEF Spec

-----------------------------------------------------------------------------
LEMMA CanceledStep ==
    ASSUME IInv, [Next]_vars, NEW s \in Subs, status[s] = "canceled"
    PROVE  status'[s] \in {"canceled", "none"} \/ s \in raced
<1> USE DEF IInv, TypeOK, store, threads, provider, observed
<1>0. CASE UNCHANGED vars
  BY <1>0 DEF vars
<1>1. ASSUME NEW w \in Workers,
             \/ Ask(w) \/ Create(w) \/ Bill(w) \/ CancelAsk(w) \/ CancelSave(w)
      PROVE  status' = status
  BY <1>1 DEF Ask, Create, Bill, CancelAsk, CancelSave
<1>2. ASSUME NEW w \in Workers, Save(w) PROVE status'[s] = "canceled"
  <2>1. status[mine[w]] = "none"
    BY <1>2 DEF Save, Made, Created
  <2> QED
    BY <1>2, <2>1 DEF Save
<1>3. ASSUME NEW w \in Workers, CancelMark(w) PROVE status'[s] = "canceled"
  BY <1>3 DEF CancelMark
<1>4. ASSUME NEW r \in Subs, NEW n \in 1..MaxEvents,
             Unknown(r, n) \/ Ignored(r, n) \/ Receive(r, n)
      PROVE  status' = status
  BY <1>4 DEF Unknown, Ignored, Receive
<1>5. CASE HandleMark
  BY <1>5 DEF HandleMark, Handling
<1>6. CASE HandleSave
  BY <1>6 DEF HandleSave
<1>7. ASSUME NEW r \in Subs, NEW kind \in Kinds, ProviderEvent(r, kind)
      PROVE  status' = status
  BY <1>7 DEF ProviderEvent
<1>8. CASE Restart
  BY <1>8 DEF Restart, Unsaved
<1> QED
  BY <1>0, <1>1, <1>2, <1>3, <1>4, <1>5, <1>6, <1>7, <1>8 DEF Next, Worker, Webhook

\* No late, repeated or reordered event brings a cancelled subscription back; only one
\* that was being handled as the user cancelled does (service.py:307-310).
THEOREM CancelIsFinal == Spec => CanceledStays
<1>1. Init => IInv
  BY InitIInv
<1>2. IInv /\ [Next]_vars => IInv'
  BY TypeStep, MadeStep, HandlingStep DEF IInv
<1>3. IInv /\ [Next]_vars =>
        [\A s \in Subs : status[s] = "canceled" =>
           status'[s] \in {"canceled", "none"} \/ s \in raced]_vars
  BY CanceledStep
<1>4. CanceledStays <=>
        [][\A s \in Subs : status[s] = "canceled" =>
             status'[s] \in {"canceled", "none"} \/ s \in raced]_vars
  BY DEF CanceledStays
<1> QED
  BY <1>1, <1>2, <1>3, <1>4, PTL DEF Spec

-----------------------------------------------------------------------------
LEMMA OrderlyStep == IInv /\ Orderly /\ [Next]_vars => Orderly'
<1> SUFFICES ASSUME IInv, Orderly, [Next]_vars, ~mixed', raced' = {} PROVE Orderly'
  BY DEF Orderly
<1> USE DEF IInv, TypeOK, Orderly, Live, Goto, Leave, StatusOf, store, threads, provider,
            observed
<1>0. CASE UNCHANGED vars
  BY <1>0 DEF vars
<1>1. ASSUME NEW w \in Workers, Ask(w) PROVE Orderly'
  <2>1. ~mixed /\ raced = {} /\ ~Company(w) /\ StatusOf(current) # "past_due"
    BY <1>1 DEF Ask
  <2>2. \A s \in Subs : ~Live(s)
    BY <1>1, <2>1, SubscriptionAssumption DEF Ask, IsFree, Subs
  <2> QED
    BY <1>1, <2>1, <2>2 DEF Ask, Company
<1>2. ASSUME NEW w \in Workers, Create(w) PROVE Orderly'
  <2>1. ~mixed /\ raced = {} /\ UNCHANGED <<status, current, handled>>
    BY <1>2 DEF Create
  <2>2. \/ pc' = [pc EXCEPT ![w] = "idle"] /\ mine' = [mine EXCEPT ![w] = 0]
        \/ \E s \in Subs : pc' = [pc EXCEPT ![w] = "save"] /\ mine' = [mine EXCEPT ![w] = s]
    BY <1>2 DEF Create
  <2>3. pc[w] = "create"
    BY <1>2 DEF Create
  <2>4. \A v \in Workers : /\ pc'[v] \in {"create", "save"} => v = w
                           /\ pc'[v] \notin {"cancel", "canceled"}
    BY <2>1, <2>2, <2>3
  <2>5. /\ \A v \in Workers \ {w} : pc'[v] = "idle"
        /\ handled' = Nothing /\ \A s \in Subs : ~Live(s)'
    BY <2>1, <2>2, <2>3
  <2> QED
    BY <2>1, <2>4, <2>5
<1>3. ASSUME NEW w \in Workers, Save(w) PROVE Orderly'
  <2>1. mine[w] \in Subs
    BY <1>3 DEF Save, Made, Created
  <2> QED
    BY <1>3, <2>1 DEF Save
<1>4. ASSUME NEW w \in Workers, Bill(w) PROVE Orderly'
  BY <1>4 DEF Bill
<1>5. ASSUME NEW w \in Workers, CancelAsk(w) PROVE Orderly'
  BY <1>5 DEF CancelAsk
<1>6. ASSUME NEW w \in Workers, CancelMark(w) PROVE Orderly'
  <2>1. ~mixed /\ raced = {} /\ mine[w] = current /\ mine[w] \in Subs
    BY <1>6 DEF CancelMark, Made, Created
  <2>2. handled = Nothing
    BY <1>6, <2>1 DEF CancelMark
  <2>3. mine' = mine /\ pc' = [pc EXCEPT ![w] = "canceled"] /\ pc[w] = "cancel"
    BY <1>6 DEF CancelMark
  <2>4. \A s \in Subs : ~Live(s)'
    BY <1>6, <2>1 DEF CancelMark
  <2>5. UNCHANGED <<current, handled>>
    BY <1>6 DEF CancelMark
  <2> HIDE DEF Live
  <2> QED
    BY <2>1, <2>2, <2>3, <2>4, <2>5
<1>7. ASSUME NEW w \in Workers, CancelSave(w) PROVE Orderly'
  BY <1>7 DEF CancelSave
<1>8. ASSUME NEW s \in Subs, NEW n \in 1..MaxEvents, Unknown(s, n) \/ Ignored(s, n)
      PROVE  Orderly'
  BY <1>8 DEF Unknown, Ignored
<1>9. ASSUME NEW s \in Subs, NEW n \in 1..MaxEvents, Receive(s, n) PROVE Orderly'
  <2>1. ~mixed /\ raced = {} /\ Live(s) /\ handled'.sub = s
    BY <1>9 DEF Receive, IsFinal, Status
  <2> QED
    BY <1>9, <2>1 DEF Receive
<1>10. CASE HandleMark
  <2>1. ~mixed /\ raced = {} /\ handled'.sub = handled.sub /\ handled.sub = current
    BY <1>10 DEF HandleMark, Handlings
  <2> QED
    BY <1>10, <2>1 DEF HandleMark
<1>11. CASE HandleSave
  <2>1. handled # Nothing
    BY <1>11 DEF HandleSave, Nothing
  <2> QED
    BY <1>11, <2>1 DEF HandleSave
<1>12. ASSUME NEW s \in Subs, NEW kind \in Kinds, ProviderEvent(s, kind) PROVE Orderly'
  BY <1>12 DEF ProviderEvent
<1>13. CASE Restart
  BY <1>13 DEF Restart, Unsaved, AllIdle
<1> QED
  BY <1>0, <1>1, <1>2, <1>3, <1>4, <1>5, <1>6, <1>7, <1>8, <1>9, <1>10, <1>11, <1>12,
     <1>13 DEF Next, Worker, Webhook

\* The live subscription is the one that cancel and the next activation look at, as long
\* as no activation had company or replaced a past_due one and no cancel was raced.
THEOREM TenantHasTheLiveOne == Spec => []LiveIsCurrent
<1>1. Init => IInv /\ Orderly
  BY InitIInv
<1>2. IInv /\ Orderly /\ [Next]_vars => (IInv /\ Orderly)'
  BY TypeStep, MadeStep, HandlingStep, OrderlyStep DEF IInv
<1>3. Orderly => LiveIsCurrent
  BY DEF Orderly, LiveIsCurrent, Live
<1> QED
  BY <1>1, <1>2, <1>3, PTL DEF Spec

-----------------------------------------------------------------------------
(* What a subscription whose events came in turn shows of the provider.    *)

\* The bookkeeping of events and invoices, whatever was exposed or raced.
Recorded ==
    /\ \A s \in Subs : seen[s] <= Len(log[s])
    /\ \A s \in Subs : remote[s] = "none" => log[s] = <<>>
    /\ \A s \in Subs : status[s] = "none" => invoices[s] = 0
    /\ \A w \in Workers : pc[w] = "save" =>
         mine[w] \in exposed \/ seen[mine[w]] = 0
    /\ \A v, w \in Workers :
         pc[v] = "invoice" /\ pc[w] = "invoice" /\ mine[v] = mine[w] => v = w

RecoversAt(s, n) == log[s][n] = "paid" /\ log[s][n - 1] = "failed"

Recovered(s) == {n \in 2..seen[s] : RecoversAt(s, n)}

Expected(s) == IF seen[s] = 0 THEN "active" ELSE Effect[log[s][seen[s]]]

\* The invoices there are by now: that of the activation, unless it is still to come,
\* and those of the recoveries, unless the event that is handled is one.
Activated(s) == IF \E w \in Workers : pc[w] = "invoice" /\ mine[w] = s THEN 0 ELSE 1

Pending(s) == IF handled.sub = s /\ handled.recovers THEN 1 ELSE 0

StatusFollows(s) == Live(s) /\ (handled.sub # s \/ handled.marked) => status[s] = Expected(s)

HandledIsLast(s) ==
    handled.sub = s =>
        /\ seen[s] >= 1
        /\ handled.kind = log[s][seen[s]]
        /\ handled.recovers <=> seen[s] >= 2 /\ RecoversAt(s, seen[s])

InvoicesFollow(s) == Live(s) => invoices[s] + Pending(s) = Activated(s) + Recoveries(s)

Followed ==
    \A s \in Subs \ (exposed \cup raced) :
        StatusFollows(s) /\ HandledIsLast(s) /\ InvoicesFollow(s)

LEMMA CountType == ASSUME NEW s \in Subs, TypeOK PROVE Recoveries(s) \in Nat
<1>1. Recovered(s) \in SUBSET (2..seen[s])
  BY DEF Recovered
<1>2. 2 \in Int /\ seen[s] \in Int
  BY DEF TypeOK
<1>3. IsFiniteSet(2..seen[s])
  BY <1>2, FS_Interval
<1>4. IsFiniteSet(Recovered(s))
  BY <1>1, <1>3, FS_Subset
<1> QED
  BY <1>4, FS_CardinalityType DEF Recoveries, Recovered, RecoversAt

LEMMA NothingSeen ==
    ASSUME NEW s \in Subs, seen[s] = 0
    PROVE  Recoveries(s) = 0 /\ Expected(s) = "active"
<1>1. {n \in 2..seen[s] : log[s][n] = "paid" /\ log[s][n - 1] = "failed"} = {}
  OBVIOUS
<1> QED
  BY <1>1, FS_EmptySet DEF Recoveries, Expected

\* What was seen does not change when the provider sends more.
LEMMA SeenStays ==
    ASSUME TypeOK, NEW s \in Subs, seen'[s] = seen[s],
           \A n \in 1..seen[s] : log'[s][n] = log[s][n]
    PROVE  /\ Recoveries(s)' = Recoveries(s)
           /\ Expected(s)' = Expected(s)
           /\ seen[s] >= 1 => log'[s][seen[s]] = log[s][seen[s]]
           /\ seen[s] >= 2 => (RecoversAt(s, seen[s])' <=> RecoversAt(s, seen[s]))
<1>1. seen[s] \in Nat
  BY DEF TypeOK
<1>2. \A n \in 2..seen[s] : n \in 1..seen[s] /\ n - 1 \in 1..seen[s]
  BY <1>1
<1>3. {n \in 2..seen'[s] : log'[s][n] = "paid" /\ log'[s][n - 1] = "failed"} =
      {n \in 2..seen[s] : log[s][n] = "paid" /\ log[s][n - 1] = "failed"}
  BY <1>2
<1>4. Recoveries(s)' = Recoveries(s)
  BY <1>3 DEF Recoveries
<1> QED
  BY <1>1, <1>2, <1>4 DEF Expected, RecoversAt

LEMMA OneMoreSeen ==
    ASSUME TypeOK, NEW s \in Subs, log' = log, seen'[s] = seen[s] + 1
    PROVE  Recoveries(s)' = Recoveries(s) +
             (IF seen[s] + 1 >= 2 /\ RecoversAt(s, seen[s] + 1) THEN 1 ELSE 0)
<1> DEFINE n == seen[s] + 1
<1>1. seen[s] \in Nat
  BY DEF TypeOK
<1>2. Recovered(s)' = IF n >= 2 /\ RecoversAt(s, n) THEN Recovered(s) \cup {n}
                                                    ELSE Recovered(s)
  <2>1. Recovered(s)' = {m \in 2..n : RecoversAt(s, m)}
    BY DEF Recovered, RecoversAt
  <2>2. \A m \in Int : m \in 2..n <=> m \in 2..seen[s] \/ (m = n /\ n >= 2)
    BY <1>1
  <2>3. \A m : m \in Recovered(s)' <=>
                 m \in Recovered(s) \/ (m = n /\ n >= 2 /\ RecoversAt(s, n))
    BY <2>1, <2>2, <1>1 DEF Recovered
  <2> HIDE DEF n
  <2> QED
    BY <2>3
<1>3. n \notin Recovered(s)
  BY <1>1 DEF Recovered
<1>4. IsFiniteSet(Recovered(s))
  <2>1. 2 \in Int /\ seen[s] \in Int
    BY <1>1
  <2>2. IsFiniteSet(2..seen[s])
    BY <2>1, FS_Interval
  <2> QED
    BY <2>2, FS_Subset DEF Recovered
<1>5. Recoveries(s) = Cardinality(Recovered(s)) /\ Recoveries(s)' = Cardinality(Recovered(s)')
  BY DEF Recoveries, Recovered, RecoversAt
<1>6. Recoveries(s) \in Nat
  BY CountType
<1>7. CASE n >= 2 /\ RecoversAt(s, n)
  <2>1. Cardinality(Recovered(s) \cup {n}) = Cardinality(Recovered(s)) + 1
    BY <1>3, <1>4, FS_AddElement
  <2> QED
    BY <1>2, <1>5, <1>7, <2>1
<1>8. CASE ~(n >= 2 /\ RecoversAt(s, n))
  BY <1>2, <1>5, <1>6, <1>8
<1> QED
  BY <1>7, <1>8

LEMMA RecordedStep == IInv /\ Recorded /\ [Next]_vars => Recorded'
<1> SUFFICES ASSUME IInv, Recorded, [Next]_vars PROVE Recorded'
  OBVIOUS
<1> USE DEF IInv, TypeOK, Recorded, Goto, Leave, store, threads, provider, observed
<1>0. CASE UNCHANGED vars
  BY <1>0 DEF vars
<1>1. ASSUME NEW w \in Workers, Ask(w) \/ CancelAsk(w) \/ CancelSave(w) PROVE Recorded'
  BY <1>1 DEF Ask, CancelAsk, CancelSave
<1>2. ASSUME NEW w \in Workers, Create(w) PROVE Recorded'
  <2>1. CASE Leave(w)
    <3>1. \A s \in Subs : remote'[s] = "none" => remote[s] = "none"
      BY <1>2 DEF Create
    <3> QED
      BY <1>2, <2>1, <3>1 DEF Create
  <2>2. ASSUME NEW s \in Subs, remote[s] = "none", Goto(w, "save", s),
               remote' = [remote EXCEPT ![s] = "active"], log' = log
        PROVE  Recorded'
    <3>1. seen[s] = 0
      BY <2>2
    <3>2. UNCHANGED <<status, invoices, seen, exposed>>
      BY <1>2 DEF Create
    <3> QED
      BY <2>2, <3>1, <3>2
  <2>3. \A s \in Subs : (\A r \in Subs : remote[r] = "none" <=> r >= s) => remote[s] = "none"
    BY SubscriptionAssumption DEF Subs
  <2>4. \/ Leave(w)
        \/ \E s \in Subs : /\ remote[s] = "none" /\ Goto(w, "save", s) /\ UNCHANGED log
                            /\ remote' = [remote EXCEPT ![s] = "active"]
    <3> HIDE DEF IInv, TypeOK, Recorded, Goto, Leave
    <3> QED
      BY <1>2, <2>3 DEF Create
  <2> QED
    BY <2>1, <2>2, <2>4
<1>3. ASSUME NEW w \in Workers, Save(w) PROVE Recorded'
  <2>1. \A v \in Workers : pc[v] = "invoice" => mine[v] # mine[w]
    BY <1>3 DEF Save, Made, Created
  <2> QED
    BY <1>3, <2>1 DEF Save
<1>4. ASSUME NEW w \in Workers, Bill(w) PROVE Recorded'
  <2>1. status[mine[w]] # "none"
    BY <1>4 DEF Bill, Made, Created
  <2> QED
    BY <1>4, <2>1 DEF Bill
<1>5. ASSUME NEW w \in Workers, CancelMark(w) PROVE Recorded'
  <2>1. status[mine[w]] # "none"
    BY <1>5 DEF CancelMark, Made, Created
  <2> QED
    BY <1>5, <2>1 DEF CancelMark
<1>6. ASSUME NEW s \in Subs, NEW n \in 1..MaxEvents,
             Unknown(s, n) \/ Ignored(s, n) \/ Receive(s, n)
      PROVE  Recorded'
  <2>1. n \in DOMAIN log[s] /\ Came(s, n)
    BY <1>6 DEF Unknown, Ignored, Receive
  <2>2. UNCHANGED <<status, invoices, pc, mine, remote, log>>
    BY <1>6 DEF Unknown, Ignored, Receive
  <2>3. n \in Nat /\ n <= Len(log[s])
    BY <2>1, SubscriptionAssumption
  <2>4. \A w \in Workers : pc[w] = "save" => mine[w] \in Subs /\ status[mine[w]] = "none"
    BY DEF Made, Created
  <2>5. CASE seen' = [seen EXCEPT ![s] = n] /\ UNCHANGED exposed /\ status[s] # "none"
    <3>1. \A r \in Subs : seen'[r] = IF r = s THEN n ELSE seen[r]
      BY <2>5
    <3>2. \A r \in Subs : seen'[r] <= Len(log'[r])
      BY <2>2, <2>3, <3>1
    <3>3. \A w \in Workers : pc[w] = "save" => seen'[mine[w]] = seen[mine[w]]
      BY <2>4, <2>5, <3>1
    <3> QED
      BY <2>2, <2>5, <3>2, <3>3
  <2>6. CASE exposed' = exposed \cup {s} /\ UNCHANGED seen
    BY <2>2, <2>6
  <2> QED
    BY <2>1, <2>5, <2>6 DEF Came
<1>7. CASE HandleMark
  <2>1. handled.kind \in Kinds /\ handled.sub \in Subs /\ status[handled.sub] # "none"
    BY <1>7 DEF HandleMark, Handling, Handlings
  <2>2. \A s \in Subs : status'[s] = "none" => status[s] = "none"
    BY <1>7, <2>1, EffectType DEF HandleMark
  <2> QED
    BY <1>7, <2>2 DEF HandleMark
<1>8. CASE HandleSave
  <2>1. handled.sub \in Subs /\ status[handled.sub] # "none"
    BY <1>8 DEF HandleSave, Handling, Nothing
  <2>2. \A s \in Subs : s # handled.sub => invoices'[s] = invoices[s]
    BY <1>8 DEF HandleSave
  <2> QED
    BY <1>8, <2>1, <2>2 DEF HandleSave
<1>9. ASSUME NEW s \in Subs, NEW kind \in Kinds, ProviderEvent(s, kind) PROVE Recorded'
  <2>1. \A r \in Subs : Len(log[r]) <= Len(log'[r])
    BY <1>9 DEF ProviderEvent
  <2>2. \A r \in Subs : remote'[r] = "none" => remote[r] = "none" /\ r # s
    BY <1>9, EffectType DEF ProviderEvent
  <2>3. \A r \in Subs : seen[r] <= Len(log'[r])
    <3> TAKE r \in Subs
    <3>1. seen[r] \in Nat /\ Len(log[r]) \in Nat /\ log' \in [Subs -> Seq(Kinds)]
      BY <1>9 DEF ProviderEvent
    <3>2. Len(log'[r]) \in Nat
      BY <3>1
    <3> QED
      BY <2>1, <3>1, <3>2
  <2>4. \A r \in Subs : remote'[r] = "none" => log'[r] = <<>>
    BY <1>9, <2>2 DEF ProviderEvent
  <2>5. UNCHANGED <<status, invoices, pc, mine, seen, exposed>>
    BY <1>9 DEF ProviderEvent
  <2> QED
    BY <2>3, <2>4, <2>5
<1>10. CASE Restart
  BY <1>10 DEF Restart, Unsaved, Unpaid, AllIdle
<1> QED
  BY <1>0, <1>1, <1>2, <1>3, <1>4, <1>5, <1>6, <1>7, <1>8, <1>9, <1>10
     DEF Next, Worker, Webhook

\* Nothing a step does that leaves a subscription and its events alone matters to it.
LEMMA FollowedUntouched ==
    ASSUME TypeOK, Followed, NEW s \in Subs, s \notin exposed, s \notin raced,
           UNCHANGED handled, seen'[s] = seen[s], status'[s] = status[s],
           invoices'[s] = invoices[s], Activated(s)' = Activated(s), seen[s] <= Len(log[s]),
           \A n \in 1..seen[s] : log'[s][n] = log[s][n]
    PROVE  StatusFollows(s)' /\ HandledIsLast(s)' /\ InvoicesFollow(s)'
<1>1. /\ Recoveries(s)' = Recoveries(s) /\ Expected(s)' = Expected(s)
      /\ seen[s] >= 1 => log'[s][seen[s]] = log[s][seen[s]]
      /\ seen[s] >= 2 => (RecoversAt(s, seen[s])' <=> RecoversAt(s, seen[s]))
  BY SeenStays
<1>2. StatusFollows(s) /\ HandledIsLast(s) /\ InvoicesFollow(s)
  BY DEF Followed
<1>3. StatusFollows(s)'
  BY <1>1, <1>2 DEF StatusFollows, Live
<1>4. HandledIsLast(s)'
  BY <1>1, <1>2 DEF HandledIsLast, RecoversAt
<1>5. InvoicesFollow(s)'
  BY <1>1, <1>2 DEF InvoicesFollow, Live, Pending
<1> QED
  BY <1>3, <1>4, <1>5

\* An activation is saved before any event of it was seen.
LEMMA SaveFollows ==
    ASSUME IInv, Recorded, NEW w \in Workers, Save(w), NEW s \in Subs, mine[w] = s,
           s \notin exposed
    PROVE  StatusFollows(s)' /\ HandledIsLast(s)' /\ InvoicesFollow(s)'
<1>1. status[s] = "none" /\ invoices[s] = 0 /\ seen[s] = 0 /\ handled.sub # s
  BY DEF IInv, Made, Created, Handling, Save, Recorded, Nothing, Subs
<1>2. Recoveries(s) = 0 /\ Expected(s) = "active"
  BY <1>1, NothingSeen
<1>3. UNCHANGED <<seen, log, handled, invoices>> /\ status'[s] = "active"
  BY DEF Save, provider, observed, IInv, TypeOK
<1>4. Recoveries(s)' = 0 /\ Expected(s)' = "active"
  BY <1>2, <1>3 DEF Recoveries, Expected
<1>5. Activated(s)' = 0
  <2>1. pc'[w] = "invoice" /\ mine'[w] = s
    BY DEF Save, Goto, IInv, TypeOK
  <2> QED
    BY <2>1 DEF Activated
<1>6. Pending(s)' = 0
  BY <1>1, <1>3 DEF Pending
<1> QED
  BY <1>1, <1>3, <1>4, <1>5, <1>6 DEF StatusFollows, HandledIsLast, InvoicesFollow, Live

\* The invoice of the activation is the only one that was still to come.
LEMMA BillFollows ==
    ASSUME IInv, Recorded, Followed, NEW w \in Workers, Bill(w), NEW s \in Subs,
           mine[w] = s, s \notin exposed, s \notin raced
    PROVE  StatusFollows(s)' /\ HandledIsLast(s)' /\ InvoicesFollow(s)'
<1>1. UNCHANGED <<seen, log, handled, status>> /\ invoices'[s] = invoices[s] + 1
  BY DEF Bill, provider, observed, IInv, TypeOK
<1>2. Activated(s) = 0
  BY DEF Activated, Bill
<1>3. Activated(s)' = 1
  <2>1. \A v \in Workers : ~(pc'[v] = "invoice" /\ mine'[v] = s)
    BY DEF Bill, Leave, Goto, Recorded, IInv, TypeOK
  <2> QED
    BY <2>1 DEF Activated
<1>4. Recoveries(s)' = Recoveries(s) /\ Expected(s)' = Expected(s) /\ Pending(s)' = Pending(s)
  BY <1>1 DEF Recoveries, Expected, Pending
<1>5. StatusFollows(s) /\ HandledIsLast(s) /\ InvoicesFollow(s)
  BY DEF Followed
<1>6. StatusFollows(s)' /\ HandledIsLast(s)'
  BY <1>1, <1>4, <1>5 DEF StatusFollows, HandledIsLast, Live, RecoversAt
<1>7. InvoicesFollow(s)'
  <2>1. invoices[s] \in Nat /\ Recoveries(s) \in Nat /\ Pending(s) \in {0, 1}
    BY CountType DEF IInv, TypeOK, Pending
  <2> QED
    BY <1>1, <1>2, <1>3, <1>4, <1>5, <2>1 DEF InvoicesFollow, Live
<1> QED
  BY <1>6, <1>7

\* An event in its turn; a payment that recovers is still to be billed.
LEMMA ReceiveFollows ==
    ASSUME IInv, Recorded, Followed, NEW s \in Subs, NEW n \in 1..MaxEvents, Receive(s, n),
           s \notin exposed', s \notin raced
    PROVE  StatusFollows(s)' /\ HandledIsLast(s)' /\ InvoicesFollow(s)'
<1>t. seen[s] \in Nat /\ log[s] \in Seq(Kinds) /\ invoices[s] \in Nat
  BY DEF IInv, TypeOK
<1>1. n = seen[s] + 1 /\ seen'[s] = n /\ s \notin exposed
  BY DEF Receive, Came, IInv, TypeOK
<1>2. UNCHANGED <<status, invoices, log, pc, mine>>
  BY DEF Receive, store, threads, provider
<1>3. Live(s) /\ handled = Nothing /\ handled.sub # s
  BY DEF Receive, IsFinal, IInv, TypeOK, Status, Live, Nothing, Subs
<1>4. /\ handled'.sub = s /\ handled'.kind = log[s][n] /\ ~handled'.marked
      /\ handled'.recovers <=> log[s][n] = "paid" /\ status[s] = "past_due"
  BY DEF Receive
<1>5. status[s] = Expected(s) /\ invoices[s] + Pending(s) = Activated(s) + Recoveries(s)
  BY <1>1, <1>3 DEF Followed, StatusFollows, InvoicesFollow
<1>6. status[s] = "past_due" <=> n >= 2 /\ log[s][n - 1] = "failed"
  <2>1. CASE seen[s] = 0
    BY <1>1, <1>5, <2>1 DEF Expected
  <2>2. CASE seen[s] # 0
    <3>1. seen[s] \in DOMAIN log[s] /\ n - 1 = seen[s] /\ n >= 2
      BY <1>t, <1>1, <2>2 DEF Recorded
    <3>2. log[s][seen[s]] \in Kinds
      BY <1>t, <3>1
    <3>3. Effect[log[s][seen[s]]] = "past_due" <=> log[s][seen[s]] = "failed"
      BY <3>2 DEF Effect, Kinds
    <3> QED
      BY <1>5, <2>2, <3>1, <3>3 DEF Expected
  <2> QED
    BY <2>1, <2>2
<1>7. handled'.recovers <=> n >= 2 /\ RecoversAt(s, n)
  BY <1>4, <1>6 DEF RecoversAt
<1>8. HandledIsLast(s)'
  BY <1>t, <1>1, <1>2, <1>4, <1>7 DEF HandledIsLast, RecoversAt
<1>9. InvoicesFollow(s)'
  <2>1. Recoveries(s)' = Recoveries(s) + (IF n >= 2 /\ RecoversAt(s, n) THEN 1 ELSE 0)
    BY <1>1, <1>2, OneMoreSeen DEF IInv
  <2>2. Pending(s) = 0 /\ Pending(s)' = IF n >= 2 /\ RecoversAt(s, n) THEN 1 ELSE 0
    BY <1>3, <1>4, <1>7 DEF Pending
  <2>3. Activated(s)' = Activated(s) /\ Activated(s) \in Nat /\ Recoveries(s) \in Nat
    BY <1>2, CountType DEF Activated, IInv
  <2> HIDE DEF IInv
  <2> QED
    BY <1>t, <1>2, <1>5, <2>1, <2>2, <2>3 DEF InvoicesFollow
<1> QED
  BY <1>4, <1>8, <1>9 DEF StatusFollows

\* The status is written as the event says, unless the user cancels meanwhile.
LEMMA HandleMarkFollows ==
    ASSUME IInv, Recorded, Followed, HandleMark, NEW s \in Subs, handled.sub = s,
           s \notin exposed, s \notin raced
    PROVE  StatusFollows(s)' /\ HandledIsLast(s)' /\ InvoicesFollow(s)'
<1>1. UNCHANGED <<invoices, pc, mine, log, seen>>
  BY DEF HandleMark, threads, provider, observed
<1>2. /\ handled'.sub = s /\ handled'.kind = handled.kind
      /\ handled'.recovers = handled.recovers
  BY DEF HandleMark, IInv, TypeOK, Handlings
<1>3. Live(s)
  BY DEF HandleMark, IInv, TypeOK, Handling, Live, Status
<1>4. StatusFollows(s) /\ HandledIsLast(s) /\ InvoicesFollow(s)
  BY DEF Followed
<1>5. Recoveries(s)' = Recoveries(s) /\ Activated(s)' = Activated(s) /\ Pending(s)' = Pending(s)
  BY <1>1, <1>2 DEF Recoveries, Activated, Pending
<1>6. status'[s] = Effect[handled.kind]
  BY DEF HandleMark, IInv, TypeOK
<1>7. StatusFollows(s)'
  <2>1. seen[s] >= 1 /\ seen[s] # 0 /\ handled.kind = log[s][seen[s]]
    BY <1>4 DEF HandledIsLast
  <2>2. Expected(s)' = Effect[handled.kind]
    BY <1>1, <2>1 DEF Expected
  <2> QED
    BY <1>6, <2>2 DEF StatusFollows
<1>8. HandledIsLast(s)'
  BY <1>1, <1>2, <1>4 DEF HandledIsLast, RecoversAt
<1>9. InvoicesFollow(s)'
  BY <1>1, <1>3, <1>4, <1>5 DEF InvoicesFollow
<1> QED
  BY <1>7, <1>8, <1>9

\* The recovery that was pending is billed.
LEMMA HandleSaveFollows ==
    ASSUME IInv, Recorded, Followed, HandleSave, NEW s \in Subs, handled.sub = s,
           s \notin exposed, s \notin raced
    PROVE  StatusFollows(s)' /\ HandledIsLast(s)' /\ InvoicesFollow(s)'
<1>1. UNCHANGED <<status, pc, mine, log, seen>> /\ handled.marked /\ handled' = Nothing
  BY DEF HandleSave, threads, provider, observed
<1>2. handled'.sub # s
  BY <1>1 DEF Nothing, Subs
<1>3. invoices'[s] = invoices[s] + Pending(s)
  BY DEF HandleSave, Pending, IInv, TypeOK
<1>4. StatusFollows(s) /\ HandledIsLast(s) /\ InvoicesFollow(s)
  BY DEF Followed
<1>5. Recoveries(s)' = Recoveries(s) /\ Activated(s)' = Activated(s) /\ Expected(s)' = Expected(s)
  BY <1>1 DEF Recoveries, Activated, Expected
<1>6. Pending(s)' = 0 /\ invoices[s] + Pending(s) \in Nat
  BY <1>2 DEF Pending, IInv, TypeOK
<1>7. StatusFollows(s)' /\ HandledIsLast(s)'
  BY <1>1, <1>2, <1>4, <1>5 DEF StatusFollows, HandledIsLast, Live
<1>8. InvoicesFollow(s)'
  BY <1>1, <1>3, <1>4, <1>5, <1>6 DEF InvoicesFollow, Live
<1> QED
  BY <1>7, <1>8

LEMMA FollowedStep == IInv /\ Recorded /\ Followed /\ [Next]_vars => Followed'
<1> SUFFICES ASSUME IInv, Recorded, Followed, [Next]_vars,
                    NEW s \in Subs, s \notin exposed', s \notin raced'
             PROVE  StatusFollows(s)' /\ HandledIsLast(s)' /\ InvoicesFollow(s)'
  BY DEF Followed
<1> DEFINE Follows == StatusFollows(s)' /\ HandledIsLast(s)' /\ InvoicesFollow(s)'
<1>t. TypeOK /\ seen[s] <= Len(log[s])
  BY DEF IInv, Recorded
<1>same. ASSUME UNCHANGED <<handled, log, seen>>, s \notin exposed, s \notin raced,
                status'[s] = status[s], invoices'[s] = invoices[s],
                Activated(s)' = Activated(s)
         PROVE  Follows
  BY <1>same, <1>t, FollowedUntouched
<1> USE DEF store, threads, provider, observed
<1>0. CASE UNCHANGED vars
  BY <1>0, <1>same DEF vars, Activated
<1>1. ASSUME NEW w \in Workers, Ask(w) \/ CancelAsk(w) \/ CancelSave(w) \/ Create(w)
      PROVE  Follows
  <2>1. UNCHANGED <<handled, seen, exposed, raced, status, invoices, log>>
    BY <1>1 DEF Ask, CancelAsk, CancelSave, Create
  <2>2. pc[w] # "invoice" /\ pc'[w] # "invoice"
        /\ \A v \in Workers \ {w} : pc'[v] = pc[v] /\ mine'[v] = mine[v]
    BY <1>1, <1>t DEF Ask, CancelAsk, CancelSave, Create, Leave, Goto, TypeOK
  <2>3. Activated(s)' = Activated(s)
    BY <2>2 DEF Activated
  <2> QED
    BY <1>same, <2>1, <2>3
<1>2. ASSUME NEW w \in Workers, Save(w) PROVE Follows
  <2>1. CASE mine[w] = s
    BY <1>2, <2>1, SaveFollows DEF Save
  <2>2. CASE mine[w] # s
    <3>1. /\ UNCHANGED <<handled, seen, exposed, raced, invoices, log>>
          /\ status'[s] = status[s]
      BY <1>2, <2>2, <1>t DEF Save, TypeOK
    <3>2. mine'[w] # s /\ \A v \in Workers \ {w} : pc'[v] = pc[v] /\ mine'[v] = mine[v]
      BY <1>2, <2>2, <1>t DEF Save, Goto, TypeOK
    <3>3. Activated(s)' = Activated(s)
      BY <2>2, <3>2 DEF Activated
    <3> QED
      BY <1>same, <3>1, <3>3
  <2> QED
    BY <2>1, <2>2
<1>3. ASSUME NEW w \in Workers, Bill(w) PROVE Follows
  <2>1. CASE mine[w] = s
    BY <1>3, <2>1, BillFollows DEF Bill
  <2>2. CASE mine[w] # s
    <3>1. /\ UNCHANGED <<handled, seen, exposed, raced, status, log>>
          /\ invoices'[s] = invoices[s]
      BY <1>3, <2>2, <1>t DEF Bill, TypeOK
    <3>2. pc'[w] # "invoice" /\ \A v \in Workers \ {w} : pc'[v] = pc[v] /\ mine'[v] = mine[v]
      BY <1>3, <1>t DEF Bill, Leave, Goto, TypeOK
    <3>3. Activated(s)' = Activated(s)
      BY <2>2, <3>2 DEF Activated
    <3> QED
      BY <1>same, <3>1, <3>3
  <2> QED
    BY <2>1, <2>2
<1>4. ASSUME NEW w \in Workers, CancelMark(w) PROVE Follows
  <2>1. UNCHANGED <<handled, seen, exposed, invoices, log>> /\ s \notin raced
    BY <1>4 DEF CancelMark
  <2>2. pc[w] # "invoice" /\ pc'[w] # "invoice"
        /\ \A v \in Workers \ {w} : pc'[v] = pc[v] /\ mine'[v] = mine[v]
    BY <1>4, <1>t DEF CancelMark, Goto, TypeOK
  <2>3. Activated(s)' = Activated(s)
    BY <2>2 DEF Activated
  <2>4. CASE mine[w] = s
    <3>1. ~Live(s)' /\ handled'.sub # s
      BY <1>4, <2>1, <2>4, <1>t DEF CancelMark, Live, TypeOK
    <3> QED
      BY <3>1 DEF StatusFollows, HandledIsLast, InvoicesFollow
  <2>5. CASE mine[w] # s
    <3>1. status'[s] = status[s]
      BY <1>4, <2>5, <1>t DEF CancelMark, TypeOK
    <3> QED
      BY <1>same, <2>1, <2>3, <3>1
  <2> QED
    BY <2>4, <2>5
<1>5. ASSUME NEW r \in Subs, NEW n \in 1..MaxEvents, Unknown(r, n) \/ Ignored(r, n)
      PROVE  Follows
  <2>1. UNCHANGED <<handled, status, invoices, pc, mine, log, raced>> /\ handled = Nothing
    BY <1>5 DEF Unknown, Ignored
  <2>2. CASE r = s
    <3>1. ~Live(s)' /\ handled'.sub # s
      BY <1>5, <2>1, <2>2 DEF Unknown, Ignored, IsFinal, Live, Nothing, Subs
    <3> QED
      BY <3>1 DEF StatusFollows, HandledIsLast, InvoicesFollow
  <2>3. CASE r # s
    <3>1. seen'[s] = seen[s] /\ s \notin exposed
      BY <1>5, <2>3, <1>t DEF Unknown, Ignored, Came, TypeOK
    <3>2. Activated(s)' = Activated(s)
      BY <2>1 DEF Activated
    <3> QED
      BY <2>1, <3>1, <3>2, <1>t, FollowedUntouched
  <2> QED
    BY <2>2, <2>3
<1>6. ASSUME NEW r \in Subs, NEW n \in 1..MaxEvents, Receive(r, n) PROVE Follows
  <2>1. UNCHANGED <<status, invoices, pc, mine, log, raced>> /\ handled = Nothing
    BY <1>6 DEF Receive
  <2>2. CASE r = s
    BY <1>6, <2>1, <2>2, ReceiveFollows
  <2>3. CASE r # s
    <3>1. seen'[s] = seen[s] /\ s \notin exposed /\ handled'.sub # s /\ handled.sub # s
      <4>1. seen'[s] = seen[s] /\ s \notin exposed
        BY <1>6, <2>3, <1>t DEF Receive, Came, TypeOK
      <4>2. handled.sub # s
        BY <2>1 DEF Nothing, Subs
      <4>3. handled'.sub = r
        BY <1>6 DEF Receive
      <4> QED
        BY <2>3, <4>1, <4>2, <4>3
    <3>2. Recoveries(s)' = Recoveries(s) /\ Expected(s)' = Expected(s)
      BY <2>1, <3>1 DEF Recoveries, Expected
    <3>3. Activated(s)' = Activated(s) /\ Pending(s)' = Pending(s)
      BY <2>1, <3>1 DEF Activated, Pending
    <3>4. StatusFollows(s) /\ InvoicesFollow(s)
      BY <2>1, <3>1 DEF Followed
    <3> QED
      BY <2>1, <3>1, <3>2, <3>3, <3>4 DEF StatusFollows, HandledIsLast, InvoicesFollow, Live
  <2> QED
    BY <2>2, <2>3
<1>7. CASE HandleMark
  <2>1. s \notin exposed /\ s \notin raced
    BY <1>7 DEF HandleMark
  <2>2. CASE handled.sub = s
    BY <1>7, <2>1, <2>2, HandleMarkFollows
  <2>3. CASE handled.sub # s
    <3>1. UNCHANGED <<invoices, pc, mine, log, seen>> /\ status'[s] = status[s]
      BY <1>7, <2>3, <1>t DEF HandleMark, TypeOK
    <3>2. handled'.sub # s
      BY <1>7, <2>3, <1>t DEF HandleMark, TypeOK, Handlings
    <3>3. Recoveries(s)' = Recoveries(s) /\ Expected(s)' = Expected(s)
          /\ Activated(s)' = Activated(s) /\ Pending(s)' = Pending(s)
      BY <2>3, <3>1, <3>2 DEF Recoveries, Expected, Activated, Pending
    <3>4. StatusFollows(s) /\ InvoicesFollow(s)
      BY <2>1 DEF Followed
    <3> QED
      BY <2>3, <3>1, <3>2, <3>3, <3>4 DEF StatusFollows, HandledIsLast, InvoicesFollow, Live
  <2> QED
    BY <2>2, <2>3
<1>8. CASE HandleSave
  <2>1. s \notin exposed /\ s \notin raced
    BY <1>8 DEF HandleSave
  <2>2. CASE handled.sub = s
    BY <1>8, <2>1, <2>2, HandleSaveFollows
  <2>3. CASE handled.sub # s
    <3>1. UNCHANGED <<status, pc, mine, log, seen>> /\ invoices'[s] = invoices[s]
      BY <1>8, <2>3, <1>t DEF HandleSave, TypeOK
    <3>2. handled'.sub # s
      BY <1>8 DEF HandleSave, Nothing, Subs
    <3>3. Recoveries(s)' = Recoveries(s) /\ Expected(s)' = Expected(s)
          /\ Activated(s)' = Activated(s) /\ Pending(s)' = Pending(s)
      BY <2>3, <3>1, <3>2 DEF Recoveries, Expected, Activated, Pending
    <3>4. StatusFollows(s) /\ InvoicesFollow(s)
      BY <2>1 DEF Followed
    <3> QED
      BY <2>3, <3>1, <3>2, <3>3, <3>4 DEF StatusFollows, HandledIsLast, InvoicesFollow, Live
  <2> QED
    BY <2>2, <2>3
<1>9. ASSUME NEW r \in Subs, NEW kind \in Kinds, ProviderEvent(r, kind) PROVE Follows
  <2>1. /\ UNCHANGED <<handled, status, invoices, pc, mine, seen>>
        /\ s \notin exposed /\ s \notin raced
    BY <1>9 DEF ProviderEvent
  <2>2. \A n \in 1..seen[s] : log'[s][n] = log[s][n]
    <3>1. seen[s] \in Nat /\ log[s] \in Seq(Kinds) /\ log[r] \in Seq(Kinds)
      BY <1>t DEF TypeOK
    <3>2. log' = [log EXCEPT ![r] = Append(log[r], kind)]
      BY <1>9 DEF ProviderEvent
    <3>3. \A n \in 1..Len(log[r]) : Append(log[r], kind)[n] = log[r][n]
      BY <3>1
    <3>4. CASE r = s
      BY <3>1, <3>2, <3>3, <3>4, <1>t DEF TypeOK
    <3>5. CASE r # s
      BY <3>2, <3>5, <1>t DEF TypeOK
    <3> QED
      BY <3>4, <3>5
  <2>3. Activated(s)' = Activated(s)
    BY <2>1 DEF Activated
  <2> QED
    BY <2>1, <2>2, <2>3, <1>t, FollowedUntouched
<1>10. CASE Restart
  <2>1. ~Live(s)' /\ handled'.sub # s
    BY <1>10 DEF Restart, Unsaved, Live, Nothing, Subs
  <2> QED
    BY <2>1 DEF StatusFollows, HandledIsLast, InvoicesFollow
<1> QED
  BY <1>0, <1>1, <1>2, <1>3, <1>4, <1>5, <1>6, <1>7, <1>8, <1>9, <1>10
     DEF Next, Worker, Webhook

\* A subscription whose events came in turn has the status the provider last sent and an
\* invoice for its activation and for each recovery, whatever other subscriptions,
\* activations and cancellations do meanwhile.
THEOREM ProviderIsFollowed == Spec => []FollowsProvider
<1>1. Init => IInv /\ Recorded /\ Followed
  <2> SUFFICES ASSUME Init PROVE Recorded /\ Followed
    BY InitIInv
  <2>1. Recorded
    BY DEF Init, Recorded, Unsaved, Unpaid, AllIdle
  <2>2. Followed
    BY DEF Init, Followed, StatusFollows, HandledIsLast, InvoicesFollow, Live, Unsaved,
           Nothing, Subs
  <2> QED
    BY <2>1, <2>2
<1>2. IInv /\ Recorded /\ Followed /\ [Next]_vars => (IInv /\ Recorded /\ Followed)'
  BY TypeStep, MadeStep, HandlingStep, RecordedStep, FollowedStep DEF IInv
<1>3. IInv /\ Followed => FollowsProvider
  <2> SUFFICES ASSUME IInv, Followed, NEW s \in Subs \ (exposed \cup raced), Live(s), ~Busy(s)
               PROVE  /\ status[s] = Expected(s)
                      /\ invoices[s] = 1 + Recoveries(s)
    BY DEF FollowsProvider, Live, Expected
  <2>1. handled.sub # s /\ \A w \in Workers : mine[w] # s
    BY DEF Busy
  <2>2. Pending(s) = 0 /\ Activated(s) = 1 /\ invoices[s] \in Nat
    BY <2>1 DEF Pending, Activated, IInv, TypeOK
  <2> QED
    BY <2>1, <2>2 DEF Followed, StatusFollows, InvoicesFollow
<1> QED
  BY <1>1, <1>2, <1>3, PTL DEF Spec
=============================================================================
