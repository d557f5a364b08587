----------------------- MODULE InvoicePipelineProofs -----------------------
(***************************************************************************)
(* Proofs about InvoicePipeline and InvoiceBatch, for every set of workers,*)
(* CFDIs and kinds, any number of submissions, crashes and reruns, and     *)
(* either connector.                                                       *)
(*                                                                         *)
(* What a worker does late in process_file relies on what it did early:    *)
(* the register steps on the decision, the insert on the audit row, the    *)
(* notice on the insert.  WorkerKnows states this for each program point,  *)
(* LedgerFacts for what outlives the worker; together with the types they  *)
(* are inductive.  That a worker may make a poliza where the ledger does   *)
(* is Alone: the connector's answer "not known" is still true when the     *)
(* poliza is made, unless another worker took the same CFDI.               *)
(***************************************************************************)
EXTENDS InvoiceBatch, TLAPS

\* What is true of a worker's CFDI at each point of process_file.
WorkerKnows ==
    \A w \in Workers :
        LET f == job[w] IN
        /\ pc[w] \in {"lookup", "register", "log"} => Eligible(doc[f])
        /\ pc[w] = "log" => erpStatus[w] \in {"registrada", "error"}
        /\ pc[w] \in {"persist", "notify"} =>
             IF Eligible(doc[f])
               THEN f \in erpLogged /\ erpStatus[w] \in {"registrada", "error"}
               ELSE erpStatus[w] = Decision(doc[f])
        /\ pc[w] = "notify" => rows[f] # NoRow

\* What is true of a CFDI whoever worked on it.
LedgerFacts ==
    \A f \in CFDIs :
        /\ polizas[f] > 0 => Eligible(doc[f])
        /\ f \in erpLogged => Eligible(doc[f])
        /\ rows[f] # NoRow /\ Eligible(doc[f]) => f \in erpLogged
        /\ "invoice_processed" \in notices[f] => Eligible(doc[f]) /\ rows[f] # NoRow

IInv == TypeOK /\ WorkerKnows /\ LedgerFacts

-----------------------------------------------------------------------------
\* The decision on a document is one of three, and "register" means that the
\* document passed every gate of the ledger.
LEMMA DecisionCases ==
    ASSUME NEW kind \in Kinds
    PROVE  /\ Decision(kind) \in {"rejected_invalid_cfdi", "register", "pending_approval"}
           /\ Eligible(kind) <=> Ledger!Eligible(kind)
           /\ Decision(kind) = "rejected_invalid_cfdi" <=> ~Accepted(kind)
<1>1. /\ kind.valid \in BOOLEAN /\ kind.cancelled \in BOOLEAN
      /\ kind.doubtful \in BOOLEAN /\ kind.payment \in BOOLEAN
      /\ kind.large \in BOOLEAN
  BY PipelineAssumption
<1>2. CASE ~Accepted(kind)
  <2>1. Decision(kind) = "rejected_invalid_cfdi"
    BY <1>2 DEF Decision
  <2>2. QED
    BY <1>1, <1>2, <2>1 DEF Accepted, Eligible, Ledger!Eligible
<1>3. CASE Accepted(kind) /\ Approval(kind) = "auto_approved"
  <2>1. Decision(kind) = "register"
    BY <1>3 DEF Decision
  <2>2. ~(kind.doubtful \/ kind.payment \/ kind.large)
    BY <1>3 DEF Approval
  <2>3. QED
    BY <1>1, <1>3, <2>1, <2>2 DEF Accepted, Eligible, Ledger!Eligible
<1>4. CASE Accepted(kind) /\ Approval(kind) = "requires_approval"
  <2>1. Decision(kind) = "pending_approval"
    BY <1>4 DEF Decision
  <2>2. kind.doubtful \/ kind.payment \/ kind.large
    BY <1>4 DEF Approval
  <2>3. QED
    BY <1>1, <1>4, <2>1, <2>2 DEF Accepted, Eligible, Ledger!Eligible
<1>5. Approval(kind) \in {"auto_approved", "requires_approval"}
  BY DEF Approval
<1>6. QED
  BY <1>2, <1>3, <1>4, <1>5

\* The row insert_invoice makes is a row, and is not the absence of one.
LEMMA RowForIsRow == RowFor("pending") \in Row /\ RowFor("pending") # NoRow
<1>1. RowFor("pending") = [erp_status |-> "pending", status |-> "procesado"]
  BY DEF RowFor
<1>2. RowFor("pending").status # NoRow.status
  BY <1>1 DEF NoRow
<1>3. QED
  BY <1>1, <1>2 DEF Row

\* Only a document that passed every gate is announced as processed.
LEMMA ProcessedEvent ==
    ASSUME NEW kind \in Kinds, NEW status,
           IF Eligible(kind) THEN status \in {"registrada", "error"}
                             ELSE status = Decision(kind)
    PROVE  /\ EventFor(kind, status) \in Events
           /\ EventFor(kind, status) = "invoice_processed" => Eligible(kind)
<1>1. CASE ~Accepted(kind)
  BY <1>1 DEF EventFor, Events
<1>2. CASE Accepted(kind) /\ status = "pending_approval"
  BY <1>2 DEF EventFor, Events
<1>3. CASE Accepted(kind) /\ status # "pending_approval"
  <2>1. EventFor(kind, status) = "invoice_processed"
    BY <1>3 DEF EventFor
  <2>2. Eligible(kind)
    BY <1>3, DecisionCases DEF Eligible
  <2>3. QED
    BY <2>1, <2>2 DEF Events
<1>4. QED
  BY <1>1, <1>2, <1>3

-----------------------------------------------------------------------------
LEMMA InitIInv == Init => IInv
<1> SUFFICES ASSUME Init
             PROVE  IInv
  OBVIOUS
<1>1. TypeOK
  BY PipelineAssumption DEF Init, TypeOK, Steps, Statuses
<1>2. WorkerKnows
  BY DEF Init, WorkerKnows
<1>3. LedgerFacts
  BY DEF Init, LedgerFacts
<1>4. QED
  BY <1>1, <1>2, <1>3 DEF IInv

\* One step of process_file after the other.
LEMMA ReceiveIInv ==
    ASSUME IInv, NEW w \in Workers, NEW f \in CFDIs, Receive(w, f),
           submissions' \in 0..MaxSubmissions
    PROVE  IInv'
<1> USE DEF IInv, Receive
<1>1. TypeOK'
  BY DEF TypeOK, Steps
<1>2. WorkerKnows'
  BY DEF TypeOK, WorkerKnows
<1>3. LedgerFacts'
  BY DEF LedgerFacts
<1>4. QED
  BY <1>1, <1>2, <1>3

LEMMA LeaveIInv ==
    ASSUME IInv, NEW w \in Workers, Leave(w),
           UNCHANGED <<doc, polizas, erpLogged, rows, submissions, contended>>,
           LedgerFacts', notices' \in [CFDIs -> SUBSET Events]
    PROVE  IInv'
<1> USE DEF IInv, Leave
<1>1. TypeOK'
  BY DEF TypeOK, Steps, Statuses
<1>2. WorkerKnows'
  BY DEF TypeOK, WorkerKnows
<1>3. QED
  BY <1>1, <1>2

LEMMA EvaluateIInv ==
    ASSUME IInv, NEW w \in Workers, Evaluate(w)
    PROVE  IInv'
<1> DEFINE kind == doc[job[w]]
<1>1. job[w] \in CFDIs /\ kind \in Kinds
  BY DEF IInv, TypeOK, Evaluate
<1>2. Decision(kind) \in {"rejected_invalid_cfdi", "register", "pending_approval"}
  BY <1>1, DecisionCases
<1>3. TypeOK'
  BY <1>2 DEF IInv, Evaluate, TypeOK, Steps, Statuses
<1>4. WorkerKnows'
  <2> SUFFICES ASSUME NEW v \in Workers
               PROVE  WorkerKnows!(v)'
    BY DEF WorkerKnows
  <2>1. CASE v = w
    BY <1>2, <2>1 DEF IInv, Evaluate, TypeOK, WorkerKnows, Eligible
  <2>2. CASE v # w
    BY <2>2 DEF IInv, Evaluate, TypeOK, WorkerKnows
  <2>3. QED
    BY <2>1, <2>2
<1>5. LedgerFacts'
  BY DEF IInv, Evaluate, LedgerFacts
<1>6. QED
  BY <1>3, <1>4, <1>5 DEF IInv

LEMMA RegisterIInv ==
    ASSUME IInv, NEW w \in Workers, LookUp(w) \/ RegisterErp(w) \/ LogRegister(w)
    PROVE  IInv'
<1>1. job[w] \in CFDIs /\ Eligible(doc[job[w]])
  BY DEF IInv, TypeOK, WorkerKnows, LookUp, RegisterErp, LogRegister
<1>2. CASE LookUp(w)
  <2>1. TypeOK'
    BY <1>1, <1>2, PipelineAssumption DEF IInv, LookUp, TypeOK, Steps
  <2>2. WorkerKnows'
    BY <1>1, <1>2 DEF IInv, LookUp, TypeOK, WorkerKnows
  <2>3. LedgerFacts'
    BY <1>2 DEF IInv, LookUp, LedgerFacts
  <2>4. QED
    BY <2>1, <2>2, <2>3 DEF IInv
<1>3. CASE RegisterErp(w)
  <2>1. TypeOK'
    BY <1>1, <1>3 DEF IInv, RegisterErp, TypeOK, Steps, Statuses
  <2>2. WorkerKnows'
    BY <1>1, <1>3 DEF IInv, RegisterErp, TypeOK, WorkerKnows
  <2>3. LedgerFacts'
    BY <1>1, <1>3 DEF IInv, RegisterErp, TypeOK, LedgerFacts
  <2>4. QED
    BY <2>1, <2>2, <2>3 DEF IInv
<1>4. CASE LogRegister(w)
  <2>1. TypeOK'
    BY <1>1, <1>4 DEF IInv, LogRegister, TypeOK, Steps
  <2>2. WorkerKnows'
    BY <1>1, <1>4 DEF IInv, LogRegister, TypeOK, WorkerKnows
  <2>3. LedgerFacts'
    BY <1>1, <1>4 DEF IInv, LogRegister, TypeOK, LedgerFacts
  <2>4. QED
    BY <2>1, <2>2, <2>3 DEF IInv
<1>5. QED
  BY <1>2, <1>3, <1>4

LEMMA PersistIInv ==
    ASSUME IInv, NEW w \in Workers, Persist(w)
    PROVE  IInv'
<1>1. job[w] \in CFDIs
  BY DEF IInv, TypeOK, Persist
<1>2. /\ rows' \in [CFDIs -> Row \cup {NoRow}]
      /\ rows'[job[w]] # NoRow
      /\ \A f \in CFDIs : f # job[w] => rows'[f] = rows[f]
      /\ \A f \in CFDIs : rows[f] # NoRow => rows'[f] # NoRow
  BY <1>1, RowForIsRow DEF IInv, TypeOK, Persist
<1>3. TypeOK'
  BY <1>2 DEF IInv, Persist, TypeOK, Steps
<1>4. WorkerKnows'
  <2>1. \A v \in Workers : v # w => pc'[v] = pc[v]
    BY DEF IInv, TypeOK, Persist
  <2>2. pc[w] = "persist" /\ pc'[w] = "notify"
    BY DEF IInv, TypeOK, Persist
  <2>3. \A v \in Workers : pc[v] # "idle" => job[v] \in CFDIs
    BY DEF IInv, TypeOK
  <2>4. QED
    BY <1>2, <2>1, <2>2, <2>3 DEF IInv, Persist, WorkerKnows
<1>5. LedgerFacts'
  <2>1. Eligible(doc[job[w]]) => job[w] \in erpLogged
    BY DEF IInv, WorkerKnows, Persist
  <2>2. QED
    BY <1>2, <2>1 DEF IInv, Persist, LedgerFacts
<1>6. QED
  BY <1>3, <1>4, <1>5 DEF IInv

LEMMA NotifyIInv ==
    ASSUME IInv, NEW w \in Workers, Notify(w)
    PROVE  IInv'
<1> DEFINE event == EventFor(doc[job[w]], erpStatus[w])
<1>1. job[w] \in CFDIs /\ doc[job[w]] \in Kinds
  BY DEF IInv, TypeOK, Notify
<1>2. event \in Events /\ (event = "invoice_processed" => Eligible(doc[job[w]]))
  BY <1>1, ProcessedEvent DEF IInv, WorkerKnows, Notify
<1>3. rows[job[w]] # NoRow
  BY DEF IInv, WorkerKnows, Notify
<1>4. notices' \in [CFDIs -> SUBSET Events]
  BY <1>1, <1>2 DEF IInv, TypeOK, Notify
<1>5. \A f \in CFDIs : "invoice_processed" \in notices'[f]
          => Eligible(doc[f]) /\ rows[f] # NoRow
  <2>1. CASE notices' = notices
    BY <2>1 DEF IInv, LedgerFacts
  <2>2. CASE notices' = [notices EXCEPT ![job[w]] = @ \cup {event}]
    BY <1>1, <1>2, <1>3, <2>2 DEF IInv, TypeOK, LedgerFacts
  <2>3. QED
    BY <2>1, <2>2 DEF Notify
<1>6. LedgerFacts'
  BY <1>5 DEF IInv, LedgerFacts, Notify
<1>7. QED
  BY <1>4, <1>6, LeaveIInv DEF Notify

LEMMA NextIInv == IInv /\ [Next]_vars => IInv'
<1> SUFFICES ASSUME IInv, [Next]_vars
             PROVE  IInv'
  OBVIOUS
<1>1. ASSUME NEW w \in Workers, NEW f \in CFDIs, Submit(w, f)
      PROVE  IInv'
  <2>1. submissions' \in 0..MaxSubmissions
    BY <1>1, PipelineAssumption DEF Submit, IInv, TypeOK
  <2>2. QED
    BY <1>1, <2>1, ReceiveIInv DEF Submit
<1>2. ASSUME NEW w \in Workers, Step(w)
      PROVE  IInv'
  BY <1>2, EvaluateIInv, RegisterIInv, PersistIInv, NotifyIInv DEF Step
<1>3. ASSUME NEW w \in Workers, Fail(w)
      PROVE  IInv'
  <2>1. LedgerFacts'
    BY <1>3 DEF Fail, IInv, LedgerFacts
  <2>2. QED
    BY <1>3, <2>1, LeaveIInv DEF Fail, IInv, TypeOK
<1>4. CASE UNCHANGED vars
  BY <1>4 DEF vars, local, IInv, TypeOK, WorkerKnows, LedgerFacts
<1>5. QED
  BY <1>1, <1>2, <1>3, <1>4 DEF Next

LEMMA SpecIInv == Spec => []IInv
  BY InitIInv, NextIInv, PTL DEF Spec

-----------------------------------------------------------------------------
\* Every variable keeps its type, and a worker inside process_file has a CFDI.
THEOREM TypeCorrect == Spec => []TypeOK
  BY SpecIInv, PTL DEF IInv

\* No interleaving and no failure brings a CFDI that needs a human into the ERP.
THEOREM GatesHold == Spec => []OnlyEligiblePosted
<1>1. IInv => OnlyEligiblePosted
  BY DecisionCases DEF IInv, TypeOK, LedgerFacts, OnlyEligiblePosted
<1>2. QED
  BY <1>1, SpecIInv, PTL

\* A CFDI announced as processed is in the database and in the audit log.
THEOREM NoticesAreBacked == Spec => []ProcessedNoticeIsBacked
<1>1. IInv => ProcessedNoticeIsBacked
  BY DEF IInv, LedgerFacts, ProcessedNoticeIsBacked
<1>2. QED
  BY <1>1, SpecIInv, PTL

-----------------------------------------------------------------------------
\* A worker whose connector did not know the folio is the only one that can make
\* the poliza, until somebody else takes the same CFDI.
Alone ==
    /\ \A w \in Workers : pc[w] = "idle" => job[w] = NoJob
    /\ SharedConnector => \A f \in CFDIs \ contended :
         /\ polizas[f] <= 1
         /\ \A v, w \in Workers : job[v] = f /\ job[w] = f => v = w
         /\ \A w \in Workers :
              job[w] = f /\ pc[w] = "register" /\ ~known[w] => polizas[f] = 0

\* What every step but the registration keeps.
LEMMA AloneKept ==
    ASSUME TypeOK, Alone, NEW w \in Workers,
           UNCHANGED <<job, polizas, contended>>,
           \A v \in Workers \ {w} : pc'[v] = pc[v] /\ known'[v] = known[v],
           pc'[w] # "idle",
           pc'[w] = "register" /\ SharedConnector /\ ~known'[w] => polizas[job[w]] = 0
    PROVE  Alone'
  BY DEF TypeOK, Alone

LEMMA AloneLeave ==
    ASSUME TypeOK, Alone, NEW w \in Workers, Leave(w), UNCHANGED <<polizas, contended>>
    PROVE  Alone'
<1>1. /\ pc' = [pc EXCEPT ![w] = "idle"]
      /\ job' = [job EXCEPT ![w] = NoJob]
      /\ \A v \in Workers \ {w} : known'[v] = known[v]
  BY DEF Leave, TypeOK
<1>2. QED
  BY <1>1, PipelineAssumption DEF TypeOK, Alone

LEMMA AloneReceive ==
    ASSUME TypeOK, Alone, NEW w \in Workers, NEW f \in CFDIs, Receive(w, f)
    PROVE  Alone'
<1>1. /\ pc' = [pc EXCEPT ![w] = "received"]
      /\ job' = [job EXCEPT ![w] = f]
      /\ UNCHANGED <<known, polizas>>
      /\ job[w] = NoJob
  BY DEF Receive, Alone
<1>2. \A v \in Workers : pc'[v] = "idle" => job'[v] = NoJob
  BY <1>1 DEF TypeOK, Alone
<1>3. contended \subseteq contended'
  BY DEF Receive
<1>4. ASSUME SharedConnector, NEW g \in CFDIs, g \notin contended',
             NEW u \in Workers, NEW v \in Workers, job'[u] = g, job'[v] = g
      PROVE  u = v
  <2>1. CASE g = f
    <3>1. ~ \E x \in Workers : job[x] = f
      BY <1>4, <2>1 DEF Receive
    <3>2. QED
      BY <1>1, <1>4, <2>1, <3>1 DEF TypeOK
  <2>2. CASE g # f
    BY <1>1, <1>3, <1>4, <2>2 DEF TypeOK, Alone
  <2>3. QED
    BY <2>1, <2>2
<1>5. ASSUME SharedConnector, NEW g \in CFDIs, g \notin contended'
      PROVE  /\ polizas'[g] <= 1
             /\ \A v \in Workers :
                  job'[v] = g /\ pc'[v] = "register" /\ ~known'[v] => polizas'[g] = 0
  BY <1>1, <1>3, <1>5 DEF TypeOK, Alone
<1>6. QED
  BY <1>2, <1>4, <1>5 DEF Alone

LEMMA AloneRegister ==
    ASSUME TypeOK, Alone, NEW w \in Workers, RegisterErp(w)
    PROVE  Alone'
<1>1. /\ pc[w] = "register" /\ pc' = [pc EXCEPT ![w] = "log"]
      /\ UNCHANGED <<job, known, contended>>
      /\ job[w] \in CFDIs
  BY DEF RegisterErp, TypeOK
<1>2. \A v \in Workers : pc'[v] = "idle" => job'[v] = NoJob
  BY <1>1 DEF TypeOK, Alone
<1>3. polizas' \in {polizas, [polizas EXCEPT ![job[w]] = @ + 1]}
      /\ (known[w] => polizas' = polizas)
  BY DEF RegisterErp
<1>4. ASSUME SharedConnector, NEW g \in CFDIs \ contended
      PROVE  /\ polizas'[g] <= 1
             /\ \A v \in Workers :
                  job[v] = g /\ pc'[v] = "register" /\ ~known[v] => polizas'[g] = 0
  <2>1. CASE g # job[w]
    <3>1. polizas'[g] = polizas[g]
      BY <1>1, <1>3, <2>1 DEF TypeOK
    <3>2. QED
      BY <1>1, <1>4, <2>1, <3>1 DEF TypeOK, Alone
  <2>2. CASE g = job[w]
    <3>1. \A v \in Workers : job[v] = g => v = w
      BY <1>4, <2>2 DEF Alone
    <3>2. ~known[w] => polizas[g] = 0
      BY <1>1, <1>4, <2>2 DEF Alone
    <3>3. polizas'[g] <= 1
      BY <1>1, <1>3, <1>4, <2>2, <3>2 DEF TypeOK, Alone
    <3>4. pc'[w] # "register"
      BY <1>1 DEF TypeOK
    <3>5. QED
      BY <3>1, <3>3, <3>4
  <2>3. QED
    BY <2>1, <2>2
<1>5. QED
  BY <1>1, <1>2, <1>4 DEF Alone

LEMMA AloneNext == TypeOK /\ Alone /\ [Next]_vars => Alone'
<1> SUFFICES ASSUME TypeOK, Alone, [Next]_vars
             PROVE  Alone'
  OBVIOUS
<1>1. ASSUME NEW w \in Workers, NEW f \in CFDIs, Submit(w, f)
      PROVE  Alone'
  BY <1>1, AloneReceive DEF Submit
<1>2. ASSUME NEW w \in Workers, Evaluate(w)
      PROVE  Alone'
  <2>1. pc'[w] \in {"lookup", "persist"}
    BY <1>2 DEF Evaluate, TypeOK
  <2>2. QED
    BY <1>2, <2>1, AloneKept DEF Evaluate, TypeOK
<1>3. ASSUME NEW w \in Workers, LookUp(w)
      PROVE  Alone'
  <2>0. job[w] \in CFDIs /\ polizas[job[w]] \in Nat
    BY <1>3 DEF LookUp, TypeOK
  <2>1. SharedConnector /\ ~known'[w] => polizas[job[w]] = 0
    <3>1. known'[w] = (SharedConnector /\ polizas[job[w]] > 0)
      BY <1>3, Zenon DEF LookUp, TypeOK
    <3>2. SharedConnector /\ ~known'[w] => ~(polizas[job[w]] > 0)
      BY <3>1, PipelineAssumption, Zenon
    <3>3. QED
      BY <2>0, <3>2
  <2>2. pc'[w] # "idle"
    BY <1>3 DEF LookUp, TypeOK
  <2>3. QED
    BY <1>3, <2>1, <2>2, AloneKept DEF LookUp, TypeOK
<1>4. ASSUME NEW w \in Workers, RegisterErp(w)
      PROVE  Alone'
  BY <1>4, AloneRegister
<1>5. ASSUME NEW w \in Workers, LogRegister(w) \/ Persist(w)
      PROVE  Alone'
  <2>1. pc'[w] \in {"persist", "notify"}
    BY <1>5 DEF LogRegister, Persist, TypeOK
  <2>2. /\ UNCHANGED <<job, polizas, contended>>
        /\ \A v \in Workers \ {w} : pc'[v] = pc[v] /\ known'[v] = known[v]
    BY <1>5 DEF LogRegister, Persist, TypeOK
  <2>3. QED
    BY <2>1, <2>2, AloneKept
<1>6. ASSUME NEW w \in Workers, Notify(w) \/ Fail(w)
      PROVE  Alone'
  BY <1>6, AloneLeave DEF Notify, Fail
<1>7. CASE UNCHANGED vars
  BY <1>7 DEF vars, local, Alone
<1>8. QED
  BY <1>1, <1>2, <1>3, <1>4, <1>5, <1>6, <1>7 DEF Next, Step

\* A CFDI that no two workers had at the shared connector at once leaves at most
\* one poliza, however often it is submitted and wherever the attempts fail.
THEOREM OnePolizaUnlessContended == Spec => []AtMostOnePoliza
<1>1. Init => Alone
  BY PipelineAssumption DEF Init, Alone
<1>2. TypeOK /\ Alone /\ [Next]_vars => Alone'
  BY AloneNext
<1>3. Alone => AtMostOnePoliza
  BY DEF Alone, AtMostOnePoliza
<1>4. QED
  BY <1>1, <1>2, <1>3, TypeCorrect, PTL DEF Spec

-----------------------------------------------------------------------------
(* Which polizas are without an invoice, and whose fault it is.            *)

\* A worker that is not inserting CFDI f, and does not touch its poliza or its row,
\* disturbs nothing.
LEMMA BackedStays ==
    ASSUME TypeOK, NEW w \in Workers, NEW f \in CFDIs, Backed(f),
           polizas' = polizas, rows' = rows, ~Inserts(w, f),
           \A v \in Workers \ {w} : pc'[v] = pc[v] /\ job'[v] = job[v]
    PROVE  Backed(f)'
  BY DEF Backed, Inserts

\* Every step but the failure of the inserting worker keeps a poliza backed.
LEMMA StepBacked ==
    ASSUME TypeOK, NEW f \in CFDIs, Backed(f), [Next]_vars
    PROVE  Backed(f)' \/ \E w \in Workers : Inserts(w, f) /\ Fail(w)
<1>1. ASSUME NEW w \in Workers, NEW g \in CFDIs, Submit(w, g)
      PROVE  Backed(f)'
  BY <1>1, BackedStays DEF TypeOK, Submit, Receive, Inserts
<1>2. ASSUME NEW w \in Workers, Evaluate(w) \/ LookUp(w)
      PROVE  Backed(f)'
  BY <1>2, BackedStays DEF TypeOK, Evaluate, LookUp, Inserts
<1>3. ASSUME NEW w \in Workers, RegisterErp(w)
      PROVE  Backed(f)'
  <2>1. job' = job /\ rows' = rows /\ pc' = [pc EXCEPT ![w] = "log"]
    BY <1>3 DEF RegisterErp
  <2>2. CASE job[w] = f
    BY <2>1, <2>2 DEF TypeOK, Backed, Inserts
  <2>3. CASE job[w] # f
    <3>1. polizas'[f] = polizas[f]
      BY <1>3, <2>3 DEF TypeOK, RegisterErp
    <3>2. \A v \in Workers : Inserts(v, f) => Inserts(v, f)'
      BY <2>1 DEF TypeOK, Inserts
    <3>3. QED
      BY <2>1, <3>1, <3>2 DEF Backed
  <2>4. QED
    BY <2>2, <2>3
<1>4. ASSUME NEW w \in Workers, LogRegister(w)
      PROVE  Backed(f)'
  <2>1. \A v \in Workers : Inserts(v, f) => Inserts(v, f)'
    BY <1>4 DEF TypeOK, LogRegister, Inserts
  <2>2. QED
    BY <1>4, <2>1 DEF LogRegister, Backed
<1>5. ASSUME NEW w \in Workers, Persist(w)
      PROVE  Backed(f)'
  <2>1. UNCHANGED <<polizas, job>>
    BY <1>5 DEF Persist
  <2>2. rows[f] # NoRow => rows'[f] # NoRow
    BY <1>5 DEF TypeOK, Persist
  <2>3. ASSUME NEW v \in Workers, Inserts(v, f)
        PROVE  rows'[f] # NoRow \/ Inserts(v, f)'
    <3>1. CASE v = w
      BY <1>5, <2>3, <3>1, RowForIsRow DEF TypeOK, Persist, Inserts
    <3>2. CASE v # w
      BY <1>5, <2>3, <3>2 DEF TypeOK, Persist, Inserts
    <3>3. QED
      BY <3>1, <3>2
  <2>4. QED
    BY <2>1, <2>2, <2>3 DEF Backed
<1>6. ASSUME NEW w \in Workers, Notify(w)
      PROVE  Backed(f)'
  BY <1>6, BackedStays DEF TypeOK, Notify, Leave, Inserts
<1>7. ASSUME NEW w \in Workers, Fail(w), ~Inserts(w, f)
      PROVE  Backed(f)'
  BY <1>7, BackedStays DEF TypeOK, Fail, Leave
<1>8. CASE UNCHANGED vars
  BY <1>8 DEF vars, local, Backed, Inserts
<1>9. QED
  BY <1>1, <1>2, <1>3, <1>4, <1>5, <1>6, <1>7, <1>8 DEF Next, Step

\* No interleaving of the workers leaves a poliza without its invoice: only the
\* failure of the worker that was to insert it does.
THEOREM OrphansComeFromFailures == Spec => OnlyFailureOrphans
<1>1. TypeOK /\ [Next]_vars =>
        [\A f \in CFDIs : Backed(f) =>
           Backed(f)' \/ \E w \in Workers : Inserts(w, f) /\ Fail(w)]_vars
  BY StepBacked
<1>2. QED
  BY <1>1, TypeCorrect, PTL DEF Spec, OnlyFailureOrphans

-----------------------------------------------------------------------------
\* A step of the pipeline is a step of the ledger or leaves it alone.
LedgerStep == [Ledger!Next]_(Ledger!vars)

\* How the attempts that may still post follow from where the workers are.
Due == {w \in Workers : pc[w] \in {"received", "lookup", "register"}}

LEMMA DueMoves ==
    ASSUME TypeOK, NEW w \in Workers, NEW step \in Steps, pc' = [pc EXCEPT ![w] = step]
    PROVE  /\ step \in {"received", "lookup", "register"} => Due' = Due \cup {w}
           /\ step \notin {"received", "lookup", "register"} => Due' = Due \ {w}
           /\ (w \in Due <=> step \in {"received", "lookup", "register"}) => Due' = Due
  BY DEF Due, TypeOK

\* A worker that takes a CFDI begins an attempt.
LEMMA ReceiveSimulates ==
    ASSUME TypeOK, Alone, NEW w \in Workers, NEW f \in CFDIs, Receive(w, f)
    PROVE  LedgerStep
<1>1. job[w] = NoJob
  BY DEF Receive, Alone
<1>2. Due' = Due \cup {w}
  BY DueMoves DEF Receive, Steps
<1>3. Ledger!Begin(w, f)
  BY <1>1, <1>2 DEF Receive, Ledger!Begin, Due
<1>4. QED
  BY <1>3, Zenon DEF LedgerStep, Ledger!Next

\* A worker that leaves process_file ends its attempt, if it had one.
LEMMA LeaveSimulates ==
    ASSUME TypeOK, Alone, NEW w \in Workers, Leave(w),
           UNCHANGED <<doc, polizas, erpLogged, rows, contended>>
    PROVE  LedgerStep
<1>1. Due' = Due \ {w}
  BY DueMoves DEF Leave, Steps
<1>2. CASE job[w] = NoJob
  <2>1. pc[w] = "idle"
    BY <1>2, PipelineAssumption DEF TypeOK
  <2>2. Due' = Due /\ job' = job
    BY <1>1, <1>2, <2>1 DEF Leave, TypeOK, Due
  <2>3. QED
    BY <2>2 DEF LedgerStep, Ledger!vars, Due
<1>3. CASE job[w] # NoJob
  <2>1. Ledger!End(w)
    BY <1>1, <1>3 DEF Leave, Ledger!End, Due
  <2>2. QED
    BY <2>1, Zenon DEF LedgerStep, Ledger!Next
<1>4. QED
  BY <1>2, <1>3

\* The call of the ERP makes the attempt's one poliza, or none.
LEMMA RegisterSimulates ==
    ASSUME IInv, Alone, NEW w \in Workers, RegisterErp(w)
    PROVE  LedgerStep
<1> PICK f \in CFDIs : f = job[w]
  BY DEF IInv, TypeOK, RegisterErp
<1>1. TypeOK /\ w \in Due
  BY DEF IInv, TypeOK, RegisterErp, Due
<1>2. Ledger!Eligible(doc[f])
  BY <1>1, DecisionCases DEF TypeOK, IInv, WorkerKnows, RegisterErp
<1>3. Due' = Due \ {w}
  BY <1>1, DueMoves DEF RegisterErp, Steps
<1>4. UNCHANGED <<doc, job, erpLogged, rows, contended>>
  BY DEF RegisterErp
<1>5. CASE polizas' = polizas
  <2>1. Ledger!Refuse(w)
    BY <1>1, <1>3, <1>4, <1>5 DEF Ledger!Refuse, Due
  <2>2. QED
    BY <2>1, Zenon DEF LedgerStep, Ledger!Next
<1>6. CASE ~known[w] /\ polizas' = [polizas EXCEPT ![f] = @ + 1]
  <2>1. Ledger!MayPost(f)
    <3>1. pc[w] = "register"
      BY DEF RegisterErp
    <3>2. SharedConnector /\ f \notin contended => polizas[f] = 0
      BY <1>1, <1>6, <3>1 DEF Alone
    <3>3. QED
      BY <3>2 DEF Ledger!MayPost
  <2>2. Ledger!Post(w, f)
    BY <1>1, <1>2, <1>3, <1>4, <1>6, <2>1 DEF Ledger!Post, Due
  <2>3. QED
    BY <1>1, <2>2, Zenon DEF LedgerStep, Ledger!Next
<1>7. QED
  BY <1>5, <1>6 DEF RegisterErp

\* The row in the audit log.
LEMMA LogSimulates ==
    ASSUME IInv, NEW w \in Workers, LogRegister(w)
    PROVE  LedgerStep
<1> PICK f \in CFDIs : f = job[w]
  BY DEF IInv, TypeOK, LogRegister
<1>1. TypeOK /\ w \notin Due
  BY DEF IInv, TypeOK, LogRegister, Due
<1>2. Ledger!Eligible(doc[f])
  BY <1>1, DecisionCases DEF TypeOK, IInv, WorkerKnows, LogRegister
<1>3. Due' = Due
  BY <1>1, DueMoves DEF LogRegister, Steps
<1>4. Ledger!Log(w, f)
  BY <1>1, <1>2, <1>3 DEF LogRegister, Ledger!Log, Due
<1>5. QED
  BY <1>1, <1>4, Zenon DEF LedgerStep, Ledger!Next

\* The row in the invoices table.
LEMMA PersistSimulates ==
    ASSUME IInv, NEW w \in Workers, Persist(w)
    PROVE  LedgerStep
<1> PICK f \in CFDIs : f = job[w]
  BY DEF IInv, TypeOK, Persist
<1>1. TypeOK /\ w \notin Due
  BY DEF IInv, TypeOK, Persist, Due
<1>2. Ledger!Eligible(doc[f]) => f \in erpLogged
  BY <1>1, DecisionCases DEF TypeOK, IInv, WorkerKnows, Persist
<1>3. Due' = Due
  BY <1>1, DueMoves DEF Persist, Steps
<1>4. {g \in CFDIs : rows'[g] # NoRow} = {g \in CFDIs : rows[g] # NoRow} \cup {f}
  <2>1. rows'[f] # NoRow
    BY <1>1, RowForIsRow DEF TypeOK, Persist
  <2>2. \A g \in CFDIs : g # f => rows'[g] = rows[g]
    BY <1>1 DEF TypeOK, Persist
  <2>3. QED
    BY <1>1, <2>1, <2>2
<1>5. Ledger!Book(w, f)
  BY <1>1, <1>2, <1>3, <1>4 DEF Persist, Ledger!Book, Due
<1>6. QED
  BY <1>1, <1>5, Zenon DEF LedgerStep, Ledger!Next

\* The decision ends the attempt's chance of a poliza, or leaves it open.
LEMMA EvaluateSimulates ==
    ASSUME TypeOK, NEW w \in Workers, Evaluate(w)
    PROVE  LedgerStep
<1>1. w \in Due /\ UNCHANGED <<doc, job, polizas, erpLogged, rows, contended>>
  BY DEF Evaluate, Due
<1>2. CASE pc' = [pc EXCEPT ![w] = "lookup"]
  <2>1. Due' = Due
    BY <1>1, <1>2, DueMoves DEF Steps
  <2>2. QED
    BY <1>1, <2>1 DEF LedgerStep, Ledger!vars, Due
<1>3. CASE pc' = [pc EXCEPT ![w] = "persist"]
  <2>1. Due' = Due \ {w}
    BY <1>3, DueMoves DEF Steps
  <2>2. Ledger!Refuse(w)
    BY <1>1, <2>1 DEF Ledger!Refuse, Due
  <2>3. QED
    BY <2>2, Zenon DEF LedgerStep, Ledger!Next
<1>4. QED
  BY <1>2, <1>3 DEF Evaluate

LEMMA StepSimulation ==
    ASSUME IInv, Alone, [Next]_vars
    PROVE  LedgerStep
<1>0. TypeOK
  BY DEF IInv
<1>1. ASSUME NEW w \in Workers, NEW f \in CFDIs, Submit(w, f)
      PROVE  LedgerStep
  BY <1>0, <1>1, ReceiveSimulates DEF Submit
<1>2. ASSUME NEW w \in Workers, Evaluate(w)
      PROVE  LedgerStep
  BY <1>0, <1>2, EvaluateSimulates
<1>3. ASSUME NEW w \in Workers, LookUp(w)
      PROVE  LedgerStep
  <2>1. Due' = Due
    BY <1>0, <1>3, DueMoves DEF LookUp, Steps, Due
  <2>2. QED
    BY <1>3, <2>1 DEF LookUp, LedgerStep, Ledger!vars, Due
<1>4. ASSUME NEW w \in Workers, RegisterErp(w) \/ LogRegister(w) \/ Persist(w)
      PROVE  LedgerStep
  BY <1>4, RegisterSimulates, LogSimulates, PersistSimulates
<1>5. ASSUME NEW w \in Workers, Notify(w) \/ Fail(w)
      PROVE  LedgerStep
  BY <1>0, <1>5, LeaveSimulates DEF Notify, Fail
<1>6. CASE UNCHANGED vars
  BY <1>6 DEF vars, local, LedgerStep, Ledger!vars
<1>7. QED
  BY <1>1, <1>2, <1>3, <1>4, <1>5, <1>6 DEF Next, Step

LEMMA InitAlone == Init => Alone
  BY PipelineAssumption DEF Init, Alone

LEMMA InitSimulation == Init => Ledger!Init
  BY DEF Init, Ledger!Init

\* The pipeline implements the promise of InvoiceLedger, poliza by poliza: a worker
\* makes one at most, and where the connector remembers a CFDI gets a second one only
\* if two workers had it at once.
THEOREM PipelineImplementsLedger == Spec => ImplementsLedger
<1>1. IInv /\ Alone /\ [Next]_vars => Alone'
  BY AloneNext DEF IInv
<1>2. IInv /\ Alone /\ [Next]_vars => [Ledger!Next]_(Ledger!vars)
  BY StepSimulation DEF LedgerStep
<1>3. QED
  BY <1>1, <1>2, InitAlone, InitSimulation, SpecIInv, PTL
  DEF Spec, ImplementsLedger, Ledger!Spec

-----------------------------------------------------------------------------
(* The batch.  Its worker shares the database with the others, so the      *)
(* invariant adds to IInv where each file is: in the database, reported    *)
(* with an error, in the worker's hands, or still to come.                 *)

WorkerIdleOutsideLoop ==
    batch \in {"off", "open", "dump", "finished"} => pc[BatchWorker] = "idle"

Accounted(f) ==
    \/ rows[f] # NoRow
    \/ f \in errored
    \/ pc[BatchWorker] # "idle" /\ job[BatchWorker] = f

FilesAccountedFor ==
    /\ batch \in {"loop", "open", "dump"} => \A f \in CFDIs \ left : Accounted(f)
    /\ FinishedAccountsForAll

BatchVarsType ==
    /\ batch \in {"off", "loop", "open", "dump", "finished"}
    /\ left \subseteq CFDIs
    /\ processed \subseteq CFDIs
    /\ errored \subseteq CFDIs
    /\ checkpoint \in [state: {"absent", "truncated", "intact"}, files: SUBSET CFDIs]
    /\ crashes \in 0..MaxCrashes
    /\ reruns \in 0..MaxReruns

BatchIInv ==
    /\ IInv
    /\ Alone
    /\ BatchVarsType
    /\ CheckpointSound
    /\ WorkerIdleOutsideLoop
    /\ FilesAccountedFor

RowsStay == \A f \in CFDIs : rows[f] # NoRow => rows'[f] # NoRow

LEMMA BatchInitIInv == BatchInit => BatchIInv
<1> SUFFICES ASSUME BatchInit
             PROVE  BatchIInv
  OBVIOUS
<1>1. IInv /\ Alone
  BY InitIInv, InitAlone DEF BatchInit
<1>2. BatchVarsType
  BY BatchAssumption DEF BatchInit, BatchVarsType, NoFile
<1>3. CheckpointSound
  BY DEF BatchInit, CheckpointSound, NoFile
<1>4. WorkerIdleOutsideLoop
  BY BatchAssumption DEF BatchInit, Init, WorkerIdleOutsideLoop
<1>5. FilesAccountedFor
  BY DEF BatchInit, FilesAccountedFor, FinishedAccountsForAll
<1>6. QED
  BY <1>1, <1>2, <1>3, <1>4, <1>5 DEF BatchIInv

\* What a step of the pipeline, of whichever worker, does to the rows.
LEMMA StepKeepsRows ==
    ASSUME IInv, NEW w \in Workers, Step(w) \/ Fail(w)
    PROVE  RowsStay
<1>1. CASE Persist(w)
  <2>1. job[w] \in CFDIs
    BY <1>1 DEF IInv, TypeOK, Persist
  <2>2. QED
    BY <1>1, <2>1, RowForIsRow DEF IInv, TypeOK, Persist, RowsStay
<1>2. CASE Evaluate(w) \/ LookUp(w) \/ RegisterErp(w) \/ LogRegister(w) \/ Notify(w) \/ Fail(w)
  BY <1>2 DEF Evaluate, LookUp, RegisterErp, LogRegister, Notify, Fail, RowsStay
<1>3. QED
  BY <1>1, <1>2 DEF Step

LEMMA FailIInv ==
    ASSUME IInv, NEW w \in Workers, Fail(w)
    PROVE  IInv'
<1>1. LedgerFacts'
  BY DEF Fail, IInv, LedgerFacts
<1>2. QED
  BY <1>1, LeaveIInv DEF Fail, IInv, TypeOK

LEMMA StepIInv ==
    ASSUME IInv, NEW w \in Workers, Step(w)
    PROVE  IInv'
  BY EvaluateIInv, RegisterIInv, PersistIInv, NotifyIInv DEF Step

\* The batch changes the pipeline's state by its steps, and by two more: it takes
\* a file without counting a submission, and dies.
LEMMA BatchPipelinePart ==
    ASSUME IInv, Alone, [BatchNext]_allVars
    PROVE  /\ IInv' /\ Alone'
           /\ RowsStay
           /\ LedgerStep
<1>0. BatchWorker \in Workers /\ TypeOK
  BY BatchAssumption DEF IInv
<1>1. ASSUME [Next]_vars
      PROVE  IInv' /\ Alone' /\ LedgerStep
  BY <1>0, <1>1, NextIInv, AloneNext, StepSimulation
<1>2. CASE UNCHANGED vars
  <2>1. RowsStay
    BY <1>2 DEF vars, RowsStay
  <2>2. QED
    BY <1>1, <1>2, <2>1
<1>3. ASSUME NEW w \in Workers, Step(w) \/ Fail(w)
      PROVE  IInv' /\ Alone' /\ RowsStay /\ LedgerStep
  <2>1. [Next]_vars
    BY <1>3 DEF Next
  <2>2. QED
    BY <1>1, <1>3, <2>1, StepKeepsRows
<1>4. ASSUME NEW w \in Workers, NEW f \in CFDIs, Submit(w, f)
      PROVE  IInv' /\ Alone' /\ RowsStay /\ LedgerStep
  <2>1. [Next]_vars
    BY <1>4 DEF Next
  <2>2. RowsStay
    BY <1>4 DEF Submit, Receive, RowsStay
  <2>3. QED
    BY <1>1, <2>1, <2>2
<1>5. ASSUME NEW f \in CFDIs, NextFile(f)
      PROVE  IInv' /\ Alone' /\ RowsStay /\ LedgerStep
  <2>1. Receive(BatchWorker, f) /\ submissions' \in 0..MaxSubmissions
    BY <1>0, <1>5 DEF NextFile, TypeOK
  <2>2. IInv' /\ Alone' /\ LedgerStep
    BY <1>0, <2>1, ReceiveIInv, AloneReceive, ReceiveSimulates
  <2>3. RowsStay
    BY <2>1 DEF Receive, RowsStay
  <2>4. QED
    BY <2>2, <2>3
<1>6. CASE Crash
  <2>1. LedgerFacts' /\ notices' \in [CFDIs -> SUBSET Events]
    BY <1>6 DEF Crash, IInv, TypeOK, LedgerFacts
  <2>2. /\ Leave(BatchWorker)
        /\ UNCHANGED <<doc, polizas, erpLogged, rows, submissions, contended>>
    BY <1>6 DEF Crash
  <2>3. IInv' /\ Alone' /\ LedgerStep
    BY <1>0, <2>1, <2>2, LeaveIInv, AloneLeave, LeaveSimulates
  <2>4. RowsStay
    BY <2>2 DEF RowsStay
  <2>5. QED
    BY <2>3, <2>4
<1>7. CASE BatchStep
  <2>1. ASSUME NEW f \in CFDIs, SkipProcessed(f)
        PROVE  UNCHANGED vars
    BY <2>1 DEF SkipProcessed
  <2>2. CASE StartBatch \/ OpenCheckpoint \/ DumpCheckpoint \/ FinishBatch
    BY <2>2, <1>2 DEF StartBatch, OpenCheckpoint, DumpCheckpoint, FinishBatch
  <2>3. CASE FileStep
    BY <1>0, <1>3, <2>3 DEF FileStep
  <2>4. QED
    BY <1>2, <1>5, <1>7, <2>1, <2>2, <2>3 DEF BatchStep
<1>8. CASE FileError
  BY <1>0, <1>3, <1>8 DEF FileError
<1>9. CASE RunAgain
  BY <1>2, <1>9 DEF RunAgain
<1>10. ASSUME NEW w \in Workers, OtherWorker(w)
       PROVE  IInv' /\ Alone' /\ RowsStay /\ LedgerStep
  BY <1>3, <1>4, <1>10 DEF OtherWorker
<1>11. CASE UNCHANGED allVars
  BY <1>2, <1>11 DEF allVars
<1>12. QED
  BY <1>6, <1>7, <1>8, <1>9, <1>10, <1>11 DEF BatchNext

LEMMA OthersLeaveBatchWorker ==
    ASSUME IInv, NEW w \in Workers \ {BatchWorker}, OtherWorker(w)
    PROVE  pc'[BatchWorker] = pc[BatchWorker] /\ job'[BatchWorker] = job[BatchWorker]
<1> USE BatchAssumption DEF IInv, TypeOK
<1>1. ASSUME NEW f \in CFDIs, Submit(w, f)
      PROVE  pc'[BatchWorker] = pc[BatchWorker] /\ job'[BatchWorker] = job[BatchWorker]
  BY <1>1 DEF Submit, Receive
<1>2. CASE Evaluate(w)
  BY <1>2 DEF Evaluate
<1>3. CASE LookUp(w) \/ RegisterErp(w) \/ LogRegister(w) \/ Persist(w)
  BY <1>3 DEF LookUp, RegisterErp, LogRegister, Persist
<1>4. CASE Notify(w) \/ Fail(w)
  BY <1>4 DEF Notify, Fail, Leave
<1>5. QED
  BY <1>1, <1>2, <1>3, <1>4 DEF OtherWorker, Step

\* The batch worker's own step: it keeps its file until it returns, and it returns
\* only with the row written.
LEMMA FileStepKeepsFile ==
    ASSUME IInv, FileStep
    PROVE  /\ job[BatchWorker] \in CFDIs
           /\ pc[BatchWorker] # "notify" => /\ pc'[BatchWorker] # "idle"
                                            /\ job'[BatchWorker] = job[BatchWorker]
           /\ pc[BatchWorker] = "notify" => /\ pc'[BatchWorker] = "idle"
                                            /\ rows[job[BatchWorker]] # NoRow
<1> USE BatchAssumption DEF IInv, TypeOK
<1>0. Step(BatchWorker)
  BY DEF FileStep
<1>1. CASE Evaluate(BatchWorker)
  BY <1>1 DEF Evaluate
<1>2. CASE LookUp(BatchWorker) \/ RegisterErp(BatchWorker)
              \/ LogRegister(BatchWorker) \/ Persist(BatchWorker)
  BY <1>2 DEF LookUp, RegisterErp, LogRegister, Persist
<1>3. CASE Notify(BatchWorker)
  BY <1>3 DEF Notify, Leave, WorkerKnows
<1>4. QED
  BY <1>0, <1>1, <1>2, <1>3 DEF Step

LEMMA BatchStepIInv ==
    ASSUME BatchIInv, BatchStep, IInv', Alone', RowsStay
    PROVE  BatchIInv'
<1> USE DEF BatchIInv
<1>0. BatchWorker \in Workers
  BY BatchAssumption
<1>1. CASE StartBatch
  <2> USE <1>1 DEF StartBatch, LoadCheckpoint
  <2>1. UNCHANGED <<rows, pc, job>>
    BY DEF vars, local
  <2>2. LoadCheckpoint \subseteq checkpoint.files /\ checkpoint.files \subseteq CFDIs
    BY DEF BatchVarsType
  <2>3. BatchVarsType'
    BY <2>2 DEF BatchVarsType
  <2>4. CheckpointSound'
    BY <2>1, <2>2 DEF CheckpointSound
  <2>5. WorkerIdleOutsideLoop'
    BY DEF WorkerIdleOutsideLoop
  <2>6. FilesAccountedFor'
    BY DEF FilesAccountedFor, FinishedAccountsForAll
  <2>7. QED
    BY <2>3, <2>4, <2>5, <2>6
<1>2. ASSUME NEW f \in CFDIs, SkipProcessed(f)
      PROVE  BatchIInv'
  <2> USE <1>2 DEF SkipProcessed
  <2>1. UNCHANGED <<rows, pc, job>>
    BY DEF vars, local
  <2>2. BatchVarsType'
    BY DEF BatchVarsType
  <2>3. CheckpointSound'
    BY <2>1 DEF CheckpointSound
  <2>4. WorkerIdleOutsideLoop'
    BY <2>1 DEF WorkerIdleOutsideLoop
  <2>5. rows[f] # NoRow
    BY DEF CheckpointSound
  <2>6. FilesAccountedFor'
    BY <2>1, <2>5 DEF FilesAccountedFor, FinishedAccountsForAll, Accounted, Between
  <2>7. QED
    BY <2>2, <2>3, <2>4, <2>6
<1>3. ASSUME NEW f \in CFDIs, NextFile(f)
      PROVE  BatchIInv'
  <2> USE <1>3 DEF NextFile
  <2>1. /\ rows' = rows
        /\ pc'[BatchWorker] = "received" /\ job'[BatchWorker] = f
    BY <1>0 DEF Receive, IInv, TypeOK
  <2>2. BatchVarsType'
    BY DEF BatchVarsType
  <2>3. CheckpointSound'
    BY <2>1 DEF CheckpointSound
  <2>4. WorkerIdleOutsideLoop'
    BY DEF WorkerIdleOutsideLoop, Between
  <2>5. FilesAccountedFor'
    BY <2>1 DEF FilesAccountedFor, FinishedAccountsForAll, Accounted, Between
  <2>6. QED
    BY <2>2, <2>3, <2>4, <2>5
<1>4. CASE FileStep
  <2>1. batch = "loop" /\ UNCHANGED <<left, errored, checkpoint, crashes, reruns>>
    BY <1>4 DEF FileStep
  <2>2. IF pc[BatchWorker] = "notify"
          THEN processed' = processed \cup {job[BatchWorker]} /\ batch' = "open"
          ELSE processed' = processed /\ batch' = "loop"
    BY <1>4 DEF FileStep
  <2>3. /\ job[BatchWorker] \in CFDIs
        /\ pc[BatchWorker] # "notify" => /\ pc'[BatchWorker] # "idle"
                                         /\ job'[BatchWorker] = job[BatchWorker]
        /\ pc[BatchWorker] = "notify" => /\ pc'[BatchWorker] = "idle"
                                         /\ rows[job[BatchWorker]] # NoRow
    BY <1>4, FileStepKeepsFile
  <2>4. BatchVarsType'
    BY <2>1, <2>2, <2>3 DEF BatchVarsType
  <2>5. CheckpointSound'
    <3>1. processed \cup checkpoint.files \subseteq CFDIs
      BY DEF BatchVarsType
    <3>2. QED
      BY <2>1, <2>2, <2>3, <3>1 DEF CheckpointSound, RowsStay
  <2>6. WorkerIdleOutsideLoop'
    BY <2>2, <2>3 DEF WorkerIdleOutsideLoop
  <2>7. FilesAccountedFor'
    BY <2>1, <2>2, <2>3 DEF FilesAccountedFor, FinishedAccountsForAll, Accounted, RowsStay
  <2>8. QED
    BY <2>4, <2>5, <2>6, <2>7
<1>5. CASE OpenCheckpoint \/ DumpCheckpoint
  <2>1. /\ UNCHANGED <<rows, pc, job, left, processed, errored, crashes, reruns>>
        /\ batch \in {"open", "dump"} /\ batch' \in {"dump", "loop"}
        /\ checkpoint' \in {checkpoint, [state |-> "truncated", files |-> {}],
                            [state |-> "intact", files |-> processed]}
    BY <1>5 DEF OpenCheckpoint, DumpCheckpoint, vars, local
  <2>2. BatchVarsType'
    BY <2>1 DEF BatchVarsType
  <2>3. CheckpointSound'
    BY <2>1 DEF CheckpointSound
  <2>4. WorkerIdleOutsideLoop'
    BY <2>1 DEF WorkerIdleOutsideLoop
  <2>5. FilesAccountedFor'
    BY <2>1 DEF FilesAccountedFor, FinishedAccountsForAll, Accounted
  <2>6. QED
    BY <2>2, <2>3, <2>4, <2>5
<1>6. CASE FinishBatch
  <2>1. /\ UNCHANGED <<rows, pc, job, left, processed, errored, crashes, reruns>>
        /\ batch = "loop" /\ pc[BatchWorker] = "idle" /\ left = {}
        /\ batch' = "finished"
        /\ checkpoint' \in {NoFile, checkpoint}
    BY <1>6 DEF FinishBatch, Between, vars, local
  <2>2. BatchVarsType'
    BY <2>1 DEF BatchVarsType, NoFile
  <2>3. CheckpointSound'
    BY <2>1 DEF CheckpointSound, NoFile
  <2>4. WorkerIdleOutsideLoop'
    BY <2>1 DEF WorkerIdleOutsideLoop
  <2>5. FilesAccountedFor'
    BY <2>1 DEF FilesAccountedFor, FinishedAccountsForAll, Accounted
  <2>6. QED
    BY <2>2, <2>3, <2>4, <2>5
<1>7. QED
  BY <1>1, <1>2, <1>3, <1>4, <1>5, <1>6 DEF BatchStep

LEMMA BatchNextIInv == BatchIInv /\ [BatchNext]_allVars => BatchIInv'
<1> SUFFICES ASSUME BatchIInv, [BatchNext]_allVars
             PROVE  BatchIInv'
  OBVIOUS
<1> USE DEF BatchIInv
<1>0. BatchWorker \in Workers
  BY BatchAssumption
<1>1. IInv' /\ Alone' /\ RowsStay
  BY BatchPipelinePart
<1>2. CASE BatchStep
  BY <1>1, <1>2, BatchStepIInv
<1>3. CASE FileError
  <2> USE <1>3 DEF FileError, Fail
  <2>1. /\ rows' = rows
        /\ pc'[BatchWorker] = "idle"
        /\ job[BatchWorker] \in CFDIs
    BY <1>0 DEF Leave, IInv, TypeOK
  <2>2. BatchVarsType'
    BY <2>1 DEF BatchVarsType
  <2>3. CheckpointSound'
    BY <2>1 DEF CheckpointSound
  <2>4. WorkerIdleOutsideLoop'
    BY <2>1 DEF WorkerIdleOutsideLoop
  <2>5. FilesAccountedFor'
    BY <2>1 DEF FilesAccountedFor, FinishedAccountsForAll, Accounted
  <2>6. QED
    BY <1>1, <2>2, <2>3, <2>4, <2>5
<1>4. CASE Crash
  <2> USE <1>4 DEF Crash
  <2>1. rows' = rows /\ pc'[BatchWorker] = "idle"
    BY <1>0 DEF Leave, IInv, TypeOK
  <2>2. BatchVarsType'
    BY BatchAssumption DEF BatchVarsType
  <2>3. CheckpointSound'
    BY <2>1 DEF CheckpointSound
  <2>4. WorkerIdleOutsideLoop'
    BY <2>1 DEF WorkerIdleOutsideLoop
  <2>5. FilesAccountedFor'
    BY DEF FilesAccountedFor, FinishedAccountsForAll
  <2>6. QED
    BY <1>1, <2>2, <2>3, <2>4, <2>5
<1>5. CASE RunAgain
  <2> USE <1>5 DEF RunAgain
  <2>1. UNCHANGED <<rows, pc, job>>
    BY DEF vars, local
  <2>2. BatchVarsType'
    BY BatchAssumption DEF BatchVarsType
  <2>3. CheckpointSound'
    BY <2>1 DEF CheckpointSound
  <2>4. WorkerIdleOutsideLoop'
    BY <2>1 DEF WorkerIdleOutsideLoop
  <2>5. FilesAccountedFor'
    BY DEF FilesAccountedFor, FinishedAccountsForAll
  <2>6. QED
    BY <1>1, <2>2, <2>3, <2>4, <2>5
<1>6. ASSUME UNCHANGED batchVars, pc'[BatchWorker] = pc[BatchWorker],
             job'[BatchWorker] = job[BatchWorker]
      PROVE  BatchIInv'
  <2> USE <1>6 DEF batchVars
  <2>1. BatchVarsType'
    BY DEF BatchVarsType
  <2>2. CheckpointSound'
    BY <1>1 DEF CheckpointSound, BatchVarsType, RowsStay
  <2>3. WorkerIdleOutsideLoop'
    BY DEF WorkerIdleOutsideLoop
  <2>4. FilesAccountedFor'
    BY <1>1 DEF FilesAccountedFor, FinishedAccountsForAll, Accounted, RowsStay
  <2>5. QED
    BY <1>1, <2>1, <2>2, <2>3, <2>4
<1>7. ASSUME NEW w \in Workers \ {BatchWorker}, OtherWorker(w)
      PROVE  BatchIInv'
  <2>1. UNCHANGED batchVars
    BY <1>7 DEF OtherWorker
  <2>2. QED
    BY <1>6, <1>7, <2>1, OthersLeaveBatchWorker
<1>8. CASE UNCHANGED allVars
  BY <1>6, <1>8 DEF allVars, vars, local
<1>9. QED
  BY <1>2, <1>3, <1>4, <1>5, <1>7, <1>8 DEF BatchNext

LEMMA BatchSpecIInv == BatchSpec => []BatchIInv
  BY BatchInitIInv, BatchNextIInv, PTL DEF BatchSpec

\* Every variable of the batch and of the pipeline under it keeps its type.
THEOREM BatchTypeCorrect == BatchSpec => []BatchTypeOK
<1>1. BatchIInv => BatchTypeOK
  BY DEF BatchIInv, IInv, BatchVarsType, BatchTypeOK
<1>2. QED
  BY <1>1, BatchSpecIInv, PTL

\* A file the batch counts as done, in memory or in the checkpoint on disk, has its
\* invoice in the database, whatever was torn, crashed or processed next to it.
THEOREM CheckpointIsSound == BatchSpec => []CheckpointSound
<1>1. BatchIInv => CheckpointSound
  BY DEF BatchIInv
<1>2. QED
  BY <1>1, BatchSpecIInv, PTL

\* A finished batch has each of its files in the database or among its errors.
THEOREM BatchLosesNoFile == BatchSpec => []FinishedAccountsForAll
<1>1. BatchIInv => FinishedAccountsForAll
  BY DEF BatchIInv, FilesAccountedFor
<1>2. QED
  BY <1>1, BatchSpecIInv, PTL

\* A batch with crashes and reruns, next to any workers, keeps the promise of
\* InvoiceLedger: each pass over a file makes one poliza at most, books it only after
\* the call is logged, and takes nothing back.
THEOREM BatchKeepsLedger == BatchSpec => BatchImplementsLedger
<1>1. BatchInit => Ledger!Init
  BY InitSimulation DEF BatchInit
<1>2. BatchIInv /\ [BatchNext]_allVars => [Ledger!Next]_(Ledger!vars)
  BY BatchPipelinePart DEF BatchIInv, LedgerStep
<1>3. QED
  BY <1>1, <1>2, BatchSpecIInv, PTL
  DEF BatchSpec, BatchImplementsLedger, Ledger!Spec
=============================================================================
