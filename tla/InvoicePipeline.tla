--------------------------- MODULE InvoicePipeline ---------------------------
(***************************************************************************)
(* services/pipeline.py process_file, run by several workers (API threads, *)
(* the portal, the v2 batch) on one tenant's CFDIs, with db.insert_invoice,*)
(* the tool logger and the ERP connector it calls.                         *)
(*                                                                         *)
(* The steps of process_file that touch something other than the worker's  *)
(* own variables are actions of their own, because a failure (an exception *)
(* of the tool, of the audit log or of the database, or the death of the   *)
(* process) can come between any two of them:                              *)
(*   Submit -> Evaluate -> [LookUp -> RegisterErp -> LogRegister]          *)
(*          -> Persist -> Notify                                           *)
(***************************************************************************)
EXTENDS Naturals

CONSTANTS
    Workers,         \* threads that run process_file
    CFDIs,           \* the tenant's documents, identified by folio fiscal
    NoJob,           \* what an idle worker works on
    Kinds,           \* what the tools can find out about a document
    SharedConnector, \* TRUE: one ERP connector object serves every call;
                     \* FALSE: process_file makes a fresh one (its default)
    MaxSubmissions   \* bound on the calls of process_file from outside a batch

ASSUME PipelineAssumption ==
    /\ NoJob \notin CFDIs
    /\ SharedConnector \in BOOLEAN
    /\ MaxSubmissions \in Nat
    /\ Kinds \subseteq [valid: BOOLEAN, cancelled: BOOLEAN, doubtful: BOOLEAN,
                        payment: BOOLEAN, large: BOOLEAN]

VARIABLES
    doc,          \* the kind of each document: fixed
    pc,           \* where each worker is in process_file
    job,          \* the CFDI it works on
    known,        \* whether its connector found a poliza for that folio
    erpStatus,    \* its erp_res["status"]
    polizas,      \* ERP: polizas held for each CFDI
    erpLogged,    \* audit_log: CFDIs with a register_erp row
    rows,         \* invoices table
    notices,      \* notifications sent for each CFDI
    submissions,  \* of these calls, so far
    contended     \* observer: CFDIs two workers had at the same connector at once

local == <<pc, job, known, erpStatus>>
vars  == <<doc, local, polizas, erpLogged, rows, notices, submissions,
           contended>>

Steps    == {"idle", "received", "lookup", "register", "log", "persist", "notify"}
Statuses == {"none", "rejected_invalid_cfdi", "pending_approval", "registrada", "error"}
Events   == {"invoice_rejected", "invoice_pending_approval", "invoice_processed"}
NoRow    == [status |-> "absent", erp_status |-> "absent"]
Row      == [status: {"procesado", "pending_approval", "rejected"},
             erp_status: {"pending"}]

TypeOK ==
    /\ doc \in [CFDIs -> Kinds]
    /\ pc \in [Workers -> Steps]
    /\ job \in [Workers -> CFDIs \cup {NoJob}]
    /\ \A w \in Workers : pc[w] # "idle" => job[w] \in CFDIs
    /\ known \in [Workers -> BOOLEAN]
    /\ erpStatus \in [Workers -> Statuses]
    /\ polizas \in [CFDIs -> Nat]
    /\ erpLogged \subseteq CFDIs
    /\ rows \in [CFDIs -> Row \cup {NoRow}]
    /\ notices \in [CFDIs -> SUBSET Events]
    /\ submissions \in 0..MaxSubmissions
    /\ contended \subseteq CFDIs

Init ==
    /\ doc \in [CFDIs -> Kinds]
    /\ pc = [w \in Workers |-> "idle"]
    /\ job = [w \in Workers |-> NoJob]
    /\ known = [w \in Workers |-> FALSE]
    /\ erpStatus = [w \in Workers |-> "none"]
    /\ polizas = [f \in CFDIs |-> 0]
    /\ erpLogged = {}
    /\ rows = [f \in CFDIs |-> NoRow]
    /\ notices = [f \in CFDIs |-> {}]
    /\ submissions = 0
    /\ contended = {}

-----------------------------------------------------------------------------
\* (Mutation: the hard gate on the confidence is gone.)
ApprovalByAmount(kind) ==
    IF kind.payment \/ kind.large THEN "requires_approval" ELSE "auto_approved"

\* ApprovalManager.evaluate, then the hard gate on the confidence.
Approval(kind) ==
    IF kind.doubtful \/ kind.payment \/ kind.large THEN "requires_approval"
                                                   ELSE "auto_approved"

Accepted(kind) == kind.valid /\ ~kind.cancelled     \* validacion["ok"]

\* What process_file decides to do about the ERP.
Decision(kind) ==
    CASE ~Accepted(kind)                      -> "rejected_invalid_cfdi"
      [] Accepted(kind) /\ Approval(kind) = "auto_approved"     -> "register"
      [] Accepted(kind) /\ Approval(kind) = "requires_approval" -> "pending_approval"

\* The worker leaves process_file and forgets its local variables.
Leave(w) ==
    /\ pc' = [pc EXCEPT ![w] = "idle"]
    /\ job' = [job EXCEPT ![w] = NoJob]
    /\ known' = [known EXCEPT ![w] = FALSE]
    /\ erpStatus' = [erpStatus EXCEPT ![w] = "none"]

\* process_file is called.
Receive(w, f) ==
    /\ pc[w] = "idle"
    /\ pc' = [pc EXCEPT ![w] = "received"]
    /\ job' = [job EXCEPT ![w] = f]
    /\ contended' = IF SharedConnector /\ (\E v \in Workers : job[v] = f)
                      THEN contended \cup {f} ELSE contended
    /\ UNCHANGED <<doc, known, erpStatus, polizas, erpLogged, rows, notices>>

\* ... by one of the API, portal or command-line callers.
Submit(w, f) ==
    /\ submissions < MaxSubmissions
    /\ submissions' = submissions + 1
    /\ Receive(w, f)

\* parse, validate, 69-B, SAT status, classify, anomalies, approval
Evaluate(w) ==
    LET decision == Decision(doc[job[w]]) IN
    /\ pc[w] = "received"
    /\ IF decision = "register"
         THEN /\ pc' = [pc EXCEPT ![w] = "lookup"]
              /\ UNCHANGED erpStatus
         ELSE /\ pc' = [pc EXCEPT ![w] = "persist"]
              /\ erpStatus' = [erpStatus EXCEPT ![w] = decision]
    /\ UNCHANGED <<doc, job, known, polizas, erpLogged, rows, notices, submissions,
                   contended>>

\* (Mutation: the connector does not look.)
LookUpNothing(w) ==
    /\ pc[w] = "lookup"
    /\ pc' = [pc EXCEPT ![w] = "register"]
    /\ UNCHANGED <<doc, job, known, erpStatus, polizas, erpLogged, rows, notices,
                   submissions, contended>>

\* register_invoice first looks the folio up in the connector's own memory, so
\* only a connector that served the earlier call knows about it.
LookUp(w) ==
    /\ pc[w] = "lookup"
    /\ pc' = [pc EXCEPT ![w] = "register"]
    /\ known' = [known EXCEPT ![w] = SharedConnector /\ polizas[job[w]] > 0]
    /\ UNCHANGED <<doc, job, erpStatus, polizas, erpLogged, rows, notices,
                   submissions, contended>>

\* (Mutation: the call of the ERP is not logged.)
RegisterErpUnlogged(w) ==
    /\ pc[w] = "register"
    /\ pc' = [pc EXCEPT ![w] = "persist"]
    /\ erpStatus' = [erpStatus EXCEPT ![w] = "registrada"]
    /\ polizas' = [polizas EXCEPT ![job[w]] = @ + 1]
    /\ UNCHANGED <<doc, job, known, erpLogged, rows, notices, submissions,
                   contended>>

\* (Mutation: an answer of the ERP that is lost is asked for once more.)
RegisterErpAgain(w) ==
    /\ pc[w] = "register"
    /\ \/ /\ pc' = [pc EXCEPT ![w] = "log"]
          /\ erpStatus' = [erpStatus EXCEPT ![w] = "registrada"]
       \/ UNCHANGED <<pc, erpStatus>>
    /\ polizas' = IF known[w] THEN polizas ELSE [polizas EXCEPT ![job[w]] = @ + 1]
    /\ UNCHANGED <<doc, job, known, erpLogged, rows, notices, submissions,
                   contended>>

\* ... and then makes the poliza.  The connector may also answer {"ok": False}.
RegisterErp(w) ==
    /\ pc[w] = "register"
    /\ pc' = [pc EXCEPT ![w] = "log"]
    /\ \/ /\ erpStatus' = [erpStatus EXCEPT ![w] = "registrada"]
          /\ polizas' = IF known[w] THEN polizas
                        ELSE [polizas EXCEPT ![job[w]] = @ + 1]
       \/ /\ ~known[w]
          /\ erpStatus' = [erpStatus EXCEPT ![w] = "error"]
          /\ UNCHANGED polizas
    /\ UNCHANGED <<doc, job, known, erpLogged, rows, notices, submissions,
                   contended>>

\* (Mutation: a registered CFDI is announced without being inserted.)
LogRegisterOnly(w) ==
    /\ pc[w] = "log"
    /\ pc' = [pc EXCEPT ![w] = "notify"]
    /\ erpLogged' = erpLogged \cup {job[w]}
    /\ UNCHANGED <<doc, job, known, erpStatus, polizas, rows, notices, submissions,
                   contended>>

\* _tool logs the call once the tool has returned.
LogRegister(w) ==
    /\ pc[w] = "log"
    /\ pc' = [pc EXCEPT ![w] = "persist"]
    /\ erpLogged' = erpLogged \cup {job[w]}
    /\ UNCHANGED <<doc, job, known, erpStatus, polizas, rows, notices, submissions,
                   contended>>

\* The status column is derived from the erp argument of insert_invoice.
RowFor(erp) ==
    [erp_status |-> erp,
     status |-> CASE erp = "pending_approval"      -> "pending_approval"
                  [] erp = "rejected_invalid_cfdi" -> "rejected"
                  [] OTHER                         -> "procesado"]

\* (Mutation: the insert is given erp_res.)
PersistResult(w) ==
    /\ pc[w] = "persist"
    /\ pc' = [pc EXCEPT ![w] = "notify"]
    /\ rows' = IF rows[job[w]] = NoRow
                 THEN [rows EXCEPT ![job[w]] = RowFor(erpStatus[w])]
                 ELSE rows
    /\ UNCHANGED <<doc, job, known, erpStatus, polizas, erpLogged, notices,
                   submissions, contended>>

\* insert_invoice(..., erp=pending_erp): whatever was decided, the argument is
\* {"status": "pending"}; an existing row is left as it is.
Persist(w) ==
    /\ pc[w] = "persist"
    /\ pc' = [pc EXCEPT ![w] = "notify"]
    /\ rows' = IF rows[job[w]] = NoRow
                 THEN [rows EXCEPT ![job[w]] = RowFor("pending")]
                 ELSE rows
    /\ UNCHANGED <<doc, job, known, erpStatus, polizas, erpLogged, notices,
                   submissions, contended>>

EventFor(kind, status) ==
    CASE ~Accepted(kind) -> "invoice_rejected"
      [] Accepted(kind) /\ status = "pending_approval" -> "invoice_pending_approval"
      [] Accepted(kind) /\ status # "pending_approval" -> "invoice_processed"

\* A notification that cannot be sent does not fail the call.
Notify(w) ==
    /\ pc[w] = "notify"
    /\ Leave(w)
    /\ \/ notices' = [notices EXCEPT ![job[w]] =
                        @ \cup {EventFor(doc[job[w]], erpStatus[w])}]
       \/ UNCHANGED notices
    /\ UNCHANGED <<doc, polizas, erpLogged, rows, submissions, contended>>

\* An exception leaves process_file, or the process dies: what the worker knew is
\* lost, what it wrote stays.
Fail(w) ==
    /\ pc[w] # "idle"
    /\ Leave(w)
    /\ UNCHANGED <<doc, polizas, erpLogged, rows, notices, submissions,
                   contended>>

Step(w) == \/ Evaluate(w) \/ LookUp(w) \/ RegisterErp(w) \/ LogRegister(w)
           \/ Persist(w) \/ Notify(w)

Next ==
    \E w \in Workers :
        \/ \E f \in CFDIs : Submit(w, f)
        \/ Step(w)
        \/ Fail(w)

Spec == Init /\ [][Next]_vars

-----------------------------------------------------------------------------
(* Properties.                                                             *)

Eligible(kind) == Decision(kind) = "register"

\* The promise, with the database, the audit log and the ERP read off the state.
\* A worker inside process_file is an attempt; until the connector has answered, or
\* the decision is not to call it, a poliza may come of it.
Ledger == INSTANCE InvoiceLedger
            WITH Attempts <- Workers, None <- NoJob, Remembers <- SharedConnector,
                 at <- job,
                 due <- {w \in Workers : pc[w] \in {"received", "lookup", "register"}},
                 posts <- polizas,
                 logged <- erpLogged,
                 booked <- {f \in CFDIs : rows[f] # NoRow},
                 overlapped <- contended

\* Whatever the workers interleave and wherever they fail, the pipeline implements the
\* promise of InvoiceLedger: polizas are counted, one per attempt at most, a second
\* one of a CFDI only where two workers had it at once or the connector has no memory.
ImplementsLedger == Ledger!Spec

\* No human gate is bypassed: a poliza exists only for a CFDI that is valid and
\* was neither cancelled, nor doubtful, nor a payment, nor above the threshold.
OnlyEligiblePosted == \A f \in CFDIs : polizas[f] > 0 => Ledger!Eligible(doc[f])

\* A CFDI submitted again and again, after whatever failures, leaves one poliza
\* ("[34][39] Idempotente", erp/contpaqi.py) when the connector object outlives the
\* call and no two workers worked on the CFDI at the same time.
AtMostOnePoliza ==
    SharedConnector => \A f \in CFDIs \ contended : polizas[f] <= 1

\* The firm is told that a CFDI was processed only when its row is in the database
\* and the call to the ERP is in the audit log.
ProcessedNoticeIsBacked ==
    \A f \in CFDIs : "invoice_processed" \in notices[f]
                       => rows[f] # NoRow /\ f \in erpLogged

\* Comment at pipeline.py:151-152, "Persistir en DB PRIMERO [...] previene polizas
\* fantasma en ERP si DB falla despues": a poliza has its invoice in the database,
\* or a worker that is still going to write it.
PersistFirst ==
    \A f \in CFDIs : polizas[f] > 0 =>
        rows[f] # NoRow \/ \E w \in Workers : job[w] = f

\* A worker that has the CFDI past the call of the ERP and is going to insert it.
Inserts(w, f) == job[w] = f /\ pc[w] \in {"log", "persist"}

\* A poliza of the CFDI has its row, or a worker that is about to write it.
Backed(f) == polizas[f] > 0 => rows[f] # NoRow \/ \E w \in Workers : Inserts(w, f)

\* What holds of the comment at pipeline.py:151-152: no interleaving leaves a poliza
\* without an invoice.  A poliza, old or new, is backed after every step, unless it
\* was not before or the worker that was to write the row fails, between the call of
\* the ERP and the insert.
OnlyFailureOrphans ==
    [][\A f \in CFDIs : Backed(f) =>
          Backed(f)' \/ \E w \in Workers : Inserts(w, f) /\ Fail(w)]_vars

=============================================================================
