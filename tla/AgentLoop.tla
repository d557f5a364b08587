------------------------------ MODULE AgentLoop ------------------------------
(***************************************************************************)
(* agent/loop.py AgentLoop.process: the agent that takes the CFDIs of the  *)
(* inbound e-mails through an LLM, the human-review gate, the ERP, the     *)
(* database and the notifier.  Each e-mail gets a loop object of its own   *)
(* (api/webhooks.py), so the workers share only the stores: the ERP export,*)
(* the audit log, the invoices and reviews tables and the notifier.        *)
(*                                                                         *)
(* A CFDI of this module is one tenant's copy of a document: two tenants   *)
(* may hold documents with the same folio fiscal.                          *)
(*                                                                         *)
(* An LLM call runs in a thread of its own (services/timeouts.py).  When   *)
(* its timeout fires, with_timeout leaves a `with ThreadPoolExecutor' block*)
(* and so waits for the hung call: `late' says a worker is in that wait.   *)
(***************************************************************************)
EXTENDS Naturals

CONSTANTS
    Workers,         \* threads that handle inbound e-mails
    CFDIs,           \* documents as the tenants hold them
    Folio,           \* the folio fiscal of each CFDI
    NoJob,           \* what an idle worker works on
    Kinds,           \* kinds of documents, with the review policy and the erp_type
                     \* of their tenant: "csv", or "driver" (Computer Use)
    MaxSubmissions,  \* bound on the calls of process
    MaxFailures      \* bound on the exceptions and crashes

ASSUME AgentAssumption ==
    /\ NoJob \notin CFDIs
    /\ Kinds \subseteq [readable: BOOLEAN, valid: BOOLEAN,
                        policy: {"hold", "auto_register"}, erp: {"csv", "driver"}]
    /\ MaxSubmissions \in Nat
    /\ MaxFailures \in Nat

VARIABLES
    doc,          \* the kind of each CFDI: fixed
    pc,           \* the step of process each worker is in
    late,         \* whether that step is an LLM call past its timeout
    job,          \* the CFDI it works on
    verdict,      \* its clasif
    level,        \* its anomalia["nivel"]
    known,        \* whether its ERP connector found the folio
    erpRes,       \* its erp_res
    polizas,      \* ERP: polizas registered on behalf of each CFDI
    audit,        \* audit_log: <<clasif, nivel>> the LLM steps logged
    rows,         \* invoices table: erp_status of each CFDI's row
    reviews,      \* reviews table: rows of each CFDI
    notices,      \* notifications sent for each CFDI
    returned,     \* observer: decisions process has returned for each CFDI
    contended,    \* observer: CFDIs two workers worked on at the same time
    interrupted,  \* observer: CFDIs of which an attempt failed
    submissions, failures

local  == <<pc, late, job, verdict, level, known, erpRes>>
stores == <<polizas, audit, rows, reviews, notices, returned>>
vars   == <<doc, local, stores, contended, interrupted, submissions, failures>>

\* A classification is a catalogue category at or above the 0.7 threshold
\* ("sure"), "desconocido" at or above it, a confidence below it, or none at all
\* (confidence 0, or the fallback of a timeout).
Verdicts  == {"sure", "unknown", "low", "nothing"}
LlmSteps  == {"classify", "repair", "anomaly"}
Steps     == {"idle", "received", "parse_review", "parse_notify", "reject_insert",
              "reject_review", "reject_notify", "lookup", "register", "insert",
              "notify", "review"} \cup LlmSteps
Events    == {"invoice_parse_failed", "invoice_rejected", "invoice_review",
              "invoice_processed"}
Decisions == {"parse_failed", "invalid", "needs_review", "auto_processed"}

TypeOK ==
    /\ doc \in [CFDIs -> Kinds]
    /\ pc \in [Workers -> Steps]
    /\ late \in [Workers -> BOOLEAN]
    /\ \A w \in Workers : late[w] => pc[w] \in LlmSteps
    /\ job \in [Workers -> CFDIs \cup {NoJob}]
    /\ \A w \in Workers : pc[w] = "idle" <=> job[w] = NoJob
    /\ verdict \in [Workers -> Verdicts]
    /\ level \in [Workers -> {"normal", "alerta"}]
    /\ known \in [Workers -> BOOLEAN]
    /\ erpRes \in [Workers -> {"none", "registrada", "error"}]
    /\ polizas \in [CFDIs -> Nat]
    /\ audit \in [CFDIs -> SUBSET (Verdicts \X {"normal", "alerta"})]
    /\ rows \in [CFDIs -> {"absent", "none", "registrada", "error"}]
    /\ reviews \in [CFDIs -> Nat]
    /\ notices \in [CFDIs -> SUBSET Events]
    /\ returned \in [CFDIs -> SUBSET Decisions]
    /\ contended \subseteq CFDIs
    /\ interrupted \subseteq CFDIs
    /\ submissions \in 0..MaxSubmissions
    /\ failures \in 0..MaxFailures

Fresh(w, f, step) ==
    /\ pc' = [pc EXCEPT ![w] = step]
    /\ late' = [late EXCEPT ![w] = FALSE]
    /\ job' = [job EXCEPT ![w] = f]
    /\ verdict' = [verdict EXCEPT ![w] = "nothing"]
    /\ level' = [level EXCEPT ![w] = "normal"]
    /\ known' = [known EXCEPT ![w] = FALSE]
    /\ erpRes' = [erpRes EXCEPT ![w] = "none"]

Init ==
    /\ doc \in [CFDIs -> Kinds]
    /\ pc = [w \in Workers |-> "idle"]
    /\ late = [w \in Workers |-> FALSE]
    /\ job = [w \in Workers |-> NoJob]
    /\ verdict = [w \in Workers |-> "nothing"]
    /\ level = [w \in Workers |-> "normal"]
    /\ known = [w \in Workers |-> FALSE]
    /\ erpRes = [w \in Workers |-> "none"]
    /\ polizas = [f \in CFDIs |-> 0]
    /\ audit = [f \in CFDIs |-> {}]
    /\ rows = [f \in CFDIs |-> "absent"]
    /\ reviews = [f \in CFDIs |-> 0]
    /\ notices = [f \in CFDIs |-> {}]
    /\ returned = [f \in CFDIs |-> {}]
    /\ contended = {}
    /\ interrupted = {}
    /\ submissions = 0
    /\ failures = 0

-----------------------------------------------------------------------------
Goto(w, step) == pc' = [pc EXCEPT ![w] = step]

Submit(w, f) ==
    /\ pc[w] = "idle"
    /\ submissions < MaxSubmissions
    /\ submissions' = submissions + 1
    /\ Fresh(w, f, "received")
    /\ contended' = IF \E v \in Workers : job[v] = f THEN contended \cup {f}
                                                    ELSE contended
    /\ UNCHANGED <<doc, interrupted, stores, failures>>

\* parse_cfdi and validate_cfdi; an exception of the latter counts as invalid.
ParseAndValidate(w) ==
    LET kind == doc[job[w]] IN
    /\ pc[w] = "received"
    /\ Goto(w, CASE ~kind.readable               -> "parse_review"
                 [] kind.readable /\ ~kind.valid -> "reject_insert"
                 [] kind.readable /\ kind.valid  -> "classify")
    /\ UNCHANGED <<doc, contended, interrupted, late, job, verdict, level, known, erpRes,
                   stores, submissions, failures>>

-----------------------------------------------------------------------------
(* The LLM.                                                                *)

\* An invalid or ambiguous classification is asked for once more.
NeedsRepair(v) == v \in {"unknown", "low", "nothing"}

\* (Mutation: the repair pass is repeated until it helps.)
ClassifiedUntilGood(w, v) ==
    /\ pc[w] \in {"classify", "repair"}
    /\ verdict' = [verdict EXCEPT ![w] = v]
    /\ Goto(w, IF NeedsRepair(v) THEN "repair" ELSE "anomaly")

\* What follows a classification v of step pc[w].  A "low" one is repaired only
\* when its category is unknown, so both ways are open to it.  An answer of the
\* repair pass without a confidence is thrown away.
Classified(w, v) ==
    \/ /\ pc[w] = "classify"
       /\ NeedsRepair(v)
       /\ verdict' = [verdict EXCEPT ![w] = v]
       /\ Goto(w, "repair")
    \/ /\ pc[w] = "classify"
       /\ v \in {"sure", "low"}
       /\ verdict' = [verdict EXCEPT ![w] = v]
       /\ Goto(w, "anomaly")
    \/ /\ pc[w] = "repair"
       /\ verdict' = IF v = "nothing" THEN verdict ELSE [verdict EXCEPT ![w] = v]
       /\ Goto(w, "anomaly")

\* (Mutation: the confidence gate AG-1 is gone.)
DecisionByPolicy(v, lvl, policy) ==
    IF v = "sure" /\ lvl = "normal" THEN "auto"
    ELSE IF policy = "auto_register" THEN "register" ELSE "hold"

\* What process decides: register at once, register and have it reviewed, or hold.
Decision(v, lvl, policy) ==
    CASE v = "sure" /\ lvl = "normal"    -> "auto"
      [] v \in {"low", "nothing"}        -> "hold"
      [] \/ v = "unknown"
         \/ v = "sure" /\ lvl = "alerta" -> IF policy = "auto_register"
                                              THEN "register" ELSE "hold"

\* The anomaly level is logged with the classification; then process decides.
Assessed(w, lvl) ==
    /\ pc[w] = "anomaly"
    /\ level' = [level EXCEPT ![w] = lvl]
    /\ audit' = [audit EXCEPT ![job[w]] = @ \cup {<<verdict[w], lvl>>}]
    /\ Goto(w, IF Decision(verdict[w], lvl, doc[job[w]].policy) = "hold"
                 THEN "insert" ELSE "lookup")

\* The LLM (or the rules behind it) answers in time.
LlmAnswers(w) ==
    /\ pc[w] \in LlmSteps
    /\ ~late[w]
    /\ \/ /\ \E v \in Verdicts : Classified(w, v)
          /\ UNCHANGED <<level, audit>>
       \/ /\ \E lvl \in {"normal", "alerta"} : Assessed(w, lvl)
          /\ UNCHANGED verdict
    /\ UNCHANGED <<doc, contended, interrupted, late, job, known, erpRes, polizas, rows,
                   reviews, notices, returned, submissions, failures>>

LlmTimesOut(w) ==
    /\ pc[w] \in LlmSteps
    /\ ~late[w]
    /\ late' = [late EXCEPT ![w] = TRUE]
    /\ UNCHANGED <<doc, contended, interrupted, pc, job, verdict, level, known, erpRes,
                   stores, submissions, failures>>

\* (Mutation: a detector that timed out is taken for a clean bill.)
LateLlmIsNormal(w) ==
    /\ late[w]
    /\ late' = [late EXCEPT ![w] = FALSE]
    /\ \/ Classified(w, "nothing") /\ UNCHANGED <<level, audit>>
       \/ /\ pc[w] = "anomaly"
          /\ audit' = [audit EXCEPT ![job[w]] = @ \cup {<<verdict[w], "alerta">>}]
          /\ Goto(w, IF Decision(verdict[w], "normal", doc[job[w]].policy) = "hold"
                       THEN "insert" ELSE "lookup")
          /\ UNCHANGED <<level, verdict>>
    /\ UNCHANGED <<doc, contended, interrupted, job, known, erpRes, polizas, rows, reviews,
                   notices, returned, submissions, failures>>

\* The hung call ends, its answer is dropped: no classification, or an alert.
LateLlmReturns(w) ==
    /\ late[w]
    /\ late' = [late EXCEPT ![w] = FALSE]
    /\ \/ Classified(w, "nothing") /\ UNCHANGED <<level, audit>>
       \/ Assessed(w, "alerta") /\ UNCHANGED verdict
    /\ UNCHANGED <<doc, contended, interrupted, job, known, erpRes, polizas, rows, reviews,
                   notices, returned, submissions, failures>>

-----------------------------------------------------------------------------
(* _register: erp_factory makes the connector, register_erp calls it.      *)

\* CSVErp.__init__ reads the export file, which all tenants share, and
\* register_invoice looks the folio up in what it read.
InExport(f) ==
    \E g \in CFDIs : doc[g].erp = "csv" /\ Folio[g] = Folio[f] /\ polizas[g] > 0

\* (Mutation: the file is not read.)
LookUpNothing(w) ==
    /\ pc[w] = "lookup"
    /\ Goto(w, "register")
    /\ UNCHANGED <<doc, contended, interrupted, late, job, verdict, level, known, erpRes,
                   stores, submissions, failures>>

LookUp(w) ==
    /\ pc[w] = "lookup"
    /\ Goto(w, "register")
    /\ known' = [known EXCEPT ![w] = doc[job[w]].erp = "csv" /\ InExport(job[w])]
    /\ UNCHANGED <<doc, contended, interrupted, late, job, verdict, level, erpRes, stores,
                   submissions, failures>>

\* A row is appended unless the folio was found.  A driver may
\* answer {"ok": False}.  It may also never answer: the call has no timeout, so this step of
\* its worker need not come (FairSpec).
RegisterErp(w) ==
    /\ pc[w] = "register"
    /\ Goto(w, "insert")
    /\ \/ /\ erpRes' = [erpRes EXCEPT ![w] = "registrada"]
          /\ polizas' = IF known[w] THEN polizas
                        ELSE [polizas EXCEPT ![job[w]] = @ + 1]
       \/ /\ doc[job[w]].erp = "driver"
          /\ erpRes' = [erpRes EXCEPT ![w] = "error"]
          /\ UNCHANGED polizas
    /\ UNCHANGED <<doc, contended, interrupted, late, job, verdict, level, known, audit,
                   rows, reviews, notices, returned, submissions, failures>>

-----------------------------------------------------------------------------
NeedsReview(w) ==
    Decision(verdict[w], level[w], doc[job[w]].policy) # "auto"

\* (Mutation: what the ERP answered is taken for a success.)
InsertAsRegistered(w) ==
    /\ \/ pc[w] = "insert" /\ Goto(w, "notify")
       \/ pc[w] = "reject_insert" /\ Goto(w, "reject_review")
    /\ rows' = IF rows[job[w]] = "absent"
                 THEN [rows EXCEPT ![job[w]] = IF erpRes[w] = "none" THEN "none"
                                                                     ELSE "registrada"]
                 ELSE rows
    /\ UNCHANGED <<doc, contended, interrupted, late, job, verdict, level, known, erpRes,
                   polizas, audit, reviews, notices, returned, submissions,
                   failures>>

\* insert_invoice leaves an existing row as it is.
Insert(w) ==
    /\ \/ pc[w] = "insert" /\ Goto(w, "notify")
       \/ pc[w] = "reject_insert" /\ Goto(w, "reject_review")
    /\ rows' = IF rows[job[w]] = "absent" THEN [rows EXCEPT ![job[w]] = erpRes[w]]
                                          ELSE rows
    /\ UNCHANGED <<doc, contended, interrupted, late, job, verdict, level, known, erpRes,
                   polizas, audit, reviews, notices, returned, submissions,
                   failures>>

Return(w, decision) ==
    /\ Fresh(w, NoJob, "idle")
    /\ returned' = [returned EXCEPT ![job[w]] = @ \cup {decision}]

Stay(w, step) ==
    /\ Goto(w, step)
    /\ UNCHANGED <<late, job, verdict, level, known, erpRes, returned>>

\* _escalate: a row in reviews.  On the way of a CFDI that was classified it is
\* the last thing process does; the other two notify afterwards.
CreateReview(w) ==
    /\ \/ pc[w] = "parse_review" /\ Stay(w, "parse_notify")
       \/ pc[w] = "reject_review" /\ Stay(w, "reject_notify")
       \/ pc[w] = "review" /\ Return(w, "needs_review")
    /\ reviews' = [reviews EXCEPT ![job[w]] = @ + 1]
    /\ UNCHANGED <<doc, contended, interrupted, polizas, audit, rows, notices, submissions,
                   failures>>

EventOf(w) ==
    CASE pc[w] = "parse_notify"  -> "invoice_parse_failed"
      [] pc[w] = "reject_notify" -> "invoice_rejected"
      [] pc[w] = "notify"        -> IF NeedsReview(w) THEN "invoice_review"
                                                      ELSE "invoice_processed"

\* (Mutation: an escalated CFDI returns without its review.)
NotifyAndReturn(w) ==
    /\ \/ pc[w] = "parse_notify" /\ Return(w, "parse_failed")
       \/ pc[w] = "reject_notify" /\ Return(w, "invalid")
       \/ pc[w] = "notify" /\ Return(w, IF NeedsReview(w) THEN "needs_review"
                                                          ELSE "auto_processed")
    /\ notices' = [notices EXCEPT ![job[w]] = @ \cup {EventOf(w)}]
    /\ UNCHANGED <<doc, contended, interrupted, polizas, audit, rows, reviews, submissions,
                   failures>>

\* _send: a notification that cannot be sent is swallowed.
Notify(w) ==
    /\ \/ pc[w] = "parse_notify" /\ Return(w, "parse_failed")
       \/ pc[w] = "reject_notify" /\ Return(w, "invalid")
       \/ pc[w] = "notify" /\ NeedsReview(w) /\ Stay(w, "review")
       \/ pc[w] = "notify" /\ ~NeedsReview(w) /\ Return(w, "auto_processed")
    /\ \/ notices' = [notices EXCEPT ![job[w]] = @ \cup {EventOf(w)}]
       \/ UNCHANGED notices
    /\ UNCHANGED <<doc, contended, interrupted, polizas, audit, rows, reviews, submissions,
                   failures>>

\* An exception of a store leaves process, or the process dies.
Fail(w) ==
    /\ pc[w] # "idle"
    /\ failures < MaxFailures
    /\ failures' = failures + 1
    /\ interrupted' = interrupted \cup {job[w]}
    /\ Fresh(w, NoJob, "idle")
    /\ UNCHANGED <<doc, contended, stores, submissions>>

Step(w) == \/ ParseAndValidate(w) \/ LlmTimesOut(w) \/ LookUp(w) \/ RegisterErp(w)
           \/ Insert(w) \/ CreateReview(w) \/ Notify(w)

\* A worker waits for a driver that has to register its CFDI.
AwaitsDriver(w) == pc[w] = "register" /\ doc[job[w]].erp = "driver"

Next ==
    \E w \in Workers :
        \/ \E f \in CFDIs : Submit(w, f)
        \/ Step(w)
        \/ LlmAnswers(w)
        \/ LateLlmReturns(w)
        \/ Fail(w)

Spec == Init /\ [][Next]_vars

\* The loop runs on and its timeouts fire; an LLM call that outlives its timeout ends
\* eventually (its HTTP request has a timeout of its own).  Nothing makes a driver
\* answer.
FairSpec ==
    /\ Spec
    /\ \A w \in Workers : /\ WF_vars(~AwaitsDriver(w) /\ Step(w))
                         /\ WF_vars(LateLlmReturns(w))

-----------------------------------------------------------------------------
(* Properties.                                                             *)

\* Every poliza has its justification in the audit log: a classification and an
\* anomaly level, logged for that CFDI, on which the code may register it.  Either the
\* LLM was sure of a category and saw no anomaly; or the tenant's policy is
\* auto_register and the answer was at or above the confidence threshold, be it
\* "desconocido" or with an alert.  Whatever times out, fails or is submitted again, an
\* answer below the threshold, or none, registers nothing under either policy (line
\* 247; the tree at agent/loop.py:16-19 has auto_register register those too).
PolizaIsJustified ==
    \A f \in CFDIs : polizas[f] > 0 =>
        /\ doc[f].readable /\ doc[f].valid
        /\ \/ <<"sure", "normal">> \in audit[f]
           \/ /\ doc[f].policy = "auto_register"
              /\ \E l \in audit[f] : l[1] \in {"sure", "unknown"}

\* An attempt that returned an escalation has left a row in reviews.
EscalationIsReviewed ==
    \A f \in CFDIs : returned[f] \ {"auto_processed"} # {} => reviews[f] > 0

\* An attempt that returned "auto_processed" has its row in the database, and an
\* "invoice_processed" notice goes out only for a CFDI the LLM passed.
AutoProcessedIsBacked ==
    \A f \in CFDIs :
        ("auto_processed" \in returned[f] \/ "invoice_processed" \in notices[f])
        => rows[f] # "absent" /\ <<"sure", "normal">> \in audit[f]

\* "Factura ... ya registrada (idempotente)" (erp/csv_erp.py:56): the export holds
\* one poliza for a folio however often it is submitted and wherever the attempts
\* fail, unless two workers had it at the same time.
OnePolizaPerCFDI ==
    \A f \in CFDIs \ contended : doc[f].erp = "csv" => polizas[f] <= 1

\* The ERP has it: by a poliza of its own, or by the row of the export its folio was found in.
IsRegistered(f) == polizas[f] > 0 \/ (doc[f].erp = "csv" /\ InExport(f))

\* The decisions the attempts at a CFDI have logged.
Logged(f) == {Decision(l[1], l[2], doc[f].policy) : l \in audit[f]}

\* The row says what the attempt that wrote it did: what it calls registered is in the
\* ERP, and the code had decided so.
RowIsTrue(f) ==
    /\ rows[f] \in {"registrada", "error"} => Logged(f) \ {"hold"} # {}
    /\ rows[f] = "registrada" => IsRegistered(f)
    /\ rows[f] = "none" => ~doc[f].valid \/ "hold" \in Logged(f)

ReviewIsDue(w) == \/ pc[w] = "reject_review"
                  \/ pc[w] \in {"notify", "review"} /\ NeedsReview(w)

\* A row that says nothing of the ERP, or whose CFDI no attempt has passed, has a review,
\* or a worker is about to write it; and so has a poliza its row.
RowIsFollowedUp(f) ==
    /\ rows[f] = "none" \/ (rows[f] # "absent" /\ "auto" \notin Logged(f)) =>
         reviews[f] > 0 \/ \E w \in Workers : job[w] = f /\ ReviewIsDue(w)
    /\ polizas[f] > 0 =>
         rows[f] # "absent" \/ \E w \in Workers : job[w] = f /\ pc[w] = "insert"

\* The row of a CFDI stays with the attempt that wrote it, while reviews and polizas come
\* from any (agent/loop.py:267-300).  Held, corrected and submitted again, by several
\* workers at once, it is true all the same; and unless an attempt was interrupted,
\* nothing waits for a human without a review.
RowsAreAccountedFor ==
    \A f \in CFDIs : RowIsTrue(f) /\ (f \notin interrupted => RowIsFollowedUp(f))

\* What holds of services/timeouts.py:5, "Prevents worker starvation when SAT, LLM, or
\* ERP services hang": a worker that took a CFDI gets done with it, through timeouts and
\* repairs, or waits for a driver.  For that wait there is no timeout (loop.py:307-316);
\* and once the driver has answered, the worker gets done.
AttemptEnds ==
    \A w \in Workers : pc[w] # "idle" ~> pc[w] = "idle" \/ AwaitsDriver(w)
=============================================================================
