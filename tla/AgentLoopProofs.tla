--------------------------- MODULE AgentLoopProofs ---------------------------
(***************************************************************************)
(* Proofs about AgentLoop, for every set of workers and CFDIs, any kinds   *)
(* and folios, and any number of submissions and failures.                 *)
(*                                                                         *)
(* A poliza outlives the worker that made it, so its justification must be *)
(* traced back to the decision of that worker: WorkerKnows says what each  *)
(* program point has behind it, StoreFacts what the stores show of it.     *)
(***************************************************************************)
EXTENDS AgentLoop, TLAPS

Decided == {"lookup", "register", "insert", "notify", "review"}

WorkerKnows ==
    \A w \in Workers :
        LET f == job[w] IN
        /\ pc[w] \in LlmSteps \cup Decided => doc[f].readable /\ doc[f].valid
        /\ pc[w] \in Decided => <<verdict[w], level[w]>> \in audit[f]
        /\ pc[w] \in {"lookup", "register"} =>
             Decision(verdict[w], level[w], doc[f].policy) # "hold"
        /\ pc[w] \in {"reject_review", "reject_notify", "notify", "review"} =>
             rows[f] # "absent"
        /\ pc[w] \in {"parse_notify", "reject_notify"} => reviews[f] > 0

StoreFacts == PolizaIsJustified /\ EscalationIsReviewed /\ AutoProcessedIsBacked

IInv == TypeOK /\ WorkerKnows /\ StoreFacts

-----------------------------------------------------------------------------
Levels == {"normal", "alerta"}

\* What a decision says about the classification and the level it was made on.
LEMMA DecisionCases ==
    ASSUME NEW v \in Verdicts, NEW lvl \in Levels,
           NEW policy \in {"hold", "auto_register"}
    PROVE  /\ Decision(v, lvl, policy) = "auto" <=> v = "sure" /\ lvl = "normal"
           /\ Decision(v, lvl, policy) # "hold" =>
                \/ v = "sure" /\ lvl = "normal"
                \/ policy = "auto_register" /\ v \in {"sure", "unknown"}
<1>1. CASE v = "sure" /\ lvl = "normal"
  BY <1>1 DEF Decision
<1>2. CASE v \in {"low", "nothing"}
  <2>1. Decision(v, lvl, policy) = "hold"
    BY <1>2 DEF Decision
  <2>2. QED
    BY <1>2, <2>1
<1>3. CASE v = "unknown" \/ (v = "sure" /\ lvl = "alerta")
  <2>1. Decision(v, lvl, policy) = IF policy = "auto_register" THEN "register" ELSE "hold"
    BY <1>3 DEF Decision
  <2>2. QED
    BY <1>3, <2>1
<1>4. \/ v = "sure" /\ lvl = "normal"
      \/ v \in {"low", "nothing"}
      \/ v = "unknown"
      \/ v = "sure" /\ lvl = "alerta"
  BY DEF Verdicts, Levels
<1>5. QED
  BY <1>1, <1>2, <1>3, <1>4

LEMMA InitIInv == Init => IInv
<1> SUFFICES ASSUME Init
             PROVE  IInv
  OBVIOUS
<1>1. TypeOK
  BY AgentAssumption DEF Init, TypeOK, Steps, Verdicts
<1>2. WorkerKnows
  BY DEF Init, WorkerKnows, Decided, LlmSteps
<1>3. StoreFacts
  BY DEF Init, StoreFacts, PolizaIsJustified, EscalationIsReviewed,
         AutoProcessedIsBacked
<1>4. QED
  BY <1>1, <1>2, <1>3 DEF IInv

-----------------------------------------------------------------------------
\* A worker takes a CFDI or leaves it: the stores stay as they are.
LEMMA SubmitIInv ==
    ASSUME IInv, NEW w \in Workers, NEW f \in CFDIs, Submit(w, f)
    PROVE  IInv'
<1>1. TypeOK'
  BY AgentAssumption DEF IInv, TypeOK, Submit, Fresh, stores, Steps, Verdicts, LlmSteps
<1>2. WorkerKnows'
  BY DEF IInv, TypeOK, WorkerKnows, Submit, Fresh, stores, Decided, LlmSteps
<1>3. StoreFacts'
  BY DEF IInv, StoreFacts, PolizaIsJustified, EscalationIsReviewed,
         AutoProcessedIsBacked, Submit, stores
<1>4. QED
  BY <1>1, <1>2, <1>3 DEF IInv

LEMMA FailIInv ==
    ASSUME IInv, NEW w \in Workers, Fail(w)
    PROVE  IInv'
<1>1. TypeOK'
  BY AgentAssumption DEF IInv, TypeOK, Fail, Fresh, stores, Steps, Verdicts, LlmSteps
<1>2. WorkerKnows'
  BY DEF IInv, TypeOK, WorkerKnows, Fail, Fresh, stores, Decided, LlmSteps
<1>3. StoreFacts'
  BY DEF IInv, StoreFacts, PolizaIsJustified, EscalationIsReviewed,
         AutoProcessedIsBacked, Fail, stores
<1>4. QED
  BY <1>1, <1>2, <1>3 DEF IInv

LEMMA ParseIInv ==
    ASSUME IInv, NEW w \in Workers, ParseAndValidate(w)
    PROVE  IInv'
<1> DEFINE kind == doc[job[w]]
<1>1. job[w] \in CFDIs /\ kind.readable \in BOOLEAN /\ kind.valid \in BOOLEAN
  BY AgentAssumption DEF IInv, TypeOK, ParseAndValidate
<1>2. \E step \in {"parse_review", "reject_insert", "classify"} :
        /\ pc' = [pc EXCEPT ![w] = step]
        /\ step = "classify" => kind.readable /\ kind.valid
  <2>1. CASE ~kind.readable
    BY <1>1, <2>1 DEF ParseAndValidate, Goto
  <2>2. CASE kind.readable /\ ~kind.valid
    BY <1>1, <2>2 DEF ParseAndValidate, Goto
  <2>3. CASE kind.readable /\ kind.valid
    BY <1>1, <2>3 DEF ParseAndValidate, Goto
  <2>4. QED
    BY <1>1, <2>1, <2>2, <2>3
<1>3. TypeOK'
  BY <1>1, <1>2 DEF IInv, TypeOK, ParseAndValidate, stores, Steps, LlmSteps
<1>4. WorkerKnows'
  BY <1>1, <1>2 DEF IInv, TypeOK, WorkerKnows, ParseAndValidate, stores, Decided, LlmSteps
<1>5. StoreFacts'
  BY DEF IInv, StoreFacts, PolizaIsJustified, EscalationIsReviewed,
         AutoProcessedIsBacked, ParseAndValidate, stores
<1>6. QED
  BY <1>3, <1>4, <1>5 DEF IInv

-----------------------------------------------------------------------------
\* The steps of the LLM: a classification, a verdict on the anomalies, a timeout.
LEMMA ClassifiedIInv ==
    ASSUME IInv, NEW w \in Workers, NEW v \in Verdicts, Classified(w, v),
           late' = [late EXCEPT ![w] = FALSE],
           UNCHANGED <<doc, contended, interrupted, job, level, known, erpRes, stores,
                       submissions, failures>>
    PROVE  IInv'
<1>1. /\ job[w] \in CFDIs
      /\ pc[w] \in {"classify", "repair"}
      /\ \E step \in {"repair", "anomaly"} : pc' = [pc EXCEPT ![w] = step]
      /\ \E u \in Verdicts : verdict' = [verdict EXCEPT ![w] = u]
  BY DEF IInv, TypeOK, Classified, Goto
<1>2. TypeOK'
  BY <1>1 DEF IInv, TypeOK, stores, Steps, LlmSteps
<1>3. WorkerKnows'
  <2> SUFFICES ASSUME NEW u \in Workers
               PROVE  WorkerKnows!(u)'
    BY DEF WorkerKnows
  <2>1. CASE u = w
    BY <1>1, <2>1 DEF IInv, TypeOK, WorkerKnows, stores, Decided, LlmSteps
  <2>2. CASE u # w
    BY <1>1, <2>2 DEF IInv, TypeOK, WorkerKnows, stores, Decided, LlmSteps
  <2>3. QED
    BY <2>1, <2>2
<1>4. StoreFacts'
  BY DEF IInv, StoreFacts, PolizaIsJustified, EscalationIsReviewed,
         AutoProcessedIsBacked, stores
<1>5. QED
  BY <1>2, <1>3, <1>4 DEF IInv

LEMMA AssessedIInv ==
    ASSUME IInv, NEW w \in Workers, NEW lvl \in Levels, Assessed(w, lvl),
           late' = [late EXCEPT ![w] = FALSE],
           UNCHANGED <<doc, contended, interrupted, job, verdict, known, erpRes, polizas, rows,
                       reviews, notices, returned, submissions, failures>>
    PROVE  IInv'
<1> DEFINE f == job[w]
<1>1. /\ f \in CFDIs /\ pc[w] = "anomaly"
      /\ level' = [level EXCEPT ![w] = lvl]
      /\ audit' = [audit EXCEPT ![f] = @ \cup {<<verdict[w], lvl>>}]
      /\ \E step \in {"insert", "lookup"} :
           /\ pc' = [pc EXCEPT ![w] = step]
           /\ step = "lookup" => Decision(verdict[w], lvl, doc[f].policy) # "hold"
  BY DEF IInv, TypeOK, Assessed, Goto
<1>2. TypeOK'
  BY <1>1 DEF IInv, TypeOK, Steps, LlmSteps, Levels
<1>3. WorkerKnows'
  <2> SUFFICES ASSUME NEW u \in Workers
               PROVE  WorkerKnows!(u)'
    BY DEF WorkerKnows
  <2>1. CASE u = w
    BY <1>1, <2>1 DEF IInv, TypeOK, WorkerKnows, Decided, LlmSteps
  <2>2. CASE u # w
    BY <1>1, <2>2 DEF IInv, TypeOK, WorkerKnows, Decided, LlmSteps
  <2>3. QED
    BY <2>1, <2>2
<1>4. \A g \in CFDIs : audit[g] \subseteq audit'[g]
  BY <1>1 DEF IInv, TypeOK
<1>5. StoreFacts'
  BY <1>4 DEF IInv, StoreFacts, PolizaIsJustified, EscalationIsReviewed,
              AutoProcessedIsBacked
<1>6. QED
  BY <1>2, <1>3, <1>5 DEF IInv

LEMMA LlmIInv ==
    ASSUME IInv, NEW w \in Workers, LlmAnswers(w) \/ LlmTimesOut(w) \/ LateLlmReturns(w)
    PROVE  IInv'
<1>1. CASE LlmTimesOut(w)
  <2>1. TypeOK'
    BY <1>1 DEF IInv, TypeOK, LlmTimesOut, stores
  <2>2. WorkerKnows'
    BY <1>1 DEF IInv, TypeOK, WorkerKnows, LlmTimesOut, stores
  <2>3. StoreFacts'
    BY <1>1 DEF IInv, StoreFacts, PolizaIsJustified, EscalationIsReviewed,
                AutoProcessedIsBacked, LlmTimesOut, stores
  <2>4. QED
    BY <2>1, <2>2, <2>3 DEF IInv
<1>2. CASE LlmAnswers(w)
  <2>1. late' = [late EXCEPT ![w] = FALSE]
    BY <1>2 DEF IInv, TypeOK, LlmAnswers
  <2>2. CASE \E v \in Verdicts : Classified(w, v) /\ UNCHANGED <<level, audit>>
    BY <1>2, <2>1, <2>2, ClassifiedIInv DEF LlmAnswers, stores
  <2>3. CASE \E lvl \in Levels : Assessed(w, lvl) /\ UNCHANGED verdict
    BY <1>2, <2>1, <2>3, AssessedIInv DEF LlmAnswers
  <2>4. QED
    BY <1>2, <2>2, <2>3 DEF LlmAnswers, Levels
<1>3. CASE LateLlmReturns(w)
  <2>1. "nothing" \in Verdicts /\ "alerta" \in Levels
    BY DEF Verdicts, Levels
  <2>2. CASE Classified(w, "nothing") /\ UNCHANGED <<level, audit>>
    BY <1>3, <2>1, <2>2, ClassifiedIInv DEF LateLlmReturns, stores
  <2>3. CASE Assessed(w, "alerta") /\ UNCHANGED verdict
    BY <1>3, <2>1, <2>3, AssessedIInv DEF LateLlmReturns
  <2>4. QED
    BY <1>3, <2>2, <2>3 DEF LateLlmReturns
<1>4. QED
  BY <1>1, <1>2, <1>3

-----------------------------------------------------------------------------
\* The ERP: only a worker whose decision was not "hold" gets here.
LEMMA ErpIInv ==
    ASSUME IInv, NEW w \in Workers, LookUp(w) \/ RegisterErp(w)
    PROVE  IInv'
<1> DEFINE f == job[w]
<1>1. /\ f \in CFDIs /\ doc[f].readable /\ doc[f].valid
      /\ <<verdict[w], level[w]>> \in audit[f]
      /\ Decision(verdict[w], level[w], doc[f].policy) # "hold"
      /\ verdict[w] \in Verdicts /\ level[w] \in Levels
      /\ doc[f].policy \in {"hold", "auto_register"}
  <2>1. pc[w] \in {"lookup", "register"}
    BY DEF LookUp, RegisterErp
  <2>2. f \in CFDIs /\ verdict[w] \in Verdicts /\ level[w] \in Levels
    BY <2>1 DEF IInv, TypeOK, Levels
  <2>3. doc[f].policy \in {"hold", "auto_register"}
    BY <2>2, AgentAssumption DEF IInv, TypeOK
  <2>4. WorkerKnows!(w)
    BY DEF IInv, WorkerKnows
  <2>5. QED
    BY <2>1, <2>2, <2>3, <2>4 DEF Decided
<1>2. CASE LookUp(w)
  <2>1. TypeOK'
    BY <1>1, <1>2 DEF IInv, TypeOK, LookUp, Goto, stores, Steps, LlmSteps
  <2>2. WorkerKnows'
    BY <1>1, <1>2 DEF IInv, TypeOK, WorkerKnows, LookUp, Goto, stores, Decided, LlmSteps
  <2>3. StoreFacts'
    BY <1>2 DEF IInv, StoreFacts, PolizaIsJustified, EscalationIsReviewed,
                AutoProcessedIsBacked, LookUp, stores
  <2>4. QED
    BY <2>1, <2>2, <2>3 DEF IInv
<1>3. CASE RegisterErp(w)
  <2>1. TypeOK'
    BY <1>1, <1>3 DEF IInv, TypeOK, RegisterErp, Goto, Steps, LlmSteps
  <2>2. WorkerKnows'
    BY <1>1, <1>3 DEF IInv, TypeOK, WorkerKnows, RegisterErp, Goto, Decided, LlmSteps
  <2>3. \A g \in CFDIs : polizas'[g] > 0 => polizas[g] > 0 \/ g = f
    BY <1>3 DEF IInv, TypeOK, RegisterErp
  <2>4. PolizaIsJustified!(f)!2
    BY <1>1, DecisionCases
  <2>5. PolizaIsJustified'
    BY <1>3, <2>3, <2>4 DEF IInv, StoreFacts, PolizaIsJustified, RegisterErp
  <2>6. EscalationIsReviewed' /\ AutoProcessedIsBacked'
    BY <1>3 DEF IInv, StoreFacts, EscalationIsReviewed, AutoProcessedIsBacked,
                RegisterErp
  <2>7. QED
    BY <2>1, <2>2, <2>5, <2>6 DEF IInv, StoreFacts
<1>4. QED
  BY <1>2, <1>3

-----------------------------------------------------------------------------
\* The database: an insert makes a row appear, a review is one more row.
LEMMA InsertIInv ==
    ASSUME IInv, NEW w \in Workers, Insert(w)
    PROVE  IInv'
<1> DEFINE f == job[w]
<1>1. /\ f \in CFDIs /\ erpRes[w] \in {"none", "registrada", "error"}
      /\ \/ pc[w] = "insert" /\ pc' = [pc EXCEPT ![w] = "notify"]
         \/ pc[w] = "reject_insert" /\ pc' = [pc EXCEPT ![w] = "reject_review"]
  BY DEF IInv, TypeOK, Insert, Goto
<1>2. /\ rows' \in [CFDIs -> {"absent", "none", "registrada", "error"}]
      /\ rows'[f] # "absent"
      /\ \A g \in CFDIs : rows[g] # "absent" => rows'[g] # "absent"
  BY <1>1 DEF IInv, TypeOK, Insert
<1>3. TypeOK'
  BY <1>1, <1>2 DEF IInv, TypeOK, Insert, Steps, LlmSteps
<1>4. WorkerKnows'
  <2> SUFFICES ASSUME NEW u \in Workers
               PROVE  WorkerKnows!(u)'
    BY DEF WorkerKnows
  <2>1. CASE u = w
    BY <1>1, <1>2, <2>1 DEF IInv, TypeOK, WorkerKnows, Insert, Decided, LlmSteps
  <2>2. CASE u # w
    <3>1. pc'[u] = pc[u] /\ pc[u] # "idle" => job[u] \in CFDIs
      BY <1>1, <2>2 DEF IInv, TypeOK
    <3>2. pc'[u] = pc[u]
      BY <1>1, <2>2 DEF IInv, TypeOK
    <3>3. QED
      BY <1>2, <3>1, <3>2 DEF IInv, WorkerKnows, Insert, Decided, LlmSteps
  <2>3. QED
    BY <2>1, <2>2
<1>5. StoreFacts'
  BY <1>2 DEF IInv, StoreFacts, PolizaIsJustified, EscalationIsReviewed,
              AutoProcessedIsBacked, Insert
<1>6. QED
  BY <1>3, <1>4, <1>5 DEF IInv

\* What process keeps for itself stays well typed when it goes on or returns.
LEMMA StayTypeOK ==
    ASSUME TypeOK, NEW w \in Workers, NEW step \in Steps \ {"idle"},
           pc[w] # "idle", pc[w] \notin LlmSteps, Stay(w, step),
           UNCHANGED <<doc, contended, interrupted, polizas, audit, rows, submissions, failures>>,
           reviews' \in [CFDIs -> Nat], notices' \in [CFDIs -> SUBSET Events]
    PROVE  TypeOK'
  BY DEF TypeOK, Stay, Goto

LEMMA ReturnTypeOK ==
    ASSUME TypeOK, NEW w \in Workers, NEW d \in Decisions,
           job[w] \in CFDIs, Return(w, d),
           UNCHANGED <<doc, contended, interrupted, polizas, audit, rows, submissions, failures>>,
           reviews' \in [CFDIs -> Nat], notices' \in [CFDIs -> SUBSET Events]
    PROVE  TypeOK'
<1>1. returned' \in [CFDIs -> SUBSET Decisions]
  BY DEF TypeOK, Return
<1>2. QED
  BY <1>1, AgentAssumption DEF TypeOK, Return, Fresh, Goto, Steps, Verdicts

LEMMA ReviewIInv ==
    ASSUME IInv, NEW w \in Workers, CreateReview(w)
    PROVE  IInv'
<1> DEFINE f == job[w]
<1>1. f \in CFDIs
  BY DEF IInv, TypeOK, CreateReview
<1>2. /\ reviews' = [reviews EXCEPT ![f] = @ + 1]
      /\ reviews'[f] > 0
      /\ \A g \in CFDIs : reviews[g] > 0 => reviews'[g] > 0
  BY <1>1 DEF IInv, TypeOK, CreateReview
<1>3. TypeOK'
  <2>1. reviews' \in [CFDIs -> Nat]
    BY <1>1, <1>2 DEF IInv, TypeOK
  <2>2. CASE pc[w] = "review"
    <3>1. Return(w, "needs_review") /\ "needs_review" \in Decisions
      BY <2>2 DEF CreateReview, Decisions
    <3>2. UNCHANGED <<doc, contended, interrupted, polizas, audit, rows, submissions, failures>>
          /\ notices' \in [CFDIs -> SUBSET Events] /\ TypeOK
      BY DEF IInv, TypeOK, CreateReview
    <3>3. QED
      BY <1>1, <2>1, <3>1, <3>2, ReturnTypeOK
  <2>3. CASE pc[w] # "review"
    <3>1. PICK step \in {"parse_notify", "reject_notify"} : Stay(w, step)
      BY <2>3 DEF CreateReview
    <3>2. pc[w] # "idle" /\ pc[w] \notin LlmSteps /\ step \in Steps \ {"idle"}
      BY DEF CreateReview, Steps, LlmSteps
    <3>3. UNCHANGED <<doc, contended, interrupted, polizas, audit, rows, submissions, failures>>
          /\ notices' \in [CFDIs -> SUBSET Events] /\ TypeOK
      BY DEF IInv, TypeOK, CreateReview
    <3>4. QED
      BY <2>1, <3>1, <3>2, <3>3, StayTypeOK
  <2>4. QED
    BY <2>2, <2>3
<1>4. WorkerKnows'
  <2> SUFFICES ASSUME NEW u \in Workers
               PROVE  WorkerKnows!(u)'
    BY DEF WorkerKnows
  <2>1. CASE u = w
    BY <1>1, <1>2, <2>1 DEF IInv, TypeOK, WorkerKnows, CreateReview, Return, Stay, Fresh,
                            Goto, Decided, LlmSteps
  <2>2. CASE u # w
    <3>1. pc'[u] = pc[u] /\ job'[u] = job[u] /\ verdict'[u] = verdict[u]
            /\ level'[u] = level[u] /\ (pc[u] # "idle" => job[u] \in CFDIs)
      BY <2>2 DEF IInv, TypeOK, CreateReview, Return, Stay, Fresh, Goto
    <3>2. QED
      BY <1>2, <3>1 DEF IInv, WorkerKnows, CreateReview, Decided, LlmSteps
  <2>3. QED
    BY <2>1, <2>2
<1>5. StoreFacts'
  <2>1. \A g \in CFDIs :
          \/ returned'[g] = returned[g]
          \/ g = f /\ returned'[g] = returned[g] \cup {"needs_review"}
    <3>1. returned \in [CFDIs -> SUBSET Decisions]
      BY DEF IInv, TypeOK
    <3>2. returned' = returned
            \/ returned' = [returned EXCEPT ![f] = @ \cup {"needs_review"}]
      BY DEF CreateReview, Return, Stay
    <3>3. QED
      BY <1>1, <3>1, <3>2
  <2>2. EscalationIsReviewed'
    BY <1>2, <2>1 DEF IInv, StoreFacts, EscalationIsReviewed
  <2>3. AutoProcessedIsBacked' /\ PolizaIsJustified'
    BY <2>1 DEF IInv, StoreFacts, AutoProcessedIsBacked, PolizaIsJustified, CreateReview
  <2>4. QED
    BY <2>2, <2>3 DEF StoreFacts
<1>6. QED
  BY <1>3, <1>4, <1>5 DEF IInv

-----------------------------------------------------------------------------
\* The notice: "invoice_processed" and "auto_processed" need the decision "auto".
LEMMA NotifyIInv ==
    ASSUME IInv, NEW w \in Workers, Notify(w)
    PROVE  IInv'
<1> DEFINE f == job[w]
<1>1. f \in CFDIs /\ verdict[w] \in Verdicts /\ level[w] \in Levels
      /\ doc[f].policy \in {"hold", "auto_register"}
  BY AgentAssumption DEF IInv, TypeOK, Notify, Levels
<1>2. pc[w] = "notify" /\ ~NeedsReview(w)
        => rows[f] # "absent" /\ <<"sure", "normal">> \in audit[f]
  BY <1>1, DecisionCases DEF IInv, WorkerKnows, NeedsReview, Decided
<1>3. /\ EventOf(w) \in Events
      /\ EventOf(w) = "invoice_processed" => pc[w] = "notify" /\ ~NeedsReview(w)
  <2>1. CASE pc[w] = "parse_notify"
    BY <2>1 DEF EventOf, Events
  <2>2. CASE pc[w] = "reject_notify"
    BY <2>2 DEF EventOf, Events
  <2>3. CASE pc[w] = "notify"
    BY <2>3 DEF EventOf, Events
  <2>4. QED
    BY <2>1, <2>2, <2>3 DEF Notify
<1>4. \A g \in CFDIs :
        \/ notices'[g] = notices[g]
        \/ g = f /\ notices'[g] = notices[g] \cup {EventOf(w)}
  <2>1. notices \in [CFDIs -> SUBSET Events]
    BY DEF IInv, TypeOK
  <2>2. notices' = notices \/ notices' = [notices EXCEPT ![f] = @ \cup {EventOf(w)}]
    BY DEF Notify
  <2>3. QED
    BY <1>1, <2>1, <2>2
<1>5. TypeOK'
  <2>1. notices' \in [CFDIs -> SUBSET Events]
    <3>1. notices \in [CFDIs -> SUBSET Events]
      BY DEF IInv, TypeOK
    <3>2. notices' = notices \/ notices' = [notices EXCEPT ![f] = @ \cup {EventOf(w)}]
      BY DEF Notify
    <3>3. QED
      BY <1>1, <1>3, <3>1, <3>2
  <2>2. CASE \E d \in Decisions : Return(w, d)
    <3>1. UNCHANGED <<doc, contended, interrupted, polizas, audit, rows, submissions, failures>>
          /\ reviews' \in [CFDIs -> Nat] /\ TypeOK
      BY DEF IInv, TypeOK, Notify
    <3>2. QED
      BY <1>1, <2>1, <2>2, <3>1, ReturnTypeOK
  <2>3. CASE Stay(w, "review")
    <3>1. UNCHANGED <<doc, contended, interrupted, polizas, audit, rows, submissions, failures>>
          /\ reviews' \in [CFDIs -> Nat] /\ TypeOK
      BY DEF IInv, TypeOK, Notify
    <3>2. /\ pc[w] # "idle" /\ pc[w] \notin LlmSteps
          /\ "review" \in Steps \ {"idle"}
      BY DEF Notify, LlmSteps, Steps
    <3>3. QED
      BY <2>1, <2>3, <3>1, <3>2, StayTypeOK
  <2>4. QED
    BY <2>2, <2>3 DEF Notify, Decisions
<1>6. WorkerKnows'
  <2> SUFFICES ASSUME NEW u \in Workers
               PROVE  WorkerKnows!(u)'
    BY DEF WorkerKnows
  <2>1. CASE u = w
    BY <1>1, <2>1 DEF IInv, TypeOK, WorkerKnows, Notify, Return, Stay, Fresh, Goto,
                      Decided, LlmSteps
  <2>2. CASE u # w
    <3>1. pc'[u] = pc[u] /\ job'[u] = job[u] /\ verdict'[u] = verdict[u]
            /\ level'[u] = level[u]
      BY <2>2 DEF IInv, TypeOK, Notify, Return, Stay, Fresh, Goto
    <3>2. QED
      BY <3>1 DEF IInv, WorkerKnows, Notify, Decided, LlmSteps
  <2>3. QED
    BY <2>1, <2>2
<1>7. StoreFacts'
  <2>1. PolizaIsJustified'
    BY DEF IInv, StoreFacts, PolizaIsJustified, Notify
  <2>2. \A g \in CFDIs :
          \/ returned'[g] = returned[g]
          \/ g = f /\ reviews[f] > 0
               /\ returned'[g] \subseteq returned[g] \cup {"parse_failed", "invalid"}
          \/ g = f /\ pc[w] = "notify" /\ ~NeedsReview(w)
               /\ returned'[g] = returned[g] \cup {"auto_processed"}
    <3>1. returned \in [CFDIs -> SUBSET Decisions]
      BY DEF IInv, TypeOK
    <3>2. \/ returned' = returned
          \/ /\ reviews[f] > 0
             /\ \E d \in {"parse_failed", "invalid"} :
                  returned' = [returned EXCEPT ![f] = @ \cup {d}]
          \/ /\ pc[w] = "notify" /\ ~NeedsReview(w)
             /\ returned' = [returned EXCEPT ![f] = @ \cup {"auto_processed"}]
      BY DEF IInv, WorkerKnows, Notify, Return, Stay
    <3>3. QED
      BY <1>1, <3>1, <3>2
  <2>3. EscalationIsReviewed'
    BY <2>2 DEF IInv, StoreFacts, EscalationIsReviewed, Notify
  <2>4. AutoProcessedIsBacked'
    BY <1>2, <1>3, <1>4, <2>2 DEF IInv, StoreFacts, AutoProcessedIsBacked, Notify
  <2>5. QED
    BY <2>1, <2>3, <2>4 DEF StoreFacts
<1>8. QED
  BY <1>5, <1>6, <1>7 DEF IInv

-----------------------------------------------------------------------------
LEMMA SpecIInv == Spec => []IInv
<1>1. IInv /\ [Next]_vars => IInv'
  <2> SUFFICES ASSUME IInv, [Next]_vars
               PROVE  IInv'
    OBVIOUS
  <2>1. CASE UNCHANGED vars
    BY <2>1 DEF vars, local, stores, IInv, TypeOK, WorkerKnows, StoreFacts,
                PolizaIsJustified, EscalationIsReviewed, AutoProcessedIsBacked
  <2>2. CASE Next
    BY <2>2, SubmitIInv, ParseIInv, LlmIInv, ErpIInv, InsertIInv, ReviewIInv,
       NotifyIInv, FailIInv DEF Next, Step
  <2>3. QED
    BY <2>1, <2>2
<1>2. QED
  BY <1>1, InitIInv, PTL DEF Spec

\* Every variable keeps its type; a worker holds a CFDI exactly while it works.
THEOREM TypeCorrect == Spec => []TypeOK
  BY SpecIInv, PTL DEF IInv

\* No timeout, repair pass, failure or interleaving registers a CFDI without a
\* logged classification and anomaly level that allow it.
THEOREM PolizasAreJustified == Spec => []PolizaIsJustified
  BY SpecIInv, PTL DEF IInv, StoreFacts

\* Every escalation that process returned has its row in reviews.
THEOREM EscalationsAreReviewed == Spec => []EscalationIsReviewed
  BY SpecIInv, PTL DEF IInv, StoreFacts

\* What process returned or announced as processed is in the database, and its
\* clean verdict in the audit log.
THEOREM AutoProcessingIsBacked == Spec => []AutoProcessedIsBacked
  BY SpecIInv, PTL DEF IInv, StoreFacts

-----------------------------------------------------------------------------
(* One poliza.  An uncontended CFDI has one worker at most, so between the *)
(* look-up and the registration nobody else can add its row.               *)

Alone ==
    \A f \in CFDIs \ contended :
        /\ \A v, w \in Workers : job[v] = f /\ job[w] = f => v = w
        /\ doc[f].erp = "csv" =>
             /\ polizas[f] <= 1
             /\ \A w \in Workers :
                  job[w] = f /\ pc[w] = "register" /\ ~known[w] => polizas[f] = 0

\* A worker that goes on without registering.
LEMMA AloneKept ==
    ASSUME TypeOK, Alone, NEW w \in Workers,
           UNCHANGED <<doc, job, polizas, contended>>,
           \A v \in Workers \ {w} : pc'[v] = pc[v] /\ known'[v] = known[v],
           pc'[w] = "register" /\ doc[job[w]].erp = "csv" /\ ~known'[w]
             => polizas[job[w]] = 0
    PROVE  Alone'
  BY DEF TypeOK, Alone

\* A worker that returns or fails.
LEMMA AloneLeave ==
    ASSUME TypeOK, Alone, NEW w \in Workers, Fresh(w, NoJob, "idle"),
           UNCHANGED <<doc, polizas, contended>>
    PROVE  Alone'
<1>1. /\ pc' = [pc EXCEPT ![w] = "idle"]
      /\ job' = [job EXCEPT ![w] = NoJob]
      /\ \A v \in Workers \ {w} : known'[v] = known[v]
  BY DEF Fresh, TypeOK
<1>2. QED
  BY <1>1, AgentAssumption DEF TypeOK, Alone

LEMMA AloneSubmit ==
    ASSUME TypeOK, Alone, NEW w \in Workers, NEW f \in CFDIs, Submit(w, f)
    PROVE  Alone'
<1>1. /\ pc' = [pc EXCEPT ![w] = "received"]
      /\ job' = [job EXCEPT ![w] = f]
      /\ \A v \in Workers \ {w} : known'[v] = known[v]
      /\ UNCHANGED <<doc, polizas>>
      /\ contended \subseteq contended'
  BY DEF Submit, Fresh, stores, TypeOK
<1>2. ASSUME NEW g \in CFDIs \ contended', NEW u \in Workers, NEW v \in Workers,
             job'[u] = g, job'[v] = g
      PROVE  u = v
  <2>1. CASE g = f
    <3>1. ~ \E x \in Workers : job[x] = f
      BY <1>2, <2>1 DEF Submit
    <3>2. QED
      BY <1>1, <1>2, <2>1, <3>1 DEF TypeOK
  <2>2. CASE g # f
    BY <1>1, <1>2, <2>2 DEF TypeOK, Alone
  <2>3. QED
    BY <2>1, <2>2
<1>3. ASSUME NEW g \in CFDIs \ contended', doc[g].erp = "csv"
      PROVE  /\ polizas[g] <= 1
             /\ \A v \in Workers :
                  job'[v] = g /\ pc'[v] = "register" /\ ~known'[v] => polizas[g] = 0
  BY <1>1, <1>3 DEF TypeOK, Alone
<1>4. QED
  BY <1>1, <1>2, <1>3 DEF Alone

\* The row the CFDI may already have is in the file the connector reads.
LEMMA AloneLookUp ==
    ASSUME TypeOK, Alone, NEW w \in Workers, LookUp(w)
    PROVE  Alone'
<1>1. job[w] \in CFDIs /\ polizas[job[w]] \in Nat
  BY DEF TypeOK, LookUp
<1>2. known'[w] = (doc[job[w]].erp = "csv" /\ InExport(job[w]))
  BY Zenon DEF TypeOK, LookUp
<1>3. polizas[job[w]] > 0 /\ doc[job[w]].erp = "csv" => InExport(job[w])
  BY <1>1 DEF InExport
<1>4. doc[job[w]].erp = "csv" /\ ~known'[w] => ~(polizas[job[w]] > 0)
  BY <1>2, <1>3, Zenon
<1>5. /\ UNCHANGED <<doc, job, polizas, contended>>
      /\ \A v \in Workers \ {w} : pc'[v] = pc[v] /\ known'[v] = known[v]
  BY DEF TypeOK, LookUp, Goto, stores
<1>6. QED
  BY <1>1, <1>4, <1>5, AloneKept

LEMMA AloneRegister ==
    ASSUME TypeOK, Alone, NEW w \in Workers, RegisterErp(w)
    PROVE  Alone'
<1>1. /\ pc[w] = "register" /\ pc' = [pc EXCEPT ![w] = "insert"]
      /\ UNCHANGED <<doc, job, known, contended>>
      /\ job[w] \in CFDIs
  BY DEF RegisterErp, Goto, TypeOK
<1>2. polizas' \in {polizas, [polizas EXCEPT ![job[w]] = @ + 1]}
      /\ (known[w] => polizas' = polizas)
  BY DEF RegisterErp
<1>3. ASSUME NEW g \in CFDIs \ contended, doc[g].erp = "csv"
      PROVE  /\ polizas'[g] <= 1
             /\ \A v \in Workers :
                  job[v] = g /\ pc'[v] = "register" /\ ~known[v] => polizas'[g] = 0
  <2>1. CASE g # job[w]
    <3>1. polizas'[g] = polizas[g]
      BY <1>1, <1>2, <2>1 DEF TypeOK
    <3>2. QED
      BY <1>1, <1>3, <2>1, <3>1 DEF TypeOK, Alone
  <2>2. CASE g = job[w]
    <3>1. \A v \in Workers : job[v] = g => v = w
      BY <2>2 DEF Alone
    <3>2. ~known[w] => polizas[g] = 0
      BY <1>1, <1>3, <2>2 DEF Alone
    <3>3. polizas'[g] <= 1
      BY <1>1, <1>2, <1>3, <2>2, <3>2 DEF TypeOK, Alone
    <3>4. pc'[w] # "register"
      BY <1>1 DEF TypeOK
    <3>5. QED
      BY <3>1, <3>3, <3>4
  <2>3. QED
    BY <2>1, <2>2
<1>4. QED
  BY <1>1, <1>3 DEF Alone

LEMMA AloneNext == TypeOK /\ Alone /\ [Next]_vars => Alone'
<1> SUFFICES ASSUME TypeOK, Alone, [Next]_vars
             PROVE  Alone'
  OBVIOUS
<1>1. ASSUME NEW w \in Workers, NEW step \in Steps \ {"register"}, Goto(w, step),
             UNCHANGED <<doc, contended, job, known, polizas>>
      PROVE  Alone'
  <2>1. pc'[w] # "register" /\ \A v \in Workers \ {w} : pc'[v] = pc[v]
    BY <1>1 DEF Goto, TypeOK
  <2>2. QED
    BY <1>1, <2>1, AloneKept
<1>2. ASSUME NEW w \in Workers, ParseAndValidate(w)
      PROVE  Alone'
  <2>1. job[w] \in CFDIs /\ doc[job[w]].readable \in BOOLEAN
          /\ doc[job[w]].valid \in BOOLEAN
    BY <1>2, AgentAssumption DEF ParseAndValidate, TypeOK
  <2>2. \E step \in Steps \ {"register"} : Goto(w, step)
    <3>1. CASE ~doc[job[w]].readable
      BY <1>2, <3>1 DEF ParseAndValidate, Steps
    <3>2. CASE doc[job[w]].readable /\ ~doc[job[w]].valid
      BY <1>2, <3>2 DEF ParseAndValidate, Steps
    <3>3. CASE doc[job[w]].readable /\ doc[job[w]].valid
      BY <1>2, <3>3 DEF ParseAndValidate, Steps, LlmSteps
    <3>4. QED
      BY <2>1, <3>1, <3>2, <3>3
  <2>3. QED
    BY <1>1, <1>2, <2>2 DEF ParseAndValidate, stores
<1>3. ASSUME NEW w \in Workers, LlmAnswers(w) \/ LateLlmReturns(w)
      PROVE  Alone'
  <2>1. \E step \in Steps \ {"register"} : Goto(w, step)
    BY <1>3 DEF LlmAnswers, LateLlmReturns, Classified, Assessed, Steps, LlmSteps
  <2>2. QED
    BY <1>1, <1>3, <2>1 DEF LlmAnswers, LateLlmReturns, stores
<1>4. ASSUME NEW w \in Workers, LlmTimesOut(w)
      PROVE  Alone'
  BY <1>4 DEF LlmTimesOut, stores, Alone
<1>5. ASSUME NEW w \in Workers, Insert(w)
      PROVE  Alone'
  <2>1. \E step \in Steps \ {"register"} : Goto(w, step)
    BY <1>5 DEF Insert, Steps
  <2>2. QED
    BY <1>1, <1>5, <2>1 DEF Insert
<1>6. ASSUME NEW w \in Workers, CreateReview(w) \/ Notify(w)
      PROVE  Alone'
  <2>1. UNCHANGED <<doc, polizas, contended>>
    BY <1>6 DEF CreateReview, Notify
  <2>2. \/ \E step \in Steps \ {"register"} : Stay(w, step)
        \/ Fresh(w, NoJob, "idle")
    BY <1>6 DEF CreateReview, Notify, Return, Steps
  <2>3. QED
    BY <1>1, <2>1, <2>2, AloneLeave DEF Stay
<1>7. ASSUME NEW w \in Workers, Fail(w)
      PROVE  Alone'
  BY <1>7, AloneLeave DEF Fail, stores
<1>8. CASE UNCHANGED vars
  BY <1>8 DEF vars, local, stores, Alone
<1>9. QED
  BY <1>2, <1>3, <1>4, <1>5, <1>6, <1>7, <1>8, AloneSubmit, AloneLookUp,
     AloneRegister DEF Next, Step

\* A CFDI of the CSV connector that no two workers had at once leaves at most one
\* row in the export, however often it is submitted and wherever attempts fail.
THEOREM OnePolizaUnlessContended == Spec => []OnePolizaPerCFDI
<1>1. Init => Alone
  BY AgentAssumption DEF Init, Alone
<1>2. TypeOK /\ Alone /\ [Next]_vars => Alone'
  BY AloneNext
<1>3. Alone => OnePolizaPerCFDI
  BY DEF Alone, OnePolizaPerCFDI
<1>4. QED
  BY <1>1, <1>2, <1>3, TypeCorrect, PTL DEF Spec

-----------------------------------------------------------------------------
(* The rows.  What a worker will write into the row is what the ERP told   *)
(* it; a step of one worker leaves what the others know as it is, because  *)
(* polizas, decisions and reviews only ever grow.                          *)

ErpKnows ==
    \A w \in Workers :
        LET f == job[w] IN
        /\ pc[w] \notin {"insert", "notify", "review"} => erpRes[w] = "none"
        /\ known[w] => f \in CFDIs /\ doc[f].erp = "csv" /\ InExport(f)
        /\ pc[w] = "insert" =>
             /\ erpRes[w] = "none" <=> Decision(verdict[w], level[w], doc[f].policy) = "hold"
             /\ erpRes[w] = "registrada" => IsRegistered(f)
        /\ pc[w] = "reject_insert" => ~doc[f].valid

Mine(v) == <<pc[v], job[v], verdict[v], level[v], known[v], erpRes[v]>>

\* What every step of w leaves to the others.
Others(w) ==
    /\ \A v \in Workers \ {w} : Mine(v)' = Mine(v)
    /\ \A f \in CFDIs : /\ polizas[f] > 0 => polizas'[f] > 0
                        /\ audit[f] \subseteq audit'[f]
                        /\ reviews[f] > 0 => reviews'[f] > 0
    /\ doc' = doc /\ interrupted \subseteq interrupted'

LEMMA StepsLeaveOthers ==
    ASSUME TypeOK, NEW w \in Workers,
           \/ \E f \in CFDIs : Submit(w, f)
           \/ Step(w) \/ LlmAnswers(w) \/ LateLlmReturns(w) \/ Fail(w)
    PROVE  Others(w)
<1> USE DEF TypeOK, Others, Mine
<1>1. ASSUME NEW f \in CFDIs, Submit(w, f)
      PROVE  Others(w)
  BY <1>1 DEF Submit, Fresh, stores
<1>2. CASE ParseAndValidate(w) \/ LlmTimesOut(w) \/ LookUp(w)
  BY <1>2 DEF ParseAndValidate, LlmTimesOut, LookUp, Goto, stores
<1>3. CASE LlmAnswers(w) \/ LateLlmReturns(w)
  BY <1>3 DEF LlmAnswers, LateLlmReturns, Classified, Assessed, Goto, stores
<1>4. CASE RegisterErp(w) \/ Insert(w)
  BY <1>4 DEF RegisterErp, Insert, Goto
<1>5. CASE CreateReview(w) \/ Notify(w)
  <2>1. \A v \in Workers \ {w} : Mine(v)' = Mine(v)
    <3>1. (\E step : Stay(w, step)) \/ Fresh(w, NoJob, "idle")
      BY <1>5 DEF CreateReview, Notify, Return
    <3>2. QED
      BY <3>1 DEF Stay, Fresh, Goto
  <2>2. UNCHANGED <<doc, interrupted, polizas, audit>>
    BY <1>5 DEF CreateReview, Notify
  <2>3. \A f \in CFDIs : reviews[f] > 0 => reviews'[f] > 0
    BY <1>5 DEF CreateReview, Notify
  <2>4. QED
    BY <2>1, <2>2, <2>3
<1>6. CASE Fail(w)
  BY <1>6 DEF Fail, Fresh, stores
<1>7. QED
  BY <1>1, <1>2, <1>3, <1>4, <1>5, <1>6 DEF Step

\* What the ERP holds and what is logged stays.
LEMMA ErpStays ==
    ASSUME NEW w, Others(w), NEW f \in CFDIs
    PROVE  /\ InExport(f) => InExport(f)'
           /\ IsRegistered(f) => IsRegistered(f)'
           /\ Logged(f) \subseteq Logged(f)'
<1>1. doc' = doc /\ \A g \in CFDIs : /\ polizas[g] > 0 => polizas'[g] > 0
                                   /\ audit[g] \subseteq audit'[g]
  BY DEF Others
<1>2. InExport(f) => InExport(f)'
  <2> SUFFICES ASSUME NEW g \in CFDIs, doc[g].erp = "csv", Folio[g] = Folio[f], polizas[g] > 0
               PROVE  InExport(f)'
    BY DEF InExport
  <2>1. doc'[g].erp = "csv" /\ polizas'[g] > 0
    BY <1>1
  <2>2. QED
    BY <2>1 DEF InExport
<1>3. IsRegistered(f) => IsRegistered(f)'
  BY <1>1, <1>2 DEF IsRegistered
<1>4. Logged(f) \subseteq Logged(f)'
  <2> SUFFICES ASSUME NEW d \in Logged(f)
               PROVE  d \in Logged(f)'
    OBVIOUS
  <2>1. PICK l \in audit[f] : d = Decision(l[1], l[2], doc[f].policy)
    BY DEF Logged
  <2>2. l \in audit'[f] /\ d = Decision(l[1], l[2], doc'[f].policy)
    BY <1>1, <2>1
  <2>3. QED
    BY <2>2 DEF Logged
<1>5. QED
  BY <1>2, <1>3, <1>4

LEMMA ErpStaysForJob ==
    ASSUME NEW w, Others(w), NEW v, job[v] \in CFDIs, job'[v] = job[v]
    PROVE  /\ InExport(job[v]) => InExport(job[v])'
           /\ IsRegistered(job[v]) => IsRegistered(job[v])'
<1>1. PICK f \in CFDIs : f = job[v]
  OBVIOUS
<1>2. /\ InExport(f) => InExport(f)'
      /\ IsRegistered(f) => IsRegistered(f)'
  BY ErpStays
<1>3. InExport(f) <=> InExport(job[v])
  BY <1>1
<1>4. IsRegistered(f) <=> IsRegistered(job[v])
  BY <1>1
<1>5. InExport(f)' <=> InExport(job[v])'
  BY <1>1 DEF InExport
<1>6. IsRegistered(f)' <=> IsRegistered(job[v])'
  BY <1>1, <1>5 DEF IsRegistered
<1>7. QED
  BY <1>2, <1>3, <1>4, <1>5, <1>6

LEMMA OthersKeepErpKnows ==
    ASSUME TypeOK, NEW w \in Workers, Others(w), ErpKnows,
           NEW v \in Workers \ {w}
    PROVE  ErpKnows!(v)'
<1>1. /\ pc'[v] = pc[v] /\ job'[v] = job[v] /\ verdict'[v] = verdict[v]
      /\ level'[v] = level[v] /\ known'[v] = known[v] /\ erpRes'[v] = erpRes[v]
      /\ doc' = doc
  BY DEF Others, Mine
<1>2. ErpKnows!(v)
  BY DEF ErpKnows
<1>3. pc[v] = "insert" => job[v] \in CFDIs
  BY AgentAssumption DEF TypeOK
<1>4. job[v] \in CFDIs =>
         /\ InExport(job[v]) => InExport(job[v])'
         /\ IsRegistered(job[v]) => IsRegistered(job[v])'
  BY <1>1, ErpStaysForJob
<1>5. QED
  BY <1>1, <1>2, <1>3, <1>4

-----------------------------------------------------------------------------
\* What the worker that takes a step knows after it.
LEMMA FreshErpKnows ==
    ASSUME TypeOK, NEW w \in Workers, NEW f, NEW step \in {"idle", "received"},
           Fresh(w, f, step)
    PROVE  ErpKnows!(w)'
  BY DEF TypeOK, Fresh

LEMMA LlmErpKnows ==
    ASSUME TypeOK, ErpKnows, NEW w \in Workers, LlmAnswers(w) \/ LateLlmReturns(w)
    PROVE  ErpKnows!(w)'
<1>1. /\ pc[w] \in LlmSteps /\ job[w] \in CFDIs
      /\ UNCHANGED <<doc, job, known, erpRes, polizas>>
  BY AgentAssumption DEF LlmAnswers, LateLlmReturns, TypeOK, LlmSteps
<1>2. erpRes[w] = "none" /\ (known[w] => doc[job[w]].erp = "csv" /\ InExport(job[w]))
  BY <1>1 DEF ErpKnows, LlmSteps
<1>3. known'[w] => job'[w] \in CFDIs /\ doc'[job'[w]].erp = "csv" /\ InExport(job[w])'
  BY <1>1, <1>2 DEF InExport
<1>4. CASE \E v \in Verdicts \cup {"nothing"} : Classified(w, v)
  <2>1. pc'[w] \in {"repair", "anomaly"}
    BY <1>4 DEF Classified, Goto, TypeOK
  <2>2. QED
    BY <1>1, <1>2, <1>3, <2>1
<1>5. CASE \E lvl \in {"normal", "alerta"} : Assessed(w, lvl) /\ verdict' = verdict
  <2>1. PICK lvl \in {"normal", "alerta"} : Assessed(w, lvl) /\ verdict' = verdict
    BY <1>5
  <2>2. level'[w] = lvl
    BY <2>1 DEF Assessed, TypeOK
  <2>3. pc'[w] = IF Decision(verdict[w], lvl, doc[job[w]].policy) = "hold"
                   THEN "insert" ELSE "lookup"
    BY <2>1 DEF Assessed, Goto, TypeOK
  <2>4. CASE pc'[w] = "insert"
    <3>1. Decision(verdict'[w], level'[w], doc'[job'[w]].policy) = "hold"
      BY <1>1, <2>1, <2>2, <2>3, <2>4
    <3>2. QED
      BY <1>1, <1>2, <1>3, <2>4, <3>1
  <2>5. CASE pc'[w] = "lookup"
    BY <1>1, <1>2, <1>3, <2>5
  <2>6. QED
    BY <2>3, <2>4, <2>5
<1>6. QED
  BY <1>4, <1>5 DEF LlmAnswers, LateLlmReturns

LEMMA RegisterErpKnows ==
    ASSUME IInv, ErpKnows, NEW w \in Workers, RegisterErp(w), Others(w)
    PROVE  ErpKnows!(w)'
<1> DEFINE f == job[w]
<1>1. /\ pc[w] = "register" /\ f \in CFDIs /\ pc'[w] = "insert"
      /\ erpRes'[w] \in {"registrada", "error"}
      /\ UNCHANGED <<doc, job, verdict, level, known>>
  BY AgentAssumption DEF RegisterErp, Goto, IInv, TypeOK
<1>2. Decision(verdict[w], level[w], doc[f].policy) # "hold"
  BY <1>1 DEF IInv, WorkerKnows
<1>3. known[w] => doc[f].erp = "csv" /\ InExport(f)'
  BY <1>1, ErpStaysForJob DEF ErpKnows
<1>4. erpRes'[w] = "registrada" => IsRegistered(f)'
  <2> SUFFICES ASSUME erpRes'[w] = "registrada"
               PROVE  IsRegistered(f)'
    OBVIOUS
  <2>1. CASE known[w]
    BY <1>1, <1>3, <2>1 DEF IsRegistered
  <2>2. CASE ~known[w]
    <3>1. polizas' = [polizas EXCEPT ![f] = @ + 1]
      BY <2>2 DEF RegisterErp, IInv, TypeOK
    <3>2. polizas[f] \in Nat /\ polizas'[f] = polizas[f] + 1
      BY <1>1, <3>1 DEF IInv, TypeOK
    <3>3. polizas'[f] > 0
      BY <3>2
    <3>4. QED
      BY <1>1, <3>3 DEF IsRegistered
  <2>3. QED
    BY <2>1, <2>2
<1>5. QED
  BY <1>1, <1>2, <1>3, <1>4

LEMMA NextErpKnows ==
    ASSUME IInv, ErpKnows, NEW w \in Workers, Others(w),
           \/ \E f \in CFDIs : Submit(w, f)
           \/ Step(w) \/ LlmAnswers(w) \/ LateLlmReturns(w) \/ Fail(w)
    PROVE  ErpKnows'
<1> USE DEF IInv
<1>1. ErpKnows!(w)
  BY DEF ErpKnows
<1>2. job'[w] = job[w] /\ known[w] =>
         job[w] \in CFDIs /\ doc[job[w]].erp = "csv" /\ InExport(job[w])'
  BY <1>1, ErpStaysForJob
<1>3. doc' = doc
  BY DEF Others
<1>4. CASE \/ \E f \in CFDIs : Submit(w, f)
           \/ Fail(w)
  BY <1>4, FreshErpKnows, OthersKeepErpKnows DEF Submit, Fail, ErpKnows
<1>5. CASE ParseAndValidate(w)
  <2>1. pc[w] = "received" /\ job[w] \in CFDIs /\ UNCHANGED <<job, known, erpRes>>
    BY <1>5, AgentAssumption DEF ParseAndValidate, TypeOK
  <2>2. doc[job[w]].readable \in BOOLEAN /\ doc[job[w]].valid \in BOOLEAN
    BY <2>1, AgentAssumption DEF TypeOK
  <2>3. \/ pc'[w] \in {"parse_review", "classify"}
        \/ pc'[w] = "reject_insert" /\ ~doc[job[w]].valid
    <3>1. CASE ~doc[job[w]].readable
      BY <1>5, <3>1 DEF ParseAndValidate, Goto, TypeOK
    <3>2. CASE doc[job[w]].readable /\ ~doc[job[w]].valid
      BY <1>5, <3>2 DEF ParseAndValidate, Goto, TypeOK
    <3>3. CASE doc[job[w]].readable /\ doc[job[w]].valid
      BY <1>5, <3>3 DEF ParseAndValidate, Goto, TypeOK
    <3>4. QED
      BY <2>2, <3>1, <3>2, <3>3
  <2>4. ErpKnows!(w)'
    BY <1>1, <1>2, <1>3, <2>1, <2>3
  <2>5. QED
    BY <2>4, OthersKeepErpKnows DEF ErpKnows
<1>6. CASE LlmTimesOut(w)
  BY <1>6 DEF LlmTimesOut, ErpKnows, stores, InExport, IsRegistered
<1>7. CASE LlmAnswers(w) \/ LateLlmReturns(w)
  BY <1>7, LlmErpKnows, OthersKeepErpKnows DEF ErpKnows
<1>8. CASE LookUp(w)
  <2>1. /\ pc[w] = "lookup" /\ job[w] \in CFDIs /\ UNCHANGED <<job, erpRes>>
        /\ pc'[w] = "register"
        /\ known'[w] => doc[job[w]].erp = "csv" /\ InExport(job[w])
    BY <1>8, AgentAssumption DEF LookUp, Goto, TypeOK
  <2>2. known'[w] => InExport(job[w])'
    BY <2>1, ErpStaysForJob
  <2>3. ErpKnows!(w)'
    BY <1>1, <1>3, <2>1, <2>2
  <2>4. QED
    BY <2>3, OthersKeepErpKnows DEF ErpKnows
<1>9. CASE RegisterErp(w)
  BY <1>9, RegisterErpKnows, OthersKeepErpKnows DEF ErpKnows
<1>10. CASE Insert(w)
  <2>1. /\ UNCHANGED <<job, known, erpRes>>
        /\ pc'[w] = "notify" \/ (pc[w] = "reject_insert" /\ pc'[w] = "reject_review")
    BY <1>10 DEF Insert, Goto, TypeOK
  <2>2. ErpKnows!(w)'
    BY <1>1, <1>2, <1>3, <2>1
  <2>3. QED
    BY <2>2, OthersKeepErpKnows DEF ErpKnows
<1>11. CASE CreateReview(w) \/ Notify(w)
  <2>1. \/ Fresh(w, NoJob, "idle")
        \/ /\ UNCHANGED <<job, known, erpRes>>
           /\ \/ pc'[w] = "review"
              \/ /\ pc'[w] \in {"parse_notify", "reject_notify"}
                 /\ pc[w] \in {"parse_review", "reject_review"}
    BY <1>11 DEF CreateReview, Notify, Return, Stay, Goto, TypeOK
  <2>2. ErpKnows!(w)'
    BY <1>1, <1>2, <1>3, <2>1, FreshErpKnows
  <2>3. QED
    BY <2>2, OthersKeepErpKnows DEF ErpKnows
<1>12. QED
  BY <1>4, <1>5, <1>6, <1>7, <1>8, <1>9, <1>10, <1>11 DEF Step

-----------------------------------------------------------------------------
\* Somebody is about to write the review, or the row, of f.
Due(f) == \E w \in Workers : job[w] = f /\ ReviewIsDue(w)
RowIsComing(f) == \E w \in Workers : job[w] = f /\ pc[w] = "insert"

\* What another worker is about to write it still is after a step of w.
LEMMA OthersStayDue ==
    ASSUME NEW w \in Workers, Others(w), NEW v \in Workers \ {w}
    PROVE  /\ pc'[v] = pc[v] /\ job'[v] = job[v]
           /\ ReviewIsDue(v) => ReviewIsDue(v)'
BY DEF Others, Mine, ReviewIsDue, NeedsReview

\* A row nobody touches stays true.
LEMMA RowStaysTrue ==
    ASSUME NEW w, Others(w), NEW f \in CFDIs, RowIsTrue(f), rows'[f] = rows[f]
    PROVE  RowIsTrue(f)'
<1>1. doc' = doc
  BY DEF Others
<1>2. /\ IsRegistered(f) => IsRegistered(f)'
      /\ Logged(f) \subseteq Logged(f)'
  BY ErpStays
<1>3. QED
  BY <1>1, <1>2 DEF RowIsTrue

\* What was followed up stays so, if w leaves the row alone and does what was due from it.
LEMMA StaysFollowedUp ==
    ASSUME NEW w \in Workers, Others(w), NEW f \in CFDIs,
           RowIsFollowedUp(f), rows'[f] = rows[f], polizas'[f] > 0 => polizas[f] > 0,
           job[w] = f => /\ ReviewIsDue(w) => reviews'[f] > 0 \/ Due(f)'
                         /\ pc[w] # "insert"
    PROVE  RowIsFollowedUp(f)'
<1>1. Logged(f) \subseteq Logged(f)' /\ (reviews[f] > 0 => reviews'[f] > 0)
  BY ErpStays DEF Others
<1>2. Due(f) => reviews'[f] > 0 \/ Due(f)'
  <2> SUFFICES ASSUME NEW v \in Workers, job[v] = f, ReviewIsDue(v)
               PROVE  reviews'[f] > 0 \/ Due(f)'
    BY DEF Due
  <2>1. CASE v = w
    BY <2>1
  <2>2. CASE v # w
    BY <2>2, OthersStayDue DEF Due
  <2>3. QED
    BY <2>1, <2>2
<1>3. RowIsComing(f) => RowIsComing(f)'
  BY OthersStayDue DEF RowIsComing
<1>4. QED
  BY <1>1, <1>2, <1>3 DEF RowIsFollowedUp, Due, RowIsComing

\* The steps that write neither a row nor a poliza.
LEMMA QuietRows ==
    ASSUME NEW w \in Workers, Others(w), RowsAreAccountedFor, rows' = rows, polizas' = polizas,
           \/ job[w] \in interrupted'
           \/ /\ pc[w] # "insert"
              /\ ReviewIsDue(w) => \/ reviews'[job[w]] > 0
                                   \/ job'[w] = job[w] /\ ReviewIsDue(w)'
    PROVE  RowsAreAccountedFor'
<1> SUFFICES ASSUME NEW f \in CFDIs
             PROVE  RowIsTrue(f)' /\ (f \notin interrupted' => RowIsFollowedUp(f)')
  BY DEF RowsAreAccountedFor
<1>1. RowIsTrue(f)'
  BY RowStaysTrue DEF RowsAreAccountedFor
<1>2. ASSUME f \notin interrupted'
      PROVE  RowIsFollowedUp(f)'
  <2>1. RowIsFollowedUp(f)
    BY <1>2 DEF RowsAreAccountedFor, Others
  <2>2. job[w] = f => /\ ReviewIsDue(w) => reviews'[f] > 0 \/ Due(f)'
                      /\ pc[w] # "insert"
    <3> SUFFICES ASSUME job[w] = f
                 PROVE  /\ ReviewIsDue(w) => reviews'[f] > 0 \/ Due(f)'
                        /\ pc[w] # "insert"
      OBVIOUS
    <3>1. /\ pc[w] # "insert"
          /\ ReviewIsDue(w) => reviews'[f] > 0 \/ (job'[w] = f /\ ReviewIsDue(w)')
      BY <1>2
    <3>2. QED
      BY <3>1 DEF Due
  <2>3. QED
    BY <2>1, <2>2, StaysFollowedUp
<1>3. QED
  BY <1>1, <1>2

LEMMA RegisterRows ==
    ASSUME IInv, RowsAreAccountedFor, NEW w \in Workers, Others(w), RegisterErp(w)
    PROVE  RowsAreAccountedFor'
<1>1. /\ pc[w] = "register" /\ job[w] \in CFDIs /\ ~ReviewIsDue(w)
      /\ pc'[w] = "insert" /\ job' = job /\ rows' = rows /\ interrupted' = interrupted
  BY AgentAssumption DEF IInv, TypeOK, RegisterErp, Goto, ReviewIsDue
<1> SUFFICES ASSUME NEW f \in CFDIs
             PROVE  RowIsTrue(f)' /\ (f \notin interrupted' => RowIsFollowedUp(f)')
  BY DEF RowsAreAccountedFor
<1>2. RowIsTrue(f)'
  BY <1>1, RowStaysTrue DEF RowsAreAccountedFor
<1>3. ASSUME f \notin interrupted'
      PROVE  RowIsFollowedUp(f)'
  <2>1. RowIsFollowedUp(f)
    BY <1>1, <1>3 DEF RowsAreAccountedFor
  <2>2. CASE job[w] # f
    <3>1. polizas'[f] = polizas[f]
      BY <2>2 DEF RegisterErp, IInv, TypeOK
    <3>2. QED
      BY <1>1, <2>1, <2>2, <3>1, StaysFollowedUp
  <2>3. CASE job[w] = f
    <3>1. Logged(f) \subseteq Logged(f)' /\ (reviews[f] > 0 => reviews'[f] > 0)
      BY ErpStays DEF Others
    <3>2. Due(f) => Due(f)'
      BY <1>1, OthersStayDue DEF Due
    <3>3. RowIsComing(f)'
      BY <1>1, <2>3 DEF RowIsComing
    <3>4. QED
      BY <1>1, <2>1, <3>1, <3>2, <3>3 DEF RowIsFollowedUp, Due, RowIsComing
  <2>4. QED
    BY <2>2, <2>3
<1>4. QED
  BY <1>2, <1>3

\* The row a worker writes says what it knows, and it goes on to what the row calls for.
LEMMA InsertedRow ==
    ASSUME IInv, ErpKnows, NEW w \in Workers, Others(w), Insert(w), NEW f \in CFDIs,
           job[w] = f, rows[f] = "absent"
    PROVE  RowIsTrue(f)' /\ RowIsFollowedUp(f)'
<1> DEFINE d == Decision(verdict[w], level[w], doc[f].policy)
<1>1. /\ rows'[f] = erpRes[w] /\ erpRes[w] \in {"none", "registrada", "error"}
      /\ UNCHANGED <<doc, job, verdict, level, audit, polizas>>
  BY DEF Insert, IInv, TypeOK
<1>2. CASE pc[w] = "insert" /\ Goto(w, "notify")
  <2>1. d \in Logged(f)'
    <3>1. <<verdict[w], level[w]>> \in audit'[f]
      BY <1>1, <1>2 DEF IInv, WorkerKnows, Decided
    <3>2. QED
      BY <1>1, <3>1 DEF Logged
  <2>2. /\ erpRes[w] = "none" <=> d = "hold"
        /\ erpRes[w] = "registrada" => IsRegistered(f)
    BY <1>2 DEF ErpKnows
  <2>3. RowIsTrue(f)'
    BY <1>1, <2>1, <2>2, ErpStays DEF RowIsTrue
  <2>4. d # "auto" => Due(f)'
    <3>1. pc'[w] = "notify" /\ job'[w] = f
      BY <1>1, <1>2 DEF Goto, IInv, TypeOK
    <3>2. d # "auto" => NeedsReview(w)'
      BY <1>1 DEF NeedsReview
    <3>3. QED
      BY <3>1, <3>2 DEF Due, ReviewIsDue
  <2>5. rows'[f] = "none" \/ "auto" \notin Logged(f)' => Due(f)'
    <3>1. rows'[f] = "none" => d # "auto"
      BY <1>1, <2>2
    <3>2. QED
      BY <2>1, <2>4, <3>1
  <2>6. RowIsFollowedUp(f)'
    BY <1>1, <2>5 DEF RowIsFollowedUp, Due
  <2>7. QED
    BY <2>3, <2>6
<1>3. CASE pc[w] = "reject_insert" /\ Goto(w, "reject_review")
  <2>1. erpRes[w] = "none" /\ ~doc[f].valid
    BY <1>3 DEF ErpKnows
  <2>2. pc'[w] = "reject_review" /\ job'[w] = f
    BY <1>1, <1>3 DEF Goto, IInv, TypeOK
  <2>3. Due(f)'
    BY <2>2 DEF Due, ReviewIsDue
  <2>4. QED
    BY <1>1, <2>1, <2>3 DEF RowIsTrue, RowIsFollowedUp, Due
<1>4. QED
  BY <1>2, <1>3 DEF Insert

LEMMA InsertRows ==
    ASSUME IInv, ErpKnows, RowsAreAccountedFor, NEW w \in Workers, Others(w), Insert(w)
    PROVE  RowsAreAccountedFor'
<1>1. /\ ~ReviewIsDue(w) /\ interrupted' = interrupted /\ polizas' = polizas
      /\ \A f \in CFDIs : job[w] # f \/ rows[f] # "absent" => rows'[f] = rows[f]
  BY DEF IInv, TypeOK, Insert, ReviewIsDue
<1> SUFFICES ASSUME NEW f \in CFDIs
             PROVE  RowIsTrue(f)' /\ (f \notin interrupted' => RowIsFollowedUp(f)')
  BY DEF RowsAreAccountedFor
<1>2. CASE job[w] = f /\ rows[f] = "absent"
  BY <1>2, InsertedRow
<1>3. CASE job[w] # f
  <2>1. RowIsTrue(f)'
    BY <1>1, <1>3, RowStaysTrue DEF RowsAreAccountedFor
  <2>2. f \notin interrupted' => RowIsFollowedUp(f)'
    BY <1>1, <1>3, StaysFollowedUp DEF RowsAreAccountedFor
  <2>3. QED
    BY <2>1, <2>2
<1>4. CASE rows[f] # "absent"
  <2>1. RowIsTrue(f)'
    BY <1>1, <1>4, RowStaysTrue DEF RowsAreAccountedFor
  <2>2. ASSUME f \notin interrupted'
        PROVE  RowIsFollowedUp(f)'
    <3>1. RowIsFollowedUp(f)
      BY <1>1, <2>2 DEF RowsAreAccountedFor
    <3>2. Logged(f) \subseteq Logged(f)' /\ (reviews[f] > 0 => reviews'[f] > 0)
      BY ErpStays DEF Others
    <3>3. Due(f) => Due(f)'
      BY <1>1, OthersStayDue DEF Due
    <3>4. QED
      BY <1>1, <1>4, <3>1, <3>2, <3>3 DEF RowIsFollowedUp, Due
  <2>3. QED
    BY <2>1, <2>2
<1>5. QED
  BY <1>2, <1>3, <1>4

\* A review that was due is written, stays due, or its attempt was interrupted.
LEMMA NextRows ==
    ASSUME IInv, ErpKnows, RowsAreAccountedFor, NEW w \in Workers, Others(w),
           \/ \E f \in CFDIs : Submit(w, f)
           \/ Step(w) \/ LlmAnswers(w) \/ LateLlmReturns(w) \/ Fail(w)
    PROVE  RowsAreAccountedFor'
<1> USE DEF IInv
<1>1. CASE \E f \in CFDIs : Submit(w, f)
  <2>1. pc[w] = "idle" /\ rows' = rows /\ polizas' = polizas
    BY <1>1 DEF Submit, stores
  <2>2. QED
    BY <2>1, QuietRows DEF ReviewIsDue
<1>2. CASE ParseAndValidate(w) \/ LookUp(w)
  <2>1. pc[w] \in {"received", "lookup"} /\ rows' = rows /\ polizas' = polizas
    BY <1>2 DEF ParseAndValidate, LookUp, stores
  <2>2. QED
    BY <2>1, QuietRows DEF ReviewIsDue
<1>3. CASE LlmTimesOut(w) \/ LlmAnswers(w) \/ LateLlmReturns(w)
  <2>1. pc[w] \in LlmSteps /\ rows' = rows /\ polizas' = polizas
    BY <1>3 DEF LlmTimesOut, LlmAnswers, LateLlmReturns, TypeOK, stores
  <2>2. QED
    BY <2>1, QuietRows DEF ReviewIsDue, LlmSteps
<1>4. CASE RegisterErp(w)
  BY <1>4, RegisterRows
<1>5. CASE Insert(w)
  BY <1>5, InsertRows
<1>6. CASE CreateReview(w)
  <2>1. /\ pc[w] # "insert" /\ rows' = rows /\ polizas' = polizas
        /\ job[w] \in CFDIs
    BY <1>6, AgentAssumption DEF CreateReview, TypeOK
  <2>2. reviews'[job[w]] > 0
    BY <1>6, <2>1 DEF CreateReview, TypeOK
  <2>3. QED
    BY <2>1, <2>2, QuietRows
<1>7. CASE Notify(w)
  <2>1. pc[w] # "insert" /\ rows' = rows /\ polizas' = polizas /\ doc' = doc
    BY <1>7 DEF Notify
  <2>2. ReviewIsDue(w) => pc[w] = "notify" /\ NeedsReview(w) /\ Stay(w, "review")
    BY <1>7 DEF Notify, ReviewIsDue
  <2>3. ReviewIsDue(w) => job'[w] = job[w] /\ ReviewIsDue(w)'
    BY <2>1, <2>2 DEF Stay, Goto, ReviewIsDue, NeedsReview, TypeOK
  <2>4. QED
    BY <2>1, <2>3, QuietRows
<1>8. CASE Fail(w)
  <2>1. job[w] \in interrupted' /\ rows' = rows /\ polizas' = polizas
    BY <1>8 DEF Fail, stores
  <2>2. QED
    BY <2>1, QuietRows
<1>9. QED
  BY <1>1, <1>2, <1>3, <1>4, <1>5, <1>6, <1>7, <1>8 DEF Step

\* The row of a CFDI is true whatever attempts wrote it, its reviews and its polizas, in
\* whatever order, and without an interrupted attempt nothing waits unseen.
THEOREM RowsAreAccounted == Spec => []RowsAreAccountedFor
<1> DEFINE RInv == ErpKnows /\ RowsAreAccountedFor
<1>1. Init => RInv
  <2>1. Init => ErpKnows
    BY DEF Init, ErpKnows
  <2>2. Init => RowsAreAccountedFor
    BY DEF Init, RowsAreAccountedFor, RowIsTrue, RowIsFollowedUp
  <2>3. QED
    BY <2>1, <2>2
<1>2. IInv /\ RInv /\ [Next]_vars => RInv'
  <2> SUFFICES ASSUME IInv, RInv, [Next]_vars
               PROVE  RInv'
    OBVIOUS
  <2>1. CASE UNCHANGED vars
    <3>1. ErpKnows'
      BY <2>1 DEF vars, local, stores, ErpKnows, InExport, IsRegistered
    <3>2. RowsAreAccountedFor'
      BY <2>1 DEF vars, local, stores, RowsAreAccountedFor, RowIsTrue, RowIsFollowedUp,
                  Logged, IsRegistered, InExport, ReviewIsDue, NeedsReview
    <3>3. QED
      BY <3>1, <3>2
  <2>2. CASE Next
    <3>1. PICK w \in Workers : \/ \E f \in CFDIs : Submit(w, f)
                               \/ Step(w) \/ LlmAnswers(w) \/ LateLlmReturns(w) \/ Fail(w)
      BY <2>2 DEF Next
    <3>2. Others(w)
      BY <3>1, StepsLeaveOthers DEF IInv
    <3>3. QED
      BY <3>1, <3>2, NextErpKnows, NextRows
  <2>3. QED
    BY <2>1, <2>2
<1>3. QED
  BY <1>1, <1>2, SpecIInv, PTL DEF Spec
=============================================================================
