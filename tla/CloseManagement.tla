--------------------------- MODULE CloseManagement ---------------------------
(***************************************************************************)
(* features/close_management: the monthly close of one period.  The        *)
(* endpoints are coroutines that never await, so the calls of CloseManager *)
(* come one after the other; what is hard is their order, the batch of     *)
(* adjustments that is posted in the middle of one of them, and that the   *)
(* closes are kept in memory while the ERP is not.                         *)
(*                                                                         *)
(* start_close makes a new close whatever exists; closes share the ERP     *)
(* only, and the model follows the last one.  skip() has no caller.        *)
(***************************************************************************)
EXTENDS Integers, Sequences

CONSTANTS
    LastStep,       \* the steps of the checklist are 1..LastStep
    NeedsApproval,  \* those a human has to approve
    Calcs,          \* those that calculate an adjustment policy
    PostStep,       \* the one that posts the policies to the ERP
    MaxRuns         \* bound on the runs of the automatic steps

ASSUME CloseAssumption ==
    /\ LastStep \in Nat /\ MaxRuns \in Nat
    /\ NeedsApproval \subseteq 1..LastStep
    /\ PostStep \in (1..LastStep) \ NeedsApproval
    /\ Calcs \subseteq 1..(PostStep - 1)

VARIABLES
    period,       \* status of the close, "none" when there is none in memory
    step,         \* status of each step of the checklist
    validated,    \* all_validations_passed, which is true when none was made
    at,           \* the step run_automatic_steps is at, 0 when it does not run
    adjustments,  \* data["_adjustments"] of the last run
    posting,      \* the policy post_batch is at, 0 outside of it
    report,       \* what the posting step of the last run answered
    erp,          \* polizas in the ERP, by run and step
    runs,         \* number of runs so far
    forced,       \* observer: the close was forced
    vouched       \* observer: steps a human approved since they last ran

close     == <<period, step, validated>>
running   == <<at, adjustments, posting, report>>
closeVars == <<close, running, erp, runs, forced, vouched>>

Steps      == 1..LastStep
StepStatus == {"pending", "review", "approved", "closed", "failed"}
Policies   == [from : Calcs, kind : {"empty", "balanced", "unbalanced"}]

CloseTypeOK ==
    /\ period \in {"none", "in_progress", "closed"}
    /\ step \in [Steps -> StepStatus]
    /\ validated \in BOOLEAN
    /\ at \in 0..LastStep + 1
    /\ adjustments \in Seq(Policies)
    /\ posting \in 0..Len(adjustments) + 1
    /\ posting # 0 => at = PostStep
    /\ report \in {"none", "posted", "error", "failed"}
    /\ erp \in [1..MaxRuns -> [Calcs -> Nat]]
    /\ runs \in 0..MaxRuns
    /\ forced \in BOOLEAN
    /\ vouched \subseteq Steps

AllPending == [s \in Steps |-> "pending"]

CloseInit ==
    /\ period = "none" /\ step = AllPending /\ validated = TRUE
    /\ at = 0 /\ adjustments = <<>> /\ posting = 0 /\ report = "none"
    /\ erp = [r \in 1..MaxRuns |-> [c \in Calcs |-> 0]]
    /\ runs = 0 /\ forced = FALSE /\ vouched = {}

-----------------------------------------------------------------------------
(* Calls about a close.  Each finds none of the others under way.          *)

IsCalled == at = 0 /\ period # "none"

StartClose ==
    /\ at = 0
    /\ period' = "in_progress" /\ step' = AllPending /\ validated' = TRUE
    /\ forced' = FALSE /\ vouched' = {}
    /\ UNCHANGED <<running, erp, runs>>

\* approve_step looks neither at the status of the step nor at that of the period.
ApproveStep(s) ==
    /\ IsCalled
    /\ step' = [step EXCEPT ![s] = "approved"]
    /\ vouched' = vouched \cup {s}
    /\ UNCHANGED <<period, validated, running, erp, runs, forced>>

RejectStep(s) ==
    /\ IsCalled
    /\ step' = [step EXCEPT ![s] = "failed"]
    /\ vouched' = vouched \ {s}
    /\ UNCHANGED <<period, validated, running, erp, runs, forced>>

\* finalize.  Unless forced, no step may be pending, and the validations must have
\* passed; a step under review or failed is no obstacle.
Finalize(force) ==
    /\ IsCalled
    /\ ~force => validated /\ \A s \in Steps : step[s] # "pending"
    /\ period' = "closed"
    /\ step' = [s \in Steps |-> IF step[s] = "approved" THEN "closed" ELSE step[s]]
    /\ forced' = force
    /\ UNCHANGED <<validated, running, erp, runs, vouched>>

-----------------------------------------------------------------------------
(* run_automatic_steps, whatever the status of the period.                 *)

\* (Mutation: the adjustments of the run before are posted with those of this one.)
FirstAdjustmentsKept == adjustments

FirstAdjustments == <<>>

RunAutomatic ==
    /\ IsCalled
    /\ runs < MaxRuns
    /\ runs' = runs + 1
    /\ at' = 1 /\ adjustments' = FirstAdjustments /\ posting' = 0 /\ report' = "none"
    /\ UNCHANGED <<close, erp, forced, vouched>>

\* (Mutation: a step is approved once it is through.)
CompletedApproved(s) == "approved"

Completed(s) == IF s \in NeedsApproval THEN "review" ELSE "approved"

\* _run_step ends the step it is at, which takes back what a human said about it.
EndStep(outcome) ==
    /\ step' = [step EXCEPT ![at] = outcome]
    /\ vouched' = vouched \ {at}
    /\ at' = at + 1

\* A step other than the posting is through or has raised, with or without a policy.
RunStep ==
    /\ at \in Steps
    /\ at = PostStep => adjustments = <<>>
    /\ \/ UNCHANGED adjustments
       \/ /\ at \in Calcs
          /\ \E p \in Policies : /\ p.from = at
                                 /\ adjustments' = Append(adjustments, p)
    /\ EndStep(Completed(at)) \/ EndStep("failed")
    /\ UNCHANGED <<period, validated, posting, report, erp, runs, forced>>

StartPosting ==
    /\ at = PostStep /\ adjustments # <<>> /\ posting = 0
    /\ posting' = 1
    /\ UNCHANGED <<close, at, adjustments, report, erp, runs, forced, vouched>>

IsPosting == at = PostStep /\ posting \in DOMAIN adjustments

InErp(p) == erp' = [erp EXCEPT ![runs][p.from] = @ + 1]

\* post_adjustment: a policy without entries is skipped, a balanced one posted.
PostOne ==
    /\ IsPosting
    /\ LET p == adjustments[posting]
       IN  \/ p.kind = "empty" /\ UNCHANGED erp
           \/ p.kind = "balanced" /\ InErp(p)
    /\ posting' = posting + 1
    /\ UNCHANGED <<close, at, adjustments, report, runs, forced, vouched>>

\* (Mutation: the batch goes on with the policies behind the one that failed.)
PostFailsAndGoesOn ==
    /\ IsPosting
    /\ posting' = posting + 1
    /\ UNCHANGED <<close, at, adjustments, report, erp, runs, forced, vouched>>

\* The policy is unbalanced, or the ERP refuses it or does not answer.  What was posted
\* stays: the list of references to take back is empty (the key has another name), and
\* _rollback only logs.  An ERPWriterError is swallowed, any other fails the step.
PostFails ==
    /\ IsPosting
    /\ LET p == adjustments[posting]
       IN  \/ p.kind # "empty" /\ UNCHANGED erp
           \/ p.kind = "balanced" /\ InErp(p)
    /\ \/ report' = "error" /\ EndStep(Completed(at))
       \/ report' = "failed" /\ EndStep("failed")
    /\ posting' = 0
    /\ UNCHANGED <<period, validated, adjustments, runs, forced>>

Posted ==
    /\ at = PostStep /\ posting = Len(adjustments) + 1
    /\ report' = "posted"
    /\ EndStep(Completed(at))
    /\ posting' = 0
    /\ UNCHANGED <<period, validated, adjustments, erp, runs, forced>>

\* The validations depend on the data of the run.
Validate ==
    /\ at = LastStep + 1
    /\ validated' \in BOOLEAN
    /\ at' = 0
    /\ UNCHANGED <<period, step, adjustments, posting, report, erp, runs, forced, vouched>>

\* The process restarts: _CLOSES is empty, the ERP is not.
Die ==
    /\ period # "none"
    /\ period' = "none" /\ step' = AllPending /\ validated' = TRUE
    /\ at' = 0 /\ adjustments' = <<>> /\ posting' = 0 /\ report' = "none"
    /\ forced' = FALSE /\ vouched' = {}
    /\ UNCHANGED <<erp, runs>>

Run ==
    \/ RunAutomatic
    \/ RunStep
    \/ StartPosting
    \/ PostOne
    \/ PostFails
    \/ Posted
    \/ Validate

CloseNext ==
    \/ StartClose
    \/ \E s \in Steps : ApproveStep(s) \/ RejectStep(s)
    \/ \E force \in BOOLEAN : Finalize(force)
    \/ Run
    \/ Die

CloseSpec == CloseInit /\ [][CloseNext]_closeVars

-----------------------------------------------------------------------------
(* Properties.                                                             *)

\* What a human approves is what was calculated: a step that needs approval is approved
\* or closed only by a human who saw its last result, however the runs, approvals,
\* rejections and finalizations are ordered (models.py:115-126).
ApprovalIsForThisResult ==
    \A s \in NeedsApproval : step[s] \in {"approved", "closed"} => s \in vouched

\* A run posts a policy of its own once at most, through failures and restarts, and when
\* it reports the batch as posted every policy with entries is in the ERP
\* (erp_writer.py:108-124, close_manager.py:503-513).
ReportedPolizas ==
    /\ \A r \in 1..MaxRuns, c \in Calcs : erp[r][c] <= 1
    /\ report = "posted" =>
         \A i \in DOMAIN adjustments :
             /\ adjustments[i].kind # "unbalanced"
             /\ adjustments[i].kind = "balanced" => erp[runs][adjustments[i].from] = 1

\* post_batch stops at the first policy that fails: what a run has in the ERP, posted,
\* failed or still posting, is what comes first among its adjustments, without a gap
\* (erp_writer.py:108-122).  What is missing is what a bookkeeper has to add by hand.
BatchIsPrefix ==
    \A j \in DOMAIN adjustments : erp[runs][adjustments[j].from] # 0 =>
        \A i \in 1..(j - 1) :
            /\ adjustments[i].kind # "unbalanced"
            /\ adjustments[i].kind = "balanced" => erp[runs][adjustments[i].from] # 0

\* Docstring of finalize (close_manager.py:262-263), "All steps must be approved/skipped,
\* and all validations must pass, unless force=True".
ClosedMeansApproved ==
    [][period' = "closed" /\ period # "closed" /\ ~forced' =>
         \A s \in Steps : step'[s] = "closed"]_closeVars
=============================================================================
