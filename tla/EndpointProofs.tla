--------------------------- MODULE EndpointProofs ---------------------------
(***************************************************************************)
(* Proofs about two components of the API: Idempotency, which stands       *)
(* before its write endpoints, for any requests, keys and bodies and any   *)
(* number of expiries and failures; and CloseManagement, which is behind   *)
(* some of them, for any checklist and any number of runs.                 *)
(*                                                                         *)
(* dispatch looks at the store twice and writes it once, so what it knows  *)
(* of an entry may be out of date: IInv says what an entry stands for      *)
(* whoever wrote it, and where a request that met an entry can be.         *)
(*                                                                         *)
(* A run of the monthly close makes its policies first and posts them      *)
(* afterwards, and may stop anywhere: CloseInv says what is in the ERP at  *)
(* each point of the run.                                                  *)
(***************************************************************************)
EXTENDS CloseManagement, Idempotency, SequenceTheorems, TLAPS

-----------------------------------------------------------------------------
(* Idempotency.                                                            *)

\* An entry answers the request that its key and its body hash describe.
EntriesAreOwn ==
    \A k \in Keys : store[k] # NoEntry =>
        /\ req[store[k].by].key = k
        /\ req[store[k].by].body = store[k].body

\* The key of a covered request is held, by then for its own body if the request
\* has passed the conflict check.
CoveredAreHeld ==
    \A r \in covered :
        /\ Entry(r) # NoEntry
        /\ pc[r] = "lookup" => Entry(r).body = req[r].body

CoveredWait == \A r \in covered : pc[r] \notin {"execute", "cache"}

IInv == TypeOK /\ EntriesAreOwn /\ AnswersAreOwn /\ CoveredAreHeld /\ CoveredWait

-----------------------------------------------------------------------------
LEMMA InitIInv == Init => IInv
  BY IdempotencyAssumption
     DEF Init, IInv, TypeOK, EntriesAreOwn, AnswersAreOwn, CoveredAreHeld,
         CoveredWait

\* What every step finds: the entry of a request, if there is one.
LEMMA EntryType ==
    ASSUME TypeOK, NEW r \in Requests
    PROVE  /\ req[r].key \in Keys /\ req[r].body \in Bodies
           /\ Entry(r) # NoEntry => Entry(r).by \in Requests /\ Entry(r).body \in Bodies
  BY DEF TypeOK, Entries, Entry

LEMMA ArriveIInv ==
    ASSUME IInv, NEW r \in Requests, Arrive(r)
    PROVE  IInv'
<1>1. TypeOK'
  BY DEF IInv, TypeOK, Arrive, Goto
<1>2. EntriesAreOwn' /\ AnswersAreOwn'
  BY DEF IInv, EntriesAreOwn, AnswersAreOwn, Arrive
<1>3. \A p \in covered' : p \in covered \/ (p = r /\ Entry(r) # NoEntry)
  BY DEF Arrive
<1>4. CoveredAreHeld' /\ CoveredWait'
  BY <1>3 DEF IInv, TypeOK, CoveredAreHeld, CoveredWait, Arrive, Goto, Entry
<1>5. QED
  BY <1>1, <1>2, <1>4 DEF IInv

LEMMA CheckIInv ==
    ASSUME IInv, NEW r \in Requests, Check(r)
    PROVE  IInv'
<1>1. TypeOK'
  BY DEF IInv, TypeOK, Check, Goto
<1>2. EntriesAreOwn' /\ AnswersAreOwn'
  BY DEF IInv, EntriesAreOwn, AnswersAreOwn, Check
<1>3. CoveredAreHeld' /\ CoveredWait'
  BY DEF IInv, TypeOK, CoveredAreHeld, CoveredWait, Check, Goto, Entry
<1>4. QED
  BY <1>1, <1>2, <1>3 DEF IInv

LEMMA LookupIInv ==
    ASSUME IInv, NEW r \in Requests, Lookup(r)
    PROVE  IInv'
<1>1. CASE Entry(r) # NoEntry /\ Entry(r).body = req[r].body
  <2>1. /\ answer' = [answer EXCEPT ![r] = Entry(r).by]
        /\ pc' = [pc EXCEPT ![r] = "done"]
        /\ Entry(r).by \in Requests
    BY <1>1, EntryType DEF IInv, Lookup, Goto
  <2>2. req[Entry(r).by] = req[r]
    <3>1. req[Entry(r).by].key = req[r].key /\ req[Entry(r).by].body = req[r].body
      BY <1>1, EntryType DEF IInv, EntriesAreOwn, Entry
    <3>2. req[Entry(r).by] \in [key: Keys, body: Bodies]
          /\ req[r] \in [key: Keys, body: Bodies]
      BY <2>1 DEF IInv, TypeOK
    <3>3. QED
      BY <3>1, <3>2
  <2>3. TypeOK' /\ EntriesAreOwn'
    BY <2>1 DEF IInv, TypeOK, EntriesAreOwn, Lookup
  <2>4. AnswersAreOwn'
    BY <2>1, <2>2 DEF IInv, TypeOK, AnswersAreOwn, Lookup
  <2>5. CoveredAreHeld' /\ CoveredWait'
    BY <2>1 DEF IInv, TypeOK, CoveredAreHeld, CoveredWait, Lookup, Entry
  <2>6. QED
    BY <2>3, <2>4, <2>5 DEF IInv
<1>2. CASE ~(Entry(r) # NoEntry /\ Entry(r).body = req[r].body)
  <2>1. answer' = answer /\ pc' = [pc EXCEPT ![r] = "execute"] /\ pc[r] = "lookup"
    BY <1>2 DEF Lookup, Goto
  <2>2. r \notin covered
    BY <1>2, <2>1 DEF IInv, CoveredAreHeld
  <2>3. TypeOK' /\ EntriesAreOwn' /\ AnswersAreOwn'
    BY <2>1 DEF IInv, TypeOK, EntriesAreOwn, AnswersAreOwn, Lookup
  <2>4. CoveredAreHeld' /\ CoveredWait'
    BY <2>1, <2>2 DEF IInv, TypeOK, CoveredAreHeld, CoveredWait, Lookup, Entry
  <2>5. QED
    BY <2>3, <2>4 DEF IInv
<1>3. QED
  BY <1>1, <1>2

LEMMA ExecuteIInv ==
    ASSUME IInv, NEW r \in Requests, Execute(r)
    PROVE  IInv'
<1>1. TypeOK'
  BY DEF IInv, TypeOK, Execute, Goto
<1>2. EntriesAreOwn' /\ AnswersAreOwn'
  BY DEF IInv, EntriesAreOwn, AnswersAreOwn, Execute
<1>3. r \notin covered
  BY DEF IInv, CoveredWait, Execute
<1>4. CoveredAreHeld' /\ CoveredWait'
  BY <1>3 DEF IInv, TypeOK, CoveredAreHeld, CoveredWait, Execute, Goto, Entry
<1>5. QED
  BY <1>1, <1>2, <1>4 DEF IInv

LEMMA CacheIInv ==
    ASSUME IInv, NEW r \in Requests, Cache(r)
    PROVE  IInv'
<1> DEFINE entry == [body |-> req[r].body, by |-> r]
<1>1. entry \in Entries /\ entry # NoEntry /\ req[r].key \in Keys
  BY EntryType, IdempotencyAssumption DEF IInv, Entries
<1>2. /\ pc[r] = "cache" /\ pc' = [pc EXCEPT ![r] = "done"]
      /\ store' = [store EXCEPT ![req[r].key] = entry]
      /\ answer' = [answer EXCEPT ![r] = r]
      /\ req' = req
  BY DEF Cache, Goto
<1>3. TypeOK'
  BY <1>1, <1>2 DEF IInv, TypeOK, Cache
<1>4. EntriesAreOwn'
  BY <1>1, <1>2 DEF IInv, TypeOK, EntriesAreOwn
<1>5. AnswersAreOwn'
  BY <1>2 DEF IInv, TypeOK, AnswersAreOwn
<1>6. \A p \in covered' :
        p \in covered /\ (req[p].key = req[r].key => Entry(r).body = req[r].body)
  BY DEF Cache
<1>7. CoveredAreHeld'
  <2> SUFFICES ASSUME NEW p \in covered'
               PROVE  /\ Entry(p)' # NoEntry
                      /\ pc'[p] = "lookup" => Entry(p)'.body = req[p].body
    BY <1>2 DEF CoveredAreHeld
  <2>1. p \in covered /\ p \in Requests /\ req[p].key \in Keys
    BY <1>6, EntryType DEF IInv, TypeOK
  <2>2. pc'[p] = "lookup" => pc[p] = "lookup"
    BY <1>2, <2>1 DEF IInv, TypeOK
  <2>3. CASE req[p].key = req[r].key
    BY <1>1, <1>2, <1>6, <2>1, <2>2, <2>3 DEF IInv, TypeOK, CoveredAreHeld, Entry
  <2>4. CASE req[p].key # req[r].key
    BY <1>1, <1>2, <2>1, <2>2, <2>4 DEF IInv, TypeOK, CoveredAreHeld, Entry
  <2>5. QED
    BY <2>3, <2>4
<1>8. CoveredWait'
  BY <1>2, <1>6 DEF IInv, TypeOK, CoveredWait
<1>9. QED
  BY <1>3, <1>4, <1>5, <1>7, <1>8 DEF IInv

LEMMA FailIInv ==
    ASSUME IInv, NEW r \in Requests, Fail(r)
    PROVE  IInv'
<1>1. TypeOK'
  BY IdempotencyAssumption DEF IInv, TypeOK, Fail, Goto
<1>2. EntriesAreOwn' /\ AnswersAreOwn'
  BY DEF IInv, EntriesAreOwn, AnswersAreOwn, Fail
<1>3. CoveredAreHeld' /\ CoveredWait'
  BY DEF IInv, TypeOK, CoveredAreHeld, CoveredWait, Fail, Goto, Entry
<1>4. QED
  BY <1>1, <1>2, <1>3 DEF IInv

LEMMA ExpireIInv ==
    ASSUME IInv, NEW k \in Keys, Expire(k)
    PROVE  IInv'
<1>1. TypeOK'
  BY IdempotencyAssumption DEF IInv, TypeOK, Expire
<1>2. EntriesAreOwn' /\ AnswersAreOwn'
  BY DEF IInv, TypeOK, EntriesAreOwn, AnswersAreOwn, Expire
<1>3. \A p \in covered' : p \in covered /\ p \in Requests /\ req[p].key # k
  BY DEF IInv, TypeOK, Expire
<1>4. CoveredAreHeld' /\ CoveredWait'
  BY <1>3, EntryType DEF IInv, TypeOK, CoveredAreHeld, CoveredWait, Expire, Entry
<1>5. QED
  BY <1>1, <1>2, <1>4 DEF IInv

LEMMA SpecIInv == Spec => []IInv
<1>1. IInv /\ [Next]_vars => IInv'
  <2> SUFFICES ASSUME IInv, [Next]_vars
               PROVE  IInv'
    OBVIOUS
  <2>1. CASE UNCHANGED vars
    BY <2>1 DEF vars, IInv, TypeOK, EntriesAreOwn, AnswersAreOwn, CoveredAreHeld,
                CoveredWait, Entry
  <2>2. CASE Next
    BY <2>2, ArriveIInv, CheckIInv, LookupIInv, ExecuteIInv, CacheIInv, FailIInv,
       ExpireIInv DEF Next
  <2>3. QED
    BY <2>1, <2>2
<1>2. QED
  BY <1>1, InitIInv, PTL DEF Spec

\* Every variable keeps its type.
THEOREM TypeCorrect == Spec => []TypeOK
  BY SpecIInv, PTL DEF IInv

\* Nobody is answered with the response to another key or another body, however
\* the two reads of the store interleave with the writes of other requests.
THEOREM RepliesAreOwn == Spec => []AnswersAreOwn
  BY SpecIInv, PTL DEF IInv

\* A request that has changed the system has left its handler, and is not covered.
EffectsAreLate ==
    \A r \in effects : pc[r] \in {"cache", "done"} /\ r \notin covered

LEMMA EffectsNext == IInv /\ EffectsAreLate /\ [Next]_vars => EffectsAreLate'
<1> SUFFICES ASSUME IInv, EffectsAreLate, [Next]_vars
             PROVE  EffectsAreLate'
  OBVIOUS
<1> USE DEF IInv, TypeOK, EffectsAreLate, Goto
<1>1. ASSUME NEW r \in Requests, Arrive(r) \/ Check(r) \/ Lookup(r)
      PROVE  EffectsAreLate'
  <2>1. /\ effects' = effects /\ covered' \subseteq covered \cup {r}
        /\ pc[r] \in {"new", "check", "lookup"}
        /\ \A q \in Requests \ {r} : pc'[q] = pc[q]
    BY <1>1 DEF Arrive, Check, Lookup
  <2>2. QED
    BY <2>1
<1>2. ASSUME NEW r \in Requests, Execute(r)
      PROVE  EffectsAreLate'
  BY <1>2 DEF Execute, CoveredWait
<1>3. ASSUME NEW r \in Requests, Cache(r)
      PROVE  EffectsAreLate'
  <2>1. effects' = effects /\ covered' \subseteq covered /\ pc' = [pc EXCEPT ![r] = "done"]
    BY <1>3 DEF Cache
  <2>2. QED
    BY <2>1
<1>4. ASSUME NEW r \in Requests, Fail(r)
      PROVE  EffectsAreLate'
  BY <1>4 DEF Fail, CoveredWait
<1>5. ASSUME NEW k \in Keys, Expire(k)
      PROVE  EffectsAreLate'
  BY <1>5 DEF Expire
<1>6. CASE UNCHANGED vars
  BY <1>6 DEF vars
<1>7. QED
  BY <1>1, <1>2, <1>3, <1>4, <1>5, <1>6 DEF Next

\* A request that meets a held key does not reach its handler and changes nothing while
\* it is held.
THEOREM HeldKeysProtect == Spec => []HeldKeyIsNotExecuted
<1>1. Init => EffectsAreLate
  BY DEF Init, EffectsAreLate
<1>2. IInv /\ EffectsAreLate => HeldKeyIsNotExecuted
  BY DEF IInv, CoveredWait, EffectsAreLate, HeldKeyIsNotExecuted
<1>3. QED
  BY <1>1, <1>2, EffectsNext, SpecIInv, PTL DEF Spec

-----------------------------------------------------------------------------
(* CloseManagement.                                                        *)

\* A run has made its policies in the order of its steps, one by step at most.
OnePerStep ==
    /\ \A i, j \in DOMAIN adjustments : adjustments[i].from = adjustments[j].from => i = j
    /\ at # 0 => \A i \in DOMAIN adjustments : adjustments[i].from < at

RunIsCounted ==
    /\ at # 0 \/ adjustments # <<>> => runs # 0
    /\ posting # 0 => adjustments # <<>>

\* Nothing of the runs to come, and of this one what the batch has left behind.
ErpSoFar ==
    /\ \A r \in 1..MaxRuns, c \in Calcs : erp[r][c] <= 1
    /\ \A r \in 1..MaxRuns, c \in Calcs : r > runs => erp[r][c] = 0
    /\ at \in 1..PostStep =>
         /\ report = "none"
         /\ \A c \in Calcs : erp[runs][c] # 0 =>
               \E i \in 1..(posting - 1) : adjustments[i].from = c

BatchBehind ==
    \A i \in 1..(posting - 1) :
        /\ adjustments[i].kind # "unbalanced"
        /\ adjustments[i].kind = "balanced" => erp[runs][adjustments[i].from] = 1

CloseInv ==
    /\ CloseTypeOK /\ ApprovalIsForThisResult
    /\ OnePerStep /\ RunIsCounted /\ ErpSoFar /\ BatchBehind
    /\ ReportedPolizas /\ BatchIsPrefix

LEMMA InitCloseInv == CloseInit => CloseInv
<1> SUFFICES ASSUME CloseInit PROVE CloseInv
  OBVIOUS
<1> USE CloseAssumption DEF CloseInit, AllPending, Steps
<1>1. CloseTypeOK
  <2>1. /\ erp \in [1..MaxRuns -> [Calcs -> Nat]] /\ step \in [Steps -> StepStatus]
        /\ at \in 0..(LastStep + 1) /\ runs \in 0..MaxRuns
    BY DEF StepStatus
  <2>2. adjustments \in Seq(Policies) /\ posting \in 0..(Len(adjustments) + 1)
    BY DEF Policies
  <2>3. QED
    BY <2>1, <2>2 DEF CloseTypeOK
<1>2. ApprovalIsForThisResult /\ OnePerStep /\ RunIsCounted
  BY DEF ApprovalIsForThisResult, OnePerStep, RunIsCounted
<1>3. ErpSoFar /\ BatchBehind /\ ReportedPolizas /\ BatchIsPrefix
  BY DEF ErpSoFar, BatchBehind, ReportedPolizas, BatchIsPrefix
<1>4. QED
  BY <1>1, <1>2, <1>3 DEF CloseInv

\* What every step finds: the policies of the run, and the row of the ERP it writes.
LEMMA CloseFacts ==
    ASSUME CloseTypeOK
    PROVE  /\ LastStep \in Nat /\ PostStep \in Steps /\ PostStep \in Nat
           /\ MaxRuns \in Nat /\ runs \in Nat /\ at \in Nat
           /\ Len(adjustments) \in Nat /\ posting \in Nat
           /\ DOMAIN adjustments = 1..Len(adjustments)
           /\ \A i \in DOMAIN adjustments :
                 adjustments[i] \in Policies /\ adjustments[i].from \in Calcs
           /\ \A c \in Calcs : c \in Nat /\ c < PostStep
           /\ \A r \in 1..MaxRuns, c \in Calcs : erp[r][c] \in Nat
           /\ runs # 0 => runs \in 1..MaxRuns
<1>1. /\ LastStep \in Nat /\ PostStep \in Steps /\ PostStep \in Nat
      /\ \A c \in Calcs : c \in Nat /\ c < PostStep
  BY CloseAssumption DEF Steps
<1>2. adjustments \in Seq(Policies)
  BY DEF CloseTypeOK
<1>3. /\ Len(adjustments) \in Nat /\ DOMAIN adjustments = 1..Len(adjustments)
      /\ \A i \in DOMAIN adjustments : adjustments[i] \in Policies
  BY <1>2
<1>4. \A p \in Policies : p.from \in Calcs
  BY DEF Policies
<1>5. MaxRuns \in Nat /\ runs \in 0..MaxRuns /\ at \in 0..(LastStep + 1)
      /\ posting \in 0..(Len(adjustments) + 1)
  BY CloseAssumption DEF CloseTypeOK
<1>6. \A r \in 1..MaxRuns, c \in Calcs : erp[r][c] \in Nat
  BY DEF CloseTypeOK
<1>7. QED
  BY <1>1, <1>3, <1>4, <1>5, <1>6

-----------------------------------------------------------------------------
(* The calls about a close leave the run and the ERP alone.                *)

LEMMA CallKeepsRun ==
    ASSUME CloseInv, CloseTypeOK', ApprovalIsForThisResult', UNCHANGED <<running, erp, runs>>
    PROVE  CloseInv'
  BY DEF CloseInv, running, OnePerStep, RunIsCounted, ErpSoFar, BatchBehind,
         ReportedPolizas, BatchIsPrefix

LEMMA CallsCloseInv ==
    ASSUME CloseInv,
           \/ StartClose
           \/ \E s \in Steps : ApproveStep(s) \/ RejectStep(s)
           \/ \E force \in BOOLEAN : Finalize(force)
    PROVE  CloseInv'
<1> USE CloseAssumption DEF CloseTypeOK, ApprovalIsForThisResult, running, StepStatus,
                            Steps
<1>1. CASE StartClose
  <2>1. CloseTypeOK' /\ ApprovalIsForThisResult'
    BY <1>1 DEF CloseInv, StartClose, AllPending
  <2>2. QED
    BY <1>1, <2>1, CallKeepsRun DEF StartClose
<1>2. ASSUME NEW s \in Steps, ApproveStep(s)
      PROVE  CloseInv'
  <2>1. CloseTypeOK' /\ ApprovalIsForThisResult'
    BY <1>2 DEF CloseInv, ApproveStep
  <2>2. QED
    BY <1>2, <2>1, CallKeepsRun DEF ApproveStep
<1>3. ASSUME NEW s \in Steps, RejectStep(s)
      PROVE  CloseInv'
  <2>1. CloseTypeOK' /\ ApprovalIsForThisResult'
    BY <1>3 DEF CloseInv, RejectStep
  <2>2. QED
    BY <1>3, <2>1, CallKeepsRun DEF RejectStep
<1>4. ASSUME NEW force \in BOOLEAN, Finalize(force)
      PROVE  CloseInv'
  <2>1. CloseTypeOK' /\ ApprovalIsForThisResult'
    BY <1>4 DEF CloseInv, Finalize
  <2>2. QED
    BY <1>4, <2>1, CallKeepsRun DEF Finalize
<1>5. QED
  BY <1>1, <1>2, <1>3, <1>4

-----------------------------------------------------------------------------
(* The steps of a run.                                                     *)

LEMMA RunAutomaticCloseInv ==
    ASSUME CloseInv, RunAutomatic
    PROVE  CloseInv'
<1> USE DEF RunAutomatic, FirstAdjustments, close
<1>1. /\ LastStep \in Nat /\ runs \in Nat /\ MaxRuns \in Nat /\ LastStep >= 1
      /\ PostStep \in Nat /\ PostStep >= 1
  BY CloseFacts, CloseAssumption DEF CloseInv
<1>2. CloseTypeOK'
  <2>1. at' \in 0..(LastStep + 1) /\ runs' \in 0..MaxRuns
    BY <1>1
  <2>2. adjustments' \in Seq(Policies) /\ posting' \in 0..(Len(adjustments') + 1)
    OBVIOUS
  <2>3. QED
    BY <2>1, <2>2 DEF CloseInv, CloseTypeOK
<1>3. ApprovalIsForThisResult' /\ OnePerStep' /\ RunIsCounted'
  BY <1>1 DEF CloseInv, ApprovalIsForThisResult, OnePerStep, RunIsCounted
<1>4. ErpSoFar'
  BY <1>1 DEF CloseInv, ErpSoFar
<1>5. BatchBehind' /\ BatchIsPrefix'
  BY DEF BatchBehind, BatchIsPrefix
<1>6. ReportedPolizas'
  BY DEF CloseInv, ReportedPolizas
<1>7. QED
  BY <1>2, <1>3, <1>4, <1>5, <1>6 DEF CloseInv

\* EndStep at s moves on; what needs approval is not approved by it.
LEMMA EndStepKeeps ==
    ASSUME CloseTypeOK, ApprovalIsForThisResult, at \in Steps,
           NEW outcome \in {Completed(at), "failed"}, EndStep(outcome)
    PROVE  /\ step' \in [Steps -> StepStatus] /\ vouched' \subseteq Steps
           /\ at' = at + 1 /\ at' \in 0..(LastStep + 1)
           /\ ApprovalIsForThisResult'
<1>1. step' = [step EXCEPT ![at] = outcome] /\ vouched' = vouched \ {at} /\ at' = at + 1
  BY DEF EndStep
<1>2. outcome \in StepStatus /\ (at \in NeedsApproval => outcome \in {"review", "failed"})
  BY DEF Completed, StepStatus
<1>3. step \in [Steps -> StepStatus] /\ vouched \subseteq Steps /\ NeedsApproval \subseteq Steps
  BY CloseAssumption DEF CloseTypeOK, Steps
<1>4. step' \in [Steps -> StepStatus] /\ vouched' \subseteq Steps
  BY <1>1, <1>2, <1>3
<1>5. at' \in 0..(LastStep + 1)
  BY <1>1, CloseAssumption DEF Steps
<1>6. ApprovalIsForThisResult'
  <2> SUFFICES ASSUME NEW s \in NeedsApproval, step'[s] \in {"approved", "closed"}
               PROVE  s \in vouched'
    BY DEF ApprovalIsForThisResult
  <2>1. CASE s = at
    BY <2>1, <1>1, <1>2, <1>3
  <2>2. CASE s # at
    BY <2>2, <1>1, <1>3 DEF ApprovalIsForThisResult
  <2>3. QED
    BY <2>1, <2>2
<1>7. QED
  BY <1>1, <1>4, <1>5, <1>6

\* Once the run is past the posting, nothing it or its report says can change.
LEMMA PastPosting ==
    ASSUME CloseInv, CloseTypeOK', ApprovalIsForThisResult', OnePerStep',
           UNCHANGED <<adjustments, report, erp, runs>>,
           posting' = 0, runs # 0,
           at' \in 1..PostStep => at \in 1..PostStep /\ posting = 0
    PROVE  CloseInv'
<1>1. /\ \A i : i \notin 1..(posting' - 1)
      /\ posting = 0 => \A i : i \notin 1..(posting - 1)
  OBVIOUS
<1>2. ErpSoFar'
  BY <1>1 DEF CloseInv, ErpSoFar
<1>3. BatchBehind'
  BY <1>1 DEF BatchBehind
<1>4. RunIsCounted' /\ ReportedPolizas' /\ BatchIsPrefix'
  BY DEF CloseInv, RunIsCounted, ReportedPolizas, BatchIsPrefix
<1>5. QED
  BY <1>2, <1>3, <1>4 DEF CloseInv

\* A calculation adds its policy behind those of the earlier steps.
LEMMA AddPolicy ==
    ASSUME CloseInv, NEW p \in Policies, p.from = at, at \in Calcs,
           adjustments' = Append(adjustments, p), at' = at + 1,
           CloseTypeOK', ApprovalIsForThisResult',
           UNCHANGED <<posting, report, erp, runs>>
    PROVE  CloseInv'
<1>1. /\ at \in Nat /\ PostStep \in Nat /\ at < PostStep /\ at # 0 /\ at \in 1..PostStep
      /\ Len(adjustments) \in Nat /\ DOMAIN adjustments = 1..Len(adjustments)
      /\ at' \in 1..PostStep
  BY CloseFacts, CloseAssumption DEF CloseInv
<1>2. posting = 0
  BY <1>1 DEF CloseInv, CloseTypeOK
<1>3. \A i : i \notin 1..(posting - 1) /\ i \notin 1..(posting' - 1)
  BY <1>2
<1>4. /\ DOMAIN adjustments' = 1..(Len(adjustments) + 1)
      /\ \A i \in 1..Len(adjustments) : adjustments'[i] = adjustments[i]
      /\ adjustments'[Len(adjustments) + 1] = p
  BY AppendProperties DEF CloseInv, CloseTypeOK
<1>5. /\ \A i \in DOMAIN adjustments :
            adjustments[i].from \in Nat /\ adjustments[i].from < at
      /\ \A i, j \in DOMAIN adjustments :
            adjustments[i].from = adjustments[j].from => i = j
  BY <1>1, CloseFacts DEF CloseInv, OnePerStep
<1>6. \A i \in DOMAIN adjustments' :
        i \in DOMAIN adjustments \/ i = Len(adjustments) + 1
  BY <1>1, <1>4
<1>7. OnePerStep'
  <2>1. \A i \in DOMAIN adjustments' :
          \/ i \in DOMAIN adjustments /\ adjustments'[i].from = adjustments[i].from
          \/ i = Len(adjustments) + 1 /\ adjustments'[i].from = at
    BY <1>1, <1>4, <1>6
  <2>2. \A i, j \in DOMAIN adjustments' :
          adjustments'[i].from = adjustments'[j].from => i = j
    BY <2>1, <1>1, <1>5
  <2>3. \A i \in DOMAIN adjustments' : adjustments'[i].from < at'
    BY <2>1, <1>1, <1>5
  <2>4. QED
    BY <2>2, <2>3 DEF OnePerStep
<1>8. RunIsCounted' /\ runs # 0
  BY <1>1 DEF CloseInv, RunIsCounted
<1>9. ErpSoFar'
  BY <1>1, <1>3 DEF CloseInv, ErpSoFar
<1>10. BatchBehind'
  BY <1>3 DEF BatchBehind
<1>11. ReportedPolizas'
  BY <1>1 DEF CloseInv, ErpSoFar, ReportedPolizas
<1>12. BatchIsPrefix'
  <2> SUFFICES ASSUME NEW j \in DOMAIN adjustments'
               PROVE  erp[runs][adjustments'[j].from] = 0
    BY DEF BatchIsPrefix
  <2>1. adjustments'[j].from \in Calcs
    BY <1>4, <1>6, CloseFacts DEF CloseInv
  <2>2. QED
    BY <2>1, <1>1, <1>3 DEF CloseInv, ErpSoFar
<1>13. QED
  BY <1>7, <1>8, <1>9, <1>10, <1>11, <1>12 DEF CloseInv

LEMMA RunStepCloseInv ==
    ASSUME CloseInv, RunStep
    PROVE  CloseInv'
<1> USE DEF CloseInv
<1>1. at \in Steps /\ at \in Nat /\ at # 0 /\ at >= 1 /\ PostStep \in Nat /\ PostStep >= 1
  BY CloseFacts, CloseAssumption DEF RunStep, Steps
<1>2. PICK outcome \in {Completed(at), "failed"} : EndStep(outcome)
  BY DEF RunStep
<1>3. /\ step' \in [Steps -> StepStatus] /\ vouched' \subseteq Steps
      /\ at' = at + 1 /\ at' \in 0..(LastStep + 1)
      /\ ApprovalIsForThisResult'
  BY <1>1, <1>2, EndStepKeeps
<1>4. posting = 0 /\ runs # 0
  BY <1>1 DEF RunStep, CloseTypeOK, RunIsCounted
<1>5. UNCHANGED <<period, validated, posting, report, erp, runs, forced>>
  BY DEF RunStep
<1>6. CASE UNCHANGED adjustments
  <2>1. CloseTypeOK'
    BY <1>3, <1>4, <1>5, <1>6 DEF CloseTypeOK
  <2>2. OnePerStep'
    BY <1>1, <1>3, <1>6, CloseFacts DEF OnePerStep
  <2>3. at' \in 1..PostStep => at \in 1..PostStep
    BY <1>1, <1>3
  <2>4. QED
    BY <1>3, <1>4, <1>5, <1>6, <2>1, <2>2, <2>3, PastPosting
<1>7. ASSUME NEW p \in Policies, p.from = at, at \in Calcs,
             adjustments' = Append(adjustments, p)
      PROVE  CloseInv'
  <2>1. adjustments \in Seq(Policies) /\ posting' = 0
    BY <1>4, <1>5 DEF CloseTypeOK
  <2>2. adjustments' \in Seq(Policies) /\ Len(adjustments') \in Nat
    BY <1>7, <2>1, AppendProperties
  <2>3. CloseTypeOK'
    BY <1>3, <1>5, <2>1, <2>2 DEF CloseTypeOK
  <2>4. QED
    BY <1>3, <1>5, <1>7, <2>3, AddPolicy
<1>8. QED
  BY <1>6, <1>7 DEF RunStep

LEMMA StartPostingCloseInv ==
    ASSUME CloseInv, StartPosting
    PROVE  CloseInv'
<1> USE DEF CloseInv, StartPosting, close
<1>1. Len(adjustments) \in Nat /\ PostStep \in 1..PostStep
  BY CloseFacts
<1>2. \A i : i \notin 1..(posting - 1) /\ i \notin 1..(posting' - 1)
  OBVIOUS
<1>3. CloseTypeOK'
  <2>1. posting' \in 0..(Len(adjustments') + 1)
    BY <1>1
  <2>2. QED
    BY <2>1 DEF CloseTypeOK
<1>4. ApprovalIsForThisResult' /\ OnePerStep' /\ RunIsCounted'
  BY DEF ApprovalIsForThisResult, OnePerStep, RunIsCounted
<1>5. ErpSoFar' /\ BatchBehind'
  BY <1>1, <1>2 DEF ErpSoFar, BatchBehind
<1>6. ReportedPolizas' /\ BatchIsPrefix'
  BY DEF ReportedPolizas, BatchIsPrefix
<1>7. QED
  BY <1>3, <1>4, <1>5, <1>6

\* While it posts, the run is at a policy of a step that has none in the ERP yet.
LEMMA PostingFacts ==
    ASSUME CloseInv, IsPosting
    PROVE  /\ at = PostStep /\ at \in 1..PostStep /\ at \in Steps /\ runs \in 1..MaxRuns
           /\ posting \in 1..Len(adjustments) /\ posting \in DOMAIN adjustments
           /\ Len(adjustments) \in Nat /\ report = "none"
           /\ adjustments[posting].from \in Calcs
           /\ erp[runs][adjustments[posting].from] = 0
<1> USE DEF CloseInv
<1>1. /\ at = PostStep /\ PostStep \in Steps /\ PostStep \in 1..PostStep
      /\ posting \in 1..Len(adjustments) /\ posting \in DOMAIN adjustments
      /\ Len(adjustments) \in Nat /\ adjustments[posting].from \in Calcs
      /\ DOMAIN adjustments = 1..Len(adjustments)
  BY CloseFacts, CloseAssumption DEF IsPosting, Steps
<1>2. at # 0 /\ runs \in 1..MaxRuns
  BY <1>1, CloseFacts DEF RunIsCounted
<1>3. report = "none"
  BY <1>1 DEF ErpSoFar
<1>4. \A i \in 1..(posting - 1) : /\ i \in DOMAIN adjustments /\ i # posting
                                 /\ adjustments[i].from # adjustments[posting].from
  BY <1>1 DEF OnePerStep
<1>5. erp[runs][adjustments[posting].from] = 0
  BY <1>1, <1>4 DEF ErpSoFar
<1>6. QED
  BY <1>1, <1>2, <1>3, <1>5

\* What the ERP holds after it took the policy the run is at, or did not.
LEMMA ErpAfter ==
    ASSUME CloseInv, IsPosting,
           \/ UNCHANGED erp
           \/ InErp(adjustments[posting])
    PROVE  LET c == adjustments[posting].from
           IN  /\ erp' \in [1..MaxRuns -> [Calcs -> Nat]]
               /\ \A r \in 1..MaxRuns, d \in Calcs :
                     (r # runs \/ d # c) => erp'[r][d] = erp[r][d]
               /\ erp'[runs][c] \in {0, 1}
               /\ InErp(adjustments[posting]) => erp'[runs][c] = 1
               /\ \A r \in 1..MaxRuns, d \in Calcs : erp'[r][d] <= 1
               /\ \A r \in 1..MaxRuns, d \in Calcs : r > runs => erp'[r][d] = 0
<1> DEFINE c == adjustments[posting].from
<1>1. /\ runs \in 1..MaxRuns /\ c \in Calcs /\ erp[runs][c] = 0
      /\ erp \in [1..MaxRuns -> [Calcs -> Nat]]
  BY PostingFacts DEF CloseInv, CloseTypeOK
<1>2. InErp(adjustments[posting]) => erp' = [erp EXCEPT ![runs][c] = 1]
  BY <1>1 DEF InErp
<1>3. /\ erp' \in [1..MaxRuns -> [Calcs -> Nat]]
      /\ \A r \in 1..MaxRuns, d \in Calcs : (r # runs \/ d # c) => erp'[r][d] = erp[r][d]
      /\ erp'[runs][c] \in {0, 1}
      /\ InErp(adjustments[posting]) => erp'[runs][c] = 1
  <2> HIDE DEF c
  <2>1. CASE UNCHANGED erp
    BY <2>1, <1>1, <1>2
  <2>2. CASE erp' = [erp EXCEPT ![runs][c] = 1]
    <3>1. [erp[runs] EXCEPT ![c] = 1] \in [Calcs -> Nat]
      BY <1>1
    <3>2. erp' = [erp EXCEPT ![runs] = [erp[runs] EXCEPT ![c] = 1]]
      BY <2>2, <1>1
    <3>3. erp' \in [1..MaxRuns -> [Calcs -> Nat]]
      BY <3>1, <3>2, <1>1
    <3>4. QED
      BY <3>1, <3>2, <3>3, <1>1
  <2>3. QED
    BY <2>1, <2>2, <1>2
<1>4. /\ \A r \in 1..MaxRuns, d \in Calcs : erp[r][d] <= 1
      /\ \A r \in 1..MaxRuns, d \in Calcs : r > runs => erp[r][d] = 0
  BY DEF CloseInv, ErpSoFar
<1> HIDE DEF c
<1>5. \A r \in 1..MaxRuns, d \in Calcs : erp'[r][d] <= 1
  BY <1>1, <1>3, <1>4
<1>6. \A r \in 1..MaxRuns, d \in Calcs : r > runs => erp'[r][d] = 0
  BY <1>1, <1>3, <1>4
<1>7. QED
  BY <1>3, <1>5, <1>6 DEF c

\* The policies behind the batch stay as they are, and nothing overtakes them.
LEMMA PrefixAfter ==
    ASSUME CloseInv, IsPosting, UNCHANGED <<adjustments, runs>>,
           \/ UNCHANGED erp
           \/ InErp(adjustments[posting])
    PROVE  /\ BatchIsPrefix'
           /\ \A i \in 1..(posting - 1) :
                /\ i \in DOMAIN adjustments
                /\ adjustments[i].kind # "unbalanced"
                /\ adjustments[i].kind = "balanced" => erp'[runs][adjustments[i].from] = 1
           /\ \A j \in DOMAIN adjustments :
                erp'[runs][adjustments[j].from] # 0 => j \in 1..posting
<1> DEFINE c == adjustments[posting].from
<1>1. /\ runs \in 1..MaxRuns /\ posting \in DOMAIN adjustments /\ posting \in Nat
      /\ at \in 1..PostStep /\ DOMAIN adjustments = 1..Len(adjustments)
      /\ \A i \in DOMAIN adjustments : adjustments[i].from \in Calcs
  BY PostingFacts, CloseFacts DEF CloseInv
<1>2. \A d \in Calcs : d # c => erp'[runs][d] = erp[runs][d]
  BY <1>1, ErpAfter
<1>3. \A i \in DOMAIN adjustments : i # posting => adjustments[i].from # c
  BY <1>1 DEF CloseInv, OnePerStep
<1>4. \A i \in 1..(posting - 1) : i \in DOMAIN adjustments /\ i # posting
  BY <1>1
<1>5. \A i \in 1..(posting - 1) :
         /\ adjustments[i].kind # "unbalanced"
         /\ adjustments[i].kind = "balanced" => erp'[runs][adjustments[i].from] = 1
  BY <1>1, <1>2, <1>3, <1>4 DEF CloseInv, BatchBehind
<1>6. ASSUME NEW j \in DOMAIN adjustments, erp'[runs][adjustments[j].from] # 0
      PROVE  j \in 1..posting
  <2>1. CASE j = posting
    BY <2>1, <1>1
  <2>2. CASE j # posting
    <3>1. erp[runs][adjustments[j].from] # 0
      BY <2>2, <1>1, <1>2, <1>3, <1>6
    <3>2. PICK i \in 1..(posting - 1) : adjustments[i].from = adjustments[j].from
      BY <3>1, <1>1 DEF CloseInv, ErpSoFar
    <3>3. i = j
      BY <3>2, <1>4 DEF CloseInv, OnePerStep
    <3>4. QED
      BY <3>2, <3>3, <1>1
  <2>3. QED
    BY <2>1, <2>2
<1>7. BatchIsPrefix'
  <2> SUFFICES ASSUME NEW j \in DOMAIN adjustments, erp'[runs][adjustments[j].from] # 0,
                      NEW i \in 1..(j - 1)
               PROVE  /\ adjustments[i].kind # "unbalanced"
                      /\ adjustments[i].kind = "balanced"
                            => erp'[runs][adjustments[i].from] # 0
    BY DEF BatchIsPrefix
  <2>1. i \in 1..(posting - 1)
    BY <1>1, <1>6
  <2>2. QED
    BY <2>1, <1>5
<1>8. QED
  BY <1>4, <1>5, <1>6, <1>7

LEMMA PostOneCloseInv ==
    ASSUME CloseInv, PostOne
    PROVE  CloseInv'
<1> USE DEF close
<1> DEFINE p == adjustments[posting]
<1>1. IsPosting /\ posting' = posting + 1
  BY DEF PostOne
<1>2. /\ p.kind = "empty" \/ p.kind = "balanced"
      /\ p.kind = "balanced" => InErp(p)
      /\ UNCHANGED erp \/ InErp(p)
  BY DEF PostOne
<1>3. UNCHANGED <<period, step, validated, at, adjustments, report, runs, forced, vouched>>
  BY DEF PostOne
<1>4. /\ at = PostStep /\ at \in 1..PostStep /\ runs \in 1..MaxRuns
      /\ posting \in 1..Len(adjustments) /\ Len(adjustments) \in Nat
      /\ report = "none" /\ p.from \in Calcs
  BY <1>1, PostingFacts
<1>5. /\ erp' \in [1..MaxRuns -> [Calcs -> Nat]]
      /\ \A r \in 1..MaxRuns, d \in Calcs : (r # runs \/ d # p.from) => erp'[r][d] = erp[r][d]
      /\ InErp(p) => erp'[runs][p.from] = 1
      /\ \A r \in 1..MaxRuns, d \in Calcs : erp'[r][d] <= 1
      /\ \A r \in 1..MaxRuns, d \in Calcs : r > runs => erp'[r][d] = 0
  BY <1>1, <1>2, ErpAfter
<1>6. CloseTypeOK'
  <2>1. posting' \in 0..(Len(adjustments') + 1)
    BY <1>1, <1>3, <1>4
  <2>2. QED
    BY <2>1, <1>3, <1>4, <1>5 DEF CloseInv, CloseTypeOK
<1>7. ApprovalIsForThisResult' /\ OnePerStep' /\ RunIsCounted'
  BY <1>1, <1>3, <1>4 DEF CloseInv, ApprovalIsForThisResult, OnePerStep, RunIsCounted
<1>8. BatchBehind' /\ BatchIsPrefix'
  <2>1. BatchIsPrefix'
    BY <1>1, <1>2, <1>3, PrefixAfter
  <2>2. /\ \A i \in 1..(posting - 1) :
             /\ adjustments[i].kind # "unbalanced"
             /\ adjustments[i].kind = "balanced" => erp'[runs][adjustments[i].from] = 1
        /\ p.kind # "unbalanced" /\ (p.kind = "balanced" => erp'[runs][p.from] = 1)
    BY <1>1, <1>2, <1>3, <1>5, PrefixAfter
  <2>3. \A i \in 1..(posting' - 1) : i \in 1..(posting - 1) \/ i = posting
    BY <1>1, <1>4
  <2>4. QED
    BY <2>1, <2>2, <2>3, <1>3 DEF BatchBehind
<1>9. ErpSoFar'
  <2>1. \A d \in Calcs : erp'[runs][d] # 0 =>
          \E i \in 1..(posting' - 1) : adjustments[i].from = d
    <3> SUFFICES ASSUME NEW d \in Calcs, erp'[runs][d] # 0
                 PROVE  \E i \in 1..(posting' - 1) : adjustments[i].from = d
      OBVIOUS
    <3>1. CASE d = p.from
      <4>1. posting \in 1..(posting' - 1)
        BY <1>1, <1>4
      <4>2. QED
        BY <3>1, <4>1
    <3>2. CASE d # p.from
      <4>1. erp[runs][d] # 0
        BY <3>2, <1>4, <1>5
      <4>2. PICK i \in 1..(posting - 1) : adjustments[i].from = d
        BY <4>1, <1>4 DEF CloseInv, ErpSoFar
      <4>3. i \in 1..(posting' - 1)
        BY <1>1, <1>4
      <4>4. QED
        BY <4>2, <4>3
    <3>3. QED
      BY <3>1, <3>2
  <2>2. QED
    BY <2>1, <1>3, <1>4, <1>5 DEF ErpSoFar
<1>10. ReportedPolizas'
  BY <1>3, <1>4, <1>5 DEF ReportedPolizas
<1>11. QED
  BY <1>6, <1>7, <1>8, <1>9, <1>10 DEF CloseInv

LEMMA PostFailsCloseInv ==
    ASSUME CloseInv, PostFails
    PROVE  CloseInv'
<1>1. /\ IsPosting /\ posting' = 0 /\ report' \in {"error", "failed"}
      /\ UNCHANGED erp \/ InErp(adjustments[posting])
      /\ UNCHANGED <<period, validated, adjustments, runs, forced>>
  BY DEF PostFails
<1>2. /\ at = PostStep /\ at \in Steps /\ runs \in 1..MaxRuns /\ runs # 0
      /\ PostStep \in Nat /\ at # 0 /\ adjustments # <<>>
  BY <1>1, PostingFacts, CloseFacts DEF CloseInv
<1>3. /\ step' \in [Steps -> StepStatus] /\ vouched' \subseteq Steps
      /\ at' = at + 1 /\ at' \in 0..(LastStep + 1)
      /\ ApprovalIsForThisResult'
  <2>1. PICK outcome \in {Completed(at), "failed"} : EndStep(outcome)
    BY DEF PostFails
  <2>2. QED
    BY <1>2, <2>1, EndStepKeeps DEF CloseInv
<1>4. /\ erp' \in [1..MaxRuns -> [Calcs -> Nat]]
      /\ \A r \in 1..MaxRuns, d \in Calcs : erp'[r][d] <= 1
      /\ \A r \in 1..MaxRuns, d \in Calcs : r > runs => erp'[r][d] = 0
  BY <1>1, ErpAfter
<1>5. CloseTypeOK'
  BY <1>1, <1>3, <1>4 DEF CloseInv, CloseTypeOK
<1>6. OnePerStep' /\ RunIsCounted'
  BY <1>1, <1>2, <1>3, CloseFacts DEF CloseInv, OnePerStep, RunIsCounted
<1>7. ErpSoFar' /\ BatchBehind'
  BY <1>1, <1>2, <1>3, <1>4 DEF ErpSoFar, BatchBehind
<1>8. ReportedPolizas'
  BY <1>1, <1>4 DEF ReportedPolizas
<1>9. BatchIsPrefix'
  BY <1>1, PrefixAfter
<1>10. QED
  BY <1>3, <1>5, <1>6, <1>7, <1>8, <1>9 DEF CloseInv

\* The batch is through: what it leaves behind is all of it.
LEMMA PostedCloseInv ==
    ASSUME CloseInv, Posted
    PROVE  CloseInv'
<1> USE DEF CloseInv
<1>1. /\ at = PostStep /\ posting = Len(adjustments) + 1 /\ report' = "posted" /\ posting' = 0
      /\ UNCHANGED <<period, validated, adjustments, erp, runs, forced>>
  BY DEF Posted
<1>2. /\ at \in Steps /\ PostStep \in Nat /\ at # 0 /\ runs # 0 /\ Len(adjustments) \in Nat
      /\ DOMAIN adjustments = 1..(posting - 1)
  BY <1>1, CloseFacts, CloseAssumption DEF RunIsCounted, Steps
<1>3. /\ step' \in [Steps -> StepStatus] /\ vouched' \subseteq Steps
      /\ at' = at + 1 /\ at' \in 0..(LastStep + 1)
      /\ ApprovalIsForThisResult'
  BY <1>2, EndStepKeeps DEF Posted
<1>4. CloseTypeOK'
  BY <1>1, <1>3 DEF CloseTypeOK
<1>5. OnePerStep' /\ RunIsCounted'
  BY <1>1, <1>2, <1>3, CloseFacts DEF OnePerStep, RunIsCounted
<1>6. ErpSoFar' /\ BatchBehind' /\ BatchIsPrefix'
  BY <1>1, <1>2, <1>3 DEF ErpSoFar, BatchBehind, BatchIsPrefix
<1>7. ReportedPolizas'
  BY <1>1, <1>2 DEF BatchBehind, ErpSoFar, ReportedPolizas
<1>8. QED
  BY <1>3, <1>4, <1>5, <1>6, <1>7

LEMMA ValidateCloseInv ==
    ASSUME CloseInv, Validate
    PROVE  CloseInv'
<1>1. /\ at = LastStep + 1 /\ at' = 0 /\ validated' \in BOOLEAN
      /\ UNCHANGED <<period, step, adjustments, posting, report, erp, runs, forced, vouched>>
  BY DEF Validate
<1>2. /\ PostStep \in Nat /\ LastStep \in Nat /\ PostStep # LastStep + 1 /\ at # 0
      /\ posting = 0 /\ runs # 0
  BY <1>1, CloseAssumption DEF CloseInv, CloseTypeOK, RunIsCounted
<1>3. CloseTypeOK' /\ ApprovalIsForThisResult' /\ OnePerStep'
  BY <1>1, <1>2 DEF CloseInv, CloseTypeOK, ApprovalIsForThisResult, OnePerStep
<1>4. QED
  BY <1>1, <1>2, <1>3, PastPosting

LEMMA DieCloseInv ==
    ASSUME CloseInv, Die
    PROVE  CloseInv'
<1> USE DEF CloseInv, Die, AllPending
<1>1. CloseTypeOK'
  <2>1. at' \in 0..(LastStep + 1) /\ step' \in [Steps -> StepStatus]
    BY CloseAssumption DEF StepStatus
  <2>2. adjustments' \in Seq(Policies) /\ posting' \in 0..(Len(adjustments') + 1)
    OBVIOUS
  <2>3. QED
    BY <2>1, <2>2 DEF CloseTypeOK
<1>2. ApprovalIsForThisResult'
  BY CloseAssumption DEF ApprovalIsForThisResult, Steps
<1>3. OnePerStep' /\ RunIsCounted' /\ ErpSoFar' /\ BatchBehind'
  BY DEF OnePerStep, RunIsCounted, ErpSoFar, BatchBehind
<1>4. ReportedPolizas' /\ BatchIsPrefix'
  BY DEF ReportedPolizas, BatchIsPrefix
<1>5. QED
  BY <1>1, <1>2, <1>3, <1>4

LEMMA SpecCloseInv == CloseSpec => []CloseInv
<1>1. CloseInv /\ [CloseNext]_closeVars => CloseInv'
  <2> SUFFICES ASSUME CloseInv, [CloseNext]_closeVars
               PROVE  CloseInv'
    OBVIOUS
  <2>1. CASE UNCHANGED closeVars
    <3>1. CloseTypeOK' /\ ApprovalIsForThisResult'
      BY <2>1 DEF closeVars, close, running, CloseInv, CloseTypeOK, ApprovalIsForThisResult
    <3>2. QED
      BY <2>1, <3>1, CallKeepsRun DEF closeVars
  <2>2. CASE CloseNext
    <3>1. CASE Run
      BY <3>1, RunAutomaticCloseInv, RunStepCloseInv, StartPostingCloseInv, PostOneCloseInv,
         PostFailsCloseInv, PostedCloseInv, ValidateCloseInv DEF Run
    <3>2. QED
      BY <2>2, <3>1, CallsCloseInv, DieCloseInv DEF CloseNext
  <2>3. QED
    BY <2>1, <2>2
<1>2. QED
  BY <1>1, InitCloseInv, PTL DEF CloseSpec

\* Every variable of the close keeps its type, and a batch is posted at its step only.
THEOREM CloseTypeCorrect == CloseSpec => []CloseTypeOK
  BY SpecCloseInv, PTL DEF CloseInv

\* A step that needs approval is approved or closed only by a human who saw its last
\* result, for any checklist and any order of runs, approvals and restarts.
THEOREM ApprovalsAreForResults == CloseSpec => []ApprovalIsForThisResult
  BY SpecCloseInv, PTL DEF CloseInv

\* No run posts a policy twice, and a run that reports its batch as posted has all of it
\* in the ERP.
THEOREM ReportsAreTrue == CloseSpec => []ReportedPolizas
  BY SpecCloseInv, PTL DEF CloseInv

\* A batch that stops leaves a gapless beginning of itself in the ERP, for any number of
\* policies and whatever fails.
THEOREM BatchesStopAtFailures == CloseSpec => []BatchIsPrefix
  BY SpecCloseInv, PTL DEF CloseInv
=============================================================================
