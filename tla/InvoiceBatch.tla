---------------------------- MODULE InvoiceBatch ----------------------------
(***************************************************************************)
(* services/pipeline.py process_batch: one worker runs process_file over   *)
(* the CFDIs of a folder and keeps the set of finished files in a          *)
(* checkpoint file, next to other workers that submit the same CFDIs       *)
(* (InvoicePipeline).  The checkpoint is rewritten in place, so a crash can *)
(* come between its truncation and its contents; a truncated one is not    *)
(* JSON and counts as empty.                                               *)
(***************************************************************************)
EXTENDS InvoicePipeline

CONSTANTS BatchWorker,   \* the worker that runs process_batch
          MaxCrashes,    \* bound on the deaths of its process
          MaxReruns      \* bound on the times the same folder is processed again

ASSUME BatchAssumption ==
    BatchWorker \in Workers /\ MaxCrashes \in Nat /\ MaxReruns \in Nat

VARIABLES
    batch,       \* where process_batch is
    left,        \* archivos its loop has not reached
    processed,   \* processed_set
    errored,     \* files whose result is an error
    checkpoint,  \* checkpoint_file on disk
    crashes,     \* crashes so far
    reruns       \* reruns so far

batchVars == <<batch, left, processed, errored, checkpoint, crashes, reruns>>
allVars   == <<vars, batchVars>>

NoFile == [state |-> "absent", files |-> {}]

BatchTypeOK ==
    /\ TypeOK
    /\ batch \in {"off", "loop", "open", "dump", "finished"}
    /\ left \subseteq CFDIs
    /\ processed \subseteq CFDIs
    /\ errored \subseteq CFDIs
    /\ checkpoint \in [state: {"absent", "truncated", "intact"}, files: SUBSET CFDIs]
    /\ crashes \in 0..MaxCrashes
    /\ reruns \in 0..MaxReruns

BatchInit ==
    /\ Init
    /\ batch = "off"
    /\ left = {}
    /\ processed = {}
    /\ errored = {}
    /\ checkpoint = NoFile
    /\ crashes = 0
    /\ reruns = 0

-----------------------------------------------------------------------------
Between == batch = "loop" /\ pc[BatchWorker] = "idle"

LoadCheckpoint == IF checkpoint.state = "intact" THEN checkpoint.files ELSE {}

StartBatch ==
    /\ batch = "off"
    /\ batch' = "loop"
    /\ left' = CFDIs
    /\ processed' = LoadCheckpoint
    /\ errored' = {}
    /\ UNCHANGED <<vars, checkpoint, crashes, reruns>>

SkipProcessed(f) ==
    /\ Between
    /\ f \in left \cap processed
    /\ left' = left \ {f}
    /\ UNCHANGED <<vars, batch, processed, errored, checkpoint, crashes, reruns>>

\* (Mutation: a file is marked before it is processed.)
NextFileMarked(f) ==
    /\ Between
    /\ f \in left \ processed
    /\ Receive(BatchWorker, f)
    /\ left' = left \ {f}
    /\ processed' = processed \cup {f}
    /\ UNCHANGED <<submissions, batch, errored, checkpoint, crashes, reruns>>

NextFile(f) ==
    /\ Between
    /\ f \in left \ processed
    /\ Receive(BatchWorker, f)
    /\ left' = left \ {f}
    /\ UNCHANGED <<submissions, batch, processed, errored, checkpoint, crashes, reruns>>

\* process_file goes on, up to its return.
FileStep ==
    /\ batch = "loop"
    /\ Step(BatchWorker)
    /\ IF pc[BatchWorker] = "notify"
         THEN /\ processed' = processed \cup {job[BatchWorker]}
              /\ batch' = "open"
         ELSE UNCHANGED <<processed, batch>>
    /\ UNCHANGED <<left, errored, checkpoint, crashes, reruns>>

\* (Mutations: the error is swallowed; the file is tried again.)
FileErrorSwallowed ==
    /\ batch = "loop"
    /\ Fail(BatchWorker)
    /\ UNCHANGED <<batch, left, processed, errored, checkpoint, crashes, reruns>>

FileErrorRetried ==
    /\ batch = "loop"
    /\ Fail(BatchWorker)
    /\ left' = left \cup {job[BatchWorker]}
    /\ UNCHANGED <<batch, processed, errored, checkpoint, crashes, reruns>>

\* process_file raises: the loop records the error and goes on.
FileError ==
    /\ batch = "loop"
    /\ Fail(BatchWorker)
    /\ errored' = errored \cup {job[BatchWorker]}
    /\ UNCHANGED <<batch, left, processed, checkpoint, crashes, reruns>>

\* open(checkpoint_file, "w") truncates the file, json.dump then fills it; an
\* exception of either is swallowed.
OpenCheckpoint ==
    /\ batch = "open"
    /\ \/ /\ checkpoint' = [state |-> "truncated", files |-> {}]
          /\ batch' = "dump"
       \/ /\ batch' = "loop"
          /\ UNCHANGED checkpoint
    /\ UNCHANGED <<vars, left, processed, errored, crashes, reruns>>

DumpCheckpoint ==
    /\ batch = "dump"
    /\ batch' = "loop"
    /\ \/ checkpoint' = [state |-> "intact", files |-> processed]
       \/ UNCHANGED checkpoint
    /\ UNCHANGED <<vars, left, processed, errored, crashes, reruns>>

\* The loop is over: remove the checkpoint (an exception is swallowed), return.
FinishBatch ==
    /\ Between
    /\ left = {}
    /\ batch' = "finished"
    /\ checkpoint' \in {NoFile, checkpoint}
    /\ UNCHANGED <<vars, left, processed, errored, crashes, reruns>>

\* The process dies, inside process_file or between two files.
Crash ==
    /\ batch \in {"loop", "open", "dump"}
    /\ crashes < MaxCrashes
    /\ crashes' = crashes + 1
    /\ batch' = "off"
    /\ left' = {}
    /\ processed' = {}
    /\ errored' = {}
    /\ Leave(BatchWorker)
    /\ UNCHANGED <<doc, polizas, erpLogged, rows, notices, submissions, contended,
                   checkpoint, reruns>>

\* The same folder is processed once more.
RunAgain ==
    /\ batch = "finished"
    /\ reruns < MaxReruns
    /\ reruns' = reruns + 1
    /\ batch' = "off"
    /\ UNCHANGED <<vars, left, processed, errored, checkpoint, crashes>>

OtherWorker(w) ==
    /\ \/ \E f \in CFDIs : Submit(w, f)
       \/ Step(w)
       \/ Fail(w)
    /\ UNCHANGED batchVars

BatchStep ==
    \/ StartBatch
    \/ \E f \in CFDIs : SkipProcessed(f) \/ NextFile(f)
    \/ FileStep
    \/ OpenCheckpoint
    \/ DumpCheckpoint
    \/ FinishBatch

BatchNext ==
    \/ BatchStep
    \/ FileError
    \/ Crash
    \/ RunAgain
    \/ \E w \in Workers \ {BatchWorker} : OtherWorker(w)

BatchSpec == BatchInit /\ [][BatchNext]_allVars

\* process_batch runs on, and is started again after a crash.
FairBatchSpec == BatchSpec /\ WF_allVars(BatchStep)

-----------------------------------------------------------------------------
(* Properties.                                                             *)

\* What the checkpoint claims is true: a file it names has its invoice in the
\* database, so skipping it after a crash loses nothing.
CheckpointSound ==
    \A f \in processed \cup checkpoint.files : rows[f] # NoRow

\* A finished batch has lost no file: each one is in the database or is reported
\* with its error, whatever crashes and stale checkpoints came before.
FinishedAccountsForAll ==
    batch = "finished" => \A f \in CFDIs : rows[f] # NoRow \/ f \in errored

\* A batch that runs, with crashes and restarts, gets to its end.
BatchEnds == batch = "loop" ~> batch = "finished"

\* The batch and the workers next to it still implement the promise.  Connectors made
\* afresh let a rerun give a CFDI another poliza, but each attempt makes one at most,
\* and nothing is booked that is not logged.
BatchImplementsLedger == Ledger!Spec
=============================================================================
