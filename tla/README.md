# Verification of likida-ai-enterprise

TLA+ models of `b2b_ai`, the accounting agent of this repository, with the TLC
configurations that check them and the TLAPS proofs about them. The repository is
a multi-tenant back office for Mexican accounting firms: it takes CFDIs (electronic
invoices), validates and classifies them, registers policies (*pólizas*) in an ERP,
stores the invoices, asks a human where it is not sure, and notifies the firm.

What can go wrong in it and is hard to test is not the arithmetic of a single call but
what lies between the calls: several stores written one after the other, threads that
share a connector or a breaker, calls that time out, documents that come back.
That is what the modules here are about.

Contents: [inventory](#inventory) · [modules](#modules) · [runs](#runs) ·
[bounds](#bounds) · [fairness](#fairness) · [proofs](#proofs) ·
[findings](#findings) · [known divergences](#known-divergences) ·
[not modelled](#not-modelled) · [plan](#plan) · [how to run](#how-to-run)

## Inventory

Paths are relative to `src/b2b_ai`. "State" is what survives a call; hard behaviours
are listed with their source lines under `hazards` in `PROJECT.json`.

### Modelled

| Component | State | Operations | Hard behaviour | Must hold |
|---|---|---|---|---|
| Circuit breaker (`infrastructure/circuit_breaker.py`) | state, failure and success counts, half-open permits, time of the last failure | `__enter__`, `__exit__`, `state`, `trip`, `reset` | two critical sections on the way in; results of an earlier episode; permits never given back | never CLOSED on a full count, never OPEN without a clock, no over-admission, no lost permit, closes on the verdict of one episode, leaves OPEN and HALF_OPEN |
| Invoice pipeline (`services/pipeline.py`, `services/approval.py`, `db/db.py`, `erp/contpaqi.py`, `tools/logger.py`) | policies in the ERP, audit log, invoices, notifications | `process_file` and everything it calls | four stores without a transaction, retries, several threads on one CFDI | human gates hold, one policy per attempt and no second one where the connector remembers, a notice has its row |
| Invoice batch (`process_batch`) | checkpoint file, results | start, skip, process, checkpoint, finish | crash between two writes, torn checkpoint, rerun | a checkpointed file is in the database, a finished batch lost none, it ends |
| Agent loop (`agent/loop.py`, `services/timeouts.py`, `erp/csv_erp.py`) | CSV export, audit log, invoices, reviews, notifications | `process`: parse, LLM (with repair and timeout), gate, ERP, insert, notify, escalate | LLM timeouts with three different fallbacks, escalation as the last of four writes | nothing below the confidence threshold is registered, nothing doubtful against the policy; escalations have a review; a row is true and followed up; attempts end or wait for a driver |
| Idempotency keys (`api/idempotency.py`) | cached responses by key, in Redis or memory | `dispatch` with `is_conflict`, `get`, `set`, expiry | two reads and a write that other requests interleave with; TTL | an answer belongs to an equal request; a held key is not executed |
| Billing of subscriptions (`features/billing`) | the subscriptions in memory, their copies at the provider | activate, cancel, webhook events | calls of the provider between a check and the save; events late, twice, reordered; restart | a cancelled subscription stays so; the live one is the tenant's; status and invoices follow the events |
| Close management (`features/close_management`) | checklist of a period, its adjustments, policies in the ERP | start, run the automatic steps, approve, reject, finalize | the batch of policies fails in the middle; rerun; restart with the ERP kept | an approval is for the result a human saw; a run posts each policy once at most, and all it reports |
| Collections scheduler (`collections/scheduler.py`) | the reminder queue, one JSON value; events in the database | schedule, autosend, process, cancel, clear | the whole value is loaded, worked on and saved by overlapping requests; one save after many sends | a debtor is reminded once, a cancellation holds against whoever loads after it, the queue tells what was sent |
| Notification queue (`notifications/scheduler.py`, `notifications/whatsapp.py`) | heap, status and retries of each message, token bucket | `enqueue`, `process_once`, `send_message` | message in no container while a worker has it, nested retries, empty bucket | no message lost or sent by two workers, posts bounded, rate respected, each settles |
| Connection pool (`infrastructure/db_pool.py`) | idle queue, count of connections, closed flag | `acquire`, release, pre-ping, recycle, `close` | count and flag are read outside the lock that guards them; broken connections | one user per connection; never more than threads |
| Graceful shutdown (`infrastructure/graceful_shutdown.py`) | draining flag, number of active requests | track, drain, cleanup, close of the pool | a request looks at the flag before it is counted; the drain times out | an orderly stop leaves no connection behind; a shutdown ends |

The flows meet in the stores. `process_file` and `AgentLoop.process` are two
implementations of the same business step: both write an ERP, the audit log
(`log_call`), `db.insert_invoice` and the notifier, but with different gates, orders and
connectors. The pipeline is called by API threads, the portal and `process_batch`; the
loop by the inbound e-mail webhook (`api/webhooks.py`). The idempotency middleware
stands before the write endpoints of the API, and the breaker before outbound services.
Close management is the third writer of an ERP: it posts the adjustments of a period as policies.
Billing and collections each talk to somebody outside (a payment provider, a debtor) on the strength of
a record kept here. The pool serves the requests that the shutdown waits for, and is what it closes last.

### Not modelled

Every other part is a component in `PROJECT.json` with the reason it is left out; the parts with behaviour
over time are these:

| Component | State and hard behaviour | Why it is left out |
|---|---|---|
| Payables (`features/ap_ar`) | payment orders in process memory | a simulated bank; what can go wrong has no guard to check, see the divergences |
| SAT check (`sat/scheduler.py`) | ledger copied, then saved over others' changes | the same shape as the reminder queue of `CollectionsReminders`: a whole value loaded, worked on and saved, the alert before the save |
| Inbound e-mail (`api/webhooks.py`) | a loop over the CFDIs of a mail | each CFDI is a submission of `AgentLoop`; after an exception the rest of the mail is not looked at |
| Tenant webhooks (`features/webhooks`) | deliveries, retried in line | a delivery is retried by the request that publishes it and shares a token bucket only |
| Analytics cache (`db/db.py`, `data_version`) | version raised before the commit | concerns reports only; listed as a hazard |
| API rate limiter (`middleware/rate_limiter.py`) | window counters | no other state depends on it |
| Retry helper (`infrastructure/retry.py`) | attempts, an idempotency store | nothing outside the tests calls it |
| Provider invoices (`billing/webhook_receiver.py`) | status of an invoice | the hard part, reordered events, is in `Subscriptions` |

The rest (CFDI parsing and validation, fiscal computations, report generation, CRUD
features, 140 thin integration clients, configuration and logging) has no behaviour over
time: a call maps its arguments to a result, or sets one record.

## Modules

| Module | Models | Uses | Proofs |
|---|---|---|---|
| `CircuitBreaker` | one breaker and its callers | | `CircuitBreakerProofs` |
| `InvoiceLedger` | abstract: what the pipeline promises | | |
| `InvoicePipeline` | `process_file` by several workers | instantiates `InvoiceLedger` | `InvoicePipelineProofs` |
| `InvoiceBatch` | `process_batch` next to other workers | extends `InvoicePipeline` | `InvoicePipelineProofs` |
| `AgentLoop` | `AgentLoop.process` by several workers | | `AgentLoopProofs` |
| `Idempotency` | the middleware and its store | | `EndpointProofs` |
| `Subscriptions` | billing of one tenant, with the provider | | `SubscriptionsProofs` |
| `CloseManagement` | the close of one period, with the ERP | | `EndpointProofs` |
| `CollectionsReminders` | the reminder queue of a tenant | | `CollectionsRemindersProofs` |
| `JobQueue` | abstract: what a queue with several workers promises | | |
| `NotificationQueue` | queue, token bucket and sender | instantiates `JobQueue` | `NotificationQueueProofs` |
| `Lending` | abstract: what a pool of shared resources promises | | |
| `ConnectionPool` | the pool and its threads | instantiates `Lending` | `GracefulShutdownProofs` |
| `GracefulShutdown` | requests, drain and cleanup | extends `ConnectionPool` | `GracefulShutdownProofs` |
| `MC<module>` | the small sets a run uses | extends the module | |

In every module, a worker's program point is `pc[w]`, and an action is the code between
two points where another worker, a failure or a crash can come in: one access to
a shared store, or one critical section. Local computation is folded into the next such
access. Operators marked *(Mutation: ...)* are not part of a specification: each is a
plausible bug in the definition below it, and shows that a property notices it.

### CircuitBreaker

`__enter__` takes its lock twice. `ReadState` is the read of `self.state`, which
itself turns a timed-out OPEN into HALF_OPEN; `Admit` and `Reject` decide on the value
*that was read*, whatever the state is by then. `Return(t, outcome)` is `__exit__` with
a success, a failure or an exception the config excludes, which is recorded neither
way. `HealthCheck` is the registry reading `state`, `ManualTrip` and `ManualReset` the two
operator calls, `Tick` the clock. `failureCount` is saturated at the threshold and
`elapsed` at the timeout: nothing in the code tells larger values apart. `probes` and
`lost` observe who is in flight on a permit and which permits ended unrecorded. `proven` and `strays` count
the successes of the current half-open episode, those of its probes and those of calls admitted before it: `_record_success` makes no
difference between the two, so `ClosesOnVerdict` asks for a full count of both together, and for nothing carried over from an earlier episode.

### InvoiceLedger, InvoicePipeline, InvoiceBatch

`process_file` is cut at every access to something shared: `Submit -> Evaluate -> [LookUp
-> RegisterErp -> LogRegister] -> Persist -> Notify`. A document is a record of what
the tools can find out about it (`valid`, `cancelled`, `doubtful`, `payment`, `large`); the
four tools that only read it are `Evaluate`, and `Decision` is the if/elif chain behind
them. `Fail` is an exception or the death of the process at any point: what was
written stays. `Persist` hands `{"status": "pending"}` to `insert_invoice` as the code does,
and `RowFor` is the status column derived from it; an existing row stays.

`SharedConnector` tells apart a connector object that serves every call, which is what the `erp`
argument of `process_file` is for, from one made afresh by each call, which is what every caller in the
application gets: the CONTPAQi mock remembers folios in the object only, so without a shared
one a resubmission is registered again. With `FALSE`, `polizas` counts the calls answered
"registrada". The batch and the violation runs are checked with `FALSE`, the main run with `TRUE`, and the theorems
with either.

`InvoiceLedger` is the promise, kept in attempts (`at`, `due`) and in a count of policies: an attempt posts once at most and only a CFDI that passed
every gate; where the ERP remembers (`Remembers`, here `SharedConnector`) a CFDI gets a second policy only if two attempts at it overlapped; a CFDI is booked
only after the ERP call has been logged, and by an attempt that is through with the ERP; nothing is taken back. `ImplementsLedger` is the
refinement: a worker inside `process_file` is an attempt, `posts` is `polizas` itself, and `due` are the workers the connector has not answered yet. A second policy is
a step of the ledger of its own, which the ledger has to allow. `BatchImplementsLedger` says the same of a batch with its crashes and reruns and with a
fresh connector for each call, where a file may get one policy per attempt and no more.

`InvoiceBatch` adds `process_batch` as one of the workers. Its checkpoint is rewritten in
place: `OpenCheckpoint` truncates it and `DumpCheckpoint` fills it, an exception of either is
swallowed, and `Crash` can come between them, inside `process_file` or between two
files. `RunAgain` processes the same folder again.

### AgentLoop

A classification is abstracted to what the gates tell apart: `sure`, `unknown`
("desconocido" with confidence), `low`, or `nothing`; the anomaly level to `normal` or `alerta`.
`Classified` is the first pass and the repair pass, `Assessed` the anomaly step and
the decision (`auto`, `register` with a review, or `hold`). An LLM call answers
(`LlmAnswers`) or its timeout fires (`LlmTimesOut`), after which the worker is still
inside `with ThreadPoolExecutor` until the hung call ends (`LateLlmReturns`) and the fallback of
that step is taken. The two rows the LLM steps log are one record in `audit`. A CFDI is one tenant's
copy of a document; `Folio` may map two of them to one folio, and `InExport` is the export file
all CSV connectors share, read when the connector is made. `CreateReview` is
`_escalate`; on the main path it is the last write. The row of a CFDI stays with the attempt that inserted it, while reviews and
polizas may come from any; `RowsAreAccountedFor` relates the three over all attempts. What the row says was decided and done (`RowIsTrue`); and
what needs a human has a review, or a worker that is about to write it (`RowIsFollowedUp`), unless an attempt at that CFDI was `interrupted`.

### Idempotency

`dispatch` is `Arrive`, `Check` (`is_conflict`), `Lookup` (`get`), `Execute`
(`call_next`, with or without an effect: 4xx answers are cached as well) and `Cache` (`set`). A stored
response is identified by the request that produced it, so `AnswersAreOwn` can say whose
answer somebody got. Each store call is atomic, as in Redis; the in-memory store
allows fewer interleavings. `Expire` is the TTL, `Fail` an exception or a 5xx.

### NotificationQueue

`process_once` is cut at its accesses to the heap and the bucket: `Call`, `PopDue` or
`PopNothing`, `Acquire` or `NoToken`, `Post` once for each HTTP request of `send_message`, `PutBack`.
`Rank` is the heap order `(priority, created_at)`; `wait[m]` the ticks left until
`run_at`. `Tick` brings `Rate` tokens and time. `posts`, `granted` and `ticks` observe. `JobQueue` is the promise: a message waits, or one worker
has it, or it is settled; only that worker tries it; it is given up after `MaxTries` tries and not before. A message in a hand is a job *taken*, the
posts of all sends are its tries (`StateOf`, `HoldersOf`), and `ImplementsJobs` is the refinement. The queue ends when everything has settled and
the bucket is full. Left out: the `simulado` backend, which counts as sent, and `max_items` (1000), which only
ends a call early.

### Subscriptions

One tenant. `activate_pilot` is `Ask -> Create -> Save -> Bill`, the cancel endpoint `CancelAsk -> CancelMark ->
CancelSave`; both run in a thread pool without a lock. The webhook runs in the event loop: one event at a time,
`Receive -> HandleMark -> HandleSave`, or `Unknown` and `Ignored`, which answer and change nothing. The provider is
external: `ProviderEvent` changes a subscription there and appends to `log`, and the webhook may be handed any event of
`log` at any time, again or out of order. A local subscription and its copy at the provider have one number. `Restart` empties the
memory. Four observers say when the guarantees end: `exposed` (an event came out of turn), `raced` (cancelled under an
event), `mixed` (an activation overlapped other work or replaced a *past_due* subscription), and `seen`.

### CloseManagement

The endpoints are coroutines that never await, so calls come one after another: `StartClose`, `ApproveStep`, `RejectStep`,
`Finalize(force)`, and `run_automatic_steps`, which is cut into its steps (`RunAutomatic`, `RunStep`, the batch of
policies with `StartPosting`, `PostOne`, `PostFails`, `Posted`, then `Validate`) because it can fail or the process
can die (`Die`) between any two of them while the ERP keeps what it has. `vouched` observes which results a human has seen. `BatchIsPrefix` ties
the ERP to the batch: what a run has posted is what comes before the policy it is at, with nothing after a failed one.

### CollectionsReminders

A request is `Begin` (load the JSON value), work on its own copy, and one save or several: `schedule_batch` saves after each
reminder (`Append`), `process_pending` writes the event of each reminder (`Send`) and saves once at the end
(`Processed`). A key is invoice, stage and channel. A failed read leaves an empty copy that a later save writes back. `exposed` collects
the keys whose mark may be lost: by an overlap, a death between send and save, a failed commit, a failed read or `clear_processed`. Cancellations are observed
apart from that, and an overlap exempts nobody: `cancelled` are the keys cancelled and not pending again since, `outdated[w]` those that were cancelled after
request `w` had loaded its copy. `CancelHolds` allows only such a request to send a cancelled reminder or to bring it back with its save.

### ConnectionPool, GracefulShutdown

`acquire` is `Enter -> Get -> Check | Count -> Wait | Create`, then `Release -> Put`; each is one access to the
queue, the count or the flag. Connections are numbered as they are opened, and `Break` is the other end going away. `CloseFlag` and
`CloseOne` are the pool's `close`, which `GracefulShutdown` runs as its cleanup task. There, a request is `Admit` (looks at
the flag), `Track` (counts itself), `UsePool` any number of times, `Finish`; the shutdown is `Initiate -> Drained -> CleanupFlag -> CleanupOne
-> CleanupEnd`. `Lending` is the promise of the pool with its queue, count, pings and waits left out: a connection is made once, had by one thread at a
time that has no other, ended by that thread alone or, when it lies ready, by the close, and lost only after it; `StatusOf` reads it off the state of a
connection and the queue. `forced` and `slipped` observe the two ways around the drain: its timeout, and a request that is counted after it.

## Runs

Between them the passing runs fire every action; each of their properties is
refuted by a mutant of the code (`mutants` in `PROJECT.json`).

| Run | Question | Answer | States |
|---|---|---|---|
| `CircuitBreakerAll` | Do the two halves of `__enter__`, late results, trips and resets keep the breaker's books? | Yes: permits bound the probes and are accounted for, a breaker that tripped closes by a reset or on a full count of successes of one episode (which may be late ones), and under fairness neither OPEN nor HALF_OPEN lasts unless an excluded exception took a permit | 173,959 |
| `InvoicePipelineWorkers` | Two workers, one connector, every kind of CFDI, a failure anywhere: do gates, notices and policies hold? | Yes; only a failure between ERP and insert leaves a policy without its invoice; `InvoiceLedger` is implemented, policies counted | 217,120 |
| `InvoicePipelinePersistFirst` | Is the database written before the ERP? | No (finding 1) | |
| `InvoiceBatch` | Crash, torn checkpoint, rerun, a competing worker: is the checkpoint true, is any file lost, does the batch end? | True, none lost, it ends, and `InvoiceLedger` is implemented: one policy per attempt at most | 1,184,320 |
| `AgentLoopWorkers` | Two workers, any LLM behaviour, a failure: is anything registered that should not be, is every answer backed by the stores, and is the row true when row, review and poliza come from different attempts? | No / yes / yes; attempts end if hung LLM calls do, or wait for an ERP driver | 733,045 |
| `Idempotency` | Four requests on two keys and two bodies: can a response reach the wrong request, can a held key be executed or change anything? | Neither | 79,888 |
| `Subscriptions` | Two threads, the webhook, two subscriptions, events in any order, restarts: does a cancelled one come back, is the live one the tenant's, do status and invoices follow the events? | No / yes / yes, outside of the cases the observers name | 6,889,236 |
| `CloseManagement` | Two runs with failures at every step, approvals and rejections in any order, restarts: is anything approved that no human saw, any policy posted twice by a run, after a failed one, or reported without being there? | No | 422,279 |
| `CloseManagementApproved` | Is every step of a period closed without force approved? | No (finding 2) | |
| `CollectionsReminders` | Two overlapping requests on two reminders, deaths and failed reads: is a reminder sent twice or after its cancellation, does the queue tell what was sent? | Twice only if the key was exposed; after its cancellation only by a request that loaded before it; yes | 4,774,701 |
| `NotificationQueue` | Two workers, three messages, missing tokens, failing posts: is one lost, doubled, posted too often, stuck? | None, and `JobQueue` is implemented | 508,480 |
| `GracefulShutdown` | Three requests on a pool that is drained and closed: is a connection shared, closed in use or left behind, are there too many, does the shutdown end? | No connection is shared or closed in use; an orderly stop leaves none; there are never more than threads; it ends; and `Lending` is implemented | 1,214,298 |

`CHECK_DEADLOCK FALSE` stands where the inputs of a model are bounded and end
(submissions, requests, crashes), or where the system stops (the shutdown). The others are checked for deadlock:
a breaker always has a caller, a queue a worker that can call, a close can be started, a reminder request can begin, the billing process can restart.

## Bounds

- *Circuit breaker*: three callers, so that two hold the permits and a third is between its
  two critical sections; both thresholds, the permits and the timeout are 2, the least value at which
  "one more" and "the last one" differ; one manual call (`MaxManual`) at any moment.
- *Pipeline*: two workers and two CFDIs of six kinds (clean, and one for each gate);
  four submissions (`MaxSubmissions`), so that a CFDI can fail, be retried, overlap and come back. Failures
  are unbounded.
- *Batch*: two CFDIs, so that the checkpoint can name one and not the other; one crash, one rerun, one
  submission by the competing worker. More crashes return to states that were already reached with a
  checkpoint of the same contents.
- *Agent loop*: one CFDI, two workers, three submissions and one failure: a first attempt that fails, its
  retry, and an overlap. CFDIs share only the export by folio; different folios do not meet, so the
  second CFDI adds nothing these properties see.
- *Idempotency*: four requests on two keys and two bodies, one expiry, one failure: a slow request whose
  key expires, is taken over by another body, and whose retry comes meanwhile.
- *Subscriptions*: two threads next to the webhook; two subscriptions (`MaxSubs`), the least with a current and a
  replaced one; two events of each (`MaxEvents`), the least that can be swapped and the least with a recovery;
  `MaxBilled` 2 stops repeated events from adding invoices without end. Restarts are unbounded.
- *Close management*: four of the seventeen steps: a calculation, a calculation that is approved, the posting, and one that is approved
  after it (`LastStep` 4, `NeedsApproval` {2, 4}, `Calcs` {1, 2}, `PostStep` 3); two policies, so that the second can fail after
  the first; two runs. Restarts, approvals and rejections are unbounded.
- *Collections*: two requests at a time and two reminders: a save of one overwrites marks of the other. Nothing else is bounded;
  `events` is saturated at 2, which stands for "more than once".
- *Notification queue*: three messages, the least with one at the head, one behind it, and one a worker has;
  two posts per send and one retry; a bucket of two, which three messages empty; delays of 0 and 2
  ticks with a backoff of 2 (`Backoff * 2^1`).
- *Shutdown and pool*: three threads on a pool that starts with one connection and may have two (`MinSize` 1, `MaxAllowed` 2), so that
  two of them can open past the limit; four connections are opened in a run (`MaxConns`), enough for one to be replaced.

The symmetry of workers and keys is used where no liveness is checked. The proofs hold for every value of these constants.

## Fairness

- *Circuit breaker* (`FairSpec`): time passes; every caller that entered goes on and returns
  (the protected clients have timeouts), and the service keeps being called. `EpisodeEnds`
  makes an exception for episodes that lost a permit: that is the wedge.
- *Batch* (`FairBatchSpec`): the batch's own loop runs on and is started again after a crash. No
  fairness for the competing worker, nor for failures.
- *Agent loop* (`FairSpec`): the loop's own steps and its timeouts happen; an LLM answer in time
  need not, but a call that hangs past its timeout ends some day, which the HTTP client's own
  timeout gives. Without the last part `AttemptEnds` does not hold, see the divergences. Nothing is assumed of an ERP
  driver, which is called without a timeout: a worker may wait for it for ever (`AwaitsDriver`). The CSV export is a local file and answers.
- *Notification queue* (`FairSpec`): time passes and each worker keeps calling `process_once`. This is
  an assumption about code that is **not in the repository**: nothing in the application
  calls `process_once` or `run`.

- *Shutdown* (`FairSpec`): the thread that shuts down goes on. Requests need not: they may hang with a connection in
  hand, and the drain ends by its timeout.

Every condition is weak fairness: no step relies on being enabled only now and then.

## Proofs

Forty-eight theorems in eight modules, all for any number of workers, documents, messages, connections and so on, under the
named assumptions of the modules (`ConfigAssumption`, `ThreadsFinite`, `PipelineAssumption`, `BatchAssumption`, `AgentAssumption`,
`IdempotencyAssumption`, `CloseAssumption`, `SubscriptionAssumption`, `QueueAssumption`, `PoolAssumption`), which say that bounds are naturals,
sentinels are no members of their sets, and kinds are records of booleans. Three go further:
`SuccessThreshold <= HalfOpenMaxCalls`, true of every entry of `SERVICE_CONFIGS` (otherwise no episode could close);
`Rank` is injective (two messages of one rank would make `heapq` compare `Message` objects and raise); and the set of threads of
a breaker or a pool is finite.

Each proof module states an inductive invariant, one lemma per action or group of actions, and a temporal
step by PTL. Every safety property a passing run checks is a theorem here, and so is each of the four refinements.

- `CircuitBreakerProofs`. That a breaker is closed only below its threshold, and that permits
  bound probes, is not inductive: a permit is taken on a state read earlier. `IInv` adds
  `EpisodeUndecided` (fewer successes than the threshold while half open) and
  `ProbesInFlight` (whoever holds a permit is inside the call). The accounting of permits (`NoLostPermit`) is a
  second induction on top of it, and `HalfOpenTests` follows from both. `VerdictsCloseIt` is an action property on a count that is inductive
  by itself (`EpisodeCounted`): in a half-open episode `successCount` is what the observers counted since it began.
- `InvoicePipelineProofs`. A policy or a notice outlives the worker that made it, so its reason has to be
  carried along: `WorkerKnows` says what is true at each program point, `LedgerFacts`
  what the stores show afterwards. From them follow the gates, the notices, and, action by action and together with `Alone`, the
  refinement of `InvoiceLedger` (`PipelineImplementsLedger`): `DueMoves` says which attempts a step leaves free to post. `OnlyFailureOrphans` is an action property: what holds of the order
  that finding 1 is about, whoever else works on the CFDI. `OnePolizaUnlessContended` has an invariant of its
  own (`Alone`): a worker that is alone with a CFDI knows what the connector knows, which is also what allows it to post in the ledger. For the batch, `BatchIInv` is the
  pipeline's `IInv` and `Alone`, whose steps the batch reuses by lemma, with `FilesAccountedFor`: while the loop runs, each
  file it has left behind is in the database, among the errors, or in the worker's hands. A crash may tear the checkpoint
  but never adds to it, so `CheckpointSound` is kept by itself.
- `AgentLoopProofs`. The same two parts, with the decision of a worker tied to what it logged. `DecisionCases`
  lists what a decision says about verdict, level and policy. `Alone` gives one policy per CFDI in the export. `RowsAreAccountedFor` is
  not inductive without `ErpKnows`, what a worker will write into the row: nothing if it holds the CFDI, else what the ERP told it. Its proof goes by
  rely and guarantee: each step of one worker leaves the others' knowledge alone and only adds polizas, decisions and reviews (`Others`), so what was true
  of a row stays true (`RowStaysTrue`), and what was due stays due until it is written (`StaysFollowedUp`); only `Insert` and `RegisterErp` need
  a look at the row itself.
- `EndpointProofs`, on the two modules of the API's write endpoints. For `Idempotency`, `EntriesAreOwn` (an entry's key and body are those of the request that wrote it) and `CoveredAreHeld`
  (where a request that met an entry can be, and that it changed nothing) make the two answers inductive. For `CloseManagement`, `CloseInv` follows a run through its
  batch: each step has one policy at most (`OnePerStep`), the ERP has of this run only what lies before `posting` and nothing of later runs (`ErpSoFar`), and what lies before it
  was posted or had nothing to post (`BatchBehind`). From these come what the run reports, that nothing is posted past a failure, and that an approval is
  for the result a human saw.
- `SubscriptionsProofs`. `Made` says that a number is saved once and by whoever made it, `Handling` what the webhook may
  be at; they give `CancelIsFinal`. `Orderly` (an activation that nothing was mixed with is alone and finds no live
  subscription) gives `TenantHasTheLiveOne`. `ProviderIsFollowed` needs the books: `Recorded` ties what was seen to the provider's log, and
  `Followed` says that invoices made, plus the one an event is about to make, are the activation's and those of the
  recoveries; one more event seen adds one recovery or none (`OneMoreSeen`).
- `CollectionsRemindersProofs`. `MarksAreBacked` (a mark is never ahead of its event) holds of every key; `Orderly(k)` of the keys nothing has
  exposed: one not sent in the store is in one copy at most, which has it pending only if the store has. `CancelsAreKnown` is an induction of its own, for
  overlapping requests too: a copy that still has a cancelled reminder pending was loaded before (`CancelledStaysCancelled`).
- `NotificationQueueProofs`. `OnePlace` is inductive with what a worker's hand says about its program point (`HandFacts`). The
  number of posts needs `Counts`: a message in the heap had `MaxAttempts` posts per retry, one in a
  hand those and the attempts of the current send. `BucketHolds` is an induction of its own. The refinement of `JobQueue` goes action by action: a step
  that moves one message changes that job only (`OneJobMoves`).
- `GracefulShutdownProofs`. `PoolInv` ties what a thread holds to its step and each live connection to the queue or to one thread;
  `Shutdown` says that the counter is the number of tracked threads, by cardinality, and that only tracked ones are in the pool; `Orderly`
  is what a drain that was neither forced nor slipped past has behind it. `PlacesBounded` gives the bound: a thread claims a
  place as it takes a connection or finds the queue empty, and the queue and the claims are never more than threads (or `MinSize`). The refinement of `Lending` uses `PoolInv`: whoever holds a
  connection *has* it in the abstract sense, and a step touches one connection (`OneMoves`), or two when one is recycled (`Recycles`).

Model-checked only: the liveness properties (`EpisodeEnds`, `OpenEnds`, `BatchEnds`, `AttemptEnds`, `Settles`, `ShutdownEnds`), which need
ENABLED and are out of the prover's reach.

## Findings

The two runs that end in a violation each check a statement the repository makes about itself.

1. *The ERP is written before the database* (`pipeline.py:141`), against the comment at 151-152: a failure in between
   leaves a policy without its invoice.
2. *A period is closed with steps a human rejected or has not approved* (`close_manager.py:272`): `finalize` only looks
   for steps that are pending or in progress, against its docstring at 262-263. `routes.py:150-152` says the same
   of the approvals. Likewise the validations of a period count as passed when they never ran (`models.py:217`).

## Known divergences

Met while modelling and reproduced in the models, or read in code next to them, but not kept as runs. By component:

Circuit breaker

- `circuit_breaker.py:233`: a caller that read CLOSED passes after another one has opened the breaker ("requests fail
  immediately", line 7).
- `circuit_breaker.py:214`: permits are never given back, and an excluded exception (`ValueError`, `TypeError`, `KeyError` by
  default) is recorded neither way: after `half_open_max_calls` of them the breaker rejects until somebody resets it. `EpisodeEnds` and `NoLostPermit`
  name the exception (`lost`).
- `circuit_breaker.py:204-208`: a success of a call admitted before the trip counts in the half-open episode it ends in, so `success_threshold` late
  ones close the breaker with no probe at all ("testing recovery, limited requests allowed through", line 9). `ClosesOnVerdict` counts them as `strays`.
- `infrastructure/retry.py` announces a "Circuit breaker integration" it does not have; nothing outside the tests calls it.

Invoice pipeline and agent loop

- `pipeline.py:155`: a CFDI that waits for its approval is handed over as *pending* and stored as *procesado*
  (`db.py:291`).
- `pipeline.py:157-161`: "Update DB with actual ERP result" is a `pass`; `erp_status` stays *pending*.
- `erp/contpaqi.py:36`: the idempotence it announces lasts as long as the connector object; every caller in the application makes one per call, so a CFDI
  submitted again is registered again. The ledger without memory, one policy per attempt, is what holds.
- `agent/loop.py:247` holds an answer below the confidence threshold under either policy; the decision tree in the docstring (lines 16-19) has *auto_register* register
  it with a review. What *auto_register* does register with a review is an answer above the threshold that is *desconocido* or has an alert, which `PolizaIsJustified` allows.
- `agent/loop.py:307-316`: `register_erp` is called without a timeout (`TIMEOUT_ERP` is imported and not used), so a driver that hangs keeps the worker,
  against "Prevents worker starvation when SAT, LLM, or ERP services hang" (`services/timeouts.py:5`).
- `agent/loop.py:299`: the review is written last, so a failure before it leaves a held invoice without the row
  in `reviews` that line 22 promises.
- `db/db.py:323`: `insert_invoice` leaves an existing row alone ("Inserta o actualiza", line 264), so a CFDI held once and
  processed later keeps its first status. `RowsAreAccountedFor` is what holds: such a row has its review.
- `agent/loop.py:266`: `ok: False` of an ERP driver is not looked at, and the notice says "registrada en el ERP"
  (`notifications/templates/__init__.py:17`).
- `erp/csv_erp.py:27`: all tenants share one export file, so a folio of another tenant counts as already registered.
- `erp/csv_erp.py:52`: two connectors that read the export before either appends register one folio twice; this is what
  `contended` exempts in `OnePolizaPerCFDI` (and, for a shared CONTPAQi mock, in `AtMostOnePoliza`).
- `services/timeouts.py:36`: a timeout does not free the worker; leaving the executor's `with` block waits for the hung thread
  ("Prevents worker starvation", line 5).
- `db/db.py:1675`: `dequeue_job` selects a job and updates it without a condition, so two callers get one job; it has no caller.

Idempotency keys

- `api/idempotency.py:256`: the key is written after the handler, so two equal requests in flight both mutate.
- Keys are qualified neither by caller nor by path, and refusals (4xx) are replayed for the whole TTL.

Billing of subscriptions

- `service.py:127` promises that a tenant with an active subscription is refused another; two callbacks that both look before either
  saves make two, and the provider charges both.
- `models.py:258`: `save_subscription` makes whatever it saves the tenant's current one, so an event of a replaced
  subscription hides the live one (`mixed`).
- The cancel endpoint never tells the provider, which goes on charging; a *failed* answer of the create call
  (`service.py:164`) that came after the provider had made the subscription leaves one there that charges and that nobody here knows.
- An event that arrives before the callback has saved its subscription is answered and forgotten (`exposed`).
- A repeated *failed*, *paid* pair adds an invoice each time, a regular renewal none; the identifier of charge and order events
  never matches a subscription.

Close management

- `erp_writer.py:103`, "Posts all or none (atomic)": the reference of a posted policy is returned as `erp_reference` and looked for as
  `reference`, so there is nothing to take back, and `_rollback` only logs. A batch that fails keeps what it posted.
- Steps can be run, approved and rejected after the period was closed, and a second run posts its policies again.

Collections

- `scheduler.py:188`, "Evitar duplicados": overlapping requests send a reminder twice; the module's `_LOCK` is never taken. `OneReminder` exempts these keys
  (`exposed`).
- `scheduler.py:129`: a request that loaded the queue before a cancellation was saved sends the reminder all the same, or brings it back with its own save;
  `cancel_reminder` has answered that it is cancelled. These requests, and no others, are what `CancelHolds` names (`outdated`).
- A paid invoice still gets its pending reminders, against the docstring at 5-7.

Notification queue

- `notifications/scheduler.py:156`: the heap is not ordered by `run_at`, so a deferred message at its head hides every due one behind it.
- Two messages of equal priority and time make `heapq` compare `Message` objects, which raises (line 118).
- `notifications/api.py:115`: what the API enqueues is never processed by the application, the queue is
  lost with the process, and the row in the database stays *queued*. A blocking `RateLimiter.acquire` grants a token
  it does not take (`scheduler.py:64`); the retries inside `send_message` take none, so `RateRespected` is
  about sends and not about HTTP requests.

Pool and shutdown

- `db_pool.py:364`: several threads that read the count before either creates open more connections than `max_size + max_overflow`; `PoolIsBounded`
  is what holds instead of line 43 ("Maximum connections"). The count never goes down, so a pool whose connections were replaced often enough only waits.
- A connection handed out after a wait is not pinged; a connection released into a pool that was closed meanwhile is given up unclosed.
- `db_pool.py:154`: `PoolMetrics.snapshot` holds a lock that is not reentrant while it reads properties that take it, and never
  returns (`tests/test_infrastructure.py:988-997` calls it).
- `db/pool.py:72,83` counts a new connection twice; nothing uses that pool.
- The signal handler runs in the main thread, so requests served by that thread cannot finish during the drain it waits in; the application
  installs a handler of its own that only sets the flag (`api/app.py:400-409`).

Payables (not modelled)

- `ap_manager.py:139`: `schedule_payments` offers SCHEDULED invoices again and `execute_payment` has no guard, so overlapping
  or repeated `/ap/pay` requests pay an invoice twice, and so does a request after a transfer whose answer was lost.

## Not modelled

`PROJECT.json` gives the reason for each component. Inside the modelled ones:

- registries and metrics of the breaker, metrics of the pool, the second pool in `db/pool.py`;
- the human actions of `ApprovalManager`, which the pipeline never reads again; `main()` of the agent loop;
- the real CONTPAQi, Aspel and QuickBooks connectors, which translate to a remote API and are represented by what a connector may answer;
- `start_trial`, `convert_trial_to_paid` and `skip`, which have no caller; checkouts and payment methods, which touch no subscription;
- the calculations of the close, of which only the policy they may make is kept, and its scheduler, which starts a close and runs the steps;
- the portfolio and the payment webhook of collections, which write rows the reminder queue never reads, and `send-reminder`;
- simulated transports; the calendar arithmetic of `EmailScheduler`, whose queue is otherwise the same code as the modelled one.

Two simplifications are coarser than the code. A step of the close makes one policy at most, where the provisions for labour
(`close_manager.py:401-420`) can make three: the step names the policy in `erp`, and the batch only sees the order of its policies, which is that of the steps
that made them. And `_total_created += 1` (`db_pool.py:295`), an unlocked read, addition and write, is one step, so the count never misses
an increment; one that is too low only lets more threads through `Count`, which `PoolIsBounded` bounds without the count.

Strings, amounts and dates are abstracted to the conditions the code tests. The modules cover a small part of the repository's lines: most of them
are the pure functions, forms, clients and reports listed in the inventory, about which a state machine has nothing to say.

## Plan

What the project was built for is in place. An extension would take, in this order:

1. the SAT ledger and the analytics cache, as two more modules in the style of `CollectionsReminders`;
2. the inbound e-mail as a module on top of `AgentLoop`, in the way `InvoiceBatch` is on top of `InvoicePipeline`;
3. payables, once the code has a guard against paying twice that can be checked;
4. abstract specifications of the idempotency store (a map with expiry) and of the reminder queue (a set of keys, each sent once),
   implemented by the detailed ones where nothing was exposed.

## How to run

    tlc -workers 2 -config CircuitBreakerAll.cfg MCCircuitBreaker.tla
    tlapm CircuitBreakerProofs.tla

A run is `<run>.cfg` with the module `PROJECT.json` names for it; each finishes within two and a half minutes
on two workers. Proof modules are checked with TLAPS 1.4.5 (Z3, Zenon, LS4) and each takes one to three minutes from nothing.
