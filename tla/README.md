# FaultWeave in TLA+

FaultWeave is a small banking system of FastAPI services into which faults are
injected under a lease, with a gateway that drives demonstrations of a fault, its
analysis and its recovery, a live incident detector, and a long line of programs
that collect evidence about faults for machine learning. This directory models the
parts that are hard to test, checks them with TLC and proves the most important
results with TLAPS.

- [The system](#the-system): its parts, their state, and what makes them correct
- [The modules](#the-modules): which module models what, and how
- [The runs](#the-runs): what TLC checks, on which instances
- [Fairness](#fairness)
- [The proofs](#the-proofs)
- [Where the code and its documents differ](#where-the-code-and-its-documents-differ)
- [What is not modelled](#what-is-not-modelled) and [the plan](#the-plan)

`tlc -config <run>.cfg <module>` repeats a run, `tlapm <module>_proofs.tla` a
proof. `PROJECT.json` maps every definition to the lines it stands for, lists the
hazards of the code with the properties that would catch them, and gives for
every property a mutation of the model that violates it.

## The system

### Durable transfer workflow (`services/{transaction,payment,account,ledger}`)

A customer posts a transfer with an idempotency key. The transaction service
saves a workflow row and calls the payment service; the payment service saves one
of its own, calls the account service, which moves the money, and then the ledger
service, which reads the movement back from the account service and posts it.

| state | where | changed by |
| --- | --- | --- |
| workflow row of the transaction service: state, saved payment evidence, events, failure, review and recovery history | PostgreSQL | `start`, `resume` |
| workflow row of the payment service: the same, with `funds_status` and the ledger posting | PostgreSQL | `payment_operation` |
| account balances, `Transfer` rows and their two journal entries | PostgreSQL | `commit_transfer` |
| `TransferPosting` rows | PostgreSQL | `ledger_operation` |
| try-only advisory locks per (service, user, key) | one connection each | `operation_lock` |

Every `record_event` and every `append_evidence` is a commit of its own. A call
of another service ends with an answer, a refusal or a timeout; after a timeout
the callee works on. A failed transfer pauses in `REQUIRES_REVIEW` and only an
engineer's review resumes it.

*Hard:* a movement that commits while its answer is lost; a request that arrives
after its attempt was given up; a handler that dies between two commits; two
attempts at a time; four locks held by handlers that wait for each other.
*Correct if* money moves at most once and all at once, balances equal the
journal, every recorded status is true of the service that did the work, nothing
confirmed is ever taken back, no lock is kept, and a received transfer can be
brought to completion.

### Assistant (`services/gateway/app/incident_assistant.py`, `transfer_api.py`)

A request to explain a transfer inspects it twice, has the frozen model judge the
current telemetry, and answers from a cache, with a checked answer of a language
model, or by rules. State: the cache. *Hard:* an inspection reads the row of one
service, awaits another and answers of both; several requests share the cache.
*Correct if* the evidence does not contradict itself, an answer was made from what
its own request read, and it calls completed only what is.

### Fault lease (`experiments/faults`, `experiments/sealed_unknowns`, `datasets`, `demo_orchestration.py`)

One file, `active_fault.json`, says which fault is active; the services read it in
a middleware. Four kinds of programs create and remove it: known-fault runs under
`FaultLease`, known-fault runs that release on their own (`final_executor`),
sealed-unknown runs under `SealedUnknownLease`, and the gateway's demo sessions
(`DemoFaultControl`). A fault may also stop a Compose service.

*Hard:* the file is created empty and filled later; release compares and then
unlinks by name; expired leases are reclaimed by whoever finds them; programs are
killed; `docker compose` fails during cleanup. *Correct if* one fault is active
at a time, a run that ends leaves no file behind, a killed run's file does not
block the others for ever, and the recovery of one run leaves another's fault
alone.

### Fault-held database resources (`shared/faultweave_common/fault_injection.py`)

Pool-exhaustion and lock-contention faults reserve connections or a table lock in
the first request that meets them; a background task polls the file and gives them
back. *Correct if* they are given back whether the lease expires, is cleared or
is replaced, and also when the request met the fault in its last moment.

### Demo sessions (`services/gateway/app/demo_api.py`, `demo_orchestration.py`, `demo_workload.py`)

A session is a JSON file that a dozen handlers read and update: arm a fault,
execute a transfer, or run a blind challenge (baseline, challenge, recovery
phases under generated traffic), then analyze, reveal, approve and recover.

*Hard:* handlers check the state of a session, await other services for seconds,
and then update it unconditionally; requests for one session overlap; the lease
expires or is another session's meanwhile; any step of a blind run may fail; the
gateway restarts. *Correct if* a session executes one transfer, its states are
true of that transfer, its fault is over when its run or its review is, a
recovery never runs under the session's own fault, and a blind challenge is not
analyzed or revealed while it runs.

### Live intelligence (`services/gateway/app/intelligence_{live,incidents,stream,localization}.py`)

| part | state | operations |
| --- | --- | --- |
| `LiveTelemetryBuffer` | events and requests, fingerprints, watermark | `ingest`, windows, `snapshot` |
| `LiveIncidentManager` | watermark and bucket last judged, active incident, history | `evaluate`, which opens, refreshes, localizes and resolves |
| `LiveIntelligenceStream` | subscriber queues, latest message | `publish`, `subscribe` |
| `rank_live_origins` | none | ranks services, dependencies and the database as origins of an incident |

*Hard:* late, repeated and missing telemetry; state set before an inference that
may raise; buckets never evaluated; a queue that drops its oldest message; failures
that look the same at every caller they pass. *Correct if* a window counts every
item once, what is called ready was observed, an incident is resolved by
consecutive healthy judgements, a subscriber ends up with the incident of now, and
the origin leads, not what passes its failure on.

### Simulated research transaction and its runner (`transaction/app/main.py`, `orchestrator.py`, `experiments/runner.py`)

The older path: log in, look the account up, validate, pay, post. One row in each
of three services, no locks, no retries; each caller waits at most its timeout. The
runner sends planned requests through a semaphore and writes a manifest for a run
whose requests all did what was expected. *Hard:* a timeout that fails a payment
which completes; a run started again under the same identifiers. *Correct if* an
answer is true, evidence never outruns itself, an identifier is paid once, and a
manifest vouches for its run.

### Collecting evidence (`scripts/phase19c*`, `scripts/faultweave_v2_*`, `datasets/final_executor.py`)

Some twenty programs, started by operators over weeks, that share the stacks, the
lease file, numbered slots and a reservation:

| program | keeps | does |
| --- | --- | --- |
| `final_executor` | files and manifest per run of a plan | collects missing runs anew, resumes over the rest |
| collection controller | lock directory and journal of an attempt | runs one pilot as a child, audits it, names it in the journal |
| pilots and captures | a directory of their own, the lease, PostgreSQL stopped or started | traffic under a fault, recovery, gates on an exact window, files |
| auditors | receipts | repeat gates and recompute the window from the files |
| assembly, candidate 04, blind evaluation | data set, model, prediction receipt, score | once each, create-only |
| live observer, feeder, bridge, watchers | a store, lock files, the gateway's buffer, prediction receipts | post what clients saw and services logged, poll for predictions |
| plan scripts (`phase19c2e`, `2f`, `2g`, `2i`) | a plan of 240 runs | draft it, audit what a pilot reached, correct targets, verify |

*Hard:* any of them dies between any two steps; two look at a slot and then both
take it; the lease expires during an observation; a log line comes late; what is
forgotten is read again. *Correct if* one pilot runs at a time, nothing is left
behind, half-done work blocks the next instead of passing for whole, what is
admitted shows its own fault, an auditor agrees with the program, and telemetry is
posted, and a window judged, once.

### How the parts interact

The gateway's demo handlers call the transaction service over HTTP, with the
customer's token, and the control file over the file system. The middleware of
every service reads the control file per request: an injected fault shows in a
transfer as a lost, late or refused call, which is how TransferWorkflow sees it.
Telemetry is posted to the gateway in batches; the live buffer holds it, the
incident manager evaluates windows of it, ranks origins and the stream publishes
the results. Programs that collect evidence use the lease, send requests on the
research path, read the services' logs, and write files that later programs read.

## The modules

| module | models | composed in |
| --- | --- | --- |
| `TransferData` | instructions, accounts, amounts | the next two |
| `AtomicTransfer` | what a transfer promises, without services or failures | refined by `TransferWorkflow` |
| `TransferWorkflow` | the four services, their messages, locks and deaths | `CaseAssistant` |
| `CaseAssistant` | explaining a transfer while it runs | |
| `OneFault` | what the control file promises, without it | refined by `FaultLease` |
| `FaultLease` | the control file, its four kinds of clients, stopped services | `FaultResources` |
| `FaultResources` | the resources a service holds under a lease | |
| `DemoSession` | the demo handlers, concurrent requests, expiry, restarts | `BlindChallenge` |
| `BlindEvidence` | the evidence of a blind run: traffic, bridge, window, acceptance | `BlindChallenge` |
| `BlindChallenge` | sessions in one respect or the other | |
| `LiveTelemetry` | the rolling buffer and its windows | `LiveIncident` |
| `LiveIncident` | the incident manager | `LiveIntelligence` |
| `IntelligenceStream` | subscribers and their queues | `LiveIntelligence` |
| `LiveIntelligence` | the endpoints over the three | |
| `ResearchTransaction` | the research path | `ExperimentRun` |
| `ExperimentRun` | the runner over it | `RunLocalization` |
| `OriginRanking` | from the events of requests to a ranking of origins | `RunLocalization` |
| `PilotRun` | what every diagnostic pilot is | `CollectionController`; refined by `CaptureRun` |
| `CollectionController` | controllers with their children | `EvidenceCollection` |
| `DatasetExecutor` | the executor of the final data set | `EvidenceCollection` |
| `CaptureRun` | the programs of pilots and captures, up to a score | `EvidencePipeline` |
| `LiveObserver` | observer, watchers, feeder and bridge at one buffer | `EvidencePipeline` |
| `DiagnosticEvidence` | what a program sees in time, its gates, files and auditor | `EvidencePipeline` |
| `TargetMatrix` | the plan of the second data set and its correction | `EvidencePipeline` |
| `EvidenceCollection`, `EvidencePipeline` | the campaigns, one a behaviour | |

The `MC*` modules only give constants their values. `*_proofs` are the proofs, and
`SumTheorems` the facts about sums that two of them need.

### TransferWorkflow

A key is one (user, idempotency key) with one payload. `txn[k]` and `pay[k]` are
the workflow rows, `txnOp[k]`, `payOp[k]`, `accOp[k]`, `ledOp[k]` the handlers
that hold the locks: a lock is taken exactly while its handler is not idle, so no
variable of its own is needed. **A step is what a handler does up to one commit,
one call or one answer.** `requests` and `replies` are messages on their way. A
message names the attempt of the transaction service it works for, which is what
the code numbers events with; since an attempt makes each call at most once, this
identifies a call.

- A call ends by `...Answers` or by `...CallFails`. Failing is free once nobody is
  left who could answer (`~Pending`): the service was unreachable, busy (409),
  died or refused. While an answer may still come it is the caller's timeout that
  was faster, and costs one of `MaxFaults`. The callee then works on, and its
  answer goes nowhere (`Awaited`).
- 409, 5xx and unreadable answers are all "no answer": the code treats them alike.
  A definite refusal by the account service (4xx) is `rejected`.
- `AccountRefuses` is the 401 for a customer's token that expired on the way. Only
  the first attempt carries it: a review carries the engineer's.
- Of the reasons in `transfer_rejection` the model keeps the one that depends on
  the state, an overdraft. The others (unknown or inactive accounts, limits) are
  the same for every attempt.
- The append to `review_history` is merged into the review's own commit: nothing
  reads the one without the other.
- A handler dies (`...Dies`) between any two commits; the row stays and the lock
  goes with the connection. A lock lost while its handler lives on is not modelled.
- `MaxReviews` bounds the reviews of a transfer, `MaxFaults` the lost requests,
  deaths, refused tokens and early timeouts. Both are constants of the module, and
  the theorems hold for all their values.
- The system may stop: a paused transfer waits for a person. Hence
  `CHECK_DEADLOCK FALSE`.

`AtomicTransfer` has a stage per instruction: pending, moved, posted, paid,
completed. The mapping (`Stage`) reads it off the most advanced service: the
transaction row if completed, else the payment row, the ledger, the journal.

### CaseAssistant

Extends TransferWorkflow, whose every step may fall between two of an explanation.
A request reads the row (`Ask`), is answered by the payment service as that is by
then (`InspectPayment`, with the second inspection and the model's assessment as a
choice), and then recalls an answer, or consults the provider and the rules. Of the
evidence the model keeps the state, the funds status and the assessment, which tell
cache entries apart. An answer is who gave it, from which evidence, and what it
says of the recovery: a generated one (`Generated`) has passed checks of words
only, so nothing is said of its content; the rules (`ByRules`) call whatever does
not wait for a review completed, and nothing else of their words is kept. Which
entry leaves a full cache is left open.

### FaultLease and FaultResources

An activation is a number, `file` the one that created the control file, `content`
the one the file tells of (0 while it is empty). **Every file-system call is a
step**, so that between `os.open` and `os.write`, between the comparison and the
`unlink` of `release`, and between `exists` and `os.replace`, any other program
may act. A client is one program after another, started by the same operator.

- `Gated`, `Plain`, `Sealed` and `Demo` are the four kinds; a module constant may
  be empty. They differ in what they do on `FileExistsError`, in the order of
  verification and release, and in what a failing step skips.
- The demo's calls are synchronous in one event loop, so the gateway runs one at a
  time (`GatewayFree`); other programs still use the file meanwhile.
- `Activate` may stop a service (an unavailability fault) or none. It may raise
  after it did. `DeactivateFails` is `docker compose` failing: `FaultLease` skips
  the verification and releases, a plain run releases nothing.
- A sealed run releases, verifies and releases again in its `finally`; by then its
  own file is gone, so the second release returns, or raises if another run
  acquired meanwhile. Either way the program is over. Its check, like that of a
  plain run, may come while another run has a fault in force (`lease_verify`).
- `Die` is a kill at any step; the operator starts that program no more.
- `MaxActivations` bounds the files created. Expiry is followed for an activation
  as long as some variable can still tell of it.

`FaultResources` adds one service: requests that met the fault and wait for the
startup lock (`met`), and the activation whose resources are held (`held`). Every
step of `FaultLease` is a step of it that leaves these alone.

### DemoSession

The gateway is one event loop and `DemoSessionStore.mutate` awaits only an
uncontended lock, so **a step is what a handler does between two awaits of another
service or workload phase**. `at[h]` says what handler `h` awaits, `on[h]` for
which session. `control` is the session whose fault is active.

- The control file is one variable here, and other programs are left out: their
  interference with it is the subject of `FaultLease`. Expiry stays.
- Sessions have destination accounts of their own (the code derives them from the
  session id), so what `transfer[s]` became is all the model keeps of the services:
  nothing, posted, paused, stopped with other evidence than the scenario expects,
  or completed. A posted transfer runs whether or not its handler still waits.
- Commitments, nonces, recorded balances and the evidence are abstracted to
  whether their check passes. A check that fails is a step that ends the handler.
- `ExecutionFails` is the `except Exception` around setup and transfer. It may
  leave the account created. `clear` may raise there, too.
- `Restart` drops every handler and keeps every file.
- `ChallengeOnly` is the policy: `challenge_seconds >= 70`. With the older policy
  analysis during the challenge is allowed by the code, so that
  `SealedDuringChallenge` speaks of the newer one.
- No liveness is stated: nothing in the code ends a session whose request stopped.

### BlindEvidence and BlindChallenge

One blind run in ticks, from `run` to the acceptance of `verify_phase19b.py`.
`step` is what the run is at: the three phases of its traffic, the preflight before
the fault is armed, the transfer, the choice of the window, and what follows.

- A request is sent a tick; one that met the fault may be answered up to `Slow`
  ticks later, which is why `gather` matters to the end of a phase. A request is
  observed when it is answered and counted when it was sent.
- `lines` is what services have logged, `posted` what the bridge has handed over of
  it: all up to some moment, or all but one line. It may stop for good. A step that
  waits for telemetry waits `Patience` ticks.
- Others send requests (which fail for their own reasons) and arm leases; a fault
  may miss a request. `MaxOthers` bounds all of this together.
- The scenario is healthy, a fault on the path of the workload, or one beside it,
  which shows in the visible transfer only. The model may be right or wrong.
- The older policy (`rolling`) judges the latest window at the time of analysis;
  the properties are about the newer one.

`BlindChallenge` puts this beside `DemoSession`; a behaviour is of one of them.
They share no state: what the requests of a session do to each other needs no time,
and one run under way needs no second request.

### LiveTelemetry, LiveIncident, IntelligenceStream, LiveIntelligence

Time is in ticks. An item stands for one fingerprint and has a timestamp; a batch is
any of `Batches`, in any order and any number of times. Every call of the buffer and
the manager runs in the gateway's event loop without awaiting, so each is one step,
and so is a publication.

- `held[i]` counts copies, so that a fingerprint accepted twice would show.
- A window whose features are not finite raises (`Infinite`), and so may inference
  and localization: `EvaluationRaises` sets what the code has set by then.
- The verdicts of the two models are any of theirs; `judged` remembers the last
  judgements for `ResolvedIsConfirmed`.
- A subscriber's `view` is what it has read last. It may leave at any time and
  join between any two publications; a full stream refuses it.
- Severity, impact and the text of messages are left out.

### ResearchTransaction and ExperimentRun

`phase[r][s]` is the handler of service `s` for request `r`, `reply[r][s]` what its
caller got; together they say where a handler is. A caller may give up early, a call
be lost, a handler fail: each costs one of `MaxFaults`. What a service commits is a
step. A run holds at most `MaxConcurrency` requests, gives each its timeout, and is
`complete` when its gates pass. `IdOf` lets requests of two starts of a run have one
identifier, `Plans` are the scenarios a seed draws.

### OriginRanking and RunLocalization

The events are those that requests of the research path leave: a call has one of its
caller, and a callee that answers some of its own (`CallEvents`, `Own`,
`OfGateway`), in the words that the ranking looks for. A fault hits one call in one
of seven ways; `Happen` lets each request of the stretch be hit or not, and a few ask
for an unknown account. `Measure` computes the evidence of every candidate,
`Rank` applies the rules. `_causal_rerank` stands in the code twice in the same
words, for the gateway and for the offline report: operators are mapped to the one,
actions to the other.

- Rates are in thousandths and scores in millionths, rounded down. The thresholds
  of the code lie nowhere near the rounding with stretches this short.
- Of latencies the model keeps whether the 95th percentile is as usual (nobody
  waited for a timeout), far above that (everybody did) or anywhere between
  (`Mixed`): where some waited, `_percentile` interpolates between two of them, and
  that depends on lengths that the model does not have. The run takes the highest;
  the theorem holds for every value (`MixedAssumption`).
- The bonus for the first failure is that of a candidate that failed in the first
  failing request, or decayed by five seconds.
- `study` says whether a behaviour is one of the runner or of the localization.

### PilotRun, CollectionController, DatasetExecutor, EvidenceCollection

`PilotRun` is a pilot as the controller and its neighbours can tell it: clean,
lease, traffic, restore, release, recover, check, create the directory, write the
manifest last. Pilots die between any two steps. `CollectionController` has the
controller's own steps around its child: list the family, make the lock, the
journal, run, wait, audit by comparing listings, record, unlock. A killed
controller leaves its child running. `DatasetExecutor` goes through a plan; a file
opened with "w" may stay empty, a plan may change while no executor runs.

### CaptureRun

A program is a **sequence of named steps** (`ErrorPilot`, `OutagePilot`,
`TimeoutCapture`, `UnknownCapture`, ...), each one operation on shared state or a
look at it; a step that raises jumps to the `finally` clauses it is inside of.
What programs differ in is the sequence. A job says who runs what, on which slot,
and what strangers may do meanwhile.

- Adjacent looks at the stack are merged where the later one's success implies the
  earlier one's; extra read-only preflights are part of `clean`.
- A base capture looks at its slot before it takes the reservation: a second one may
  take it and fail at `mkdir`, and leaves the reservation for ever.
- A healthy capture holds no lease. Strangers can act between its looks at the
  stack, which `ObservedUnderOwnFault` therefore does not speak of.
- Audits, assembly, training, prediction and scoring are steps of their own that may
  be cut off between two files; a model trained before (`trained`) is a choice.

### LiveObserver

The observer passes requests on, notes their answers in a store, posts them with
their logged events, commits the post to the store and polls; its interruption may
come at any step. Watchers poll beside it, feeder and bridge post runs of their own.
A poll reads the buffer, looks for overlapping receipts and files one, in three
steps. `cast` chooses who takes part. The code's 20, 60, 180, 200, 600 and 900
seconds keep their order (`TimesAssumption`), not their ratios. A request has one
logged event. Handler threads outlive the interruption, which nothing joins: an answer may
come between the last look at the store (`Snapshot`) and the removal of the lock
(`Unlock`). Restarts of the gateway and torn receipts are left out, and so is the
prediction that the bridge records for itself, without a receipt.

### DiagnosticEvidence

One program alone, tick by tick: it activates its fault, sends one request a tick,
removes the fault (or finds that it expired), sends a few more, selects an exact
window, asks its gate, and files; then its auditor counts again from the files.
Fifteen programs differ in gate, files and auditor, and each has its own operator
for them. `force` and `hits` are history: when the fault was in force, who met it.

- `MaxOdd` requests fail for other reasons, are logged late or not at all. It is
  below `MinAffected`, because a program's own outage may be partial.
- Files change only by being cut off (`CutOff`); checksums are abstracted to that.
- That the window lies in the fault's interval rests on two guards, each of which
  suffices: the pilot's look at the expiry, and the clip of `select_exact_window`.
- The 65 features are a function of the window and are left out.

### TargetMatrix

The draft's rotation of targets and splits is computed as in the code for all 240
rows; what the healthy pilot was seen to reach is any count up to `MaxObserved`.
`Prepare` compares the issues with the expected ones, `Correct` gives a row a turn
at a time, `Verify` is the verification that follows. `Readiness` knows one pilot
only, that at 2.0 requests a second, whose correction is pinned by a checksum
(`OfPilotTwenty`): it refuses any other, and also when the files of the reference
pilots are not as recorded. The counts of that pilot are taken from
`docs/phase-19c2e-collection-plan.md:7`, by which each of its requests succeeded;
its files are not in the repository. Only the targets of timeout rows can change;
seeds and rates are left out.

### EvidencePipeline

Adds to EvidenceCollection's two campaigns those of the four modules above, by
`INSTANCE`; `campaign` says which one a behaviour is of. They run at different
times of the project and share nothing but what each module has itself.

## The runs

Times are of two workers on a small machine.

| run | instance | distinct states | question |
| --- | --- | --- | --- |
| `transfer_case` | 2 transfers, 2 reviews each, 2 faults; and 1 transfer, 1 review, 1 fault, 2 explanations, a cache of 1 | 3 105 000 | Do two transfers over the same accounts keep the balances, are statuses backed and reviews needed, do they implement `AtomicTransfer`, and do explanations agree with the evidence they read? |
| `transfer_live` | 1 transfer, 4 reviews, 2 faults, fair, patient engineer | 3 800 | Does every handler let its lock go, and a received transfer complete? |
| `recovery_claim` | 1 transfer, 1 review, 1 fault | *violation* | Is "recovery is confirmed" said only of completed transfers? |
| `case_claims` | 1 transfer, 1 review, 1 fault, 2 explanations | *violation* | Do the rules say "completed" only of a transfer that is? |
| `lease_race` | 3 gated runs, 4 activations | *violation* | Do two unexpired leases exclude each other? |
| `lease_verify` | 1 gated, 1 plain, 1 sealed run, 2 activations | *violation* | Does a recovery check leave the faults of others alone? |
| `lease_resources` | 1 gated, 1 plain run, and 1 sealed run or 1 demo session, 2 activations, fair | 398 000 | Is the lease exclusive until one expires or a session acts, is what is left behind reclaimed, and are resources given back? |
| `demo_sessions` | 3 sessions, 3 requests at a time; a blind run over some 20 ticks | 2 330 000 | Is the life of a session right under overlap, expiry and restart, and does the verdict of a blind run rest on its challenge? |
| `live_intelligence` | ticks of 5 s, shortened windows, 2 confirmations | 137 000 | Is the buffer exact, READY observed, recovery confirmed and the drained view current? |
| `live_resolution` | the code's constants, telemetry with a gap | *violation* | Does a resolution include a long-window decision? |
| `research` | 2 starts of a run, 3 requests, 1 fault; and 49 faults in the way of 5 requests | 379 000 | Is the evidence chained, are answers and manifests true, and does the origin lead? |
| `attempts` | six campaigns, below | 3 130 000 | Is what is admitted whole and of its own fault, and everything done once? |

`attempts` has 3 controllers, two of them with one attempt, beside a pilot by hand;
an executor of 2 runs, 2 plans and 4 attempts; 10 jobs of capture and pilot
programs; 5 casts of live observation over 5 ticks; 15 programs' evidence over
7 ticks; and a plan correction for every outcome of the pilot around the threshold.

### Why the bounds are enough

*Transfers.* The interesting cases need one payment whose answer is lost, a second
attempt, and a late message of the first: two attempts and two faults; the third
attempt of `transfer_case` lets a message of the first be overtaken twice. Transfers
meet in the account rows only; two of them in opposite directions, where one is
funded by the other, give the overdraft that becomes payable and the contended row.

*Explanations.* The second study of `transfer_case` has explanations, a single
transfer and a review less: the two transfers of the first would only be explained
apart. Two requests share a cache with room for one answer, so that each
can read, replace and drop what the other put there.

*Leases.* The race over an expired lease needs its owner, dead or late, and two
programs that find it; four activations let each of three clients acquire and one acquire
again. `lease_resources` has a known run of each kind meet a sealed run or a session
(sealed runs and sessions meet in the theorems only), with an activation for each
side. No liveness is checked with symmetry.

*Sessions.* A blind and a guided session with a fault contend for the control
file, a blind one without a fault must not touch it. Three requests can execute,
arm and recover one session at a time, or overlap on all three. A blind run has
windows of two ticks in a challenge of five, so that several windows fit; a slow
transfer lets the lease of six ticks run out in the middle; two requests before
the preflight feed it; and one thing of `MaxOthers` goes wrong.

*Live intelligence.* The short window, the long window and the age limit differ, an
item lies before, in and after each of them, one comes late and one is not finite;
two confirmations are a run of consecutive judgements. `live_resolution` uses the
code's own constants, because the claim depends on them.

*Research.* Two starts of one run meet in the unique identifiers only, and one
fault at a time in every service is what tears evidence apart. For the
localization, five requests are hit in any order and number, so that a failure rate
passes every threshold of the rules from below; one refused request in the healthy
stretch is 20 %.

*Evidence.* Two controllers with an attempt in common and one without, and a pilot
none of them knows; jobs that pair every two programs that share a slot, a lease or
a stack in a way of their own; minimal thresholds (3 requests, 2 affected clients,
1 event) that one odd request can miss or meet; a lease that ends before, with and
after the traffic. The observer's casts pair it with a watcher, the feeder and the
bridge, over enough time for its store to forget.

### The properties

- `StatusIsBacked`: a completed transfer has a completed payment, which has moved
  and posted funds; COMMITTED is in the journal; a posting has its transfer.
  `BalancesMatchJournal`: each balance is its start plus the journalled credits
  minus the debits. `NegativeStatusIsTrue`: what `NOT_ATTEMPTED`, and
  `NOT_COMMITTED` of an unreviewed payment, still say truthfully; after a review see
  [below](#where-the-code-and-its-documents-differ). `RetryNeedsReview`,
  `ImplementsAtomicTransfer`, `OperationsEnd`, `ReceivedCompletes`.
- `EvidenceAgrees` for what an explanation reads. `AnswersFit`: its answer was made
  from that, whoever made it, and the rules' is theirs. Of what a generated answer
  says, nothing is claimed.
- `ExclusiveUntilExpiry` holds `Undisturbed`: until
  a lease expires or a demo session puts its file in place of another.
  `LeftLeaseIsReclaimed`: a complete lease of a program that was killed, or that
  skipped its release, goes if another known run is started again and again.
  `ResourcesAreGivenBack`.
- `SingleExecution`, `RecoversWithoutOwnFault`, `SealedDuringChallenge`,
  `BlindRunClears` for sessions. `DecisionRestsOnChallenge`: the window judged lies
  in the challenge and counts each of its requests of that time, all sent under the
  fault unless its lease ran out. `VerdictIsEarned`: a verdict about a fault needs
  its effect on a request of the challenge in that window.
- `BufferIsExact`, `ReadyMeansObserved`, `ResolvedIsConfirmed`,
  `DrainedViewIsCurrent` for the live intelligence.
- `AnswersAreTrue`, `OncePerRequest`, `ManifestIsClean` for the
  research path. `OriginLeads`: a fault that shows clearly (`Clear` says when) is
  ranked first. It is not stated of a payment or ledger service that answers 503,
  see [below](#where-the-code-and-its-documents-differ).
- `OnePilotAtATime`, `ReportedPlanIsWhole`, `HalfDoneBlocks`,
  `ObservedUnderOwnFault`, `CapturesCleanUp`, `ScoreRestsOnReceipts`,
  `PilotsImplement` (every pilot program is a `PilotRun`), `UnlockedIsExact` (of the
  answers observed by the last look), `PostsOnce`, `JudgedOnce` (of receipts),
  `ValidShowsTheFault`, `AuditAgrees`, `CorrectionHolds` (a correction of the plan
  passes its verification) for the collection of evidence.

Each is stated in words above its definition. `ConfirmedIsFinal`,
`RecoveryFollowsFailure`, `EndedLeavesNoFile`, `StateIsBacked`, `ProgressIsKept`,
`EvidenceChain`, `ExitCleansUp`, `ResultIsOwnPilot`, `MoneyIsConserved`,
`OverForGood` and `RulesDecide` are proved and not kept in a run as well.

## Fairness

`HandlerFairness` (transfers): weak fairness of the handlers of each service and of
the 409 of a busy one. Handlers are coroutines of a running server and every
`httpx` call has a timeout, so a handler that can go on does. Nothing is assumed of
customers, engineers or faults; faults are finite because `MaxFaults` is.

`PatientSpec`, which `transfer_live` uses, adds an engineer who reviews what is not
completed: the first time at any moment, then only when nothing of the transfer is
under way any more. Such a person is an assumption: a review at the wrong moment is
answered with 409 and spends one of the bounded reviews. `OperationsEnd` does not
need the engineer, who only adds behaviours to end.

`Fairness` (lease): programs run on and their operators start them again, which
is how the executors work through a plan; and every lease expires, because
`expires_at` is a wall-clock time. `ResSpec` adds the task that polls the control
file, and the waiting requests.

No other module assumes fairness. Nothing in the code makes a session, a controller
or a capture go on, a manifest be written, or an incident be resolved: telemetry may
stop, and an operator must act.

## The proofs

The theorems are about `Spec`, for blind runs `ChallengeSpec` and for the campaigns
of EvidencePipeline `AllSpec`, for all values of the constants: any number of
transfers, accounts, clients, sessions, requests, subscribers, pilots, captures or
controllers, any traffic, any bound. They assume only what the modules' `ASSUME`s
say, which TLC evaluates in the runs: routes lead from one account to another,
amounts are positive, the kinds of clients are disjoint, `None` is no session, every
controller has a child of its own, a job gives a process one of the programs, time
spans and thresholds are in the order of those in the code, and a latency lies
between the usual and the highest. Two theorems say in their statement what else
they need: `IsFiniteSet(Accounts)`, without which there is
no sum of all balances, and `OneKnown`, below. One of the modules' assumptions is about
the surroundings: `MaxOdd < MinAffected` (`MinuteAssumption`), fewer requests go
wrong by themselves than a gate asks for. Of an outage and of a load a gate only
counts failures, so that without it foreign failures could pass for the fault.

| theorem | module | property |
| --- | --- | --- |
| `TypeCorrect` | `TransferWorkflow_proofs` | `TypeOK`; no balance is ever negative |
| `StatusesAreBacked` | | `StatusIsBacked` |
| `NegativesAreTrue` | | `NegativeStatusIsTrue` |
| `ConfirmationIsFinal` | | `ConfirmedIsFinal` |
| `RecoveryIsEarned` | | `RecoveryFollowsFailure` |
| `RetriesAreReviewed` | | `RetryNeedsReview` |
| `BalancesAreJournalled` | | `BalancesMatchJournal` |
| `TransfersConserveMoney` | | `MoneyIsConserved`, for finitely many accounts |
| `WorkflowIsAtomic` | | `ImplementsAtomicTransfer` |
| `EvidenceIsConsistent` | | `EvidenceAgrees` |
| `AnswersAreCurrent` | | `AnswersFit` |
| `LeaseTypeCorrect` | `FaultLease_proofs` | `TypeOK` |
| `EndedRunsLeaveNoFile` | | `EndedLeavesNoFile` |
| `RunsExclude` | | `ExclusiveUntilExpiry` |
| `LeaseImplementsOneFault` | | `OneFault`, step by step, while `Undisturbed` |
| `SoloImplementsOneFault` | | `OneFault`, if `OneKnown` |
| `SoloLeasesExclude` | | `LiveLeasesExclude`, if `OneKnown` |
| `LeasesEndForGood` | | `OverForGood` |
| `SessionTypeCorrect` | `DemoSession_proofs` | `TypeOK` |
| `ExecutesOnce` | | `SingleExecution` |
| `OwnFaultEnds` | | `RecoversWithoutOwnFault` |
| `StatesAreBacked` | | `StateIsBacked` |
| `ChallengeStaysSealed` | | `SealedDuringChallenge` |
| `BlindRunsClear` | | `BlindRunClears` |
| `SessionsLeadOn` | | `ProgressIsKept` |
| `DecisionsRest` | | `DecisionRestsOnChallenge` |
| `VerdictsAreEarned` | | `VerdictIsEarned` |
| `SessionsHoldInTheWhole` | | four of the above, of `ChallengeSpec` |
| `TypeCorrect` | `LiveIntelligence_proofs` | `TypeOK` |
| `BufferHolds` | | `BufferIsExact` |
| `ReadyIsObserved` | | `ReadyMeansObserved` |
| `ResolutionIsConfirmed` | | `ResolvedIsConfirmed` |
| `ViewsAreCurrent` | | `DrainedViewIsCurrent` |
| `ResearchTypeCorrect` | `ExperimentRun_proofs` | `TypeOK` |
| `EvidenceIsChained` | | `EvidenceChain` |
| `ClientsAreToldTheTruth` | | `AnswersAreTrue` |
| `PaidOncePerRequest` | | `OncePerRequest` |
| `ManifestsAreClean` | | `ManifestIsClean` |
| `LocalizationFollowsRules` | | `RulesDecide` |
| `ClearFaultsAreLocated` | | `OriginLeads` |
| `StudiesAreRuns` | | `Spec`, of which all the above are |
| `CollectionTypeCorrect` | `EvidenceCollection_proofs` | `TypeOK` |
| `PilotsOneAtATime` | | `OnePilotAtATime` |
| `ResultsAreOwn` | | `ResultIsOwnPilot` |
| `ExitsCleanUp` | | `ExitCleansUp` |
| `ReportedPlansAreWhole` | | `ReportedPlanIsWhole` |
| `HalfDoneStaysReserved` | `EvidencePipeline_proofs` | `HalfDoneBlocks` |
| `EvidenceIsOwn` | | `ObservedUnderOwnFault` |
| `CapturesLeaveNothing` | | `CapturesCleanUp` |
| `ScoresAreFounded` | | `ScoreRestsOnReceipts` |
| `PilotsArePilotRuns` | | `PilotsImplement` |
| `WindowsAreJudgedOnce` | | `JudgedOnce` |
| `ObserverPostsOnce` | | `PostsOnce` |
| `UnlockingIsExact` | | `UnlockedIsExact` |
| `ValidEvidenceIsOfItsFault` | | `ValidShowsTheFault` |
| `AuditorsAgree` | | `AuditAgrees` |
| `CorrectionPassesItsVerification` | | `CorrectionHolds` |

### Transfers and explanations

`StatusIsBacked` is not inductive. A payment handler about to complete the row must
know that the funds moved and the ledger posted, which it learnt several commits
ago: `StepInv` says what each step of a handler may rely on. And a handler acts on
an answer that was true when it was sent: `ReplyInv` says that it still is when it
is read, however long it travelled, because all that an answer may confirm is
final. `IInv` is the conjunction of the three, and the theorems about what
is confirmed rest on it. `RetriesAreReviewed` needs `AttemptInv` instead: no
message and no handler carries an attempt that its transfer has not reached.
`NegativesAreTrue` needs to know where the only account call of an attempt can be
(`CallInv`): a denial is true because no second call was ever made, late or not.

`BalancesAreJournalled` is about a sum over the transfers of the journal, which the
model takes from the community modules: a fold, defined by the choice of a recursive
function. First comes what such a fold is (`SumTheorems`, for any finite set). Induction is cited in the form of
`WFMin`, which takes a set and no operator (`LeastFailure`): there is no least size
for which something fails. With it the function exists (`SumsExist`), it does not
matter which element is taken first (`AnyFirst`), and one element more adds its
amount (`SumAdds`). The invariant itself (`BalanceInv`) says no more than the
property and that the journal is finite; only `CommitTransfer` moves either.
`TransfersConserveMoney` needs no journal: what a commit takes from one account it
gives to another, and the sum over all of them splits into these two and the rest.

The refinement proof shows that `CommitTransfer`, `PostTransfer`, the completion of
the payment and the payment's answer are the steps `Move`, `Post`, `Pay` and
`Complete` of `AtomicTransfer`, in this order because of `IInv`, or are not seen by
it, and that no other action is.

`EvidenceIsConsistent` takes `IInv` and `ConfirmationIsFinal` from there: what an
explanation has read may be old, and what it says of COMPLETED and COMMITTED stays
true because both are final. `AnswersAreCurrent` rests on the cache: what is cached
under some evidence was made from it, whoever put it there and whatever was dropped
since.

### Leases

`EndedLeavesNoFile` needs that no two clients ever have the same activation
(`Distinct`) and that a run past the writing of its file still owns the file only
with its content in it (`Tidy`), so that `release`, which compares contents, finds
what it has to unlink. `ExclusiveUntilExpiry` needs that, as long as nothing
expired, nobody is in the reclaiming branch of `acquire`, so that whoever is about
to unlink owns the file (`Exclusive`). Both results about exclusion hold for all
four kinds together, until a lease expires or a demo session acts.

`OneFault` says the same without a file: a fault is taken when none is in force and
none left behind, and given back or left by who has it; only an expired one is taken
away, by the program that left it. `FaultLease` maps to it by who has a fault in
force (`Holder`) and whose file lies there with no fault in force (`LeftOver`).
Each program step is one of `OneFault` or none as long as its program owns the file
that it works on (`Rightful`), which `ExclInv` says of undisturbed behaviours
(`LeaseImplementsOneFault`). Expired leases break it only because a *second*
operator of known faults may have replaced the file that the first is about to
remove: with one operator, beside any number of sealed runs, every file is its
owner's at any time (`SoloInv`), so that the refinement holds without a condition,
and with it the claim that `lease_race` refutes (`SoloLeasesExclude`).

A request meets the activation that the file has then. The service gives back what it
holds when a poll finds another activation, or none. No poll is late for good
(`LeasesEndForGood`): identifiers are created once (`Distinct`), and what a program
is about to write nobody has met yet (`Unread`), so that an activation which is not
the current one never becomes it again.

### Sessions

One invariant, `Inv`, carries all seven theorems. Besides the properties it says
what a suspended handler may rely on although others work meanwhile
(`HandlersKnow`); that a blind session is run once (`RunsOnce`), since `run` leaves
`PREPARED` before its first await and nothing leads back; that a session in
recovery cannot be armed (`RecoversLate`); that the request which created the
account, of which there is one, is the only one to judge the transfer
(`JudgedOnce`); and that the model of a challenge is evaluated after the challenge
(`Sealed`). That overlapping executions are kept apart by the account service's 409
and by nothing in the gateway is visible here: `SingleKept` rests on `Creatable`
alone.

The evidence of a blind run has an invariant of its own, `EvidenceInv`. It follows
the run: which ticks of the challenge have an observed request by now and which one
still under way (`AllAnswered`), that the session's lease was armed before and what
it hit was sent after (`ArmedFirst`, `HitsAreOurs`), and that the visible transfer
was over before the challenge began (`TransferIsFirst`), so that its effect cannot
pass for one of the challenge. Nothing is assumed of the bridge.

### The research path

A caller knows of its callee only the reply it got, and a callee goes on after its
caller gave up. The invariant ties every reply to what the callee had committed when
it sent it, and every phase of a handler to the replies it has; since rows, entries
and payments are only added, a reply stays true. A request that did not win its
identifier never gets past the record, hence `OncePerRequest`. The manifest needs
no more than this of every request of its run.

### The localization

`LocalizationFollowsRules` is about sizes. Counts are sums over the outcomes that
occurred; a stream has no more failures than events (`CountBounded`), so that a rate
is at most 1000, and no candidate scores more than 1 050 000 before the rules
(`ScoresBounded`, with the bonus). Each of the first four rules raises one candidate
by at least 1 300 000, and is decided from the evidence of `Measure`, which
`RankInv` keeps until `Rank`. That the raised one is a candidate and comes out first
needs that the choice among keys (`LeadingIs`) and the places by name (`PlaceIs`)
are what they should be.

`ClearFaultsAreLocated` follows a fault from one request to the ranking. The events
of a single request that it hits are known for each call and each trouble
(`FaultEvents`): who fails, in which words, and whether there are timeouts; of the
numbers of events only bounds are needed (`EdgeShows`, `AroundTally`,
`InboundFew`). Next to requests that went well, h of n hit requests make a rate of
at least 1000 h / (n k) thousandths, where no request has more than k events in the
stream (`RateAtLeast`); what the fault does not leave has no rate (`RateNone`).
So `Clear` lifts each rate that a rule asks for over its threshold, and a lemma for each
trouble (`TimeoutLed`, `ConnectLed`, `DatabaseLed`, `LoginLed`, `ResourceRaised`,
`ErrorRaised`) shows that the rule applies, that no earlier one does, and that what
else satisfies it is nearer to the root (`UpstreamIs`), so that depth decides. A
service that answers 503 is raised by no rule: `UnavailableAhead` adds up that its
own score, 896 200, is more than any other candidate can reach. The invariant
(`OriginInv`) keeps what the stretches may hold, which request was the first to
fail, for the bonus, and that evidence and scores are those of the stretches.

### Live intelligence

Three invariants, one a part. `BufferInv` says what the buffer holds in terms of
what it ever accepted, and that each item in it has its fingerprint. `JudgedInv`, of
the incident, ties the count of healthy judgements to the last entries of `judged`
and their buckets, through refreshes, evaluations that raise and buckets that are
skipped. `StreamInv` says that the last
message of a queue is of the current incident; a full queue drops its first.

### Collection

`OnePilotAtATime` needs who may be running a child: the one controller that made
the lock, or one that died holding it, because nobody removes a lock but its maker.
That an attempt runs one pilot ever is the create-only journal. `ResultIsOwnPilot`
needs that while a controller waits, the only new whole directory of its family
that its listing can show is its child's. `ExitCleansUp` follows a pilot through its
`finally` clauses, with what raised. `ReportedPlanIsWhole` needs that the files of
every run before the current one are those of its manifest and of one attempt.

### Evidence

*Captures.* Every program is shown to be `Disciplined`: the reservation comes right
before the slot and goes after the last file, what is taken is given back later,
PostgreSQL is restored inside of the lease, and the traffic is sent once.
`CaptureInv` then speaks of any disciplined sequence: for each capture what of its
program is behind it, what is still ahead when nothing or something was raised, and
what it holds between the two. Another capture, a stranger or a kill can disturb
little of this, which is proved once (`UndisturbedKeeps`). So none of the four
theorems goes through the programs again.

*Pilots.* For the refinement of `PilotRun` a pilot program is cut into the phases of
one (`Phase`, `Shaped`), in the order that a `PilotRun` has. Along a phase a step
is a stutter, from one to the next it is the abstract step (`PilotsSimulate`);
what a neighbour does must not show (`OthersSimulate`), for which no other program may
have a lease while a pilot runs (`Alone`).

*Observation.* `WatchInv` says that what was answered is in the store until it is
too old, that what is on record was posted and what was posted is true, and that,
unless someone interrupted, what the gateway has is on record, about to be, or too
old to be read again (`Anew`). That the last excludes a second post rests on the
order of the six time spans. `UnlockedIsExact` compares what the observer saw last
with the record, and needs to say what may have come since (`CameTooLate`). A poller
about to file has filed nothing near.

*One program.* `SeenInv` relates what is logged to what happened: which of the
requests met the fault, which of those that failed did not, and how many of these
there can be. The window is selected over sequences and counts; `ConvincingIsShown`
is about each of the gates, `AuditorAgrees` about each of the auditors.

*The plan.* `PlanInv` gives the targets after every correction as a function of the
corrected rows (`After`). Ten issues of the kind that may be repaired can only be
the even replicates (`BadIs`); which edge each gets next is a count of the rows of
its split that have one (`Chosen`). `Repairable` is all that is needed of the
numbers that the pilot reached. That no correction is stopped half way rests on the
order of the rows: with another count than `Times` the split would not come out even.

### What stays with TLC

- Liveness: `OperationsEnd`, `ReceivedCompletes`, `LeftLeaseIsReclaimed`,
  `ResourcesAreGivenBack`. The prover does not reason about fairness.
- The five claims that the runs refute.

## Where the code and its documents differ

Five runs show that a claim of the repository does not hold of its code; the
findings in `PROJECT.json` quote both.

- `recovery_claim`: `inspect` says "Recovery is confirmed" of a transfer that failed
  and is being retried, or whose retry died.
- `lease_race`: two programs find the same expired lease; one removes it and
  acquires, the other removes the new one. Two live leases are in force. With a
  single operator of known faults this cannot happen (`SoloLeasesExclude`).
- `lease_verify`: `docs/phase-4.md:13` has the recovery verified before the lease is
  released. Sealed runs, and known runs of the final executor, release first, and
  their check, which starts every service, may end the fault of a run that took the
  lease in between. A run under `FaultLease` verifies first.
- `case_claims`: of a transfer that is received or in progress the rules give as an
  observed fact that it "completed normally" (`incident_assistant.py:624`), and
  `docs/phase-16f.md:18` means by that persisted evidence.
- `live_resolution`: `docs/phase-14e.md` asks for a normal 60-second decision before
  an incident is resolved; `intelligence_incidents.py:313` keeps an old one while no
  long window is ready.

Others are visible in the models, or were met while writing them, and have no run.

*Transfers and the assistant*
- `NOT_COMMITTED` is shown as "no debit or credit was accepted"
  (`incident_assistant.py`), also when an earlier, timed-out account request is
  still on its way and moves the funds after a retry was rejected. The status is
  then false until the next review, which is why `NegativeStatusIsTrue` speaks of
  unreviewed payments.
- `incident_assistant.py:751` "Reject fluent explanations that contradict
  deterministic case evidence": single words are checked (`:773`, `:801`), so that a
  text with "not committed" passes for COMMITTED, and one of another state may pass.
- A transfer without a failure has the headline "Transfer completed successfully"
  also in progress (`incident_assistant.py:585`, `transfer_intelligence.py:85`).
- The evidence of an explanation and its probable origin are of two inspections.

*Leases and sessions*
- Arming a demo fault looks for a control file and then replaces whatever is there,
  a live lease included (`demo_orchestration.py:365` against `:410`).
- The file of a killed sealed run, and an empty file, never expire for known runs;
  `docs/phase-16b.md` says that the lease expires.
- A session armed again while its execution waits for evidence goes to
  `AWAITING_REVIEW` with an active fault; `docs/phase-17.md:20` says it is cleared.
- After an execution with unexpected evidence a session still says `FAULT_ARMED`,
  which `docs/phase-17.md` explains as "no transfer has executed".
- The failure of a second, overlapping execution overwrites what the first one
  reached, `COMPLETED` included, with `EXECUTION_ERROR`.

- The preflight accepts service events of any run, though its message asks for those
  "from this demo run" (`demo_workload.py:255`).
- The lease of a blind run counts from before its transfer. A slow transfer lets it
  end during the challenge, and nothing looks; the acceptance then finds no effect.
- Under the older policy a window that ends before the challenge is READY when the
  bridge has stopped: `require_model_window` does not compare its end, although
  `docs/phase-19b.md:37` rules out "silently using stale telemetry".
- `assess_acceptance` counts a 5xx of the target whatever caused it, and the judged
  window has the requests of other runs in it.

*Live intelligence and localization*
- `docs/phase-14e.md:68` "fails closed unless" request observations are there: once
  one has been seen, the mode stays.
- `docs/phase-12.md` gives precedence to the deepest dependency and recognizes
  unavailable callees; a payment or ledger service that answers 503 logs its own
  failures, so that it does not count as unavailable, and its caller is ranked first.
  A healthy stretch with more than a tenth of refused requests switches the same
  rule off.
- `orchestrator.py:31` passes its transport where `http.py` expects the name of the
  source service.

*Collecting evidence*
- `README.md:24` has "immutable manifests and checksummed run artifacts"; the runner
  opens them with "w" (`runner.py:226`).
- The gate of `phase19c2d` counts events, not the distinct clients that the comment
  in `phase19c2m` asks for.
- `faultweave_v2_isolated_rolling_feeder.py:172` "protects against two active
  collectors sharing the live buffer": observer and bridge do not take that lock.
- `faultweave_v2_candidate04_shadow_watch.py:194` "at most once per 60-second
  evidence interval": two pollers may both look before either files its receipt.
- The observer says "observer stopped after all client observations were ingested"
  (`faultweave_v2_live_observer.py:252`) also when some were dropped from its store
  for their age, and when a handler thread added one after its last look.
- A window may have a prediction of the bridge (`faultweave_v2_isolated_telemetry_bridge.py:335`)
  beside a watcher's: the bridge looks for no receipt and files none.
- The acceptance run does not compare the end of its traffic with its lease
  (`faultweave_v2_isolated_fault_acceptance.py:148`), which captures do.
- An audit cut off between its two files cannot be repeated; a capture hashes files
  after it has read the features from them.

## What is not modelled

- What models and statistics compute: features, isolation forests, open-set
  rejection, severity and impact scores, candidates 02 and 03, the training of
  candidate 04. The models take verdicts as choices.
- Redaction and wording of explanations and reports, the command center's page, the
  schema checks of artifacts, configuration, deployment and logging.
- The acceptance scripts (`verify_phase*`, but the one of phase 19b), which drive the system from outside, and
  single demonstrations of it (`phase16_transfer_fault_case`, previews, readouts).
- The smoke executor, a smaller form of the final one, and the plans and quality
  reports of the first data set, computed once from files.
- Password checks and signatures; authentication appears as the expiry of a token.
  Of the account service, creation (in `DemoSession`) and the transfer (in
  `TransferWorkflow`) are modelled, lookups only read.

## The plan

Done: the durable transfer with its abstract specification, the refinement and its
explanations; the lease and the resources held under it; the demo sessions; the live
intelligence with localization; the research path and its runner; the collection of
evidence from plan to score. Next:

1. The traffic of a run in `DatasetExecutor`: intervals, late events of an earlier
   attempt under the same run identifier, and the gates on them.
2. The balances of several demo sessions over one source account, and the
   verification in `recover` that compares them.
3. Restarts of the gateway in `LiveObserver` and `LiveIntelligence`.
