# Verification of the API scanner

This directory models the scanner of this repository in TLA+, checks the models with TLC
and proves theorems about them with TLAPS.  Paths below are relative to the repository.

## The system

A FastAPI service accepts a scan request and stores it; a Celery worker runs the scan
through a fixed sequence of stages, driving engines (one in-process, four behind HTTP
sidecars), and writes findings and reports.  Everything the parts share is in the
database, the broker, or a sidecar's memory.

| Component | Code | State it keeps | Operations | Hard behaviour |
|---|---|---|---|---|
| Submission and control API | `app/api/routes.py`, `app/services/scan_service.py` | none of its own; a session per request with the row as it was read | submit, submit from file, cancel, pause, resume, downloads | read and commit are apart; `delay` may fail before or after publishing; the process may die between commit and publish |
| Broker and workers | `app/workers/` | queued and unacknowledged messages; soft and hard time limits | deliver, acknowledge late, redeliver, interrupt | at-least-once delivery, lost workers, limits that fire inside `await` |
| Orchestrator | `app/services/orchestrator.py` | its session's copy of the `scans` row, deadline, partial failures, inventory | validate, discover, run engines, correlate, assess, publish, terminate; a checkpoint between them | pauses, cancellation, deadline, an engine cut off half way, commits by other sessions |
| Custom engine | `app/engines/custom.py`, `app/security_tests/` | request budget and rate gate, one row per endpoint and check | baseline, passive and active checks, authorization checks | concurrent endpoints share the budget; a failing baseline must leave a row per applicable check |
| External engines | `app/engines/external.py` | the ZAP daemon's session, contexts, replacer rules | run through a sidecar; drive ZAP's asynchronous scans | sidecar time-outs, ZAP state shared by consecutive scans, scans left running when `wait_for` cancels |
| Runner sidecar | `engine_runner/main.py` | proxy jobs with budget and rate, child processes | run a tool, proxy one request | output pipes and their cap, the deadline of the tool, job removal while requests are in flight |
| OAST collector | `app/oast.py` | token -> hit flag with expiry in Redis | register, callback, poll | callback against registration, expiry and single use |
| Scoped HTTP client | `app/security/scope.py` | none | validate, request with redirects | bounded redirects, same host, response cap |
| Ingestion, discovery | `app/ingestion/` | none | parse, fetch, discover | which source an inventory comes from |
| Coverage | `app/coverage/` | none | a pure function over the rows of the checks | the verdict must not claim more than was tested |
| Correlation, risk, reporting | `app/correlation/`, `app/risk/`, `app/reporting/` | none of their own; the finding rows of a scan | group drafts, choose a representative, score, group findings into issues | several engines and several deliveries report the same thing in different words and strengths |
| Static analysis, configuration, secrets, logging, dashboard, fixture | `app/analysis/`, `app/core/`, `app/static/`, `vulnerable_test_api/` | none | | not modelled: no behaviour over time |

What makes each correct: a scan ends, once, with a verdict its rows justify; a cancellation
or a pause is honoured at the next checkpoint whatever other sessions write; an unreachable
target or a failed scan publishes nothing; the budget and the rate bound the requests of a
scan, those of a tool included; a tool ends by its deadline; a callback is reported only if it
came, and never as a clean test if it did; ZAP sends the requests of a scan with its own
authentication (an active scan that nobody stopped may run beside them, and then sends its requests with it too);
no finding is lost between an engine and the report.

## Modules

| Module | What it is |
|---|---|
| `ScanLifecycle` | One scan: submission, control requests, broker, workers and orchestrator over the shared row |
| `ScanJob` | What a client that polls a scan is promised (abstract) |
| `ScanLifecycleJob` | The refinement mapping from `ScanLifecycle` to `ScanJob` |
| `MCScanLifecycle` | Engine lists, engine outcomes, fault sets and symmetry for TLC |
| `ScanLifecycleProofs` | Types, cancellation, reports, the submitted document and explained orphans under any faults; nothing is orphaned and pauses are held without faults |
| `ScanLifecycleOnce` | One delivery: clean verdicts, failures that publish nothing, and the refinement of `ScanJob` |
| `PacedBudget` | What a request budget promises (abstract) |
| `RequestBudget` | `take()` with its lock and its sleep, its callers, the requests of a grant |
| `ProxiedRun`, `MCRequestBudget` | The proxy of the sidecar: `RequestBudget` behind a job that is removed while requests hold it |
| `ProxiedRunProofs` | `RequestBudget` and the proxy implement `PacedBudget`; redirects and uncounted requests are bounded; the lock is passed on; types |
| `CustomEngine`, `MCCustomEngine` | The in-process engine: concurrent endpoint tests, the rows they leave, the assessment |
| `CustomEngineProofs` | Types, one row for each check, COMPLETE is measured, no row claims what was not granted |
| `Oast` | One SSRF check of the custom engine against the collector and a target that calls back |
| `OastProofs` | Types, hits are true, nothing is missed |
| `EngineRunner`, `MCEngineRunner` | One tool run by a sidecar: worker, handler, process, pipes, clocks |
| `EngineRunnerProofs` | Types, tools are reaped, COMPLETED is true |
| `ZapSession` | Consecutive scans on one ZAP daemon, call by call |
| `ZapSessionProofs` | Types; rules, files and active scans of one scan do not reach the next |
| `Issues`, `MCIssues` | From drafts to findings to the issues of a report, over the deliveries of a scan |
| `IssuesProofs` | Types; no draft is lost, every row is reported, risks are backed, a redelivery keeps the issues |

How they compose.  `ScanLifecycle` is the whole; `RunEngine` draws the results that engines can
report, and the other modules say how an engine comes by its result: `CustomEngine` and, for one of
its checks, `Oast`; `EngineRunner` and `ZapSession` for the external engines.  `ProxiedRun` EXTENDS
`RequestBudget` and wraps each of its steps; the same `take()` bounds the custom engine, whose
module keeps only its counter.  `Issues` starts from the drafts that the engines leave and covers what
`SaveFindings` and `Publish` of `ScanLifecycle` do with data.  `ScanJob` and `PacedBudget` are
instantiated with a refinement mapping.

### ScanLifecycle

The `scans` row is the variable `row`; the other tables are reduced to what the verdict and
the properties tell apart: whether the encrypted ingestion payload still exists (`payload`),
where the endpoint rows come from and what share of them is `TESTED` (`endpoints`), the
engine rows (`engineRows`), and how many batches of findings and reports were committed.

The unit of work of SQLAlchemy is the operator `Flush`: a session emits an UPDATE of exactly
the columns whose value differs from what it loaded, and `expire_on_commit=False` keeps its
copy after a commit.  `worker[w].scan` and `control[c].loaded` are those copies.  Only
`_checkpoint` refreshes.  This is where the interesting interleavings live, so each commit
is its own step and so is each read a later commit relies on.

`worker[w].pc` names the statement of `Orchestrator.run` the worker is at; there is one
action per statement group between two commits or awaits.  `StepFails` is the outermost
`except Exception`; `Raise` followed by `Terminate` is `_terminate`.  Nothing is rolled back in between, so
rows that were added before the exception (`Unflushed`: endpoints, findings) stay in the session as `pending`, and the
commit of `_terminate` stores them.  `AnalysisFails` is an exception of `analyze_specification`,
after the endpoints are committed.  Engine results are drawn by `RunEngine` from what `engine.run` under `wait_for` can return.

Abstracted: stage texts, timestamps (`started_at` is left out, `finished_at` is a flag),
contents of endpoints, findings and reports, validation inside `create_scan` (one
`RejectRequest`), and clock values (`DeadlinePasses` may happen at any time while a worker runs).

`ScanJob` is the promise: phases in their order, each once; the status shown is that of the phase, a
pause, or an outcome; reports come with COMPLETED or PARTIAL and with nothing else; an outcome stays.
It also says exactly how far the code departs from this: `late` holds the decisions that
were made on a QUEUED row (`_control` read it, or `_dispatch` failed) and may be committed
over whatever is shown by then, and a scan that resumes shows SCANNING whatever its phase.
`Phase` of `ScanLifecycleJob` reads the phase from the statement the one worker is at, and
`LateDecisions` from the requests that have read but not committed.  The mapping is for one
delivery: a second one goes through the phases again.

`faults` counts the faults by kind, and is history.

Bounds: `MaxCopies` (copies of the message the broker ever delivers), `MaxFaults` (faults of all kinds),
`Outcomes` (engine results that occur), and the sets of workers and control requests.

### RequestBudget

`RequestBudget.take` and `ProxyJob.take` are the same code; one event loop runs all callers,
so a step is what happens between two awaits: `Wait` (the lock is taken), `Refuse` (the
budget is spent), `Sleep` (with the lock), `GrantAtOnce`, `GrantAfterSleep`.  `Cancel` is
`CancelledError` at any of the awaits.  `since` is the age of `last_request`, no further than
the interval, so that time is finite without a bound of its own.  A granted caller sends:
`Request` is one pass of the loop of `ScopedHttpClient.request`; the custom engine's calls do
not follow redirects, the proxy's do (`Followers`).

The abstract `PacedBudget` speaks of grants, not of packets: after a grant the caller still
resolves the host and connects, so two requests may reach the network closer together than
the interval.  Nothing in the code prevents that and nothing here claims it.

### ProxiedRun

`wuppie_proxy` looks its job up (`Admit`), reads the body (`RejectBody`), and from then on works on the
object it holds: `Handle` lets an admitted connection take a step of `RequestBudget`.  `RemoveJob` is the `finally`
clause of `run`, which takes the job out of `PROXY_JOBS` and reports its count at that moment.  The
steps of `RequestBudget` that need no proxy stay as they are, so that `KeepsPromise` is
about the same refinement mapping.  `held` and `reported` are history.

### CustomEngine

`test[e]` is the coroutine of an endpoint: `queued` before the semaphore, then at the request it
awaits.  Every action is what happens from the answer, or the failure, of one request to the
next await: the rows of checks that need no request are appended on the way (`ToUnauthenticated`,
`ToActive`).  `activeRows` are the rows of the active checks as they would be if the rest
were answered; `work` is the mutations still to come, `Upcoming` the next of them.  `ActiveFails` and
`BaselineFails` are the `except` clauses of `_test_endpoint`; `Raises` is every exception that they do not
name and that `gather` returns in place of the rows.  `Compare` is one pass of
`_authorization_tests`.  `Reported`, `Tested` and `Assessment` are what the orchestrator and the coverage make
of the rows.  `answered` and `mutated` are history, what was measured.  `Claimed` is the set of requests
that the rows of an endpoint say were made, each by its row and its number in it.

One request stands for the several payloads of a mutation point, DETECTED is TESTED, and the budget is its
counter: pacing and the lock are `RequestBudget`.  Payloads, findings and evidence are left out.

Two things the model shows are described here rather than kept as runs.  When active testing stops,
the checks that never applied become ERROR with the others and are counted as applicable (`ActiveFails`),
although `docs/ARCHITECTURE.md:67` has it that unrelated classes do not inflate the denominator.  And a check whose only
candidate point lies beyond the limit of the profile is NOT_APPLICABLE (`StartedRows`), so that the
assessment is COMPLETE without it: `CompleteIsMeasured` speaks of the points within the limit.

### Oast

The loop of `_input_validation_tests` over the URL-like points is `pc`, `point` and `poll`; each token of a point has
its Redis key, and `request[t]` and `callback[t]` say at which command the collector's handlers are:
`event` reads and then deletes, `callback` looks and then stores, and between the two commands
anything may happen, the expiry of the key included (`Expire` may come at any time, and the
engine may give a request up whose handler goes on).  `heard` and `expired` are history.
Left out: the token's format and the service key (rejected before any of this), and the mutation
itself, which is answered or raises.

The engine and the collector run on clocks of 3 s, 0.5 s and 600 s; the model uses none of
them, so it holds for any time-outs.

### EngineRunner

The worker's side (`client`, `waited`) is `RunnerEngine.execute`; `server` is where the
handler `run` is; `tool`, `left` and `pipe` are the process and its pipes; `captured` is what
`_run_process` has read; `age` is the tool's clock.  `StreamReader.read(n)` returns what has
arrived, so each pipe is read once.  Timers that are due fire before `Tick`, as in an event loop.
Nothing is assumed of the tool: it may write to a pipe until it is full, end or hang.  The sidecar does not
notice that the worker has gone (`Cancel`, `GiveUp`).  Left out: the command lines, the
contents of reports, the death of the sidecar itself, which to the worker is a failed connection
(`Receive`).

### ZapSession

The daemon is external: it is known from the calls of `ZapEngine` and executes them in the
order they come.  `pc` is the call `execute` awaits, `Execute` what the daemon does with it, and a call that
raises, is cancelled or loses its worker may or may not have been executed (`CallFails`,
`Cancel`, `WorkerLost`).  `Leave` is the `finally` clause.  `newSession` may or may not end what the
daemon still runs, since the code relies on neither.  An answer to `ascan/action/scan` without a number
(`StartUnnumberedScan`) leaves the engine with an empty scan id: it neither polls nor stops, reads the alerts, and says COMPLETED,
whether or not the daemon attacks.  `cut` and `unnumbered` are history: the executions that were cut off, and those whose active
scan had no number.  A scan installs at most one header
rule, so `rules` and `stale` are sets of scans.  One execution at a time: the worker's concurrency is 1
(`app/workers/celery_app.py`), and the engines of a scan run one after the other.

`overdue` is the engine's own deadline for the polling of the active scan.  It is computed
after `wait_for` has started with the same seconds, so that in the orchestrator the stop branch never
comes first; the module keeps the branch, since `execute` assumes nothing about its caller.
Left out: the contents of alerts, and how authentication becomes a header (`Skip` when it cannot).

### Issues

A draft is a kind (its wording), a place (method, endpoint, parameter), a category that follows from the kind,
severity, confidence, engine and evidence.  `Folded` is the normal form of a place in `FindingDraft.fingerprint`.
`correlate_findings` and `pentest_payload` are operators, translated statement by
statement where the order decides (`max` returns the first of the strongest, `sorted` is stable, the
first finding of a kind makes the issue, identifiers follow the order).  Sorting puts every index at its rank, the
number of indices before it (`InOrder`), and the loop over the findings is a recursive function of the
number of findings done (`Grouped`), so that both can be reasoned about.  The state machine around
them is a scan: engines report in any order, findings are committed, reports are written, and
the scan may be delivered again, when the new drafts are correlated among themselves and added to the old rows.
The rows are read in any order, and the evidence of each in any order (`Read`), since neither SELECT names one.
`risk_score` is counted in tenths.  `Title` of a kind and `Endpoint` and `Method` of a place are what the reports
sort by, as ranks in the alphabet; two kinds may share a title, and two places an endpoint and a method, and then
stay in the order in which the rows were read.  `Concise` is `_pentest_evidence`: different proofs may come out the same, and a proof
as `Nothing`, which is not shown, so that a location may have no example at all.
Left out: remediation and technical texts, the summaries, and the formats the payloads are rendered to.

## Runs

| Run | Question | Bounds |
|---|---|---|
| `lifecycle_single` | With one delivery, does the worker go through the promised lifecycle (`ScanJob`), and is the outcome right? | 1 worker, 2 control requests, custom + one external engine with every outcome |
| `lifecycle_faults` | What survives duplicated messages and crashes, and what is lost with whom? | 1 worker, 1 control request, 2 copies, 1 fault of any kind |
| `lifecycle_liveness` | Does every scan end? | 1 worker, 1 control request, all outcomes, no faults |
| `budget` | Does `take()` keep its promise behind the proxy, is its lock passed on, and what goes out after the job is removed? | 3 connections, one of which follows redirects; budget 3, interval 2, 2 redirects |
| `custom` | Does every endpoint account for every check once, within the budget, and is COMPLETE earned? | 3 endpoints in 2 places, 3 active checks, 2 of 3 points, budgets of 5 and 15 |
| `runner` | Is the tool gone and the status true when the sidecar answers, and does the worker go on? | deadline 2, patience 4, pipes of 1 chunk, 3 chunks of output to each stream |
| `oast` | Are hits true, is a callback never lost in silence, and does the check end? | 2 points, 3 polls, 2 callbacks for each token |
| `zap` | What of one scan reaches the next, however it ended? | 2 scans, 3 executions |
| `issues` | Is every draft in the report, where and as strong as it was reported, once? | 7 drafts, up to 4 in a scan, 2 deliveries |
| `soft_limit`, `tool_deadline`, `attack_outlives` | Three statements of the documents that the code does not keep | the smallest instance that shows each |

Why the bounds are enough.  Two control requests are the least that can decide on the same
old row; two engines the least with a checkpoint between engines and with a failure
remembered across one; one fault and two copies give every fault at every commit, and a second run on
the rows of a first.  Three callers are the least with a sleeper, a queue and a caller that arrives;
a budget of three with an interval of two lets each of them be granted and refused.  A pipe of one chunk
with three chunks to write covers a tool that is read, fits, and blocks.  Two points are the least
with a later token that an earlier one must not stop or stand for; three polls the least with a first, a
middle and a last one; two callbacks the least of which one finds the key and stores it after the other was consumed.
Three executions of two scans are the least in which a scan comes back after another one's leftovers.
Four drafts out of seven give every pair, and every two pairs, of same and different fingerprints, wordings,
strengths and engines, within a delivery and across two.  Two of the kinds share a title, one proof is
worded like another and one as nothing, and rows and their evidence are read in every order.  Three endpoints in two places are
the least with one that waits; the three operations between them apply every check and leave every check
out; 15 requests are exactly what a complete test takes, and 5 run out in the middle of any of them.  What the runs show
for few workers, controls, callers and ticks, the theorems below show for any number.

Deadlock is checked in every run but `custom`, where the engine really stops.  A scan that has ended is not a deadlock: `Quiescent` of
`ScanLifecycle` and `Finished` of `Oast`, `ZapSession` and `Issues` are the steps of a system at rest (each says when that is, and
TLC reports a stop anywhere else), and `Tick` of the others is always possible once nothing is due.

### What the properties say

* `NeverOrphaned`, `PausedIsHeld`: each session writes only what differs from its own copy, so
  an unfinished status could survive with nobody at work, or `PAUSED` with nobody paused.
* `CancelBinds`: after a committed cancellation nobody withdraws it and no worker starts an engine or the
  reports, whatever copy of the row it holds.
* `CompletedIsClean`, `NothingPublishedOnFailure`, `VerdictHasReports`: the verdict agrees
  with what was measured and stored, on every way out of `run`.
* `DocumentIsKept`: the submitted document is deleted in a commit of its own before its endpoints are stored; with any
  faults and deliveries it is lost only with a worker that ends in between, and no other inventory is stored
  while it is there.
* `OrphansAreExplained`: with faults a row may stay unfinished with nobody to go on; three causes do that, and no
  other order of the same faults does.
* `KeepsLifecycle`: the worker implements `ScanJob`, although three sessions write the row
  and each writes only what it changed.
* `AcceptedScanEnds`: every accepted scan ends, cancelled, paused or not.
* `KeepsPromise`, `RedirectsBounded`, `WaitersServed`: the budget under concurrency.
* `UncountedIsBounded`, `FallsSilent`: requests outlive the job they belong to, so that the count of a
  run is not final; they are no more than were under way, and they end.
* `OneRowEach`, `ClaimsWithinBudget`: an endpoint's test can end in many ways, each with its own
  list of rows, while others spend the budget; the matrix is right on all of them.
* `CompleteIsMeasured`: rows are lost or given up by exceptions, and what is missing must not look complete.
* `ExecuteEnds`: a failed test passes on its place.
* `HitIsTrue`, `NothingMissed`, `ProbeEnds`: reading the event consumes it, and the answer may be
  lost; a stored callback comes back after it was consumed.  The check may say ERROR, never a clean
  test of a token that was called back in time, unless the key expired unread.
* `AnsweredIsReaped`, `CompletedIsTrue`, `WorkerReturns`: the supervision of a tool.
* `RulesAreOwn`, `SpecificationsRemoved`, `CompletedIsWhole`, `EngineReturns`: an execution that stops
  after any call, executed or not, leaves the daemon as it is, and the next must not send requests with its leftovers.
  `RulesAreOwn` also says what else runs under the rules of a scan: only active scans of executions that were cut off or
  got no number, since the code does not stop those.
* `NothingLost`, `RowsAreReported`, `RiskIsBacked`, `RedeliveryKeepsIssues`: the draft that speaks
  for its group decides where the whole group is reported; columns are raised one by
  one; and what was reported stays reported when the scan is run again.  `RedeliveryKeepsIssues` compares what
  issues say (`Said`), not their numbers, the order of their locations, or their examples, which follow the order in which the rows are
  read.

## Fairness

* `ScanLifecycle`: a request that was read is committed or fails; a free worker takes a waiting
  message and goes on to the next statement (Celery and the event loop; every engine call is
  bounded by `wait_for`); time passes, so that the deadline of a running scan comes.  Nothing is
  assumed of clients: nobody must submit, cancel or resume.
* `ProxiedRun`: the event loop runs whoever may enter or has slept enough, every handler goes on
  with its request, time passes, and every request to the target ends (the client has a time-out).
  `asyncio.Lock` serves its waiters in order.  Nothing is assumed of the tool or of cancellations.
* `CustomEngine`: every request ends (the client has a timeout) and a free place is taken.
* `Oast`: the engine takes its next step; each of its requests ends (a time-out of three seconds).
  Nothing is assumed of Redis, the collector or the target.
* `ZapSession`: every call ends (a time-out of 30 seconds) and the deadline of the polling comes.
  Nothing is assumed of the active scan, which may run for ever, or of cancellation.
* `EngineRunner`: timers fire and time passes.  Nothing is assumed of the tool or the connection.

## Findings

Each is a run TLC ends with a counterexample.

* `soft_limit`: the soft time limit of Celery equals the longest deadline; raised in an `await`
  it cancels the task with `CancelledError`, which `run` does not catch, and the row never ends.
* `tool_deadline`: after the first output on both streams the tool is waited for without limit.
* `attack_outlives`: `wait_for` cancels `ZapEngine.execute` at the deadline, and nothing tells the daemon
  to stop (`action/stop` is called only by the engine's own deadline, which is later): ZAP goes
  on attacking after the engine is reported as TIMEOUT.

All three are measured against SECURITY.md:13, "hard worker/tool deadlines remain in force".

The models show more that is documented here and not kept as runs.

Of the lifecycle:

* `run` checks the row it loaded and `_stage` writes `INITIALIZING` without looking again, over a
  `CANCELLED` that was committed in between; `docs/API.md:33` calls CANCELLED terminal.
  `ScanJob` allows it (`ShowLate`, then `Advance`), and `CancelBinds` says what is still true.
* A worker lost after its last commit but before the acknowledgement: the finished scan is run and published
  again, since `run` refuses only cancelled scans.
* The deadline, or an exception, takes the custom engine's baselines away after the target answered, and the scan
  ends as unreachable, which `docs/API.md:35` says of a target without any HTTP response.  No table keeps what the
  engine had measured, so no property of the model can tell the two apart.
* A worker lost while a cancellation is pending leaves the row unfinished (the redelivered task returns at once, `Discard`);
  so does an API process lost before it publishes the message (`OrphansAreExplained`).
* A worker lost between `ConsumePayload` and `SaveEndpoints` makes the next one test what discovery finds
  (`DocumentIsKept` allows the loss there and nowhere else).
* A statement that raises leaves the rows it had added to be committed by `_terminate`, so that a FAILED scan may have the endpoints
  or the findings it was about to store, in part.
* A scan paused before `SCANNING` shows `SCANNING` when it resumes and then an earlier phase (`ResumeCommit`).
* An engine that is SKIPPED neither counts as a partial failure nor is seen by the coverage, so the scan is
  COMPLETED (`PersistEngine`), while `docs/ARCHITECTURE.md:24` says that an engine gap produces PARTIAL.

Of the engines:

* The proxy follows redirects under one grant, so that a tool's requests can exceed the budget of
  `docs/ARCHITECTURE.md:39`; `RedirectsBounded` says by how much.
* A cancelled or failed ZAP engine leaves its active scan running, a lost worker its
  specification file as well.  An active scan left running sends its requests with the authentication of the scan that comes
  next (`RulesAreOwn` exempts it).  Alerts are read while ZAP's passive scanner may still have work queued, and only the
  first 5000 of them.
* When ZAP answers the start of an active scan without a number, the engine says COMPLETED at once
  (`app/engines/external.py:400-408`), and an attack that was started goes on; `CompletedIsWhole` exempts it.

Of the findings:

* `docs/ARCHITECTURE.md:63` has it that matching drafts become one finding; after a second delivery there are two
  rows for each fingerprint, and the counts of findings and checks double.  The issues say the same
  (`RedeliveryKeepsIssues`).
* The severity, confidence and risk of an issue may come from three findings, so that the risk is not the product that
  `docs/ARCHITECTURE.md:69-72` describes; it is never more than that product (`RiskIsBacked`).
* Issues of equal severity, risk and title get their identifiers in the order in which the database returns the rows, and
  `Orchestrator.run` asks for none (`app/services/orchestrator.py:272`); locations that differ in their parameter only
  get theirs so, and more than three different proofs the three that are shown.  A second report on the same findings may
  differ in these, and in nothing else (`RedeliveryKeepsIssues`).
* The representative is chosen by severity first, then the confidence of a second engine is added: a
  HIGH/LOW draft (4.4) may stand for a MEDIUM/HIGH one (5.5).

## Proofs

| Module | Theorem | Says | Needs, besides the named assumptions on the constants |
|---|---|---|---|
| `ScanLifecycleProofs` | `TypeCorrect` | `Spec => []TypeOK` | |
| | `CancellationBinds` | `Spec => CancelBinds` | nothing: any faults |
| | `VerdictsHaveReports` | `Spec => []VerdictHasReports` | nothing: any faults |
| | `DocumentsAreKept` | `Spec => DocumentIsKept` | nothing: any faults |
| | `OrphansExplained` | `Spec => []OrphansAreExplained` | nothing: any faults |
| | `NothingOrphaned` | `Spec => []NeverOrphaned` | `MaxFaults = 0` |
| | `PausedScansAreHeld` | `Spec => []PausedIsHeld` | `MaxFaults = 0` |
| `ScanLifecycleOnce` | `FailuresPublishNothing` | `Spec => []NothingPublishedOnFailure` | `MaxCopies = 1`, `MaxFaults = 0` |
| | `CompletionIsClean` | `Spec => []CompletedIsClean` | the same |
| | `LifecycleIsKept` | `Spec => KeepsLifecycle`, that is, `ScanJob!Spec` under the mapping | the same |
| `ProxiedRunProofs` | `BudgetIsKept` | `Spec => KeepsPromise`, that is, `PacedBudget!Spec` | |
| | `ProxyKeepsPromise` | `ProxiedSpec => KeepsPromise` | |
| | `RedirectsAreBounded` | `Spec => []RedirectsBounded` | |
| | `ProxyRedirectsAreBounded` | `ProxiedSpec => []RedirectsBounded` | |
| | `UncountedAreBounded` | `ProxiedSpec => []UncountedIsBounded` | |
| | `LockIsPassedOn` | `Spec => [](Queued /\ HeldBySleeper /\ PassedOn)` | |
| | `ProxyTypeCorrect` | `ProxiedSpec => []ProxyTypeOK` | |
| `CustomEngineProofs` | `TypeCorrect` | `Spec => []TypeOK` | |
| | `RowsAreComplete` | `Spec => []OneRowEach` | |
| | `CompletenessIsMeasured` | `Spec => []CompleteIsMeasured` | |
| | `ClaimsAreGranted` | `Spec => []ClaimsWithinBudget` | |
| `OastProofs` | `TypeCorrect` | `Spec => []TypeOK` | |
| | `HitsAreTrue` | `Spec => []HitIsTrue` | |
| | `NothingIsMissed` | `Spec => []NothingMissed` | |
| `EngineRunnerProofs` | `TypeCorrect` | `Spec => []TypeOK` | |
| | `ToolsAreReaped` | `Spec => []AnsweredIsReaped` | |
| | `CompletionIsTrue` | `Spec => []CompletedIsTrue` | |
| `ZapSessionProofs` | `TypeCorrect` | `Spec => []TypeOK` | |
| | `OwnRulesOnly` | `Spec => []RulesAreOwn` | |
| | `FilesAreRemoved` | `Spec => []SpecificationsRemoved` | |
| | `CompletionIsWhole` | `Spec => []CompletedIsWhole` | |
| `IssuesProofs` | `TypeCorrect` | `Spec => []TypeOK` | |
| | `NothingIsLost` | `Spec => []NothingLost` | |
| | `RowsReachTheReport` | `Spec => []RowsAreReported` | |
| | `RiskIsAlwaysBacked` | `Spec => []RiskIsBacked` | |
| | `RedeliveriesKeepIssues` | `Spec => RedeliveryKeepsIssues` | |

The assumptions on the constants only give them their kinds: numbers that are
natural, a list of engines that begins with the custom one.  `NamesAssumption` of `CustomEngine` says that no two
checks have one name, as in the source, where each is written out once.  The hypotheses of
`ScanLifecycleOnce` are those of an undisturbed broker: a second delivery works on the
rows of the first and may end otherwise, so that none of the three properties holds of it; what is left then
is in `ScanLifecycleProofs`.

`TypeCorrect` of `ScanLifecycle`.  `TypeOK` is inductive; the only arithmetic is that the progress of `FinishEngine`
stays within 0..100, which needs `index <= Len(Engines)`.

`CancellationBinds`.  A session writes `cancel` only if it changed it in its own copy, and nobody ever sets
it back; the operators `Flush` and `Stage` are shown to keep it (`FlushColumns`, `HelperFields`).  The
stages that start something are entered from a checkpoint, whose refresh sees the cancellation; a worker in
`resuming` is the one exception, since its refresh came before.  The step needs only `TypeOK` and `Untouched`
(before `create_scan` commits there is nothing to cancel), so it holds under any faults.

`VerdictsHaveReports`.  The property alone is not inductive: it says nothing of a worker that is about to publish.
`VerdictInv` adds `Earned`: a worker past `SaveFindings`, or in the checkpoint after it, finds findings committed, by itself or
by an earlier delivery, and a worker in `Terminate` never writes a verdict of success.  Findings and reports
are only ever added, so `Earned` survives everybody else's steps, crashes and redeliveries included.

`OrphansExplained`, `NothingOrphaned`, `PausedScansAreHeld`.  `NeverOrphaned` and `OrphansAreExplained` speak of the row and of
who is running, but what the last commit will write depends on each session's copy.  `AttendedInv` says that some
worker's copy is still open (`HoldsOpen`: it will commit again and does not take the scan for ended), or that a fault of one
of the three kinds has left the row (`Left`), that a row still QUEUED has no cancellation and no
control request that thinks otherwise (`WaitingIsUncancelled`), and, as long as there was no fault, that a row showing PAUSED has a
worker that will look at it again or write over it (`HoldsPause`).  It holds under any faults; without them
nothing is `Left`, which is `NothingOrphaned`.

`DocumentsAreKept`.  `DocumentInv` says that while the document is in its row, no worker is about to store another
inventory, in its rows or among those that `_terminate` would commit for it, and that a worker that read the document has endpoints
to store (`Orderly`).  So the document goes from the row into a worker's hands and from there into the endpoints, and every other
step is `Quiet`.

`ScanLifecycleOnce`.  Its properties speak of what the tables hold when the scan ends, which is decided
many steps before, by statements that read other statements' leavings.  `OnceInv` says that there is one delivery
(`OneDelivery`: the message is waiting, or one worker holds it, so that two never run), and then, for
the statement that worker is at, what is known: of the engine rows (`KnowsResult`, `KnowsEngines`: the rows are
those of the engines before `index`, and a row that is not clean is remembered as a partial failure), and of the outcome the worker is about
to write and the rows that its last commit will add (`KnowsOutcome`).  A control request may commit a pause or a cancellation over any of it: it never
touches the tables, and leaves neither COMPLETED nor one of the worker's errors in the row (`Open`).

`LifecycleIsKept`.  The mapping reads the phase from the worker's statement, and the row shows what some session
wrote last, so the invariant must say how the two differ.  `ToldInv`: the row shows
the status of the worker's own copy, or an outcome that came late over it; before the
delivery only outcomes can have come over QUEUED, and every request under way has read QUEUED then.  With it every step of
`Next` is one of `ScanJob` or a stutter (`JobStep`), action by action.

`BudgetIsKept`.  The step from `Sleep` to `GrantAfterSleep` acts on decisions taken before the sleep.
`SleeperHolds` says why they are still right: whoever sleeps holds the lock, so nobody else was granted
anything; there was budget left and there still is; and what is left of its sleep and the age of the last grant make
up the interval.  Under it every step is a `Grant`, a `Tick` or a stutter of `PacedBudget`.

`ToolsAreReaped`, `CompletionIsTrue`.  `Handled` ties the place of the handler to the tool and to the answer: no tool before
`Start`, no answer before the end, COMPLETED only of a success.

`ProxyKeepsPromise`, `UncountedAreBounded`.  Every step of the proxy is a step of `RequestBudget` or leaves it
alone, so the first follows from `BudgetInv`.  For the second, a request that has not been granted anything
(`Pending`) is paid for by one that held the job when it was removed: `Accounted` says that grants
made plus requests pending never exceed what was reported plus what was held; a grant moves one
from the one sum to the other, and after the removal nobody is admitted.

`RedirectsAreBounded`, `ProxyRedirectsAreBounded`.  The bound alone is not inductive, since a request under way will send more
without a new grant.  `Owed` is the set of the hops that granted requests may still take, and `RedirectInv`
that what was sent and what is owed stay within `(MaxRedirects + 1) * count`: a grant adds a whole
request to both sides, a hop moves one from owed to sent, and an end or a cancellation drops what is left.

`LockIsPassedOn`, `ProxyTypeCorrect`.  The safety half of `WaitersServed`: whoever has the lock sleeps with it
(`HeldBySleeper`), and the queue is exactly the callers that wait, once each (`Queued`), which has to be shown through
`RemoveFirst` of a cancelled caller.  Together they say that a queue is never left to nobody
(`PassedOn`); that its first really goes on is fairness.  `Queued` is also what was missing for the types of the queue.

`RowsAreComplete`.  `RowsInv`: as long as a test runs, its rows are the first ones of one fixed `Order`, as many as
its place in the code says, and the rows of the active checks that will follow are those of `Active` in
order, so that every way out, the `except` clauses included, completes the same list.  That the rows have one
name each then follows from `NamesAssumption`.

`CompletenessIsMeasured`.  A property of the end of all tests, about mutations made long before.  The invariant
says of every mutation within the limit of the profile that it is still to come, was
answered, or the row of its check is among the `NotAttempted` (`Accounted`), through every step and every way out; a test
that has ended has nothing to come, so what its rows call attempted was answered.  `Heard` and `Compared` say the same of
the baselines and of the comparisons.

`ClaimsAreGranted`.  Rows are written by tests that share one counter, and a row counts several requests.
`ClaimInv` follows the set of claims: a step writes claims into one row of one
endpoint, and no other row claims more (`Extra`), while the counter grows by at least as many; a
row keeps its claims when it moves from `activeRows` to `rows` (`Sequenced`, its number in `Written` is the same).  So the
cardinality of the union grows by no more than the counter does.

`TypeCorrect` of `Oast`.  Of the bounds in `TypeOK` only the number of callbacks is not local to a step: `Conserved` says that a
callback is at one step of its handler, so that steps move callbacks and only a new one counts.

`HitsAreTrue`.  `Heard`: a key is "1", and a poll answers with a hit, only after a callback was stored; callbacks
are sent only for a mutated token.

`NothingIsMissed`.  `Kept` follows a callback that was heard and has not expired from the key into the answer:
either its token is already judged ERROR or hit, or it is the current token and the hit is still in its
key or in the answer on its way, and the last poll will not miss it.  `InLoop` gives each place of the engine the answers
that can be there, and leaves later tokens untouched.

`OwnRulesOnly`, `FilesAreRemoved`, `CompletionIsWhole`.  Nothing is assumed of the state a scan finds: `OwnRules` says what each
call of the preparation has established when the next one is sent (the rules
are what was listed and not yet removed, then empty, then the scan's own), `OwnFiles` that a file belongs to the execution that
wrote it or to a lost one, `OwnAttacks` that the alerts come only after an active scan that ended by itself or had no number, and that
whatever still runs is of the execution under way, or of one that was cut off or had no number, since every other way out saw its
active scan end or stopped it.

`IssuesProofs`.  The invariant `Inv` is short: the rows are those of all the batches, and the last report is one on
the rows of the batches that were committed when it was made.  The work is in the operators.
An order of a finite set puts each element at its rank, every rank is taken, and once (`InOrderIs`, by a
count of what comes before), from which `Only`, `Sorted` and `Distinct` follow: nothing added, nothing lost, in order.
Instead of induction, the least index at which a claim fails is refuted (`Least`).  `LoopInv` is the invariant of the
loop of `pentest_payload`: one issue for each kind seen, each column the highest of its findings
(`Raised`), one location for each of their places (`Located`).  One turn of the loop keeps it (`AddKeeps`), so it holds of all
findings (`GroupedTells`), and sorting leaves it alone (`PayloadIs`).  `NothingIsLost` is `CorrelatedIs`, the same for the
groups of fingerprints.  `RiskIsAlwaysBacked` needs that the risk does not fall when severity or confidence rise (`RiskIs`).
For `RedeliveriesKeepIssues`, `LoopInv` determines what an issue says, though not the report: each column is the highest of the same findings
(`HighestOnce`), the locations are as many as their places, once each (`PlacesAre`), and one issue for each kind makes
the reports equally long (`ReportAgain`).  `LoopInv` is about the rows as they were read; since it does not speak of the
order of their evidence, it is also about the rows themselves (`ReadIs`, `AlikeTell`).

Only model-checked:

* the liveness properties (`AcceptedScanEnds`, `WaitersServed`, `FallsSilent`, `WorkerReturns`, `ExecuteEnds`,
  `ProbeEnds`, `EngineReturns`): fairness and ENABLED are out of the prover's reach.

Every invariant of the passing runs, and every action property and refinement, is stated by a theorem.

## Plan

Done: `ScanLifecycle` and its refinement of `ScanJob`; `RequestBudget` and `ProxiedRun`; `EngineRunner`; `ZapSession`;
`CustomEngine`; `Oast`; `Issues`; all of them with their theorems.

Left, the most important first:

1. `Probes`: which mutations a check makes of a template and in which order (`app/security_tests/input_validation.py`,
   `CustomEngine._mutation_points`), as pure functions under the limit of the profile.
2. Theorems about more than one delivery: which part of `OnceInv` survives a redelivery, so that `CompletionIsClean`
   can be stated of the last delivery instead of the only one.

Runs are few on purpose.  A finding's run gives way where a property of a passing run says the same.

## Not modelled

Validation and parsing of documents (`app/ingestion/openapi.py`), the rules of the static analysis, the
normalisation of a tool's findings and of ZAP's alerts, report layout, logging, configuration, encryption, the dashboard, the
fixture API and the deployment files keep no state over time, or are data conversion.  Address classification in `ScopeGuard`
is a matter of a library.
What the payloads of the security tests provoke in a target is not modelled: an engine's
outcome is any outcome.
