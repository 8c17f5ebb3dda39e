--------------------------- MODULE ScanLifecycle ---------------------------
(***************************************************************************)
(* The life of one scan: the API that submits and controls it              *)
(* (app/api/routes.py, app/services/scan_service.py), the broker and the   *)
(* Celery workers that run it (app/workers/) and the orchestrator          *)
(* (app/services/orchestrator.py), meeting in the rows of the database.    *)
(*                                                                         *)
(* Every commit is a step of its own, and so is every read that a later    *)
(* commit relies on.  A session keeps the copy of the row it loaded, and   *)
(* its UPDATE names only the columns whose value differs from that copy    *)
(* (SessionLocal has expire_on_commit=False), so what one session does not *)
(* change it does not overwrite, and what it does change it overwrites     *)
(* whatever has happened to the row since it was read.                     *)
(***************************************************************************)
EXTENDS Integers, Sequences, FiniteSets

CONSTANTS
    Workers,    \* worker processes; each runs one task at a time
    Controls,   \* requests to cancel, pause or resume the scan
    Engines,    \* the names _engines puts in order: "custom", then the others
    Outcomes,   \* bound: the engine results that occur
    MaxCopies,  \* bound: copies of the task message the broker ever delivers
    Faults,     \* the kinds of fault the environment may inject
    MaxFaults   \* bound: faults in one behaviour

FaultKinds == {"api_lost", "worker_lost", "soft_limit"}

ASSUME EnginesAssumption ==
    /\ Engines \in Seq(STRING)
    /\ Len(Engines) > 0
    /\ \A i \in 1 .. Len(Engines) : (Engines[i] = "custom") <=> (i = 1)

ASSUME BoundsAssumption ==
    /\ MaxCopies \in Nat \ {0}
    /\ Faults \subseteq FaultKinds
    /\ MaxFaults \in Nat

-----------------------------------------------------------------------------
(* The scans row and the unit of work of a session. *)

Terminal == {"COMPLETED", "PARTIAL", "FAILED", "CANCELLED", "TIMEOUT"}

ScanStatus == Terminal \union
    {"QUEUED", "INITIALIZING", "DISCOVERING", "SCANNING", "CORRELATING",
     "REPORTING", "PAUSED"}

Errors == {"none", "dispatch", "cancelled", "deadline", "unreachable", "other"}

Scan == [status : ScanStatus, progress : 0 .. 100, cancel : BOOLEAN,
         pause : BOOLEAN, finished : BOOLEAN, error : Errors]

QueuedScan == [status |-> "QUEUED", progress |-> 0, cancel |-> FALSE,
               pause |-> FALSE, finished |-> FALSE, error |-> "none"]

\* Mutant: the session writes every column it holds.
FlushAllColumns(db, loaded, new) == new

\* The row after the UPDATE of a session that loaded "loaded" and assigned "new".
Flush(db, loaded, new) ==
    LET column(l, n, d) == IF n = l THEN d ELSE n IN
    [status   |-> column(loaded.status, new.status, db.status),
     progress |-> column(loaded.progress, new.progress, db.progress),
     cancel   |-> column(loaded.cancel, new.cancel, db.cancel),
     pause    |-> column(loaded.pause, new.pause, db.pause),
     finished |-> column(loaded.finished, new.finished, db.finished),
     error    |-> column(loaded.error, new.error, db.error)]

(* What an engine leaves in scan_engines: how it ended, which share of the  *)
(* endpoints its baseline reached, and whether an applicable runtime check  *)
(* was skipped or failed (only the custom engine reports checks).           *)

Shares == {"none", "some", "all"}

EngineNames == {Engines[i] : i \in 1 .. Len(Engines)}

EngineResult == [engine : EngineNames,
                 status : {"COMPLETED", "FAILED", "SKIPPED", "TIMEOUT"},
                 baseline : Shares, gap : BOOLEAN]

ASSUME OutcomesAssumption == Outcomes \subseteq EngineResult

NoResult == [engine |-> "custom", status |-> "SKIPPED", baseline |-> "none",
             gap |-> FALSE]

(* The local state of Orchestrator.run: pc names the statement it is at.    *)

Locations == {"idle", "init", "validate", "checkpoint", "pausing", "resuming",
              "discover", "inventory", "consume", "endpoints", "context",
              "engine", "persist", "baselines", "progress", "correlate",
              "findings", "reporting", "assess", "publish", "terminate", "ack"}

Continuations == {"discover", "context", "engine", "reporting"}

\* Rows that an exception leaves in the session: endpoints of one origin, or findings.
Pending == {"none", "submitted", "fetched", "findings"}

Worker == [pc : Locations,
           scan : Scan,              \* the session's copy of the row
           next : Continuations,     \* where the current _checkpoint returns to
           index : 1 .. Len(Engines), \* the engine of the loop
           result : EngineResult,    \* its result
           failed : BOOLEAN,         \* partial_failures is not empty
           origin : {"submitted", "fetched"},  \* of the inventory
           found : BOOLEAN,          \* the inventory has endpoints
           tested : Shares,          \* baselines of the endpoint objects it holds
           expired : BOOLEAN,        \* time.monotonic() >= deadline
           pending : Pending,        \* rows added to the session, not committed
           verdict : Terminal, error : Errors]  \* what it is about to commit

IdleWorker == [pc |-> "idle", scan |-> QueuedScan, next |-> "discover",
               index |-> 1, result |-> NoResult, failed |-> FALSE,
               origin |-> "fetched", found |-> FALSE, tested |-> "none",
               expired |-> FALSE, pending |-> "none", verdict |-> "FAILED",
               error |-> "none"]

Actions == {"cancel", "pause", "resume"}

Control == [state : {"free", "read", "done"}, action : Actions, loaded : Scan]

NewControl == [state |-> "free", action |-> "cancel", loaded |-> QueuedScan]

AnsweredControl == [NewControl EXCEPT !.state = "done"]

VARIABLES
    submit,     \* the submitting request: "start", "saved", "accepted", ...
    inline,     \* it carried its specification or Postman collection
    row,        \* the scans row
    payload,    \* the encrypted _INGESTION_PAYLOAD row exists
    endpoints,  \* the endpoints rows: where they come from, how many are TESTED
    engineRows, \* the scan_engines rows
    findings,   \* batches of findings committed, in whole or in part
    reports,    \* batches of reports committed
    queue,      \* copies of the task message waiting in the broker
    copies,     \* copies the broker has held so far
    control,    \* the control requests
    worker,     \* the workers
    faults      \* faults so far, of each kind

tables == <<payload, endpoints, engineRows, findings, reports>>
broker == <<queue, copies>>
vars == <<submit, inline, row, tables, broker, control, worker, faults>>

TypeOK ==
    /\ submit \in {"start", "saved", "accepted", "unavailable", "rejected", "lost"}
    /\ inline \in BOOLEAN
    /\ row \in Scan
    /\ payload \in BOOLEAN
    /\ endpoints \in [origins : SUBSET {"submitted", "fetched"},
                      tested : Shares \union {"pending"}]
    /\ engineRows \in SUBSET EngineResult
    /\ findings \in Nat
    /\ reports \in Nat
    /\ queue \in Nat
    /\ copies \in Nat
    /\ control \in [Controls -> Control]
    /\ worker \in [Workers -> Worker]
    /\ faults \in [FaultKinds -> 0 .. MaxFaults]

Init ==
    /\ submit = "start"
    /\ inline = FALSE
    /\ row = QueuedScan
    /\ payload = FALSE
    /\ endpoints = [origins |-> {}, tested |-> "pending"]
    /\ engineRows = {}
    /\ findings = 0
    /\ reports = 0
    /\ queue = 0
    /\ copies = 0
    /\ control = [c \in Controls |-> NewControl]
    /\ worker = [w \in Workers |-> IdleWorker]
    /\ faults = [kind \in FaultKinds |-> 0]

-----------------------------------------------------------------------------
(* The submitting request: create_scan, then _dispatch. *)

\* create_scan refuses the request (scope, document, target): nothing is stored.
RejectRequest ==
    /\ submit = "start"
    /\ submit' = "rejected"
    /\ UNCHANGED <<inline, row, tables, broker, control, worker, faults>>

CreateScan(document) ==
    /\ submit = "start"
    /\ submit' = "saved"
    /\ inline' = document
    /\ row' = QueuedScan
    /\ payload' = document
    /\ UNCHANGED <<endpoints, engineRows, findings, reports, broker,
                   control, worker, faults>>

\* run_scan.delay: the broker holds one more copy of the message.
Enqueue ==
    /\ queue' = queue + 1
    /\ copies' = copies + 1

Dispatch ==
    /\ submit = "saved"
    /\ submit' = "accepted"
    /\ Enqueue
    /\ UNCHANGED <<inline, row, tables, control, worker, faults>>

\* delay raises: the session, which still holds the row as it created it, marks it
\* FAILED.  The message may have reached the broker before the connection broke.
DispatchFails(published) ==
    /\ submit = "saved"
    /\ submit' = "unavailable"
    /\ row' = Flush(row, QueuedScan,
                    [QueuedScan EXCEPT !.status = "FAILED", !.error = "dispatch"])
    /\ IF published THEN Enqueue ELSE UNCHANGED broker
    /\ UNCHANGED <<inline, tables, control, worker, faults>>

-----------------------------------------------------------------------------
(* _control: the request reads the row, answers 409 if it is terminal, and *)
(* commits what it decided from what it read.                               *)

ControlRead(c, action) ==
    /\ control[c].state = "free"
    /\ submit \notin {"start", "rejected"}
    /\ control' = [control EXCEPT ![c] =
         IF row.status \in Terminal
         THEN AnsweredControl
         ELSE [state |-> "read", action |-> action, loaded |-> row]]
    /\ UNCHANGED <<submit, inline, row, tables, broker, worker, faults>>

\* Mutant: the status of a waiting scan is not set, the flag alone is.
RequestedFlagOnly(action, scan) ==
    [scan EXCEPT !.cancel = @ \/ action = "cancel",
                 !.pause = (@ \/ action = "pause") /\ action # "resume"]

\* Mutant: the status is set whatever it was.
RequestedUnconditional(action, scan) ==
    IF action = "cancel"
    THEN [scan EXCEPT !.cancel = TRUE, !.status = "CANCELLED", !.finished = TRUE]
    ELSE [scan EXCEPT !.pause = (action = "pause")]

Requested(action, scan) ==
    CASE action = "cancel" ->
           IF scan.status = "QUEUED"
           THEN [scan EXCEPT !.cancel = TRUE, !.status = "CANCELLED", !.finished = TRUE]
           ELSE [scan EXCEPT !.cancel = TRUE]
      [] action = "pause"  -> [scan EXCEPT !.pause = TRUE]
      [] action = "resume" -> [scan EXCEPT !.pause = FALSE]

ControlCommit(c) ==
    /\ control[c].state = "read"
    /\ row' = Flush(row, control[c].loaded,
                    Requested(control[c].action, control[c].loaded))
    /\ control' = [control EXCEPT ![c] = AnsweredControl]
    /\ UNCHANGED <<submit, inline, tables, broker, worker, faults>>

-----------------------------------------------------------------------------
(* What the steps of Orchestrator.run are made of. *)

At(w, location) == worker[w].pc = location

\* A step of worker w that touches its local state only.
Local(w, new) ==
    /\ worker' = [worker EXCEPT ![w] = new]
    /\ UNCHANGED <<submit, inline, row, broker, control, faults>>

\* A commit of worker w: it assigned "scan", and goes on as "new" says.
Commit(w, scan, new) ==
    /\ row' = Flush(row, worker[w].scan, scan)
    /\ worker' = [worker EXCEPT ![w] = [new EXCEPT !.scan = scan]]
    /\ UNCHANGED <<submit, inline, broker, control, faults>>

Goto(w, location) == [worker[w] EXCEPT !.pc = location]

CheckpointThen(w, location) == [worker[w] EXCEPT !.pc = "checkpoint", !.next = location]

\* An exception that run catches: its locals are gone, _terminate will commit this
\* outcome.
Raise(w, status, error) ==
    [IdleWorker EXCEPT !.pc = "terminate", !.scan = worker[w].scan,
                       !.verdict = status, !.error = error]

Staged(w, status, progress) ==
    [worker[w].scan EXCEPT !.status = status, !.progress = progress]

\* _stage
Stage(w, status, progress, new) ==
    /\ Commit(w, Staged(w, status, progress), new)
    /\ UNCHANGED tables

\* What a statement that raises may have added to the session before it did.
Unflushed(w) ==
    CASE At(w, "endpoints") /\ worker[w].found -> {"none", worker[w].origin}
      [] At(w, "findings") -> {"none", "findings"}
      [] OTHER -> {"none"}

\* A statement of the try block raises: the outermost handler ends the scan FAILED.
\* Nothing is rolled back, so the rows added before it stay in the session.
StepFails(w) ==
    /\ worker[w].pc \in {"validate", "inventory", "endpoints", "context",
                         "findings", "assess"}
    /\ \E rows \in Unflushed(w) :
         Local(w, [Raise(w, "FAILED", "other") EXCEPT !.pending = rows])
    /\ UNCHANGED tables

\* run_scan starts: run loads the row and computes its deadline.
Receive(w) ==
    /\ queue > 0
    /\ At(w, "idle")
    /\ ~ (row.cancel \/ row.status = "CANCELLED")
    /\ queue' = queue - 1
    /\ worker' = [worker EXCEPT ![w] = [IdleWorker EXCEPT !.pc = "init", !.scan = row]]
    /\ UNCHANGED <<submit, inline, row, tables, copies, control, faults>>

\* run returns at once for a cancelled scan, and the message is acknowledged.
Discard(w) ==
    /\ queue > 0
    /\ At(w, "idle")
    /\ row.cancel \/ row.status = "CANCELLED"
    /\ queue' = queue - 1
    /\ UNCHANGED <<submit, inline, row, tables, copies, control, worker, faults>>

Initialize(w) ==
    /\ At(w, "init")
    /\ Stage(w, "INITIALIZING", 5, Goto(w, "validate"))

ValidateTarget(w) ==
    /\ At(w, "validate")
    /\ Local(w, CheckpointThen(w, "discover"))
    /\ UNCHANGED tables

-----------------------------------------------------------------------------
(* _checkpoint: refresh the row, then decide. *)

Refreshed(w, new) ==
    /\ At(w, "checkpoint")
    /\ Local(w, [new EXCEPT !.scan = row])
    /\ UNCHANGED tables

CheckpointCancelled(w) ==
    /\ row.cancel
    /\ Refreshed(w, Raise(w, "CANCELLED", "cancelled"))

\* Mutant: the deadline is not looked at while the scan is paused.
CheckpointTimedOutUnpaused(w) ==
    /\ ~ row.cancel /\ ~ row.pause
    /\ worker[w].expired
    /\ Refreshed(w, Raise(w, "TIMEOUT", "deadline"))

CheckpointTimedOut(w) ==
    /\ ~ row.cancel
    /\ worker[w].expired
    /\ Refreshed(w, Raise(w, "TIMEOUT", "deadline"))

Proceeds(w) == ~ row.cancel /\ ~ worker[w].expired /\ ~ row.pause

\* Mutant: a resumed scan returns from the checkpoint still marked PAUSED.
CheckpointPassedPaused(w) ==
    /\ Proceeds(w)
    /\ Refreshed(w, Goto(w, worker[w].next))

CheckpointPassed(w) ==
    /\ Proceeds(w)
    /\ row.status # "PAUSED"
    /\ Refreshed(w, Goto(w, worker[w].next))

CheckpointResumes(w) ==
    /\ Proceeds(w)
    /\ row.status = "PAUSED"
    /\ Refreshed(w, Goto(w, "resuming"))

ResumeCommit(w) ==
    /\ At(w, "resuming")
    /\ Commit(w, [worker[w].scan EXCEPT !.status = "SCANNING"], Goto(w, worker[w].next))
    /\ UNCHANGED tables

CheckpointPauses(w) ==
    /\ ~ row.cancel
    /\ ~ worker[w].expired
    /\ row.pause
    /\ Refreshed(w, Goto(w, "pausing"))

\* The commit, then a sleep of two seconds and the loop again.
PauseCommit(w) ==
    /\ At(w, "pausing")
    /\ Commit(w, [worker[w].scan EXCEPT !.status = "PAUSED"], Goto(w, "checkpoint"))
    /\ UNCHANGED tables

-----------------------------------------------------------------------------
(* Inventory. *)

StartDiscovery(w) ==
    /\ At(w, "discover")
    /\ Stage(w, "DISCOVERING", 15, Goto(w, "inventory"))

\* _inventory: the stored document if it is still there, else a fetch or discovery,
\* which alone may come back with no endpoint.
BuildInventory(w, some) ==
    /\ At(w, "inventory")
    /\ payload => some
    /\ Local(w, [worker[w] EXCEPT !.pc = IF payload THEN "consume" ELSE "endpoints",
                                  !.origin = IF payload THEN "submitted" ELSE "fetched",
                                  !.found = some])
    /\ UNCHANGED tables

\* _inventory deletes the ingestion row and commits.
ConsumePayload(w) ==
    /\ At(w, "consume")
    /\ payload' = FALSE
    /\ Local(w, Goto(w, "endpoints"))
    /\ UNCHANGED <<endpoints, engineRows, findings, reports>>

\* The endpoints rows once those of one more inventory are added.
Added(origin) == [origins |-> endpoints.origins \union {origin}, tested |-> "pending"]

\* Mutant: the rows of an earlier execution are replaced.
SaveEndpointsReplaces(w) ==
    /\ At(w, "endpoints")
    /\ endpoints' = IF worker[w].found
                    THEN [origins |-> {worker[w].origin}, tested |-> "pending"]
                    ELSE endpoints
    /\ Local(w, CheckpointThen(w, "context"))
    /\ UNCHANGED <<payload, engineRows, findings, reports>>

SaveEndpoints(w) ==
    /\ At(w, "endpoints")
    /\ endpoints' = IF worker[w].found THEN Added(worker[w].origin) ELSE endpoints
    /\ Local(w, CheckpointThen(w, "context"))
    /\ UNCHANGED <<payload, engineRows, findings, reports>>

\* The endpoints are committed, and analyze_specification raises over their document.
AnalysisFails(w) ==
    /\ At(w, "endpoints")
    /\ worker[w].found
    /\ endpoints' = Added(worker[w].origin)
    /\ Local(w, Raise(w, "FAILED", "other"))
    /\ UNCHANGED <<payload, engineRows, findings, reports>>

-----------------------------------------------------------------------------
(* The engine loop. *)

StartScanning(w) ==
    /\ At(w, "context")
    /\ Stage(w, "SCANNING", 30, [CheckpointThen(w, "engine") EXCEPT !.index = 1])

Result(engine, status, baseline, gap) ==
    [engine |-> engine, status |-> status, baseline |-> baseline, gap |-> gap]

\* How engine.run under wait_for can end.  The custom engine is SKIPPED without
\* endpoints and FAILED when no baseline got through; an exception and the deadline
\* discard what it had measured so far.
CustomResults(w) ==
    IF ~ worker[w].found
    THEN {Result("custom", "SKIPPED", "none", FALSE)}
    ELSE {Result("custom", s, b, g) :
            s \in {"COMPLETED", "FAILED"}, b \in {"some", "all"}, g \in BOOLEAN}
         \union {Result("custom", "FAILED", "none", FALSE)}
         \union IF worker[w].expired
                THEN {Result("custom", "TIMEOUT", "none", FALSE)} ELSE {}

ExternalResults(engine) ==
    {Result(engine, s, "none", FALSE) : s \in {"COMPLETED", "FAILED", "SKIPPED", "TIMEOUT"}}

RunEngine(w, result) ==
    LET engine == Engines[worker[w].index] IN
    /\ At(w, "engine")
    /\ result \in IF engine = "custom" THEN CustomResults(w) ELSE ExternalResults(engine)
    /\ Local(w, [worker[w] EXCEPT !.pc = "persist", !.result = result])
    /\ UNCHANGED tables

\* Mutant: only the last engine's failure is remembered.
PersistEngineLast(w) ==
    LET result == worker[w].result IN
    /\ At(w, "persist")
    /\ engineRows' = engineRows \union {result}
    /\ Local(w, [worker[w] EXCEPT
                   !.pc = IF result.engine = "custom" THEN "baselines" ELSE "progress",
                   !.failed = result.status \in {"FAILED", "TIMEOUT"}])
    /\ UNCHANGED <<payload, endpoints, findings, reports>>

PersistEngine(w) ==
    LET result == worker[w].result IN
    /\ At(w, "persist")
    /\ engineRows' = engineRows \union {result}
    /\ Local(w, [worker[w] EXCEPT
                   !.pc = IF result.engine = "custom" THEN "baselines" ELSE "progress",
                   !.failed = @ \/ result.status \in {"FAILED", "TIMEOUT"}])
    /\ UNCHANGED <<payload, endpoints, findings, reports>>

\* _apply_endpoint_baselines over every endpoint row of the scan: rows of another
\* inventory may have no baseline in this result.
Baselined(result) ==
    IF result.baseline = "all" /\ Cardinality(endpoints.origins) > 1
    THEN {"some", "all"}
    ELSE {result.baseline}

ApplyBaselines(w) ==
    /\ At(w, "baselines")
    /\ \E tested \in Baselined(worker[w].result) :
         IF endpoints.origins = {}
         THEN /\ endpoints' = endpoints
              /\ Local(w, Goto(w, "progress"))
         ELSE /\ endpoints' = [endpoints EXCEPT !.tested = tested]
              /\ Local(w, IF tested = "none"
                          THEN Raise(w, "FAILED", "unreachable")
                          ELSE Goto(w, "progress"))
    /\ UNCHANGED <<payload, engineRows, findings, reports>>

\* Mutant: the share of the loop is not divided by its length.
ProgressUndivided(i) == 30 + 40 * i

\* The progress shown after engine i of the loop: int() of a share of 40 points.
Progress(i) == 30 + (40 * i) \div Len(Engines)

FinishEngine(w) ==
    LET i == worker[w].index IN
    /\ At(w, "progress")
    /\ Stage(w, "SCANNING", Progress(i),
             IF i < Len(Engines)
             THEN [CheckpointThen(w, "engine") EXCEPT !.index = i + 1, !.result = NoResult]
             ELSE [Goto(w, "correlate") EXCEPT !.result = NoResult])

-----------------------------------------------------------------------------
(* Correlation, verdict, reports. *)

StartCorrelation(w) ==
    /\ At(w, "correlate")
    /\ Stage(w, "CORRELATING", 75, Goto(w, "findings"))

\* The findings are committed by _apply_endpoint_baselines, which reads its checks
\* from one of the custom engine's rows.
SaveFindings(w) ==
    /\ At(w, "findings")
    /\ findings' = findings + 1
    /\ \E custom \in {r \in engineRows : r.engine = "custom"} :
       \E tested \in Baselined(custom) :
         IF endpoints.origins = {}
         THEN /\ endpoints' = endpoints
              /\ Local(w, [CheckpointThen(w, "reporting") EXCEPT !.tested = "none"])
         ELSE /\ endpoints' = [endpoints EXCEPT !.tested = tested]
              /\ Local(w, [CheckpointThen(w, "reporting") EXCEPT !.tested = tested])
    /\ UNCHANGED <<payload, engineRows, reports>>

StartReporting(w) ==
    /\ At(w, "reporting")
    /\ Stage(w, "REPORTING", 90, Goto(w, "assess"))

\* calculate_coverage: the assessment status, from the endpoints tested and the checks
\* of every engine row.
Assessment(tested) ==
    CASE tested = "none" -> "INCOMPLETE"
      [] tested = "some" \/ (tested = "all" /\ \E r \in engineRows : r.gap) -> "PARTIAL"
      [] OTHER -> "COMPLETE"

\* Mutant: the verdict is committed before the reports are.
AssessCommits(w) ==
    /\ At(w, "assess")
    /\ LET verdict == IF worker[w].failed \/ Assessment(worker[w].tested) # "COMPLETE"
                      THEN "PARTIAL" ELSE "COMPLETED"
       IN Commit(w, [worker[w].scan EXCEPT !.status = verdict],
                 [Goto(w, "publish") EXCEPT !.verdict = verdict])
    /\ UNCHANGED tables

\* The verdict, and the report files; an error in writing them is a StepFails.
Assess(w) ==
    /\ At(w, "assess")
    /\ Local(w, [worker[w] EXCEPT
         !.pc = "publish",
         !.verdict = IF worker[w].failed \/ Assessment(worker[w].tested) # "COMPLETE"
                     THEN "PARTIAL" ELSE "COMPLETED"])
    /\ UNCHANGED tables

\* Mutant: one more checkpoint follows the reports.
PublishThenCheckpoint(w) ==
    /\ At(w, "publish")
    /\ Commit(w, [worker[w].scan EXCEPT !.status = worker[w].verdict, !.progress = 100,
                                        !.finished = TRUE],
              CheckpointThen(w, "reporting"))
    /\ reports' = reports + 1
    /\ UNCHANGED <<payload, endpoints, engineRows, findings>>

Publish(w) ==
    /\ At(w, "publish")
    /\ Commit(w, [worker[w].scan EXCEPT !.status = worker[w].verdict, !.progress = 100,
                                        !.finished = TRUE],
              [IdleWorker EXCEPT !.pc = "ack"])
    /\ reports' = reports + 1
    /\ UNCHANGED <<payload, endpoints, engineRows, findings>>

\* _terminate: its commit also stores the rows that the session still holds.
Terminate(w) ==
    /\ At(w, "terminate")
    /\ Commit(w, [worker[w].scan EXCEPT !.status = worker[w].verdict,
                                        !.error = worker[w].error, !.finished = TRUE],
              [IdleWorker EXCEPT !.pc = "ack"])
    /\ endpoints' = IF worker[w].pending \in {"submitted", "fetched"}
                    THEN Added(worker[w].pending) ELSE endpoints
    /\ findings' = IF worker[w].pending = "findings" THEN findings + 1 ELSE findings
    /\ UNCHANGED <<payload, engineRows, reports>>

\* acks_late: the message is acknowledged once the task has returned.
Acknowledge(w) ==
    /\ At(w, "ack")
    /\ Local(w, IdleWorker)
    /\ UNCHANGED tables

-----------------------------------------------------------------------------
(* Time, the broker and faults. *)

Running(w) == worker[w].pc \notin {"idle", "ack"}

DeadlinePasses(w) ==
    /\ worker[w].pc \notin {"idle", "terminate", "ack"}
    /\ ~ worker[w].expired
    /\ Local(w, [worker[w] EXCEPT !.expired = TRUE])
    /\ UNCHANGED tables

\* A message not acknowledged within the visibility timeout, or published twice by a
\* retry of the producer, is delivered again.
Redeliver ==
    /\ 0 < copies
    /\ copies < MaxCopies
    /\ Enqueue
    /\ UNCHANGED <<submit, inline, row, tables, control, worker, faults>>

\* Faults of all kinds so far.
FaultsSoFar == faults["api_lost"] + faults["worker_lost"] + faults["soft_limit"]

Fault(kind) ==
    /\ kind \in Faults
    /\ FaultsSoFar < MaxFaults
    /\ faults' = [faults EXCEPT ![kind] = @ + 1]
    /\ UNCHANGED <<inline, row, tables, copies, control>>

\* The API process dies between the commit of create_scan and delay.
ApiLost ==
    /\ submit = "saved"
    /\ submit' = "lost"
    /\ Fault("api_lost")
    /\ UNCHANGED <<queue, worker>>

\* Mutant: the message was acknowledged when the task began (no acks_late).
WorkerLostAcknowledged(w) ==
    /\ ~ At(w, "idle")
    /\ worker' = [worker EXCEPT ![w] = IdleWorker]
    /\ Fault("worker_lost")
    /\ UNCHANGED <<submit, queue>>

\* The worker's container dies: its message becomes visible again.
WorkerLost(w) ==
    /\ ~ At(w, "idle")
    /\ worker' = [worker EXCEPT ![w] = IdleWorker]
    /\ queue' = queue + 1
    /\ Fault("worker_lost")
    /\ UNCHANGED submit

\* The soft time limit cancels the task inside an await (run does not catch
\* CancelledError), the hard limit kills the child, or a statement of the database
\* fails and _terminate finds a session that needs a rollback: the message is
\* acknowledged and the row stays as it is.
Abandon(w) ==
    /\ Running(w)
    /\ worker' = [worker EXCEPT ![w] = IdleWorker]
    /\ Fault("soft_limit")
    /\ UNCHANGED <<submit, queue>>

\* Nothing is left to do.
Quiescent ==
    /\ submit \notin {"start", "saved"}
    /\ queue = 0
    /\ \A w \in Workers : At(w, "idle")
    /\ \A c \in Controls : control[c].state # "read"
    /\ UNCHANGED vars

-----------------------------------------------------------------------------

Submission ==
    \/ RejectRequest
    \/ \E document \in BOOLEAN : CreateScan(document)
    \/ Dispatch
    \/ \E published \in BOOLEAN : DispatchFails(published)

ControlRequest(c) ==
    \/ \E action \in Actions : ControlRead(c, action)
    \/ ControlCommit(c)

WorkerStep(w) ==
    \/ StepFails(w)
    \/ Receive(w)
    \/ Discard(w)
    \/ Initialize(w)
    \/ ValidateTarget(w)
    \/ CheckpointCancelled(w)
    \/ CheckpointTimedOut(w)
    \/ CheckpointPassed(w)
    \/ CheckpointResumes(w)
    \/ ResumeCommit(w)
    \/ CheckpointPauses(w)
    \/ PauseCommit(w)
    \/ StartDiscovery(w)
    \/ \E some \in BOOLEAN : BuildInventory(w, some)
    \/ ConsumePayload(w)
    \/ SaveEndpoints(w)
    \/ AnalysisFails(w)
    \/ StartScanning(w)
    \/ \E result \in Outcomes : RunEngine(w, result)
    \/ PersistEngine(w)
    \/ ApplyBaselines(w)
    \/ FinishEngine(w)
    \/ StartCorrelation(w)
    \/ SaveFindings(w)
    \/ StartReporting(w)
    \/ Assess(w)
    \/ Publish(w)
    \/ Terminate(w)
    \/ Acknowledge(w)

Environment ==
    \/ \E w \in Workers : DeadlinePasses(w)
    \/ Redeliver
    \/ ApiLost
    \/ \E w \in Workers : WorkerLost(w)
    \/ \E w \in Workers : Abandon(w)

Next ==
    \/ Submission
    \/ \E c \in Controls : ControlRequest(c)
    \/ \E w \in Workers : WorkerStep(w)
    \/ Environment
    \/ Quiescent

Spec == Init /\ [][Next]_vars

\* A request runs to its end, a free worker takes a waiting message, every statement
\* and every engine call ends (wait_for bounds it), and time passes.
Fairness ==
    /\ WF_vars(Dispatch \/ DispatchFails(FALSE))
    /\ \A c \in Controls : WF_vars(ControlCommit(c))
    /\ \A w \in Workers : WF_vars(WorkerStep(w))
    /\ \A w \in Workers : WF_vars(DeadlinePasses(w))

FairSpec == Spec /\ Fairness

-----------------------------------------------------------------------------
(* Safety. *)

\* A committed cancellation binds: no later write of any session withdraws it, and
\* from then on no worker starts the scan, an engine of it or its reporting, except
\* one whose last refresh of the row came before the commit (_checkpoint, _control).
CancelBinds ==
    [][row.cancel =>
         /\ row'.cancel
         /\ \A w \in Workers :
              /\ worker'[w].pc \in {"init", "engine", "reporting"}
              /\ worker'[w].pc # worker[w].pc
              => At(w, "resuming")]_vars

\* The row of a scan that has not ended is never left behind: either the scan is still
\* waiting and its request or its message is on the way, or a worker is running it and
\* holds it as unfinished (so that its last commit will write a terminal status).
NeverOrphaned ==
    submit # "start" /\ row.status \notin Terminal =>
        \/ row.status = "QUEUED" /\ (submit \in {"saved", "rejected"} \/ queue > 0)
        \/ \E w \in Workers : Running(w)

\* A scan shown as PAUSED has a worker in the loop of _checkpoint, so that a resume, a
\* cancellation or the deadline will be noticed.
PausedIsHeld ==
    row.status = "PAUSED" =>
        \E w \in Workers : worker[w].pc \in {"checkpoint", "pausing", "resuming", "terminate"}

\* A verdict is never without its artefacts: whatever was redelivered or crashed before,
\* COMPLETED and PARTIAL are committed with the reports and after the findings.
VerdictHasReports ==
    row.status \in {"COMPLETED", "PARTIAL"} => reports > 0 /\ findings > 0

\* When the message is delivered once, COMPLETED means that the custom engine and every
\* selected engine have their row, none of them FAILED or timed out, every endpoint was
\* reached and no applicable runtime check was left out.
CompletedIsClean ==
    row.status = "COMPLETED" =>
        /\ endpoints.tested = "all"
        /\ {r.engine : r \in engineRows} = EngineNames
        /\ \A r \in engineRows : r.status \in {"COMPLETED", "SKIPPED"} /\ ~ r.gap

\* When the message is delivered once, a scan that its worker ended otherwise publishes
\* no report, and an unreachable target no finding either.
NothingPublishedOnFailure ==
    /\ row.error \in {"cancelled", "deadline", "unreachable", "other"} => reports = 0
    /\ row.error = "unreachable" => findings = 0

\* With faults, only three things leave an unfinished row without a message, a request or
\* a worker: the API process died before it published the message, the task was cut off by
\* its time limits, or its worker was lost after a cancellation, for which the redelivered
\* task returns at once (run, acks_late).
OrphansAreExplained ==
    submit # "start" /\ row.status \notin Terminal =>
        \/ row.status = "QUEUED" /\ (submit \in {"saved", "rejected"} \/ queue > 0)
        \/ \E w \in Workers : Running(w)
        \/ queue > 0 /\ faults["worker_lost"] > 0
        \/ submit = "lost"
        \/ faults["soft_limit"] > 0
        \/ row.cancel /\ faults["worker_lost"] > 0

\* A worker that has read the submitted document and not yet stored its endpoints.
HoldsDocument(w) ==
    worker[w].pc \in {"consume", "endpoints"} /\ worker[w].origin = "submitted"

\* The submitted document is in its row, in the hands of a worker, or endpoints of the scan.
DocumentKept ==
    inline => \/ payload
              \/ \E w \in Workers : HoldsDocument(w)
              \/ "submitted" \in endpoints.origins

\* However often the message is delivered and whoever is lost, a submitted document leaves
\* the scan only with a worker that ends between the deletion and the endpoints; and while
\* it is there no other inventory is stored (_inventory deletes it in a commit of its own).
DocumentIsKept ==
    [][/\ DocumentKept => \/ DocumentKept'
                          \/ \E w \in Workers : /\ HoldsDocument(w)
                                                /\ worker'[w].pc \in {"idle", "terminate"}
       /\ payload => "fetched" \notin endpoints'.origins]_vars

-----------------------------------------------------------------------------
(* Liveness. *)

\* Every scan whose dispatch succeeded ends for good, paused or not.
AcceptedScanEnds == submit = "accepted" ~> [](row.status \in Terminal)
=============================================================================
