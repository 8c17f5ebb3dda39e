------------------------ MODULE ScanLifecycleProofs ------------------------
(***************************************************************************)
(* Theorems about ScanLifecycle, for any workers, control requests, engine *)
(* list, number of deliveries and, unless a theorem says otherwise, any    *)
(* faults.                                                                 *)
(***************************************************************************)
EXTENDS ScanLifecycle, TLAPS

(* The values the steps are built from have their types. *)

LEMMA FlushTyped ==
    ASSUME NEW db \in Scan, NEW loaded \in Scan, NEW new \in Scan
    PROVE  Flush(db, loaded, new) \in Scan
BY DEF Flush, Scan

LEMMA ConstantsTyped ==
    /\ QueuedScan \in Scan
    /\ NoResult \in EngineResult
    /\ IdleWorker \in Worker
    /\ NewControl \in Control
    /\ AnsweredControl \in Control
<1>1. QueuedScan \in Scan
  BY DEF QueuedScan, Scan, ScanStatus, Terminal, Errors
<1>2. Len(Engines) \in Nat \ {0} /\ Engines[1] = "custom"
  BY EnginesAssumption
<1>3. NoResult \in EngineResult
  BY <1>2 DEF NoResult, EngineResult, EngineNames, Shares
<1>4. IdleWorker \in Worker
  BY <1>1, <1>2, <1>3
     DEF IdleWorker, Worker, Locations, Continuations, Shares, Pending, Terminal, Errors
<1> QED
  BY <1>1, <1>3, <1>4 DEF NewControl, AnsweredControl, Control, Actions

LEMMA ProgressTyped ==
    ASSUME NEW i \in 1 .. Len(Engines)
    PROVE  Progress(i) \in 0 .. 100
<1> DEFINE n == Len(Engines)
           q == (40 * i) \div n
<1>1. n \in Nat /\ n > 0 /\ i \in Nat /\ i <= n
  BY EnginesAssumption
<1>2. q \in Int /\ n * q <= 40 * i /\ 40 * i < n * (q + 1)
  BY <1>1
<1>3. q >= 0
  BY <1>1, <1>2
<1>4. n * q <= n * 40
  BY <1>1, <1>2
<1>5. q <= 40
  BY <1>1, <1>2, <1>4
<1>6. Progress(i) = 30 + q
  BY DEF Progress
<1> HIDE DEF q, n
<1> QED
  BY <1>2, <1>3, <1>5, <1>6

\* What the helpers make of the local state of a worker.
LEMMA LocalsTyped ==
    ASSUME TypeOK, NEW w \in Workers
    PROVE  /\ worker[w] \in Worker
           /\ \A location \in Locations : Goto(w, location) \in Worker
           /\ \A next \in Continuations : CheckpointThen(w, next) \in Worker
           /\ \A status \in Terminal, error \in Errors : Raise(w, status, error) \in Worker
           /\ \A status \in ScanStatus, progress \in 0 .. 100 :
                Staged(w, status, progress) \in Scan
<1>1. worker[w] \in Worker
  BY DEF TypeOK
<1>2. \A location \in Locations : Goto(w, location) \in Worker
  BY <1>1 DEF Goto, Worker
<1>3. \A next \in Continuations : CheckpointThen(w, next) \in Worker
  BY <1>1 DEF CheckpointThen, Worker, Locations
<1>4. \A status \in Terminal, error \in Errors : Raise(w, status, error) \in Worker
  BY <1>1, ConstantsTyped DEF Raise, Worker, Locations
<1>5. \A status \in ScanStatus, progress \in 0 .. 100 :
        Staged(w, status, progress) \in Scan
  BY <1>1 DEF Staged, Worker, Scan
<1> QED
  BY <1>1, <1>2, <1>3, <1>4, <1>5

LEMMA LocationsNamed ==
    /\ {"idle", "init", "validate", "checkpoint", "pausing", "resuming", "discover",
        "inventory", "consume", "endpoints", "context", "engine", "persist", "baselines",
        "progress", "correlate", "findings", "reporting", "assess", "publish",
        "terminate", "ack"} = Locations
    /\ Continuations \subseteq Locations
BY DEF Locations, Continuations

\* Assigning one field of a worker a value of its type.
LEMMA UpdateTyped ==
    ASSUME NEW v \in Worker
    PROVE  /\ \A pc \in Locations : [v EXCEPT !.pc = pc] \in Worker
           /\ \A scan \in Scan : [v EXCEPT !.scan = scan] \in Worker
           /\ \A b \in BOOLEAN : /\ [v EXCEPT !.failed = b] \in Worker
                               /\ [v EXCEPT !.found = b] \in Worker
                               /\ [v EXCEPT !.expired = b] \in Worker
           /\ \A r \in EngineResult : [v EXCEPT !.result = r] \in Worker
           /\ \A i \in 1 .. Len(Engines) : [v EXCEPT !.index = i] \in Worker
           /\ \A t \in Shares : [v EXCEPT !.tested = t] \in Worker
           /\ \A s \in Terminal : [v EXCEPT !.verdict = s] \in Worker
           /\ \A o \in {"submitted", "fetched"} : [v EXCEPT !.origin = o] \in Worker
           /\ \A q \in Pending : [v EXCEPT !.pending = q] \in Worker
BY DEF Worker

\* What a failing statement makes of the worker, whatever it leaves in the session.
LEMMA Failing ==
    ASSUME TypeOK, NEW w \in Workers, StepFails(w)
    PROVE  \E new \in Worker :
             /\ Local(w, new)
             /\ UNCHANGED tables
             /\ new.pc = "terminate" /\ new.scan = worker[w].scan
             /\ new.verdict = "FAILED" /\ new.error = "other"
             /\ new.pending \in Unflushed(w)
<1>1. worker[w].origin \in Pending
  BY DEF TypeOK, Worker, Pending
<1>2. PICK rows \in Unflushed(w) :
        Local(w, [Raise(w, "FAILED", "other") EXCEPT !.pending = rows])
  BY DEF StepFails
<1>3. rows \in Pending
  BY <1>1, <1>2 DEF Unflushed, Pending
<1>4. Raise(w, "FAILED", "other") \in Worker
  BY LocalsTyped DEF Terminal, Errors
<1>5. [Raise(w, "FAILED", "other") EXCEPT !.pending = rows] \in Worker
  BY <1>3, <1>4, UpdateTyped
<1>6. /\ Raise(w, "FAILED", "other").pc = "terminate"
      /\ Raise(w, "FAILED", "other").scan = worker[w].scan
      /\ Raise(w, "FAILED", "other").verdict = "FAILED"
      /\ Raise(w, "FAILED", "other").error = "other"
  BY DEF Raise, IdleWorker
<1>7. /\ [Raise(w, "FAILED", "other") EXCEPT !.pending = rows].pc = "terminate"
      /\ [Raise(w, "FAILED", "other") EXCEPT !.pending = rows].scan = worker[w].scan
      /\ [Raise(w, "FAILED", "other") EXCEPT !.pending = rows].verdict = "FAILED"
      /\ [Raise(w, "FAILED", "other") EXCEPT !.pending = rows].error = "other"
      /\ [Raise(w, "FAILED", "other") EXCEPT !.pending = rows].pending = rows
  BY <1>4, <1>6 DEF Worker
<1> QED
  BY <1>2, <1>5, <1>7 DEF StepFails

LEMMA LocalTyped ==
    ASSUME TypeOK, NEW w \in Workers, NEW new \in Worker, Local(w, new)
    PROVE  /\ worker' \in [Workers -> Worker]
           /\ UNCHANGED <<submit, inline, row, queue, copies, control, faults>>
BY DEF TypeOK, Local, broker

LEMMA CommitTyped ==
    ASSUME TypeOK, NEW w \in Workers, NEW scan \in Scan, NEW new \in Worker,
           Commit(w, scan, new)
    PROVE  /\ worker' \in [Workers -> Worker]
           /\ row' \in Scan
           /\ UNCHANGED <<submit, inline, queue, copies, control, faults>>
<1>1. [new EXCEPT !.scan = scan] \in Worker
  BY DEF Worker
<1>2. row' \in Scan
  BY FlushTyped DEF Commit, TypeOK, Worker
<1> QED
  BY <1>1, <1>2 DEF Commit, TypeOK, broker

-----------------------------------------------------------------------------
(* Type correctness: one step per action; a worker's step is typed once its *)
(* new local state is (LocalTyped) and the row it assigned (CommitTyped).   *)

LEMMA InitTyped == Init => TypeOK
<1> SUFFICES ASSUME Init PROVE TypeOK
  OBVIOUS
<1>1. endpoints \in [origins : SUBSET {"submitted", "fetched"},
                    tested : Shares \union {"pending"}]
  BY DEF Init
<1>2. control \in [Controls -> Control] /\ worker \in [Workers -> Worker]
  BY ConstantsTyped DEF Init
<1>3. row \in Scan /\ engineRows \in SUBSET EngineResult
  BY ConstantsTyped DEF Init
<1>4. faults \in [FaultKinds -> 0 .. MaxFaults]
  BY BoundsAssumption DEF Init
<1> QED
  BY <1>1, <1>2, <1>3, <1>4 DEF Init, TypeOK

LEMMA SubmissionTyped == TypeOK /\ Submission => TypeOK'
<1> SUFFICES ASSUME TypeOK, Submission PROVE TypeOK'
  OBVIOUS
<1>1. CASE RejectRequest
  BY <1>1 DEF RejectRequest, TypeOK, tables, broker
<1>2. CASE \E document \in BOOLEAN : CreateScan(document)
  BY <1>2, ConstantsTyped DEF CreateScan, TypeOK, broker
<1>3. CASE Dispatch
  BY <1>3 DEF Dispatch, Enqueue, TypeOK, tables
<1>4. CASE \E published \in BOOLEAN : DispatchFails(published)
  <2>1. [QueuedScan EXCEPT !.status = "FAILED", !.error = "dispatch"] \in Scan
    BY ConstantsTyped DEF Scan, ScanStatus, Terminal, Errors
  <2>2. row' \in Scan
    BY <1>4, <2>1, FlushTyped, ConstantsTyped DEF DispatchFails, TypeOK
  <2> QED
    BY <1>4, <2>2 DEF DispatchFails, Enqueue, TypeOK, tables, broker
<1> QED
  BY <1>1, <1>2, <1>3, <1>4 DEF Submission

LEMMA RequestedTyped ==
    ASSUME NEW action \in Actions, NEW scan \in Scan
    PROVE  Requested(action, scan) \in Scan
BY DEF Requested, Actions, Scan, ScanStatus, Terminal

LEMMA ControlTyped ==
    ASSUME TypeOK, NEW c \in Controls, ControlRequest(c)
    PROVE  TypeOK'
<1>1. CASE \E action \in Actions : ControlRead(c, action)
  <2>1. control' \in [Controls -> Control]
    BY <1>1, ConstantsTyped DEF ControlRead, TypeOK, Control
  <2> QED
    BY <1>1, <2>1 DEF ControlRead, TypeOK, tables, broker
<1>2. CASE ControlCommit(c)
  <2>1. control[c] \in Control
    BY DEF TypeOK
  <2>2. Requested(control[c].action, control[c].loaded) \in Scan
    BY <2>1, RequestedTyped DEF Control
  <2>3. row' \in Scan
    BY <1>2, <2>1, <2>2, FlushTyped DEF ControlCommit, TypeOK, Control
  <2>4. control' \in [Controls -> Control]
    BY <1>2, ConstantsTyped DEF ControlCommit, TypeOK
  <2> QED
    BY <1>2, <2>3, <2>4 DEF ControlCommit, TypeOK, tables, broker
<1> QED
  BY <1>1, <1>2 DEF ControlRequest

\* A refresh leaves a typed worker typed.
LEMMA RefreshedTyped ==
    ASSUME TypeOK, NEW w \in Workers, NEW new \in Worker, Refreshed(w, new)
    PROVE  TypeOK'
<1>1. [new EXCEPT !.scan = row] \in Worker
  BY DEF TypeOK, Worker
<1> QED
  BY <1>1, LocalTyped DEF Refreshed, TypeOK, tables

LEMMA StageTyped ==
    ASSUME TypeOK, NEW w \in Workers, NEW new \in Worker,
           NEW status \in ScanStatus, NEW progress \in 0 .. 100,
           Stage(w, status, progress, new)
    PROVE  TypeOK'
<1>1. Staged(w, status, progress) \in Scan
  BY LocalsTyped
<1> QED
  BY <1>1, CommitTyped DEF Stage, TypeOK, tables

LEMMA WorkerTyped ==
    ASSUME TypeOK, NEW w \in Workers, WorkerStep(w)
    PROVE  TypeOK'
<1>a. worker[w] \in Worker /\ row \in Scan
  BY DEF TypeOK
<1>b. /\ \A location \in Locations : Goto(w, location) \in Worker
      /\ \A next \in Continuations : CheckpointThen(w, next) \in Worker
      /\ \A status \in Terminal, error \in Errors : Raise(w, status, error) \in Worker
  BY LocalsTyped
<1>1. CASE StepFails(w)
  <2>1. PICK new \in Worker : Local(w, new) /\ UNCHANGED tables
    BY <1>1, Failing
  <2> QED
    BY <2>1, LocalTyped DEF TypeOK, tables
<1>2. CASE Receive(w)
  <2>1. [IdleWorker EXCEPT !.pc = "init", !.scan = row] \in Worker
    <3>1. [IdleWorker EXCEPT !.pc = "init"] \in Worker
      BY ConstantsTyped, UpdateTyped, LocationsNamed
    <3> QED
      BY <3>1, <1>a, UpdateTyped
  <2> QED
    BY <1>2, <2>1 DEF Receive, TypeOK, tables
<1>3. CASE Discard(w)
  BY <1>3 DEF Discard, TypeOK, tables
<1>4. CASE Initialize(w)
  <2>1. Goto(w, "validate") \in Worker
    BY <1>b, LocationsNamed
  <2> QED
    BY <1>4, <2>1, StageTyped DEF Initialize, ScanStatus
<1>5. CASE ValidateTarget(w)
  <2>1. CheckpointThen(w, "discover") \in Worker
    BY <1>b DEF Continuations
  <2> QED
    BY <1>5, <2>1, LocalTyped DEF ValidateTarget, TypeOK, tables
<1>6. CASE CheckpointCancelled(w)
  <2>1. Raise(w, "CANCELLED", "cancelled") \in Worker
    BY <1>b DEF Terminal, Errors
  <2> QED
    BY <1>6, <2>1, RefreshedTyped DEF CheckpointCancelled
<1>7. CASE CheckpointTimedOut(w)
  <2>1. Raise(w, "TIMEOUT", "deadline") \in Worker
    BY <1>b DEF Terminal, Errors
  <2> QED
    BY <1>7, <2>1, RefreshedTyped DEF CheckpointTimedOut
<1>8. CASE CheckpointPassed(w)
  <2>1. Goto(w, worker[w].next) \in Worker
    <3>1. worker[w].next \in Continuations
      BY <1>a DEF Worker
    <3> QED
      BY <3>1, <1>b, LocationsNamed
  <2> QED
    BY <1>8, <2>1, RefreshedTyped DEF CheckpointPassed
<1>9. CASE CheckpointResumes(w)
  <2>1. Goto(w, "resuming") \in Worker
    BY <1>b, LocationsNamed
  <2> QED
    BY <1>9, <2>1, RefreshedTyped DEF CheckpointResumes
<1>10. CASE ResumeCommit(w)
  <2>1. Goto(w, worker[w].next) \in Worker
    <3>1. worker[w].next \in Continuations
      BY <1>a DEF Worker
    <3> QED
      BY <3>1, <1>b, LocationsNamed
  <2>2. [worker[w].scan EXCEPT !.status = "SCANNING"] \in Scan
    <3>1. worker[w].scan \in Scan /\ "SCANNING" \in ScanStatus
      BY <1>a DEF Worker, ScanStatus
    <3> QED
      BY <3>1 DEF Scan
  <2> QED
    BY <1>10, <2>1, <2>2, CommitTyped DEF ResumeCommit, TypeOK, tables
<1>11. CASE CheckpointPauses(w)
  <2>1. Goto(w, "pausing") \in Worker
    BY <1>b, LocationsNamed
  <2> QED
    BY <1>11, <2>1, RefreshedTyped DEF CheckpointPauses
<1>12. CASE PauseCommit(w)
  <2>1. Goto(w, "checkpoint") \in Worker
    BY <1>b, LocationsNamed
  <2>2. [worker[w].scan EXCEPT !.status = "PAUSED"] \in Scan
    <3>1. worker[w].scan \in Scan /\ "PAUSED" \in ScanStatus
      BY <1>a DEF Worker, ScanStatus
    <3> QED
      BY <3>1 DEF Scan
  <2> QED
    BY <1>12, <2>1, <2>2, CommitTyped DEF PauseCommit, TypeOK, tables
<1>13. CASE StartDiscovery(w)
  <2>1. Goto(w, "inventory") \in Worker
    BY <1>b, LocationsNamed
  <2> QED
    BY <1>13, <2>1, StageTyped DEF StartDiscovery, ScanStatus
<1>14. CASE \E some \in BOOLEAN : BuildInventory(w, some)
  <2> PICK some \in BOOLEAN : BuildInventory(w, some)
    BY <1>14
  <2>1. [worker[w] EXCEPT !.pc = IF payload THEN "consume" ELSE "endpoints",
                          !.origin = IF payload THEN "submitted" ELSE "fetched",
                          !.found = some] \in Worker
    <3> DEFINE pc == IF payload THEN "consume" ELSE "endpoints"
               origin == IF payload THEN "submitted" ELSE "fetched"
    <3>1. pc \in Locations /\ origin \in {"submitted", "fetched"}
      BY LocationsNamed
    <3>2. [worker[w] EXCEPT !.pc = pc, !.origin = origin, !.found = some] \in Worker
      <4> HIDE DEF pc, origin
      <4> QED
        BY <3>1, <1>a DEF Worker
    <3> QED
      BY <3>2
  <2> QED
    BY <2>1, LocalTyped DEF BuildInventory, TypeOK, tables
<1>15. CASE ConsumePayload(w)
  <2>1. Goto(w, "endpoints") \in Worker
    BY <1>b, LocationsNamed
  <2> QED
    BY <1>15, <2>1, LocalTyped DEF ConsumePayload, TypeOK
<1>16. CASE SaveEndpoints(w)
  <2>1. CheckpointThen(w, "context") \in Worker
    BY <1>b DEF Continuations
  <2>2. worker[w].origin \in {"submitted", "fetched"}
    BY <1>a DEF Worker
  <2> QED
    BY <1>16, <2>1, <2>2, LocalTyped DEF SaveEndpoints, Added, TypeOK
<1>17. CASE StartScanning(w)
  <2>1. CheckpointThen(w, "engine") \in Worker /\ 1 \in 1 .. Len(Engines)
    BY <1>b, EnginesAssumption DEF Continuations
  <2>2. [CheckpointThen(w, "engine") EXCEPT !.index = 1] \in Worker
    BY <2>1, UpdateTyped
  <2> QED
    BY <1>17, <2>2, StageTyped DEF StartScanning, ScanStatus
<1>18. CASE \E result \in Outcomes : RunEngine(w, result)
  <2> PICK result \in Outcomes : RunEngine(w, result)
    BY <1>18
  <2>1. [worker[w] EXCEPT !.pc = "persist", !.result = result] \in Worker
    BY <1>a, OutcomesAssumption, UpdateTyped, LocationsNamed
  <2> QED
    BY <2>1, LocalTyped DEF RunEngine, TypeOK, tables
<1>19. CASE PersistEngine(w)
  <2>1. worker[w].result \in EngineResult
    BY <1>a DEF Worker
  <2>2. [worker[w] EXCEPT
           !.pc = IF worker[w].result.engine = "custom" THEN "baselines" ELSE "progress",
           !.failed = @ \/ worker[w].result.status \in {"FAILED", "TIMEOUT"}] \in Worker
    <3> DEFINE pc == IF worker[w].result.engine = "custom" THEN "baselines" ELSE "progress"
               failed == worker[w].failed \/ worker[w].result.status \in {"FAILED", "TIMEOUT"}
    <3>1. pc \in Locations /\ failed \in BOOLEAN
      BY <1>a, LocationsNamed DEF Worker
    <3>2. [worker[w] EXCEPT !.pc = pc, !.failed = failed] \in Worker
      <4> HIDE DEF pc, failed
      <4> QED
        BY <3>1, <1>a DEF Worker
    <3> QED
      BY <3>2
  <2>3. worker' \in [Workers -> Worker]
    BY <1>19, <2>2, LocalTyped DEF PersistEngine
  <2> QED
    BY <1>19, <2>1, <2>3 DEF PersistEngine, Local, broker, TypeOK
<1>20. CASE ApplyBaselines(w)
  <2>1. Goto(w, "progress") \in Worker /\ Raise(w, "FAILED", "unreachable") \in Worker
    BY <1>b, LocationsNamed DEF Terminal, Errors
  <2>2. Baselined(worker[w].result) \subseteq Shares
    BY <1>a DEF Baselined, Worker, EngineResult, Shares
  <2> QED
    BY <1>20, <2>1, <2>2, LocalTyped DEF ApplyBaselines, TypeOK
<1>21. CASE FinishEngine(w)
  <2> DEFINE i == worker[w].index
             new == IF i < Len(Engines)
                    THEN [CheckpointThen(w, "engine") EXCEPT !.index = i + 1,
                                                             !.result = NoResult]
                    ELSE [Goto(w, "correlate") EXCEPT !.result = NoResult]
  <2>1. i \in 1 .. Len(Engines)
    BY <1>a DEF Worker
  <2>2. CheckpointThen(w, "engine") \in Worker /\ Goto(w, "correlate") \in Worker
    BY <1>b, LocationsNamed DEF Continuations
  <2>3. new \in Worker
    <3>1. CASE i < Len(Engines)
      <4>1. i + 1 \in 1 .. Len(Engines)
        BY <2>1, <3>1, EnginesAssumption
      <4>2. [CheckpointThen(w, "engine") EXCEPT !.index = i + 1] \in Worker
        BY <2>2, <4>1, UpdateTyped
      <4> QED
        BY <3>1, <4>2, ConstantsTyped, UpdateTyped
    <3>2. CASE ~ (i < Len(Engines))
      BY <2>2, <3>2, ConstantsTyped, UpdateTyped
    <3> QED
      BY <3>1, <3>2
  <2>4. Stage(w, "SCANNING", Progress(i), new)
    BY <1>21 DEF FinishEngine
  <2>5. Progress(i) \in 0 .. 100
    BY <2>1, ProgressTyped
  <2> HIDE DEF new, i
  <2> QED
    BY <2>3, <2>4, <2>5, StageTyped DEF ScanStatus
<1>22. CASE StartCorrelation(w)
  <2>1. Goto(w, "findings") \in Worker
    BY <1>b, LocationsNamed
  <2> QED
    BY <1>22, <2>1, StageTyped DEF StartCorrelation, ScanStatus
<1>23. CASE SaveFindings(w)
  <2> PICK custom \in engineRows : \E tested \in Baselined(custom) :
         IF endpoints.origins = {}
         THEN /\ endpoints' = endpoints
              /\ Local(w, [CheckpointThen(w, "reporting") EXCEPT !.tested = "none"])
         ELSE /\ endpoints' = [endpoints EXCEPT !.tested = tested]
              /\ Local(w, [CheckpointThen(w, "reporting") EXCEPT !.tested = tested])
    BY <1>23 DEF SaveFindings
  <2>4. Baselined(custom) \subseteq Shares
    BY DEF Baselined, TypeOK, EngineResult, Shares
  <2> PICK tested \in Baselined(custom) :
         IF endpoints.origins = {}
         THEN /\ endpoints' = endpoints
              /\ Local(w, [CheckpointThen(w, "reporting") EXCEPT !.tested = "none"])
         ELSE /\ endpoints' = [endpoints EXCEPT !.tested = tested]
              /\ Local(w, [CheckpointThen(w, "reporting") EXCEPT !.tested = tested])
    OBVIOUS
  <2>1. tested \in Shares
    BY <2>4
  <2>2. CheckpointThen(w, "reporting") \in Worker
    BY <1>b DEF Continuations
  <2>3. /\ [CheckpointThen(w, "reporting") EXCEPT !.tested = tested] \in Worker
        /\ [CheckpointThen(w, "reporting") EXCEPT !.tested = "none"] \in Worker
    BY <2>1, <2>2, UpdateTyped DEF Shares
  <2> QED
    BY <1>23, <2>1, <2>3, LocalTyped DEF SaveFindings, TypeOK
<1>24. CASE StartReporting(w)
  <2>1. Goto(w, "assess") \in Worker
    BY <1>b, LocationsNamed
  <2> QED
    BY <1>24, <2>1, StageTyped DEF StartReporting, ScanStatus
<1>25. CASE Assess(w)
  <2> DEFINE verdict == IF worker[w].failed \/ Assessment(worker[w].tested) # "COMPLETE"
                        THEN "PARTIAL" ELSE "COMPLETED"
  <2>1. verdict \in Terminal
    BY DEF Terminal
  <2>3. Local(w, [worker[w] EXCEPT !.pc = "publish", !.verdict = verdict])
    BY <1>25 DEF Assess
  <2> HIDE DEF verdict
  <2>2. [worker[w] EXCEPT !.pc = "publish", !.verdict = verdict] \in Worker
    <3>1. [worker[w] EXCEPT !.pc = "publish"] \in Worker
      BY <1>a, UpdateTyped, LocationsNamed
    <3> QED
      BY <2>1, <3>1, UpdateTyped
  <2> QED
    BY <1>25, <2>2, <2>3, LocalTyped DEF Assess, TypeOK, tables
<1>26. CASE Publish(w)
  <2> DEFINE scan == [worker[w].scan EXCEPT !.status = worker[w].verdict,
                                            !.progress = 100, !.finished = TRUE]
             new == [IdleWorker EXCEPT !.pc = "ack"]
  <2>1. scan \in Scan
    <3>1. worker[w].scan \in Scan /\ worker[w].verdict \in ScanStatus
      BY <1>a DEF Worker, ScanStatus
    <3>2. 100 \in 0 .. 100
      OBVIOUS
    <3> QED
      BY <3>1, <3>2 DEF Scan
  <2>2. new \in Worker
    BY ConstantsTyped, UpdateTyped, LocationsNamed
  <2>3. Commit(w, scan, new)
    BY <1>26 DEF Publish
  <2> HIDE DEF scan, new
  <2>4. /\ worker' \in [Workers -> Worker]
        /\ row' \in Scan
        /\ UNCHANGED <<submit, inline, queue, copies, control, faults>>
    BY <2>1, <2>2, <2>3, CommitTyped
  <2> QED
    BY <1>26, <2>4 DEF Publish, TypeOK
<1>27. CASE Terminate(w)
  <2>1. [worker[w].scan EXCEPT !.status = worker[w].verdict,
                               !.error = worker[w].error, !.finished = TRUE] \in Scan
    <3>1. worker[w].scan \in Scan /\ worker[w].verdict \in ScanStatus
                                 /\ worker[w].error \in Errors
      BY <1>a DEF Worker, ScanStatus
    <3> QED
      BY <3>1 DEF Scan
  <2>2. [IdleWorker EXCEPT !.pc = "ack"] \in Worker
    BY ConstantsTyped, UpdateTyped, LocationsNamed
  <2> QED
    BY <1>27, <2>1, <2>2, CommitTyped DEF Terminate, Added, TypeOK
<1>28. CASE Acknowledge(w)
  BY <1>28, LocalTyped, ConstantsTyped DEF Acknowledge, TypeOK, tables
<1>29. CASE AnalysisFails(w)
  <2>1. Raise(w, "FAILED", "other") \in Worker
    BY <1>b DEF Terminal, Errors
  <2>2. worker[w].origin \in {"submitted", "fetched"}
    BY <1>a DEF Worker
  <2> QED
    BY <1>29, <2>1, <2>2, LocalTyped DEF AnalysisFails, Added, TypeOK
<1> QED
  BY <1>1, <1>2, <1>3, <1>4, <1>5, <1>6, <1>7, <1>8, <1>9, <1>10, <1>11, <1>12, <1>13,
     <1>14, <1>15, <1>16, <1>17, <1>18, <1>19, <1>20, <1>21, <1>22, <1>23, <1>24, <1>25,
     <1>26, <1>27, <1>28, <1>29
     DEF WorkerStep

LEMMA FaultTyped ==
    ASSUME TypeOK, NEW kind, Fault(kind)
    PROVE  /\ faults' \in [FaultKinds -> 0 .. MaxFaults]
           /\ faults'[kind] > 0
           /\ \A other \in FaultKinds \ {kind} : faults'[other] = faults[other]
<1>1. /\ kind \in FaultKinds /\ MaxFaults \in Nat
      /\ \A other \in FaultKinds : faults[other] \in Nat
      /\ FaultsSoFar < MaxFaults
  BY BoundsAssumption DEF Fault, TypeOK
<1>2. faults[kind] <= FaultsSoFar
  BY <1>1 DEF FaultsSoFar, FaultKinds
<1>3. FaultsSoFar \in Nat
  BY <1>1 DEF FaultsSoFar, FaultKinds
<1>4. faults[kind] + 1 \in 0 .. MaxFaults /\ faults[kind] + 1 > 0
  BY <1>1, <1>2, <1>3
<1>5. faults' = [faults EXCEPT ![kind] = faults[kind] + 1]
  BY DEF Fault
<1> QED
  BY <1>1, <1>4, <1>5 DEF TypeOK

LEMMA EnvironmentTyped == TypeOK /\ Environment => TypeOK'
<1> SUFFICES ASSUME TypeOK, Environment PROVE TypeOK'
  OBVIOUS
<1> USE ConstantsTyped
<1>1. CASE \E w \in Workers : DeadlinePasses(w)
  <2> PICK w \in Workers : DeadlinePasses(w)
    BY <1>1
  <2>1. [worker[w] EXCEPT !.expired = TRUE] \in Worker
    BY UpdateTyped DEF TypeOK
  <2> QED
    BY <2>1, LocalTyped DEF DeadlinePasses, TypeOK, tables
<1>2. CASE Redeliver
  BY <1>2 DEF Redeliver, Enqueue, TypeOK, tables
<1>3. CASE ApiLost
  BY <1>3, FaultTyped DEF ApiLost, Fault, TypeOK, tables
<1>4. ASSUME NEW w \in Workers, WorkerLost(w) PROVE TypeOK'
  <2>1. Fault("worker_lost") /\ worker' = [worker EXCEPT ![w] = IdleWorker]
    BY <1>4 DEF WorkerLost
  <2>2. faults' \in [FaultKinds -> 0 .. MaxFaults]
    BY <2>1, FaultTyped
  <2>3. worker' \in [Workers -> Worker] /\ queue' \in Nat
    BY <1>4, <2>1 DEF WorkerLost, TypeOK
  <2> QED
    BY <1>4, <2>2, <2>3 DEF WorkerLost, Fault, TypeOK, tables
<1>5. ASSUME NEW w \in Workers, Abandon(w) PROVE TypeOK'
  <2>1. Fault("soft_limit") /\ worker' = [worker EXCEPT ![w] = IdleWorker]
    BY <1>5 DEF Abandon
  <2>2. faults' \in [FaultKinds -> 0 .. MaxFaults]
    BY <2>1, FaultTyped
  <2>3. worker' \in [Workers -> Worker]
    BY <2>1 DEF TypeOK
  <2> QED
    BY <1>5, <2>2, <2>3 DEF Abandon, Fault, TypeOK, tables
<1> QED
  BY <1>1, <1>2, <1>3, <1>4, <1>5 DEF Environment

LEMMA StepTyped == TypeOK /\ [Next]_vars => TypeOK'
<1> SUFFICES ASSUME TypeOK, [Next]_vars PROVE TypeOK'
  OBVIOUS
<1>1. CASE UNCHANGED vars
  BY <1>1 DEF vars, tables, broker, TypeOK
<1>2. CASE Quiescent
  BY <1>1, <1>2 DEF Quiescent
<1> QED
  BY <1>1, <1>2, SubmissionTyped, ControlTyped, WorkerTyped, EnvironmentTyped DEF Next

\* Every reachable state is typed, whatever the constants and the faults: in
\* particular the progress shown stays a percentage for any engine list.
THEOREM TypeCorrect == Spec => []TypeOK
BY InitTyped, StepTyped, PTL DEF Spec

-----------------------------------------------------------------------------
(* What a step of a worker changes, and what it leaves alone.              *)

LEMMA LocalMoves ==
    ASSUME TypeOK, NEW w \in Workers, NEW new, Local(w, new)
    PROVE  /\ worker'[w] = new
           /\ \A v \in Workers \ {w} : worker'[v] = worker[v]
           /\ UNCHANGED <<submit, row, queue, copies, control, faults>>
BY DEF TypeOK, Local, broker

LEMMA CommitMoves ==
    ASSUME TypeOK, NEW w \in Workers, NEW scan, NEW new \in Worker, Commit(w, scan, new)
    PROVE  /\ worker'[w].pc = new.pc
           /\ worker'[w].next = new.next
           /\ worker'[w].verdict = new.verdict
           /\ worker'[w].pending = new.pending
           /\ worker'[w].scan = scan
           /\ \A v \in Workers \ {w} : worker'[v] = worker[v]
           /\ row' = Flush(row, worker[w].scan, scan)
           /\ UNCHANGED <<submit, queue, copies, control, faults>>
BY DEF TypeOK, Commit, broker, Worker

\* The fields of the states that the helpers make of a worker's.
LEMMA HelperFields ==
    ASSUME TypeOK, NEW w \in Workers
    PROVE  /\ \A location \in Locations :
                /\ Goto(w, location) \in Worker
                /\ Goto(w, location).pc = location
                /\ Goto(w, location).next = worker[w].next
                /\ Goto(w, location).scan = worker[w].scan
                /\ Goto(w, location).pending = worker[w].pending
           /\ \A next \in Continuations :
                /\ CheckpointThen(w, next) \in Worker
                /\ CheckpointThen(w, next).pc = "checkpoint"
                /\ CheckpointThen(w, next).next = next
                /\ CheckpointThen(w, next).scan = worker[w].scan
                /\ CheckpointThen(w, next).pending = worker[w].pending
           /\ \A status \in Terminal, error \in Errors :
                /\ Raise(w, status, error) \in Worker
                /\ Raise(w, status, error).pc = "terminate"
                /\ Raise(w, status, error).verdict = status
                /\ Raise(w, status, error).scan = worker[w].scan
                /\ Raise(w, status, error).pending = "none"
           /\ \A status \in ScanStatus, progress \in 0 .. 100 :
                /\ Staged(w, status, progress) \in Scan
                /\ Staged(w, status, progress).status = status
                /\ Staged(w, status, progress).cancel = worker[w].scan.cancel
<1>1. worker[w] \in Worker
  BY DEF TypeOK
<1>2. \A location \in Locations :
        /\ Goto(w, location).pc = location
        /\ Goto(w, location).next = worker[w].next
        /\ Goto(w, location).scan = worker[w].scan
        /\ Goto(w, location).pending = worker[w].pending
  BY <1>1 DEF Goto, Worker
<1>3. \A next \in Continuations :
        /\ CheckpointThen(w, next).pc = "checkpoint"
        /\ CheckpointThen(w, next).next = next
        /\ CheckpointThen(w, next).scan = worker[w].scan
        /\ CheckpointThen(w, next).pending = worker[w].pending
  BY <1>1 DEF CheckpointThen, Worker
<1>4. \A status \in Terminal, error \in Errors :
        /\ Raise(w, status, error).pc = "terminate"
        /\ Raise(w, status, error).verdict = status
        /\ Raise(w, status, error).scan = worker[w].scan
        /\ Raise(w, status, error).pending = "none"
  BY <1>1, ConstantsTyped DEF Raise, IdleWorker
<1>5. \A status \in ScanStatus, progress \in 0 .. 100 :
        /\ Staged(w, status, progress).status = status
        /\ Staged(w, status, progress).cancel = worker[w].scan.cancel
  BY <1>1 DEF Staged, Worker, Scan
<1> QED
  BY <1>2, <1>3, <1>4, <1>5, LocalsTyped

\* A row after the UPDATE of a session: a column the session did not change keeps the
\* value of the row, one it changed takes the session's.
LEMMA FlushColumns ==
    ASSUME NEW db \in Scan, NEW loaded \in Scan, NEW new \in Scan
    PROVE  /\ new.status = loaded.status => Flush(db, loaded, new).status = db.status
           /\ new.status # loaded.status => Flush(db, loaded, new).status = new.status
           /\ new.cancel = loaded.cancel => Flush(db, loaded, new).cancel = db.cancel
           /\ new.cancel # loaded.cancel => Flush(db, loaded, new).cancel = new.cancel
BY DEF Flush, Scan

-----------------------------------------------------------------------------
(* Until create_scan has committed, nothing knows of the scan.              *)

Untouched ==
    submit \in {"start", "rejected"} =>
        /\ row = QueuedScan
        /\ queue = 0 /\ copies = 0
        /\ \A c \in Controls : control[c].state = "free"
        /\ \A w \in Workers : worker[w] = IdleWorker

\* An idle worker can only take a message.
LEMMA IdleWaits ==
    ASSUME NEW w \in Workers, WorkerStep(w), worker[w].pc = "idle"
    PROVE  queue > 0
<1>1. CASE Receive(w) \/ Discard(w)
  BY <1>1 DEF Receive, Discard
<1>2. ~ StepFails(w) /\ ~ Initialize(w) /\ ~ ValidateTarget(w)
  BY DEF StepFails, Initialize, ValidateTarget, At
<1>3. /\ ~ CheckpointCancelled(w) /\ ~ CheckpointTimedOut(w) /\ ~ CheckpointPassed(w)
      /\ ~ CheckpointResumes(w) /\ ~ CheckpointPauses(w)
  BY DEF CheckpointCancelled, CheckpointTimedOut, CheckpointPassed, CheckpointResumes,
         CheckpointPauses, Refreshed, At
<1>4. ~ ResumeCommit(w) /\ ~ PauseCommit(w) /\ ~ StartDiscovery(w)
  BY DEF ResumeCommit, PauseCommit, StartDiscovery, At
<1>5. \A some \in BOOLEAN : ~ BuildInventory(w, some)
  BY DEF BuildInventory, At
<1>6. ~ ConsumePayload(w) /\ ~ SaveEndpoints(w) /\ ~ AnalysisFails(w) /\ ~ StartScanning(w)
  BY DEF ConsumePayload, SaveEndpoints, AnalysisFails, StartScanning, At
<1>7. \A result \in Outcomes : ~ RunEngine(w, result)
  BY DEF RunEngine, At
<1>8. ~ PersistEngine(w)
  BY DEF PersistEngine, At
<1>9. ~ ApplyBaselines(w) /\ ~ FinishEngine(w) /\ ~ StartCorrelation(w)
  BY DEF ApplyBaselines, FinishEngine, StartCorrelation, At
<1>10. ~ SaveFindings(w) /\ ~ StartReporting(w) /\ ~ Assess(w)
  BY DEF SaveFindings, StartReporting, Assess, At
<1>11. ~ Publish(w) /\ ~ Terminate(w) /\ ~ Acknowledge(w)
  BY DEF Publish, Terminate, Acknowledge, At
<1> QED
  BY <1>1, <1>2, <1>3, <1>4, <1>5, <1>6, <1>7, <1>8, <1>9, <1>10, <1>11 DEF WorkerStep

LEMMA UntouchedInit == Init => Untouched
BY DEF Init, Untouched, NewControl

\* No step of a worker touches the submitting request.
LEMMA WorkerSubmits ==
    ASSUME NEW w \in Workers, WorkerStep(w)
    PROVE  submit' = submit
BY DEF WorkerStep, StepFails, Receive, Discard, Initialize, ValidateTarget,
       CheckpointCancelled, CheckpointTimedOut, CheckpointPassed, CheckpointResumes,
       ResumeCommit, CheckpointPauses, PauseCommit, StartDiscovery, BuildInventory,
       ConsumePayload, SaveEndpoints, AnalysisFails, StartScanning, RunEngine, PersistEngine,
       ApplyBaselines, FinishEngine, StartCorrelation, SaveFindings, StartReporting,
       Assess, Publish, Terminate, Acknowledge, Stage, Refreshed, Local, Commit

LEMMA UntouchedStep == TypeOK /\ Untouched /\ [Next]_vars => Untouched'
<1> SUFFICES ASSUME TypeOK, Untouched, [Next]_vars, submit' \in {"start", "rejected"}
             PROVE  Untouched'
  BY DEF Untouched
<1>1. CASE submit \notin {"start", "rejected"}
  <2>1. ~ Submission
    BY <1>1 DEF Submission, RejectRequest, CreateScan, Dispatch, DispatchFails
  <2>2. \A c \in Controls : ControlRequest(c) => submit' = submit
    BY DEF ControlRequest, ControlRead, ControlCommit
  <2>3. ASSUME NEW w \in Workers, WorkerStep(w) PROVE submit' = submit
    BY <2>3, WorkerSubmits
  <2>4. Environment => submit' \notin {"start", "rejected"}
    BY <1>1 DEF Environment, DeadlinePasses, Redeliver, ApiLost, WorkerLost, Abandon, Local
  <2> QED
    BY <1>1, <2>1, <2>2, <2>3, <2>4 DEF Next, Quiescent, vars
<1>2. CASE submit \in {"start", "rejected"}
  <2>1. /\ row = QueuedScan
        /\ queue = 0 /\ copies = 0
        /\ \A c \in Controls : control[c].state = "free"
        /\ \A w \in Workers : worker[w] = IdleWorker
    BY <1>2 DEF Untouched
  <2>2. \A w \in Workers : worker[w].pc = "idle"
    BY <2>1 DEF IdleWorker
  <2>3. \A c \in Controls : ~ ControlRequest(c)
    BY <1>2, <2>1 DEF ControlRequest, ControlRead, ControlCommit
  <2>4. \A w \in Workers : ~ WorkerStep(w)
    BY <2>1, <2>2, IdleWaits
  <2>5. ~ Environment
    <3>1. \A w \in Workers : ~ DeadlinePasses(w)
      BY <2>2 DEF DeadlinePasses
    <3>2. ~ Redeliver
      BY <2>1 DEF Redeliver
    <3>3. ~ ApiLost
      BY <1>2 DEF ApiLost
    <3>4. \A w \in Workers : ~ WorkerLost(w) /\ ~ Abandon(w)
      BY <2>2 DEF WorkerLost, Abandon, At, Running
    <3> QED
      BY <3>1, <3>2, <3>3, <3>4 DEF Environment
  <2>6. Submission => UNCHANGED <<row, queue, copies, control, worker>>
    BY <1>2
       DEF Submission, RejectRequest, CreateScan, Dispatch, DispatchFails, broker
  <2>7. UNCHANGED <<row, queue, copies, control, worker>>
    BY <2>3, <2>4, <2>5, <2>6 DEF Next, Quiescent, vars, broker
  <2> QED
    BY <2>1, <2>7 DEF Untouched
<1> QED
  BY <1>1, <1>2

-----------------------------------------------------------------------------
(* A committed cancellation binds.  No session ever assigns FALSE to the    *)
(* column, so no UPDATE names it except to set it; and the steps that start *)
(* a scan, an engine or the reporting look at the row first, save the       *)
(* commit that follows a resumed pause.                                     *)

Guarded == {"init", "engine", "reporting"}

Binding ==
    /\ row'.cancel
    /\ \A w \in Workers :
         /\ worker'[w].pc \in {"init", "engine", "reporting"}
         /\ worker'[w].pc # worker[w].pc
         => At(w, "resuming")

LEMMA LocalBinds ==
    ASSUME TypeOK, row.cancel, NEW w \in Workers, NEW new, Local(w, new),
           new.pc \notin Guarded \/ new.pc = worker[w].pc
    PROVE  Binding
BY LocalMoves DEF Binding, Guarded

LEMMA CommitBinds ==
    ASSUME TypeOK, row.cancel, NEW w \in Workers, NEW scan \in Scan, NEW new \in Worker,
           Commit(w, scan, new), scan.cancel = worker[w].scan.cancel,
           new.pc \notin Guarded \/ At(w, "resuming")
    PROVE  Binding
<1>1. row \in Scan /\ worker[w].scan \in Scan
  BY DEF TypeOK, Worker
<1>2. row'.cancel
  BY <1>1, CommitMoves, FlushColumns
<1> QED
  BY <1>2, CommitMoves DEF Binding, Guarded

LEMMA RefreshBinds ==
    ASSUME TypeOK, row.cancel, NEW w \in Workers, NEW new \in Worker, Refreshed(w, new),
           new.pc \notin Guarded
    PROVE  Binding
<1>1. [new EXCEPT !.scan = row].pc = new.pc
  BY DEF Worker
<1> QED
  BY <1>1, LocalBinds DEF Refreshed

LEMMA StageBinds ==
    ASSUME TypeOK, row.cancel, NEW w \in Workers, NEW new \in Worker,
           NEW status \in ScanStatus, NEW progress \in 0 .. 100,
           Stage(w, status, progress, new), new.pc \notin Guarded
    PROVE  Binding
BY HelperFields, CommitBinds DEF Stage

LEMMA WorkerBinds ==
    ASSUME TypeOK, row.cancel, NEW w \in Workers, WorkerStep(w)
    PROVE  Binding
<1>a. worker[w] \in Worker /\ worker[w].scan \in Scan
  BY DEF TypeOK, Worker
<1>b. /\ \A location \in Locations :
           Goto(w, location) \in Worker /\ Goto(w, location).pc = location
      /\ \A next \in Continuations :
           CheckpointThen(w, next) \in Worker /\ CheckpointThen(w, next).pc = "checkpoint"
      /\ \A status \in Terminal, error \in Errors :
           Raise(w, status, error) \in Worker /\ Raise(w, status, error).pc = "terminate"
  BY HelperFields
<1>1. CASE StepFails(w)
  <2>1. PICK new \in Worker : Local(w, new) /\ new.pc = "terminate"
    BY <1>1, Failing
  <2> QED
    BY <2>1, LocalBinds DEF Guarded
<1>2. CASE Receive(w)
  BY <1>2 DEF Receive
<1>3. CASE Discard(w)
  BY <1>3 DEF Discard, Binding
<1>4. CASE Initialize(w)
  BY <1>4, <1>b, LocationsNamed, StageBinds DEF Initialize, Guarded, ScanStatus
<1>5. CASE ValidateTarget(w)
  BY <1>5, <1>b, LocalBinds DEF ValidateTarget, Guarded, Continuations
<1>6. CASE CheckpointCancelled(w)
  BY <1>6, <1>b, RefreshBinds DEF CheckpointCancelled, Guarded, Terminal, Errors
<1>7. CASE CheckpointTimedOut(w) \/ CheckpointPassed(w) \/ CheckpointResumes(w)
           \/ CheckpointPauses(w)
  BY <1>7 DEF CheckpointTimedOut, CheckpointPassed, CheckpointResumes, CheckpointPauses, Proceeds
<1>8. CASE ResumeCommit(w)
  <2>1. [worker[w].scan EXCEPT !.status = "SCANNING"] \in Scan
    BY <1>a DEF Scan, ScanStatus
  <2>2. [worker[w].scan EXCEPT !.status = "SCANNING"].cancel = worker[w].scan.cancel
    BY <1>a DEF Scan
  <2>3. Goto(w, worker[w].next) \in Worker
    BY <1>a, <1>b, LocationsNamed DEF Worker
  <2> QED
    BY <1>8, <2>1, <2>2, <2>3, CommitBinds DEF ResumeCommit
<1>9. CASE PauseCommit(w)
  <2>1. [worker[w].scan EXCEPT !.status = "PAUSED"] \in Scan
    BY <1>a DEF Scan, ScanStatus
  <2>2. [worker[w].scan EXCEPT !.status = "PAUSED"].cancel = worker[w].scan.cancel
    BY <1>a DEF Scan
  <2>3. Goto(w, "checkpoint") \in Worker /\ Goto(w, "checkpoint").pc = "checkpoint"
    BY <1>b, LocationsNamed
  <2> QED
    BY <1>9, <2>1, <2>2, <2>3, CommitBinds DEF PauseCommit, Guarded
<1>10. CASE StartDiscovery(w)
  BY <1>10, <1>b, LocationsNamed, StageBinds DEF StartDiscovery, Guarded, ScanStatus
<1>11. CASE \E some \in BOOLEAN : BuildInventory(w, some)
  <2> PICK some \in BOOLEAN : BuildInventory(w, some)
    BY <1>11
  <2> DEFINE new == [worker[w] EXCEPT !.pc = IF payload THEN "consume" ELSE "endpoints",
                       !.origin = IF payload THEN "submitted" ELSE "fetched",
                       !.found = some]
  <2>1. new.pc \in {"consume", "endpoints"}
    BY <1>a DEF Worker
  <2>2. Local(w, new)
    BY DEF BuildInventory
  <2> HIDE DEF new
  <2> QED
    BY <2>1, <2>2, LocalBinds DEF Guarded
<1>12. CASE ConsumePayload(w)
  BY <1>12, <1>b, LocationsNamed, LocalBinds DEF ConsumePayload, Guarded
<1>13. CASE SaveEndpoints(w)
  BY <1>13, <1>b, LocalBinds DEF SaveEndpoints, Guarded, Continuations
<1>14. CASE StartScanning(w)
  <2>1. CheckpointThen(w, "engine") \in Worker /\ CheckpointThen(w, "engine").pc = "checkpoint"
    BY <1>b DEF Continuations
  <2>2. 1 \in 1 .. Len(Engines)
    BY EnginesAssumption
  <2>3. /\ [CheckpointThen(w, "engine") EXCEPT !.index = 1] \in Worker
        /\ [CheckpointThen(w, "engine") EXCEPT !.index = 1].pc = "checkpoint"
    BY <2>1, <2>2, UpdateTyped DEF Worker
  <2> QED
    <3>1. 30 \in 0 .. 100 /\ "SCANNING" \in ScanStatus
      BY DEF ScanStatus
    <3> QED
      BY <1>14, <2>3, <3>1, StageBinds DEF StartScanning, Guarded
<1>15. CASE \E result \in Outcomes : RunEngine(w, result)
  <2> PICK result \in Outcomes : RunEngine(w, result)
    BY <1>15
  <2>1. [worker[w] EXCEPT !.pc = "persist", !.result = result].pc = "persist"
    BY <1>a DEF Worker
  <2> QED
    BY <2>1, LocalBinds DEF RunEngine, Guarded
<1>16. CASE PersistEngine(w)
  <2> DEFINE new == [worker[w] EXCEPT
           !.pc = IF worker[w].result.engine = "custom" THEN "baselines" ELSE "progress",
           !.failed = @ \/ worker[w].result.status \in {"FAILED", "TIMEOUT"}]
  <2>1. new.pc \in {"baselines", "progress"}
    BY <1>a DEF Worker
  <2>2. Local(w, new)
    BY <1>16 DEF PersistEngine
  <2> HIDE DEF new
  <2> QED
    BY <2>1, <2>2, LocalBinds DEF Guarded
<1>17. CASE ApplyBaselines(w)
  BY <1>17, <1>b, LocationsNamed, LocalBinds DEF ApplyBaselines, Guarded, Terminal, Errors
<1>18. CASE FinishEngine(w)
  <2> DEFINE i == worker[w].index
             new == IF i < Len(Engines)
                    THEN [CheckpointThen(w, "engine") EXCEPT !.index = i + 1,
                                                             !.result = NoResult]
                    ELSE [Goto(w, "correlate") EXCEPT !.result = NoResult]
  <2>1. i \in 1 .. Len(Engines)
    BY <1>a DEF Worker
  <2>2. /\ CheckpointThen(w, "engine") \in Worker
        /\ CheckpointThen(w, "engine").pc = "checkpoint"
        /\ Goto(w, "correlate") \in Worker
        /\ Goto(w, "correlate").pc = "correlate"
    BY <1>b, LocationsNamed DEF Continuations
  <2>3. new \in Worker /\ new.pc \notin Guarded
    <3>1. CASE i < Len(Engines)
      <4>1. i + 1 \in 1 .. Len(Engines)
        BY <2>1, <3>1, EnginesAssumption
      <4>2. [CheckpointThen(w, "engine") EXCEPT !.index = i + 1, !.result = NoResult] \in Worker
        <5>1. [CheckpointThen(w, "engine") EXCEPT !.index = i + 1] \in Worker
          BY <2>2, <4>1, UpdateTyped
        <5> QED
          BY <5>1, ConstantsTyped, UpdateTyped
      <4>3. [CheckpointThen(w, "engine") EXCEPT !.index = i + 1, !.result = NoResult].pc
              = "checkpoint"
        BY <2>2 DEF Worker
      <4> QED
        BY <3>1, <4>2, <4>3 DEF Guarded
    <3>2. CASE ~ (i < Len(Engines))
      <4>1. [Goto(w, "correlate") EXCEPT !.result = NoResult] \in Worker
        BY <2>2, ConstantsTyped, UpdateTyped
      <4>2. [Goto(w, "correlate") EXCEPT !.result = NoResult].pc = "correlate"
        BY <2>2 DEF Worker
      <4> QED
        BY <3>2, <4>1, <4>2 DEF Guarded
    <3> QED
      BY <3>1, <3>2
  <2>4. Stage(w, "SCANNING", Progress(i), new)
    BY <1>18 DEF FinishEngine
  <2>5. Progress(i) \in 0 .. 100
    BY <2>1, ProgressTyped
  <2> HIDE DEF new, i
  <2> QED
    BY <2>3, <2>4, <2>5, StageBinds DEF ScanStatus
<1>19. CASE StartCorrelation(w)
  BY <1>19, <1>b, LocationsNamed, StageBinds DEF StartCorrelation, Guarded, ScanStatus
<1>20. CASE SaveFindings(w)
  <2>1. PICK tested : Local(w, [CheckpointThen(w, "reporting") EXCEPT !.tested = tested])
    BY <1>20 DEF SaveFindings
  <2>2. [CheckpointThen(w, "reporting") EXCEPT !.tested = tested].pc = "checkpoint"
    BY <1>b DEF Worker, Continuations
  <2> QED
    BY <2>1, <2>2, LocalBinds DEF Guarded
<1>21. CASE StartReporting(w)
  BY <1>21, <1>b, LocationsNamed, StageBinds DEF StartReporting, Guarded, ScanStatus
<1>22. CASE Assess(w)
  <2>1. PICK verdict : Local(w, [worker[w] EXCEPT !.pc = "publish", !.verdict = verdict])
    BY <1>22 DEF Assess
  <2>2. [worker[w] EXCEPT !.pc = "publish", !.verdict = verdict].pc = "publish"
    BY <1>a DEF Worker
  <2> QED
    BY <2>1, <2>2, LocalBinds DEF Guarded
<1>c. [IdleWorker EXCEPT !.pc = "ack"] \in Worker /\ [IdleWorker EXCEPT !.pc = "ack"].pc = "ack"
  BY ConstantsTyped, UpdateTyped, LocationsNamed DEF IdleWorker
<1>d. worker[w].verdict \in ScanStatus /\ worker[w].error \in Errors
  BY <1>a DEF Worker, ScanStatus
<1>23. CASE Publish(w)
  <2> DEFINE scan == [worker[w].scan EXCEPT !.status = worker[w].verdict,
                                            !.progress = 100, !.finished = TRUE]
  <2>1. scan \in Scan
    <3>1. 100 \in 0 .. 100
      OBVIOUS
    <3> QED
      BY <3>1, <1>a, <1>d DEF Scan
  <2>2. scan.cancel = worker[w].scan.cancel
    BY <1>a DEF Scan
  <2>3. Commit(w, scan, [IdleWorker EXCEPT !.pc = "ack"])
    BY <1>23 DEF Publish
  <2> HIDE DEF scan
  <2> QED
    BY <1>c, <2>1, <2>2, <2>3, CommitBinds DEF Guarded
<1>24. CASE Terminate(w)
  <2> DEFINE scan == [worker[w].scan EXCEPT !.status = worker[w].verdict,
                                            !.error = worker[w].error, !.finished = TRUE]
  <2>1. scan \in Scan
    BY <1>a, <1>d DEF Scan
  <2>2. scan.cancel = worker[w].scan.cancel
    BY <1>a DEF Scan
  <2>3. Commit(w, scan, [IdleWorker EXCEPT !.pc = "ack"])
    BY <1>24 DEF Terminate
  <2> HIDE DEF scan
  <2> QED
    BY <1>c, <2>1, <2>2, <2>3, CommitBinds DEF Guarded
<1>25. CASE Acknowledge(w)
  BY <1>25, LocalBinds DEF Acknowledge, IdleWorker, Guarded
<1>26. CASE AnalysisFails(w)
  BY <1>26, <1>b, LocalBinds DEF AnalysisFails, Guarded, Terminal, Errors
<1> QED
  BY <1>1, <1>2, <1>3, <1>4, <1>5, <1>6, <1>7, <1>8, <1>9, <1>10, <1>11, <1>12, <1>13,
     <1>14, <1>15, <1>16, <1>17, <1>18, <1>19, <1>20, <1>21, <1>22, <1>23, <1>24, <1>25,
     <1>26
     DEF WorkerStep

LEMMA StepBinds ==
    ASSUME TypeOK, Untouched, [Next]_vars, row.cancel
    PROVE  Binding
<1>a. row \in Scan
  BY DEF TypeOK
<1>1. CASE Submission
  <2>1. submit \notin {"start", "rejected"}
    BY DEF Untouched, QueuedScan
  <2>2. CASE Dispatch
    BY <2>2 DEF Dispatch, Binding
  <2>3. CASE \E published \in BOOLEAN : DispatchFails(published)
    <3> DEFINE new == [QueuedScan EXCEPT !.status = "FAILED", !.error = "dispatch"]
    <3>1. new \in Scan
      BY ConstantsTyped DEF Scan, ScanStatus, Terminal, Errors
    <3>2. new.cancel = QueuedScan.cancel
      BY DEF QueuedScan
    <3>3. row' = Flush(row, QueuedScan, new)
      BY <2>3 DEF DispatchFails
    <3> HIDE DEF new
    <3>4. row'.cancel
      BY <1>a, <3>1, <3>2, <3>3, ConstantsTyped, FlushColumns
    <3> QED
      BY <2>3, <3>4 DEF DispatchFails, Binding
  <2> QED
    BY <1>1, <2>1, <2>2, <2>3 DEF Submission, RejectRequest, CreateScan
<1>2. ASSUME NEW c \in Controls, ControlRequest(c) PROVE Binding
  <2>1. CASE \E action \in Actions : ControlRead(c, action)
    BY <2>1 DEF ControlRead, Binding
  <2>2. CASE ControlCommit(c)
    <3> DEFINE loaded == control[c].loaded
               action == control[c].action
               new == Requested(action, loaded)
    <3>1. loaded \in Scan /\ action \in Actions
      BY DEF TypeOK, Control
    <3>2. new \in Scan
      BY <3>1, RequestedTyped
    <3>3. new.cancel = loaded.cancel \/ new.cancel = TRUE
      BY <3>1 DEF Requested, Actions, Scan
    <3>4. row' = Flush(row, loaded, new)
      BY <2>2 DEF ControlCommit
    <3> HIDE DEF new, loaded
    <3>5. row'.cancel
      BY <1>a, <3>1, <3>2, <3>3, <3>4, FlushColumns
    <3> QED
      BY <2>2, <3>5 DEF ControlCommit, Binding
  <2> QED
    BY <1>2, <2>1, <2>2 DEF ControlRequest
<1>3. CASE Environment
  <2>1. ASSUME NEW w \in Workers, DeadlinePasses(w) PROVE Binding
    <3>1. [worker[w] EXCEPT !.expired = TRUE].pc = worker[w].pc
      BY DEF TypeOK, Worker
    <3> QED
      BY <2>1, <3>1, LocalBinds DEF DeadlinePasses
  <2>2. CASE Redeliver \/ ApiLost
    BY <2>2 DEF Redeliver, ApiLost, Fault, Binding
  <2>3. ASSUME NEW w \in Workers, WorkerLost(w) \/ Abandon(w) PROVE Binding
    <3>1. row' = row /\ worker' = [worker EXCEPT ![w] = IdleWorker]
      BY <2>3 DEF WorkerLost, Abandon, Fault
    <3>2. \A v \in Workers : worker'[v] = worker[v] \/ worker'[v] = IdleWorker
      BY <3>1 DEF TypeOK
    <3> QED
      BY <3>1, <3>2 DEF Binding, IdleWorker
  <2> QED
    BY <1>3, <2>1, <2>2, <2>3 DEF Environment
<1>4. CASE UNCHANGED vars
  BY <1>4 DEF vars, Binding
<1> QED
  BY <1>1, <1>2, <1>3, <1>4, WorkerBinds DEF Next, Quiescent

\* A cancellation that has been committed is never withdrawn, and no worker that has yet
\* to look at the row starts the scan, an engine or the reporting (_checkpoint, _control):
\* for any number of workers, deliveries, requests and faults.
THEOREM CancellationBinds == Spec => CancelBinds
<1>1. TypeOK /\ Untouched /\ [Next]_vars =>
        [row.cancel => Binding]_vars
  BY StepBinds
<1>2. [](TypeOK /\ Untouched) /\ [][Next]_vars => [][row.cancel => Binding]_vars
  BY <1>1, PTL
<1>3. Spec => [](TypeOK /\ Untouched)
  BY UntouchedInit, UntouchedStep, TypeCorrect, PTL DEF Spec
<1>4. Spec => [][row.cancel => Binding]_vars
  BY <1>2, <1>3, PTL DEF Spec
<1> QED
  BY <1>4 DEF CancelBinds, Binding

-----------------------------------------------------------------------------
(* A verdict has its artefacts.  A worker that is past the findings, or in  *)
(* the checkpoint that follows them, finds them committed, by itself or by  *)
(* an earlier delivery; only Publish commits a verdict of success.          *)

Success == {"COMPLETED", "PARTIAL"}

PastFindings(local) ==
    \/ local.pc \in {"reporting", "assess", "publish"}
    \/ /\ local.pc \in {"checkpoint", "pausing", "resuming"}
       /\ local.next = "reporting"

\* "n": the batches of findings committed.
Earned(local, n) ==
    /\ PastFindings(local) => n > 0
    /\ local.pc = "terminate" => local.verdict \notin Success

VerdictInv ==
    /\ TypeOK
    /\ \A w \in Workers : Earned(worker[w], findings)
    /\ VerdictHasReports

LEMMA LocalEarns ==
    ASSUME VerdictInv, NEW w \in Workers, NEW new, Local(w, new), TypeOK',
           findings' >= findings, reports' >= reports, Earned(new, findings')
    PROVE  VerdictInv'
<1>1. worker'[w] = new /\ row' = row /\ \A v \in Workers \ {w} : worker'[v] = worker[v]
  BY LocalMoves DEF VerdictInv
<1>2. findings \in Nat /\ reports \in Nat /\ findings' \in Nat /\ reports' \in Nat
  BY DEF VerdictInv, TypeOK
<1>3. Earned(worker[w], findings)'
  BY <1>1 DEF Earned, PastFindings
<1>4. ASSUME NEW v \in Workers \ {w} PROVE Earned(worker[v], findings)'
  <2>1. Earned(worker[v], findings)
    BY DEF VerdictInv
  <2> QED
    BY <1>1, <1>2, <2>1 DEF Earned, PastFindings
<1>5. VerdictHasReports'
  BY <1>1, <1>2 DEF VerdictInv, VerdictHasReports
<1> QED
  BY <1>3, <1>4, <1>5 DEF VerdictInv

LEMMA CommitEarns ==
    ASSUME VerdictInv, NEW w \in Workers, NEW scan \in Scan, NEW new \in Worker,
           Commit(w, scan, new), TypeOK', findings' >= findings, reports' >= reports,
           Earned(new, findings'),
           scan.status \in Success => findings > 0 /\ reports' > 0
    PROVE  VerdictInv'
<1>1. /\ worker'[w].pc = new.pc
      /\ worker'[w].next = new.next
      /\ worker'[w].verdict = new.verdict
      /\ \A v \in Workers \ {w} : worker'[v] = worker[v]
      /\ row' = Flush(row, worker[w].scan, scan)
  BY CommitMoves DEF VerdictInv
<1>2. findings \in Nat /\ reports \in Nat /\ findings' \in Nat /\ reports' \in Nat
  BY DEF VerdictInv, TypeOK
<1>3. Earned(worker[w], findings)'
  BY <1>1 DEF Earned, PastFindings
<1>4. ASSUME NEW v \in Workers \ {w} PROVE Earned(worker[v], findings)'
  <2>1. Earned(worker[v], findings)
    BY DEF VerdictInv
  <2> QED
    BY <1>1, <1>2, <2>1 DEF Earned, PastFindings
<1>5. row'.status \in {row.status, scan.status}
  <2>1. row \in Scan /\ worker[w].scan \in Scan
    BY DEF VerdictInv, TypeOK, Worker
  <2> QED
    BY <1>1, <2>1, FlushColumns
<1>6. VerdictHasReports'
  BY <1>2, <1>5 DEF VerdictInv, VerdictHasReports, Success
<1> QED
  BY <1>3, <1>4, <1>6 DEF VerdictInv

\* What the helpers of the steps earn, whatever has been committed.
LEMMA HelpersEarn ==
    ASSUME TypeOK, NEW w \in Workers, NEW n
    PROVE  /\ \A location \in Locations \ {"reporting", "assess", "publish", "checkpoint",
                                           "pausing", "resuming", "terminate"} :
                Earned(Goto(w, location), n)
           /\ \A next \in Continuations \ {"reporting"} : Earned(CheckpointThen(w, next), n)
           /\ \A status \in Terminal \ Success, error \in Errors :
                Earned(Raise(w, status, error), n)
<1>1. \A location \in Locations : Goto(w, location).pc = location
  BY HelperFields
<1>2. \A next \in Continuations : /\ CheckpointThen(w, next).pc = "checkpoint"
                                  /\ CheckpointThen(w, next).next = next
  BY HelperFields
<1>3. \A status \in Terminal, error \in Errors :
        Raise(w, status, error).pc = "terminate" /\ Raise(w, status, error).verdict = status
  BY HelperFields
<1> QED
  BY <1>1, <1>2, <1>3 DEF Earned, PastFindings

LEMMA RefreshEarns ==
    ASSUME VerdictInv, NEW w \in Workers, NEW new \in Worker, Refreshed(w, new), TypeOK',
           Earned(new, findings)
    PROVE  VerdictInv'
<1>1. Earned([new EXCEPT !.scan = row], findings)
  BY DEF Worker, Earned, PastFindings
<1>2. findings' = findings /\ reports' = reports /\ findings \in Nat /\ reports \in Nat
  BY DEF Refreshed, tables, VerdictInv, TypeOK
<1> QED
  BY <1>1, <1>2, LocalEarns DEF Refreshed

LEMMA StageEarns ==
    ASSUME VerdictInv, NEW w \in Workers, NEW new \in Worker,
           NEW status \in ScanStatus \ Success, NEW progress \in 0 .. 100,
           Stage(w, status, progress, new), TypeOK', Earned(new, findings)
    PROVE  VerdictInv'
<1>1. Staged(w, status, progress) \in Scan /\ Staged(w, status, progress).status = status
  BY HelperFields DEF VerdictInv
<1>2. findings' = findings /\ reports' = reports /\ findings \in Nat /\ reports \in Nat
  BY DEF Stage, tables, VerdictInv, TypeOK
<1> QED
  BY <1>1, <1>2, CommitEarns DEF Stage

LEMMA WorkerEarns ==
    ASSUME VerdictInv, NEW w \in Workers, WorkerStep(w)
    PROVE  VerdictInv'
<1>a. /\ TypeOK /\ worker[w] \in Worker /\ worker[w].scan \in Scan
      /\ findings \in Nat /\ reports \in Nat
      /\ Earned(worker[w], findings)
  BY DEF VerdictInv, TypeOK, Worker
<1>b. TypeOK'
  BY <1>a, WorkerTyped
<1>c. /\ \A location \in Locations :
           /\ Goto(w, location) \in Worker
           /\ Goto(w, location).pc = location
           /\ Goto(w, location).next = worker[w].next
      /\ \A next \in Continuations : CheckpointThen(w, next) \in Worker
      /\ \A status \in Terminal, error \in Errors : Raise(w, status, error) \in Worker
  BY <1>a, HelperFields
<1>d. /\ {"init", "validate", "inventory", "consume", "endpoints", "context", "engine",
          "persist", "baselines", "progress", "correlate", "findings", "discover"}
             \subseteq Locations \ {"reporting", "assess", "publish", "checkpoint",
                                    "pausing", "resuming", "terminate"}
      /\ {"discover", "context", "engine"} = Continuations \ {"reporting"}
      /\ {"FAILED", "CANCELLED", "TIMEOUT"} = Terminal \ Success
  BY DEF Locations, Continuations, Terminal, Success
<1>e. ASSUME UNCHANGED <<findings, reports>>, NEW new, Local(w, new), Earned(new, findings)
      PROVE  VerdictInv'
  BY <1>a, <1>b, <1>e, LocalEarns
<1>1. CASE StepFails(w)
  <2>1. PICK new \in Worker : /\ Local(w, new) /\ UNCHANGED tables
                            /\ new.pc = "terminate" /\ new.verdict = "FAILED"
    BY <1>1, <1>a, Failing
  <2>2. Earned(new, findings)
    BY <2>1 DEF Earned, PastFindings, Success
  <2> QED
    BY <2>1, <2>2, <1>e DEF tables
<1>2. CASE Receive(w)
  <2>1. worker'[w].pc = "init" /\ \A v \in Workers \ {w} : worker'[v] = worker[v]
    BY <1>2, <1>a DEF Receive, IdleWorker, TypeOK
  <2>2. UNCHANGED <<row, findings, reports>>
    BY <1>2 DEF Receive, tables
  <2> QED
    BY <1>b, <2>1, <2>2 DEF VerdictInv, Earned, PastFindings, VerdictHasReports
<1>3. CASE Discard(w)
  BY <1>3, <1>b DEF Discard, tables, VerdictInv, Earned, PastFindings, VerdictHasReports
<1>4. CASE Initialize(w)
  <2>1. Goto(w, "validate") \in Worker /\ Earned(Goto(w, "validate"), findings)
    BY <1>a, <1>c, <1>d, HelpersEarn
  <2> QED
    BY <1>4, <1>b, <2>1, StageEarns DEF Initialize, ScanStatus, Success
<1>5. CASE ValidateTarget(w)
  BY <1>5, <1>a, <1>d, <1>e, HelpersEarn DEF ValidateTarget, tables
<1>6. CASE CheckpointCancelled(w)
  <2>1. /\ Raise(w, "CANCELLED", "cancelled") \in Worker
        /\ Earned(Raise(w, "CANCELLED", "cancelled"), findings)
    BY <1>a, <1>c, <1>d, HelpersEarn DEF Errors
  <2> QED
    BY <1>6, <1>b, <2>1, RefreshEarns DEF CheckpointCancelled
<1>7. CASE CheckpointTimedOut(w)
  <2>1. /\ Raise(w, "TIMEOUT", "deadline") \in Worker
        /\ Earned(Raise(w, "TIMEOUT", "deadline"), findings)
    BY <1>a, <1>c, <1>d, HelpersEarn DEF Errors
  <2> QED
    BY <1>7, <1>b, <2>1, RefreshEarns DEF CheckpointTimedOut
<1>8. CASE CheckpointPassed(w)
  <2>1. worker[w].next \in Continuations /\ At(w, "checkpoint")
    BY <1>8, <1>a DEF CheckpointPassed, Refreshed, Worker
  <2>2. Goto(w, worker[w].next) \in Worker /\ Goto(w, worker[w].next).pc = worker[w].next
    BY <2>1, <1>c, LocationsNamed
  <2>3. Earned(Goto(w, worker[w].next), findings)
    BY <1>a, <2>1, <2>2 DEF Earned, PastFindings, At, Continuations
  <2> QED
    BY <1>8, <1>b, <2>2, <2>3, RefreshEarns DEF CheckpointPassed
<1>9. CASE CheckpointResumes(w)
  <2>1. Goto(w, "resuming") \in Worker /\ Goto(w, "resuming").pc = "resuming"
                                      /\ Goto(w, "resuming").next = worker[w].next
    BY <1>c, LocationsNamed
  <2>2. Earned(Goto(w, "resuming"), findings)
    BY <1>9, <1>a, <2>1 DEF CheckpointResumes, Refreshed, At, Earned, PastFindings
  <2> QED
    BY <1>9, <1>b, <2>1, <2>2, RefreshEarns DEF CheckpointResumes
<1>10. CASE CheckpointPauses(w)
  <2>1. Goto(w, "pausing") \in Worker /\ Goto(w, "pausing").pc = "pausing"
                                     /\ Goto(w, "pausing").next = worker[w].next
    BY <1>c, LocationsNamed
  <2>2. Earned(Goto(w, "pausing"), findings)
    BY <1>10, <1>a, <2>1 DEF CheckpointPauses, Refreshed, At, Earned, PastFindings
  <2> QED
    BY <1>10, <1>b, <2>1, <2>2, RefreshEarns DEF CheckpointPauses
<1>11. CASE ResumeCommit(w)
  <2> DEFINE scan == [worker[w].scan EXCEPT !.status = "SCANNING"]
  <2>1. scan \in Scan /\ scan.status = "SCANNING"
    BY <1>a DEF Scan, ScanStatus
  <2>2. worker[w].next \in Continuations
    BY <1>a DEF Worker
  <2>3. Goto(w, worker[w].next) \in Worker /\ Goto(w, worker[w].next).pc = worker[w].next
    BY <2>2, <1>c, LocationsNamed
  <2>4. Earned(Goto(w, worker[w].next), findings)
    BY <1>11, <1>a, <2>2, <2>3 DEF ResumeCommit, Earned, PastFindings, At, Continuations
  <2>5. Commit(w, scan, Goto(w, worker[w].next)) /\ UNCHANGED <<findings, reports>>
    BY <1>11 DEF ResumeCommit, tables
  <2> HIDE DEF scan
  <2> QED
    BY <1>a, <1>b, <2>1, <2>3, <2>4, <2>5, CommitEarns DEF Success
<1>12. CASE PauseCommit(w)
  <2> DEFINE scan == [worker[w].scan EXCEPT !.status = "PAUSED"]
  <2>1. scan \in Scan /\ scan.status = "PAUSED"
    BY <1>a DEF Scan, ScanStatus
  <2>2. Goto(w, "checkpoint") \in Worker /\ Goto(w, "checkpoint").pc = "checkpoint"
                                        /\ Goto(w, "checkpoint").next = worker[w].next
    BY <1>c, LocationsNamed
  <2>3. Earned(Goto(w, "checkpoint"), findings)
    BY <1>12, <1>a, <2>2 DEF PauseCommit, Earned, PastFindings, At
  <2>4. Commit(w, scan, Goto(w, "checkpoint")) /\ UNCHANGED <<findings, reports>>
    BY <1>12 DEF PauseCommit, tables
  <2> HIDE DEF scan
  <2> QED
    BY <1>a, <1>b, <2>1, <2>2, <2>3, <2>4, CommitEarns DEF Success
<1>13. CASE StartDiscovery(w)
  <2>1. Goto(w, "inventory") \in Worker /\ Earned(Goto(w, "inventory"), findings)
    BY <1>a, <1>c, <1>d, HelpersEarn
  <2> QED
    BY <1>13, <1>b, <2>1, StageEarns DEF StartDiscovery, ScanStatus, Success
<1>14. CASE \E some \in BOOLEAN : BuildInventory(w, some)
  <2> PICK some \in BOOLEAN : BuildInventory(w, some)
    BY <1>14
  <2> DEFINE new == [worker[w] EXCEPT !.pc = IF payload THEN "consume" ELSE "endpoints",
                       !.origin = IF payload THEN "submitted" ELSE "fetched",
                       !.found = some]
  <2>1. new.pc \in {"consume", "endpoints"}
    BY <1>a DEF Worker
  <2>2. Local(w, new) /\ UNCHANGED <<findings, reports>>
    BY DEF BuildInventory, tables
  <2> HIDE DEF new
  <2> QED
    BY <2>1, <2>2, <1>e DEF Earned, PastFindings
<1>15. CASE ConsumePayload(w)
  BY <1>15, <1>a, <1>d, <1>e, HelpersEarn DEF ConsumePayload
<1>16. CASE SaveEndpoints(w)
  BY <1>16, <1>a, <1>d, <1>e, HelpersEarn DEF SaveEndpoints
<1>17. CASE StartScanning(w)
  <2> DEFINE new == [CheckpointThen(w, "engine") EXCEPT !.index = 1]
  <2>1. CheckpointThen(w, "engine") \in Worker /\ Earned(CheckpointThen(w, "engine"), findings)
    BY <1>a, <1>c, <1>d, HelpersEarn
  <2>2. 1 \in 1 .. Len(Engines) /\ 30 \in 0 .. 100
    BY EnginesAssumption
  <2>3. new \in Worker /\ Earned(new, findings)
    BY <2>1, <2>2, UpdateTyped DEF Worker, Earned, PastFindings
  <2>4. Stage(w, "SCANNING", 30, new)
    BY <1>17 DEF StartScanning
  <2> HIDE DEF new
  <2> QED
    BY <1>b, <2>2, <2>3, <2>4, StageEarns DEF ScanStatus, Success
<1>18. CASE \E result \in Outcomes : RunEngine(w, result)
  <2> PICK result \in Outcomes : RunEngine(w, result)
    BY <1>18
  <2>1. [worker[w] EXCEPT !.pc = "persist", !.result = result].pc = "persist"
    BY <1>a DEF Worker
  <2> QED
    BY <2>1, <1>e DEF RunEngine, Earned, PastFindings, tables
<1>19. CASE PersistEngine(w)
  <2> DEFINE new == [worker[w] EXCEPT
           !.pc = IF worker[w].result.engine = "custom" THEN "baselines" ELSE "progress",
           !.failed = @ \/ worker[w].result.status \in {"FAILED", "TIMEOUT"}]
  <2>1. new.pc \in {"baselines", "progress"}
    BY <1>a DEF Worker
  <2>2. Local(w, new) /\ UNCHANGED <<findings, reports>>
    BY <1>19 DEF PersistEngine
  <2> HIDE DEF new
  <2> QED
    BY <2>1, <2>2, <1>e DEF Earned, PastFindings
<1>20. CASE ApplyBaselines(w)
  <2>1. /\ Earned(Goto(w, "progress"), findings)
        /\ Earned(Raise(w, "FAILED", "unreachable"), findings)
    BY <1>a, <1>d, HelpersEarn DEF Errors
  <2> QED
    BY <1>20, <2>1, <1>e DEF ApplyBaselines
<1>21. CASE FinishEngine(w)
  <2> DEFINE i == worker[w].index
             new == IF i < Len(Engines)
                    THEN [CheckpointThen(w, "engine") EXCEPT !.index = i + 1,
                                                             !.result = NoResult]
                    ELSE [Goto(w, "correlate") EXCEPT !.result = NoResult]
  <2>1. i \in 1 .. Len(Engines)
    BY <1>a DEF Worker
  <2>2. /\ CheckpointThen(w, "engine") \in Worker /\ Goto(w, "correlate") \in Worker
        /\ Earned(CheckpointThen(w, "engine"), findings) /\ Earned(Goto(w, "correlate"), findings)
    BY <1>a, <1>c, <1>d, HelpersEarn
  <2>3. new \in Worker /\ Earned(new, findings)
    <3>1. CASE i < Len(Engines)
      <4>1. i + 1 \in 1 .. Len(Engines)
        BY <2>1, <3>1, EnginesAssumption
      <4>2. [CheckpointThen(w, "engine") EXCEPT !.index = i + 1] \in Worker
        BY <2>2, <4>1, UpdateTyped
      <4>3. [CheckpointThen(w, "engine") EXCEPT !.index = i + 1, !.result = NoResult] \in Worker
        BY <4>2, ConstantsTyped, UpdateTyped
      <4>4. Earned([CheckpointThen(w, "engine") EXCEPT !.index = i + 1, !.result = NoResult],
                   findings)
        BY <2>2 DEF Worker, Earned, PastFindings
      <4> QED
        BY <3>1, <4>3, <4>4
    <3>2. CASE ~ (i < Len(Engines))
      <4>1. [Goto(w, "correlate") EXCEPT !.result = NoResult] \in Worker
        BY <2>2, ConstantsTyped, UpdateTyped
      <4>2. Earned([Goto(w, "correlate") EXCEPT !.result = NoResult], findings)
        BY <2>2 DEF Worker, Earned, PastFindings
      <4> QED
        BY <3>2, <4>1, <4>2
    <3> QED
      BY <3>1, <3>2
  <2>4. Stage(w, "SCANNING", Progress(i), new)
    BY <1>21 DEF FinishEngine
  <2>5. Progress(i) \in 0 .. 100
    BY <2>1, ProgressTyped
  <2> HIDE DEF new, i
  <2> QED
    BY <1>b, <2>3, <2>4, <2>5, StageEarns DEF ScanStatus, Success
<1>22. CASE StartCorrelation(w)
  <2>1. Goto(w, "findings") \in Worker /\ Earned(Goto(w, "findings"), findings)
    BY <1>a, <1>c, <1>d, HelpersEarn
  <2> QED
    BY <1>22, <1>b, <2>1, StageEarns DEF StartCorrelation, ScanStatus, Success
<1>23. CASE SaveFindings(w)
  <2>1. findings' = findings + 1 /\ reports' = reports
    BY <1>23 DEF SaveFindings
  <2>2. PICK tested : Local(w, [CheckpointThen(w, "reporting") EXCEPT !.tested = tested])
    BY <1>23 DEF SaveFindings
  <2>3. [CheckpointThen(w, "reporting") EXCEPT !.tested = tested].pc = "checkpoint"
    BY <1>a, HelperFields DEF Worker, Continuations
  <2>4. Earned([CheckpointThen(w, "reporting") EXCEPT !.tested = tested], findings')
    BY <1>a, <2>1, <2>3 DEF Earned, PastFindings
  <2> QED
    BY <1>a, <1>b, <2>1, <2>2, <2>4, LocalEarns
<1>24. CASE StartReporting(w)
  <2>1. Goto(w, "assess") \in Worker /\ Goto(w, "assess").pc = "assess"
    BY <1>c, LocationsNamed
  <2>2. Earned(Goto(w, "assess"), findings)
    BY <1>24, <1>a, <2>1 DEF StartReporting, At, Earned, PastFindings
  <2> QED
    BY <1>24, <1>b, <2>1, <2>2, StageEarns DEF StartReporting, ScanStatus, Success
<1>25. CASE Assess(w)
  <2>1. PICK verdict : Local(w, [worker[w] EXCEPT !.pc = "publish", !.verdict = verdict])
    BY <1>25 DEF Assess
  <2>2. [worker[w] EXCEPT !.pc = "publish", !.verdict = verdict].pc = "publish"
    BY <1>a DEF Worker
  <2>3. findings > 0
    BY <1>25, <1>a DEF Assess, At, Earned, PastFindings
  <2>4. Earned([worker[w] EXCEPT !.pc = "publish", !.verdict = verdict], findings)
    BY <2>2, <2>3 DEF Earned, PastFindings
  <2> QED
    BY <1>25, <2>1, <2>4, <1>e DEF Assess, tables
<1>f. /\ [IdleWorker EXCEPT !.pc = "ack"] \in Worker
      /\ Earned([IdleWorker EXCEPT !.pc = "ack"], findings)
  BY ConstantsTyped, UpdateTyped, LocationsNamed DEF IdleWorker, Earned, PastFindings
<1>g. worker[w].verdict \in ScanStatus /\ worker[w].error \in Errors
  BY <1>a DEF Worker, ScanStatus
<1>26. CASE Publish(w)
  <2> DEFINE scan == [worker[w].scan EXCEPT !.status = worker[w].verdict,
                                            !.progress = 100, !.finished = TRUE]
  <2>1. scan \in Scan
    <3>1. 100 \in 0 .. 100
      OBVIOUS
    <3> QED
      BY <3>1, <1>a, <1>g DEF Scan
  <2>2. Commit(w, scan, [IdleWorker EXCEPT !.pc = "ack"])
    BY <1>26 DEF Publish
  <2>3. findings > 0 /\ findings' = findings /\ reports' = reports + 1
    BY <1>26, <1>a DEF Publish, At, Earned, PastFindings
  <2> HIDE DEF scan
  <2> QED
    BY <1>a, <1>b, <1>f, <2>1, <2>2, <2>3, CommitEarns
<1>27. CASE Terminate(w)
  <2> DEFINE scan == [worker[w].scan EXCEPT !.status = worker[w].verdict,
                                            !.error = worker[w].error, !.finished = TRUE]
  <2>1. scan \in Scan
    BY <1>a, <1>g DEF Scan
  <2>2. scan.status = worker[w].verdict
    BY <1>a DEF Scan
  <2>3. scan.status \notin Success
    BY <1>27, <1>a, <2>2 DEF Terminate, At, Earned
  <2>4. /\ Commit(w, scan, [IdleWorker EXCEPT !.pc = "ack"])
        /\ findings' >= findings /\ reports' >= reports
    BY <1>27, <1>a DEF Terminate
  <2>5. Earned([IdleWorker EXCEPT !.pc = "ack"], findings')
    BY DEF IdleWorker, Earned, PastFindings
  <2> HIDE DEF scan
  <2> QED
    BY <1>a, <1>b, <1>f, <2>1, <2>3, <2>4, <2>5, CommitEarns
<1>28. CASE Acknowledge(w)
  BY <1>28, <1>e DEF Acknowledge, tables, IdleWorker, Earned, PastFindings
<1>29. CASE AnalysisFails(w)
  BY <1>29, <1>a, <1>d, <1>e, HelpersEarn DEF AnalysisFails, Errors
<1> QED
  BY <1>1, <1>2, <1>3, <1>4, <1>5, <1>6, <1>7, <1>8, <1>9, <1>10, <1>11, <1>12, <1>13,
     <1>14, <1>15, <1>16, <1>17, <1>18, <1>19, <1>20, <1>21, <1>22, <1>23, <1>24, <1>25,
     <1>26, <1>27, <1>28, <1>29
     DEF WorkerStep

\* A step that moves no worker, except to idle, and commits no success.
LEMMA OtherEarns ==
    ASSUME VerdictInv, TypeOK', UNCHANGED <<findings, reports>>,
           row'.status \in Success => row'.status = row.status,
           \A w \in Workers : worker'[w] = worker[w] \/ worker'[w] = IdleWorker
    PROVE  VerdictInv'
<1>1. ASSUME NEW w \in Workers PROVE Earned(worker[w], findings)'
  <2>1. Earned(IdleWorker, findings) /\ Earned(worker[w], findings)
    BY DEF VerdictInv, IdleWorker, Earned, PastFindings
  <2> QED
    BY <2>1 DEF Earned, PastFindings
<1>2. VerdictHasReports'
  BY DEF VerdictInv, VerdictHasReports, Success
<1> QED
  BY <1>1, <1>2 DEF VerdictInv

LEMMA VerdictStep == VerdictInv /\ [Next]_vars => VerdictInv'
<1> SUFFICES ASSUME VerdictInv, [Next]_vars PROVE VerdictInv'
  OBVIOUS
<1>a. TypeOK /\ TypeOK' /\ row \in Scan
  BY StepTyped DEF VerdictInv, TypeOK
<1>1. CASE Submission
  <2>1. CASE RejectRequest \/ Dispatch
    BY <1>a, <2>1, OtherEarns DEF RejectRequest, Dispatch, tables
  <2>2. CASE \E document \in BOOLEAN : CreateScan(document)
    BY <1>a, <2>2, OtherEarns DEF CreateScan, QueuedScan, Success
  <2>3. CASE \E published \in BOOLEAN : DispatchFails(published)
    <3> DEFINE new == [QueuedScan EXCEPT !.status = "FAILED", !.error = "dispatch"]
    <3>1. new \in Scan
      BY ConstantsTyped DEF Scan, ScanStatus, Terminal, Errors
    <3>2. new.status = "FAILED"
      BY DEF QueuedScan
    <3>3. row' = Flush(row, QueuedScan, new)
      BY <2>3 DEF DispatchFails
    <3> HIDE DEF new
    <3>4. row'.status \in {row.status, "FAILED"}
      BY <1>a, <3>1, <3>2, <3>3, ConstantsTyped, FlushColumns
    <3> QED
      BY <1>a, <2>3, <3>4, OtherEarns DEF DispatchFails, tables, Success
  <2> QED
    BY <1>1, <2>1, <2>2, <2>3 DEF Submission
<1>2. ASSUME NEW c \in Controls, ControlRequest(c) PROVE VerdictInv'
  <2>1. CASE \E action \in Actions : ControlRead(c, action)
    BY <1>a, <2>1, OtherEarns DEF ControlRead, tables
  <2>2. CASE ControlCommit(c)
    <3> DEFINE loaded == control[c].loaded
               action == control[c].action
               new == Requested(action, loaded)
    <3>1. loaded \in Scan /\ action \in Actions
      BY <1>a DEF TypeOK, Control
    <3>2. new \in Scan
      BY <3>1, RequestedTyped
    <3>3. new.status = loaded.status \/ new.status = "CANCELLED"
      BY <3>1 DEF Requested, Actions, Scan
    <3>4. row' = Flush(row, loaded, new)
      BY <2>2 DEF ControlCommit
    <3> HIDE DEF new, loaded
    <3>5. row'.status \in {row.status, "CANCELLED"}
      BY <1>a, <3>1, <3>2, <3>3, <3>4, FlushColumns
    <3> QED
      BY <1>a, <2>2, <3>5, OtherEarns DEF ControlCommit, tables, Success
  <2> QED
    BY <1>2, <2>1, <2>2 DEF ControlRequest
<1>3. CASE Environment
  <2>1. ASSUME NEW w \in Workers, DeadlinePasses(w) PROVE VerdictInv'
    <3>1. worker[w] \in Worker /\ Earned(worker[w], findings)
      BY <1>a DEF VerdictInv, TypeOK
    <3>2. Earned([worker[w] EXCEPT !.expired = TRUE], findings)
      BY <3>1 DEF Worker, Earned, PastFindings
    <3>3. findings' = findings /\ reports' = reports /\ findings \in Nat /\ reports \in Nat
      BY <1>a, <2>1 DEF DeadlinePasses, tables, TypeOK
    <3> QED
      BY <1>a, <2>1, <3>2, <3>3, LocalEarns DEF DeadlinePasses
  <2>2. CASE Redeliver \/ ApiLost
    BY <1>a, <2>2, OtherEarns DEF Redeliver, ApiLost, Fault, tables
  <2>3. ASSUME NEW w \in Workers, WorkerLost(w) \/ Abandon(w) PROVE VerdictInv'
    <3>1. row' = row /\ worker' = [worker EXCEPT ![w] = IdleWorker]
                    /\ UNCHANGED <<findings, reports>>
      BY <2>3 DEF WorkerLost, Abandon, Fault, tables
    <3>2. \A v \in Workers : worker'[v] = worker[v] \/ worker'[v] = IdleWorker
      BY <1>a, <3>1 DEF TypeOK
    <3> QED
      BY <1>a, <3>1, <3>2, OtherEarns
  <2> QED
    BY <1>3, <2>1, <2>2, <2>3 DEF Environment
<1>4. CASE UNCHANGED vars
  BY <1>4, <1>a, OtherEarns DEF vars, tables
<1> QED
  BY <1>1, <1>2, <1>3, <1>4, WorkerEarns DEF Next, Quiescent

\* COMPLETED and PARTIAL are only ever shown for a scan whose findings and reports have
\* been committed, whatever is redelivered, raced or lost on the way (run).
THEOREM VerdictsHaveReports == Spec => []VerdictHasReports
<1>1. Init => VerdictInv
  BY InitTyped DEF Init, VerdictInv, IdleWorker, QueuedScan, Earned, PastFindings,
                   VerdictHasReports
<1>2. VerdictInv => VerdictHasReports
  BY DEF VerdictInv
<1> QED
  BY <1>1, <1>2, VerdictStep, PTL DEF Spec

-----------------------------------------------------------------------------
(* No scan is left behind but by a fault: the row of a scan that has not    *)
(* ended has a message or a worker that will look at it again, and a row    *)
(* that shows PAUSED has a worker in the loop of _checkpoint.               *)

\* The worker will commit again, and knows that the scan has not ended.
HoldsOpen(local) == local.pc \notin {"idle", "ack"} /\ local.scan.status \notin Terminal

\* The worker will look at the row again, or overwrite the status PAUSED.
HoldsPause(local) ==
    \/ local.pc = "checkpoint"
    \/ local.pc \in {"pausing", "resuming", "terminate"} /\ local.scan.status = "PAUSED"

\* A scan that waits is not cancelled, and whoever is about to control it knows it waits.
WaitingIsUncancelled ==
    row.status = "QUEUED" =>
        /\ ~ row.cancel
        /\ \A c \in Controls : control[c].state = "read" => control[c].loaded.status = "QUEUED"

\* What a fault leaves behind.
Left ==
    \/ submit = "lost" /\ faults["api_lost"] > 0
    \/ faults["soft_limit"] > 0
    \/ faults["worker_lost"] > 0 /\ (queue > 0 \/ row.cancel)

Attended ==
    submit \notin {"start", "rejected"} /\ row.status \notin Terminal =>
        \/ row.status = "QUEUED" /\ (submit = "saved" \/ queue > 0)
        \/ \E w \in Workers : HoldsOpen(worker[w])
        \/ Left

NoFault == [kind \in FaultKinds |-> 0]

PauseHeld ==
    faults = NoFault /\ row.status = "PAUSED" => \E w \in Workers : HoldsPause(worker[w])

AttendedInv ==
    /\ TypeOK
    /\ Untouched
    /\ WaitingIsUncancelled
    /\ Attended
    /\ PauseHeld

-----------------------------------------------------------------------------
(* How each kind of step keeps the scan attended.                           *)

LEMMA LocalAttends ==
    ASSUME AttendedInv, NEW w \in Workers, NEW new, Local(w, new), TypeOK', Untouched',
           HoldsOpen(worker[w]) => HoldsOpen(new),
           HoldsPause(worker[w]) => HoldsPause(new)
    PROVE  AttendedInv'
<1>1. /\ worker'[w] = new
      /\ \A v \in Workers \ {w} : worker'[v] = worker[v]
      /\ UNCHANGED <<submit, row, queue, control, faults>>
  BY LocalMoves DEF AttendedInv
<1>2. WaitingIsUncancelled'
  BY <1>1 DEF AttendedInv, WaitingIsUncancelled
<1>3. Attended'
  <2>1. \A v \in Workers : HoldsOpen(worker[v]) => HoldsOpen(worker'[v])
    BY <1>1
  <2> QED
    BY <1>1, <2>1 DEF AttendedInv, Attended, Left, HoldsOpen
<1>4. PauseHeld'
  <2>1. \A v \in Workers : HoldsPause(worker[v]) => HoldsPause(worker'[v])
    BY <1>1
  <2> QED
    BY <1>1, <2>1 DEF AttendedInv, PauseHeld, HoldsPause
<1> QED
  BY <1>2, <1>3, <1>4 DEF AttendedInv

LEMMA CommitAttends ==
    ASSUME AttendedInv, NEW w \in Workers, NEW scan \in Scan, NEW new \in Worker,
           Commit(w, scan, new), TypeOK', Untouched',
           scan.status # "QUEUED",
           scan.cancel = worker[w].scan.cancel,
           scan.status \notin Terminal => new.pc \notin {"idle", "ack"},
           scan.status = "PAUSED" => new.pc = "checkpoint",
           HoldsPause(worker[w]) =>
               new.pc = "checkpoint" \/ scan.status # worker[w].scan.status
    PROVE  AttendedInv'
<1>a. row \in Scan /\ worker[w].scan \in Scan
  BY DEF AttendedInv, TypeOK, Worker
<1>1. /\ worker'[w].pc = new.pc /\ worker'[w].scan = scan
      /\ \A v \in Workers \ {w} : worker'[v] = worker[v]
      /\ row' = Flush(row, worker[w].scan, scan)
      /\ UNCHANGED <<submit, queue, control, faults>>
  BY CommitMoves DEF AttendedInv
<1>2. row'.cancel = row.cancel
  BY <1>a, <1>1, FlushColumns
<1>3. \/ scan.status = worker[w].scan.status /\ row'.status = row.status
      \/ scan.status # worker[w].scan.status /\ row'.status = scan.status
  BY <1>a, <1>1, FlushColumns
<1>4. WaitingIsUncancelled'
  BY <1>1, <1>2, <1>3 DEF AttendedInv, WaitingIsUncancelled
<1>5. scan.status \notin Terminal => HoldsOpen(worker'[w])
  BY <1>1 DEF HoldsOpen
<1>6. Attended'
  <2>1. CASE scan.status # worker[w].scan.status
    BY <1>1, <1>3, <1>5, <2>1 DEF Attended, HoldsOpen
  <2>2. CASE scan.status = worker[w].scan.status
    <3>1. \A v \in Workers : HoldsOpen(worker[v]) => HoldsOpen(worker'[v])
      BY <1>1, <1>5, <2>2 DEF HoldsOpen
    <3> QED
      BY <1>1, <1>2, <1>3, <2>2, <3>1 DEF AttendedInv, Attended, Left, HoldsOpen
  <2> QED
    BY <2>1, <2>2
<1>7. PauseHeld'
  <2>1. new.pc = "checkpoint" => HoldsPause(worker'[w])
    BY <1>1 DEF HoldsPause
  <2>2. CASE scan.status # worker[w].scan.status
    BY <1>1, <1>3, <2>1, <2>2 DEF PauseHeld, HoldsPause
  <2>3. CASE scan.status = worker[w].scan.status
    <3>1. \A v \in Workers : HoldsPause(worker[v]) => HoldsPause(worker'[v])
      BY <1>1, <2>1, <2>3
    <3> QED
      BY <1>1, <1>3, <2>3, <3>1 DEF AttendedInv, PauseHeld, HoldsPause
  <2> QED
    BY <2>2, <2>3
<1> QED
  BY <1>4, <1>6, <1>7 DEF AttendedInv

LEMMA RefreshAttends ==
    ASSUME AttendedInv, NEW w \in Workers, NEW new \in Worker, Refreshed(w, new),
           TypeOK', Untouched',
           new.pc \notin {"idle", "ack"},
           row.status = "PAUSED" => new.pc \in {"pausing", "resuming", "terminate"}
    PROVE  AttendedInv'
<1>1. /\ worker'[w] = [new EXCEPT !.scan = row]
      /\ \A v \in Workers \ {w} : worker'[v] = worker[v]
      /\ UNCHANGED <<submit, row, queue, control, faults>>
  BY LocalMoves DEF AttendedInv, Refreshed
<1>2. worker'[w].pc = new.pc /\ worker'[w].scan = row
  BY <1>1 DEF Worker
<1>3. WaitingIsUncancelled'
  BY <1>1 DEF AttendedInv, WaitingIsUncancelled
<1>4. Attended'
  BY <1>1, <1>2 DEF Attended, HoldsOpen
<1>5. PauseHeld'
  BY <1>1, <1>2 DEF PauseHeld, HoldsPause
<1> QED
  BY <1>3, <1>4, <1>5 DEF AttendedInv

LEMMA StageAttends ==
    ASSUME AttendedInv, NEW w \in Workers, NEW new \in Worker,
           NEW status \in ScanStatus \ (Terminal \union {"QUEUED", "PAUSED"}),
           NEW progress \in 0 .. 100,
           Stage(w, status, progress, new), TypeOK', Untouched',
           new.pc \notin {"idle", "ack"},
           worker[w].pc \notin {"checkpoint", "pausing", "resuming", "terminate"}
    PROVE  AttendedInv'
<1>1. /\ Staged(w, status, progress) \in Scan
      /\ Staged(w, status, progress).status = status
      /\ Staged(w, status, progress).cancel = worker[w].scan.cancel
  BY HelperFields DEF AttendedInv
<1>2. ~ HoldsPause(worker[w])
  BY DEF HoldsPause
<1> QED
  BY <1>1, <1>2, CommitAttends DEF Stage

LEMMA WorkerAttends ==
    ASSUME AttendedInv, NEW w \in Workers, WorkerStep(w), Untouched'
    PROVE  AttendedInv'
<1>a. /\ TypeOK /\ worker[w] \in Worker /\ worker[w].scan \in Scan /\ row \in Scan
      /\ queue \in Nat
  BY DEF AttendedInv, TypeOK, Worker
<1>b. TypeOK'
  BY <1>a, WorkerTyped
<1>c. /\ \A location \in Locations :
           /\ Goto(w, location) \in Worker
           /\ Goto(w, location).pc = location
           /\ Goto(w, location).scan = worker[w].scan
      /\ \A next \in Continuations :
           /\ CheckpointThen(w, next) \in Worker
           /\ CheckpointThen(w, next).pc = "checkpoint"
           /\ CheckpointThen(w, next).scan = worker[w].scan
      /\ \A status \in Terminal, error \in Errors :
           /\ Raise(w, status, error) \in Worker
           /\ Raise(w, status, error).pc = "terminate"
           /\ Raise(w, status, error).scan = worker[w].scan
  BY <1>a, HelperFields
<1>d. ASSUME worker[w].pc \notin {"checkpoint", "pausing", "resuming", "terminate"},
             NEW new, Local(w, new), new.scan = worker[w].scan, new.pc \notin {"idle", "ack"}
      PROVE  AttendedInv'
  BY <1>b, <1>d, LocalAttends DEF HoldsOpen, HoldsPause
<1>e. ASSUME worker[w].pc \notin {"checkpoint", "pausing", "resuming", "terminate"},
             NEW new \in Worker, new.pc \notin {"idle", "ack"},
             NEW status \in {"INITIALIZING", "DISCOVERING", "SCANNING", "CORRELATING",
                             "REPORTING"},
             NEW progress \in 0 .. 100, Stage(w, status, progress, new)
      PROVE  AttendedInv'
  <2>1. status \in ScanStatus \ (Terminal \union {"QUEUED", "PAUSED"})
    BY DEF ScanStatus, Terminal
  <2> QED
    BY <1>b, <1>e, <2>1, StageAttends
<1>1. CASE StepFails(w)
  <2>1. PICK new \in Worker : /\ Local(w, new)
                            /\ new.pc = "terminate" /\ new.scan = worker[w].scan
    BY <1>1, <1>a, Failing
  <2> QED
    BY <1>1, <2>1, <1>d DEF StepFails
<1>2. CASE Receive(w)
  <2>1. /\ worker'[w] = [IdleWorker EXCEPT !.pc = "init", !.scan = row]
        /\ \A v \in Workers \ {w} : worker'[v] = worker[v]
        /\ UNCHANGED <<submit, row, control, faults>>
        /\ worker[w].pc = "idle"
    BY <1>2, <1>a DEF Receive, At, TypeOK
  <2>2. worker'[w].pc = "init" /\ worker'[w].scan = row
    BY <2>1 DEF IdleWorker
  <2>3. WaitingIsUncancelled'
    BY <2>1 DEF AttendedInv, WaitingIsUncancelled
  <2>4. Attended'
    BY <2>1, <2>2 DEF Attended, HoldsOpen
  <2>5. PauseHeld'
    <3>1. ~ HoldsPause(worker[w])
      BY <2>1 DEF HoldsPause
    <3>2. \A v \in Workers : HoldsPause(worker[v]) => HoldsPause(worker'[v])
      BY <2>1, <3>1
    <3> QED
      BY <2>1, <3>2 DEF AttendedInv, PauseHeld, HoldsPause
  <2> QED
    BY <1>b, <2>3, <2>4, <2>5 DEF AttendedInv
<1>3. CASE Discard(w)
  <2>1. row.status # "QUEUED" /\ (row.cancel \/ row.status \in Terminal)
    BY <1>3 DEF Discard, AttendedInv, WaitingIsUncancelled, Terminal
  <2>2. UNCHANGED <<submit, row, control, worker, faults>>
    BY <1>3 DEF Discard
  <2>3. Attended'
    BY <2>1, <2>2 DEF AttendedInv, Attended, Left, HoldsOpen
  <2> QED
    BY <1>b, <2>2, <2>3 DEF AttendedInv, WaitingIsUncancelled, PauseHeld, HoldsPause
<1>4. CASE Initialize(w)
  BY <1>4, <1>c, <1>e, LocationsNamed DEF Initialize, At
<1>5. CASE ValidateTarget(w)
  BY <1>5, <1>c, <1>d DEF ValidateTarget, At, Continuations
<1>6. CASE CheckpointCancelled(w)
  BY <1>6, <1>b, <1>c, RefreshAttends DEF CheckpointCancelled, Terminal, Errors
<1>7. CASE CheckpointTimedOut(w)
  BY <1>7, <1>b, <1>c, RefreshAttends DEF CheckpointTimedOut, Terminal, Errors
<1>8. CASE CheckpointPassed(w)
  <2>1. worker[w].next \in Continuations
    BY <1>a DEF Worker
  <2>2. Goto(w, worker[w].next) \in Worker /\ Goto(w, worker[w].next).pc = worker[w].next
    BY <2>1, <1>c, LocationsNamed
  <2> QED
    BY <1>8, <1>b, <2>1, <2>2, RefreshAttends DEF CheckpointPassed, Continuations
<1>9. CASE CheckpointResumes(w)
  BY <1>9, <1>b, <1>c, LocationsNamed, RefreshAttends DEF CheckpointResumes
<1>10. CASE CheckpointPauses(w)
  BY <1>10, <1>b, <1>c, LocationsNamed, RefreshAttends DEF CheckpointPauses
<1>11. CASE ResumeCommit(w)
  <2> DEFINE scan == [worker[w].scan EXCEPT !.status = "SCANNING"]
  <2>1. scan \in Scan /\ scan.status = "SCANNING" /\ scan.cancel = worker[w].scan.cancel
    BY <1>a DEF Scan, ScanStatus
  <2>2. worker[w].next \in Continuations /\ worker[w].pc = "resuming"
    BY <1>11, <1>a DEF ResumeCommit, At, Worker
  <2>3. /\ Goto(w, worker[w].next) \in Worker
        /\ Goto(w, worker[w].next).pc \notin {"idle", "ack"}
    BY <2>2, <1>c, LocationsNamed DEF Continuations
  <2>4. Commit(w, scan, Goto(w, worker[w].next))
    BY <1>11 DEF ResumeCommit
  <2>5. HoldsPause(worker[w]) => worker[w].scan.status = "PAUSED"
    BY <2>2 DEF HoldsPause
  <2> HIDE DEF scan
  <2> QED
    BY <1>b, <2>1, <2>3, <2>4, <2>5, CommitAttends
<1>12. CASE PauseCommit(w)
  <2> DEFINE scan == [worker[w].scan EXCEPT !.status = "PAUSED"]
  <2>1. scan \in Scan /\ scan.status = "PAUSED" /\ scan.cancel = worker[w].scan.cancel
    BY <1>a DEF Scan, ScanStatus
  <2>2. Goto(w, "checkpoint") \in Worker /\ Goto(w, "checkpoint").pc = "checkpoint"
    BY <1>c, LocationsNamed
  <2>3. Commit(w, scan, Goto(w, "checkpoint"))
    BY <1>12 DEF PauseCommit
  <2> HIDE DEF scan
  <2> QED
    BY <1>b, <2>1, <2>2, <2>3, CommitAttends
<1>13. CASE StartDiscovery(w)
  BY <1>13, <1>c, <1>e, LocationsNamed DEF StartDiscovery, At
<1>14. CASE \E some \in BOOLEAN : BuildInventory(w, some)
  <2> PICK some \in BOOLEAN : BuildInventory(w, some)
    BY <1>14
  <2> DEFINE new == [worker[w] EXCEPT !.pc = IF payload THEN "consume" ELSE "endpoints",
                       !.origin = IF payload THEN "submitted" ELSE "fetched",
                       !.found = some]
  <2>1. new.pc \in {"consume", "endpoints"} /\ new.scan = worker[w].scan
    BY <1>a DEF Worker
  <2>2. Local(w, new) /\ worker[w].pc = "inventory"
    BY DEF BuildInventory, At
  <2> HIDE DEF new
  <2> QED
    BY <2>1, <2>2, <1>d
<1>15. CASE ConsumePayload(w)
  BY <1>15, <1>c, <1>d, LocationsNamed DEF ConsumePayload, At
<1>16. CASE SaveEndpoints(w)
  BY <1>16, <1>c, <1>d DEF SaveEndpoints, At, Continuations
<1>17. CASE StartScanning(w)
  <2> DEFINE new == [CheckpointThen(w, "engine") EXCEPT !.index = 1]
  <2>1. CheckpointThen(w, "engine") \in Worker /\ CheckpointThen(w, "engine").pc = "checkpoint"
    BY <1>c DEF Continuations
  <2>2. 1 \in 1 .. Len(Engines) /\ 30 \in 0 .. 100
    BY EnginesAssumption
  <2>3. new \in Worker /\ new.pc = "checkpoint"
    BY <2>1, <2>2, UpdateTyped DEF Worker
  <2>4. Stage(w, "SCANNING", 30, new) /\ worker[w].pc = "context"
    BY <1>17 DEF StartScanning, At
  <2> HIDE DEF new
  <2> QED
    BY <1>e, <2>2, <2>3, <2>4
<1>18. CASE \E result \in Outcomes : RunEngine(w, result)
  <2> PICK result \in Outcomes : RunEngine(w, result)
    BY <1>18
  <2>1. /\ [worker[w] EXCEPT !.pc = "persist", !.result = result].pc = "persist"
        /\ [worker[w] EXCEPT !.pc = "persist", !.result = result].scan = worker[w].scan
    BY <1>a DEF Worker
  <2> QED
    BY <2>1, <1>d DEF RunEngine, At
<1>19. CASE PersistEngine(w)
  <2> DEFINE new == [worker[w] EXCEPT
           !.pc = IF worker[w].result.engine = "custom" THEN "baselines" ELSE "progress",
           !.failed = @ \/ worker[w].result.status \in {"FAILED", "TIMEOUT"}]
  <2>1. new.pc \in {"baselines", "progress"} /\ new.scan = worker[w].scan
    BY <1>a DEF Worker
  <2>2. Local(w, new) /\ worker[w].pc = "persist"
    BY <1>19 DEF PersistEngine, At
  <2> HIDE DEF new
  <2> QED
    BY <2>1, <2>2, <1>d
<1>20. CASE ApplyBaselines(w)
  <2>1. worker[w].pc = "baselines"
    BY <1>20 DEF ApplyBaselines, At
  <2>2. Local(w, Goto(w, "progress")) \/ Local(w, Raise(w, "FAILED", "unreachable"))
    BY <1>20 DEF ApplyBaselines
  <2> QED
    BY <2>1, <2>2, <1>c, <1>d, LocationsNamed DEF Terminal, Errors
<1>21. CASE FinishEngine(w)
  <2> DEFINE i == worker[w].index
             new == IF i < Len(Engines)
                    THEN [CheckpointThen(w, "engine") EXCEPT !.index = i + 1,
                                                             !.result = NoResult]
                    ELSE [Goto(w, "correlate") EXCEPT !.result = NoResult]
  <2>1. i \in 1 .. Len(Engines)
    BY <1>a DEF Worker
  <2>2. /\ CheckpointThen(w, "engine") \in Worker
        /\ CheckpointThen(w, "engine").pc = "checkpoint"
        /\ Goto(w, "correlate") \in Worker
        /\ Goto(w, "correlate").pc = "correlate"
    BY <1>c, LocationsNamed DEF Continuations
  <2>3. new \in Worker /\ new.pc \notin {"idle", "ack"}
    <3>1. CASE i < Len(Engines)
      <4>1. i + 1 \in 1 .. Len(Engines)
        BY <2>1, <3>1, EnginesAssumption
      <4>2. [CheckpointThen(w, "engine") EXCEPT !.index = i + 1] \in Worker
        BY <2>2, <4>1, UpdateTyped
      <4>3. [CheckpointThen(w, "engine") EXCEPT !.index = i + 1, !.result = NoResult] \in Worker
        BY <4>2, ConstantsTyped, UpdateTyped
      <4>4. [CheckpointThen(w, "engine") EXCEPT !.index = i + 1, !.result = NoResult].pc
              = "checkpoint"
        BY <2>2 DEF Worker
      <4> QED
        BY <3>1, <4>3, <4>4
    <3>2. CASE ~ (i < Len(Engines))
      <4>1. [Goto(w, "correlate") EXCEPT !.result = NoResult] \in Worker
        BY <2>2, ConstantsTyped, UpdateTyped
      <4>2. [Goto(w, "correlate") EXCEPT !.result = NoResult].pc = "correlate"
        BY <2>2 DEF Worker
      <4> QED
        BY <3>2, <4>1, <4>2
    <3> QED
      BY <3>1, <3>2
  <2>4. Stage(w, "SCANNING", Progress(i), new) /\ worker[w].pc = "progress"
    BY <1>21 DEF FinishEngine, At
  <2>5. Progress(i) \in 0 .. 100
    BY <2>1, ProgressTyped
  <2> HIDE DEF new, i
  <2> QED
    BY <1>e, <2>3, <2>4, <2>5
<1>22. CASE StartCorrelation(w)
  BY <1>22, <1>c, <1>e, LocationsNamed DEF StartCorrelation, At
<1>23. CASE SaveFindings(w)
  <2>1. worker[w].pc = "findings"
    BY <1>23 DEF SaveFindings, At
  <2>2. PICK tested : Local(w, [CheckpointThen(w, "reporting") EXCEPT !.tested = tested])
    BY <1>23 DEF SaveFindings
  <2>3. /\ [CheckpointThen(w, "reporting") EXCEPT !.tested = tested].pc = "checkpoint"
        /\ [CheckpointThen(w, "reporting") EXCEPT !.tested = tested].scan = worker[w].scan
    BY <1>c DEF Worker, Continuations
  <2> QED
    BY <2>1, <2>2, <2>3, <1>d
<1>24. CASE StartReporting(w)
  BY <1>24, <1>c, <1>e, LocationsNamed DEF StartReporting, At
<1>25. CASE Assess(w)
  <2>1. PICK verdict : Local(w, [worker[w] EXCEPT !.pc = "publish", !.verdict = verdict])
    BY <1>25 DEF Assess
  <2>2. /\ [worker[w] EXCEPT !.pc = "publish", !.verdict = verdict].pc = "publish"
        /\ [worker[w] EXCEPT !.pc = "publish", !.verdict = verdict].scan = worker[w].scan
    BY <1>a DEF Worker
  <2> QED
    BY <1>25, <2>1, <2>2, <1>d DEF Assess, At
<1>f. [IdleWorker EXCEPT !.pc = "ack"] \in Worker /\ [IdleWorker EXCEPT !.pc = "ack"].pc = "ack"
  BY ConstantsTyped, UpdateTyped, LocationsNamed DEF IdleWorker
<1>g. /\ worker[w].verdict \in ScanStatus /\ worker[w].error \in Errors
      /\ worker[w].verdict \in Terminal /\ "QUEUED" \notin Terminal /\ "PAUSED" \notin Terminal
  BY <1>a DEF Worker, ScanStatus, Terminal
<1>26. CASE Publish(w)
  <2> DEFINE scan == [worker[w].scan EXCEPT !.status = worker[w].verdict,
                                            !.progress = 100, !.finished = TRUE]
  <2>1. scan \in Scan /\ scan.status = worker[w].verdict /\ scan.cancel = worker[w].scan.cancel
    <3>1. 100 \in 0 .. 100
      OBVIOUS
    <3> QED
      BY <3>1, <1>a, <1>g DEF Scan
  <2>2. Commit(w, scan, [IdleWorker EXCEPT !.pc = "ack"])
    BY <1>26 DEF Publish
  <2>3. ~ HoldsPause(worker[w])
    BY <1>26 DEF Publish, At, HoldsPause
  <2> HIDE DEF scan
  <2> QED
    BY <1>b, <1>f, <1>g, <2>1, <2>2, <2>3, CommitAttends
<1>27. CASE Terminate(w)
  <2> DEFINE scan == [worker[w].scan EXCEPT !.status = worker[w].verdict,
                                            !.error = worker[w].error, !.finished = TRUE]
  <2>1. scan \in Scan /\ scan.status = worker[w].verdict /\ scan.cancel = worker[w].scan.cancel
    BY <1>a, <1>g DEF Scan
  <2>2. Commit(w, scan, [IdleWorker EXCEPT !.pc = "ack"])
    BY <1>27 DEF Terminate
  <2>3. HoldsPause(worker[w]) => worker[w].scan.status = "PAUSED"
    BY <1>27 DEF Terminate, At, HoldsPause
  <2> HIDE DEF scan
  <2> QED
    BY <1>b, <1>f, <1>g, <2>1, <2>2, <2>3, CommitAttends
<1>28. CASE Acknowledge(w)
  BY <1>28, <1>b, LocalAttends DEF Acknowledge, At, HoldsOpen, HoldsPause
<1>29. CASE AnalysisFails(w)
  BY <1>29, <1>c, <1>d DEF AnalysisFails, At, Terminal, Errors
<1> QED
  BY <1>1, <1>2, <1>3, <1>4, <1>5, <1>6, <1>7, <1>8, <1>9, <1>10, <1>11, <1>12, <1>13,
     <1>14, <1>15, <1>16, <1>17, <1>18, <1>19, <1>20, <1>21, <1>22, <1>23, <1>24, <1>25,
     <1>26, <1>27, <1>28, <1>29
     DEF WorkerStep

-----------------------------------------------------------------------------

LEMMA SubmissionAttends ==
    ASSUME AttendedInv, Submission, TypeOK', Untouched'
    PROVE  AttendedInv'
<1>a. TypeOK /\ row \in Scan /\ queue \in Nat
  BY DEF AttendedInv, TypeOK
<1>1. CASE RejectRequest
  BY <1>1 DEF RejectRequest, AttendedInv, WaitingIsUncancelled, Attended, Left, PauseHeld,
              HoldsOpen, HoldsPause
<1>2. CASE \E document \in BOOLEAN : CreateScan(document)
  <2>1. /\ row' = QueuedScan /\ submit' = "saved"
        /\ \A c \in Controls : control'[c].state = "free"
    BY <1>2 DEF CreateScan, AttendedInv, Untouched
  <2> QED
    BY <2>1 DEF AttendedInv, WaitingIsUncancelled, Attended, PauseHeld, QueuedScan
<1>3. CASE Dispatch
  <2>1. queue' > 0 /\ submit' # "start" /\ submit = "saved"
                   /\ UNCHANGED <<row, control, worker, faults>>
    BY <1>3, <1>a DEF Dispatch, Enqueue
  <2> QED
    BY <2>1 DEF AttendedInv, WaitingIsUncancelled, Attended, Left, PauseHeld, HoldsOpen,
              HoldsPause
<1>4. CASE \E published \in BOOLEAN : DispatchFails(published)
  <2> DEFINE new == [QueuedScan EXCEPT !.status = "FAILED", !.error = "dispatch"]
  <2>1. new \in Scan
    BY ConstantsTyped DEF Scan, ScanStatus, Terminal, Errors
  <2>2. new.status = "FAILED" /\ QueuedScan.status = "QUEUED"
    BY DEF QueuedScan
  <2>3. row' = Flush(row, QueuedScan, new)
    BY <1>4 DEF DispatchFails
  <2> HIDE DEF new
  <2>4. row'.status = "FAILED"
    BY <1>a, <2>1, <2>2, <2>3, ConstantsTyped, FlushColumns
  <2> QED
    BY <2>4 DEF AttendedInv, WaitingIsUncancelled, Attended, PauseHeld, Terminal
<1> QED
  BY <1>1, <1>2, <1>3, <1>4 DEF Submission

LEMMA ControlAttends ==
    ASSUME AttendedInv, NEW c \in Controls, ControlRequest(c), TypeOK', Untouched'
    PROVE  AttendedInv'
<1>a. TypeOK /\ row \in Scan /\ control \in [Controls -> Control]
  BY DEF AttendedInv, TypeOK
<1>b. ASSUME UNCHANGED <<submit, queue, worker, faults>>, row.cancel => row'.cancel,
             row'.status = row.status \/ row'.status = "CANCELLED"
      PROVE  Attended' /\ PauseHeld'
  BY <1>b DEF AttendedInv, Attended, Left, PauseHeld, HoldsOpen, HoldsPause, Terminal
<1>1. CASE \E action \in Actions : ControlRead(c, action)
  <2>1. PICK action \in Actions : ControlRead(c, action)
    BY <1>1
  <2>2. UNCHANGED <<submit, queue, worker, row, faults>>
    BY <2>1 DEF ControlRead, broker
  <2>3. \A d \in Controls : control'[d].state = "read" =>
           control'[d] = control[d] \/ control'[d].loaded = row
    BY <2>1, <1>a DEF ControlRead, AnsweredControl, NewControl
  <2>4. WaitingIsUncancelled'
    BY <2>2, <2>3 DEF AttendedInv, WaitingIsUncancelled
  <2> QED
    BY <1>b, <2>2, <2>4 DEF AttendedInv
<1>2. CASE ControlCommit(c)
  <2> DEFINE loaded == control[c].loaded
             action == control[c].action
             new == Requested(action, loaded)
  <2>1. loaded \in Scan /\ action \in Actions /\ control[c].state = "read"
    BY <1>2, <1>a DEF ControlCommit, Control
  <2>2. new \in Scan
    BY <2>1, RequestedTyped
  <2>3. /\ \/ new.status = loaded.status
           \/ new.status = "CANCELLED"
        /\ new.cancel = loaded.cancel \/ new.cancel = TRUE
        /\ loaded.status = "QUEUED" =>
             new.status = "CANCELLED" \/ new.cancel = loaded.cancel
    BY <2>1 DEF Requested, Actions, Scan
  <2>4. row' = Flush(row, loaded, new)
    BY <1>2 DEF ControlCommit
  <2>5. row.status = "QUEUED" => ~ row.cancel /\ loaded.status = "QUEUED"
    BY <2>1 DEF AttendedInv, WaitingIsUncancelled
  <2>6. /\ UNCHANGED <<submit, queue, worker, faults>>
        /\ \A d \in Controls : control'[d].state = "read" => control'[d] = control[d]
    BY <1>2, <1>a DEF ControlCommit, AnsweredControl, NewControl, broker
  <2> HIDE DEF new, loaded
  <2>7. row'.status = row.status \/ row'.status = "CANCELLED"
    BY <1>a, <2>1, <2>2, <2>3, <2>4, FlushColumns
  <2>8. row'.status = "QUEUED" => row.status = "QUEUED" /\ ~ row'.cancel
    BY <1>a, <2>1, <2>2, <2>3, <2>4, <2>5, FlushColumns
  <2>9. WaitingIsUncancelled'
    BY <2>6, <2>8 DEF AttendedInv, WaitingIsUncancelled
  <2>10. row.cancel => row'.cancel
    BY <1>a, <2>1, <2>2, <2>3, <2>4, FlushColumns
  <2> QED
    BY <1>b, <2>6, <2>7, <2>9, <2>10 DEF AttendedInv
<1> QED
  BY <1>1, <1>2 DEF ControlRequest

LEMMA EnvironmentAttends ==
    ASSUME AttendedInv, Environment, TypeOK', Untouched'
    PROVE  AttendedInv'
<1>a. TypeOK /\ queue \in Nat
  BY DEF AttendedInv, TypeOK
<1>b. \A kind \in FaultKinds : faults[kind] \in Nat
  BY <1>a DEF TypeOK
<1>c. "api_lost" \in FaultKinds /\ "worker_lost" \in FaultKinds /\ "soft_limit" \in FaultKinds
  BY DEF FaultKinds
<1>1. ASSUME NEW w \in Workers, DeadlinePasses(w) PROVE AttendedInv'
  <2> DEFINE new == [worker[w] EXCEPT !.expired = TRUE]
  <2>1. new.pc = worker[w].pc /\ new.scan = worker[w].scan
    BY <1>a DEF TypeOK, Worker
  <2>2. Local(w, new)
    BY <1>1 DEF DeadlinePasses
  <2> HIDE DEF new
  <2> QED
    BY <2>1, <2>2, LocalAttends DEF HoldsOpen, HoldsPause
<1>2. CASE Redeliver
  <2>1. queue' > 0 /\ UNCHANGED <<submit, row, control, worker, faults>>
    BY <1>2, <1>a DEF Redeliver, Enqueue
  <2> QED
    BY <2>1 DEF AttendedInv, WaitingIsUncancelled, Attended, Left, PauseHeld, HoldsOpen,
                HoldsPause
<1>3. ASSUME NEW kind, Fault(kind), control' = control
      PROVE  /\ faults'[kind] > 0 /\ PauseHeld' /\ WaitingIsUncancelled'
             /\ row' = row /\ kind \in FaultKinds
  <2>1. kind \in FaultKinds /\ UNCHANGED <<row, control>>
    BY <1>3, BoundsAssumption DEF Fault
  <2>2. faults'[kind] > 0
    BY <1>a, <1>3, FaultTyped
  <2>3. faults' # NoFault
    BY <2>1, <2>2 DEF NoFault
  <2> QED
    BY <2>1, <2>2, <2>3 DEF AttendedInv, WaitingIsUncancelled, PauseHeld
<1>4. CASE ApiLost
  <2>1. submit' = "lost" /\ control' = control /\ Fault("api_lost")
    BY <1>4 DEF ApiLost, Fault
  <2> QED
    BY <1>3, <2>1 DEF AttendedInv, Attended, Left
<1>5. ASSUME NEW w \in Workers, WorkerLost(w) PROVE AttendedInv'
  <2>1. queue' > 0 /\ control' = control /\ Fault("worker_lost")
    BY <1>5, <1>a DEF WorkerLost, Fault
  <2> QED
    BY <1>3, <2>1 DEF AttendedInv, Attended, Left
<1>6. ASSUME NEW w \in Workers, Abandon(w) PROVE AttendedInv'
  <2>1. control' = control /\ Fault("soft_limit")
    BY <1>6 DEF Abandon, Fault
  <2> QED
    BY <1>3, <2>1 DEF AttendedInv, Attended, Left
<1> QED
  BY <1>1, <1>2, <1>4, <1>5, <1>6 DEF Environment

LEMMA StepAttends == AttendedInv /\ [Next]_vars => AttendedInv'
<1> SUFFICES ASSUME AttendedInv, [Next]_vars PROVE AttendedInv'
  OBVIOUS
<1>1. TypeOK' /\ Untouched'
  BY StepTyped, UntouchedStep DEF AttendedInv
<1>2. CASE UNCHANGED vars
  BY <1>1, <1>2 DEF vars, broker, AttendedInv, WaitingIsUncancelled, Attended, Left, PauseHeld,
                    HoldsOpen, HoldsPause
<1> QED
  BY <1>1, <1>2, SubmissionAttends, ControlAttends, WorkerAttends, EnvironmentAttends
     DEF Next, Quiescent

LEMMA InitAttends == Init => AttendedInv
BY InitTyped, UntouchedInit
   DEF Init, AttendedInv, WaitingIsUncancelled, Attended, PauseHeld, QueuedScan, NewControl

LEMMA AttendedAlways == Spec => []AttendedInv
BY StepAttends, InitAttends, PTL DEF Spec

\* Whatever faults occur, an unfinished row is left alone only by the three ways that
\* OrphansAreExplained names (_dispatch, run, _terminate, acks_late).
THEOREM OrphansExplained == Spec => []OrphansAreExplained
<1>1. AttendedInv => OrphansAreExplained
  BY DEF AttendedInv, Untouched, Attended, Left, OrphansAreExplained, HoldsOpen, Running,
         QueuedScan
<1> QED
  BY <1>1, AttendedAlways, PTL

\* Without faults there have been none.
LEMMA FaultFree == ASSUME MaxFaults = 0, AttendedInv PROVE faults = NoFault
<1>1. faults \in [FaultKinds -> 0 .. 0]
  BY DEF AttendedInv, TypeOK
<1>2. \A kind \in FaultKinds : faults[kind] = 0
  BY <1>1
<1> QED
  BY <1>1, <1>2 DEF NoFault

\* While no process is lost, the row of a scan that has not ended is never left behind,
\* for any number of workers, control requests and deliveries (_control, run, _terminate).
THEOREM NothingOrphaned == ASSUME MaxFaults = 0 PROVE Spec => []NeverOrphaned
<1>1. ASSUME AttendedInv PROVE NeverOrphaned
  <2>1. ~ Left
    BY <1>1, FaultFree DEF Left, NoFault, FaultKinds
  <2> QED
    BY <1>1, <2>1
       DEF AttendedInv, Untouched, Attended, NeverOrphaned, HoldsOpen, Running, QueuedScan
<1> QED
  BY <1>1, AttendedAlways, PTL

\* While no process is lost, a scan shown as PAUSED has a worker in _checkpoint or about
\* to overwrite that status, even if several workers run it.
THEOREM PausedScansAreHeld == ASSUME MaxFaults = 0 PROVE Spec => []PausedIsHeld
<1>1. AttendedInv => PausedIsHeld
  BY FaultFree DEF AttendedInv, PauseHeld, PausedIsHeld, HoldsPause
<1> QED
  BY <1>1, AttendedAlways, PTL
-----------------------------------------------------------------------------
(* The submitted document is kept.  As long as its row exists no worker     *)
(* holds another inventory, and a worker that read it has endpoints to      *)
(* store; so the document goes from the row over a worker to the endpoints, *)
(* unless that worker ends first.                                           *)

Orderly(local) ==
    /\ local.pc \in {"consume", "endpoints"} /\ local.origin = "submitted" => local.found
    /\ payload => /\ local.pc \in {"consume", "endpoints"} => local.origin = "submitted"
                  /\ local.pending # "fetched"

DocumentInv ==
    /\ TypeOK
    /\ Untouched
    /\ submit \in {"start", "rejected"} => ~ payload /\ endpoints.origins = {}
    /\ payload => "fetched" \notin endpoints.origins
    /\ \A w \in Workers : Orderly(worker[w])

DocumentStep ==
    /\ DocumentKept => \/ DocumentKept'
                       \/ \E w \in Workers : /\ HoldsDocument(w)
                                             /\ worker'[w].pc \in {"idle", "terminate"}
    /\ payload => "fetched" \notin endpoints'.origins

\* A step that touches neither the document, the endpoints' origins nor the hands of w.
Quiet(w) ==
    /\ UNCHANGED <<inline, payload>>
    /\ endpoints'.origins = endpoints.origins
    /\ \A v \in Workers \ {w} : worker'[v] = worker[v]
    /\ worker'[w].pc \notin {"consume", "endpoints"}
    /\ worker'[w].pending \in {worker[w].pending, "none", "findings"}

LEMMA QuietKeeps ==
    ASSUME DocumentInv, NEW w \in Workers, Quiet(w), TypeOK', Untouched',
           submit' \in {"start", "rejected"} => submit \in {"start", "rejected"},
           worker[w].pc \notin {"consume", "endpoints"} \/ worker'[w].pc \in {"idle", "terminate"}
    PROVE  DocumentInv' /\ DocumentStep
<1>1. \A v \in Workers : Orderly(worker[v])'
  BY DEF DocumentInv, Quiet, Orderly
<1>2. \A v \in Workers \ {w} : HoldsDocument(v)' <=> HoldsDocument(v)
  BY DEF Quiet, HoldsDocument
<1>3. DocumentInv'
  BY <1>1 DEF DocumentInv, Quiet
<1>4. payload => "fetched" \notin endpoints'.origins
  BY DEF DocumentInv, Quiet
<1>5. HoldsDocument(w) => worker'[w].pc \in {"idle", "terminate"}
  BY DEF HoldsDocument
<1>6. inline' = inline /\ payload' = payload /\ endpoints'.origins = endpoints.origins
  BY DEF Quiet
<1>7. DocumentKept =>
        DocumentKept' \/ \E v \in Workers : /\ HoldsDocument(v)
                                            /\ worker'[v].pc \in {"idle", "terminate"}
  <2> SUFFICES ASSUME DocumentKept, ~ HoldsDocument(w) PROVE DocumentKept'
    BY <1>5
  <2> QED
    BY <1>2, <1>6 DEF DocumentKept
<1> QED
  BY <1>3, <1>4, <1>7 DEF DocumentStep

LEMMA LocalIsQuiet ==
    ASSUME TypeOK, NEW w \in Workers, NEW new, Local(w, new), UNCHANGED payload,
           endpoints'.origins = endpoints.origins,
           new.pc \notin {"consume", "endpoints"},
           new.pending \in {worker[w].pending, "none", "findings"}
    PROVE  Quiet(w)
BY LocalMoves DEF Quiet, Local

LEMMA CommitIsQuiet ==
    ASSUME TypeOK, NEW w \in Workers, NEW scan, NEW new \in Worker, Commit(w, scan, new),
           UNCHANGED payload, endpoints'.origins = endpoints.origins,
           new.pc \notin {"consume", "endpoints"},
           new.pending \in {worker[w].pending, "none", "findings"}
    PROVE  Quiet(w)
<1>1. inline' = inline
  BY DEF Commit
<1>2. /\ worker'[w].pc = new.pc /\ worker'[w].pending = new.pending
      /\ \A v \in Workers \ {w} : worker'[v] = worker[v]
  BY CommitMoves
<1> QED
  BY <1>1, <1>2 DEF Quiet

LEMMA RefreshIsQuiet ==
    ASSUME TypeOK, NEW w \in Workers, NEW new \in Worker, Refreshed(w, new),
           new.pc \notin {"consume", "endpoints"},
           new.pending \in {worker[w].pending, "none", "findings"}
    PROVE  Quiet(w)
<1>1. /\ [new EXCEPT !.scan = row].pc = new.pc
      /\ [new EXCEPT !.scan = row].pending = new.pending
  BY DEF Worker
<1> QED
  BY <1>1, LocalIsQuiet DEF Refreshed, tables

\* Every step of a worker that does not hold an inventory or its rows is quiet.
LEMMA WorkerIsQuiet ==
    ASSUME TypeOK, NEW w \in Workers, WorkerStep(w),
           worker[w].pc \notin {"inventory", "consume", "endpoints", "terminate"}
    PROVE  Quiet(w)
<1>a. /\ worker[w] \in Worker /\ worker[w].next \in Continuations
      /\ worker[w].index \in 1 .. Len(Engines)
  BY DEF TypeOK, Worker
<1>b. /\ \A location \in Locations :
           /\ Goto(w, location) \in Worker
           /\ Goto(w, location).pc = location
           /\ Goto(w, location).pending = worker[w].pending
      /\ \A next \in Continuations :
           /\ CheckpointThen(w, next) \in Worker
           /\ CheckpointThen(w, next).pc = "checkpoint"
           /\ CheckpointThen(w, next).pending = worker[w].pending
      /\ \A status \in Terminal, error \in Errors :
           /\ Raise(w, status, error) \in Worker
           /\ Raise(w, status, error).pc = "terminate"
           /\ Raise(w, status, error).pending = "none"
  BY HelperFields
<1>c. /\ \A next \in Continuations : next \notin {"consume", "endpoints"}
      /\ Continuations \subseteq Locations
  BY LocationsNamed DEF Continuations
<1>d. ASSUME NEW new \in Worker, new.pc \notin {"consume", "endpoints"},
             new.pending \in {worker[w].pending, "none"},
             NEW status, NEW progress, Stage(w, status, progress, new)
      PROVE  Quiet(w)
  BY <1>d, CommitIsQuiet DEF Stage, tables
<1>1. CASE StepFails(w)
  <2>1. PICK new \in Worker : /\ Local(w, new) /\ UNCHANGED tables
                            /\ new.pc = "terminate" /\ new.pending \in Unflushed(w)
    BY <1>1, Failing
  <2>2. new.pending \in {"none", "findings"}
    BY <2>1 DEF Unflushed, At
  <2> QED
    BY <2>1, <2>2, LocalIsQuiet DEF tables
<1>2. CASE Receive(w)
  <2>1. /\ worker'[w] = [IdleWorker EXCEPT !.pc = "init", !.scan = row]
        /\ \A v \in Workers \ {w} : worker'[v] = worker[v]
        /\ UNCHANGED <<inline, payload, endpoints>>
    BY <1>2 DEF Receive, tables, TypeOK
  <2>2. worker'[w].pc = "init" /\ worker'[w].pending = "none"
    BY <2>1 DEF IdleWorker
  <2> QED
    BY <2>1, <2>2 DEF Quiet
<1>3. CASE Discard(w)
  BY <1>3 DEF Discard, Quiet, tables
<1>4. CASE Initialize(w) \/ StartDiscovery(w) \/ StartCorrelation(w) \/ StartReporting(w)
  <2>1. PICK status, progress, location :
          /\ location \in {"validate", "inventory", "findings", "assess"}
          /\ Stage(w, status, progress, Goto(w, location))
    BY <1>4 DEF Initialize, StartDiscovery, StartCorrelation, StartReporting
  <2>2. location \in Locations /\ location \notin {"consume", "endpoints"}
    BY <2>1 DEF Locations
  <2>3. /\ Goto(w, location) \in Worker /\ Goto(w, location).pc = location
        /\ Goto(w, location).pending = worker[w].pending
    BY <2>2, <1>b
  <2> QED
    BY <2>1, <2>2, <2>3, <1>d
<1>5. CASE ValidateTarget(w)
  BY <1>5, <1>b, LocalIsQuiet DEF ValidateTarget, tables, Continuations
<1>6. CASE CheckpointCancelled(w) \/ CheckpointTimedOut(w)
  BY <1>6, <1>b, RefreshIsQuiet DEF CheckpointCancelled, CheckpointTimedOut, Terminal, Errors
<1>7. CASE CheckpointPassed(w)
  BY <1>7, <1>a, <1>b, <1>c, RefreshIsQuiet DEF CheckpointPassed
<1>8. CASE CheckpointResumes(w) \/ CheckpointPauses(w)
  BY <1>8, <1>b, LocationsNamed, RefreshIsQuiet DEF CheckpointResumes, CheckpointPauses
<1>9. CASE ResumeCommit(w)
  BY <1>9, <1>a, <1>b, <1>c, CommitIsQuiet DEF ResumeCommit, tables
<1>10. CASE PauseCommit(w)
  BY <1>10, <1>b, LocationsNamed, CommitIsQuiet DEF PauseCommit, tables
<1>11. CASE \E some \in BOOLEAN : BuildInventory(w, some)
  BY <1>11 DEF BuildInventory, At
<1>12. CASE ConsumePayload(w) \/ SaveEndpoints(w) \/ AnalysisFails(w) \/ Terminate(w)
  BY <1>12 DEF ConsumePayload, SaveEndpoints, AnalysisFails, Terminate, At
<1>13. CASE StartScanning(w)
  <2> DEFINE new == [CheckpointThen(w, "engine") EXCEPT !.index = 1]
  <2>1. CheckpointThen(w, "engine") \in Worker /\ 1 \in 1 .. Len(Engines)
    BY <1>b, EnginesAssumption DEF Continuations
  <2>2. new \in Worker
    BY <2>1, UpdateTyped
  <2>3. new.pc = "checkpoint" /\ new.pending = worker[w].pending
    BY <2>1, <1>b DEF Worker, Continuations
  <2>4. Stage(w, "SCANNING", 30, new)
    BY <1>13 DEF StartScanning
  <2> HIDE DEF new
  <2> QED
    BY <2>2, <2>3, <2>4, <1>d
<1>14. CASE \E result \in Outcomes : RunEngine(w, result)
  <2>1. PICK result \in Outcomes : RunEngine(w, result)
    BY <1>14
  <2> DEFINE new == [worker[w] EXCEPT !.pc = "persist", !.result = result]
  <2>2. new.pc = "persist" /\ new.pending = worker[w].pending
    BY <1>a DEF Worker
  <2>3. Local(w, new) /\ UNCHANGED <<payload, endpoints>>
    BY <2>1 DEF RunEngine, tables
  <2> HIDE DEF new
  <2> QED
    BY <2>2, <2>3, LocalIsQuiet
<1>15. CASE PersistEngine(w)
  <2> DEFINE new == [worker[w] EXCEPT
           !.pc = IF worker[w].result.engine = "custom" THEN "baselines" ELSE "progress",
           !.failed = @ \/ worker[w].result.status \in {"FAILED", "TIMEOUT"}]
  <2>1. new.pc \in {"baselines", "progress"} /\ new.pending = worker[w].pending
    BY <1>a DEF Worker
  <2>2. Local(w, new) /\ UNCHANGED <<payload, endpoints>>
    BY <1>15 DEF PersistEngine
  <2> HIDE DEF new
  <2> QED
    BY <2>1, <2>2, LocalIsQuiet
<1>16. CASE ApplyBaselines(w)
  <2>1. Local(w, Goto(w, "progress")) \/ Local(w, Raise(w, "FAILED", "unreachable"))
    BY <1>16 DEF ApplyBaselines
  <2>2. UNCHANGED payload /\ endpoints'.origins = endpoints.origins
    BY <1>16 DEF ApplyBaselines, TypeOK
  <2> QED
    BY <2>1, <2>2, <1>b, LocationsNamed, LocalIsQuiet DEF Terminal, Errors
<1>17. CASE FinishEngine(w)
  <2> DEFINE i == worker[w].index
             on == [CheckpointThen(w, "engine") EXCEPT !.index = i + 1, !.result = NoResult]
             off == [Goto(w, "correlate") EXCEPT !.result = NoResult]
  <2>1. /\ CheckpointThen(w, "engine") \in Worker
        /\ CheckpointThen(w, "engine").pc = "checkpoint"
        /\ CheckpointThen(w, "engine").pending = worker[w].pending
        /\ Goto(w, "correlate") \in Worker
        /\ Goto(w, "correlate").pc = "correlate"
        /\ Goto(w, "correlate").pending = worker[w].pending
    BY <1>b, LocationsNamed DEF Continuations
  <2>2. CASE i < Len(Engines)
    <3>1. i + 1 \in 1 .. Len(Engines)
      BY <1>a, <2>2, EnginesAssumption
    <3>2. [CheckpointThen(w, "engine") EXCEPT !.index = i + 1] \in Worker
      BY <2>1, <3>1, UpdateTyped
    <3>3. on \in Worker
      BY <3>2, ConstantsTyped, UpdateTyped
    <3>4. on.pc = "checkpoint" /\ on.pending = worker[w].pending
      BY <2>1 DEF Worker
    <3>5. Stage(w, "SCANNING", Progress(i), on)
      BY <1>17, <2>2 DEF FinishEngine
    <3> HIDE DEF on
    <3> QED
      BY <3>3, <3>4, <3>5, <1>d
  <2>3. CASE ~ (i < Len(Engines))
    <3>1. off \in Worker
      BY <2>1, ConstantsTyped, UpdateTyped
    <3>2. off.pc = "correlate" /\ off.pending = worker[w].pending
      BY <2>1 DEF Worker
    <3>3. Stage(w, "SCANNING", Progress(i), off)
      BY <1>17, <2>3 DEF FinishEngine
    <3> HIDE DEF off
    <3> QED
      BY <3>1, <3>2, <3>3, <1>d
  <2> QED
    BY <2>2, <2>3
<1>18. CASE SaveFindings(w)
  <2>1. PICK tested : Local(w, [CheckpointThen(w, "reporting") EXCEPT !.tested = tested])
    BY <1>18 DEF SaveFindings
  <2>2. /\ [CheckpointThen(w, "reporting") EXCEPT !.tested = tested].pc = "checkpoint"
        /\ [CheckpointThen(w, "reporting") EXCEPT !.tested = tested].pending
             = worker[w].pending
    BY <1>b DEF Worker, Continuations
  <2>3. UNCHANGED payload /\ endpoints'.origins = endpoints.origins
    BY <1>18 DEF SaveFindings, TypeOK
  <2> QED
    BY <2>1, <2>2, <2>3, LocalIsQuiet
<1>19. CASE Assess(w)
  <2>1. PICK verdict : Local(w, [worker[w] EXCEPT !.pc = "publish", !.verdict = verdict])
    BY <1>19 DEF Assess
  <2>2. /\ [worker[w] EXCEPT !.pc = "publish", !.verdict = verdict].pc = "publish"
        /\ [worker[w] EXCEPT !.pc = "publish", !.verdict = verdict].pending
             = worker[w].pending
    BY <1>a DEF Worker
  <2> QED
    BY <1>19, <2>1, <2>2, LocalIsQuiet DEF Assess, tables
<1>20. CASE Publish(w)
  <2>1. /\ [IdleWorker EXCEPT !.pc = "ack"] \in Worker
        /\ [IdleWorker EXCEPT !.pc = "ack"].pc = "ack"
        /\ [IdleWorker EXCEPT !.pc = "ack"].pending = "none"
    BY ConstantsTyped, UpdateTyped, LocationsNamed DEF IdleWorker
  <2> QED
    BY <1>20, <2>1, CommitIsQuiet DEF Publish
<1>21. CASE Acknowledge(w)
  <2>1. IdleWorker.pc = "idle" /\ IdleWorker.pending = "none"
    BY DEF IdleWorker
  <2> QED
    BY <1>21, <2>1, LocalIsQuiet DEF Acknowledge, tables
<1> QED
  BY <1>1, <1>2, <1>3, <1>4, <1>5, <1>6, <1>7, <1>8, <1>9, <1>10, <1>11, <1>12, <1>13,
     <1>14, <1>15, <1>16, <1>17, <1>18, <1>19, <1>20, <1>21
     DEF WorkerStep

\* A step of w that stores endpoints of the origin in its hands.
LEMMA StoringKeeps ==
    ASSUME DocumentInv, NEW w \in Workers, NEW origin, TypeOK', Untouched',
           endpoints'.origins = endpoints.origins \union {origin},
           payload => origin # "fetched",
           HoldsDocument(w) => origin = "submitted",
           UNCHANGED <<inline, submit, payload>>,
           submit \notin {"start", "rejected"},
           \A v \in Workers \ {w} : worker'[v] = worker[v],
           worker'[w].pc \notin {"consume", "endpoints"},
           worker'[w].pending \in {worker[w].pending, "none"}
    PROVE  DocumentInv' /\ DocumentStep
<1>1. \A v \in Workers : Orderly(worker[v])'
  BY DEF DocumentInv, Orderly
<1>2. \A v \in Workers \ {w} : HoldsDocument(v)' <=> HoldsDocument(v)
  BY DEF HoldsDocument
<1>3. payload => "fetched" \notin endpoints'.origins
  BY DEF DocumentInv
<1>4. DocumentKept => DocumentKept'
  <2> SUFFICES ASSUME DocumentKept PROVE DocumentKept'
    OBVIOUS
  <2>1. CASE HoldsDocument(w)
    BY <2>1 DEF DocumentKept
  <2>2. CASE ~ HoldsDocument(w)
    BY <1>2, <2>2 DEF DocumentKept
  <2> QED
    BY <2>1, <2>2
<1> QED
  BY <1>1, <1>3, <1>4 DEF DocumentInv, DocumentStep

LEMMA WorkerKeepsDocument ==
    ASSUME DocumentInv, NEW w \in Workers, WorkerStep(w), Untouched'
    PROVE  DocumentInv' /\ DocumentStep
<1>a. /\ TypeOK /\ worker[w] \in Worker /\ worker[w].scan \in Scan /\ Orderly(worker[w])
      /\ endpoints.origins \subseteq {"submitted", "fetched"}
  BY DEF DocumentInv, TypeOK, Worker
<1>b. TypeOK'
  BY <1>a, WorkerTyped
<1>c. /\ worker[w].pc # "idle" => submit \notin {"start", "rejected"}
      /\ submit' = submit
  <2>1. worker[w].pc # "idle" => submit \notin {"start", "rejected"}
    BY DEF DocumentInv, Untouched, IdleWorker
  <2>2. submit' = submit
    BY WorkerSubmits
  <2> QED
    BY <2>1, <2>2
<1>1. CASE worker[w].pc \notin {"inventory", "consume", "endpoints", "terminate"}
  <2>1. Quiet(w)
    BY <1>1, <1>a, WorkerIsQuiet
  <2> QED
    BY <1>1, <1>b, <1>c, <2>1, QuietKeeps
<1>2. CASE StepFails(w)
  <2>1. PICK new \in Worker : /\ Local(w, new) /\ UNCHANGED tables
                            /\ new.pc = "terminate" /\ new.pending \in Unflushed(w)
    BY <1>2, <1>a, Failing
  <2>2. /\ worker'[w] = new /\ \A v \in Workers \ {w} : worker'[v] = worker[v]
        /\ UNCHANGED <<inline, submit, payload, endpoints>>
    BY <1>a, <2>1, LocalMoves DEF Local, tables
  <2>3. payload => new.pending # "fetched"
    BY <1>a, <2>1 DEF Unflushed, At, Orderly
  <2>4. \A v \in Workers : Orderly(worker[v])'
    BY <2>1, <2>2, <2>3 DEF DocumentInv, Orderly
  <2>5. \A v \in Workers \ {w} : HoldsDocument(v)' <=> HoldsDocument(v)
    BY <2>2 DEF HoldsDocument
  <2>6. DocumentInv'
    BY <1>b, <2>2, <2>4 DEF DocumentInv
  <2>7. HoldsDocument(w) \/ (DocumentKept => DocumentKept')
    BY <2>2, <2>5 DEF DocumentKept
  <2> QED
    BY <2>1, <2>2, <2>6, <2>7 DEF DocumentInv, DocumentStep
<1>3. CASE \E some \in BOOLEAN : BuildInventory(w, some)
  <2> PICK some \in BOOLEAN : BuildInventory(w, some)
    BY <1>3
  <2> DEFINE new == [worker[w] EXCEPT !.pc = IF payload THEN "consume" ELSE "endpoints",
                       !.origin = IF payload THEN "submitted" ELSE "fetched",
                       !.found = some]
  <2>1. /\ new.pc \in {"consume", "endpoints"} /\ new.found = some
        /\ new.origin = IF payload THEN "submitted" ELSE "fetched"
        /\ new.pending = worker[w].pending
    BY <1>a DEF Worker
  <2>2. /\ Local(w, new) /\ UNCHANGED tables
        /\ worker[w].pc = "inventory" /\ (payload => some)
    BY DEF BuildInventory, At
  <2> HIDE DEF new
  <2>3. /\ worker'[w] = new /\ \A v \in Workers \ {w} : worker'[v] = worker[v]
        /\ UNCHANGED <<inline, submit, payload, endpoints>>
    BY <1>a, <2>2, LocalMoves DEF Local, tables
  <2>4. \A v \in Workers : Orderly(worker[v])'
    BY <2>1, <2>2, <2>3 DEF DocumentInv, Orderly
  <2>5. \A v \in Workers : HoldsDocument(v) => HoldsDocument(v)'
    BY <2>2, <2>3 DEF HoldsDocument
  <2>6. DocumentInv'
    BY <1>b, <2>3, <2>4 DEF DocumentInv
  <2>7. DocumentKept => DocumentKept'
    BY <2>3, <2>5 DEF DocumentKept
  <2> QED
    BY <2>3, <2>6, <2>7 DEF DocumentInv, DocumentStep
<1>4. CASE ConsumePayload(w)
  <2>1. /\ Goto(w, "endpoints") \in Worker
        /\ Goto(w, "endpoints").pc = "endpoints"
        /\ Goto(w, "endpoints").origin = worker[w].origin
        /\ Goto(w, "endpoints").found = worker[w].found
    BY <1>a, LocalsTyped, LocationsNamed DEF Goto, Worker
  <2>2. /\ Local(w, Goto(w, "endpoints")) /\ worker[w].pc = "consume"
        /\ ~ payload' /\ UNCHANGED endpoints
    BY <1>4 DEF ConsumePayload, At
  <2>3. /\ worker'[w] = Goto(w, "endpoints")
        /\ \A v \in Workers \ {w} : worker'[v] = worker[v]
        /\ UNCHANGED <<inline, submit>>
    BY <1>a, <2>2, LocalMoves DEF Local
  <2>4. \A v \in Workers : Orderly(worker[v])'
    BY <2>1, <2>2, <2>3 DEF DocumentInv, Orderly
  <2>5. \A v \in Workers : HoldsDocument(v) => HoldsDocument(v)'
    BY <2>1, <2>2, <2>3 DEF HoldsDocument
  <2>6. payload => HoldsDocument(w)
    BY <1>a, <2>2 DEF Orderly, HoldsDocument
  <2>7. DocumentInv'
    BY <1>b, <1>c, <2>2, <2>3, <2>4 DEF DocumentInv
  <2>8. DocumentKept => DocumentKept'
    BY <2>2, <2>3, <2>5, <2>6 DEF DocumentKept
  <2> QED
    BY <2>2, <2>7, <2>8 DEF DocumentInv, DocumentStep
<1>5. CASE SaveEndpoints(w) \/ AnalysisFails(w)
  <2>1. worker[w].pc = "endpoints" /\ payload' = payload
    BY <1>5 DEF SaveEndpoints, AnalysisFails, At
  <2>2. PICK new : /\ Local(w, new)
                  /\ new.pc \notin {"consume", "endpoints"}
                  /\ new.pending \in {worker[w].pending, "none"}
    BY <1>5, <1>a, HelperFields
       DEF SaveEndpoints, AnalysisFails, Continuations, Terminal, Errors
  <2>3. /\ worker'[w] = new /\ \A v \in Workers \ {w} : worker'[v] = worker[v]
        /\ UNCHANGED <<inline, submit>>
    BY <1>a, <2>2, LocalMoves DEF Local
  <2>4. CASE worker[w].found
    <3>1. endpoints'.origins = endpoints.origins \union {worker[w].origin}
      BY <1>5, <2>4 DEF SaveEndpoints, AnalysisFails, Added
    <3>2. /\ payload => worker[w].origin # "fetched"
          /\ HoldsDocument(w) => worker[w].origin = "submitted"
      BY <1>a, <2>1 DEF Orderly, HoldsDocument
    <3> QED
      BY <1>b, <1>c, <2>1, <2>2, <2>3, <3>1, <3>2, StoringKeeps
  <2>5. CASE ~ worker[w].found
    <3>1. endpoints' = endpoints
      BY <1>5, <2>5 DEF SaveEndpoints, AnalysisFails
    <3>2. ~ HoldsDocument(w)
      BY <1>a, <2>5 DEF Orderly, HoldsDocument
    <3>3. \A v \in Workers : HoldsDocument(v) => HoldsDocument(v)'
      BY <2>3, <3>2 DEF HoldsDocument
    <3>4. \A v \in Workers : Orderly(worker[v])'
      BY <2>1, <2>2, <2>3 DEF DocumentInv, Orderly
    <3>5. DocumentInv' /\ (DocumentKept => DocumentKept')
      BY <1>b, <2>1, <2>3, <3>1, <3>3, <3>4 DEF DocumentInv, DocumentKept
    <3> QED
      BY <3>1, <3>5 DEF DocumentInv, DocumentStep
  <2> QED
    BY <2>4, <2>5
<1>6. CASE Terminate(w)
  <2> DEFINE scan == [worker[w].scan EXCEPT !.status = worker[w].verdict,
                                            !.error = worker[w].error, !.finished = TRUE]
             new == [IdleWorker EXCEPT !.pc = "ack"]
  <2>1. new \in Worker /\ new.pc = "ack" /\ new.pending = "none"
    BY ConstantsTyped, UpdateTyped, LocationsNamed DEF IdleWorker
  <2>2. /\ Commit(w, scan, new) /\ worker[w].pc = "terminate" /\ UNCHANGED <<inline, payload>>
    BY <1>6 DEF Terminate, At, Commit
  <2> HIDE DEF scan, new
  <2>3. /\ worker'[w].pc = "ack" /\ worker'[w].pending = "none"
        /\ \A v \in Workers \ {w} : worker'[v] = worker[v]
    BY <1>a, <2>1, <2>2, CommitMoves
  <2>4. ~ HoldsDocument(w)
    BY <2>2 DEF HoldsDocument
  <2>5. CASE worker[w].pending \in {"submitted", "fetched"}
    <3>1. endpoints'.origins = endpoints.origins \union {worker[w].pending}
      BY <1>6, <2>5 DEF Terminate, Added
    <3>2. payload => worker[w].pending # "fetched"
      BY <1>a DEF Orderly
    <3> QED
      BY <1>b, <1>c, <2>2, <2>3, <2>4, <3>1, <3>2, StoringKeeps
  <2>6. CASE worker[w].pending \notin {"submitted", "fetched"}
    <3>1. endpoints' = endpoints
      BY <1>6, <2>6 DEF Terminate
    <3>2. Quiet(w)
      BY <2>2, <2>3, <3>1 DEF Quiet
    <3> QED
      BY <1>b, <1>c, <2>2, <3>2, QuietKeeps
  <2> QED
    BY <2>5, <2>6
<1>7. CASE worker[w].pc \in {"inventory", "consume", "endpoints", "terminate"}
  <2>1. WorkerStep(w) => \/ StepFails(w) \/ \E some \in BOOLEAN : BuildInventory(w, some)
                         \/ ConsumePayload(w) \/ SaveEndpoints(w) \/ AnalysisFails(w)
                         \/ Terminate(w)
    <3>1. ~ Receive(w) /\ ~ Initialize(w) /\ ~ ValidateTarget(w) /\ ~ Discard(w)
      BY <1>7 DEF Receive, Initialize, ValidateTarget, Discard, At
    <3>2. /\ ~ CheckpointCancelled(w) /\ ~ CheckpointTimedOut(w) /\ ~ CheckpointPassed(w)
          /\ ~ CheckpointResumes(w) /\ ~ CheckpointPauses(w)
      BY <1>7 DEF CheckpointCancelled, CheckpointTimedOut, CheckpointPassed,
                  CheckpointResumes, CheckpointPauses, Refreshed, At
    <3>3. ~ ResumeCommit(w) /\ ~ PauseCommit(w) /\ ~ StartDiscovery(w) /\ ~ StartScanning(w)
      BY <1>7 DEF ResumeCommit, PauseCommit, StartDiscovery, StartScanning, At
    <3>4. \A result \in Outcomes : ~ RunEngine(w, result)
      BY <1>7 DEF RunEngine, At
    <3>5. ~ PersistEngine(w) /\ ~ ApplyBaselines(w) /\ ~ FinishEngine(w) /\ ~ StartCorrelation(w)
      BY <1>7 DEF PersistEngine, ApplyBaselines, FinishEngine, StartCorrelation, At
    <3>6. ~ SaveFindings(w) /\ ~ StartReporting(w) /\ ~ Assess(w) /\ ~ Publish(w)
                            /\ ~ Acknowledge(w)
      BY <1>7 DEF SaveFindings, StartReporting, Assess, Publish, Acknowledge, At
    <3> QED
      BY <3>1, <3>2, <3>3, <3>4, <3>5, <3>6 DEF WorkerStep
  <2> QED
    BY <2>1, <1>2, <1>3, <1>4, <1>5, <1>6
<1> QED
  BY <1>1, <1>7

LEMMA DocumentNext == DocumentInv /\ [Next]_vars => DocumentInv' /\ DocumentStep
<1> SUFFICES ASSUME DocumentInv, [Next]_vars PROVE DocumentInv' /\ DocumentStep
  OBVIOUS
<1>a. TypeOK /\ TypeOK' /\ Untouched'
  BY StepTyped, UntouchedStep DEF DocumentInv
<1>b. ASSUME UNCHANGED <<inline, payload, endpoints, worker>>,
             submit' \in {"start", "rejected"} => submit \in {"start", "rejected"}
      PROVE  DocumentInv' /\ DocumentStep
  <2>1. DocumentInv'
    BY <1>a, <1>b DEF DocumentInv, Orderly
  <2>2. DocumentKept' = DocumentKept
    BY <1>b DEF DocumentKept, HoldsDocument
  <2> QED
    BY <1>b, <2>1, <2>2 DEF DocumentInv, DocumentStep
<1>1. CASE RejectRequest \/ Dispatch \/ \E published \in BOOLEAN : DispatchFails(published)
  BY <1>1, <1>b DEF RejectRequest, Dispatch, DispatchFails, tables
<1>2. CASE \E document \in BOOLEAN : CreateScan(document)
  <2>1. /\ submit = "start" /\ inline' = payload' /\ UNCHANGED <<endpoints, worker>>
        /\ submit' = "saved"
    BY <1>2 DEF CreateScan
  <2>2. /\ ~ payload /\ endpoints.origins = {}
        /\ \A w \in Workers : worker[w] = IdleWorker
    BY <2>1 DEF DocumentInv, Untouched
  <2>3. \A w \in Workers : Orderly(worker[w])'
    BY <2>1, <2>2 DEF Orderly, IdleWorker
  <2>4. DocumentInv' /\ DocumentKept'
    BY <1>a, <2>1, <2>2, <2>3 DEF DocumentInv, DocumentKept
  <2> QED
    BY <2>2, <2>4 DEF DocumentStep
<1>3. ASSUME NEW c \in Controls, ControlRequest(c) PROVE DocumentInv' /\ DocumentStep
  BY <1>3, <1>b DEF ControlRequest, ControlRead, ControlCommit, tables
<1>4. CASE Environment
  <2>1. ASSUME NEW w \in Workers, DeadlinePasses(w) PROVE DocumentInv' /\ DocumentStep
    <3> DEFINE new == [worker[w] EXCEPT !.expired = TRUE]
    <3>1. /\ new.pc = worker[w].pc /\ new.pending = worker[w].pending
          /\ new.origin = worker[w].origin /\ new.found = worker[w].found
      BY <1>a DEF TypeOK, Worker
    <3>2. Local(w, new) /\ UNCHANGED tables
      BY <2>1 DEF DeadlinePasses
    <3> HIDE DEF new
    <3>3. /\ worker'[w] = new /\ \A v \in Workers \ {w} : worker'[v] = worker[v]
          /\ UNCHANGED <<inline, submit, payload, endpoints>>
      BY <1>a, <3>2, LocalMoves DEF Local, tables
    <3>4. \A v \in Workers : Orderly(worker[v])'
      BY <3>1, <3>3 DEF DocumentInv, Orderly
    <3>5. \A v \in Workers : HoldsDocument(v) => HoldsDocument(v)'
      BY <3>1, <3>3 DEF HoldsDocument
    <3>6. DocumentInv' /\ (DocumentKept => DocumentKept')
      BY <1>a, <3>3, <3>4, <3>5 DEF DocumentInv, DocumentKept
    <3> QED
      BY <3>3, <3>6 DEF DocumentInv, DocumentStep
  <2>2. CASE Redeliver \/ ApiLost
    BY <2>2, <1>b DEF Redeliver, ApiLost, Fault, tables
  <2>3. ASSUME NEW w \in Workers, WorkerLost(w) \/ Abandon(w)
        PROVE  DocumentInv' /\ DocumentStep
    <3>1. /\ worker' = [worker EXCEPT ![w] = IdleWorker]
          /\ UNCHANGED <<inline, submit, payload, endpoints>>
      BY <2>3 DEF WorkerLost, Abandon, Fault, tables
    <3>2. worker'[w] = IdleWorker /\ \A v \in Workers \ {w} : worker'[v] = worker[v]
      BY <1>a, <3>1 DEF TypeOK
    <3>3. worker'[w].pc = "idle" /\ worker'[w].pending = "none"
      BY <3>2 DEF IdleWorker
    <3>4. Quiet(w)
      BY <3>1, <3>2, <3>3 DEF Quiet
    <3> QED
      BY <1>a, <3>1, <3>3, <3>4, QuietKeeps
  <2> QED
    BY <1>4, <2>1, <2>2, <2>3 DEF Environment
<1>5. CASE UNCHANGED vars
  BY <1>5, <1>b DEF vars, tables
<1> QED
  BY <1>a, <1>1, <1>2, <1>3, <1>4, <1>5, WorkerKeepsDocument DEF Next, Submission, Quiescent

\* A submitted document is lost only with a worker that ends after it deleted the row and
\* before it stored the endpoints, for any number of workers, deliveries and faults; and no
\* other inventory is stored while the row exists (_inventory, run).
THEOREM DocumentsAreKept == Spec => DocumentIsKept
<1>1. Init => DocumentInv
  BY InitTyped, UntouchedInit DEF Init, DocumentInv, Orderly, IdleWorker
<1>2. DocumentInv /\ [Next]_vars => [DocumentStep]_vars
  BY DocumentNext
<1>3. DocumentInv /\ [Next]_vars => DocumentInv'
  BY DocumentNext
<1>4. Spec => [][DocumentStep]_vars
  BY <1>1, <1>2, <1>3, PTL DEF Spec
<1> QED
  BY <1>4 DEF DocumentIsKept, DocumentStep
=============================================================================
