------------------------- MODULE ScanLifecycleOnce -------------------------
(***************************************************************************)
(* A scan whose message is delivered once and whose worker is not lost: a  *)
(* verdict is clean and a failure publishes nothing.  Then at most one     *)
(* worker ever runs the scan, and what the tables hold is known at every   *)
(* statement of Orchestrator.run, although requests to cancel, pause or    *)
(* resume may commit between any two of them.                              *)
(* For the same reason such a scan goes through the lifecycle of ScanJob.  *)
(***************************************************************************)
EXTENDS ScanLifecycleProofs, ScanLifecycleJob

Once == MaxCopies = 1 /\ MaxFaults = 0

\* The message is delivered once: one worker has it, or nobody.
OneDelivery ==
    /\ copies <= 1 /\ queue <= copies
    /\ submit \in {"start", "rejected", "saved"} => copies = 0
    /\ \A w \in Workers : worker[w].pc # "idle" => queue = 0 /\ copies = 1
    /\ \A v, w \in Workers : worker[v].pc # "idle" /\ worker[w].pc # "idle" => v = w

\* The errors of a row whose worker has not ended the scan.
OpenErrors == {"none", "dispatch"}

Open(scan) == scan.error \in OpenErrors /\ scan.status # "COMPLETED"

\* As create_scan left it: nobody has taken the message yet.
Fresh ==
    /\ Open(row)
    /\ engineRows = {}
    /\ findings = 0
    /\ reports = 0

\* The statement a worker is at, or comes back to from _checkpoint.
Place(local) ==
    IF local.pc \in {"checkpoint", "pausing", "resuming"} THEN local.next ELSE local.pc

HasRow(engine) == \E r \in engineRows : r.engine = engine

AllSound == \A r \in engineRows : r.status \in {"COMPLETED", "SKIPPED"}

Clean ==
    /\ endpoints.tested = "all"
    /\ \A i \in 1 .. Len(Engines) : HasRow(Engines[i])
    /\ AllSound
    /\ \A r \in engineRows : ~ r.gap

\* The result it holds is that of the engine of the loop.
KnowsResult(local) ==
    Place(local) = "persist" => local.result.engine = Engines[local.index]

\* The rows of the engines so far, and whether one of them failed.
KnowsEngines(local) ==
    LET at == Place(local) IN
    /\ at \in {"engine", "persist"} =>
         \A i \in 1 .. Len(Engines) : i < local.index => HasRow(Engines[i])
    /\ at \in {"baselines", "progress"} =>
         \A i \in 1 .. Len(Engines) : i <= local.index => HasRow(Engines[i])
    /\ at \in {"correlate", "findings", "reporting", "assess"} =>
         \A i \in 1 .. Len(Engines) : HasRow(Engines[i])
    /\ at \notin {"publish", "terminate"} => (~ local.failed => AllSound)
    /\ at \in {"reporting", "assess"} => (local.tested = "all" => endpoints.tested = "all")
    /\ at = "publish" => (local.verdict = "COMPLETED" => Clean)

\* What has been published, and how the worker will end the scan.
KnowsOutcome(local) ==
    LET at == Place(local) IN
    /\ reports = 0
    /\ Open(row) /\ local.scan.error \in OpenErrors
    /\ at \notin {"reporting", "assess", "publish", "terminate"} => findings = 0
    /\ at = "terminate" =>
         /\ local.verdict # "COMPLETED"
         /\ local.error = "unreachable" => findings = 0 /\ local.pending = "none"

OnTrack(local) ==
    KnowsResult(local) /\ KnowsEngines(local) /\ KnowsOutcome(local)

\* What the row of the scan promises.
Promised ==
    /\ NothingPublishedOnFailure
    /\ row.status = "COMPLETED" => Clean

OnceInv ==
    /\ TypeOK
    /\ Untouched
    /\ OneDelivery
    /\ queue = copies => Fresh
    /\ \A w \in Workers : Running(w) => OnTrack(worker[w])
    /\ Promised

-----------------------------------------------------------------------------
(* What the steps are made of.                                              *)

Data(local) == <<local.index, local.result, local.failed, local.origin, local.found,
                 local.tested, local.verdict>>

\* The helpers that move a worker on leave what it knows alone.
LEMMA DataKept ==
    ASSUME TypeOK, NEW w \in Workers
    PROVE  /\ \A location \in Locations : Data(Goto(w, location)) = Data(worker[w])
           /\ \A next \in Continuations : Data(CheckpointThen(w, next)) = Data(worker[w])
           /\ \A status \in Terminal, error \in Errors :
                Raise(w, status, error).error = error
<1>1. worker[w] \in Worker
  BY DEF TypeOK
<1>2. ASSUME NEW location \in Locations PROVE Data(Goto(w, location)) = Data(worker[w])
  BY <1>1 DEF Goto, Worker, Data
<1>3. ASSUME NEW next \in Continuations PROVE Data(CheckpointThen(w, next)) = Data(worker[w])
  BY <1>1 DEF CheckpointThen, Worker, Data
<1>4. ASSUME NEW status \in Terminal, NEW error \in Errors
      PROVE  Raise(w, status, error).error = error
  BY DEF Raise, IdleWorker
<1> QED
  BY <1>2, <1>3, <1>4

\* What a session can make of the columns that an open row is about.
LEMMA FlushOpen ==
    ASSUME NEW db \in Scan, NEW loaded \in Scan, NEW new \in Scan
    PROVE  /\ new.error = loaded.error => Flush(db, loaded, new).error = db.error
           /\ new.error # loaded.error => Flush(db, loaded, new).error = new.error
           /\ Flush(db, loaded, new).status \in {db.status, new.status}
BY DEF Flush, Scan

\* While the row is open it promises nothing.
LEMMA OpenPromises ==
    ASSUME Open(row)
    PROVE  Promised
BY DEF Open, OpenErrors, Promised, NothingPublishedOnFailure

\* A step of the one worker that runs the scan.
LEMMA OnceGoesOn ==
    ASSUME OnceInv, NEW w \in Workers, Running(w),
           \A v \in Workers \ {w} : worker'[v] = worker[v],
           UNCHANGED <<submit, queue, copies>>, TypeOK', Untouched',
           OnTrack(worker[w])'
    PROVE  OnceInv'
<1>1. /\ queue = 0 /\ copies = 1 /\ worker[w].pc # "idle"
      /\ \A v \in Workers \ {w} : worker[v].pc = "idle"
  BY DEF OnceInv, OneDelivery, Running
<1>2. OneDelivery'
  BY <1>1 DEF OnceInv, OneDelivery
<1>3. \A v \in Workers : Running(v)' => OnTrack(worker[v])'
  BY <1>1 DEF Running
<1>4. Promised'
  BY OpenPromises, PTL DEF OnTrack, KnowsOutcome
<1> QED
  BY <1>1, <1>2, <1>3, <1>4 DEF OnceInv

\* It ends, or had ended.
LEMMA OnceEnds ==
    ASSUME OnceInv, NEW w \in Workers, worker[w].pc # "idle",
           \A v \in Workers \ {w} : worker'[v] = worker[v],
           worker'[w].pc \in {"idle", "ack"},
           UNCHANGED <<submit, queue, copies>>, TypeOK', Untouched', Promised'
    PROVE  OnceInv'
<1>1. /\ queue = 0 /\ copies = 1
      /\ \A v \in Workers \ {w} : worker[v].pc = "idle"
  BY DEF OnceInv, OneDelivery
<1>2. OneDelivery'
  BY <1>1 DEF OnceInv, OneDelivery
<1>3. \A v \in Workers : ~ Running(v)'
  BY <1>1 DEF Running
<1> QED
  BY <1>1, <1>2, <1>3 DEF OnceInv

\* The statements that follow each other with nothing stored in between.
Onward == {<<"init", "validate">>, <<"validate", "discover">>, <<"discover", "inventory">>,
           <<"correlate", "findings">>, <<"reporting", "assess">>}

\* A step that stores nothing in the tables and takes the worker no further than the next
\* statement.
LEMMA OnceMoves ==
    ASSUME OnceInv, NEW w \in Workers, Running(w),
           \A v \in Workers \ {w} : worker'[v] = worker[v],
           UNCHANGED <<submit, inline, queue, copies, tables>>, TypeOK', Untouched',
           Open(row'), worker'[w].scan.error \in OpenErrors,
           Data(worker'[w]) = Data(worker[w]),
           Place(worker[w]) # "terminate",
           Place(worker'[w]) = Place(worker[w])
             \/ <<Place(worker[w]), Place(worker'[w])>> \in Onward
    PROVE  OnceInv'
<1> DEFINE from == Place(worker[w])
           to == Place(worker'[w])
<1>1. /\ from = to \/ <<from, to>> \in Onward
      /\ from # "terminate" /\ to # "terminate"
  BY DEF Onward
<1>2. OnTrack(worker[w])
  BY DEF OnceInv
<1>3. /\ worker'[w].index = worker[w].index /\ worker'[w].result = worker[w].result
      /\ worker'[w].failed = worker[w].failed /\ worker'[w].origin = worker[w].origin
      /\ worker'[w].found = worker[w].found /\ worker'[w].tested = worker[w].tested
      /\ worker'[w].verdict = worker[w].verdict
  BY DEF Data
<1>4. /\ UNCHANGED <<inline, payload, endpoints, engineRows, findings, reports>>
  BY DEF tables
<1>5. Place(worker[w])' = to
  BY DEF Place
<1> HIDE DEF from, to
<1>6. KnowsResult(worker[w])'
  BY <1>1, <1>2, <1>3, <1>4, <1>5 DEF from, OnTrack, KnowsResult, Onward
<1>7. KnowsEngines(worker[w])'
  BY <1>1, <1>2, <1>3, <1>4, <1>5
     DEF from, OnTrack, KnowsEngines, Onward, HasRow, AllSound, Clean
<1>8. KnowsOutcome(worker[w])'
  BY <1>1, <1>2, <1>4, <1>5 DEF from, OnTrack, KnowsOutcome, Onward
<1> QED
  BY <1>6, <1>7, <1>8, OnceGoesOn DEF OnTrack

LEMMA OnceRaises ==
    ASSUME OnceInv, NEW w \in Workers, Running(w),
           \A v \in Workers \ {w} : worker'[v] = worker[v],
           UNCHANGED <<submit, inline, row, queue, copies, tables>>, TypeOK', Untouched',
           worker'[w].pc = "terminate", worker'[w].scan.error \in OpenErrors,
           worker'[w].verdict # "COMPLETED", worker'[w].error # "unreachable"
    PROVE  OnceInv'
<1>1. OnTrack(worker[w])
  BY DEF OnceInv
<1>2. Place(worker[w])' = "terminate"
  BY DEF Place
<1>3. KnowsResult(worker[w])' /\ KnowsEngines(worker[w])'
  BY <1>2 DEF KnowsResult, KnowsEngines
<1>4. KnowsOutcome(worker[w])'
  BY <1>1, <1>2 DEF OnTrack, KnowsOutcome, tables
<1> QED
  BY <1>3, <1>4, OnceGoesOn DEF OnTrack

-----------------------------------------------------------------------------
(* The kinds of step that store nothing but the row.                        *)

LEMMA LocalOnce ==
    ASSUME OnceInv, NEW w \in Workers, NEW new, Local(w, new), Running(w),
           UNCHANGED tables, TypeOK', Untouched',
           new.scan.error \in OpenErrors,
           \/ /\ Data(new) = Data(worker[w])
              /\ Place(worker[w]) # "terminate"
              /\ \/ Place(new) = Place(worker[w])
                 \/ <<Place(worker[w]), Place(new)>> \in Onward
           \/ /\ new.pc = "terminate"
              /\ new.verdict # "COMPLETED" /\ new.error # "unreachable"
    PROVE  OnceInv'
<1>1. /\ worker'[w] = new
      /\ \A v \in Workers \ {w} : worker'[v] = worker[v]
      /\ UNCHANGED <<submit, inline, row, queue, copies>>
  BY LocalMoves DEF OnceInv, Local
<1>2. Open(row')
  BY <1>1 DEF OnceInv, OnTrack, KnowsOutcome
<1>3. CASE /\ Data(new) = Data(worker[w])
           /\ Place(worker[w]) # "terminate"
           /\ \/ Place(new) = Place(worker[w])
              \/ <<Place(worker[w]), Place(new)>> \in Onward
  BY <1>1, <1>2, <1>3, OnceMoves
<1>4. CASE /\ new.pc = "terminate"
           /\ new.verdict # "COMPLETED" /\ new.error # "unreachable"
  BY <1>1, <1>4, OnceRaises
<1> QED
  BY <1>3, <1>4

\* After a refresh the session's copy of the row is open because the row is.
LEMMA RefreshOnce ==
    ASSUME OnceInv, NEW w \in Workers, NEW new \in Worker, Refreshed(w, new),
           TypeOK', Untouched',
           \/ Data(new) = Data(worker[w]) /\ Place(new) = Place(worker[w])
           \/ new.pc = "terminate" /\ new.verdict # "COMPLETED" /\ new.error # "unreachable"
    PROVE  OnceInv'
<1> DEFINE fresh == [new EXCEPT !.scan = row]
<1>1. /\ fresh.scan = row /\ Data(fresh) = Data(new) /\ Place(fresh) = Place(new)
      /\ fresh.pc = new.pc /\ fresh.verdict = new.verdict /\ fresh.error = new.error
  BY DEF Worker, Data, Place
<1>2. Local(w, fresh) /\ UNCHANGED tables
  BY DEF Refreshed
<1>3. worker[w].pc = "checkpoint" /\ Running(w)
  BY DEF Refreshed, At, Running
<1>4. row.error \in OpenErrors
  BY <1>3 DEF OnceInv, OnTrack, KnowsOutcome, Open
<1>5. Place(worker[w]) # "terminate"
  BY <1>3 DEF OnceInv, TypeOK, Worker, Continuations, Place
<1> HIDE DEF fresh
<1> QED
  BY <1>1, <1>2, <1>3, <1>4, <1>5, LocalOnce

\* A commit of a status and the progress.
LEMMA CommitOnce ==
    ASSUME OnceInv, NEW w \in Workers, NEW scan \in Scan, NEW new \in Worker,
           Commit(w, scan, new), Running(w), UNCHANGED tables, TypeOK', Untouched',
           scan.error = worker[w].scan.error, scan.status # "COMPLETED",
           Data(new) = Data(worker[w]),
           Place(worker[w]) # "terminate",
           \/ Place(new) = Place(worker[w])
           \/ <<Place(worker[w]), Place(new)>> \in Onward
    PROVE  OnceInv'
<1> DEFINE local == [new EXCEPT !.scan = scan]
<1>1. local.scan = scan /\ Data(local) = Data(new) /\ Place(local) = Place(new)
  BY DEF Worker, Data, Place
<1>2. /\ worker'[w] = local
      /\ \A v \in Workers \ {w} : worker'[v] = worker[v]
      /\ row' = Flush(row, worker[w].scan, scan)
      /\ UNCHANGED <<submit, inline, queue, copies>>
  BY DEF Commit, broker, OnceInv, TypeOK
<1> HIDE DEF local
<1>3. Open(row) /\ worker[w].scan.error \in OpenErrors
  BY DEF OnceInv, OnTrack, KnowsOutcome
<1>4. Open(row')
  <2>1. row \in Scan /\ worker[w].scan \in Scan
    BY DEF OnceInv, TypeOK, Worker
  <2> QED
    BY <1>2, <1>3, <2>1, FlushOpen DEF Open
<1> QED
  BY <1>1, <1>2, <1>3, <1>4, OnceMoves

LEMMA StageOnce ==
    ASSUME OnceInv, NEW w \in Workers, NEW new \in Worker,
           NEW status \in ScanStatus \ Terminal, NEW progress \in 0 .. 100,
           Stage(w, status, progress, new), Running(w), TypeOK', Untouched',
           Data(new) = Data(worker[w]),
           Place(worker[w]) # "terminate",
           \/ Place(new) = Place(worker[w])
           \/ <<Place(worker[w]), Place(new)>> \in Onward
    PROVE  OnceInv'
<1>1. /\ Staged(w, status, progress) \in Scan
      /\ Staged(w, status, progress).status # "COMPLETED"
  <2>1. TypeOK
    BY DEF OnceInv
  <2>2. status # "COMPLETED" /\ status \in ScanStatus
    BY DEF Terminal
  <2> QED
    BY <2>1, <2>2, HelperFields
<1>2. Staged(w, status, progress).error = worker[w].scan.error
  BY DEF Staged, OnceInv, TypeOK, Worker, Scan
<1> DEFINE scan == Staged(w, status, progress)
<1>3. /\ Commit(w, scan, new) /\ UNCHANGED tables
      /\ scan \in Scan /\ scan.error = worker[w].scan.error /\ scan.status # "COMPLETED"
  BY <1>1, <1>2 DEF Stage
<1> HIDE DEF scan
<1> QED
  BY <1>3, CommitOnce

-----------------------------------------------------------------------------
(* The steps that store something, or choose what the worker goes on with.  *)

LEMMA ReceiveOnce ==
    ASSUME Once, OnceInv, NEW w \in Workers, Receive(w), TypeOK', Untouched'
    PROVE  OnceInv'
<1>1. queue = 1 /\ copies = 1 /\ \A v \in Workers : worker[v].pc = "idle"
  BY DEF Receive, OnceInv, OneDelivery, TypeOK
<1>2. /\ queue' = 0 /\ UNCHANGED <<submit, inline, row, copies, tables>>
      /\ \A v \in Workers \ {w} : worker'[v] = worker[v]
      /\ worker'[w] = [IdleWorker EXCEPT !.pc = "init", !.scan = row]
  BY <1>1 DEF Receive, OnceInv, TypeOK
<1>3. /\ worker'[w].pc = "init" /\ worker'[w].scan = row /\ ~ worker'[w].failed
  BY <1>2 DEF IdleWorker
<1>4. Fresh
  BY <1>1 DEF OnceInv
<1>5. Place(worker[w])' = "init"
  BY <1>3 DEF Place
<1>6. KnowsResult(worker[w])' /\ KnowsEngines(worker[w])'
  BY <1>2, <1>3, <1>4, <1>5
     DEF Fresh, tables, KnowsResult, KnowsEngines, AllSound
<1>7. KnowsOutcome(worker[w])'
  BY <1>2, <1>3, <1>4, <1>5 DEF Fresh, tables, KnowsOutcome, Open
<1>8. \A v \in Workers : Running(v)' => OnTrack(worker[v])'
  BY <1>1, <1>2, <1>6, <1>7 DEF Running, OnTrack
<1>9. OneDelivery'
  BY <1>1, <1>2 DEF OneDelivery, OnceInv
<1>10. Promised'
  <2> QED
    BY <1>7, OpenPromises, PTL DEF KnowsOutcome
<1> QED
  BY <1>1, <1>2, <1>8, <1>9, <1>10 DEF OnceInv

\* What a local step of the running worker leaves alone.
LEMMA LocalFrame ==
    ASSUME OnceInv, NEW w \in Workers, NEW new, Local(w, new)
    PROVE  /\ worker'[w] = new
           /\ \A v \in Workers \ {w} : worker'[v] = worker[v]
           /\ UNCHANGED <<submit, inline, row, queue, copies>>
BY LocalMoves DEF OnceInv, Local

LEMMA BuildOnce ==
    ASSUME OnceInv, NEW w \in Workers, NEW some \in BOOLEAN, BuildInventory(w, some),
           TypeOK', Untouched'
    PROVE  OnceInv'
<1> DEFINE pc == IF payload THEN "consume" ELSE "endpoints"
           origin == IF payload THEN "submitted" ELSE "fetched"
           new == [worker[w] EXCEPT !.pc = pc, !.origin = origin, !.found = some]
<1>1. /\ worker'[w] = new
      /\ \A v \in Workers \ {w} : worker'[v] = worker[v]
      /\ UNCHANGED <<submit, inline, row, queue, copies>>
  BY LocalFrame DEF BuildInventory
<1>2. new.pc = pc /\ new.origin = origin /\ new.scan = worker[w].scan
      /\ new.failed = worker[w].failed
  BY DEF OnceInv, TypeOK, Worker
<1>3. /\ UNCHANGED <<payload, endpoints, engineRows, findings, reports>>
      /\ worker[w].pc = "inventory"
  BY DEF BuildInventory, tables, At
<1>4. Running(w) /\ OnTrack(worker[w]) /\ Place(worker[w]) = "inventory"
  BY <1>3 DEF OnceInv, Running, Place
<1> HIDE DEF new
<1>5. Place(worker[w])' \in {"consume", "endpoints"}
  BY <1>1, <1>2 DEF Place
<1>6. KnowsResult(worker[w])' /\ KnowsEngines(worker[w])'
  BY <1>1, <1>2, <1>3, <1>4, <1>5 DEF OnTrack, KnowsResult, KnowsEngines, AllSound
<1>7. KnowsOutcome(worker[w])'
  BY <1>1, <1>2, <1>3, <1>4, <1>5 DEF OnTrack, KnowsOutcome
<1> QED
  BY <1>1, <1>4, <1>6, <1>7, OnceGoesOn DEF OnTrack

LEMMA ConsumeOnce ==
    ASSUME OnceInv, NEW w \in Workers, ConsumePayload(w), TypeOK', Untouched'
    PROVE  OnceInv'
<1>1. /\ worker'[w] = Goto(w, "endpoints")
      /\ \A v \in Workers \ {w} : worker'[v] = worker[v]
      /\ UNCHANGED <<submit, inline, row, queue, copies>>
  BY LocalFrame DEF ConsumePayload
<1>2. /\ worker'[w].pc = "endpoints" /\ worker'[w].scan = worker[w].scan
      /\ Data(worker'[w]) = Data(worker[w])
  BY <1>1, HelperFields, DataKept, LocationsNamed DEF OnceInv
<1>3. /\ UNCHANGED <<endpoints, engineRows, findings, reports>>
      /\ worker[w].pc = "consume"
  BY DEF ConsumePayload, At
<1>4. Running(w) /\ OnTrack(worker[w]) /\ Place(worker[w]) = "consume"
  BY <1>3 DEF OnceInv, Running, Place
<1>5. Place(worker[w])' = "endpoints"
  BY <1>2 DEF Place
<1>6. KnowsResult(worker[w])' /\ KnowsEngines(worker[w])'
  BY <1>1, <1>2, <1>3, <1>4, <1>5
     DEF OnTrack, Data, KnowsResult, KnowsEngines, AllSound
<1>7. KnowsOutcome(worker[w])'
  BY <1>1, <1>2, <1>3, <1>4, <1>5 DEF OnTrack, KnowsOutcome
<1> QED
  BY <1>1, <1>4, <1>6, <1>7, OnceGoesOn DEF OnTrack

LEMMA SaveEndpointsOnce ==
    ASSUME OnceInv, NEW w \in Workers, SaveEndpoints(w), TypeOK', Untouched'
    PROVE  OnceInv'
<1>1. /\ worker'[w] = CheckpointThen(w, "context")
      /\ \A v \in Workers \ {w} : worker'[v] = worker[v]
      /\ UNCHANGED <<submit, inline, row, queue, copies>>
  BY LocalFrame DEF SaveEndpoints
<1>2. /\ worker'[w].pc = "checkpoint" /\ worker'[w].next = "context"
      /\ worker'[w].scan = worker[w].scan
      /\ Data(worker'[w]) = Data(worker[w])
  BY <1>1, HelperFields, DataKept DEF OnceInv, Continuations
<1>3. /\ UNCHANGED <<payload, engineRows, findings, reports>>
      /\ worker[w].pc = "endpoints"
  BY DEF SaveEndpoints, At
<1>4. Running(w) /\ OnTrack(worker[w]) /\ Place(worker[w]) = "endpoints"
  BY <1>3 DEF OnceInv, Running, Place
<1>5. Place(worker[w])' = "context"
  BY <1>2 DEF Place
<1>6. KnowsResult(worker[w])' /\ KnowsEngines(worker[w])'
  BY <1>2, <1>3, <1>4, <1>5
     DEF OnTrack, Data, KnowsResult, KnowsEngines, AllSound
<1>7. KnowsOutcome(worker[w])'
  BY <1>1, <1>2, <1>3, <1>4, <1>5 DEF OnTrack, KnowsOutcome
<1> QED
  BY <1>1, <1>4, <1>6, <1>7, OnceGoesOn DEF OnTrack

LEMMA AnalysisFailsOnce ==
    ASSUME OnceInv, NEW w \in Workers, AnalysisFails(w), TypeOK', Untouched'
    PROVE  OnceInv'
<1>1. /\ worker'[w] = Raise(w, "FAILED", "other")
      /\ \A v \in Workers \ {w} : worker'[v] = worker[v]
      /\ UNCHANGED <<submit, inline, row, queue, copies>>
  BY LocalFrame DEF AnalysisFails
<1>2. /\ worker'[w].pc = "terminate" /\ worker'[w].scan = worker[w].scan
      /\ worker'[w].verdict = "FAILED" /\ worker'[w].error = "other"
  BY <1>1, HelperFields, DataKept DEF OnceInv, Terminal, Errors
<1>3. /\ UNCHANGED <<payload, engineRows, findings, reports>>
      /\ worker[w].pc = "endpoints"
  BY DEF AnalysisFails, At
<1>4. Running(w) /\ OnTrack(worker[w])
  BY <1>3 DEF OnceInv, Running
<1>5. Place(worker[w])' = "terminate"
  BY <1>2 DEF Place
<1>6. KnowsResult(worker[w])' /\ KnowsEngines(worker[w])'
  BY <1>5 DEF KnowsResult, KnowsEngines
<1>7. KnowsOutcome(worker[w])'
  BY <1>1, <1>2, <1>3, <1>4, <1>5 DEF OnTrack, KnowsOutcome
<1> QED
  BY <1>1, <1>4, <1>6, <1>7, OnceGoesOn DEF OnTrack

-----------------------------------------------------------------------------
(* The engine loop.                                                         *)

\* A stage leaves the row open and the tables alone.
LEMMA StageFrame ==
    ASSUME OnceInv, NEW w \in Workers, NEW new \in Worker,
           NEW status \in ScanStatus \ Terminal, NEW progress \in 0 .. 100,
           Stage(w, status, progress, new), Running(w)
    PROVE  /\ worker'[w].pc = new.pc /\ worker'[w].next = new.next
           /\ Data(worker'[w]) = Data(new)
           /\ worker'[w].scan.error \in OpenErrors
           /\ Open(row')
           /\ \A v \in Workers \ {w} : worker'[v] = worker[v]
           /\ UNCHANGED <<submit, inline, queue, copies>>
           /\ UNCHANGED <<payload, endpoints, engineRows, findings, reports>>
<1> DEFINE scan == Staged(w, status, progress)
<1>1. /\ scan \in Scan /\ scan.status = status /\ status # "COMPLETED"
      /\ scan.error = worker[w].scan.error
  <2>1. scan \in Scan /\ scan.status = status
    BY HelperFields DEF OnceInv
  <2>2. scan.error = worker[w].scan.error
    BY DEF Staged, OnceInv, TypeOK, Worker, Scan
  <2> QED
    BY <2>1, <2>2 DEF Terminal
<1>2. Commit(w, scan, new) /\ UNCHANGED tables
  BY DEF Stage
<1> HIDE DEF scan
<1>3. /\ worker'[w] = [new EXCEPT !.scan = scan]
      /\ \A v \in Workers \ {w} : worker'[v] = worker[v]
      /\ row' = Flush(row, worker[w].scan, scan)
      /\ UNCHANGED <<submit, inline, queue, copies>>
  BY <1>2 DEF Commit, broker, OnceInv, TypeOK
<1>4. /\ worker'[w].pc = new.pc /\ worker'[w].next = new.next /\ worker'[w].scan = scan
      /\ Data(worker'[w]) = Data(new)
  BY <1>3 DEF Worker, Data
<1>5. Open(row) /\ worker[w].scan.error \in OpenErrors
  BY DEF OnceInv, OnTrack, KnowsOutcome
<1>6. Open(row')
  <2>1. row \in Scan /\ worker[w].scan \in Scan
    BY DEF OnceInv, TypeOK, Worker
  <2> QED
    BY <1>1, <1>3, <1>5, <2>1, FlushOpen DEF Open
<1> QED
  BY <1>1, <1>2, <1>3, <1>4, <1>5, <1>6 DEF tables

LEMMA StartScanningOnce ==
    ASSUME OnceInv, NEW w \in Workers, StartScanning(w), TypeOK', Untouched'
    PROVE  OnceInv'
<1> DEFINE new == [CheckpointThen(w, "engine") EXCEPT !.index = 1]
<1>1. worker[w].pc = "context" /\ Stage(w, "SCANNING", 30, new)
  BY DEF StartScanning, At
<1>2. Running(w) /\ Place(worker[w]) = "context" /\ OnTrack(worker[w])
  BY <1>1 DEF Running, Place, OnceInv
<1>3. /\ new \in Worker /\ new.pc = "checkpoint" /\ new.next = "engine"
      /\ new.index = 1 /\ new.failed = worker[w].failed /\ new.found = worker[w].found
  <2>1. /\ CheckpointThen(w, "engine") \in Worker
        /\ CheckpointThen(w, "engine").pc = "checkpoint"
        /\ CheckpointThen(w, "engine").next = "engine"
        /\ Data(CheckpointThen(w, "engine")) = Data(worker[w])
    BY HelperFields, DataKept DEF OnceInv, Continuations
  <2>2. 1 \in 1 .. Len(Engines)
    BY EnginesAssumption
  <2> QED
    BY <2>1, <2>2, UpdateTyped DEF Data, Worker
<1> HIDE DEF new
<1>4. /\ worker'[w].pc = new.pc /\ worker'[w].next = new.next
      /\ Data(worker'[w]) = Data(new)
      /\ worker'[w].scan.error \in OpenErrors
      /\ Open(row')
      /\ \A v \in Workers \ {w} : worker'[v] = worker[v]
      /\ UNCHANGED <<submit, inline, queue, copies>>
      /\ UNCHANGED <<payload, endpoints, engineRows, findings, reports>>
  BY <1>1, <1>2, <1>3, StageFrame DEF ScanStatus, Terminal
<1>5. Place(worker[w])' = "engine" /\ worker'[w].index = 1
  BY <1>3, <1>4 DEF Place, Data
<1>6. KnowsResult(worker[w])' /\ KnowsEngines(worker[w])'
  BY <1>2, <1>3, <1>4, <1>5
     DEF OnTrack, Data, KnowsResult, KnowsEngines, AllSound
<1>7. KnowsOutcome(worker[w])'
  BY <1>2, <1>4, <1>5 DEF OnTrack, KnowsOutcome
<1> QED
  BY <1>2, <1>4, <1>6, <1>7, OnceGoesOn DEF OnTrack

LEMMA RunEngineOnce ==
    ASSUME OnceInv, NEW w \in Workers, NEW result \in Outcomes,
           RunEngine(w, result), TypeOK', Untouched'
    PROVE  OnceInv'
<1> DEFINE new == [worker[w] EXCEPT !.pc = "persist", !.result = result]
<1>1. /\ worker'[w] = new
      /\ \A v \in Workers \ {w} : worker'[v] = worker[v]
      /\ UNCHANGED <<submit, inline, row, queue, copies>>
  BY LocalFrame DEF RunEngine
<1>2. /\ new.pc = "persist" /\ new.result = result /\ new.scan = worker[w].scan
      /\ new.index = worker[w].index /\ new.failed = worker[w].failed
      /\ new.found = worker[w].found
  BY DEF OnceInv, TypeOK, Worker
<1>3. /\ UNCHANGED <<payload, endpoints, engineRows, findings, reports>>
      /\ worker[w].pc = "engine"
  BY DEF RunEngine, At, tables
<1>4. Running(w) /\ OnTrack(worker[w]) /\ Place(worker[w]) = "engine"
  BY <1>3 DEF OnceInv, Running, Place
<1>5. result.engine = Engines[worker[w].index]
  BY DEF RunEngine, CustomResults, ExternalResults, Result
<1> HIDE DEF new
<1>6. Place(worker[w])' = "persist"
  BY <1>1, <1>2 DEF Place
<1>7. KnowsResult(worker[w])'
  BY <1>1, <1>2, <1>3, <1>4, <1>5, <1>6 DEF OnTrack, KnowsResult
<1>8. KnowsEngines(worker[w])'
  BY <1>1, <1>2, <1>3, <1>4, <1>6 DEF OnTrack, KnowsEngines, HasRow, AllSound
<1>9. KnowsOutcome(worker[w])'
  BY <1>1, <1>2, <1>3, <1>4, <1>6 DEF OnTrack, KnowsOutcome
<1> QED
  BY <1>1, <1>4, <1>7, <1>8, <1>9, OnceGoesOn DEF OnTrack

LEMMA PersistOnce ==
    ASSUME OnceInv, NEW w \in Workers, PersistEngine(w), TypeOK', Untouched'
    PROVE  OnceInv'
<1> DEFINE result == worker[w].result
           pc == IF result.engine = "custom" THEN "baselines" ELSE "progress"
           failed == worker[w].failed \/ result.status \in {"FAILED", "TIMEOUT"}
           new == [worker[w] EXCEPT !.pc = pc, !.failed = failed]
<1>1. Local(w, new) /\ engineRows' = engineRows \union {result}
  BY DEF PersistEngine
<1>2. /\ worker'[w] = new
      /\ \A v \in Workers \ {w} : worker'[v] = worker[v]
      /\ UNCHANGED <<submit, inline, row, queue, copies>>
  BY <1>1, LocalFrame
<1>3. /\ new.pc = pc /\ new.failed = failed /\ new.result = result
      /\ new.scan = worker[w].scan /\ new.index = worker[w].index
      /\ new.found = worker[w].found
  BY DEF OnceInv, TypeOK, Worker
<1>4. /\ UNCHANGED <<payload, endpoints, findings, reports>>
      /\ worker[w].pc = "persist"
  BY DEF PersistEngine, At
<1>5. Running(w) /\ OnTrack(worker[w]) /\ Place(worker[w]) = "persist"
  BY <1>4 DEF OnceInv, Running, Place
<1>6. result.status \in {"COMPLETED", "SKIPPED"} \/ failed
  BY DEF OnceInv, TypeOK, Worker, EngineResult
<1>7. worker[w].index \in 1 .. Len(Engines)
  BY DEF OnceInv, TypeOK, Worker
<1> HIDE DEF new
<1>8. /\ Place(worker[w])' \in {"baselines", "progress"}
      /\ Place(worker[w])' = "baselines" => result.engine = "custom"
  BY <1>2, <1>3 DEF Place
<1>9. KnowsResult(worker[w])'
  BY <1>1, <1>2, <1>3, <1>4, <1>5, <1>8 DEF OnTrack, KnowsResult
<1>10. KnowsEngines(worker[w])'
  <2>1. \A i \in 1 .. Len(Engines) : i <= worker[w].index =>
          \E r \in engineRows' : r.engine = Engines[i]
    <3>1. \A i \in 1 .. Len(Engines) : i < worker[w].index =>
            \E r \in engineRows : r.engine = Engines[i]
      BY <1>5 DEF OnTrack, KnowsEngines, HasRow
    <3>2. result.engine = Engines[worker[w].index]
      BY <1>5 DEF OnTrack, KnowsResult
    <3>3. \A i \in 1 .. Len(Engines) :
            i <= worker[w].index => i < worker[w].index \/ i = worker[w].index
      BY <1>7
    <3> HIDE DEF result
    <3> QED
      BY <1>1, <3>1, <3>2, <3>3
  <2>2. ~ failed => \A r \in engineRows' : r.status \in {"COMPLETED", "SKIPPED"}
    BY <1>1, <1>5, <1>6 DEF OnTrack, KnowsEngines, AllSound
  <2> HIDE DEF result, failed
  <2> QED
    BY <1>2, <1>3, <1>8, <2>1, <2>2 DEF KnowsEngines, HasRow, AllSound
<1>11. KnowsOutcome(worker[w])'
  BY <1>2, <1>3, <1>4, <1>5, <1>8 DEF OnTrack, KnowsOutcome
<1> QED
  BY <1>2, <1>5, <1>9, <1>10, <1>11, OnceGoesOn DEF OnTrack

LEMMA BaselinesOnce ==
    ASSUME OnceInv, NEW w \in Workers, ApplyBaselines(w), TypeOK', Untouched'
    PROVE  OnceInv'
<1>1. /\ worker[w].pc = "baselines"
      /\ UNCHANGED <<payload, engineRows, findings, reports>>
  BY DEF ApplyBaselines, At
<1>2. Running(w) /\ OnTrack(worker[w]) /\ Place(worker[w]) = "baselines"
  BY <1>1 DEF OnceInv, Running, Place
<1>3. PICK tested \in Baselined(worker[w].result) :
         IF endpoints.origins = {}
         THEN /\ endpoints' = endpoints
              /\ Local(w, Goto(w, "progress"))
         ELSE /\ endpoints' = [endpoints EXCEPT !.tested = tested]
              /\ Local(w, IF tested = "none"
                          THEN Raise(w, "FAILED", "unreachable")
                          ELSE Goto(w, "progress"))
  BY DEF ApplyBaselines
<1>4. endpoints'.origins = endpoints.origins
  BY <1>3 DEF OnceInv, TypeOK
<1>5. CASE Local(w, Goto(w, "progress"))
  <2>1. /\ worker'[w] = Goto(w, "progress")
        /\ \A v \in Workers \ {w} : worker'[v] = worker[v]
        /\ UNCHANGED <<submit, inline, row, queue, copies>>
    BY <1>5, LocalFrame
  <2>2. /\ worker'[w].pc = "progress" /\ worker'[w].scan = worker[w].scan
        /\ Data(worker'[w]) = Data(worker[w])
    BY <2>1, HelperFields, DataKept, LocationsNamed DEF OnceInv
  <2>3. Place(worker[w])' = "progress"
    BY <2>2 DEF Place
  <2>4. KnowsResult(worker[w])' /\ KnowsEngines(worker[w])'
    BY <1>1, <1>2, <1>4, <2>2, <2>3
       DEF OnTrack, Data, KnowsResult, KnowsEngines,
           HasRow, AllSound
  <2>5. KnowsOutcome(worker[w])'
    BY <1>1, <1>2, <2>1, <2>2, <2>3 DEF OnTrack, KnowsOutcome
  <2> QED
    BY <1>2, <2>1, <2>4, <2>5, OnceGoesOn DEF OnTrack
<1>6. CASE /\ endpoints.origins # {} /\ tested = "none"
           /\ Local(w, Raise(w, "FAILED", "unreachable"))
  <2>1. /\ worker'[w] = Raise(w, "FAILED", "unreachable")
        /\ \A v \in Workers \ {w} : worker'[v] = worker[v]
        /\ UNCHANGED <<submit, inline, row, queue, copies>>
    BY <1>6, LocalFrame
  <2>2. /\ worker'[w].pc = "terminate" /\ worker'[w].scan = worker[w].scan
        /\ worker'[w].verdict = "FAILED" /\ worker'[w].error = "unreachable"
        /\ worker'[w].pending = "none"
    BY <2>1, HelperFields, DataKept DEF OnceInv, Terminal, Errors
  <2>3. Place(worker[w])' = "terminate"
    BY <2>2 DEF Place
  <2>4. KnowsResult(worker[w])' /\ KnowsEngines(worker[w])'
    BY <2>3 DEF KnowsResult, KnowsEngines
  <2>5. KnowsOutcome(worker[w])'
    BY <1>1, <1>2, <2>1, <2>2, <2>3 DEF OnTrack, KnowsOutcome
  <2> QED
    BY <1>2, <2>1, <2>4, <2>5, OnceGoesOn DEF OnTrack
<1> QED
  BY <1>3, <1>5, <1>6

LEMMA FinishOnce ==
    ASSUME OnceInv, NEW w \in Workers, FinishEngine(w), TypeOK', Untouched'
    PROVE  OnceInv'
<1> DEFINE i == worker[w].index
           again == [CheckpointThen(w, "engine") EXCEPT !.index = i + 1, !.result = NoResult]
           done == [Goto(w, "correlate") EXCEPT !.result = NoResult]
           new == IF i < Len(Engines) THEN again ELSE done
<1>1. worker[w].pc = "progress" /\ Stage(w, "SCANNING", Progress(i), new)
  BY DEF FinishEngine, At
<1>2. Running(w) /\ Place(worker[w]) = "progress" /\ OnTrack(worker[w])
  BY <1>1 DEF Running, Place, OnceInv
<1>3. i \in 1 .. Len(Engines) /\ Len(Engines) \in Nat /\ Progress(i) \in 0 .. 100
  <2>1. i \in 1 .. Len(Engines)
    BY DEF OnceInv, TypeOK, Worker
  <2> HIDE DEF i
  <2> QED
    BY <2>1, ProgressTyped, EnginesAssumption
<1>4. /\ new \in Worker /\ new.failed = worker[w].failed /\ new.found = worker[w].found
      /\ i < Len(Engines) => /\ new.pc = "checkpoint" /\ new.next = "engine"
                             /\ new.index = i + 1
      /\ ~ (i < Len(Engines)) => new.pc = "correlate"
  <2>1. CASE i < Len(Engines)
    <3>1. /\ CheckpointThen(w, "engine") \in Worker
          /\ CheckpointThen(w, "engine").pc = "checkpoint"
          /\ CheckpointThen(w, "engine").next = "engine"
          /\ Data(CheckpointThen(w, "engine")) = Data(worker[w])
      BY HelperFields, DataKept DEF OnceInv, Continuations
    <3>2. i + 1 \in 1 .. Len(Engines)
      BY <1>3, <2>1
    <3>3. again \in Worker
      BY <3>1, <3>2, ConstantsTyped, UpdateTyped
    <3>4. /\ again.pc = "checkpoint" /\ again.next = "engine" /\ again.index = i + 1
          /\ again.failed = worker[w].failed /\ again.found = worker[w].found
      BY <3>1 DEF Worker, Data
    <3> QED
      BY <2>1, <3>3, <3>4
  <2>2. CASE ~ (i < Len(Engines))
    <3>1. /\ Goto(w, "correlate") \in Worker /\ Goto(w, "correlate").pc = "correlate"
          /\ Data(Goto(w, "correlate")) = Data(worker[w])
      BY HelperFields, DataKept, LocationsNamed DEF OnceInv
    <3>2. /\ done \in Worker /\ done.pc = "correlate"
          /\ done.failed = worker[w].failed /\ done.found = worker[w].found
      BY <3>1, ConstantsTyped, UpdateTyped DEF Worker, Data
    <3> QED
      BY <2>2, <3>2
  <2> QED
    BY <2>1, <2>2
<1> HIDE DEF new, again, done
<1>5. /\ worker'[w].pc = new.pc /\ worker'[w].next = new.next
      /\ Data(worker'[w]) = Data(new)
      /\ worker'[w].scan.error \in OpenErrors
      /\ Open(row')
      /\ \A v \in Workers \ {w} : worker'[v] = worker[v]
      /\ UNCHANGED <<submit, inline, queue, copies>>
      /\ UNCHANGED <<payload, endpoints, engineRows, findings, reports>>
  BY <1>1, <1>2, <1>3, <1>4, StageFrame DEF ScanStatus, Terminal
<1>6. /\ worker'[w].failed = worker[w].failed
      /\ i < Len(Engines) => Place(worker[w])' = "engine" /\ worker'[w].index = i + 1
      /\ ~ (i < Len(Engines)) => Place(worker[w])' = "correlate"
  BY <1>4, <1>5 DEF Place, Data
<1>7. KnowsResult(worker[w])'
  BY <1>2, <1>4, <1>5, <1>6 DEF OnTrack, Data, KnowsResult
<1>8. KnowsEngines(worker[w])'
  <2>1. \A j \in 1 .. Len(Engines) : j <= i => HasRow(Engines[j])
    BY <1>2 DEF OnTrack, KnowsEngines
  <2>2. \A j \in 1 .. Len(Engines) :
          /\ j < i + 1 => HasRow(Engines[j])
          /\ ~ (i < Len(Engines)) => HasRow(Engines[j])
    BY <1>3, <2>1
  <2>3. ~ worker[w].failed => AllSound
    BY <1>2 DEF OnTrack, KnowsEngines
  <2> HIDE DEF i
  <2>4. CASE i < Len(Engines)
    BY <1>5, <1>6, <2>2, <2>3, <2>4 DEF KnowsEngines, HasRow, AllSound
  <2>5. CASE ~ (i < Len(Engines))
    BY <1>5, <1>6, <2>2, <2>3, <2>5 DEF KnowsEngines, HasRow, AllSound
  <2> QED
    BY <2>4, <2>5
<1>9. KnowsOutcome(worker[w])'
  <2>1. Place(worker[w])' \in {"engine", "correlate"}
    BY <1>6
  <2> QED
    BY <1>2, <1>5, <2>1 DEF OnTrack, KnowsOutcome
<1> QED
  BY <1>2, <1>5, <1>7, <1>8, <1>9, OnceGoesOn DEF OnTrack

-----------------------------------------------------------------------------
(* The findings, the verdict and the end.                                   *)

LEMMA SaveFindingsOnce ==
    ASSUME OnceInv, NEW w \in Workers, SaveFindings(w), TypeOK', Untouched'
    PROVE  OnceInv'
<1>1. /\ worker[w].pc = "findings"
      /\ UNCHANGED <<payload, engineRows, reports>>
  BY DEF SaveFindings, At
<1>2. Running(w) /\ OnTrack(worker[w]) /\ Place(worker[w]) = "findings"
  BY <1>1 DEF OnceInv, Running, Place
<1>3. PICK tested \in Shares :
         /\ endpoints'.origins = endpoints.origins
         /\ tested = "all" => endpoints'.tested = "all"
         /\ Local(w, [CheckpointThen(w, "reporting") EXCEPT !.tested = tested])
  <2>1. PICK custom \in engineRows : \E tested \in Baselined(custom) :
           IF endpoints.origins = {}
           THEN /\ endpoints' = endpoints
                /\ Local(w, [CheckpointThen(w, "reporting") EXCEPT !.tested = "none"])
           ELSE /\ endpoints' = [endpoints EXCEPT !.tested = tested]
                /\ Local(w, [CheckpointThen(w, "reporting") EXCEPT !.tested = tested])
    BY DEF SaveFindings
  <2>2. Baselined(custom) \subseteq Shares /\ "none" \in Shares
    BY DEF Baselined, OnceInv, TypeOK, EngineResult, Shares
  <2> QED
    BY <2>1, <2>2 DEF OnceInv, TypeOK
<1> DEFINE new == [CheckpointThen(w, "reporting") EXCEPT !.tested = tested]
<1>4. /\ new.pc = "checkpoint" /\ new.next = "reporting" /\ new.scan = worker[w].scan
      /\ new.failed = worker[w].failed /\ new.tested = tested
  BY DEF CheckpointThen, OnceInv, TypeOK, Worker
<1>5. /\ worker'[w] = new
      /\ \A v \in Workers \ {w} : worker'[v] = worker[v]
      /\ UNCHANGED <<submit, inline, row, queue, copies>>
  BY <1>3, LocalFrame
<1> HIDE DEF new
<1>6. Place(worker[w])' = "reporting"
  BY <1>4, <1>5 DEF Place
<1>7. KnowsResult(worker[w])'
  BY <1>6 DEF KnowsResult
<1>8. KnowsEngines(worker[w])'
  BY <1>1, <1>2, <1>3, <1>4, <1>5, <1>6 DEF OnTrack, KnowsEngines, HasRow, AllSound
<1>9. KnowsOutcome(worker[w])'
  BY <1>1, <1>2, <1>4, <1>5, <1>6 DEF OnTrack, KnowsOutcome
<1> QED
  BY <1>2, <1>5, <1>7, <1>8, <1>9, OnceGoesOn DEF OnTrack

LEMMA AssessOnce ==
    ASSUME OnceInv, NEW w \in Workers, Assess(w), TypeOK', Untouched'
    PROVE  OnceInv'
<1> DEFINE verdict == IF worker[w].failed \/ Assessment(worker[w].tested) # "COMPLETE"
                      THEN "PARTIAL" ELSE "COMPLETED"
           new == [worker[w] EXCEPT !.pc = "publish", !.verdict = verdict]
<1>1. /\ worker[w].pc = "assess" /\ Local(w, new)
      /\ UNCHANGED <<payload, endpoints, engineRows, findings, reports>>
  BY DEF Assess, At, tables
<1>2. Running(w) /\ OnTrack(worker[w]) /\ Place(worker[w]) = "assess"
  BY <1>1 DEF OnceInv, Running, Place
<1>3. /\ worker'[w] = new
      /\ \A v \in Workers \ {w} : worker'[v] = worker[v]
      /\ UNCHANGED <<submit, inline, row, queue, copies>>
  BY <1>1, LocalFrame
<1>4. new.pc = "publish" /\ new.verdict = verdict /\ new.scan = worker[w].scan
  BY DEF OnceInv, TypeOK, Worker
<1>5. verdict = "COMPLETED" => Clean
  <2> SUFFICES ASSUME ~ worker[w].failed, Assessment(worker[w].tested) = "COMPLETE"
               PROVE  Clean
    OBVIOUS
  <2>1. worker[w].tested \in {"none", "some", "all"}
    BY DEF OnceInv, TypeOK, Worker, Shares
  <2>2. worker[w].tested = "all" /\ \A r \in engineRows : ~ r.gap
    BY <2>1 DEF Assessment
  <2> QED
    BY <1>2, <2>2 DEF OnTrack, KnowsEngines, Clean
<1> HIDE DEF new, verdict
<1>6. Place(worker[w])' = "publish"
  BY <1>3, <1>4 DEF Place
<1>7. KnowsResult(worker[w])'
  BY <1>6 DEF KnowsResult
<1>8. KnowsEngines(worker[w])'
  BY <1>1, <1>3, <1>4, <1>5, <1>6 DEF KnowsEngines, Clean, HasRow, AllSound
<1>9. KnowsOutcome(worker[w])'
  BY <1>1, <1>2, <1>3, <1>4, <1>6 DEF OnTrack, KnowsOutcome
<1> QED
  BY <1>2, <1>3, <1>7, <1>8, <1>9, OnceGoesOn DEF OnTrack

\* The last commit of a worker.
LEMMA EndFrame ==
    ASSUME OnceInv, NEW w \in Workers, Running(w), NEW scan,
           Commit(w, scan, [IdleWorker EXCEPT !.pc = "ack"])
    PROVE  /\ worker'[w].pc = "ack"
           /\ \A v \in Workers \ {w} : worker'[v] = worker[v]
           /\ row' = Flush(row, worker[w].scan, scan)
           /\ UNCHANGED <<submit, inline, queue, copies>>
           /\ row \in Scan /\ worker[w] \in Worker /\ worker[w].scan \in Scan
           /\ Open(row) /\ worker[w].scan.error \in OpenErrors
BY DEF Commit, broker, IdleWorker, OnceInv, TypeOK, Worker, OnTrack, KnowsOutcome

LEMMA PublishOnce ==
    ASSUME OnceInv, NEW w \in Workers, Publish(w), TypeOK', Untouched'
    PROVE  OnceInv'
<1> DEFINE scan == [worker[w].scan EXCEPT !.status = worker[w].verdict, !.progress = 100,
                                          !.finished = TRUE]
<1>1. /\ worker[w].pc = "publish" /\ Commit(w, scan, [IdleWorker EXCEPT !.pc = "ack"])
      /\ UNCHANGED <<payload, endpoints, engineRows, findings>>
  BY DEF Publish, At
<1>2. Running(w) /\ OnTrack(worker[w]) /\ Place(worker[w]) = "publish"
  BY <1>1 DEF OnceInv, Running, Place
<1>3. /\ worker'[w].pc = "ack"
      /\ \A v \in Workers \ {w} : worker'[v] = worker[v]
      /\ row' = Flush(row, worker[w].scan, scan)
      /\ UNCHANGED <<submit, inline, queue, copies>>
      /\ row \in Scan /\ worker[w] \in Worker /\ worker[w].scan \in Scan
      /\ Open(row)
  BY <1>1, <1>2, EndFrame
<1>4. /\ scan \in Scan /\ scan.error = worker[w].scan.error
      /\ scan.status = worker[w].verdict
  <2>1. worker[w].verdict \in ScanStatus /\ 100 \in 0 .. 100
    BY <1>3 DEF Worker, ScanStatus
  <2> QED
    BY <1>3, <2>1 DEF Scan
<1> HIDE DEF scan
<1>5. row'.error = row.error /\ row'.status \in {row.status, worker[w].verdict}
  BY <1>3, <1>4, FlushOpen
<1>6. row'.status = "COMPLETED" => Clean'
  BY <1>1, <1>2, <1>3, <1>5 DEF Open, OnTrack, KnowsEngines, Clean, HasRow, AllSound
<1>7. Promised'
  BY <1>3, <1>5, <1>6
     DEF Open, OpenErrors, Promised, NothingPublishedOnFailure
<1> QED
  BY <1>1, <1>3, <1>7, OnceEnds

LEMMA TerminateOnce ==
    ASSUME OnceInv, NEW w \in Workers, Terminate(w), TypeOK', Untouched'
    PROVE  OnceInv'
<1> DEFINE scan == [worker[w].scan EXCEPT !.status = worker[w].verdict,
                                          !.error = worker[w].error, !.finished = TRUE]
<1>1. /\ worker[w].pc = "terminate" /\ Commit(w, scan, [IdleWorker EXCEPT !.pc = "ack"])
      /\ UNCHANGED <<engineRows, reports>>
      /\ worker[w].pending = "none" => findings' = findings
  BY DEF Terminate, At
<1>2. Running(w) /\ OnTrack(worker[w]) /\ Place(worker[w]) = "terminate"
  BY <1>1 DEF OnceInv, Running, Place
<1>3. /\ worker'[w].pc = "ack"
      /\ \A v \in Workers \ {w} : worker'[v] = worker[v]
      /\ row' = Flush(row, worker[w].scan, scan)
      /\ UNCHANGED <<submit, inline, queue, copies>>
      /\ row \in Scan /\ worker[w] \in Worker /\ worker[w].scan \in Scan
      /\ Open(row)
  BY <1>1, <1>2, EndFrame
<1>4. /\ scan \in Scan /\ scan.error = worker[w].error
      /\ scan.status = worker[w].verdict
  <2>1. worker[w].verdict \in ScanStatus /\ worker[w].error \in Errors
    BY <1>3 DEF Worker, ScanStatus
  <2> QED
    BY <1>3, <2>1 DEF Scan
<1> HIDE DEF scan
<1>5. row'.error \in {row.error, worker[w].error}
      /\ row'.status \in {row.status, worker[w].verdict}
  BY <1>3, <1>4, FlushOpen
<1>6. row'.status # "COMPLETED" /\ reports' = 0
  BY <1>1, <1>2, <1>3, <1>5 DEF Open, OnTrack, KnowsOutcome
<1>7. row'.error = "unreachable" => findings' = 0
  BY <1>1, <1>2, <1>3, <1>5 DEF Open, OpenErrors, OnTrack, KnowsOutcome
<1>8. Promised'
  BY <1>6, <1>7
     DEF Promised, NothingPublishedOnFailure
<1> QED
  BY <1>1, <1>3, <1>8, OnceEnds

LEMMA AcknowledgeOnce ==
    ASSUME OnceInv, NEW w \in Workers, Acknowledge(w), TypeOK', Untouched'
    PROVE  OnceInv'
<1>1. /\ worker[w].pc = "ack" /\ worker'[w] = IdleWorker
      /\ \A v \in Workers \ {w} : worker'[v] = worker[v]
      /\ UNCHANGED <<submit, inline, row, queue, copies>>
  BY LocalFrame DEF Acknowledge, At
<1>2. worker'[w].pc = "idle"
  BY <1>1 DEF IdleWorker
<1>3. Promised'
  BY <1>1 DEF Acknowledge, tables, OnceInv, Promised,
     NothingPublishedOnFailure, Clean, HasRow, AllSound
<1> QED
  BY <1>1, <1>2, <1>3, OnceEnds

-----------------------------------------------------------------------------
(* Every step.                                                              *)

\* A status that takes the worker on to the next statement.
LEMMA OnwardOnce ==
    ASSUME OnceInv, NEW w \in Workers, NEW from \in Locations, NEW to \in Locations,
           NEW status \in ScanStatus \ Terminal, NEW progress \in 0 .. 100,
           At(w, from), Stage(w, status, progress, Goto(w, to)), <<from, to>> \in Onward,
           TypeOK', Untouched'
    PROVE  OnceInv'
<1>1. TypeOK
  BY DEF OnceInv
<1>2. /\ Goto(w, to) \in Worker /\ Goto(w, to).pc = to
      /\ Data(Goto(w, to)) = Data(worker[w])
  BY <1>1, HelperFields, DataKept
<1>3. Running(w) /\ Place(worker[w]) = from /\ Place(worker[w]) # "terminate"
  BY DEF At, Onward, Running, Place
<1>4. Place(Goto(w, to)) = to
  BY <1>2 DEF Onward, Place
<1> QED
  BY <1>2, <1>3, <1>4, StageOnce

LEMMA WorkerOnce ==
    ASSUME Once, OnceInv, NEW w \in Workers, WorkerStep(w), TypeOK', Untouched'
    PROVE  OnceInv'
<1>a. TypeOK /\ worker[w] \in Worker /\ worker[w].scan \in Scan
  BY DEF OnceInv, TypeOK, Worker
<1>b. /\ \A location \in Locations :
           /\ Goto(w, location) \in Worker /\ Goto(w, location).pc = location
           /\ Goto(w, location).next = worker[w].next
           /\ Goto(w, location).scan = worker[w].scan
           /\ Data(Goto(w, location)) = Data(worker[w])
      /\ \A next \in Continuations :
           /\ CheckpointThen(w, next) \in Worker /\ CheckpointThen(w, next).pc = "checkpoint"
           /\ CheckpointThen(w, next).next = next
           /\ CheckpointThen(w, next).scan = worker[w].scan
           /\ Data(CheckpointThen(w, next)) = Data(worker[w])
      /\ \A status \in Terminal, error \in Errors :
           /\ Raise(w, status, error) \in Worker /\ Raise(w, status, error).pc = "terminate"
           /\ Raise(w, status, error).verdict = status
           /\ Raise(w, status, error).error = error
           /\ Raise(w, status, error).scan = worker[w].scan
  BY <1>a, HelperFields, DataKept
<1>c. Running(w) => worker[w].scan.error \in OpenErrors
  BY DEF OnceInv, OnTrack, KnowsOutcome
<1>1. CASE StepFails(w)
  <2>1. Running(w)
    BY <1>1 DEF StepFails, Running
  <2>2. PICK new \in Worker : /\ Local(w, new) /\ UNCHANGED tables
                            /\ new.pc = "terminate" /\ new.scan = worker[w].scan
                            /\ new.verdict = "FAILED" /\ new.error = "other"
    BY <1>1, <1>a, Failing
  <2> QED
    BY <1>c, <2>1, <2>2, LocalOnce
<1>2. CASE Receive(w)
  BY <1>2, ReceiveOnce
<1>3. CASE Discard(w)
  <2>1. queue = 1 /\ copies = 1 /\ Fresh
    BY <1>3 DEF Discard, OnceInv, OneDelivery, TypeOK
  <2>2. \A v \in Workers : worker[v].pc = "idle"
    BY <2>1 DEF OnceInv, OneDelivery
  <2>3. queue' = 0 /\ UNCHANGED <<submit, inline, row, tables, copies, worker>>
    BY <1>3, <2>1 DEF Discard
  <2>4. OneDelivery'
    BY <2>1, <2>2, <2>3 DEF OnceInv, OneDelivery
  <2>5. Promised'
    BY <2>3 DEF tables, OnceInv, Promised, NothingPublishedOnFailure, Clean, HasRow, AllSound
  <2> QED
    BY <2>1, <2>2, <2>3, <2>4, <2>5 DEF OnceInv, Running
<1>4. CASE Initialize(w)
  BY <1>4, OnwardOnce, LocationsNamed DEF Initialize, Onward, ScanStatus, Terminal
<1>5. CASE ValidateTarget(w)
  BY <1>5, <1>b, <1>c, LocalOnce
     DEF ValidateTarget, At, Running, Place, Onward, Continuations
<1>6. CASE CheckpointCancelled(w)
  BY <1>6, <1>b, RefreshOnce DEF CheckpointCancelled, Terminal, Errors
<1>7. CASE CheckpointTimedOut(w)
  BY <1>7, <1>b, RefreshOnce DEF CheckpointTimedOut, Terminal, Errors
<1>8. CASE CheckpointPassed(w)
  <2>1. worker[w].next \in Continuations /\ worker[w].pc = "checkpoint"
    BY <1>8, <1>a DEF CheckpointPassed, Refreshed, At, Worker
  <2>2. Place(Goto(w, worker[w].next)) = Place(worker[w])
    BY <2>1, <1>b, LocationsNamed DEF Place, Continuations
  <2> QED
    BY <1>8, <1>b, <2>1, <2>2, RefreshOnce, LocationsNamed DEF CheckpointPassed
<1>9. CASE CheckpointResumes(w)
  BY <1>9, <1>b, RefreshOnce, LocationsNamed DEF CheckpointResumes, Refreshed, At, Place
<1>10. CASE ResumeCommit(w)
  <2>1. worker[w].next \in Continuations /\ worker[w].pc = "resuming"
    BY <1>10, <1>a DEF ResumeCommit, At, Worker
  <2>2. /\ Place(Goto(w, worker[w].next)) = Place(worker[w])
        /\ Place(worker[w]) # "terminate"
    BY <2>1, <1>b, LocationsNamed DEF Place, Continuations
  <2>3. /\ [worker[w].scan EXCEPT !.status = "SCANNING"] \in Scan
        /\ [worker[w].scan EXCEPT !.status = "SCANNING"].status = "SCANNING"
        /\ [worker[w].scan EXCEPT !.status = "SCANNING"].error = worker[w].scan.error
    BY <1>a DEF Scan, ScanStatus
  <2>4. Goto(w, worker[w].next) \in Worker /\ Data(Goto(w, worker[w].next)) = Data(worker[w])
    BY <1>b, <2>1, LocationsNamed DEF Continuations
  <2>5. /\ Commit(w, [worker[w].scan EXCEPT !.status = "SCANNING"], Goto(w, worker[w].next))
        /\ UNCHANGED tables /\ Running(w)
    BY <1>10, <2>1 DEF ResumeCommit, Running
  <2> QED
    BY <2>2, <2>3, <2>4, <2>5, CommitOnce
<1>11. CASE CheckpointPauses(w)
  BY <1>11, <1>b, RefreshOnce, LocationsNamed DEF CheckpointPauses, Refreshed, At, Place
<1>12. CASE PauseCommit(w)
  <2>1. worker[w].next \in Continuations /\ worker[w].pc = "pausing"
    BY <1>12, <1>a DEF PauseCommit, At, Worker
  <2>2. /\ Place(Goto(w, "checkpoint")) = Place(worker[w])
        /\ Place(worker[w]) # "terminate"
    BY <2>1, <1>b, LocationsNamed DEF Place, Continuations
  <2>3. /\ [worker[w].scan EXCEPT !.status = "PAUSED"] \in Scan
        /\ [worker[w].scan EXCEPT !.status = "PAUSED"].status = "PAUSED"
        /\ [worker[w].scan EXCEPT !.status = "PAUSED"].error = worker[w].scan.error
    BY <1>a DEF Scan, ScanStatus
  <2>4. Goto(w, "checkpoint") \in Worker /\ Data(Goto(w, "checkpoint")) = Data(worker[w])
    BY <1>b, <2>1, LocationsNamed DEF Continuations
  <2>5. /\ Commit(w, [worker[w].scan EXCEPT !.status = "PAUSED"], Goto(w, "checkpoint"))
        /\ UNCHANGED tables /\ Running(w)
    BY <1>12, <2>1 DEF PauseCommit, Running
  <2> QED
    BY <2>2, <2>3, <2>4, <2>5, CommitOnce
<1>13. CASE StartDiscovery(w)
  BY <1>13, OnwardOnce, LocationsNamed DEF StartDiscovery, Onward, ScanStatus, Terminal
<1>14. CASE \E some \in BOOLEAN : BuildInventory(w, some)
  BY <1>14, BuildOnce
<1>15. CASE ConsumePayload(w)
  BY <1>15, ConsumeOnce
<1>16. CASE SaveEndpoints(w)
  BY <1>16, SaveEndpointsOnce
<1>17. CASE StartScanning(w)
  BY <1>17, StartScanningOnce
<1>18. CASE \E result \in Outcomes : RunEngine(w, result)
  BY <1>18, RunEngineOnce
<1>19. CASE PersistEngine(w)
  BY <1>19, PersistOnce
<1>20. CASE ApplyBaselines(w)
  BY <1>20, BaselinesOnce
<1>21. CASE FinishEngine(w)
  BY <1>21, FinishOnce
<1>22. CASE StartCorrelation(w)
  BY <1>22, OnwardOnce, LocationsNamed DEF StartCorrelation, Onward, ScanStatus, Terminal
<1>23. CASE SaveFindings(w)
  BY <1>23, SaveFindingsOnce
<1>24. CASE StartReporting(w)
  BY <1>24, OnwardOnce, LocationsNamed DEF StartReporting, Onward, ScanStatus, Terminal
<1>25. CASE Assess(w)
  BY <1>25, AssessOnce
<1>26. CASE Publish(w)
  BY <1>26, PublishOnce
<1>27. CASE Terminate(w)
  BY <1>27, TerminateOnce
<1>28. CASE Acknowledge(w)
  BY <1>28, AcknowledgeOnce
<1>29. CASE AnalysisFails(w)
  BY <1>29, AnalysisFailsOnce
<1> QED
  BY <1>1, <1>2, <1>3, <1>4, <1>5, <1>6, <1>7, <1>8, <1>9, <1>10, <1>11, <1>12, <1>13,
     <1>14, <1>15, <1>16, <1>17, <1>18, <1>19, <1>20, <1>21, <1>22, <1>23, <1>24, <1>25,
     <1>26, <1>27, <1>28, <1>29
     DEF WorkerStep

\* A commit to the row from outside the worker: an open row stays open, and one that has
\* ended keeps its error and does not become COMPLETED.
LEMMA OutsideOnce ==
    ASSUME OnceInv, TypeOK', Untouched', OneDelivery',
           UNCHANGED <<inline, tables, worker>>,
           queue' = copies' => queue = copies,
           Open(row) => Open(row'),
           row'.error = row.error \/ row'.error = "dispatch",
           row'.status = "COMPLETED" => row.status = "COMPLETED"
    PROVE  OnceInv'
<1>1. queue' = copies' => Fresh'
  BY DEF OnceInv, Fresh, tables
<1>2. ASSUME NEW w \in Workers, Running(w)' PROVE OnTrack(worker[w])'
  <2>1. OnTrack(worker[w])
    BY <1>2 DEF OnceInv, Running
  <2>2. UNCHANGED <<inline, payload, endpoints, engineRows, findings, reports,
                    worker>>
    BY DEF tables
  <2>3. Place(worker[w])' = Place(worker[w])
    BY <2>2 DEF Place
  <2>4. KnowsResult(worker[w])'
    BY <2>1, <2>2, <2>3 DEF OnTrack, KnowsResult
  <2>5. KnowsEngines(worker[w])'
    BY <2>1, <2>2, <2>3 DEF OnTrack, KnowsEngines, HasRow, AllSound, Clean
  <2>6. KnowsOutcome(worker[w])'
    BY <2>1, <2>2, <2>3 DEF OnTrack, KnowsOutcome
  <2> QED
    BY <2>4, <2>5, <2>6 DEF OnTrack
<1>3. Promised'
  BY DEF tables, OnceInv, Promised, NothingPublishedOnFailure,
         Clean, HasRow, AllSound
<1> QED
  BY <1>1, <1>2, <1>3 DEF OnceInv

LEMMA ControlOnce ==
    ASSUME OnceInv, NEW c \in Controls, ControlRequest(c), TypeOK', Untouched'
    PROVE  OnceInv'
<1>1. UNCHANGED <<submit, inline, tables, queue, copies, worker>>
  BY DEF ControlRequest, ControlRead, ControlCommit, broker
<1>2. OneDelivery'
  BY <1>1 DEF OnceInv, OneDelivery
<1>3. row' = row \/ (row'.error = row.error /\ row'.status \in {row.status, "CANCELLED"})
  <2>1. CASE \E action \in Actions : ControlRead(c, action)
    BY <2>1 DEF ControlRead
  <2>2. CASE ControlCommit(c)
    <3> DEFINE loaded == control[c].loaded
               new == Requested(control[c].action, loaded)
    <3>1. loaded \in Scan /\ control[c].action \in Actions /\ row \in Scan
      BY DEF OnceInv, TypeOK, Control
    <3>2. new \in Scan /\ row' = Flush(row, loaded, new)
      BY <2>2, <3>1, RequestedTyped DEF ControlCommit
    <3>3. new.error = loaded.error /\ new.status \in {loaded.status, "CANCELLED"}
      BY <3>1 DEF Requested, Actions, Scan
    <3> HIDE DEF new, loaded
    <3>4. /\ row'.error = row.error
          /\ new.status = loaded.status => row'.status = row.status
          /\ row'.status \in {row.status, new.status}
      BY <3>1, <3>2, <3>3, FlushOpen, FlushColumns
    <3> QED
      BY <3>3, <3>4
  <2> QED
    BY <2>1, <2>2 DEF ControlRequest
<1> QED
  BY <1>1, <1>2, <1>3, OutsideOnce DEF Open

LEMMA SubmissionOnce ==
    ASSUME OnceInv, Submission, TypeOK', Untouched'
    PROVE  OnceInv'
<1>1. submit \in {"start", "saved"}
  BY DEF Submission, RejectRequest, CreateScan, Dispatch, DispatchFails
<1>2. /\ copies = 0 /\ queue = 0 /\ Fresh
      /\ \A w \in Workers : worker[w].pc = "idle"
  BY <1>1 DEF OnceInv, OneDelivery, TypeOK
<1>3. UNCHANGED <<endpoints, engineRows, findings, reports, worker>>
  BY DEF Submission, RejectRequest, CreateScan, Dispatch, DispatchFails, tables
<1>4. row' = row \/ row' = QueuedScan \/ Open(row')
  <2>1. CASE RejectRequest \/ (\E document \in BOOLEAN : CreateScan(document)) \/ Dispatch
    BY <1>2, <2>1 DEF RejectRequest, CreateScan, Dispatch, tables, Fresh
  <2>2. CASE \E published \in BOOLEAN : DispatchFails(published)
    <3> DEFINE failed == [QueuedScan EXCEPT !.status = "FAILED", !.error = "dispatch"]
    <3>1. failed \in Scan /\ failed.status = "FAILED" /\ failed.error = "dispatch"
      BY ConstantsTyped DEF Scan, ScanStatus, Terminal, Errors
    <3>2. row' = Flush(row, QueuedScan, failed) /\ row \in Scan
      BY <2>2 DEF DispatchFails, OnceInv, TypeOK
    <3> HIDE DEF failed
    <3>3. row'.error \in {row.error, "dispatch"} /\ row'.status \in {row.status, "FAILED"}
      BY <3>1, <3>2, FlushOpen, ConstantsTyped
    <3> QED
      BY <1>2, <2>2, <3>3 DEF Fresh, Open, OpenErrors, DispatchFails, tables
  <2> QED
    BY <2>1, <2>2 DEF Submission
<1>5. Open(row')
  BY <1>2, <1>4 DEF Fresh, Open, OpenErrors, QueuedScan
<1>6. /\ \/ queue' = 0 /\ copies' = 0
         \/ queue' = 1 /\ copies' = 1 /\ submit' \in {"accepted", "unavailable"}
  BY <1>2 DEF Submission, RejectRequest, CreateScan, Dispatch, DispatchFails, Enqueue, broker
<1>7. OneDelivery'
  BY <1>2, <1>3, <1>6 DEF OneDelivery
<1>8. Fresh' /\ Promised'
  BY <1>2, <1>3, <1>4, <1>5
     DEF Fresh, Open, OpenErrors, Promised, NothingPublishedOnFailure
<1>9. \A w \in Workers : ~ Running(w)'
  BY <1>2, <1>3 DEF Running
<1> QED
  BY <1>7, <1>8, <1>9 DEF OnceInv

LEMMA EnvironmentOnce ==
    ASSUME Once, OnceInv, Environment, TypeOK', Untouched'
    PROVE  OnceInv'
<1>1. ASSUME NEW w \in Workers, DeadlinePasses(w) PROVE OnceInv'
  <2> DEFINE new == [worker[w] EXCEPT !.expired = TRUE]
  <2>1. Local(w, new) /\ UNCHANGED tables
    BY <1>1 DEF DeadlinePasses
  <2>2. Data(new) = Data(worker[w]) /\ Place(new) = Place(worker[w])
        /\ new.scan = worker[w].scan
    BY DEF OnceInv, TypeOK, Worker, Data, Place
  <2>3. Running(w) /\ Place(worker[w]) # "terminate"
    BY <1>1 DEF DeadlinePasses, Running, Place, OnceInv, TypeOK, Worker, Continuations
  <2>4. worker[w].scan.error \in OpenErrors
    BY <2>3 DEF OnceInv, OnTrack, KnowsOutcome
  <2> HIDE DEF new
  <2> QED
    BY <2>1, <2>2, <2>3, <2>4, LocalOnce
<1>2. ~ Redeliver
  BY DEF Once, Redeliver, OnceInv, TypeOK
<1>3. \A kind : ~ Fault(kind)
  BY DEF Once, Fault, OnceInv, TypeOK, FaultsSoFar, FaultKinds
<1> QED
  BY <1>1, <1>2, <1>3 DEF Environment, ApiLost, WorkerLost, Abandon

LEMMA StepOnce == ASSUME Once, OnceInv, [Next]_vars PROVE OnceInv'
<1>1. TypeOK' /\ Untouched'
  BY StepTyped, UntouchedStep DEF OnceInv
<1>2. CASE UNCHANGED vars
  <2>1. UNCHANGED <<submit, inline, row, tables, queue, copies, worker>>
    BY <1>2 DEF vars, broker
  <2>2. OneDelivery'
    BY <2>1 DEF OnceInv, OneDelivery
  <2> QED
    BY <1>1, <2>1, <2>2, OutsideOnce
<1> QED
  BY <1>1, <1>2, SubmissionOnce, ControlOnce, WorkerOnce, EnvironmentOnce
     DEF Next, Quiescent

LEMMA InitOnce == Init => OnceInv
<1> SUFFICES ASSUME Init PROVE OnceInv
  OBVIOUS
<1>1. TypeOK /\ Untouched
  BY InitTyped, UntouchedInit
<1>2. \A w \in Workers : worker[w].pc = "idle"
  BY DEF Init, IdleWorker
<1>3. OneDelivery /\ \A w \in Workers : ~ Running(w)
  BY <1>2 DEF Init, OneDelivery, Running
<1>4. Open(row)
  BY DEF Init, QueuedScan, Open, OpenErrors
<1>5. Fresh
  BY <1>4 DEF Init, Fresh
<1> QED
  BY <1>1, <1>3, <1>4, <1>5, OpenPromises DEF OnceInv

LEMMA OnceAlways == ASSUME Once PROVE Spec => []OnceInv
<1>1. OnceInv /\ [Next]_vars => OnceInv'
  BY StepOnce
<1> QED
  BY <1>1, InitOnce, PTL DEF Spec

-----------------------------------------------------------------------------
(* The theorems, for any workers, requests, engines and results.            *)

\* A scan that its worker ended as cancelled, timed out, unreachable or failed has no
\* report, and an unreachable target no finding either (run, _terminate).
THEOREM FailuresPublishNothing == ASSUME Once PROVE Spec => []NothingPublishedOnFailure
<1>1. OnceInv => NothingPublishedOnFailure
  BY DEF OnceInv, Promised
<1> QED
  BY <1>1, OnceAlways, PTL

\* COMPLETED means that every engine of the list has its row, none failed or timed out,
\* every endpoint was reached and no applicable runtime check was left out (run,
\* calculate_coverage).
THEOREM CompletionIsClean == ASSUME Once PROVE Spec => []CompletedIsClean
<1>1. OnceInv => CompletedIsClean
  <2> SUFFICES ASSUME OnceInv, row.status = "COMPLETED"
               PROVE  /\ endpoints.tested = "all"
                      /\ {r.engine : r \in engineRows} = EngineNames
                      /\ \A r \in engineRows : r.status \in {"COMPLETED", "SKIPPED"} /\ ~ r.gap
    BY DEF CompletedIsClean
  <2>1. Clean /\ engineRows \subseteq EngineResult
    BY DEF OnceInv, Promised, TypeOK
  <2>2. {r.engine : r \in engineRows} = EngineNames
    BY <2>1 DEF Clean, HasRow, EngineNames, EngineResult
  <2> QED
    BY <2>1, <2>2 DEF Clean, AllSound
<1> QED
  BY <1>1, OnceAlways, PTL
-----------------------------------------------------------------------------
(* The lifecycle.  One delivery of a scan implements ScanJob: the status of *)
(* the row is that of the worker's own copy, unless an outcome that was     *)
(* decided while the scan waited has come over it, so that whatever the     *)
(* worker commits next is the status of a phase that follows the one shown. *)

Late == {"CANCELLED", "FAILED"}

\* Before a worker has the message only an outcome can have come over QUEUED, and every
\* request that is under way has read QUEUED.
Undecided ==
    queue = copies =>
        /\ row.status \in {"QUEUED"} \union Late
        /\ row.cancel => row.status # "QUEUED"
        /\ \A c \in Controls : control[c].state = "read" => control[c].loaded.status = "QUEUED"

\* What the row shows is what the worker wrote or read last, or came late; and what the
\* worker holds fits the statement it is at.
Told(local) ==
    /\ row.status \in {local.scan.status} \union Late
    /\ local.scan.status \notin {"COMPLETED", "PARTIAL"}
    /\ local.pc \in {"engine", "persist", "baselines", "progress"} =>
         local.scan.status \in {"SCANNING"} \union Late
    /\ local.pc \in {"checkpoint", "pausing"} /\ local.next = "engine" =>
         local.scan.status \in {"SCANNING", "PAUSED"} \union Late
    /\ local.pc = "resuming" => local.scan.status = "PAUSED"
    /\ local.pc = "publish" => local.verdict \in {"COMPLETED", "PARTIAL"}
    /\ local.pc = "terminate" => local.verdict \in {"FAILED", "CANCELLED", "TIMEOUT"}

ToldInv == Undecided /\ \A w \in Workers : Running(w) => Told(worker[w])

\* A step of the scan is a step of the job, or is not seen.
JobStep == [Job!Next]_<<Phase, row.status, reports > 0, LateDecisions>>

-----------------------------------------------------------------------------
(* The mapping.                                                             *)

\* The phase is that of the worker that has the message.
PhaseFits == \A w \in Workers : worker[w].pc # "idle" => Phase = WorkerPhase(worker[w])

LEMMA PhaseOfWorker == OneDelivery => PhaseFits
<1> SUFFICES ASSUME OneDelivery, NEW w \in Workers, worker[w].pc # "idle"
             PROVE  Phase = WorkerPhase(worker[w])
  BY DEF PhaseFits
<1>1. \A v \in Workers : ~ At(v, "idle") => v = w
  BY DEF OneDelivery, At
<1>2. ~ At(w, "idle")
  BY DEF At
<1>3. (CHOOSE v \in Workers : ~ At(v, "idle")) = w
  BY <1>1, <1>2
<1> QED
  BY <1>2, <1>3 DEF Phase

LEMMA PhaseOfNobody ==
    (\A w \in Workers : worker[w].pc = "idle") =>
        Phase = IF copies > 0 /\ queue = 0 THEN 8 ELSE 1
BY DEF Phase, At

LEMMA PhaseOfPlace ==
    ASSUME NEW local
    PROVE  LET at == Place(local) IN
           /\ at = "init" => WorkerPhase(local) = 1
           /\ at \in {"validate", "discover"} => WorkerPhase(local) = 2
           /\ at \in {"inventory", "consume", "endpoints", "context"} => WorkerPhase(local) = 3
           /\ at \in {"engine", "persist", "baselines", "progress", "correlate"} =>
                WorkerPhase(local) = 4
           /\ at \in {"findings", "reporting"} => WorkerPhase(local) = 5
           /\ at \in {"assess", "publish"} => WorkerPhase(local) = 6
           /\ at = "terminate" => WorkerPhase(local) = 7
           /\ at = "ack" => WorkerPhase(local) = 8
BY DEF Place, WorkerPhase

LEMMA LateKept == UNCHANGED <<submit, control>> => LateDecisions' = LateDecisions
BY DEF LateDecisions

\* The two phases of a step of the worker that has the message.
LEMMA StepPhases ==
    ASSUME OnceInv, OnceInv', NEW w \in Workers,
           worker[w].pc # "idle", worker'[w].pc # "idle"
    PROVE  Phase = WorkerPhase(worker[w]) /\ Phase' = WorkerPhase(worker'[w])
<1>1. OneDelivery /\ OneDelivery'
  BY DEF OnceInv
<1>2. PhaseFits /\ PhaseFits'
  BY <1>1, PhaseOfWorker, PTL
<1>3. Phase = WorkerPhase(worker[w])
  BY <1>2 DEF PhaseFits
<1>4. Phase' = WorkerPhase(worker[w])'
  BY <1>2 DEF PhaseFits
<1>5. WorkerPhase(worker[w])' = WorkerPhase(worker'[w])
  BY DEF WorkerPhase
<1> QED
  BY <1>3, <1>4, <1>5

\* Nobody else has anything to tell.
LEMMA ToldKept ==
    ASSUME OnceInv, NEW w \in Workers, worker[w].pc # "idle",
           \A v \in Workers \ {w} : worker'[v] = worker[v],
           UNCHANGED <<queue, copies>>,
           worker'[w].pc \notin {"idle", "ack"} => Told(worker[w])'
    PROVE  ToldInv'
<1>1. queue = 0 /\ copies = 1 /\ \A v \in Workers \ {w} : worker[v].pc = "idle"
  BY DEF OnceInv, OneDelivery
<1>2. Undecided'
  BY <1>1 DEF Undecided
<1>3. \A v \in Workers : Running(v)' => Told(worker[v])'
  BY <1>1 DEF Running
<1> QED
  BY <1>2, <1>3 DEF ToldInv

-----------------------------------------------------------------------------
(* The kinds of step of the worker.                                         *)

\* A step that commits nothing: the phase stays, or the work has failed.
LEMMA LocalTells ==
    ASSUME OnceInv, OnceInv', ToldInv, NEW w \in Workers, NEW new, Local(w, new), Running(w),
           reports' = reports, new.pc # "idle", Told(new),
           \/ WorkerPhase(new) = WorkerPhase(worker[w])
           \/ WorkerPhase(worker[w]) \in 2 .. 6 /\ WorkerPhase(new) = 7
    PROVE  ToldInv' /\ JobStep
<1>1. /\ worker'[w] = new
      /\ \A v \in Workers \ {w} : worker'[v] = worker[v]
      /\ UNCHANGED <<submit, row, queue, copies, control>>
  BY LocalMoves DEF OnceInv
<1>2. Told(worker[w])'
  BY <1>1 DEF Told
<1>3. ToldInv'
  BY <1>1, <1>2, ToldKept DEF Running
<1>4. Phase = WorkerPhase(worker[w]) /\ Phase' = WorkerPhase(new)
  BY <1>1, StepPhases DEF Running
<1>5. row'.status = row.status /\ (reports > 0)' = (reports > 0)
      /\ LateDecisions' = LateDecisions
  BY <1>1, LateKept
<1>6. CASE WorkerPhase(new) = WorkerPhase(worker[w])
  BY <1>3, <1>4, <1>5, <1>6 DEF JobStep
<1>7. CASE WorkerPhase(worker[w]) \in 2 .. 6 /\ WorkerPhase(new) = 7
  <2>1. Job!Fail
    BY <1>4, <1>5, <1>7
       DEF Job!Fail, Job!Working, Job!QUEUED, Job!REPORTING, Job!ENDING
  <2> QED
    BY <1>3, <2>1 DEF JobStep, Job!Next
<1> QED
  BY <1>3, <1>6, <1>7

\* The refresh of _checkpoint: the worker knows what the row shows.
LEMMA RefreshTells ==
    ASSUME OnceInv, OnceInv', ToldInv, NEW w \in Workers, NEW new \in Worker,
           Refreshed(w, new),
           \/ new.pc = worker[w].next /\ row.status # "PAUSED"
           \/ new.pc = "pausing" /\ new.next = worker[w].next
           \/ new.pc = "resuming" /\ new.next = worker[w].next /\ row.status = "PAUSED"
           \/ new.pc = "terminate" /\ new.verdict \in {"FAILED", "CANCELLED", "TIMEOUT"}
    PROVE  ToldInv' /\ JobStep
<1> DEFINE fresh == [new EXCEPT !.scan = row]
<1>1. /\ fresh.scan = row /\ fresh.pc = new.pc /\ fresh.next = new.next
      /\ fresh.verdict = new.verdict
  BY DEF Worker
<1>2. /\ Local(w, fresh) /\ reports' = reports
      /\ worker[w].pc = "checkpoint" /\ Running(w)
  BY DEF Refreshed, tables, At, Running
<1>3. worker[w].next \in Continuations
  BY DEF OnceInv, TypeOK, Worker
<1>4. Told(worker[w])
  BY <1>2 DEF ToldInv
<1> HIDE DEF fresh
<1>5. Told(fresh) /\ fresh.pc # "idle"
  BY <1>1, <1>2, <1>3, <1>4 DEF Told, Continuations, Late
<1>6. Place(worker[w]) = worker[w].next
  BY <1>2 DEF Place
<1>7. Place(fresh) = worker[w].next \/ Place(fresh) = "terminate"
  BY <1>1, <1>3 DEF Place, Continuations
<1>8. /\ WorkerPhase(worker[w]) \in 2 .. 6
      /\ WorkerPhase(fresh) = WorkerPhase(worker[w]) \/ WorkerPhase(fresh) = 7
  BY <1>3, <1>6, <1>7, PhaseOfPlace DEF Continuations
<1> QED
  BY <1>2, <1>5, <1>8, LocalTells

\* What a commit of the worker makes of the status: it takes it over, unless it wrote none
\* and an outcome that came late stays.
LEMMA CommitShows ==
    ASSUME OnceInv, ToldInv, NEW w \in Workers, NEW scan \in Scan, NEW new \in Worker,
           Commit(w, scan, new), Running(w)
    PROVE  /\ worker'[w].pc = new.pc /\ worker'[w].next = new.next
           /\ worker'[w].verdict = new.verdict /\ worker'[w].scan = scan
           /\ \A v \in Workers \ {w} : worker'[v] = worker[v]
           /\ UNCHANGED <<submit, queue, copies, control>>
           /\ \/ row'.status = scan.status
              \/ row'.status = row.status /\ row.status \in Late
           /\ scan.status # worker[w].scan.status => row'.status = scan.status
           /\ scan.status = worker[w].scan.status => row'.status = row.status
<1>1. TypeOK /\ row \in Scan /\ worker[w].scan \in Scan
  BY DEF OnceInv, TypeOK, Worker
<1>2. /\ worker'[w].pc = new.pc /\ worker'[w].next = new.next
      /\ worker'[w].verdict = new.verdict /\ worker'[w].scan = scan
      /\ \A v \in Workers \ {w} : worker'[v] = worker[v]
      /\ row' = Flush(row, worker[w].scan, scan)
      /\ UNCHANGED <<submit, queue, copies, control>>
  BY <1>1, CommitMoves
<1>3. /\ scan.status # worker[w].scan.status => row'.status = scan.status
      /\ scan.status = worker[w].scan.status => row'.status = row.status
  BY <1>1, <1>2, FlushColumns
<1>4. row.status \in {worker[w].scan.status} \union Late
  BY DEF ToldInv, Told
<1> QED
  BY <1>2, <1>3, <1>4

\* A commit that does not end the scan, and the statements it can lead to.
LEMMA CommitTold ==
    ASSUME OnceInv, ToldInv, NEW w \in Workers, NEW scan \in Scan, NEW new \in Worker,
           Commit(w, scan, new), Running(w),
           scan.status \notin {"COMPLETED", "PARTIAL"},
           new.pc \in {"engine", "checkpoint"} => scan.status \in {"SCANNING", "PAUSED"},
           new.pc = "engine" => scan.status = "SCANNING",
           new.pc \notin {"persist", "baselines", "progress", "pausing", "resuming",
                          "publish", "terminate"}
    PROVE  ToldInv'
<1>1. /\ worker'[w].pc = new.pc /\ worker'[w].next = new.next
      /\ worker'[w].verdict = new.verdict /\ worker'[w].scan = scan
      /\ \A v \in Workers \ {w} : worker'[v] = worker[v]
      /\ UNCHANGED <<submit, queue, copies, control>>
      /\ row'.status \in {scan.status} \union Late
  BY CommitShows
<1>2. Told(worker[w])'
  BY <1>1 DEF Told
<1> QED
  BY <1>1, <1>2, ToldKept DEF Running

\* The status of the next phase.
LEMMA StageAdvances ==
    ASSUME OnceInv, OnceInv', ToldInv, NEW w \in Workers, NEW new \in Worker,
           NEW status \in ScanStatus, NEW progress \in 0 .. 100,
           Stage(w, status, progress, new), Running(w), new.pc # "idle",
           WorkerPhase(worker[w]) \in 1 .. 5,
           WorkerPhase(new) = WorkerPhase(worker[w]) + 1,
           status = Job!Phases[WorkerPhase(new)],
           new.pc = "checkpoint" => status = "SCANNING",
           new.pc \notin {"engine", "persist", "baselines", "progress", "pausing",
                          "resuming", "publish", "terminate"}
    PROVE  ToldInv' /\ JobStep
<1> DEFINE scan == Staged(w, status, progress)
<1>1. scan \in Scan /\ scan.status = status
  BY HelperFields DEF OnceInv
<1>2. Commit(w, scan, new) /\ reports' = reports
  BY DEF Stage, tables
<1>3. status \in {"INITIALIZING", "DISCOVERING", "SCANNING", "CORRELATING", "REPORTING"}
  <2>1. WorkerPhase(new) \in 2 .. 6
    OBVIOUS
  <2> QED
    BY <2>1 DEF Job!Phases
<1> HIDE DEF scan
<1>4. ToldInv'
  BY <1>1, <1>2, <1>3, CommitTold
<1>5. /\ worker'[w].pc = new.pc /\ worker'[w].next = new.next
      /\ UNCHANGED <<submit, control>>
      /\ \/ row'.status = status
         \/ row'.status = row.status /\ row.status \in Late
  BY <1>1, <1>2, CommitShows
<1>6. WorkerPhase(worker'[w]) = WorkerPhase(new)
  BY <1>5 DEF WorkerPhase
<1>7. Phase = WorkerPhase(worker[w]) /\ Phase' = WorkerPhase(new)
  BY <1>5, <1>6, StepPhases DEF Running
<1>8. Job!Advance
  BY <1>2, <1>5, <1>7, LateKept
     DEF Job!Advance, Job!Working, Job!QUEUED, Job!REPORTING, Job!LateOutcomes, Late
<1> QED
  BY <1>4, <1>8 DEF JobStep, Job!Next

\* The status of a pause, or of a resumed scan, in the phase it is in.
LEMMA PauseTells ==
    ASSUME OnceInv, OnceInv', ToldInv, NEW w \in Workers, PauseCommit(w) \/ ResumeCommit(w)
    PROVE  ToldInv' /\ JobStep
<1> DEFINE to(status) == [worker[w].scan EXCEPT !.status = status]
           next == worker[w].next
<1>1. /\ worker[w] \in Worker /\ worker[w].scan \in Scan /\ next \in Continuations
      /\ worker[w].pc \in {"pausing", "resuming"} /\ Running(w)
      /\ reports' = reports
  BY DEF OnceInv, TypeOK, Worker, PauseCommit, ResumeCommit, At, Running, tables
<1>2. Told(worker[w])
  BY <1>1 DEF ToldInv
<1>3. \A status \in {"PAUSED", "SCANNING"} : to(status) \in Scan /\ to(status).status = status
  BY <1>1 DEF Scan, ScanStatus
<1>4. /\ Goto(w, "checkpoint") \in Worker /\ Goto(w, "checkpoint").pc = "checkpoint"
      /\ Goto(w, "checkpoint").next = next
      /\ Goto(w, next) \in Worker /\ Goto(w, next).pc = next
  BY <1>1, HelperFields, LocationsNamed DEF OnceInv
<1>5. WorkerPhase(worker[w]) \in 2 .. 5
  BY <1>1 DEF WorkerPhase, Continuations
<1> HIDE DEF to
<1>6. CASE PauseCommit(w)
  <2>1. Commit(w, to("PAUSED"), Goto(w, "checkpoint"))
    BY <1>6 DEF PauseCommit, to
  <2>2. ToldInv'
    BY <1>1, <1>3, <1>4, <2>1, CommitTold
  <2>3. /\ worker'[w].pc = "checkpoint" /\ worker'[w].next = next
        /\ UNCHANGED <<submit, control>>
        /\ row'.status = "PAUSED" \/ row'.status = row.status
    BY <1>1, <1>3, <1>4, <2>1, CommitShows
  <2>4. WorkerPhase(worker'[w]) = WorkerPhase(worker[w])
    BY <1>1, <2>3 DEF WorkerPhase
  <2>5. Phase' = Phase /\ Phase \in 2 .. 5
    BY <1>1, <1>5, <2>3, <2>4, StepPhases DEF Running
  <2>6. CASE row'.status = "PAUSED"
    <3>1. Job!Pause
      BY <1>1, <2>3, <2>5, <2>6, LateKept
         DEF Job!Pause, Job!Working, Job!QUEUED, Job!REPORTING
    <3> QED
      BY <2>2, <3>1 DEF JobStep, Job!Next
  <2>7. CASE row'.status = row.status
    BY <1>1, <2>2, <2>3, <2>5, <2>7, LateKept DEF JobStep
  <2> QED
    BY <2>3, <2>6, <2>7
<1>7. CASE ResumeCommit(w)
  <2>1. Commit(w, to("SCANNING"), Goto(w, next)) /\ worker[w].pc = "resuming"
    BY <1>7 DEF ResumeCommit, to, At
  <2>2. worker[w].scan.status = "PAUSED" /\ row.status \in {"PAUSED"} \union Late
    BY <1>2, <2>1 DEF Told
  <2>3. next \notin {"idle", "persist", "baselines", "progress", "pausing", "resuming",
                     "publish", "terminate"}
    BY <1>1 DEF Continuations
  <2>4. ToldInv'
    BY <1>1, <1>3, <1>4, <2>1, <2>3, CommitTold
  <2>5. /\ worker'[w].pc = next /\ UNCHANGED <<submit, control>>
        /\ row'.status = "SCANNING"
    BY <1>1, <1>3, <1>4, <2>1, <2>2, CommitShows
  <2>6. WorkerPhase(worker'[w]) = WorkerPhase(worker[w])
    BY <1>1, <2>1, <2>5 DEF WorkerPhase, Continuations
  <2>7. Phase' = Phase /\ Phase \in 2 .. 5
    BY <1>1, <1>5, <2>3, <2>5, <2>6, StepPhases DEF Running
  <2>8. Job!Resume
    BY <1>1, <2>2, <2>5, <2>7, LateKept
       DEF Job!Resume, Job!Working, Job!QUEUED, Job!REPORTING, Job!LateOutcomes, Late
  <2> QED
    BY <2>4, <2>8 DEF JobStep, Job!Next
<1> QED
  BY <1>6, <1>7

\* The progress of an engine is shown with SCANNING, over an outcome that came late.
LEMMA FinishTells ==
    ASSUME OnceInv, OnceInv', ToldInv, NEW w \in Workers, FinishEngine(w)
    PROVE  ToldInv' /\ JobStep
<1> DEFINE i == worker[w].index
           scan == Staged(w, "SCANNING", Progress(i))
           new == IF i < Len(Engines)
                  THEN [CheckpointThen(w, "engine") EXCEPT !.index = i + 1, !.result = NoResult]
                  ELSE [Goto(w, "correlate") EXCEPT !.result = NoResult]
<1>1. /\ worker[w].pc = "progress" /\ Running(w) /\ i \in 1 .. Len(Engines)
      /\ Commit(w, scan, new) /\ reports' = reports
  BY DEF FinishEngine, At, Running, Stage, tables, OnceInv, TypeOK, Worker
<1>2. /\ new \in Worker
      /\ \/ new.pc = "checkpoint" /\ new.next = "engine"
         \/ new.pc = "correlate"
  <2>1. /\ CheckpointThen(w, "engine") \in Worker
        /\ CheckpointThen(w, "engine").pc = "checkpoint"
        /\ CheckpointThen(w, "engine").next = "engine"
        /\ Goto(w, "correlate") \in Worker /\ Goto(w, "correlate").pc = "correlate"
    BY HelperFields, LocationsNamed DEF OnceInv, Continuations
  <2>2. CASE i < Len(Engines)
    <3>1. i + 1 \in 1 .. Len(Engines)
      BY <1>1, <2>2, EnginesAssumption
    <3> QED
      BY <2>1, <2>2, <3>1, ConstantsTyped DEF Worker
  <2>3. CASE ~ (i < Len(Engines))
    BY <2>1, <2>3, ConstantsTyped DEF Worker
  <2> QED
    BY <2>2, <2>3
<1>3. scan \in Scan /\ scan.status = "SCANNING"
  <2>1. Progress(i) \in 0 .. 100
    BY <1>1, ProgressTyped
  <2>2. TypeOK /\ "SCANNING" \in ScanStatus
    BY DEF OnceInv, ScanStatus
  <2>3. \A status \in ScanStatus, progress \in 0 .. 100 :
          Staged(w, status, progress) \in Scan /\ Staged(w, status, progress).status = status
    BY <2>2, HelperFields
  <2> QED
    BY <2>1, <2>2, <2>3
<1>4. row.status \in {worker[w].scan.status} \union Late
      /\ worker[w].scan.status \in {"SCANNING"} \union Late
  BY <1>1 DEF ToldInv, Told
<1> HIDE DEF scan, new
<1>5. ToldInv'
  BY <1>1, <1>2, <1>3, CommitTold
<1>6. /\ worker'[w].pc = new.pc /\ worker'[w].next = new.next
      /\ UNCHANGED <<submit, control>>
      /\ row'.status = row.status \/ (row'.status = "SCANNING" /\ row.status \in Late)
  BY <1>1, <1>2, <1>3, <1>4, CommitShows
<1>7. WorkerPhase(worker[w]) = 4 /\ WorkerPhase(worker'[w]) = 4
  BY <1>1, <1>2, <1>6 DEF WorkerPhase
<1>8. Phase = 4 /\ Phase' = 4
  BY <1>1, <1>2, <1>6, <1>7, StepPhases DEF Running
<1>9. CASE row'.status = row.status
  BY <1>1, <1>5, <1>6, <1>8, <1>9, LateKept DEF JobStep
<1>10. CASE row'.status = "SCANNING" /\ row.status \in Late
  <2>1. Job!Show
    BY <1>1, <1>6, <1>8, <1>10, LateKept DEF Job!Show, Job!Phases, Job!LateOutcomes, Late
  <2> QED
    BY <1>5, <2>1 DEF JobStep, Job!Next
<1> QED
  BY <1>6, <1>9, <1>10

\* The last commit, with or without the reports.
LEMMA EndTells ==
    ASSUME OnceInv, OnceInv', ToldInv, NEW w \in Workers, Publish(w) \/ Terminate(w)
    PROVE  ToldInv' /\ JobStep
<1> DEFINE new == [IdleWorker EXCEPT !.pc = "ack"]
<1>1. /\ worker[w] \in Worker /\ worker[w].scan \in Scan /\ Running(w)
      /\ new \in Worker /\ new.pc = "ack"
  BY ConstantsTyped DEF OnceInv, TypeOK, Worker, Publish, Terminate, At, Running, Locations,
     IdleWorker
<1>2. Told(worker[w])
  BY <1>1 DEF ToldInv
<1>v. worker[w].verdict \in ScanStatus /\ worker[w].error \in Errors
  BY <1>1 DEF Worker, ScanStatus
<1>3. worker'[w].pc = "ack" => WorkerPhase(worker'[w]) = 8
  BY DEF WorkerPhase
<1> HIDE DEF new
<1>4. CASE Publish(w)
  <2> DEFINE scan == [worker[w].scan EXCEPT !.status = worker[w].verdict, !.progress = 100,
                                            !.finished = TRUE]
  <2>1. /\ Commit(w, scan, new) /\ reports' = reports + 1 /\ reports \in Nat
        /\ worker[w].pc = "publish"
    BY <1>4 DEF Publish, At, new, OnceInv, TypeOK
  <2>2. scan \in Scan /\ scan.status = worker[w].verdict
    <3>1. 100 \in 0 .. 100 /\ worker[w].scan \in Scan
      BY <1>1
    <3> QED
      BY <1>v, <3>1 DEF Scan
  <2>3. /\ worker[w].verdict \in {"COMPLETED", "PARTIAL"}
        /\ worker[w].scan.status \notin {"COMPLETED", "PARTIAL"}
    BY <1>2, <2>1 DEF Told
  <2> HIDE DEF scan
  <2>4. /\ worker'[w].pc = "ack" /\ UNCHANGED <<submit, control, queue, copies>>
        /\ \A v \in Workers \ {w} : worker'[v] = worker[v]
        /\ row'.status = worker[w].verdict
    BY <1>1, <2>1, <2>2, <2>3, CommitShows
  <2>5. ToldInv'
    BY <1>1, <2>4, ToldKept DEF Running
  <2>6. Phase = 6 /\ Phase' = 8
    BY <1>1, <1>3, <2>1, <2>4, StepPhases DEF Running, WorkerPhase
  <2>7. Job!Publish
    BY <2>1, <2>3, <2>4, <2>6, LateKept DEF Job!Publish, Job!REPORTING, Job!OVER
  <2> QED
    BY <2>5, <2>7 DEF JobStep, Job!Next
<1>5. CASE Terminate(w)
  <2> DEFINE scan == [worker[w].scan EXCEPT !.status = worker[w].verdict,
                                            !.error = worker[w].error, !.finished = TRUE]
  <2>1. /\ Commit(w, scan, new) /\ reports' = reports /\ worker[w].pc = "terminate"
    BY <1>5 DEF Terminate, At, new, tables
  <2>2. scan \in Scan /\ scan.status = worker[w].verdict
    BY <1>1, <1>v DEF Scan
  <2>3. worker[w].verdict \in {"FAILED", "CANCELLED", "TIMEOUT"}
    BY <1>2, <2>1 DEF Told
  <2> HIDE DEF scan
  <2>4. /\ worker'[w].pc = "ack" /\ UNCHANGED <<submit, control, queue, copies>>
        /\ \A v \in Workers \ {w} : worker'[v] = worker[v]
        /\ row'.status \in {worker[w].verdict} \union Late
    BY <1>1, <2>1, <2>2, CommitShows
  <2>5. ToldInv'
    BY <1>1, <2>4, ToldKept DEF Running
  <2>6. Phase = 7 /\ Phase' = 8
    BY <1>1, <1>3, <2>1, <2>4, StepPhases DEF Running, WorkerPhase
  <2>7. Job!End
    BY <2>1, <2>3, <2>4, <2>6, LateKept DEF Job!End, Job!ENDING, Job!OVER, Late
  <2> QED
    BY <2>5, <2>7 DEF JobStep, Job!Next
<1> QED
  BY <1>4, <1>5

-----------------------------------------------------------------------------
(* The steps of the broker and of the requests.                             *)

LEMMA ReceiveTells ==
    ASSUME OnceInv, OnceInv', ToldInv, NEW w \in Workers, Receive(w)
    PROVE  ToldInv' /\ JobStep
<1>1. queue = 1 /\ copies = 1 /\ \A v \in Workers : worker[v].pc = "idle"
  BY DEF Receive, OnceInv, OneDelivery, TypeOK
<1>2. /\ queue' = 0 /\ UNCHANGED <<submit, row, reports, copies, control>>
      /\ \A v \in Workers \ {w} : worker'[v] = worker[v]
      /\ worker'[w] = [IdleWorker EXCEPT !.pc = "init", !.scan = row]
  BY <1>1 DEF Receive, OnceInv, TypeOK, tables
<1>3. worker'[w].pc = "init" /\ worker'[w].scan = row
  BY <1>2 DEF IdleWorker
<1>4. row.status \in {"QUEUED"} \union Late
  BY <1>1 DEF ToldInv, Undecided
<1>5. Told(worker[w])'
  BY <1>2, <1>3, <1>4 DEF Told, Late
<1>6. ToldInv'
  BY <1>1, <1>2, <1>5 DEF ToldInv, Undecided, Running
<1>7. Phase = 1
  BY <1>1, PhaseOfNobody
<1>8. Phase' = 1
  <2>1. PhaseFits'
    BY PhaseOfWorker, PTL DEF OnceInv
  <2>2. Phase' = WorkerPhase(worker[w])'
    BY <1>3, <2>1 DEF PhaseFits
  <2> QED
    BY <1>3, <2>2 DEF WorkerPhase
<1> QED
  BY <1>2, <1>6, <1>7, <1>8, LateKept DEF JobStep

\* When nobody has the message, before and after.
LEMMA NobodyPhases ==
    ASSUME \A w \in Workers : worker[w].pc = "idle",
           \A w \in Workers : worker'[w].pc = "idle"
    PROVE  /\ Phase = IF copies > 0 /\ queue = 0 THEN 8 ELSE 1
           /\ Phase' = IF copies' > 0 /\ queue' = 0 THEN 8 ELSE 1
BY DEF Phase, At

LEMMA DiscardTells ==
    ASSUME OnceInv, ToldInv, NEW w \in Workers, Discard(w)
    PROVE  ToldInv' /\ JobStep
<1>1. queue = 1 /\ copies = 1 /\ \A v \in Workers : worker[v].pc = "idle"
  BY DEF Discard, OnceInv, OneDelivery, TypeOK
<1>2. queue' = 0 /\ UNCHANGED <<submit, row, reports, copies, control, worker>>
  BY <1>1 DEF Discard, tables
<1>3. row.status \in Late
  BY <1>1 DEF ToldInv, Undecided, Discard, Late
<1>4. ToldInv'
  BY <1>1, <1>2 DEF ToldInv, Undecided, Running
<1>5. Phase = 1 /\ Phase' = 8
  BY <1>1, <1>2, NobodyPhases
<1>6. Job!Drop
  BY <1>2, <1>3, <1>5, LateKept DEF Job!Drop, Job!QUEUED, Job!OVER, Job!LateOutcomes, Late
<1> QED
  BY <1>4, <1>6 DEF JobStep, Job!Next

LEMMA AcknowledgeTells ==
    ASSUME OnceInv, OnceInv', ToldInv, NEW w \in Workers, Acknowledge(w)
    PROVE  ToldInv' /\ JobStep
<1>1. /\ worker[w].pc = "ack" /\ queue = 0 /\ copies = 1
      /\ \A v \in Workers \ {w} : worker[v].pc = "idle"
  BY DEF Acknowledge, At, OnceInv, OneDelivery
<1>2. /\ worker'[w] = IdleWorker
      /\ \A v \in Workers \ {w} : worker'[v] = worker[v]
      /\ UNCHANGED <<submit, row, reports, queue, copies, control>>
  BY LocalMoves DEF Acknowledge, OnceInv, tables
<1>3. worker'[w].pc = "idle"
  BY <1>2 DEF IdleWorker
<1>4. ToldInv'
  BY <1>1, <1>2, <1>3, ToldKept
<1>5. Phase = 8
  <2>1. Phase = WorkerPhase(worker[w])
    BY <1>1, PhaseOfWorker DEF OnceInv, PhaseFits
  <2> QED
    BY <1>1, <2>1 DEF WorkerPhase
<1>6. Phase' = 8
  BY <1>1, <1>2, <1>3 DEF Phase, At
<1> QED
  BY <1>2, <1>4, <1>5, <1>6, LateKept DEF JobStep

\* The phase does not depend on the row or on a request that does not publish a message.
LEMMA PhaseKept == UNCHANGED <<worker, queue, copies>> => Phase' = Phase
BY DEF Phase, At, WorkerPhase

LEMMA ControlReadTells ==
    ASSUME OnceInv, ToldInv, NEW c \in Controls, NEW action \in Actions,
           ControlRead(c, action)
    PROVE  ToldInv' /\ JobStep
<1>1. /\ UNCHANGED <<submit, row, reports, queue, copies, worker>>
      /\ control[c].state = "free" /\ control \in [Controls -> Control]
  BY DEF ControlRead, tables, broker, OnceInv, TypeOK
<1>2. /\ \A d \in Controls \ {c} : control'[d] = control[d]
      /\ \/ row.status \in Terminal /\ control'[c].state = "done"
         \/ /\ row.status \notin Terminal /\ control'[c].state = "read"
            /\ control'[c].loaded = row /\ control'[c].action = action
  BY <1>1 DEF ControlRead, AnsweredControl, NewControl
<1>3. ToldInv'
  <2>1. Undecided'
    BY <1>1, <1>2 DEF ToldInv, Undecided, Late, Terminal
  <2>2. \A w \in Workers : Running(w)' => Told(worker[w])'
    BY <1>1 DEF ToldInv, Running, Told
  <2> QED
    BY <2>1, <2>2 DEF ToldInv
<1>4. Phase' = Phase
  BY <1>1, PhaseKept
<1>5. /\ "dispatch" \in LateDecisions' <=> "dispatch" \in LateDecisions
      /\ "cancel" \in LateDecisions => "cancel" \in LateDecisions'
      /\ "cancel" \in LateDecisions' /\ "cancel" \notin LateDecisions => row.status = "QUEUED"
      /\ LateDecisions \subseteq {"cancel", "dispatch"}
      /\ LateDecisions' \subseteq {"cancel", "dispatch"}
  BY <1>1, <1>2 DEF LateDecisions
<1>6. CASE LateDecisions' = LateDecisions
  BY <1>1, <1>3, <1>4, <1>6 DEF JobStep
<1>7. CASE LateDecisions' # LateDecisions
  <2>a. LateDecisions \subseteq LateDecisions'
    BY <1>5
  <2>b. "cancel" \in LateDecisions' /\ "cancel" \notin LateDecisions
    BY <1>5, <1>7, <2>a
  <2>1. row.status = "QUEUED" /\ LateDecisions \subseteq LateDecisions'
    BY <1>5, <2>a, <2>b
  <2>2. Job!Decide
    BY <1>1, <1>4, <1>5, <2>1 DEF Job!Decide, Job!LateOutcome
  <2> QED
    BY <1>3, <2>2 DEF JobStep, Job!Next
<1> QED
  BY <1>6, <1>7

LEMMA ControlCommitTells ==
    ASSUME OnceInv, ToldInv, NEW c \in Controls, ControlCommit(c)
    PROVE  ToldInv' /\ JobStep
<1> DEFINE loaded == control[c].loaded
           new == Requested(control[c].action, loaded)
           outcome == control[c].action = "cancel" /\ loaded.status = "QUEUED"
<1>1. /\ UNCHANGED <<submit, reports, queue, copies, worker>>
      /\ control[c].state = "read" /\ control \in [Controls -> Control]
      /\ \A d \in Controls \ {c} : control'[d] = control[d]
      /\ control'[c].state = "done"
  BY DEF ControlCommit, tables, broker, OnceInv, TypeOK, AnsweredControl, NewControl
<1>2. loaded \in Scan /\ control[c].action \in Actions /\ row \in Scan
  BY DEF OnceInv, TypeOK, Control
<1>3. new \in Scan /\ row' = Flush(row, loaded, new)
  BY <1>2, RequestedTyped DEF ControlCommit
<1>4. /\ outcome => new.status = "CANCELLED" /\ new.status # loaded.status
      /\ ~ outcome => new.status = loaded.status
      /\ new.cancel # loaded.cancel => control[c].action = "cancel"
  BY <1>2 DEF Requested, Actions, Scan
<1> HIDE DEF new, loaded, outcome
<1>5. /\ outcome => row'.status = "CANCELLED"
      /\ ~ outcome => row'.status = row.status
      /\ control[c].action # "cancel" => row'.cancel = row.cancel
  BY <1>2, <1>3, <1>4, FlushColumns
<1>6. ToldInv'
  <2>1. Undecided'
    BY <1>1, <1>5 DEF ToldInv, Undecided, Late, outcome, loaded
  <2>2. \A w \in Workers : Running(w)' => Told(worker[w])'
    BY <1>1, <1>5 DEF ToldInv, Running, Told, Late
  <2> QED
    BY <2>1, <2>2 DEF ToldInv
<1>7. Phase' = Phase
  BY <1>1, PhaseKept
<1>8. /\ LateDecisions' \subseteq LateDecisions
      /\ outcome => "cancel" \in LateDecisions
      /\ ~ outcome => LateDecisions' = LateDecisions
  BY <1>1 DEF LateDecisions, outcome, loaded
<1>9. CASE outcome
  <2>1. Job!ShowLate
    BY <1>1, <1>5, <1>7, <1>8, <1>9 DEF Job!ShowLate, Job!LateOutcome
  <2> QED
    BY <1>6, <2>1 DEF JobStep, Job!Next
<1>10. CASE ~ outcome
  BY <1>1, <1>5, <1>6, <1>7, <1>8, <1>10 DEF JobStep
<1> QED
  BY <1>9, <1>10

\* The request that submits the scan, until its message is on the way or it has failed.
LEMMA SubmissionTells ==
    ASSUME OnceInv, OnceInv', ToldInv, Submission
    PROVE  ToldInv' /\ JobStep
<1>1. submit \in {"start", "saved"}
  BY DEF Submission, RejectRequest, CreateScan, Dispatch, DispatchFails
<1>2. /\ copies = 0 /\ queue = 0
      /\ \A w \in Workers : worker[w].pc = "idle"
  BY <1>1 DEF OnceInv, OneDelivery, TypeOK
<1>3. UNCHANGED <<reports, worker, control>>
  BY DEF Submission, RejectRequest, CreateScan, Dispatch, DispatchFails, tables
<1>4. queue' = copies'
  BY <1>2 DEF Submission, RejectRequest, CreateScan, Dispatch, DispatchFails, Enqueue, broker
<1>5. Phase = 1 /\ Phase' = 1
  <2>1. ~ (copies' > 0 /\ queue' = 0)
    BY <1>4
  <2> QED
    BY <1>2, <1>3, <2>1, NobodyPhases
<1>6. \A w \in Workers : ~ Running(w)'
  BY <1>2, <1>3 DEF Running
<1>7. /\ row.status \in {"QUEUED"} \union Late
      /\ row.cancel => row.status # "QUEUED"
      /\ \A c \in Controls : control[c].state = "read" => control[c].loaded.status = "QUEUED"
  BY <1>2 DEF ToldInv, Undecided
<1>8. CASE RejectRequest \/ Dispatch
  <2>1. row' = row /\ submit' # "saved"
    BY <1>8 DEF RejectRequest, Dispatch
  <2>2. ToldInv'
    BY <1>3, <1>6, <1>7, <2>1 DEF ToldInv, Undecided
  <2>3. LateDecisions' \in SUBSET LateDecisions
    BY <1>3, <2>1 DEF LateDecisions
  <2>4. Job!Withdraw
    BY <1>3, <1>5, <2>1, <2>3 DEF Job!Withdraw
  <2> QED
    BY <2>2, <2>4 DEF JobStep, Job!Next
<1>9. CASE \E document \in BOOLEAN : CreateScan(document)
  <2>1. /\ submit = "start" /\ submit' = "saved" /\ row' = QueuedScan /\ row = QueuedScan
    BY <1>9 DEF CreateScan, OnceInv, Untouched
  <2>2. ToldInv'
    BY <1>3, <1>6, <1>7, <2>1 DEF ToldInv, Undecided
  <2>3. LateDecisions \subseteq LateDecisions' /\ LateDecisions' \subseteq {"cancel", "dispatch"}
    BY <1>3, <2>1 DEF LateDecisions
  <2>4. Job!Decide
    BY <1>3, <1>5, <2>1, <2>3 DEF Job!Decide, Job!LateOutcome, QueuedScan
  <2> QED
    BY <2>2, <2>4 DEF JobStep, Job!Next
<1>10. CASE \E published \in BOOLEAN : DispatchFails(published)
  <2> DEFINE failed == [QueuedScan EXCEPT !.status = "FAILED", !.error = "dispatch"]
  <2>1. /\ failed \in Scan /\ failed.status = "FAILED" /\ QueuedScan \in Scan
        /\ QueuedScan.status = "QUEUED"
    BY ConstantsTyped DEF Scan, ScanStatus, Terminal, Errors, QueuedScan
  <2>2. /\ row' = Flush(row, QueuedScan, failed) /\ row \in Scan
        /\ submit = "saved" /\ submit' = "unavailable"
    BY <1>10 DEF DispatchFails, OnceInv, TypeOK
  <2> HIDE DEF failed
  <2>3. row'.status = "FAILED"
    BY <2>1, <2>2, FlushColumns
  <2>4. ToldInv'
    BY <1>3, <1>6, <1>7, <2>3 DEF ToldInv, Undecided, Late
  <2>5. "dispatch" \in LateDecisions /\ LateDecisions' \subseteq LateDecisions
    BY <1>3, <2>2 DEF LateDecisions
  <2>6. Job!ShowLate
    BY <1>3, <1>5, <2>3, <2>5 DEF Job!ShowLate, Job!LateOutcome
  <2> QED
    BY <2>4, <2>6 DEF JobStep, Job!Next
<1> QED
  BY <1>8, <1>9, <1>10 DEF Submission

-----------------------------------------------------------------------------
(* The steps of the worker between its commits.                             *)

\* A local step that leads to another place of the same phase, and holds nothing new.
LEMMA LocalWithin ==
    ASSUME OnceInv, OnceInv', ToldInv, NEW w \in Workers, NEW new, Local(w, new), Running(w),
           reports' = reports, new.pc # "idle", new.scan = worker[w].scan,
           WorkerPhase(new) = WorkerPhase(worker[w]),
           \/ new.pc \in {"consume", "endpoints", "persist", "baselines", "progress", "publish"}
           \/ new.pc = "checkpoint" /\ new.next # "engine",
           new.pc \in {"persist", "baselines", "progress"} =>
             worker[w].pc \in {"engine", "persist", "baselines"},
           new.pc = "publish" => new.verdict \in {"COMPLETED", "PARTIAL"}
    PROVE  ToldInv' /\ JobStep
<1>1. Told(worker[w])
  BY DEF ToldInv
<1>2. Told(new)
  BY <1>1 DEF Told
<1> QED
  BY <1>2, LocalTells

\* An exception that run catches.
LEMMA RaiseTells ==
    ASSUME OnceInv, OnceInv', ToldInv, NEW w \in Workers, NEW new, Local(w, new), Running(w),
           reports' = reports, new.pc = "terminate", new.verdict = "FAILED",
           new.scan = worker[w].scan,
           WorkerPhase(worker[w]) \in 2 .. 6
    PROVE  ToldInv' /\ JobStep
<1>1. Told(worker[w])
  BY DEF ToldInv
<1>2. Told(new) /\ WorkerPhase(new) = 7 /\ new.pc # "idle"
  BY <1>1 DEF Told, WorkerPhase
<1> QED
  BY <1>2, LocalTells

\* The five stages that take the worker on.
LEMMA StagesTell ==
    ASSUME OnceInv, OnceInv', ToldInv, NEW w \in Workers,
           \/ Initialize(w) \/ StartDiscovery(w) \/ StartScanning(w)
           \/ StartCorrelation(w) \/ StartReporting(w)
    PROVE  ToldInv' /\ JobStep
<1>1. TypeOK
  BY DEF OnceInv
<1>2. \A to \in Locations : Goto(w, to) \in Worker /\ Goto(w, to).pc = to
  BY <1>1, HelperFields
<1>3. \A to \in {"validate", "inventory", "findings", "assess"} :
        /\ Goto(w, to) \in Worker /\ Goto(w, to).pc = to /\ Place(Goto(w, to)) = to
  BY <1>2, LocationsNamed DEF Place
<1> DEFINE Stages == {"INITIALIZING", "DISCOVERING", "SCANNING", "CORRELATING", "REPORTING"}
<1>s. /\ Job!Phases[2] = "INITIALIZING" /\ Job!Phases[3] = "DISCOVERING"
      /\ Job!Phases[4] = "SCANNING" /\ Job!Phases[5] = "CORRELATING"
      /\ Job!Phases[6] = "REPORTING" /\ Stages \subseteq ScanStatus
  BY DEF Job!Phases, ScanStatus
<1>t. \A status \in Stages, progress \in 0 .. 100, new \in Worker :
        /\ Stage(w, status, progress, new) /\ Running(w)
        /\ \/ new.pc \in {"validate", "inventory", "findings", "assess"}
           \/ new.pc = "checkpoint" /\ status = "SCANNING"
        /\ WorkerPhase(worker[w]) \in 1 .. 5
        /\ WorkerPhase(new) = WorkerPhase(worker[w]) + 1
        /\ status = Job!Phases[WorkerPhase(new)]
        => ToldInv' /\ JobStep
  <2> SUFFICES ASSUME NEW status \in Stages, NEW progress \in 0 .. 100, NEW new \in Worker,
                      Stage(w, status, progress, new), Running(w),
                      \/ new.pc \in {"validate", "inventory", "findings", "assess"}
                      \/ new.pc = "checkpoint" /\ status = "SCANNING",
                      WorkerPhase(worker[w]) \in 1 .. 5,
                      WorkerPhase(new) = WorkerPhase(worker[w]) + 1,
                      status = Job!Phases[WorkerPhase(new)]
               PROVE  ToldInv' /\ JobStep
    OBVIOUS
  <2>1. /\ status \in ScanStatus /\ new.pc # "idle"
        /\ new.pc = "checkpoint" => status = "SCANNING"
        /\ new.pc \notin {"engine", "persist", "baselines", "progress", "pausing",
                          "resuming", "publish", "terminate"}
    BY <1>s
  <2> HIDE DEF Stages
  <2> QED
    BY <2>1, StageAdvances
<1>4. CASE Initialize(w)
  <2>1. worker[w].pc = "init" /\ Stage(w, "INITIALIZING", 5, Goto(w, "validate"))
    BY <1>4 DEF Initialize, At
  <2>2. WorkerPhase(worker[w]) = 1 /\ WorkerPhase(Goto(w, "validate")) = 2 /\ Running(w)
    BY <1>3, <2>1, PhaseOfPlace DEF Place, Running
  <2> QED
    BY <1>3, <1>s, <1>t, <2>1, <2>2
<1>5. CASE StartDiscovery(w)
  <2>1. worker[w].pc = "discover" /\ Stage(w, "DISCOVERING", 15, Goto(w, "inventory"))
    BY <1>5 DEF StartDiscovery, At
  <2>2. WorkerPhase(worker[w]) = 2 /\ WorkerPhase(Goto(w, "inventory")) = 3 /\ Running(w)
    BY <1>3, <2>1, PhaseOfPlace DEF Place, Running
  <2> QED
    BY <1>3, <1>s, <1>t, <2>1, <2>2
<1>6. CASE StartScanning(w)
  <2> DEFINE new == [CheckpointThen(w, "engine") EXCEPT !.index = 1]
  <2>1. worker[w].pc = "context" /\ Stage(w, "SCANNING", 30, new)
    BY <1>6 DEF StartScanning, At
  <2>2. /\ CheckpointThen(w, "engine") \in Worker
        /\ CheckpointThen(w, "engine").pc = "checkpoint"
        /\ CheckpointThen(w, "engine").next = "engine"
        /\ 1 \in 1 .. Len(Engines)
    BY <1>1, HelperFields, EnginesAssumption DEF Continuations
  <2>3. new \in Worker /\ new.pc = "checkpoint" /\ Place(new) = "engine"
    BY <2>2 DEF Worker, Place
  <2> HIDE DEF new
  <2>4. WorkerPhase(worker[w]) = 3 /\ WorkerPhase(new) = 4 /\ Running(w)
    BY <2>1, <2>3, PhaseOfPlace DEF Place, Running
  <2> QED
    BY <1>s, <1>t, <2>1, <2>3, <2>4
<1>7. CASE StartCorrelation(w)
  <2>1. worker[w].pc = "correlate" /\ Stage(w, "CORRELATING", 75, Goto(w, "findings"))
    BY <1>7 DEF StartCorrelation, At
  <2>2. WorkerPhase(worker[w]) = 4 /\ WorkerPhase(Goto(w, "findings")) = 5 /\ Running(w)
    BY <1>3, <2>1, PhaseOfPlace DEF Place, Running
  <2> QED
    BY <1>3, <1>s, <1>t, <2>1, <2>2
<1>8. CASE StartReporting(w)
  <2>1. worker[w].pc = "reporting" /\ Stage(w, "REPORTING", 90, Goto(w, "assess"))
    BY <1>8 DEF StartReporting, At
  <2>2. WorkerPhase(worker[w]) = 5 /\ WorkerPhase(Goto(w, "assess")) = 6 /\ Running(w)
    BY <1>3, <2>1, PhaseOfPlace DEF Place, Running
  <2> QED
    BY <1>3, <1>s, <1>t, <2>1, <2>2
<1> QED
  BY <1>4, <1>5, <1>6, <1>7, <1>8

LEMMA CheckpointTells ==
    ASSUME OnceInv, OnceInv', ToldInv, NEW w \in Workers,
           \/ CheckpointCancelled(w) \/ CheckpointTimedOut(w) \/ CheckpointPassed(w)
           \/ CheckpointResumes(w) \/ CheckpointPauses(w)
    PROVE  ToldInv' /\ JobStep
<1>1. TypeOK /\ worker[w].next \in Continuations
  BY DEF OnceInv, TypeOK, Worker
<1>2. /\ \A to \in Locations : /\ Goto(w, to) \in Worker /\ Goto(w, to).pc = to
                              /\ Goto(w, to).next = worker[w].next
      /\ \A status \in Terminal, error \in Errors :
           /\ Raise(w, status, error) \in Worker
           /\ Raise(w, status, error).pc = "terminate"
           /\ Raise(w, status, error).verdict = status
  BY <1>1, HelperFields
<1>3. \A to \in {"pausing", "resuming", worker[w].next} : to \in Locations
  BY <1>1, LocationsNamed
<1>4. CASE CheckpointCancelled(w)
  BY <1>2, <1>4, RefreshTells DEF CheckpointCancelled, Terminal, Errors
<1>5. CASE CheckpointTimedOut(w)
  BY <1>2, <1>5, RefreshTells DEF CheckpointTimedOut, Terminal, Errors
<1>6. CASE CheckpointPassed(w)
  BY <1>2, <1>3, <1>6, RefreshTells DEF CheckpointPassed
<1>7. CASE CheckpointResumes(w)
  BY <1>2, <1>3, <1>7, RefreshTells DEF CheckpointResumes
<1>8. CASE CheckpointPauses(w)
  BY <1>2, <1>3, <1>8, RefreshTells DEF CheckpointPauses
<1> QED
  BY <1>4, <1>5, <1>6, <1>7, <1>8

\* The statements that take the worker to the next one within a phase.
LEMMA InventoryTells ==
    ASSUME OnceInv, OnceInv', ToldInv, NEW w \in Workers,
           \/ ValidateTarget(w) \/ (\E some \in BOOLEAN : BuildInventory(w, some))
           \/ ConsumePayload(w) \/ SaveEndpoints(w)
    PROVE  ToldInv' /\ JobStep
<1>1. TypeOK /\ worker[w] \in Worker
  BY DEF OnceInv, TypeOK
<1>2. reports' = reports
  BY DEF ValidateTarget, BuildInventory, ConsumePayload, SaveEndpoints, tables
<1>3. \A next \in Continuations \ {"engine"} :
        LET new == CheckpointThen(w, next) IN
        /\ new.pc = "checkpoint" /\ new.next = next /\ new.scan = worker[w].scan
        /\ Place(new) = next
  BY <1>1, HelperFields DEF Place
<1>4. CASE ValidateTarget(w)
  <2>1. worker[w].pc = "validate" /\ Local(w, CheckpointThen(w, "discover")) /\ Running(w)
    BY <1>4 DEF ValidateTarget, At, Running
  <2>2. WorkerPhase(worker[w]) = 2 /\ WorkerPhase(CheckpointThen(w, "discover")) = 2
    BY <1>3, <2>1, PhaseOfPlace DEF Place, Continuations
  <2> QED
    BY <1>2, <1>3, <2>1, <2>2, LocalWithin DEF Continuations
<1>5. ASSUME NEW some \in BOOLEAN, BuildInventory(w, some) PROVE ToldInv' /\ JobStep
  <2> DEFINE new == [worker[w] EXCEPT !.pc = IF payload THEN "consume" ELSE "endpoints",
                                      !.origin = IF payload THEN "submitted" ELSE "fetched",
                                      !.found = some]
  <2>1. worker[w].pc = "inventory" /\ Local(w, new) /\ Running(w)
    BY <1>5 DEF BuildInventory, At, Running
  <2>2. new.pc \in {"consume", "endpoints"} /\ new.scan = worker[w].scan
    BY <1>1 DEF Worker
  <2> HIDE DEF new
  <2>3. WorkerPhase(worker[w]) = 3 /\ WorkerPhase(new) = 3
    BY <2>1, <2>2, PhaseOfPlace DEF Place
  <2> QED
    BY <1>2, <2>1, <2>2, <2>3, LocalWithin
<1>6. CASE ConsumePayload(w)
  <2>1. worker[w].pc = "consume" /\ Local(w, Goto(w, "endpoints")) /\ Running(w)
    BY <1>6 DEF ConsumePayload, At, Running
  <2>2. Goto(w, "endpoints").pc = "endpoints" /\ Goto(w, "endpoints").scan = worker[w].scan
    BY <1>1, HelperFields, LocationsNamed
  <2>3. WorkerPhase(worker[w]) = 3 /\ WorkerPhase(Goto(w, "endpoints")) = 3
    BY <2>1, <2>2, PhaseOfPlace DEF Place
  <2> QED
    BY <1>2, <2>1, <2>2, <2>3, LocalWithin
<1>7. CASE SaveEndpoints(w)
  <2>1. worker[w].pc = "endpoints" /\ Local(w, CheckpointThen(w, "context")) /\ Running(w)
    BY <1>7 DEF SaveEndpoints, At, Running
  <2>2. WorkerPhase(worker[w]) = 3 /\ WorkerPhase(CheckpointThen(w, "context")) = 3
    BY <1>3, <2>1, PhaseOfPlace DEF Place, Continuations
  <2> QED
    BY <1>2, <1>3, <2>1, <2>2, LocalWithin DEF Continuations
<1> QED
  BY <1>4, <1>5, <1>6, <1>7

LEMMA EngineTells ==
    ASSUME OnceInv, OnceInv', ToldInv, NEW w \in Workers,
           \/ \E result \in Outcomes : RunEngine(w, result)
           \/ PersistEngine(w) \/ ApplyBaselines(w)
    PROVE  ToldInv' /\ JobStep
<1>1. TypeOK /\ worker[w] \in Worker
  BY DEF OnceInv, TypeOK
<1>2. reports' = reports
  BY DEF RunEngine, PersistEngine, ApplyBaselines, tables
<1>3. ASSUME NEW result \in Outcomes, RunEngine(w, result)
      PROVE  ToldInv' /\ JobStep
  <2> DEFINE new == [worker[w] EXCEPT !.pc = "persist", !.result = result]
  <2>1. worker[w].pc = "engine" /\ Local(w, new) /\ Running(w)
    BY <1>3 DEF RunEngine, At, Running
  <2>2. new.pc = "persist" /\ new.scan = worker[w].scan
    BY <1>1 DEF Worker
  <2> HIDE DEF new
  <2>3. WorkerPhase(worker[w]) = 4 /\ WorkerPhase(new) = 4
    BY <2>1, <2>2, PhaseOfPlace DEF Place
  <2> QED
    BY <1>2, <2>1, <2>2, <2>3, LocalWithin
<1>4. CASE PersistEngine(w)
  <2> DEFINE result == worker[w].result
             pc == IF result.engine = "custom" THEN "baselines" ELSE "progress"
             new == [worker[w] EXCEPT !.pc = pc,
                                      !.failed = @ \/ result.status \in {"FAILED", "TIMEOUT"}]
  <2>1. worker[w].pc = "persist" /\ Local(w, new) /\ Running(w)
    BY <1>4 DEF PersistEngine, At, Running
  <2>2. new.pc \in {"baselines", "progress"} /\ new.scan = worker[w].scan
    BY <1>1 DEF Worker
  <2> HIDE DEF new
  <2>3. WorkerPhase(worker[w]) = 4 /\ WorkerPhase(new) = 4
    BY <2>1, <2>2, PhaseOfPlace DEF Place
  <2> QED
    BY <1>2, <2>1, <2>2, <2>3, LocalWithin
<1>5. CASE ApplyBaselines(w)
  <2>1. worker[w].pc = "baselines" /\ Running(w)
        /\ (Local(w, Goto(w, "progress")) \/ Local(w, Raise(w, "FAILED", "unreachable")))
    BY <1>5 DEF ApplyBaselines, At, Running
  <2>2. /\ Goto(w, "progress").pc = "progress"
        /\ Goto(w, "progress").scan = worker[w].scan
        /\ Raise(w, "FAILED", "unreachable").pc = "terminate"
        /\ Raise(w, "FAILED", "unreachable").verdict = "FAILED"
        /\ Raise(w, "FAILED", "unreachable").scan = worker[w].scan
    BY <1>1, HelperFields, LocationsNamed DEF Terminal, Errors
  <2>3. WorkerPhase(worker[w]) = 4 /\ WorkerPhase(Goto(w, "progress")) = 4
    BY <2>1, <2>2, PhaseOfPlace DEF Place
  <2> QED
    BY <1>2, <2>1, <2>2, <2>3, LocalWithin, RaiseTells
<1> QED
  BY <1>3, <1>4, <1>5

LEMMA VerdictTells ==
    ASSUME OnceInv, OnceInv', ToldInv, NEW w \in Workers, SaveFindings(w) \/ Assess(w)
    PROVE  ToldInv' /\ JobStep
<1>1. TypeOK /\ worker[w] \in Worker
  BY DEF OnceInv, TypeOK
<1>2. reports' = reports
  BY DEF SaveFindings, Assess, tables
<1>3. CASE SaveFindings(w)
  <2> DEFINE new(tested) == [CheckpointThen(w, "reporting") EXCEPT !.tested = tested]
  <2>1. PICK tested : Local(w, new(tested))
    BY <1>3 DEF SaveFindings
  <2>2. worker[w].pc = "findings" /\ Running(w)
    BY <1>3 DEF SaveFindings, At, Running
  <2>3. /\ new(tested).pc = "checkpoint" /\ new(tested).next = "reporting"
        /\ new(tested).scan = worker[w].scan
    BY <1>1 DEF CheckpointThen, Worker
  <2> HIDE DEF new
  <2>4. WorkerPhase(worker[w]) = 5 /\ WorkerPhase(new(tested)) = 5
    BY <2>2, <2>3, PhaseOfPlace DEF Place
  <2> QED
    BY <1>2, <2>1, <2>2, <2>3, <2>4, LocalWithin
<1>4. CASE Assess(w)
  <2> DEFINE verdict == IF worker[w].failed \/ Assessment(worker[w].tested) # "COMPLETE"
                        THEN "PARTIAL" ELSE "COMPLETED"
             new == [worker[w] EXCEPT !.pc = "publish", !.verdict = verdict]
  <2>1. Local(w, new) /\ worker[w].pc = "assess" /\ Running(w)
    BY <1>4 DEF Assess, At, Running
  <2>2. verdict \in {"COMPLETED", "PARTIAL"}
    OBVIOUS
  <2> HIDE DEF verdict
  <2>3. new.pc = "publish" /\ new.scan = worker[w].scan /\ new.verdict = verdict
    BY <1>1 DEF Worker
  <2> HIDE DEF new
  <2>4. WorkerPhase(worker[w]) = 6 /\ WorkerPhase(new) = 6
    BY <2>1, <2>3, PhaseOfPlace DEF Place
  <2> QED
    BY <1>2, <2>1, <2>2, <2>3, <2>4, LocalWithin
<1> QED
  BY <1>3, <1>4

LEMMA StepFailsTells ==
    ASSUME OnceInv, OnceInv', ToldInv, NEW w \in Workers, StepFails(w) \/ AnalysisFails(w)
    PROVE  ToldInv' /\ JobStep
<1>1. PICK new : /\ Local(w, new) /\ reports' = reports
                 /\ new.pc = "terminate" /\ new.verdict = "FAILED"
                 /\ new.scan = worker[w].scan
  <2>1. CASE StepFails(w)
    BY <2>1, Failing DEF OnceInv, tables
  <2>2. CASE AnalysisFails(w)
    BY <2>2, HelperFields DEF AnalysisFails, OnceInv, Terminal, Errors
  <2> QED
    BY <2>1, <2>2
<1>2. /\ worker[w].pc \in {"validate", "inventory", "endpoints", "context",
                           "findings", "assess"}
      /\ Running(w)
  BY DEF StepFails, AnalysisFails, At, Running
<1>3. WorkerPhase(worker[w]) \in 2 .. 6
  BY <1>2, PhaseOfPlace DEF Place
<1> QED
  BY <1>1, <1>2, <1>3, RaiseTells

LEMMA WorkerTells ==
    ASSUME OnceInv, OnceInv', ToldInv, NEW w \in Workers, WorkerStep(w)
    PROVE  ToldInv' /\ JobStep
BY StepFailsTells, ReceiveTells, DiscardTells, StagesTell, CheckpointTells, PauseTells,
   InventoryTells, EngineTells, FinishTells, VerdictTells, EndTells, AcknowledgeTells
   DEF WorkerStep

\* Nothing but time comes from outside.
LEMMA EnvironmentTells ==
    ASSUME Once, OnceInv, OnceInv', ToldInv, Environment
    PROVE  ToldInv' /\ JobStep
<1>1. ASSUME NEW w \in Workers, DeadlinePasses(w) PROVE ToldInv' /\ JobStep
  <2> DEFINE new == [worker[w] EXCEPT !.expired = TRUE]
  <2>1. Local(w, new) /\ reports' = reports /\ Running(w)
    BY <1>1 DEF DeadlinePasses, tables, Running
  <2>2. /\ new.pc = worker[w].pc /\ new.next = worker[w].next
        /\ new.scan = worker[w].scan /\ new.verdict = worker[w].verdict
    BY DEF OnceInv, TypeOK, Worker
  <2> HIDE DEF new
  <2>3. WorkerPhase(new) = WorkerPhase(worker[w])
    BY <2>2 DEF WorkerPhase
  <2>4. Told(new) /\ new.pc # "idle"
    BY <2>1, <2>2 DEF ToldInv, Told, Running
  <2> QED
    BY <2>1, <2>3, <2>4, LocalTells
<1>2. ~ Redeliver
  BY DEF Once, Redeliver, OnceInv, TypeOK
<1>3. \A kind : ~ Fault(kind)
  BY DEF Once, Fault, OnceInv, TypeOK, FaultsSoFar, FaultKinds
<1> QED
  BY <1>1, <1>2, <1>3 DEF Environment, ApiLost, WorkerLost, Abandon

LEMMA StepTells ==
    ASSUME Once, OnceInv, OnceInv', ToldInv, [Next]_vars
    PROVE  ToldInv' /\ JobStep
<1>1. CASE UNCHANGED vars
  <2>1. UNCHANGED <<submit, row, reports, queue, copies, control, worker>>
    BY <1>1 DEF vars, tables, broker
  <2>2. ToldInv'
    BY <2>1 DEF ToldInv, Undecided, Running, Told
  <2> QED
    BY <2>1, <2>2, PhaseKept, LateKept DEF JobStep
<1>2. ASSUME NEW c \in Controls, ControlRequest(c) PROVE ToldInv' /\ JobStep
  BY <1>2, ControlReadTells, ControlCommitTells DEF ControlRequest
<1> QED
  BY <1>1, <1>2, SubmissionTells, WorkerTells, EnvironmentTells DEF Next, Quiescent

LEMMA InitTells == Init => ToldInv /\ Job!Init
<1> SUFFICES ASSUME Init PROVE ToldInv /\ Job!Init
  OBVIOUS
<1>1. /\ row.status = "QUEUED" /\ row.cancel = FALSE /\ copies = 0 /\ queue = 0
      /\ reports = 0 /\ submit = "start"
      /\ \A w \in Workers : worker[w].pc = "idle"
      /\ \A c \in Controls : control[c].state = "free"
  BY DEF Init, QueuedScan, IdleWorker, NewControl
<1>2. ToldInv
  BY <1>1 DEF ToldInv, Undecided, Running
<1>3. Phase = 1
  BY <1>1, PhaseOfNobody
<1>4. LateDecisions = {}
  BY <1>1 DEF LateDecisions
<1> QED
  BY <1>1, <1>2, <1>3, <1>4 DEF Job!Init, Job!QUEUED

-----------------------------------------------------------------------------

\* Delivered once, a scan goes through its phases in order, shows what it does, publishes
\* with its verdict and keeps its outcome, whatever is paused, resumed, cancelled or
\* dispatched late in between (run, _checkpoint, _control, _dispatch).
THEOREM LifecycleIsKept == ASSUME Once PROVE Spec => KeepsLifecycle
<1>1. OnceInv /\ OnceInv' /\ ToldInv /\ [Next]_vars => ToldInv' /\ JobStep
  BY StepTells
<1> QED
  BY <1>1, InitTells, OnceAlways, PTL DEF Spec, KeepsLifecycle, Job!Spec, JobStep
=============================================================================
