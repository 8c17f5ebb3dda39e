-------------------------- MODULE ScanLifecycleJob --------------------------
(* One delivery of a scan implements ScanJob: the refinement mapping from   *)
(* the row, the requests and the one worker.                                *)
EXTENDS ScanLifecycle

\* The phase of the work of Orchestrator.run, from the statement a worker is at.
WorkerPhase(state) ==
    LET at == IF state.pc \in {"checkpoint", "pausing", "resuming"}
              THEN state.next ELSE state.pc
    IN CASE at = "init" -> 1
         [] at \in {"validate", "discover"} -> 2
         [] at \in {"inventory", "consume", "endpoints", "context"} -> 3
         [] at \in {"engine", "persist", "baselines", "progress", "correlate"} -> 4
         [] at \in {"findings", "reporting"} -> 5
         [] at \in {"assess", "publish"} -> 6
         [] at = "terminate" -> 7
         [] at = "ack" -> 8

Phase ==
    IF \E w \in Workers : ~ At(w, "idle")
    THEN WorkerPhase(worker[CHOOSE w \in Workers : ~ At(w, "idle")])
    ELSE IF copies > 0 /\ queue = 0 THEN 8 ELSE 1

\* A request that read the scan as QUEUED, and will commit an outcome.
LateDecisions ==
    {d \in {"cancel", "dispatch"} :
        CASE d = "dispatch" -> submit = "saved"
          [] d = "cancel" -> \E c \in Controls : /\ control[c].state = "read"
                                                 /\ control[c].action = "cancel"
                                                 /\ control[c].loaded.status = "QUEUED"}

Job == INSTANCE ScanJob WITH
    phase <- Phase,
    shown <- row.status,
    published <- reports > 0,
    late <- LateDecisions

\* Delivered once, a scan goes through its phases in order, shows what it does, publishes
\* with its verdict and keeps its outcome, whatever is paused, resumed, cancelled or
\* dispatched late in between (run, _checkpoint, _control, _dispatch).
KeepsLifecycle == Job!Spec
=============================================================================
