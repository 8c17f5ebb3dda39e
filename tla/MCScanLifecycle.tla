-------------------------- MODULE MCScanLifecycle --------------------------
(* Instances of ScanLifecycle for TLC: the engine lists and the symmetry.   *)
EXTENDS ScanLifecycleJob, TLC

OneEngine == <<"custom">>
TwoEngines == <<"custom", "zap">>

AllOutcomes == EngineResult
\* One outcome of the custom engine, no endpoint, and the unreachable target, where the
\* data do not matter to the properties.
FewOutcomes == {Result("custom", "COMPLETED", "all", FALSE),
                Result("custom", "SKIPPED", "none", FALSE),
                Result("custom", "FAILED", "none", FALSE)}

NoFaults == {}
AllFaults == FaultKinds
WorkerLoss == {"worker_lost"}
SoftLimit == {"soft_limit"}

Symmetry == Permutations(Workers) \union Permutations(Controls)
=============================================================================
