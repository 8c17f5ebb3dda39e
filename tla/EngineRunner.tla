---------------------------- MODULE EngineRunner ----------------------------
(***************************************************************************)
(* One run of a command line tool: RunnerEngine.execute on the worker's    *)
(* side (app/engines/external.py), run and _run_process in the sidecar     *)
(* (engine_runner/main.py), and the tool, a child process that writes to   *)
(* two pipes.                                                              *)
(*                                                                         *)
(* A StreamReader's read(n) returns what has arrived as soon as something  *)
(* has, so that the sidecar reads each pipe once and waits for the process *)
(* to end afterwards.  A pipe, with the reader's buffer behind it, holds   *)
(* Capacity chunks; a tool that writes to a full one blocks.               *)
(***************************************************************************)
EXTENDS Integers

CONSTANTS
    Deadline,   \* effective_duration of the tool, in ticks
    Patience,   \* of the worker: max_duration and 15 seconds
    Capacity,   \* chunks a pipe holds
    Output,     \* chunks the tool writes to a pipe at most
    WithProxy   \* whether the tool (WuppieFuzz) gets a proxy job

ASSUME ParametersAssumption ==
    /\ Deadline \in Nat \ {0}
    /\ Patience \in Nat /\ Patience > Deadline
    /\ Capacity \in Nat \ {0}
    /\ Output \in Nat
    /\ WithProxy \in BOOLEAN

Streams == {"stdout", "stderr"}
Statuses == {"COMPLETED", "FAILED", "SKIPPED", "TIMEOUT"}

VARIABLES
    client,    \* the worker's request: posting, cancelled, or the status it reports
    waited,    \* ticks the worker has waited
    server,    \* where the sidecar's handler is
    answer,    \* of the sidecar, an HTTP error among them
    job,       \* whether the proxy job is in PROXY_JOBS
    tool,      \* the process, or how it ended: return code 0 or 1, another, SIGKILL
    age,       \* ticks since the tool was started, no further than past the deadline
    left,      \* chunks the tool has still to write
    pipe,      \* chunks in each pipe
    captured   \* what the sidecar has read from each

process == <<tool, left, pipe>>
clocks == <<waited, age>>
vars == <<client, server, answer, job, captured, process, clocks>>

TypeOK ==
    /\ client \in Statuses \union {"posting", "cancelled"}
    /\ waited \in 0 .. Patience
    /\ server \in {"validating", "preparing", "reading", "waiting", "answered"}
    /\ answer \in Statuses \union {"none", "error"}
    /\ job \in BOOLEAN
    /\ tool \in {"none", "running", "success", "failure", "killed"}
    /\ age \in 0 .. Deadline + 1
    /\ left \in [Streams -> 0 .. Output]
    /\ pipe \in [Streams -> 0 .. Capacity]
    /\ captured \in [Streams -> {"pending", "chunk", "excess"}]

Init ==
    /\ client = "posting"
    /\ waited = 0
    /\ server = "validating"
    /\ answer = "none"
    /\ job = FALSE
    /\ tool = "none"
    /\ age = 0
    /\ left \in [Streams -> 0 .. Output]
    /\ pipe = [s \in Streams |-> 0]
    /\ captured = [s \in Streams |-> "pending"]

-----------------------------------------------------------------------------
(* The sidecar.                                                             *)

Answer(status) == server' = "answered" /\ answer' = status

\* The token, the target or an endpoint is refused, or the tool has no specification
\* to work with.
Refuse ==
    /\ server = "validating"
    /\ \E status \in {"error"} \union (IF WithProxy THEN {"SKIPPED"} ELSE {}) :
         Answer(status)
    /\ UNCHANGED <<client, job, captured, process, clocks>>

Register ==
    /\ server = "validating"
    /\ server' = "preparing"
    /\ job' = WithProxy
    /\ UNCHANGED <<client, answer, captured, process, clocks>>

\* The command cannot be built (its files cannot be written): this is outside the try
\* statement whose finally clause removes the job.
PrepareFails ==
    /\ server = "preparing"
    /\ Answer("error")
    /\ UNCHANGED <<client, job, captured, process, clocks>>

StartFails ==
    /\ server = "preparing"
    /\ Answer("FAILED")
    /\ job' = FALSE
    /\ UNCHANGED <<client, captured, process, clocks>>

Start ==
    /\ server = "preparing"
    /\ server' = "reading"
    /\ tool' = "running"
    /\ UNCHANGED <<client, answer, job, captured, left, pipe, clocks>>

\* What has arrived, or the end of the stream once nobody writes any more.
Read(s) ==
    /\ server = "reading"
    /\ captured[s] = "pending"
    /\ pipe[s] > 0 \/ tool # "running"
    /\ \E what \in {"chunk"} \union (IF pipe[s] > 0 THEN {"excess"} ELSE {}) :
         captured' = [captured EXCEPT ![s] = what]
    /\ pipe' = [pipe EXCEPT ![s] = 0]
    /\ UNCHANGED <<client, server, answer, job, tool, left, clocks>>

Gathered == server = "reading" /\ \A s \in Streams : captured[s] # "pending"

\* killpg, and process.wait() for the process that it ends.
Kill == tool' = IF tool = "running" THEN "killed" ELSE tool

OutputExceeds ==
    /\ Gathered
    /\ \E s \in Streams : captured[s] = "excess"
    /\ Kill
    /\ job' = FALSE
    /\ Answer("FAILED")
    /\ UNCHANGED <<client, captured, left, pipe, clocks>>

AwaitExit ==
    /\ Gathered
    /\ \A s \in Streams : captured[s] = "chunk"
    /\ server' = "waiting"
    /\ UNCHANGED <<client, answer, job, captured, process, clocks>>

\* Mutant: the tool is left alone.
TimeOutQuietly ==
    /\ server = "reading"
    /\ age = Deadline
    /\ job' = FALSE
    /\ Answer("TIMEOUT")
    /\ UNCHANGED <<client, captured, process, clocks>>

\* wait_for gives up reading.  killpg raises an OSError if the process is already gone.
TimeOut ==
    /\ server = "reading"
    /\ age = Deadline
    /\ Kill
    /\ job' = FALSE
    /\ \E status \in {"TIMEOUT"} \union (IF tool = "running" THEN {} ELSE {"FAILED"}) :
         Answer(status)
    /\ UNCHANGED <<client, captured, left, pipe, clocks>>

\* Mutant: the return code is not looked at.
FinishAnyway ==
    /\ server = "waiting"
    /\ tool # "running"
    /\ job' = FALSE
    /\ \E status \in {"COMPLETED", "error"} : Answer(status)
    /\ UNCHANGED <<client, captured, process, clocks>>

\* The process has ended; its report may still turn out unreadable.
Finish ==
    /\ server = "waiting"
    /\ tool # "running"
    /\ job' = FALSE
    /\ \E status \in {IF tool = "success" THEN "COMPLETED" ELSE "FAILED", "error"} :
         Answer(status)
    /\ UNCHANGED <<client, captured, process, clocks>>

-----------------------------------------------------------------------------
(* The tool.                                                                *)

Write(s) ==
    /\ tool = "running"
    /\ left[s] > 0
    /\ pipe[s] < Capacity
    /\ left' = [left EXCEPT ![s] = @ - 1]
    /\ pipe' = [pipe EXCEPT ![s] = @ + 1]
    /\ UNCHANGED <<client, server, answer, job, captured, tool, clocks>>

Blocked == \E s \in Streams : left[s] > 0 /\ pipe[s] = Capacity

\* By itself or by a resource limit; blocked in a write it does neither.
Exit ==
    /\ tool = "running"
    /\ ~ Blocked
    /\ tool' \in {"success", "failure"}
    /\ UNCHANGED <<client, server, answer, job, captured, left, pipe, clocks>>

-----------------------------------------------------------------------------
(* The worker.                                                              *)

\* Mutant: the status of the response is not checked.
ReceiveUnchecked ==
    /\ client = "posting"
    /\ answer # "none"
    /\ client' = answer
    /\ UNCHANGED <<server, answer, job, captured, process, clocks>>

\* An HTTP error, and any failure of the connection, is a failed engine.
Receive ==
    /\ client = "posting"
    /\ \/ answer # "none" /\ client' = IF answer = "error" THEN "FAILED" ELSE answer
       \/ client' = "FAILED"
    /\ UNCHANGED <<server, answer, job, captured, process, clocks>>

\* Mutant: only the connection has a time limit.
GiveUpConnecting ==
    /\ client = "posting"
    /\ waited = Patience
    /\ server = "validating"
    /\ client' = "TIMEOUT"
    /\ UNCHANGED <<server, answer, job, captured, process, clocks>>

GiveUp ==
    /\ client = "posting"
    /\ waited = Patience
    /\ client' = "TIMEOUT"
    /\ UNCHANGED <<server, answer, job, captured, process, clocks>>

\* The deadline of the scan; the sidecar does not notice.
Cancel ==
    /\ client = "posting"
    /\ client' = "cancelled"
    /\ UNCHANGED <<server, answer, job, captured, process, clocks>>

\* Timers that are due fire before time goes on.
Tick ==
    /\ server = "reading" => age < Deadline
    /\ client = "posting" => waited < Patience
    /\ waited' = IF client = "posting" THEN waited + 1 ELSE waited
    /\ age' = IF server \in {"reading", "waiting"} /\ age <= Deadline THEN age + 1 ELSE age
    /\ UNCHANGED <<client, server, answer, job, captured, process>>

-----------------------------------------------------------------------------

Sidecar ==
    \/ Refuse \/ Register
    \/ PrepareFails \/ StartFails \/ Start
    \/ \E s \in Streams : Read(s)
    \/ OutputExceeds \/ AwaitExit \/ TimeOut \/ Finish

Tool == Exit \/ \E s \in Streams : Write(s)

Worker == Receive \/ GiveUp \/ Cancel

Next == Sidecar \/ Tool \/ Worker \/ Tick

Spec == Init /\ [][Next]_vars

\* Timers fire and time passes; nothing is assumed of the tool.
Fairness == WF_vars(TimeOut) /\ WF_vars(GiveUp) /\ WF_vars(Tick)

FairSpec == Spec /\ Fairness

-----------------------------------------------------------------------------
(* Properties.                                                              *)

\* When the sidecar has answered, by whichever way out of run and _run_process, its tool
\* is gone, and with it the proxy job; only a job whose tool never started stays behind.
AnsweredIsReaped ==
    server = "answered" =>
        /\ tool # "running"
        /\ job => tool = "none"

\* A worker that reports COMPLETED has an answer made after the tool ended by itself and
\* with success, however the deadlines, the pipes and the exit interleaved.
CompletedIsTrue == client = "COMPLETED" => tool = "success"

\* The worker goes on to its next engine, whatever becomes of the sidecar and the tool.
WorkerReturns == client = "posting" ~> client # "posting"

\* SECURITY.md, "hard worker/tool deadlines remain in force": a tool does not run past
\* its deadline.
ToolEndsByDeadline == tool = "running" => age <= Deadline
=============================================================================
