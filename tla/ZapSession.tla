----------------------------- MODULE ZapSession -----------------------------
(***************************************************************************)
(* Consecutive scans of one worker on its one ZAP daemon (ZapEngine in     *)
(* app/engines/external.py).  The daemon keeps a session, a context, the   *)
(* replacer rules that put the authentication of a scan into every request *)
(* and the active scans it was told to start; the shared directory keeps   *)
(* the specification it is told to import.  A scan that fails, is          *)
(* cancelled by the deadline (wait_for in orchestrator.py) or loses its    *)
(* worker leaves them as they are, after a call that the daemon may or may *)
(* not have executed.                                                      *)
(*                                                                         *)
(* The daemon is external: it executes the calls in the order they come.   *)
(***************************************************************************)
EXTENDS Integers

CONSTANTS
    Scans,   \* scans of the worker
    MaxRuns  \* bound: executions of the engine, deliveries included

ASSUME MaxRunsAssumption == MaxRuns \in Nat

\* What the engine is given: whether the scan has authentication that becomes a header,
\* whether it has a specification that may be imported, whether its profile attacks.
Context == [scan : Scans, auth : BOOLEAN, specification : BOOLEAN, active : BOOLEAN]

Results == {"COMPLETED", "FAILED", "TIMEOUT", "SKIPPED"}

\* The calls to the daemon, in the order of execute, and the waits between them.
Locations == {"idle", "newSession", "newContext", "includeInContext", "rules",
              "removeRule", "addRule", "importFile", "accessUrl", "scan", "status",
              "sleep", "stop", "alerts"}

None == "none"

ASSUME NoneAssumption == None \notin Scans

VARIABLES
    context,   \* of the execution under way, or of the last
    pc,
    stale,     \* rules of view/rules still to be removed
    written,   \* this execution has written its specification file
    overdue,   \* the deadline of the active scan has passed
    outcome,   \* the result of the last execution: None while none is known
    runs,      \* executions so far
    lost,      \* scans that ever lost their worker
    cut,       \* the executions that a failed call, a cancellation or a loss ended
    unnumbered,  \* the executions whose active scan was answered without its number
    files,     \* specification files in the shared directory
    session,   \* the daemon: the scan whose session it keeps,
    included,  \* the scan whose context includes the target,
    rules,     \* the scans whose scanner-auth rule is installed,
    attacks,   \* the executions whose active scan is running,
    stopped    \* the executions whose active scan it was told to stop

engine == <<context, pc, stale, written, overdue, outcome, runs, lost, cut, unnumbered>>
daemon == <<session, included, rules, attacks, stopped>>
vars == <<engine, files, daemon>>

TypeOK ==
    /\ context \in Context
    /\ pc \in Locations
    /\ stale \subseteq Scans
    /\ written \in BOOLEAN
    /\ overdue \in BOOLEAN
    /\ outcome \in Results \union {None}
    /\ runs \in 0 .. MaxRuns
    /\ lost \subseteq Scans
    /\ cut \subseteq 1 .. MaxRuns
    /\ unnumbered \subseteq 1 .. MaxRuns
    /\ files \subseteq Scans
    /\ session \in Scans \union {None}
    /\ included \in Scans \union {None}
    /\ rules \subseteq Scans
    /\ attacks \subseteq 1 .. MaxRuns
    /\ stopped \subseteq 1 .. MaxRuns

Init ==
    /\ context \in {c \in Context : ~ c.auth /\ ~ c.specification /\ ~ c.active}
    /\ pc = "idle"
    /\ stale = {}
    /\ written = FALSE
    /\ overdue = FALSE
    /\ outcome = None
    /\ runs = 0
    /\ lost = {}
    /\ cut = {}
    /\ unnumbered = {}
    /\ files = {}
    /\ session = None
    /\ included = None
    /\ rules = {}
    /\ attacks = {}
    /\ stopped = {}

Self == context.scan

-----------------------------------------------------------------------------
(* What the daemon does when it executes the call the engine is at.         *)

\* A new session, which may or may not stop what the old one still runs.
NewSession ==
    /\ session' = Self
    /\ included' = None
    /\ attacks' \in {attacks, {}}
    /\ UNCHANGED <<rules, stopped>>

IncludeInContext ==
    /\ included' = Self
    /\ UNCHANGED <<session, rules, attacks, stopped>>

RemoveRule ==
    /\ \E rule \in stale : rules' = rules \ {rule}
    /\ UNCHANGED <<session, included, attacks, stopped>>

AddRule ==
    /\ rules' = rules \union {Self}
    /\ UNCHANGED <<session, included, attacks, stopped>>

\* Mutant: the answer without a number is taken for scan 0.
StartAttackUnnumbered ==
    /\ attacks' = attacks \union {0}
    /\ UNCHANGED <<session, included, rules, stopped>>

StartAttack ==
    /\ attacks' = attacks \union {runs}
    /\ UNCHANGED <<session, included, rules, stopped>>

StopAttack ==
    /\ attacks' = attacks \ {runs}
    /\ stopped' = stopped \union {runs}
    /\ UNCHANGED <<session, included, rules>>

Execute ==
    \/ pc = "newSession" /\ NewSession
    \/ pc = "includeInContext" /\ IncludeInContext
    \/ pc = "removeRule" /\ RemoveRule
    \/ pc = "addRule" /\ AddRule
    \/ pc = "scan" /\ StartAttack
    \/ pc = "stop" /\ StopAttack
    \/ /\ pc \notin {"newSession", "includeInContext", "removeRule", "addRule", "scan", "stop"}
       /\ UNCHANGED daemon

-----------------------------------------------------------------------------
(* execute, call by call.                                                   *)

Begin(new) ==
    /\ pc = "idle"
    /\ runs < MaxRuns
    /\ runs' = runs + 1
    /\ context' = new
    /\ pc' = "newSession"
    /\ outcome' = None
    /\ written' = FALSE
    /\ overdue' = FALSE
    /\ UNCHANGED <<stale, lost, cut, unnumbered, files, daemon>>

\* validate: the authentication cannot be a header.
Skip(new) ==
    /\ pc = "idle"
    /\ runs < MaxRuns
    /\ runs' = runs + 1
    /\ context' = new
    /\ outcome' = "SKIPPED"
    /\ UNCHANGED <<pc, stale, written, overdue, lost, cut, unnumbered, files, daemon>>

\* The call succeeds, and the engine goes on.
Call(from, to) ==
    /\ pc = from
    /\ pc' = to
    /\ Execute
    /\ UNCHANGED <<context, overdue, outcome, runs, lost, cut, unnumbered>>

\* Where execute goes once the rules are right.
AfterRules == IF context.specification THEN "importFile" ELSE "accessUrl"

\* The specification is written before it is imported.
WriteSpecification(next) ==
    /\ written' = (next = "importFile")
    /\ files' = IF written' THEN files \union {Self} ELSE files

CreateSession ==
    /\ Call("newSession", "newContext")
    /\ UNCHANGED <<stale, written, files>>

CreateContext ==
    /\ Call("newContext", "includeInContext")
    /\ UNCHANGED <<stale, written, files>>

IncludeTarget ==
    /\ Call("includeInContext", "rules")
    /\ UNCHANGED <<stale, written, files>>

AfterRemoval == IF context.auth THEN "addRule" ELSE AfterRules

\* Mutant: only a scan with authentication of its own looks for old rules.
ViewRulesIfNeeded ==
    LET next == IF rules = {} \/ ~ context.auth THEN AfterRemoval ELSE "removeRule" IN
    /\ Call("rules", next)
    /\ stale' = rules
    /\ WriteSpecification(next)

\* view/rules: the ones of earlier scans are removed one by one.
ViewRules ==
    LET next == IF rules = {} THEN AfterRemoval ELSE "removeRule" IN
    /\ Call("rules", next)
    /\ stale' = rules
    /\ WriteSpecification(next)

RemoveStaleRule ==
    LET next == IF \E a, b \in stale : a # b THEN "removeRule" ELSE AfterRemoval IN
    /\ Call("removeRule", next)
    /\ stale' = stale \ (rules \ rules')
    /\ WriteSpecification(next)

AuthenticateRequests ==
    /\ Call("addRule", AfterRules)
    /\ WriteSpecification(AfterRules)
    /\ UNCHANGED stale

ImportSpecification ==
    /\ Call("importFile", "accessUrl")
    /\ UNCHANGED <<stale, written, files>>

AccessUrl ==
    /\ Call("accessUrl", IF context.active THEN "scan" ELSE "alerts")
    /\ UNCHANGED <<stale, written, files>>

\* The daemon answers with the number of the scan.
StartActiveScan ==
    /\ Call("scan", "status")
    /\ UNCHANGED <<stale, written, files>>

\* The answer has no number, whether or not an active scan was started: it is neither
\* polled nor stopped, and the alerts are collected at once.
StartUnnumberedScan(started) ==
    /\ pc = "scan"
    /\ pc' = "alerts"
    /\ IF started THEN Execute ELSE UNCHANGED daemon
    /\ unnumbered' = unnumbered \union {runs}
    /\ UNCHANGED <<context, stale, written, overdue, outcome, runs, lost, cut, files>>

\* Its status is 100.
SeeFinished ==
    /\ runs \notin attacks
    /\ Call("status", "alerts")
    /\ UNCHANGED <<stale, written, files>>

SeeRunning ==
    /\ runs \in attacks
    /\ Call("status", "sleep")
    /\ UNCHANGED <<stale, written, files>>

\* Mutant: the deadline is not looked at between two polls.
WakeAlways ==
    /\ Call("sleep", "status")
    /\ UNCHANGED <<stale, written, files>>

\* Two seconds later.
Wake ==
    /\ Call("sleep", IF overdue THEN "stop" ELSE "status")
    /\ UNCHANGED <<stale, written, files>>

-----------------------------------------------------------------------------
(* The ways out, all through the finally clause.                            *)

\* Mutant: the file is removed on the way out of a whole execution only.
LeaveUncleaned(result) ==
    /\ pc' = "idle"
    /\ stale' = {}
    /\ outcome' = result
    /\ files' = IF result = "COMPLETED" THEN files \ {Self} ELSE files
    /\ UNCHANGED <<context, written, overdue, runs, lost, unnumbered>>

Leave(result) ==
    /\ pc' = "idle"
    /\ stale' = {}
    /\ outcome' = result
    /\ files' = IF written THEN files \ {Self} ELSE files
    /\ UNCHANGED <<context, written, overdue, runs, lost, unnumbered>>

\* Mutant: an active scan that is stopped is followed by its alerts.
StopAndGoOn ==
    /\ Call("stop", "alerts")
    /\ UNCHANGED <<stale, written, files>>

StopActiveScan ==
    /\ pc = "stop"
    /\ Execute
    /\ Leave("TIMEOUT")
    /\ UNCHANGED cut

CollectAlerts ==
    /\ pc = "alerts"
    /\ Leave("COMPLETED")
    /\ UNCHANGED <<cut, daemon>>

CutOff == cut' = cut \union {runs}

InCall == pc \notin {"idle", "sleep"}

\* The call raises; if it is the answer that is lost, the daemon has executed the call.
CallFails(executed) ==
    /\ InCall
    /\ IF executed THEN Execute ELSE UNCHANGED daemon
    /\ Leave("FAILED")
    /\ CutOff

\* wait_for cancels the engine at the deadline of the scan.
Cancel(executed) ==
    /\ pc # "idle"
    /\ IF executed THEN Execute ELSE UNCHANGED daemon
    /\ Leave("TIMEOUT")
    /\ CutOff

\* The worker dies: nothing is cleaned up, and the scan may be delivered again.
WorkerLost(executed) ==
    /\ pc # "idle"
    /\ IF executed THEN Execute ELSE UNCHANGED daemon
    /\ pc' = "idle"
    /\ stale' = {}
    /\ lost' = lost \union {Self}
    /\ CutOff
    /\ UNCHANGED <<context, written, overdue, outcome, runs, unnumbered, files>>

-----------------------------------------------------------------------------

\* The daemon is done with an active scan.
AttackEnds(run) ==
    /\ run \in attacks
    /\ attacks' = attacks \ {run}
    /\ UNCHANGED <<engine, files, session, included, rules, stopped>>

DeadlinePasses ==
    /\ pc \in {"status", "sleep"}
    /\ ~ overdue
    /\ overdue' = TRUE
    /\ UNCHANGED <<context, pc, stale, written, outcome, runs, lost, cut, unnumbered, files,
                   daemon>>

Finished == pc = "idle" /\ runs = MaxRuns /\ UNCHANGED vars

EngineStep ==
    \/ CreateSession \/ CreateContext \/ IncludeTarget
    \/ ViewRules \/ RemoveStaleRule \/ AuthenticateRequests
    \/ ImportSpecification
    \/ AccessUrl
    \/ StartActiveScan \/ \E started \in BOOLEAN : StartUnnumberedScan(started)
    \/ SeeFinished \/ SeeRunning \/ Wake \/ StopActiveScan
    \/ CollectAlerts
    \/ \E executed \in BOOLEAN : CallFails(executed)

Next ==
    \/ \E new \in Context : Begin(new) \/ Skip(new)
    \/ EngineStep
    \/ \E executed \in BOOLEAN : Cancel(executed) \/ WorkerLost(executed)
    \/ \E run \in attacks : AttackEnds(run)
    \/ DeadlinePasses
    \/ Finished

Spec == Init /\ [][Next]_vars

\* Every call ends (the client gives up after 30 seconds), and time passes.  Neither the
\* active scan nor the cancellation is relied on.
FairSpec == Spec /\ WF_vars(EngineStep) /\ WF_vars(DeadlinePasses)

-----------------------------------------------------------------------------

\* While a scan has requests sent, the daemon keeps its session and its context and puts
\* its authentication and no other into them, however the earlier scans ended (execute, up
\* to accessUrl).  No other scan's requests are sent under these rules, except those of an
\* active scan that nobody stopped: its execution was cut off, or never had its number.
RulesAreOwn ==
    pc \in {"importFile", "accessUrl", "scan", "status", "sleep"} =>
        /\ session = Self
        /\ included = Self
        /\ rules = (IF context.auth THEN {Self} ELSE {})
        /\ attacks \subseteq {runs} \union cut \union unnumbered

\* The submitted specification does not stay in the shared directory, whichever call
\* failed and wherever the engine was cancelled: only a scan that lost its worker leaves
\* its file (the finally clause of execute).
SpecificationsRemoved == pc = "idle" => files \subseteq lost

\* COMPLETED is said of an active scan that ran to its end: it does not still run, unless
\* the engine never had its number, and was not cut short by the engine's deadline (the
\* polling loop and its else clause).
CompletedIsWhole ==
    outcome = "COMPLETED" => runs \notin (attacks \ unnumbered) \union stopped

\* SECURITY.md, "hard worker/tool deadlines remain in force": what TIMEOUT is said of does
\* not go on attacking the target.  It does, when wait_for is the one to cut it off.
AttackEndsByDeadline == outcome = "TIMEOUT" => runs \notin attacks

\* The engine always returns, although the daemon may never finish an active scan.
EngineReturns == pc # "idle" ~> pc = "idle"
=============================================================================
