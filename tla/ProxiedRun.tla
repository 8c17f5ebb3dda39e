----------------------------- MODULE ProxiedRun -----------------------------
(***************************************************************************)
(* The proxy of the engine runner in one run of a fuzzer: wuppie_proxy     *)
(* (engine_runner/main.py) looks its job up by name, reads the body and    *)
(* goes on with the job it holds, while run ends, takes the job out of     *)
(* PROXY_JOBS and reports its count.  RequestBudget says what a request    *)
(* does under the budget of the job; a caller is a connection of the tool, *)
(* with one request at a time.                                             *)
(***************************************************************************)
EXTENDS RequestBudget, FiniteSets

VARIABLES
    job,       \* the entry of PROXY_JOBS: "registered" or "removed"
    admitted,  \* connections whose request holds the job
    reported,  \* the count of the job when run took it out
    held       \* the requests that held it then

proxy == <<job, admitted, reported, held>>
proxiedVars == <<vars, proxy>>

ProxyTypeOK ==
    /\ TypeOK
    /\ job \in {"registered", "removed"}
    /\ admitted \subseteq Callers
    /\ reported \in 0 .. Maximum
    /\ held \subseteq Callers

ProxiedInit ==
    /\ Init
    /\ job = "registered"
    /\ admitted = {}
    /\ reported = 0
    /\ held = {}

\* Mutant: the job is found although it was removed.
AdmitAnyway(c) ==
    /\ caller[c].pc = "idle"
    /\ admitted' = admitted \union {c}
    /\ UNCHANGED <<vars, job, reported, held>>

\* PROXY_JOBS.get; the body of the request is still to be read.
Admit(c) ==
    /\ job = "registered"
    /\ caller[c].pc = "idle"
    /\ admitted' = admitted \union {c}
    /\ UNCHANGED <<vars, job, reported, held>>

\* The body is too large: the request ends before take().
RejectBody(c) ==
    /\ c \in admitted
    /\ caller[c].pc = "idle"
    /\ admitted' = admitted \ {c}
    /\ UNCHANGED <<vars, job, reported, held>>

\* An admitted request takes a step of RequestBudget, and may end with it.
Handle(c, step) ==
    /\ c \in admitted
    /\ step
    /\ admitted' = IF caller'[c].pc \in {"idle", "cancelled"} THEN admitted \ {c} ELSE admitted
    /\ UNCHANGED <<job, reported, held>>

Send(c) == Request(c) \/ RequestFails(c)

\* The tool ended or was killed: the finally clause of run, and the count it reports.
RemoveJob ==
    /\ job = "registered"
    /\ job' = "removed"
    /\ reported' = IF count < Maximum THEN count ELSE Maximum
    /\ held' = admitted
    /\ UNCHANGED <<vars, admitted>>

ProxyTick == Tick /\ UNCHANGED proxy

ProxiedNext ==
    \/ \E c \in Callers : Admit(c)
    \/ \E c \in Callers : RejectBody(c)
    \/ \E c \in Callers : Handle(c, Wait(c))
    \/ \E c \in Callers : Handle(c, Enter(c))
    \/ \E c \in Callers : Handle(c, GrantAfterSleep(c))
    \/ \E c \in Callers : Handle(c, Send(c))
    \/ \E c \in Callers : Handle(c, Cancel(c))
    \/ RemoveJob
    \/ ProxyTick

ProxiedSpec == ProxiedInit /\ [][ProxiedNext]_proxiedVars

\* The event loop runs every handler, time passes, and every request times out.
ProxiedFairness ==
    /\ \A c \in Callers :
         /\ WF_proxiedVars(RejectBody(c) \/ Handle(c, Wait(c) \/ Enter(c)))
         /\ WF_proxiedVars(Handle(c, GrantAfterSleep(c)))
         /\ WF_proxiedVars(Handle(c, Send(c)))
    /\ WF_proxiedVars(ProxyTick)

FairProxiedSpec == ProxiedSpec /\ ProxiedFairness

-----------------------------------------------------------------------------

\* The requests that reach the target after run has answered, which its request_count
\* leaves out, are no more than were under way when the job was removed.
UncountedIsBounded == job = "removed" => count <= reported + Cardinality(held)

\* Once its job is removed the proxy falls silent: the requests that still wait for the
\* budget are served or end, and none comes in.
FallsSilent == job = "removed" ~> [](admitted = {})
=============================================================================
