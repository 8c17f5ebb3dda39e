---------------------------- MODULE CustomEngine ----------------------------
(***************************************************************************)
(* The custom engine (CustomApiEngine, app/engines/custom.py): endpoints   *)
(* are tested concurrently, as many as the semaphore admits, from one      *)
(* budget of requests; the authorization checks follow in sequence.  What  *)
(* it leaves behind is one row per endpoint and check, which coverage      *)
(* (app/coverage/service.py) turns into the assessment of the scan.        *)
(*                                                                         *)
(* Every request is an await, and one step; pacing is left to              *)
(* RequestBudget.  A check sends one request per mutation point, whatever  *)
(* the number of its payloads.  TESTED stands for DETECTED too: both count *)
(* as attempted.                                                           *)
(***************************************************************************)
EXTENDS Integers, FiniteSets, SequencesExt

CONSTANTS
    Inventory,    \* endpoints: method, auth_required, whether the path has a parameter,
                  \* whether it is administrative, and of each mutation point the active
                  \* checks it is a candidate for
    Active,       \* the active checks, in order
    MaxPoints,    \* points mutated per endpoint; 0 in a profile without active checks
    Budgets,      \* the max_requests a scan may have
    Concurrency,  \* of the semaphore
    Collector,    \* whether the OAST collector is configured
    Identities    \* whether there are identities to compare

Endpoints == DOMAIN Inventory

ASSUME ParametersAssumption ==
    /\ Active \in Seq(STRING)
    /\ Inventory \in Seq([method : {"GET", "HEAD", "OPTIONS", "POST"}, auth : BOOLEAN,
                          parameter : BOOLEAN, admin : BOOLEAN,
                          points : Seq(SUBSET ToSet(Active))])
    /\ MaxPoints \in Nat
    /\ Budgets \subseteq Nat
    /\ Concurrency \in Nat \ {0}
    /\ Collector \in BOOLEAN
    /\ Identities \in BOOLEAN

Passive == <<"security-headers", "excessive-data-exposure", "cors-misconfiguration",
             "missing-authentication">>

Authorization == <<"bola", "bfla">>

\* Every check has a name of its own.
ASSUME NamesAssumption ==
    /\ \A i, j \in DOMAIN Active : Active[i] = Active[j] => i = j
    /\ ToSet(Active) \intersect ({"insecure-transport", "baseline"}
                                \union ToSet(Passive) \union ToSet(Authorization)) = {}

\* The checks of _test_endpoint.
Checks == {"insecure-transport", "baseline"} \union ToSet(Passive) \union ToSet(Active)

Row(check, status, requests) == [check |-> check, status |-> status, requests |-> requests]

Rows == [check : Checks \union ToSet(Authorization),
         status : {"TESTED", "SKIPPED", "ERROR", "NOT_APPLICABLE"},
         requests : Nat]

VARIABLES
    phase,      \* of execute
    maximum,    \* of the budget
    count,      \* its grants
    test,       \* the coroutine of each endpoint
    authRows,   \* the rows of the authorization checks, endpoint by endpoint
    answered,   \* endpoints whose baseline was answered (history)
    mutated     \* mutations answered: endpoint, check, point (history)

vars == <<phase, maximum, count, test, authRows, answered, mutated>>

Test == [pc : {"queued", "baseline", "cors", "unauthenticated", "active", "done", "raised"},
         rows : Seq(Rows),
         work : SUBSET ((DOMAIN Active) \X Nat),  \* mutations to come: active check, point
         activeRows : Seq(Rows)]                \* of the active checks, as they stand

TypeOK ==
    /\ phase \in {"running", "finished", "failed", "cancelled"}
    /\ maximum \in Budgets
    /\ count \in 0 .. maximum
    /\ test \in [Endpoints -> Test]
    /\ authRows \in [Endpoints -> Seq(Rows)]
    /\ answered \subseteq Endpoints
    /\ mutated \subseteq Endpoints \X ToSet(Active) \X Nat

Init ==
    /\ phase = "running"
    /\ maximum \in Budgets
    /\ count = 0
    /\ test = [e \in Endpoints |->
                 [pc |-> "queued", rows |-> << >>, work |-> {}, activeRows |-> << >>]]
    /\ authRows = [e \in Endpoints |-> << >>]
    /\ answered = {}
    /\ mutated = {}

-----------------------------------------------------------------------------
(* What does not depend on the course of the test.                          *)

Retrieval(e) == Inventory[e].method \in {"GET", "HEAD", "OPTIONS"}

Points(e, check) ==
    {p \in DOMAIN Inventory[e].points : check \in Inventory[e].points[p]}

Limited(e, check) == {p \in Points(e, check) : p <= MaxPoints}

Unless(applies, status) == IF applies THEN status ELSE "NOT_APPLICABLE"

PassiveApplies(e, check) ==
    IF check = "missing-authentication" THEN Inventory[e].auth ELSE Retrieval(e)

\* The rows of the active checks when none of them is executed.
SkippedRows(e) ==
    [i \in DOMAIN Active |-> Row(Active[i], Unless(Points(e, Active[i]) # {}, "SKIPPED"), 0)]

\* A failed baseline leaves a row for every check of its endpoint.
FanOut(e) ==
    <<Row("baseline", "ERROR", 0)>>
    \o [i \in DOMAIN Passive |->
          Row(Passive[i], Unless(PassiveApplies(e, Passive[i]), "SKIPPED"), 0)]
    \o SkippedRows(e)

Executed(check) == check # "ssrf" \/ Collector

Work(e) == {m \in (DOMAIN Active) \X (DOMAIN Inventory[e].points) :
              Executed(Active[m[1]]) /\ m[2] \in Limited(e, Active[m[1]])}

\* The rows of the active checks before their first request.
StartedRows(e) ==
    [i \in DOMAIN Active |->
       Row(Active[i],
           Unless(Limited(e, Active[i]) # {},
                  IF Executed(Active[i]) THEN "TESTED" ELSE "SKIPPED"),
           0)]

-----------------------------------------------------------------------------
(* _test_endpoint.                                                          *)

Ended == {e \in Endpoints : test[e].pc \in {"done", "raised"}}

At(e, pc) == phase = "running" /\ test[e].pc = pc

Becomes(e, new) ==
    /\ test' = [test EXCEPT ![e] = new]
    /\ UNCHANGED <<phase, maximum, authRows>>

\* Mutant: the budget is tested after the request.
TakeLate(n) == count <= maximum /\ count' = count + n

\* take(), where it grants.
Take(n) == count + n <= maximum /\ count' = count + n

\* A request gets no answer: before it is sent (the budget is spent, the address is
\* refused) or afterwards.
NoAnswer ==
    /\ UNCHANGED count \/ Take(1)
    /\ UNCHANGED <<answered, mutated>>

\* Mutant: a test that raised keeps its place in the semaphore.
EnterUnreleased(e) ==
    /\ At(e, "queued")
    /\ Cardinality({d \in Endpoints : test[d].pc \notin {"queued", "done"}}) < Concurrency
    /\ Becomes(e, [test[e] EXCEPT !.pc = "baseline",
                                  !.rows = <<Row("insecure-transport", "TESTED", 0)>>])
    /\ UNCHANGED <<count, answered, mutated>>

Enter(e) ==
    /\ At(e, "queued")
    /\ Cardinality({d \in Endpoints \ Ended : test[d].pc # "queued"}) < Concurrency
    /\ Becomes(e, [test[e] EXCEPT !.pc = "baseline",
                                  !.rows = <<Row("insecure-transport", "TESTED", 0)>>])
    /\ UNCHANGED <<count, answered, mutated>>

\* Where the test of e goes with these rows: to its mutations, if there are any ...
ToActive(e, rows) ==
    IF Work(e) # {}
    THEN [test[e] EXCEPT !.pc = "active", !.rows = rows, !.work = Work(e),
                         !.activeRows = StartedRows(e)]
    ELSE [test[e] EXCEPT !.pc = "done",
                         !.rows = rows \o (IF MaxPoints = 0 THEN SkippedRows(e)
                                                            ELSE StartedRows(e))]

\* ... after a request without credentials, if the operation requires them.
ToUnauthenticated(e, rows) ==
    IF Inventory[e].auth
    THEN [test[e] EXCEPT !.pc = "unauthenticated", !.rows = rows]
    ELSE ToActive(e, Append(rows, Row("missing-authentication", "NOT_APPLICABLE", 0)))

BaselineAnswered(e) ==
    /\ At(e, "baseline")
    /\ Take(1)
    /\ answered' = answered \union {e}
    /\ LET based == Append(test[e].rows, Row("baseline", "TESTED", 1))
           passive(status, checks) == [i \in checks |-> Row(Passive[i], status, 0)]
       IN Becomes(e, IF Retrieval(e)
                     THEN [test[e] EXCEPT !.pc = "cors",
                                          !.rows = based \o passive("TESTED", 1 .. 2)]
                     ELSE ToUnauthenticated(e, based \o passive("NOT_APPLICABLE", 1 .. 3)))
    /\ UNCHANGED mutated

BaselineFails(e) ==
    /\ At(e, "baseline")
    /\ NoAnswer
    /\ Becomes(e, [test[e] EXCEPT !.pc = "done", !.rows = @ \o FanOut(e)])

CorsAnswered(e) ==
    /\ At(e, "cors")
    /\ Take(1)
    /\ Becomes(e, ToUnauthenticated(e,
                    Append(test[e].rows, Row("cors-misconfiguration", "TESTED", 1))))
    /\ UNCHANGED <<answered, mutated>>

\* Mutant: the row counts a request that may not have been granted.
CorsFailsCounted(e) ==
    /\ At(e, "cors")
    /\ NoAnswer
    /\ Becomes(e, ToUnauthenticated(e,
                    Append(test[e].rows, Row("cors-misconfiguration", "ERROR", 1))))

CorsFails(e) ==
    /\ At(e, "cors")
    /\ NoAnswer
    /\ Becomes(e, ToUnauthenticated(e,
                    Append(test[e].rows, Row("cors-misconfiguration", "ERROR", 0))))

UnauthenticatedAnswered(e) ==
    /\ At(e, "unauthenticated")
    /\ Take(1)
    /\ Becomes(e, ToActive(e, Append(test[e].rows, Row("missing-authentication", "TESTED", 1))))
    /\ UNCHANGED <<answered, mutated>>

UnauthenticatedFails(e) ==
    /\ At(e, "unauthenticated")
    /\ NoAnswer
    /\ Becomes(e, ToActive(e, Append(test[e].rows, Row("missing-authentication", "ERROR", 0))))

-----------------------------------------------------------------------------
(* _input_validation_tests: check by check, point by point.                 *)

\* The mutation m is over; row is the row of its check from now on.
Mutated(e, m, row) ==
    LET work == test[e].work \ {m}
        rows == [test[e].activeRows EXCEPT ![m[1]] = row]
    IN Becomes(e, IF work # {}
                  THEN [test[e] EXCEPT !.work = work, !.activeRows = rows]
                  ELSE [test[e] EXCEPT !.pc = "done", !.work = {}, !.activeRows = << >>,
                                       !.rows = @ \o rows])

Upcoming(e) == CHOOSE m \in test[e].work :
    \A n \in test[e].work : m[1] < n[1] \/ (m[1] = n[1] /\ m[2] <= n[2])

\* The mutation is answered; the collector of ssrf may not be able to tell of a callback.
MutationAnswered(e) ==
    /\ At(e, "active")
    /\ Take(1)
    /\ LET m == Upcoming(e)
           row == test[e].activeRows[m[1]]
       IN /\ mutated' = mutated \union {<<e, row.check, m[2]>>}
          /\ \E status \in {row.status} \union (IF row.check = "ssrf" THEN {"ERROR"} ELSE {}) :
               Mutated(e, m, Row(row.check, status, row.requests + 1))
    /\ UNCHANGED answered

\* The collector does not take the token: the point of ssrf is passed over.
RegistrationFails(e) ==
    /\ At(e, "active")
    /\ LET m == Upcoming(e)
           row == test[e].activeRows[m[1]]
       IN row.check = "ssrf" /\ Mutated(e, m, [row EXCEPT !.status = "ERROR"])
    /\ UNCHANGED <<count, answered, mutated>>

\* Mutant: what the active checks had is kept as it stands.
ActiveFailsAsIs(e) ==
    /\ At(e, "active")
    /\ NoAnswer
    /\ Becomes(e, [test[e] EXCEPT !.pc = "done", !.work = {}, !.activeRows = << >>,
                                  !.rows = @ \o test[e].activeRows])

\* Mutant: the rows of the checks already under way are kept beside the errors.
ActiveFailsTwice(e) ==
    /\ At(e, "active")
    /\ NoAnswer
    /\ Becomes(e, [test[e] EXCEPT !.pc = "done", !.work = {}, !.activeRows = << >>,
                                  !.rows = @ \o SelectSeq(test[e].activeRows,
                                                          LAMBDA row : row.requests > 0)
                                             \o [i \in DOMAIN Active |->
                                                   Row(Active[i], "ERROR", 0)]])

\* The first request without an answer stops all the active checks, applicable or not.
ActiveFails(e) ==
    /\ At(e, "active")
    /\ NoAnswer
    /\ Becomes(e, [test[e] EXCEPT !.pc = "done", !.work = {}, !.activeRows = << >>,
                                  !.rows = @ \o [i \in DOMAIN Active |->
                                                   Row(Active[i], "ERROR", 0)]])

\* An exception that _test_endpoint does not expect (httpx.InvalidURL, RecursionError in
\* the JSON of an answer): gather keeps it in place of the rows of the endpoint.
Raises(e) ==
    /\ phase = "running" /\ e \notin Ended /\ test[e].pc # "queued"
    /\ \/ UNCHANGED <<count, answered>>
       \/ Take(1) /\ answered' = answered \union (IF At(e, "baseline") THEN {e} ELSE {})
    /\ Becomes(e, [test[e] EXCEPT !.pc = "raised", !.rows = << >>, !.work = {},
                                  !.activeRows = << >>])
    /\ UNCHANGED mutated

TestEndpoint(e) ==
    \/ Enter(e)
    \/ BaselineAnswered(e) \/ BaselineFails(e)
    \/ CorsAnswered(e) \/ CorsFails(e)
    \/ UnauthenticatedAnswered(e) \/ UnauthenticatedFails(e)
    \/ MutationAnswered(e) \/ RegistrationFails(e) \/ ActiveFails(e)
    \/ Raises(e)

-----------------------------------------------------------------------------
(* _authorization_tests, after all of the endpoints, and the end of execute. *)

\* The endpoints whose authorization checks are still to come.
Uncompared == {e \in Endpoints : Len(authRows[e]) < Len(Authorization)}

Candidate(e, check) ==
    IF check = "bola"
    THEN Inventory[e].method = "GET" /\ Inventory[e].auth /\ Inventory[e].parameter
    ELSE Inventory[e].admin

Comparable(e, check) ==
    Identities /\ (check = "bfla" => Inventory[e].method \in {"GET", "HEAD"})

\* The two requests follow each other, and no one else asks the budget any more.
Compare ==
    /\ phase = "running" /\ Ended = Endpoints /\ Uncompared # {}
    /\ LET e == CHOOSE d \in Uncompared : \A c \in Uncompared : d <= c
           check == Authorization[Len(authRows[e]) + 1]
           leaves(status, requests) ==
               authRows' = [authRows EXCEPT ![e] = Append(@, Row(check, status, requests))]
       IN \/ /\ Candidate(e, check) /\ Comparable(e, check)
             /\ \/ Take(2) /\ leaves("TESTED", 2)
                \/ (UNCHANGED count \/ Take(1) \/ Take(2)) /\ leaves("ERROR", 0)
          \/ /\ ~ (Candidate(e, check) /\ Comparable(e, check))
             /\ leaves(Unless(Candidate(e, check), "SKIPPED"), 0)
             /\ UNCHANGED count
    /\ UNCHANGED <<phase, maximum, test, answered, mutated>>

\* An exception that the comparisons do not expect ends execute.
CompareRaises ==
    /\ phase = "running" /\ Ended = Endpoints /\ Uncompared # {}
    /\ UNCHANGED count \/ Take(1) \/ Take(2)
    /\ phase' = "failed"
    /\ UNCHANGED <<maximum, test, authRows, answered, mutated>>

Finish ==
    /\ phase = "running" /\ Ended = Endpoints /\ Uncompared = {}
    /\ phase' = "finished"
    /\ UNCHANGED <<maximum, count, test, authRows, answered, mutated>>

\* wait_for cancels the engine at the deadline of the scan.
Cancel ==
    /\ phase = "running"
    /\ phase' = "cancelled"
    /\ UNCHANGED <<maximum, count, test, authRows, answered, mutated>>

Execute == Compare \/ CompareRaises \/ Finish

Next == (\E e \in Endpoints : TestEndpoint(e)) \/ Execute \/ Cancel

Spec == Init /\ [][Next]_vars

\* A request ends: the client has a timeout.
Fairness == (\A e \in Endpoints : WF_vars(TestEndpoint(e))) /\ WF_vars(Execute)

FairSpec == Spec /\ Fairness

-----------------------------------------------------------------------------
(* What the orchestrator and coverage make of the rows.                     *)

\* raw["checks"]: there are none if execute did not return.
Reported(e) == IF phase = "finished" THEN ToSet(test[e].rows \o authRows[e]) ELSE {}

\* _apply_endpoint_baselines.
Tested == {e \in Endpoints :
             \E row \in Reported(e) : row.check = "baseline" /\ row.status = "TESTED"}

\* Rows of runtime checks that applied and were not attempted.
Gaps(e) == {row \in Reported(e) : /\ row.check \notin {"baseline", "insecure-transport"}
                                  /\ row.status \in {"SKIPPED", "ERROR"}}

\* calculate_coverage.
Assessment ==
    CASE Tested = {} -> "INCOMPLETE"
      [] Tested # {} /\ (Tested # Endpoints \/ \E e \in Endpoints : Gaps(e) # {}) -> "PARTIAL"
      [] OTHER -> "COMPLETE"

-----------------------------------------------------------------------------
(* Properties.                                                              *)

\* Whichever way the test of an endpoint ends, it leaves one row of every check
\* (_test_endpoint and its error paths): coverage counts rows, so that a row too many or
\* too few would change what was eligible.
OneRowEach ==
    \A e \in Endpoints : test[e].pc = "done" =>
      /\ {row.check : row \in ToSet(test[e].rows)} = Checks
      /\ Len(test[e].rows) = Cardinality(Checks)

\* The rows that there are for e, in the order in which they were begun.
Written(e) == test[e].rows \o test[e].activeRows \o authRows[e]

\* The requests they claim, each by its row and its number in the row.
Claimed(e) ==
    UNION {{<<e, i>>} \X (1 .. Written(e)[i].requests) : i \in DOMAIN Written(e)}

\* The requests that the rows claim, those of all the endpoints together, have been granted
\* (request_count of a row, RequestBudget.count).
ClaimsWithinBudget == Cardinality(UNION {Claimed(e) : e \in Endpoints}) <= count

\* A COMPLETE assessment has been measured (calculate_coverage): every baseline was answered
\* and every mutation within the limit of the profile, and every comparison was made.
CompleteIsMeasured ==
    Assessment = "COMPLETE" =>
      /\ answered = Endpoints
      /\ \A e \in Endpoints :
           /\ \A i \in DOMAIN Active, p \in DOMAIN Inventory[e].points :
                p \in Limited(e, Active[i]) => <<e, Active[i], p>> \in mutated
           /\ \A i \in DOMAIN Authorization : Candidate(e, Authorization[i]) =>
                authRows[e][i] = Row(Authorization[i], "TESTED", 2)

\* execute returns or is ended (gather, the semaphore): no endpoint waits for ever for a
\* place, whatever becomes of the others.
ExecuteEnds == <>(phase # "running")
=============================================================================
