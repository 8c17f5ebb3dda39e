-------------------------- MODULE ZapSessionProofs --------------------------
(***************************************************************************)
(* The safety of ZapSession for any scans and any number of executions.    *)
(* Each of the three invariants is inductive once it says what holds on    *)
(* the way to the calls it is about:                                       *)
(*   - OwnRules: from newSession on the session is the scan's, from        *)
(*     includeInContext on the context is, and the rules the engine still  *)
(*     has to remove are all that there are;                               *)
(*   - OwnFiles: the file of the execution under way is known as written;  *)
(*   - OwnAttacks: an execution has no active scan before it starts one,   *)
(*     and goes on to the alerts only when that one has ended, if it has   *)
(*     its number; what runs besides was left behind without being stopped.*)
(***************************************************************************)
EXTENDS ZapSession, TLAPS

Preparing == {"newSession", "newContext", "includeInContext", "rules", "removeRule",
              "addRule"}
Sending == {"importFile", "accessUrl", "scan", "status", "sleep"}

\* An execution under way has a number.
Typed == TypeOK /\ (pc # "idle" => runs # 0)

OwnRules ==
    /\ pc \notin {"idle", "newSession"} => session = Self
    /\ pc \notin {"idle", "newSession", "newContext", "includeInContext"} => included = Self
    /\ pc = "removeRule" => stale = rules /\ stale # {}
    /\ pc = "addRule" => rules = {} /\ context.auth
    /\ pc \in Sending => rules = (IF context.auth THEN {Self} ELSE {})

OwnFiles ==
    /\ pc \in Preparing => ~ written
    /\ pc = "idle" => files \subseteq lost
    /\ files \subseteq lost \union (IF written THEN {Self} ELSE {})

OwnAttacks ==
    /\ attacks \union stopped \subseteq 1 .. runs
    /\ pc \in Preparing \union {"importFile", "accessUrl", "scan"}
         => runs \notin attacks \union stopped
    /\ pc \in {"status", "sleep"} => runs \notin stopped
    /\ pc = "alerts" => runs \notin (attacks \ unnumbered) \union stopped
    /\ pc # "idle" => outcome = None
    /\ outcome = "COMPLETED" => runs \notin (attacks \ unnumbered) \union stopped
    /\ attacks \subseteq (IF pc = "idle" THEN {} ELSE {runs}) \union cut \union unnumbered

USE DEF None

\* What the record of an execution is made of.
LEMMA ContextFields ==
    ASSUME NEW c \in Context
    PROVE  /\ c.scan \in Scans
           /\ c.auth \in BOOLEAN
           /\ c.specification \in BOOLEAN
           /\ c.active \in BOOLEAN
BY DEF Context

\* What the daemon does with a call, by the place of the engine.
LEMMA ExecuteEffects ==
    ASSUME TypeOK, Execute
    PROVE  /\ session' \in Scans \union {None}
           /\ included' \in Scans \union {None}
           /\ rules' \subseteq rules \union {Self}
           /\ attacks' \subseteq attacks \union (IF pc = "scan" THEN {runs} ELSE {})
           /\ stopped' \subseteq stopped \union (IF pc = "stop" THEN {runs} ELSE {})
           /\ IF pc = "newSession" THEN session' = Self ELSE session' = session
           /\ IF pc = "includeInContext" THEN included' = Self
              ELSE pc # "newSession" => included' = included
           /\ pc = "removeRule" => \E rule \in stale : rules' = rules \ {rule}
           /\ pc = "addRule" => rules' = rules \union {Self}
           /\ pc \notin {"removeRule", "addRule"} => rules' = rules
<1>0. Self \in Scans
  BY ContextFields DEF TypeOK, Self
<1>1. CASE pc = "newSession"
  BY <1>0, <1>1 DEF TypeOK, Execute, NewSession
<1>2. CASE pc = "includeInContext"
  BY <1>0, <1>2 DEF TypeOK, Execute, IncludeInContext
<1>3. CASE pc = "removeRule"
  BY <1>0, <1>3 DEF TypeOK, Execute, RemoveRule
<1>4. CASE pc = "addRule"
  BY <1>0, <1>4 DEF TypeOK, Execute, AddRule
<1>5. CASE pc = "scan"
  BY <1>0, <1>5 DEF TypeOK, Execute, StartAttack
<1>6. CASE pc = "stop"
  BY <1>0, <1>6 DEF TypeOK, Execute, StopAttack
<1>7. CASE pc \notin {"newSession", "includeInContext", "removeRule", "addRule", "scan", "stop"}
  BY <1>0, <1>7 DEF TypeOK, Execute, daemon
<1> QED BY <1>1, <1>2, <1>3, <1>4, <1>5, <1>6, <1>7

\* A call leaves the numbers of the active scans in their range.
LEMMA ExecuteNumbers ==
    ASSUME Typed, pc # "idle", Execute
    PROVE  /\ attacks' \subseteq 1 .. MaxRuns
           /\ stopped' \subseteq 1 .. MaxRuns
           /\ attacks \union stopped \subseteq 1 .. runs
                => attacks' \union stopped' \subseteq 1 .. runs
<1>1. runs \in 1 .. MaxRuns /\ runs \in 1 .. runs
  BY MaxRunsAssumption DEF Typed, TypeOK
<1>2. /\ attacks' \subseteq attacks \union {runs}
      /\ stopped' \subseteq stopped \union {runs}
  BY ExecuteEffects DEF Typed
<1>3. attacks \subseteq 1 .. MaxRuns /\ stopped \subseteq 1 .. MaxRuns
  BY DEF Typed, TypeOK
<1> HIDE DEF None
<1> QED BY <1>1, <1>2, <1>3

\* An execution under way has one of the numbers.
LEMMA UnderWay ==
    ASSUME Typed, pc # "idle"
    PROVE  runs \in 1 .. MaxRuns
BY MaxRunsAssumption DEF Typed, TypeOK

\* The number of an execution that begins is new.
LEMMA NextNumber ==
    ASSUME Typed, runs < MaxRuns, runs' = runs + 1
    PROVE  /\ runs' \in 0 .. MaxRuns /\ runs' # 0
           /\ runs' \notin 1 .. runs /\ 1 .. runs \subseteq 1 .. runs'
BY MaxRunsAssumption DEF Typed, TypeOK

-----------------------------------------------------------------------------
(* Types. *)

\* Every step keeps the types, and numbers an execution that begins.
LEMMA TypeStep ==
    ASSUME Typed, [Next]_vars
    PROVE  Typed'
<1> USE DEF Typed, TypeOK, Locations, Results
<1>s. Self \in Scans /\ context.auth \in BOOLEAN
  BY ContextFields DEF TypeOK, Self
<1>1. CASE \E new \in Context : Begin(new)
  <2>1. runs < MaxRuns /\ runs' = runs + 1
    BY <1>1 DEF Begin
  <2> QED BY <1>s, <1>1, <2>1, NextNumber DEF Begin, daemon, Self
<1>2. CASE \E new \in Context : Skip(new)
  <2>1. runs < MaxRuns /\ runs' = runs + 1
    BY <1>2 DEF Skip
  <2> QED BY <1>s, <1>2, <2>1, NextNumber DEF Skip, daemon, Self
<1>3. CASE CreateSession
  BY <1>s, <1>3, ExecuteEffects DEF CreateSession, Call, Self
<1>4. CASE CreateContext
  BY <1>s, <1>4, ExecuteEffects DEF CreateContext, Call, Self
<1>5. CASE IncludeTarget
  BY <1>s, <1>5, ExecuteEffects DEF IncludeTarget, Call, Self
<1>6. CASE ViewRules
  BY <1>s, <1>6, ExecuteEffects
  DEF ViewRules, WriteSpecification, AfterRemoval, AfterRules, Call, Self
<1>7. CASE RemoveStaleRule
  BY <1>s, <1>7, ExecuteEffects
  DEF RemoveStaleRule, WriteSpecification, AfterRemoval, AfterRules, Call, Self
<1>8. CASE AuthenticateRequests
  BY <1>s, <1>8, ExecuteEffects
  DEF AuthenticateRequests, WriteSpecification, AfterRules, Call, Self
<1>9. CASE ImportSpecification
  BY <1>s, <1>9, ExecuteEffects DEF ImportSpecification, Call, Self
<1>10. CASE AccessUrl
  BY <1>s, <1>10, ExecuteEffects DEF AccessUrl, Call, Self
<1>11. CASE StartActiveScan
  BY <1>s, <1>11, ExecuteEffects, ExecuteNumbers DEF StartActiveScan, Call, Self
<1>12. CASE SeeFinished
  BY <1>s, <1>12, ExecuteEffects DEF SeeFinished, Call, Self
<1>13. CASE SeeRunning
  BY <1>s, <1>13, ExecuteEffects DEF SeeRunning, Call, Self
<1>14. CASE Wake
  BY <1>s, <1>14, ExecuteEffects DEF Wake, Call, Self
<1>15. CASE StopActiveScan
  BY <1>s, <1>15, ExecuteEffects, ExecuteNumbers DEF StopActiveScan, Leave, Self
<1>16. CASE CollectAlerts
  BY <1>s, <1>16 DEF CollectAlerts, Leave, daemon, Self
<1>17. CASE \E executed \in BOOLEAN : CallFails(executed)
  <2>1. pc # "idle" /\ (Execute \/ UNCHANGED daemon)
    BY <1>17 DEF CallFails, InCall, Leave
  <2>2. (cut \union unnumbered) \union {runs} \subseteq 1 .. MaxRuns
    BY <2>1, UnderWay
  <2> QED BY <1>s, <1>17, <2>1, <2>2, ExecuteEffects, ExecuteNumbers
    DEF CallFails, InCall, Leave, CutOff, daemon, Self
<1>18. CASE \E executed \in BOOLEAN : Cancel(executed)
  <2>1. pc # "idle" /\ (Execute \/ UNCHANGED daemon)
    BY <1>18 DEF Cancel, Leave
  <2>2. (cut \union unnumbered) \union {runs} \subseteq 1 .. MaxRuns
    BY <2>1, UnderWay
  <2> QED BY <1>s, <1>18, <2>1, <2>2, ExecuteEffects, ExecuteNumbers
    DEF Cancel, Leave, CutOff, daemon, Self
<1>19. CASE \E executed \in BOOLEAN : WorkerLost(executed)
  <2>1. pc # "idle" /\ (Execute \/ UNCHANGED daemon)
    BY <1>19 DEF WorkerLost
  <2>2. (cut \union unnumbered) \union {runs} \subseteq 1 .. MaxRuns
    BY <2>1, UnderWay
  <2> QED BY <1>s, <1>19, <2>1, <2>2, ExecuteEffects, ExecuteNumbers
    DEF WorkerLost, CutOff, daemon, Self
<1>20. CASE \E run \in attacks : AttackEnds(run)
  BY <1>s, <1>20 DEF AttackEnds, engine, Self
<1>21. CASE DeadlinePasses
  BY <1>s, <1>21 DEF DeadlinePasses, daemon, Self
<1>22. CASE UNCHANGED vars
  BY <1>s, <1>22 DEF vars, engine, daemon, Self
<1>23. CASE \E started \in BOOLEAN : StartUnnumberedScan(started)
  <2>1. pc = "scan" /\ (Execute \/ UNCHANGED daemon)
    BY <1>23 DEF StartUnnumberedScan
  <2>2. (cut \union unnumbered) \union {runs} \subseteq 1 .. MaxRuns
    BY <2>1, UnderWay
  <2> QED BY <1>s, <1>23, <2>1, <2>2, ExecuteEffects, ExecuteNumbers
    DEF StartUnnumberedScan, daemon, Self
<1> QED
  BY <1>1, <1>2, <1>3, <1>4, <1>5, <1>6, <1>7, <1>8, <1>9, <1>10, <1>11, <1>12, <1>13,
     <1>14, <1>15, <1>16, <1>17, <1>18, <1>19, <1>20, <1>21, <1>22, <1>23
  DEF Next, EngineStep, Finished

\* An execution under way always has a number.
LEMMA TypedAlways == Spec => []Typed
<1>1. Init => Typed
  <2> SUFFICES ASSUME Init PROVE Typed
    OBVIOUS
  <2>1. context \in Context
    BY DEF Init
  <2>2. runs \in 0 .. MaxRuns
    BY MaxRunsAssumption DEF Init
  <2> QED BY <2>1, <2>2 DEF Init, Typed, TypeOK, Locations, Results
<1>2. Typed /\ [Next]_vars => Typed'
  BY TypeStep
<1> QED BY <1>1, <1>2, PTL DEF Spec

\* Whatever fails, is cancelled or lost, the state of engine and daemon is typed.
THEOREM TypeCorrect == Spec => []TypeOK
<1>1. Typed => TypeOK
  BY DEF Typed
<1> QED BY TypedAlways, <1>1, PTL

-----------------------------------------------------------------------------
(* The three invariants. *)

\* Every step keeps the session, the context and the rules the scan's own.
LEMMA OwnRulesStep ==
    ASSUME Typed, OwnRules, [Next]_vars
    PROVE  OwnRules'
<1> USE DEF OwnRules, Sending, Preparing, Typed, TypeOK, Locations
<1>s. Self \in Scans /\ context.auth \in BOOLEAN
  BY ContextFields DEF TypeOK, Self
<1>1. CASE \E new \in Context : Begin(new)
  <2>1. runs < MaxRuns /\ runs' = runs + 1
    BY <1>1 DEF Begin
  <2> QED BY <1>s, <1>1, <2>1, NextNumber DEF Begin, daemon, Self
<1>2. CASE \E new \in Context : Skip(new)
  <2>1. runs < MaxRuns /\ runs' = runs + 1
    BY <1>2 DEF Skip
  <2> QED BY <1>s, <1>2, <2>1, NextNumber DEF Skip, daemon, Self
<1>3. CASE CreateSession
  BY <1>s, <1>3, ExecuteEffects DEF CreateSession, Call, Self
<1>4. CASE CreateContext
  BY <1>s, <1>4, ExecuteEffects DEF CreateContext, Call, Self
<1>5. CASE IncludeTarget
  BY <1>s, <1>5, ExecuteEffects DEF IncludeTarget, Call, Self
<1>6. CASE ViewRules
  BY <1>s, <1>6, ExecuteEffects
  DEF ViewRules, WriteSpecification, AfterRemoval, AfterRules, Call, Self
<1>7. CASE RemoveStaleRule
  BY <1>s, <1>7, ExecuteEffects
  DEF RemoveStaleRule, WriteSpecification, AfterRemoval, AfterRules, Call, Self
<1>8. CASE AuthenticateRequests
  BY <1>s, <1>8, ExecuteEffects
  DEF AuthenticateRequests, WriteSpecification, AfterRules, Call, Self
<1>9. CASE ImportSpecification
  BY <1>s, <1>9, ExecuteEffects DEF ImportSpecification, Call, Self
<1>10. CASE AccessUrl
  BY <1>s, <1>10, ExecuteEffects DEF AccessUrl, Call, Self
<1>11. CASE StartActiveScan
  BY <1>s, <1>11, ExecuteEffects, ExecuteNumbers DEF StartActiveScan, Call, Self
<1>12. CASE SeeFinished
  BY <1>s, <1>12, ExecuteEffects DEF SeeFinished, Call, Self
<1>13. CASE SeeRunning
  BY <1>s, <1>13, ExecuteEffects DEF SeeRunning, Call, Self
<1>14. CASE Wake
  BY <1>s, <1>14, ExecuteEffects DEF Wake, Call, Self
<1>15. CASE StopActiveScan
  BY <1>s, <1>15, ExecuteEffects, ExecuteNumbers DEF StopActiveScan, Leave, Self
<1>16. CASE CollectAlerts
  BY <1>s, <1>16 DEF CollectAlerts, Leave, daemon, Self
<1>17. CASE \E executed \in BOOLEAN : CallFails(executed)
  <2>1. pc # "idle" /\ (Execute \/ UNCHANGED daemon)
    BY <1>17 DEF CallFails, InCall, Leave
  <2> QED BY <1>s, <1>17, <2>1, ExecuteEffects, ExecuteNumbers
    DEF CallFails, InCall, Leave, CutOff, daemon, Self
<1>18. CASE \E executed \in BOOLEAN : Cancel(executed)
  <2>1. pc # "idle" /\ (Execute \/ UNCHANGED daemon)
    BY <1>18 DEF Cancel, Leave
  <2> QED BY <1>s, <1>18, <2>1, ExecuteEffects, ExecuteNumbers
    DEF Cancel, Leave, CutOff, daemon, Self
<1>19. CASE \E executed \in BOOLEAN : WorkerLost(executed)
  <2>1. pc # "idle" /\ (Execute \/ UNCHANGED daemon)
    BY <1>19 DEF WorkerLost
  <2> QED BY <1>s, <1>19, <2>1, ExecuteEffects, ExecuteNumbers
    DEF WorkerLost, CutOff, daemon, Self
<1>20. CASE \E run \in attacks : AttackEnds(run)
  BY <1>s, <1>20 DEF AttackEnds, engine, Self
<1>21. CASE DeadlinePasses
  BY <1>s, <1>21 DEF DeadlinePasses, daemon, Self
<1>22. CASE UNCHANGED vars
  BY <1>s, <1>22 DEF vars, engine, daemon, Self
<1>23. CASE \E started \in BOOLEAN : StartUnnumberedScan(started)
  <2>1. pc = "scan" /\ (Execute \/ UNCHANGED daemon)
    BY <1>23 DEF StartUnnumberedScan
  <2> QED BY <1>s, <1>23, <2>1, ExecuteEffects, ExecuteNumbers
    DEF StartUnnumberedScan, daemon, Self
<1> QED
  BY <1>1, <1>2, <1>3, <1>4, <1>5, <1>6, <1>7, <1>8, <1>9, <1>10, <1>11, <1>12, <1>13,
     <1>14, <1>15, <1>16, <1>17, <1>18, <1>19, <1>20, <1>21, <1>22, <1>23
  DEF Next, EngineStep, Finished

\* Every step knows of the file it writes.
LEMMA OwnFilesStep ==
    ASSUME Typed, OwnFiles, [Next]_vars
    PROVE  OwnFiles'
<1> USE DEF OwnFiles, Preparing, Sending, Typed, TypeOK, Locations
<1>s. Self \in Scans /\ context.auth \in BOOLEAN
  BY ContextFields DEF TypeOK, Self
<1>1. CASE \E new \in Context : Begin(new)
  <2>1. runs < MaxRuns /\ runs' = runs + 1
    BY <1>1 DEF Begin
  <2> QED BY <1>s, <1>1, <2>1, NextNumber DEF Begin, daemon, Self
<1>2. CASE \E new \in Context : Skip(new)
  <2>1. runs < MaxRuns /\ runs' = runs + 1
    BY <1>2 DEF Skip
  <2> QED BY <1>s, <1>2, <2>1, NextNumber DEF Skip, daemon, Self
<1>3. CASE CreateSession
  BY <1>s, <1>3, ExecuteEffects DEF CreateSession, Call, Self
<1>4. CASE CreateContext
  BY <1>s, <1>4, ExecuteEffects DEF CreateContext, Call, Self
<1>5. CASE IncludeTarget
  BY <1>s, <1>5, ExecuteEffects DEF IncludeTarget, Call, Self
<1>6. CASE ViewRules
  BY <1>s, <1>6, ExecuteEffects
  DEF ViewRules, WriteSpecification, AfterRemoval, AfterRules, Call, Self
<1>7. CASE RemoveStaleRule
  BY <1>s, <1>7, ExecuteEffects
  DEF RemoveStaleRule, WriteSpecification, AfterRemoval, AfterRules, Call, Self
<1>8. CASE AuthenticateRequests
  BY <1>s, <1>8, ExecuteEffects
  DEF AuthenticateRequests, WriteSpecification, AfterRules, Call, Self
<1>9. CASE ImportSpecification
  BY <1>s, <1>9, ExecuteEffects DEF ImportSpecification, Call, Self
<1>10. CASE AccessUrl
  BY <1>s, <1>10, ExecuteEffects DEF AccessUrl, Call, Self
<1>11. CASE StartActiveScan
  BY <1>s, <1>11, ExecuteEffects, ExecuteNumbers DEF StartActiveScan, Call, Self
<1>12. CASE SeeFinished
  BY <1>s, <1>12, ExecuteEffects DEF SeeFinished, Call, Self
<1>13. CASE SeeRunning
  BY <1>s, <1>13, ExecuteEffects DEF SeeRunning, Call, Self
<1>14. CASE Wake
  BY <1>s, <1>14, ExecuteEffects DEF Wake, Call, Self
<1>15. CASE StopActiveScan
  BY <1>s, <1>15, ExecuteEffects, ExecuteNumbers DEF StopActiveScan, Leave, Self
<1>16. CASE CollectAlerts
  BY <1>s, <1>16 DEF CollectAlerts, Leave, daemon, Self
<1>17. CASE \E executed \in BOOLEAN : CallFails(executed)
  <2>1. pc # "idle" /\ (Execute \/ UNCHANGED daemon)
    BY <1>17 DEF CallFails, InCall, Leave
  <2> QED BY <1>s, <1>17, <2>1, ExecuteEffects, ExecuteNumbers
    DEF CallFails, InCall, Leave, CutOff, daemon, Self
<1>18. CASE \E executed \in BOOLEAN : Cancel(executed)
  <2>1. pc # "idle" /\ (Execute \/ UNCHANGED daemon)
    BY <1>18 DEF Cancel, Leave
  <2> QED BY <1>s, <1>18, <2>1, ExecuteEffects, ExecuteNumbers
    DEF Cancel, Leave, CutOff, daemon, Self
<1>19. CASE \E executed \in BOOLEAN : WorkerLost(executed)
  <2>1. pc # "idle" /\ (Execute \/ UNCHANGED daemon)
    BY <1>19 DEF WorkerLost
  <2> QED BY <1>s, <1>19, <2>1, ExecuteEffects, ExecuteNumbers
    DEF WorkerLost, CutOff, daemon, Self
<1>20. CASE \E run \in attacks : AttackEnds(run)
  BY <1>s, <1>20 DEF AttackEnds, engine, Self
<1>21. CASE DeadlinePasses
  BY <1>s, <1>21 DEF DeadlinePasses, daemon, Self
<1>22. CASE UNCHANGED vars
  BY <1>s, <1>22 DEF vars, engine, daemon, Self
<1>23. CASE \E started \in BOOLEAN : StartUnnumberedScan(started)
  <2>1. pc = "scan" /\ (Execute \/ UNCHANGED daemon)
    BY <1>23 DEF StartUnnumberedScan
  <2> QED BY <1>s, <1>23, <2>1, ExecuteEffects, ExecuteNumbers
    DEF StartUnnumberedScan, daemon, Self
<1> QED
  BY <1>1, <1>2, <1>3, <1>4, <1>5, <1>6, <1>7, <1>8, <1>9, <1>10, <1>11, <1>12, <1>13,
     <1>14, <1>15, <1>16, <1>17, <1>18, <1>19, <1>20, <1>21, <1>22, <1>23
  DEF Next, EngineStep, Finished

\* Only a scan that lost its worker leaves its specification in the shared directory.
THEOREM FilesAreRemoved == Spec => []SpecificationsRemoved
<1>1. Init => OwnFiles
  BY DEF Init, OwnFiles, Preparing
<1>2. Typed /\ OwnFiles /\ [Next]_vars => OwnFiles'
  BY OwnFilesStep
<1>3. OwnFiles => SpecificationsRemoved
  BY DEF OwnFiles, SpecificationsRemoved
<1> QED BY TypedAlways, <1>1, <1>2, <1>3, PTL DEF Spec

\* Every step knows of the active scan it starts.
LEMMA OwnAttacksStep ==
    ASSUME Typed, OwnAttacks, [Next]_vars
    PROVE  OwnAttacks'
<1> USE DEF OwnAttacks, Preparing, Sending, Typed, TypeOK, Locations
<1>s. Self \in Scans /\ context.auth \in BOOLEAN
  BY ContextFields DEF TypeOK, Self
<1>1. CASE \E new \in Context : Begin(new)
  <2>1. runs < MaxRuns /\ runs' = runs + 1
    BY <1>1 DEF Begin
  <2> QED BY <1>s, <1>1, <2>1, NextNumber DEF Begin, daemon, Self
<1>2. CASE \E new \in Context : Skip(new)
  <2>1. runs < MaxRuns /\ runs' = runs + 1
    BY <1>2 DEF Skip
  <2> QED BY <1>s, <1>2, <2>1, NextNumber DEF Skip, daemon, Self
<1>3. CASE CreateSession
  BY <1>s, <1>3, ExecuteEffects DEF CreateSession, Call, Self
<1>4. CASE CreateContext
  BY <1>s, <1>4, ExecuteEffects DEF CreateContext, Call, Self
<1>5. CASE IncludeTarget
  BY <1>s, <1>5, ExecuteEffects DEF IncludeTarget, Call, Self
<1>6. CASE ViewRules
  BY <1>s, <1>6, ExecuteEffects
  DEF ViewRules, WriteSpecification, AfterRemoval, AfterRules, Call, Self
<1>7. CASE RemoveStaleRule
  BY <1>s, <1>7, ExecuteEffects
  DEF RemoveStaleRule, WriteSpecification, AfterRemoval, AfterRules, Call, Self
<1>8. CASE AuthenticateRequests
  BY <1>s, <1>8, ExecuteEffects
  DEF AuthenticateRequests, WriteSpecification, AfterRules, Call, Self
<1>9. CASE ImportSpecification
  BY <1>s, <1>9, ExecuteEffects DEF ImportSpecification, Call, Self
<1>10. CASE AccessUrl
  BY <1>s, <1>10, ExecuteEffects DEF AccessUrl, Call, Self
<1>11. CASE StartActiveScan
  BY <1>s, <1>11, ExecuteEffects, ExecuteNumbers DEF StartActiveScan, Call, Self
<1>12. CASE SeeFinished
  BY <1>s, <1>12, ExecuteEffects DEF SeeFinished, Call, Self
<1>13. CASE SeeRunning
  BY <1>s, <1>13, ExecuteEffects DEF SeeRunning, Call, Self
<1>14. CASE Wake
  BY <1>s, <1>14, ExecuteEffects DEF Wake, Call, Self
<1>15. CASE StopActiveScan
  <2>1. pc = "stop" /\ Execute /\ attacks' = attacks \ {runs}
    BY <1>15 DEF StopActiveScan, Execute, StopAttack
  <2> QED BY <1>s, <1>15, <2>1, ExecuteEffects, ExecuteNumbers DEF StopActiveScan, Leave, Self
<1>16. CASE CollectAlerts
  BY <1>s, <1>16 DEF CollectAlerts, Leave, daemon, Self
<1>17. CASE \E executed \in BOOLEAN : CallFails(executed)
  <2>1. pc # "idle" /\ (Execute \/ UNCHANGED daemon)
    BY <1>17 DEF CallFails, InCall, Leave
  <2> QED BY <1>s, <1>17, <2>1, ExecuteEffects, ExecuteNumbers
    DEF CallFails, InCall, Leave, CutOff, daemon, Self
<1>18. CASE \E executed \in BOOLEAN : Cancel(executed)
  <2>1. pc # "idle" /\ (Execute \/ UNCHANGED daemon)
    BY <1>18 DEF Cancel, Leave
  <2> QED BY <1>s, <1>18, <2>1, ExecuteEffects, ExecuteNumbers
    DEF Cancel, Leave, CutOff, daemon, Self
<1>19. CASE \E executed \in BOOLEAN : WorkerLost(executed)
  <2>1. pc # "idle" /\ (Execute \/ UNCHANGED daemon)
    BY <1>19 DEF WorkerLost
  <2> QED BY <1>s, <1>19, <2>1, ExecuteEffects, ExecuteNumbers
    DEF WorkerLost, CutOff, daemon, Self
<1>20. CASE \E run \in attacks : AttackEnds(run)
  BY <1>s, <1>20 DEF AttackEnds, engine, Self
<1>21. CASE DeadlinePasses
  BY <1>s, <1>21 DEF DeadlinePasses, daemon, Self
<1>22. CASE UNCHANGED vars
  BY <1>s, <1>22 DEF vars, engine, daemon, Self
<1>23. CASE \E started \in BOOLEAN : StartUnnumberedScan(started)
  <2>1. pc = "scan" /\ (Execute \/ UNCHANGED daemon)
    BY <1>23 DEF StartUnnumberedScan
  <2> QED BY <1>s, <1>23, <2>1, ExecuteEffects, ExecuteNumbers
    DEF StartUnnumberedScan, daemon, Self
<1> QED
  BY <1>1, <1>2, <1>3, <1>4, <1>5, <1>6, <1>7, <1>8, <1>9, <1>10, <1>11, <1>12, <1>13,
     <1>14, <1>15, <1>16, <1>17, <1>18, <1>19, <1>20, <1>21, <1>22, <1>23
  DEF Next, EngineStep, Finished

\* COMPLETED is said of a scan only when the active scan it started has ended by itself,
\* or was started without an answer that numbers it.
THEOREM CompletionIsWhole == Spec => []CompletedIsWhole
<1>1. Init => OwnAttacks
  BY DEF Init, OwnAttacks, Preparing
<1>2. Typed /\ OwnAttacks /\ [Next]_vars => OwnAttacks'
  BY OwnAttacksStep
<1>3. OwnAttacks => CompletedIsWhole
  BY DEF OwnAttacks, CompletedIsWhole
<1> QED BY TypedAlways, <1>1, <1>2, <1>3, PTL DEF Spec

\* Requests are sent under the session, the context and the authentication of their own
\* scan only, wherever earlier scans failed, were cancelled or lost their worker, except
\* those of an active scan that was left running: by an execution that was cut off, or by
\* one that never had its number.
THEOREM OwnRulesOnly == Spec => []RulesAreOwn
<1>1. Init => OwnRules /\ OwnAttacks
  BY DEF Init, OwnRules, OwnAttacks, Preparing, Sending
<1>2. Typed /\ OwnRules /\ OwnAttacks /\ [Next]_vars => (OwnRules /\ OwnAttacks)'
  BY OwnRulesStep, OwnAttacksStep
<1>3. OwnRules /\ OwnAttacks => RulesAreOwn
  BY DEF OwnRules, OwnAttacks, RulesAreOwn, Sending
<1> QED BY TypedAlways, <1>1, <1>2, <1>3, PTL DEF Spec
=============================================================================
