------------------------- MODULE EngineRunnerProofs -------------------------
(***************************************************************************)
(* EngineRunner for any deadlines, pipe capacity and output: clocks and    *)
(* pipes stay within their bounds, no way out of the sidecar's handler     *)
(* leaves its tool running, and COMPLETED is only reported of a tool that  *)
(* ended with success.                                                     *)
(***************************************************************************)
EXTENDS EngineRunner, TLAPS

\* What each place of the handler implies for the tool and for the answer.
Handled ==
    /\ server \in {"validating", "preparing"} => tool = "none"
    /\ server # "answered" => answer = "none"
    /\ answer = "COMPLETED" => tool = "success"

RunInv == TypeOK /\ Handled /\ AnsweredIsReaped /\ CompletedIsTrue

LEMMA RunInit == Init => RunInv
<1> SUFFICES ASSUME Init PROVE RunInv
  OBVIOUS
<1>1. waited \in 0 .. Patience /\ age \in 0 .. Deadline + 1 /\ 0 \in 0 .. Capacity
  BY ParametersAssumption DEF Init
<1>2. /\ pipe \in [Streams -> 0 .. Capacity]
      /\ captured \in [Streams -> {"pending", "chunk", "excess"}]
  BY <1>1 DEF Init
<1>3. TypeOK
  BY <1>1, <1>2 DEF Init, TypeOK
<1> QED
  BY <1>3 DEF Init, RunInv, Handled, AnsweredIsReaped, CompletedIsTrue

-----------------------------------------------------------------------------

LEMMA SidecarTyped == ASSUME TypeOK, Sidecar PROVE TypeOK'
<1>1. CASE Refuse
  BY <1>1 DEF Refuse, Answer, TypeOK, Statuses, process, clocks
<1>2. CASE Register
  BY <1>2, ParametersAssumption DEF Register, TypeOK, process, clocks
<1>3. CASE PrepareFails
  BY <1>3 DEF PrepareFails, Answer, TypeOK, process, clocks
<1>4. CASE StartFails
  BY <1>4 DEF StartFails, Answer, TypeOK, Statuses, process, clocks
<1>5. CASE Start
  BY <1>5 DEF Start, TypeOK, clocks
<1>6. ASSUME NEW s \in Streams, Read(s) PROVE TypeOK'
  <2>1. PICK what \in {"chunk", "excess"} : captured' = [captured EXCEPT ![s] = what]
    BY <1>6 DEF Read
  <2>2. captured' \in [Streams -> {"pending", "chunk", "excess"}]
    BY <2>1 DEF TypeOK
  <2>3. pipe' \in [Streams -> 0 .. Capacity]
    BY <1>6, ParametersAssumption DEF Read, TypeOK
  <2> QED
    BY <1>6, <2>2, <2>3 DEF Read, TypeOK, clocks
<1>7. CASE OutputExceeds
  BY <1>7 DEF OutputExceeds, Kill, Answer, TypeOK, Statuses, clocks
<1>8. CASE AwaitExit
  BY <1>8 DEF AwaitExit, TypeOK, process, clocks
<1>9. CASE TimeOut
  BY <1>9 DEF TimeOut, Kill, Answer, TypeOK, Statuses, clocks
<1>10. CASE Finish
  BY <1>10 DEF Finish, Answer, TypeOK, Statuses, process, clocks
<1> QED
  BY <1>1, <1>2, <1>3, <1>4, <1>5, <1>6, <1>7, <1>8, <1>9, <1>10 DEF Sidecar

LEMMA OthersTyped == ASSUME TypeOK, Tool \/ Worker \/ Tick PROVE TypeOK'
<1>1. ASSUME NEW s \in Streams, Write(s) PROVE TypeOK'
  <2>1. left' \in [Streams -> 0 .. Output] /\ pipe' \in [Streams -> 0 .. Capacity]
    BY <1>1, ParametersAssumption DEF Write, TypeOK
  <2> QED
    BY <1>1, <2>1 DEF Write, TypeOK, clocks
<1>2. CASE Exit
  BY <1>2 DEF Exit, TypeOK, clocks
<1>3. CASE Receive
  BY <1>3 DEF Receive, TypeOK, Statuses, process, clocks
<1>4. CASE GiveUp
  BY <1>4 DEF GiveUp, TypeOK, Statuses, process, clocks
<1>5. CASE Cancel
  BY <1>5 DEF Cancel, TypeOK, process, clocks
<1>6. CASE Tick
  <2>1. waited' \in 0 .. Patience /\ age' \in 0 .. Deadline + 1
    BY <1>6, ParametersAssumption DEF Tick, TypeOK
  <2> QED
    BY <1>6, <2>1 DEF Tick, TypeOK, process
<1> QED
  BY <1>1, <1>2, <1>3, <1>4, <1>5, <1>6 DEF Tool, Worker

-----------------------------------------------------------------------------

\* Only Start and Exit change the tool except by killing it, and each finds the handler
\* where no answer has been given.
LEMMA RunStep == RunInv /\ [Next]_vars => RunInv'
<1> SUFFICES ASSUME RunInv, [Next]_vars PROVE RunInv'
  OBVIOUS
<1> USE DEF RunInv, Handled, AnsweredIsReaped, CompletedIsTrue
<1>1. TypeOK'
  BY SidecarTyped, OthersTyped
     DEF Next, vars, process, clocks, TypeOK
<1>2. CASE Sidecar
  <2>1. CASE Refuse
    BY <1>1, <2>1 DEF Refuse, Answer, process
  <2>2. CASE Register
    BY <1>1, <2>2 DEF Register, process
  <2>3. CASE PrepareFails
    BY <1>1, <2>3 DEF PrepareFails, Answer, process
  <2>4. CASE StartFails
    BY <1>1, <2>4 DEF StartFails, Answer, process
  <2>5. CASE Start
    BY <1>1, <2>5 DEF Start
  <2>6. CASE \E s \in Streams : Read(s)
    BY <1>1, <2>6 DEF Read
  <2>7. CASE OutputExceeds
    BY <1>1, <2>7 DEF OutputExceeds, Gathered, Kill, Answer
  <2>8. CASE AwaitExit
    BY <1>1, <2>8 DEF AwaitExit, Gathered, process
  <2>9. CASE TimeOut
    BY <1>1, <2>9 DEF TimeOut, Kill, Answer
  <2>10. CASE Finish
    BY <1>1, <2>10 DEF Finish, Answer, process
  <2> QED
    BY <1>2, <2>1, <2>2, <2>3, <2>4, <2>5, <2>6, <2>7, <2>8, <2>9, <2>10 DEF Sidecar
<1>3. CASE Tool
  BY <1>1, <1>3 DEF Tool, Exit, Write
<1>4. CASE Worker
  BY <1>1, <1>4 DEF Worker, Receive, GiveUp, Cancel, process
<1>5. CASE Tick
  BY <1>1, <1>5 DEF Tick, process
<1>6. CASE UNCHANGED vars
  BY <1>1, <1>6 DEF vars, process
<1> QED
  BY <1>2, <1>3, <1>4, <1>5, <1>6 DEF Next

\* The handler, the tool and the worker keep to their types: no clock outruns its
\* deadline and no pipe its capacity, whatever is read, cut off or given up (_run_process).
THEOREM TypeCorrect == Spec => []TypeOK
<1>1. RunInv => TypeOK
  BY DEF RunInv
<1> QED
  BY <1>1, RunInit, RunStep, PTL DEF Spec

\* Every way out of run and _run_process ends the tool and removes the proxy job, the
\* failed preparation of a command excepted, which leaves a job but starts no tool.
THEOREM ToolsAreReaped == Spec => []AnsweredIsReaped
<1>1. RunInv => AnsweredIsReaped
  BY DEF RunInv
<1> QED
  BY <1>1, RunInit, RunStep, PTL DEF Spec

\* RunnerEngine.execute reports COMPLETED only of a tool that ended with success.
THEOREM CompletionIsTrue == Spec => []CompletedIsTrue
<1>1. RunInv => CompletedIsTrue
  BY DEF RunInv
<1> QED
  BY <1>1, RunInit, RunStep, PTL DEF Spec
=============================================================================
