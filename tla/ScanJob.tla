------------------------------- MODULE ScanJob -------------------------------
(***************************************************************************)
(* What a client that polls a scan is promised: the phases of the work     *)
(* come in order and none comes twice, the status shown is that of the     *)
(* phase, a pause or an outcome, reports appear with the outcome they      *)
(* belong to, and an outcome stays.  Two decisions on a QUEUED scan may    *)
(* come late, and show their outcome over whatever is shown by then: a     *)
(* cancellation, and the submission that could not dispatch the scan.      *)
(***************************************************************************)
EXTENDS Integers, Sequences, FiniteSets

VARIABLES
    phase,      \* of the work: an index of Phases
    shown,      \* the status a client reads
    published,  \* there are reports
    late        \* decisions made on the QUEUED scan, and not committed yet

Phases == <<"QUEUED", "INITIALIZING", "DISCOVERING", "SCANNING", "CORRELATING",
            "REPORTING", "ending", "over">>

QUEUED == 1
REPORTING == 6
ENDING == 7
OVER == 8

Working == QUEUED + 1 .. REPORTING

LateOutcome == [cancel |-> "CANCELLED", dispatch |-> "FAILED"]

LateOutcomes == {"CANCELLED", "FAILED"}

Init ==
    /\ phase = QUEUED
    /\ shown = "QUEUED"
    /\ published = FALSE
    /\ late = {}

\* A request decides on the scan it sees as QUEUED.
Decide ==
    /\ shown = "QUEUED"
    /\ late' \in SUBSET DOMAIN LateOutcome
    /\ late \subseteq late'
    /\ UNCHANGED <<phase, shown, published>>

\* It turns out to have nothing to say.
Withdraw ==
    /\ late' \in SUBSET late
    /\ UNCHANGED <<phase, shown, published>>

ShowLate ==
    /\ \E decision \in late : shown' = LateOutcome[decision]
    /\ late' \in SUBSET late
    /\ UNCHANGED <<phase, published>>

\* The next phase begins.  Only an outcome that came late may still hide it.
Advance ==
    /\ phase + 1 \in Working
    /\ phase' = phase + 1
    /\ \/ shown' = Phases[phase']
       \/ shown \in LateOutcomes /\ shown' = shown
    /\ UNCHANGED <<published, late>>

\* The engines report one after the other, over an outcome that came late.
Show ==
    /\ Phases[phase] = "SCANNING"
    /\ shown \in LateOutcomes
    /\ shown' = "SCANNING"
    /\ UNCHANGED <<phase, published, late>>

\* Every phase but REPORTING ends with a safe checkpoint.
Pause ==
    /\ phase \in Working \ {REPORTING}
    /\ shown' = "PAUSED"
    /\ UNCHANGED <<phase, published, late>>

\* A resumed scan shows SCANNING, whatever phase it is in, until the next begins.
Resume ==
    /\ phase \in Working \ {REPORTING}
    /\ shown \in LateOutcomes \union {"PAUSED"}
    /\ shown' = "SCANNING"
    /\ UNCHANGED <<phase, published, late>>

Fail ==
    /\ phase \in Working
    /\ phase' = ENDING
    /\ UNCHANGED <<shown, published, late>>

End ==
    /\ phase = ENDING
    /\ phase' = OVER
    /\ shown' \in {"FAILED", "CANCELLED", "TIMEOUT"}
    /\ UNCHANGED <<published, late>>

Publish ==
    /\ phase = REPORTING
    /\ phase' = OVER
    /\ shown' \in {"COMPLETED", "PARTIAL"}
    /\ published' = TRUE
    /\ UNCHANGED late

\* A scan cancelled before it began is never begun.
Drop ==
    /\ phase = QUEUED
    /\ shown \in LateOutcomes
    /\ phase' = OVER
    /\ UNCHANGED <<shown, published, late>>

Next ==
    \/ Decide \/ Withdraw \/ ShowLate
    \/ Advance \/ Show \/ Pause \/ Resume
    \/ Fail \/ End \/ Publish \/ Drop

Spec == Init /\ [][Next]_<<phase, shown, published, late>>
=============================================================================
