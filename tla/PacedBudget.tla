---------------------------- MODULE PacedBudget ----------------------------
(***************************************************************************)
(* What a request budget promises, whoever asks and in whatever order: at  *)
(* most Maximum grants, and Interval ticks between one grant and the next. *)
(***************************************************************************)
EXTENDS Integers

CONSTANTS Maximum, Interval

VARIABLES
    count,  \* grants so far
    since   \* ticks since the last grant, no further than Interval

Init == count = 0 /\ since \in 0 .. Interval

Grant ==
    /\ count < Maximum
    /\ since = Interval
    /\ count' = count + 1
    /\ since' = 0

Tick ==
    /\ since < Interval
    /\ since' = since + 1
    /\ UNCHANGED count

Spec == Init /\ [][Grant \/ Tick]_<<count, since>>
=============================================================================
