----------------------------- MODULE AtomicCell -----------------------------
(***************************************************************************)
(* What a lock-free double buffer between two cores of the REAR TC375      *)
(* promises its users: one cell holding a whole frame.  A write replaces   *)
(* the frame; a read takes the frame that is current when it begins and    *)
(* hands it over when it ends.  The one limit: a read during which one     *)
(* write was completed and another one begun is overrun, and may hand over *)
(* anything.                                                               *)
(***************************************************************************)
CONSTANTS Frames, InitialFrame

VARIABLES
    current,    \* the frame in the cell
    taken,      \* the frame the last read took
    superseded, \* a write has been completed since
    overrun,    \* and another one has begun
    result      \* the frame the last read handed over

cell == <<current, taken, superseded, overrun, result>>

Init ==
    /\ current = InitialFrame /\ taken = InitialFrame /\ result = InitialFrame
    /\ superseded = FALSE /\ overrun = FALSE

Write ==
    /\ current' \in Frames
    /\ superseded' = TRUE
    /\ UNCHANGED <<taken, overrun, result>>

Overrun ==
    /\ superseded
    /\ overrun' = TRUE
    /\ UNCHANGED <<current, taken, superseded, result>>

Take ==
    /\ taken' = current
    /\ superseded' = FALSE /\ overrun' = FALSE
    /\ UNCHANGED <<current, result>>

Give ==
    /\ result' \in IF overrun THEN Frames ELSE {taken}
    /\ UNCHANGED <<current, taken, superseded, overrun>>

Next == Write \/ Overrun \/ Take \/ Give

Spec == Init /\ [][Next]_cell
=============================================================================
