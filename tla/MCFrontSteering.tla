-------------------------- MODULE MCFrontSteering --------------------------
(***************************************************************************)
(* Small instances of FrontSteering.  The word has 16 values and the clock *)
(* wraps at 10, so both wraps happen, at different times.  Sequences 0, 5  *)
(* and 10 are each newer than the one before, cyclically.                  *)
(***************************************************************************)
EXTENDS FrontSteering

Command(seq, angle) ==
    [sequence |-> seq, wellFormed |-> TRUE, controlMode |-> "STEERING_ANGLE",
     steeringValid |-> TRUE, emergencyCenter |-> FALSE, upstreamValid |-> TRUE,
     finite |-> TRUE, angle |-> angle, rate |-> 1]

Center(seq)    == [Command(seq, 2) EXCEPT !.emergencyCenter = TRUE]
Disabled(seq)  == [Command(seq, 2) EXCEPT !.controlMode = "DISABLED",
                                          !.steeringValid = FALSE]
OverLimit(seq) == Command(seq, 3)
Fast(seq)      == [Command(seq, -2) EXCEPT !.rate = 5]
Corrupt        == [Command(5, 2) EXCEPT !.wellFormed = FALSE]

\* Every kind of packet the receiver tells apart.
MCPackets ==
    {Command(0, 2), Fast(10), Center(5), Disabled(10),
     OverLimit(0), Corrupt}

\* A sender that stays in command, with the smallest deflection.
MCLive == {Command(0, 1), Command(5, -1), Command(10, 1)}

MCSense == {1, 2}
MCHold  == {1, 2}
=============================================================================
