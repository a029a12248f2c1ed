-------------------------- MODULE MCFrontSensors ---------------------------
(***************************************************************************)
(* A small instance of FrontSensors with one ultrasonic ranger: two        *)
(* distances, one of them the outlier, and a counter of 8 ticks.           *)
(***************************************************************************)
EXTENDS FrontSensors

OneSide == <<"left">>
=============================================================================
