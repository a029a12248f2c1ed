---------------------------- MODULE MCRearDrive ----------------------------
(***************************************************************************)
(* A small instance of RearDrive: an operator who stops and drives, and    *)
(* another host that sends every kind of command the control loop tells    *)
(* apart.  Demands fall on both sides of the brake thresholds.             *)
(***************************************************************************)
EXTENDS RearDrive

Foreign(mode, direction, accel) ==
    [control_mode |-> mode, drive_direction |-> direction, accel_cmd |-> accel,
     accel_finite |-> TRUE, emergency_stop |-> FALSE]

Manuals  == {Foreign("MANUAL", d, 0) : d \in {"STOP", "FWD", "REV", "UNKNOWN"}}
Follows  == {Foreign("ACC", "FWD", -1), Foreign("ACC", "FWD", 2), Foreign("UNKNOWN", "FWD", 2)}
MCOthers == Manuals \union Follows
    \union {Foreign("AEB", "STOP", 0),
            [Foreign("ACC", "FWD", 2) EXCEPT !.emergency_stop = TRUE],
            [Foreign("ACC", "FWD", 2) EXCEPT !.accel_finite = FALSE]}
MCAccels == {-1, 0, 2}
MCSpeeds == {0, 1}      \* below and at V_BRAKE_MIN; reversing is below too
=============================================================================
