---------------------------- MODULE RearControl ----------------------------
(***************************************************************************)
(* Drive and brake control of the REAR TC375.  Core 0 hands every datagram *)
(* it receives on either command port to core 1 through a double buffer    *)
(* (DoubleBuffer; here the last command written).  Core 1's timer          *)
(* interrupt runs the control loop every 5 ms: it measures the speed,      *)
(* reads the command, and brakes (AEB or emergency stop), drives open loop *)
(* (MANUAL) or follows an acceleration with a PI controller (ACC and any   *)
(* mode byte that is none of the three).                                   *)
(*                                                                         *)
(* The PI arithmetic is abstracted: the controller output and the updated  *)
(* integral are arbitrary within their saturation limits, except where the *)
(* code forces them.  Duty cycles and the fields of the telemetry frame    *)
(* that no decision depends on are left out.                               *)
(***************************************************************************)
EXTENDS Integers

CONSTANTS
    VMax,       \* V_MAX, in steps of A_CMD_MAX * DT / AMax
    AMax,       \* A_CMD_MAX, in speed steps per cycle
    Accels,     \* accelerations a packet may carry
    IMax,       \* bound on the magnitude of the integral
    UMax,       \* DUTY_MAX
    BrakeOn,    \* BRAKE_TH + MODE_HYST
    BrakeOff,   \* BRAKE_TH - MODE_HYST
    VBrakeMin,  \* V_BRAKE_MIN
    Speeds      \* the speeds the encoder may report; reversing is negative

ASSUME RearAssumption ==
    /\ VMax \in Nat /\ AMax \in Nat /\ IMax \in Nat /\ UMax \in Nat
    /\ Accels \subseteq Int
    /\ BrakeOff \in Nat /\ BrakeOn \in Nat /\ BrakeOff <= BrakeOn
    /\ VBrakeMin \in Int
    /\ Speeds \subseteq Int /\ 0 \in Speeds

VARIABLES
    cmd,                                        \* last drive command written
    s_v_ref, s_I_term, s_brake_mode, s_prev_mode,   \* statics of core 1
    motor,                                      \* what the H-bridges do
    u, v_meas, branch       \* output, speed and branch of the last cycle

statics == <<s_v_ref, s_I_term, s_brake_mode, s_prev_mode>>
cycle   == <<u, v_meas, branch>>
vars    == <<cmd, statics, motor, cycle>>

ControlModes == {"MANUAL", "ACC", "AEB", "UNKNOWN"}
Directions   == {"STOP", "FWD", "REV", "UNKNOWN"}
Motors       == {"FORWARD", "REVERSE", "COAST", "BRAKE"}

DriveCmd == [control_mode    : ControlModes,
             drive_direction : Directions,
             accel_cmd       : Accels,
             accel_finite    : BOOLEAN,
             emergency_stop  : BOOLEAN]

TypeOK ==
    /\ cmd \in DriveCmd
    /\ s_v_ref \in 0 .. VMax
    /\ s_I_term \in -IMax .. IMax
    /\ s_brake_mode \in {0, 1}
    /\ s_prev_mode \in ControlModes
    /\ motor \in Motors
    /\ u \in -UMax .. UMax
    /\ v_meas \in Speeds
    /\ branch \in {"STOPPED", "MANUAL", "ACC"}

\* Zeroed memory is a MANUAL stop; the previous mode starts as ACC.
Init ==
    /\ cmd \in {c \in DriveCmd : /\ c.control_mode = "MANUAL"
                                 /\ c.drive_direction = "STOP"
                                 /\ c.accel_finite
                                 /\ ~c.emergency_stop}
    /\ s_v_ref = 0 /\ s_I_term = 0
    /\ s_brake_mode = 0 /\ s_prev_mode = "ACC"
    /\ motor = "COAST"
    /\ u = 0 /\ v_meas = 0 /\ branch = "STOPPED"

-----------------------------------------------------------------------------
\* Mutant of clampf: the upper limit is missed by one.
clampf_OffByOne(x, lo, hi) == IF x < lo THEN lo ELSE IF x > hi + 1 THEN hi + 1 ELSE x

clampf(x, lo, hi) == IF x < lo THEN lo ELSE IF x > hi THEN hi ELSE x

\* udp_receive_acc_recv and Cpu0_WriteDriveCmd: the fields are taken from the
\* datagram unchecked (from uninitialised memory where it is too short), so
\* any command may arrive, whoever sent it.
Receive(c) ==
    /\ cmd' = c
    /\ UNCHANGED <<statics, motor, cycle>>

Urgent == cmd.control_mode = "AEB" \/ cmd.emergency_stop

acc_reset_state == s_v_ref' = 0 /\ s_I_term' = 0

\* Mutants of Stopped: the integrator, or the brake latch, is not touched.
Stopped_NoReset ==
    /\ Urgent
    /\ s_brake_mode' = 1
    /\ motor' = "BRAKE"
    /\ s_prev_mode' = cmd.control_mode
    /\ u' = 0 /\ branch' = "STOPPED"
    /\ UNCHANGED <<s_v_ref, s_I_term>>
Stopped_NoLatch ==
    /\ Urgent
    /\ acc_reset_state
    /\ motor' = "BRAKE"
    /\ s_prev_mode' = cmd.control_mode
    /\ u' = 0 /\ branch' = "STOPPED"
    /\ UNCHANGED s_brake_mode

\* Step 3 of Cpu1_ControlLoop.
Stopped ==
    /\ Urgent
    /\ acc_reset_state
    /\ s_brake_mode' = 1
    /\ motor' = "BRAKE"
    /\ s_prev_mode' = cmd.control_mode
    /\ u' = 0 /\ branch' = "STOPPED"

\* Mutant of Manual: it does not wait for the emergency check.
Manual_First ==
    /\ cmd.control_mode = "MANUAL"
    /\ acc_reset_state
    /\ s_prev_mode' = "MANUAL"
    /\ motor' = IF cmd.drive_direction = "STOP" THEN "COAST" ELSE "FORWARD"
    /\ u' = 0 /\ branch' = "MANUAL"
    /\ UNCHANGED s_brake_mode

\* Step 4.
Manual ==
    /\ ~Urgent /\ cmd.control_mode = "MANUAL"
    /\ IF s_prev_mode # "MANUAL" THEN acc_reset_state
                                 ELSE UNCHANGED <<s_v_ref, s_I_term>>
    /\ s_prev_mode' = "MANUAL"
    /\ motor' = CASE cmd.drive_direction = "STOP" -> "COAST"
                  [] cmd.drive_direction = "REV"  -> "REVERSE"
                  [] OTHER                        -> "FORWARD"
    /\ u' \in IF cmd.drive_direction = "STOP" THEN {0} ELSE 0 .. UMax
    /\ branch' = "MANUAL"
    /\ UNCHANGED s_brake_mode

\* apply_output for an output of out at speed v.
apply_output(out, v) ==
    \/ /\ out >= 0
       /\ motor' = "FORWARD"
       /\ UNCHANGED s_brake_mode
    \/ /\ out < 0 /\ v < VBrakeMin
       /\ motor' = "COAST"
       /\ UNCHANGED s_brake_mode
    \/ /\ out < 0 /\ v >= VBrakeMin
       /\ s_brake_mode' = IF -out > BrakeOn THEN 1
                          ELSE IF -out < BrakeOff THEN 0 ELSE s_brake_mode
       /\ motor' = IF s_brake_mode' = 1 THEN "BRAKE" ELSE "COAST"

\* Step 5: a reset on entry, the integrated speed reference, the PI output.
Acc ==
    LET entered == s_prev_mode # "ACC"
        v0      == IF entered THEN 0 ELSE s_v_ref
        a_cmd   == IF cmd.accel_finite THEN clampf(cmd.accel_cmd, -AMax, AMax) ELSE 0
    IN  /\ ~Urgent /\ cmd.control_mode # "MANUAL"
        /\ s_prev_mode' = "ACC"
        /\ s_v_ref' = clampf(v0 + a_cmd, 0, VMax)
        /\ s_I_term' \in IF s_v_ref' <= 0 THEN {0} ELSE -IMax .. IMax
        /\ u' \in -UMax .. UMax
        /\ apply_output(u', v_meas')
        /\ branch' = "ACC"

\* cpu1_ctrl_ISR.
ControlLoop ==
    /\ v_meas' \in Speeds
    /\ Stopped \/ Manual \/ Acc
    /\ UNCHANGED cmd

Next == ControlLoop \/ \E c \in DriveCmd : Receive(c)

Spec == Init /\ [][Next]_vars

-----------------------------------------------------------------------------
\* No integrator state survives a change of mode: the speed reference and the
\* integral are non-zero only when the last cycle was an ACC cycle, so ACC
\* always starts from zero after MANUAL, AEB or an emergency stop, including
\* the emergency stop given in ACC mode, which leaves s_prev_mode at ACC.
NoResidue == (s_v_ref # 0 \/ s_I_term # 0) => branch = "ACC"

\* Once the short brake is on, an ACC cycle that still asks for braking within
\* the hysteresis band does not release it while the vehicle rolls forward,
\* also right after an AEB stop hands over to ACC (s_brake_mode).
BrakeHeldUnderDemand ==
    [][motor = "BRAKE" /\ branch' = "ACC" /\ cmd' = cmd
          /\ u' <= -BrakeOff /\ u' < 0 /\ v_meas' >= VBrakeMin
          => motor' = "BRAKE"]_<<motor, cycle, statics>>

\* An emergency stop or AEB command that stays in force is braked for.
UrgentBrakes == Urgent ~> (motor = "BRAKE" \/ ~Urgent)
=============================================================================
