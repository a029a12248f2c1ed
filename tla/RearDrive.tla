----------------------------- MODULE RearDrive -----------------------------
(***************************************************************************)
(* REAR's control loop (RearControl) with the two ends of its network: the *)
(* drive half of the HPVC remote controller, and core 0, which takes every *)
(* datagram on a command port, remembers the address it came from, and     *)
(* sends its status to that address every 20 ms.                           *)
(*                                                                         *)
(* A publish sends to FRONT first; when that raises, as it does at every   *)
(* turn while HPVC has no route to FRONT or to the broadcast address,      *)
(* nothing is sent to REAR (sendable).  REAR neither authenticates nor     *)
(* times out a command: the last one stays in force when its sender dies,  *)
(* until the same or another sender replaces it.  Drive packets travel one *)
(* switch hop: they may be lost, not overtake each other.  What FRONT      *)
(* makes of its packets is SteeringLink's matter.                          *)
(***************************************************************************)
EXTENDS RearControl

CONSTANTS
    Drives,     \* drive commands of the operator: STOP, FORWARD, REVERSE
    Others      \* commands that other hosts send

ASSUME DriveAssumption ==
    /\ "STOP" \in Drives /\ Drives \subseteq {"STOP", "FORWARD", "REVERSE"}
    /\ Others \subseteq DriveCmd
    /\ 0 \in Accels

VARIABLES
    up, drive, estop,   \* the controller's process and RemoteControlState
    sendable,           \* environment: the sends to FRONT do not raise
    pcip,               \* whose address core 0 remembers
    statusTo,           \* who got a status frame last, since the process started
    released            \* observer: the emergency stop was not given, was ended
                        \* by the operator, or forgotten by a restart

controller == <<up, drive, estop, sendable, released>>
driveVars  == <<vars, controller, pcip, statusTo>>
loopVars   == <<statics, motor, cycle>>

Hosts == {"HPVC", "other"}

DriveTypeOK ==
    /\ TypeOK
    /\ up \in BOOLEAN /\ drive \in Drives /\ estop \in BOOLEAN
    /\ sendable \in BOOLEAN
    /\ pcip \in Hosts /\ statusTo \in Hosts \union {"none"}
    /\ released \in BOOLEAN

\* UdpInit presets the address of HPVC.
DriveInit ==
    /\ Init
    /\ up = FALSE /\ drive = "STOP" /\ estop = FALSE
    /\ sendable \in BOOLEAN
    /\ pcip = "HPVC" /\ statusTo = "none" /\ released = TRUE

-----------------------------------------------------------------------------
\* _pack_rear_drive_locked.  The speed, zero exactly for STOP, only scales the
\* duty cycle.
PackRear(dr, es) ==
    [control_mode |-> "MANUAL",
     drive_direction |-> CASE dr = "FORWARD" -> "FWD"
                           [] dr = "REVERSE" -> "REV"
                           [] OTHER          -> "STOP",
     accel_cmd |-> 0, accel_finite |-> TRUE, emergency_stop |-> es]

\* Mutants of Take: the address is only taken over from the preset one; the
\* callback itself switches the motor off.
Take_FirstOnly(c, host) ==
    Receive(c) /\ pcip' = IF pcip = "HPVC" THEN host ELSE pcip
Take_Coasts(c, host) ==
    /\ cmd' = c /\ pcip' = host /\ motor' = "COAST"
    /\ UNCHANGED <<statics, cycle>>

\* udp_receive_acc_recv: the command, and the address it came from.
Take(c, host) == Receive(c) /\ pcip' = host

\* A drive packet is lost, or was never sent.
Missed == UNCHANGED <<vars, pcip>>

\* _publish_locked, as far as REAR is concerned, with the operator's state as
\* the handler left it.
Reaches(dr, es) ==
    /\ up /\ sendable
    /\ drive' = dr /\ estop' = es
    /\ Take(PackRear(dr, es), "HPVC")
    /\ UNCHANGED <<up, sendable, statusTo>>

\* A send failed, to FRONT or to REAR, or the packet was lost.
FallsShort(dr, es) ==
    /\ up
    /\ drive' = dr /\ estop' = es
    /\ Missed
    /\ UNCHANGED <<up, sendable, statusTo>>

Handler(dr, es) == Reaches(dr, es) \/ FallsShort(dr, es)

\* POST /api/control, which clears the emergency stop.
Control(dr) == Handler(dr, FALSE) /\ released' = TRUE

\* POST /api/estop.
EmergencyStop == Handler("STOP", TRUE) /\ released' = FALSE

\* POST /api/stop and /api/reset.
Stop == Handler("STOP", FALSE) /\ released' = TRUE

\* Mutant of LoopReaches: the publisher thread pauses in an emergency stop.
LoopReaches_Pauses == ~estop /\ Reaches(drive, estop) /\ UNCHANGED released

\* A turn of _publish_loop that gets through to REAR, or does not.
LoopReaches    == Reaches(drive, estop) /\ UNCHANGED released
LoopFallsShort == FallsShort(drive, estop) /\ UNCHANGED released

\* The process starts with a fresh state.  Its resynchronisation addresses
\* FRONT only.
Start ==
    /\ ~up
    /\ up' = TRUE /\ drive' = "STOP" /\ estop' = FALSE
    /\ statusTo' = "none" /\ released' = TRUE
    /\ UNCHANGED <<vars, sendable, pcip>>

\* Mutant of StopPacket: close packs a fresh state.
StopPacket_Fresh == PackRear("STOP", FALSE)

\* What _send_stop_locked packs: it stops the drive and keeps the emergency flag.
StopPacket == PackRear("STOP", estop)

\* close: a last stop for REAR, sent before anything to FRONT; the process is
\* gone.
Close ==
    /\ up
    /\ up' = FALSE /\ drive' = "STOP" /\ estop' = FALSE
    /\ Take(StopPacket, "HPVC") \/ Missed
    /\ UNCHANGED <<sendable, statusTo, released>>

\* The process is killed.
Kill ==
    /\ up
    /\ up' = FALSE /\ drive' = "STOP" /\ estop' = FALSE
    /\ UNCHANGED <<vars, sendable, pcip, statusTo, released>>

\* HPVC's route to FRONT goes or comes back.
Route ==
    /\ sendable' = ~sendable
    /\ UNCHANGED <<vars, up, drive, estop, released, pcip, statusTo>>

\* A command from another host.
OtherSends(c) ==
    /\ Take(c, "other")
    /\ UNCHANGED <<controller, statusTo>>

\* The 20 ms branch of core0_main: one status frame for the remembered host.
Status ==
    /\ statusTo' = pcip
    /\ UNCHANGED <<vars, controller, pcip>>

\* cpu1_ctrl_ISR.
Cycle == ControlLoop /\ UNCHANGED <<controller, pcip, statusTo>>

DriveNext ==
    \/ \E dr \in Drives : Control(dr)
    \/ EmergencyStop
    \/ Stop
    \/ LoopReaches
    \/ LoopFallsShort
    \/ Start
    \/ Close
    \/ Kill
    \/ Route
    \/ \E c \in Others : OtherSends(c)
    \/ Status
    \/ Cycle

\* Core 1's timer interrupt and core 0's loop keep running.  A controller that
\* stays up and whose sends to FRONT have stopped raising gets a drive packet
\* through again and again: its publisher thread has no exit and the network
\* does not lose every packet.  Nothing makes the sends stop raising.
DriveSpec ==
    /\ DriveInit /\ [][DriveNext]_driveVars
    /\ WF_driveVars(Cycle) /\ WF_driveVars(Status) /\ WF_driveVars(LoopReaches)

-----------------------------------------------------------------------------
\* Core 1 cannot tell this network from the free environment of RearControl:
\* whatever hosts and processes do is a control cycle, a received command or
\* nothing to it, so what holds of RearControl holds here.
ControlSpec == Spec

\* An emergency stop that reached REAR is not undone by lost packets, failed
\* sends, an orderly close or the death of the controller: only the operator,
\* a controller that was restarted and has forgotten it, or another host
\* replaces it by a command without the flag.
EstopKept ==
    [][pcip = "HPVC" /\ cmd.emergency_stop /\ ~cmd'.emergency_stop
          => released' \/ pcip' = "other"]_driveVars

\* An emergency stop the operator keeps up is braked for in the end, also one
\* given while the sends to FRONT raised, so that its own packet and any number
\* of repetitions were never sent: once those sends work, the publisher thread
\* makes up for it.  While they raise nothing is promised (_publish_locked
\* skips REAR), nor when another host interferes.
EstopBrakes ==
    up /\ estop ~> motor = "BRAKE" \/ ~up \/ ~estop \/ ~sendable \/ pcip = "other"

\* A controller that stays up and whose sends have stopped raising gets REAR's
\* status for good once other hosts no longer take the address over, however
\* often they have.
StatusReturns ==
    <>[](up /\ sendable) /\ <>[][pcip' # "other"]_pcip => <>[](statusTo = "HPVC")
=============================================================================
