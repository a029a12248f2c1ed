---------------------------- MODULE HpscReceiver ----------------------------
(***************************************************************************)
(* The HPSC command receiver of the FRONT TC375: what a packet does to the *)
(* command half of g_state in FrontSteeringNode.c, and what the watchdog   *)
(* does to it.  The two diagnostic packet counters are left out: nothing   *)
(* reads them back.  FrontSteering runs this receiver inside the node's    *)
(* main loop; SteeringLink puts a sender and a network in front of it.     *)
(*                                                                         *)
(* A packet is the record of what the receiver reads from its 40 bytes.    *)
(* Angles are integers, rates angle units per millisecond.                 *)
(***************************************************************************)
EXTENDS WordArith

CONSTANTS
    MaxAbs,         \* FRONT_STEERING_MAX_ABS_RAD
    MinRate,        \* 0.05 rad/s, lower clamp of maxRateRadS
    MaxRate,        \* 10 rad/s, upper clamp of maxRateRadS
    DefaultRate     \* FRONT_STEERING_DEFAULT_MAX_RATE_RAD_S

ASSUME ServoAssumption ==
    /\ MaxAbs \in Nat
    /\ MinRate \in Nat /\ MaxRate \in Nat /\ DefaultRate \in Nat
    /\ MinRate <= DefaultRate /\ DefaultRate <= MaxRate

Modes == {"DISABLED", "STEERING_ANGLE", "OTHER"}

Packet == [sequence        : Words,
           wellFormed      : BOOLEAN,  \* length, magic, version, header, CRC
           controlMode     : Modes,
           steeringValid   : BOOLEAN,
           emergencyCenter : BOOLEAN,
           upstreamValid   : BOOLEAN,
           finite          : BOOLEAN,  \* angle and rate are finite floats
           angle           : Int,
           rate            : Int]

VARIABLES
    initialized, linkValid, commandValid, emergencyCenter,
    targetAngle, maxRate, lastSequence, lastPacketMs

command == <<initialized, linkValid, commandValid, emergencyCenter,
             targetAngle, maxRate, lastSequence, lastPacketMs>>

Angles == -MaxAbs .. MaxAbs
Rates  == MinRate .. MaxRate

CommandTypeOK(Times) ==
    /\ initialized \in BOOLEAN
    /\ linkValid \in BOOLEAN
    /\ commandValid \in BOOLEAN
    /\ emergencyCenter \in BOOLEAN
    /\ targetAngle \in Angles
    /\ maxRate \in Rates
    /\ lastSequence \in Words
    /\ lastPacketMs \in Times

\* The command half of what FrontSteeringNode_init leaves.
CommandInit ==
    /\ initialized = FALSE /\ linkValid = FALSE
    /\ commandValid = FALSE /\ emergencyCenter = FALSE
    /\ targetAngle = 0
    /\ maxRate = DefaultRate
    /\ lastSequence = 0 /\ lastPacketMs = 0

-----------------------------------------------------------------------------
\* clampFloat.
Clamp(value, lo, hi) ==
    IF value < lo THEN lo ELSE IF value > hi THEN hi ELSE value

\* The commandValid test of FrontSteeringNode_acceptHpscPacket.
IsCommand(p) ==
    /\ p.steeringValid
    /\ p.upstreamValid
    /\ p.controlMode = "STEERING_ANGLE"
    /\ p.finite
    /\ p.angle \in Angles
    /\ p.rate > 0

\* Mutant of acceptTarget: the rate is taken over unclamped.
acceptTarget_NoRateClamp(sequence, angle, rate, cmdValid, center, nowMs) ==
    /\ initialized' = TRUE /\ linkValid' = TRUE
    /\ lastSequence' = sequence /\ lastPacketMs' = nowMs
    /\ maxRate' = rate
    /\ emergencyCenter' = center
    /\ commandValid' = (cmdValid /\ ~center)
    /\ targetAngle' = IF cmdValid /\ ~center
                      THEN Clamp(angle, -MaxAbs, MaxAbs) ELSE 0

\* acceptTarget: the accepted packet's sequence and time, clamped rate, flags
\* and target.
acceptTarget(sequence, angle, rate, cmdValid, center, nowMs) ==
    /\ initialized' = TRUE
    /\ lastSequence' = sequence
    /\ lastPacketMs' = nowMs
    /\ maxRate' = Clamp(rate, MinRate, MaxRate)
    /\ emergencyCenter' = center
    /\ commandValid' = (cmdValid /\ ~center)
    /\ linkValid' = TRUE
    /\ targetAngle' = IF cmdValid /\ ~center
                      THEN Clamp(angle, -MaxAbs, MaxAbs) ELSE 0

\* Rejected packets are counted and otherwise ignored.
rejectPacket == UNCHANGED command

\* A packet whose form is good and whose sequence is new.
Fresh(p) ==
    /\ p.wellFormed
    /\ initialized => sequenceNewer(p.sequence, lastSequence)

\* The three outcomes of a fresh packet, and the early returns.
acceptHpscPacket(p, nowMs) ==
    \/ /\ Fresh(p) /\ p.emergencyCenter
       /\ acceptTarget(p.sequence, 0, DefaultRate, FALSE, TRUE, nowMs)
    \/ /\ Fresh(p) /\ ~p.emergencyCenter /\ IsCommand(p)
       /\ acceptTarget(p.sequence, p.angle, p.rate, TRUE, FALSE, nowMs)
    \/ /\ Fresh(p) /\ ~p.emergencyCenter /\ ~IsCommand(p)
       /\ p.controlMode = "DISABLED"
       /\ acceptTarget(p.sequence, 0, DefaultRate, FALSE, FALSE, nowMs)
    \/ /\ Fresh(p) => ~p.emergencyCenter /\ ~IsCommand(p)
                      /\ p.controlMode # "DISABLED"
       /\ rejectPacket

Accepted(p) ==
    Fresh(p) /\ (p.emergencyCenter \/ IsCommand(p) \/ p.controlMode = "DISABLED")

\* Mutant of Watchdog: the link goes down but the target stays.
Watchdog_KeepsTarget(tripped) ==
    /\ linkValid' = (linkValid /\ ~tripped)
    /\ commandValid' = (commandValid /\ ~tripped)
    /\ emergencyCenter' = (emergencyCenter \/ tripped)
    /\ UNCHANGED <<initialized, targetAngle, maxRate, lastSequence, lastPacketMs>>

\* The watchdog of FrontSteeringNode_runOnce, tripped or not.
Watchdog(tripped) ==
    /\ linkValid' = (linkValid /\ ~tripped)
    /\ commandValid' = (commandValid /\ ~tripped)
    /\ emergencyCenter' = (emergencyCenter \/ tripped)
    /\ targetAngle' = IF tripped THEN 0 ELSE targetAngle
    /\ UNCHANGED <<initialized, maxRate, lastSequence, lastPacketMs>>

-----------------------------------------------------------------------------
\* The wheels are asked to turn only under an accepted command that is still
\* in force: whatever order of packets, rejections, watchdog trips and clock
\* wraps led here, a target off centre goes with a live link, a valid command
\* and no emergency centring (g_state of FrontSteeringNode.c).
SteeringAuthorised ==
    targetAngle # 0 => initialized /\ linkValid /\ commandValid /\ ~emergencyCenter

=============================================================================
