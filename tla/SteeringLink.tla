---------------------------- MODULE SteeringLink ----------------------------
(***************************************************************************)
(* The HPVC remote controller (HpvcRemoteController of                     *)
(* remote_control_flask.py) and the FRONT board it steers.  The operator   *)
(* steers, stops and emergency-stops through the HTTP handlers; each       *)
(* handler and each turn of the publisher thread sends one steering packet *)
(* to FRONT, twice (unicast and broadcast), and one drive packet to REAR,  *)
(* all under one lock, and stops at the first send that fails.  The        *)
(* process may be closed, killed and started again; a start resynchronises *)
(* FRONT's sequence number with four packets a quarter of the word apart.  *)
(*                                                                         *)
(* FRONT is HpscReceiver with the watchdog free to trip at any time.  Of   *)
(* the drive packet only whether its send raised matters here: the drive   *)
(* half of the controller is in RearDrive.                                 *)
(***************************************************************************)
EXTENDS HpscReceiver, Sequences

CONSTANTS
    Quarter,    \* FRONT_SEQUENCE_RESYNC_STEP, 0x40000000
    SteerAngle, \* steer_rad
    SteerRate,  \* the constant 2.0 rad/s of every packet
    Steers,     \* the steering commands the operator uses
    Bases,      \* low bits the monotonic clock may have at a start
    Priors,     \* sequence numbers an earlier sender may have left in FRONT
    NetCap,     \* bound: steering packets in flight
    MaxSends    \* bound: steering packets sent in a behaviour, at most
                \* a quarter of the word and two: 2^30, 20 months at 20 Hz

ASSUME LinkAssumption ==
    /\ Quarter \in Nat \ {0} /\ HalfWord = 2 * Quarter
    /\ SteerAngle \in 0 .. MaxAbs
    /\ SteerRate \in Nat \ {0}
    /\ {"STRAIGHT"} \subseteq Steers /\ Steers \subseteq {"STRAIGHT", "LEFT", "RIGHT"}
    /\ Bases \subseteq 0 .. Quarter - 1
    /\ Priors \subseteq Words
    /\ NetCap \in Nat /\ MaxSends \in 0 .. Quarter + 2

VARIABLES
    \* The controller: process phase, RemoteControlState, resync progress.
    phase, sequence, steer, estop, base, index,
    \* Steering packets in flight, each with its send order and its resync
    \* index (0 for an ordinary one).
    net,
    \* Observer only: packets sent, send order of the last one delivered to
    \* FRONT and of the last one it accepted, resync packets (1..4) delivered
    \* since the last start.
    sent, heard, acceptedOrder, resynced

operator == <<steer, estop>>
sender   == <<phase, sequence, operator, base, index>>
front    == <<heard, acceptedOrder, resynced>>
observer == <<sent, front>>
vars     == <<command, sender, net, observer>>

InFlight == [packet : Packet, order : 0 .. MaxSends, resync : 0 .. 4]

TypeOK ==
    /\ CommandTypeOK({0})
    /\ phase \in {"down", "resync", "up"}
    /\ sequence \in Words
    /\ steer \in Steers /\ estop \in BOOLEAN
    /\ base \in 0 .. Quarter - 1
    /\ index \in 0 .. 4
    /\ net \in Seq(InFlight) /\ Len(net) <= NetCap
    /\ sent \in 0 .. MaxSends
    /\ heard \in 0 .. MaxSends /\ acceptedOrder \in 0 .. MaxSends
    /\ resynced \subseteq 1 .. 4

\* FRONT is just booted, or was left by an earlier sender with its
\* watchdog tripped.
FrontInit ==
    \/ CommandInit
    \/ /\ initialized = TRUE /\ linkValid = FALSE
       /\ commandValid = FALSE /\ emergencyCenter = TRUE
       /\ targetAngle = 0
       /\ maxRate = DefaultRate
       /\ lastSequence \in Priors /\ lastPacketMs = 0

Init ==
    /\ FrontInit
    /\ phase = "down" /\ sequence = 0
    /\ steer = "STRAIGHT" /\ estop = FALSE
    /\ base = 0 /\ index = 0
    /\ net = <<>>
    /\ sent = 0 /\ heard = 0 /\ acceptedOrder = 0 /\ resynced = {}

-----------------------------------------------------------------------------
\* _steering_angle_locked.
SteeringAngle(st, es) ==
    IF es \/ st = "STRAIGHT" THEN 0
    ELSE IF st = "LEFT" THEN SteerAngle ELSE -SteerAngle

\* _pack_front_steering_locked.
PackFront(seq, st, es, center) ==
    LET valid == ~center /\ ~es
    IN  [sequence |-> seq, wellFormed |-> TRUE,
         controlMode |-> IF valid THEN "STEERING_ANGLE" ELSE "DISABLED",
         steeringValid |-> valid, emergencyCenter |-> ~valid,
         upstreamValid |-> ~center, finite |-> TRUE,
         angle |-> IF center THEN 0 ELSE SteeringAngle(st, es),
         rate |-> SteerRate]

\* _send_front_packet_locked: the packet goes out n times (0: the unicast send
\* failed, 1: the broadcast failed, 2: both worked).
SendFront(p, n, k) ==
    /\ sent < MaxSends /\ Len(net) + n <= NetCap
    /\ sent' = IF n = 0 THEN sent ELSE sent + 1
    /\ net' = net \o [i \in 1 .. n |->
                        [packet |-> p, order |-> sent + 1, resync |-> k]]

\* _publish_locked with the operator's state as the handler left it.  The first
\* failing send ends it: only when all three sends worked does the sequence
\* move on.
Publish(st, es) ==
    LET p == PackFront(sequence, st, es, FALSE)
    IN  \/ /\ SendFront(p, 2, 0)
           /\ sequence' = WordAdd(sequence, 1)
        \/ /\ \E n \in 0 .. 2 : SendFront(p, n, 0)  \* 2: the send to REAR failed
           /\ UNCHANGED sequence

Handler(st, es) ==
    /\ phase = "up"
    /\ steer' = st /\ estop' = es
    /\ Publish(st, es)
    /\ UNCHANGED <<command, phase, base, index, front>>

\* POST /api/control: any steering command; clears the emergency stop.
Control(st) == Handler(st, FALSE)

\* POST /api/estop.
EmergencyStop == Handler("STRAIGHT", TRUE)

\* POST /api/stop and /api/reset.
Stop == Handler("STRAIGHT", FALSE)

\* One turn of _publish_loop.
PublishLoop == Handler(steer, estop)

-----------------------------------------------------------------------------
\* The process starts: a fresh state, and the sequence from the monotonic
\* clock, of which the resynchronisation keeps the low bits.  Packets of the
\* previous process have long left the network by then.
Start(b) ==
    /\ phase = "down" /\ net = <<>>
    /\ phase' = "resync" /\ base' = b /\ index' = 0
    /\ sequence' = b
    /\ steer' = "STRAIGHT" /\ estop' = FALSE
    /\ resynced' = {}
    /\ UNCHANGED <<command, net, sent, heard, acceptedOrder>>

\* Mutants of ResyncSequence: not reduced to a word; a step of half the word.
ResyncSequence_Unmasked(k) == base + (k + 1) * Quarter
ResyncSequence_Half(k)     == base + (k % 2) * HalfWord

\* The sequence number of resync packet k.
ResyncSequence(k) == base + k * Quarter

\* One turn of _resync_front_sequence_locked.
Resync ==
    /\ phase = "resync" /\ index < 4
    /\ sequence' = ResyncSequence(index)
    /\ SendFront(PackFront(ResyncSequence(index), "STRAIGHT", FALSE, FALSE),
                 2, index + 1)
    /\ index' = index + 1
    /\ UNCHANGED <<command, phase, operator, base, front>>

\* A send failed: the loop is abandoned with the sequence it had reached.
ResyncFail ==
    /\ phase = "resync" /\ index < 4
    /\ sequence' = ResyncSequence(index)
    /\ \E n \in {0, 1} :
         SendFront(PackFront(ResyncSequence(index), "STRAIGHT", FALSE, FALSE), n, 0)
    /\ phase' = "up" /\ index' = 0 /\ base' = 0
    /\ UNCHANGED <<command, operator, front>>

\* All four are out: publishing goes on after the last of them.
ResyncDone ==
    /\ phase = "resync" /\ index = 4
    /\ sequence' = WordAdd(sequence, 1)
    /\ phase' = "up" /\ index' = 0 /\ base' = 0
    /\ UNCHANGED <<command, operator, net, observer>>

\* The controller's memory is gone with its process.
ProcessGone ==
    /\ phase' = "down" /\ sequence' = 0 /\ base' = 0 /\ index' = 0
    /\ steer' = "STRAIGHT" /\ estop' = FALSE

\* close: the publisher has stopped; stop to REAR, then emergency centre to
\* FRONT under the current sequence number.  A failing send skips the rest.
Close ==
    /\ phase = "up"
    /\ ProcessGone
    /\ \/ \E n \in 0 .. 2 :
            SendFront(PackFront(sequence, "STRAIGHT", estop, TRUE), n, 0)
       \/ UNCHANGED <<net, sent>>
    /\ UNCHANGED <<command, front>>

\* The process is killed.
Kill ==
    /\ phase # "down"
    /\ ProcessGone
    /\ UNCHANGED <<command, net, observer>>

-----------------------------------------------------------------------------
Remove(i) == SubSeq(net, 1, i - 1) \o SubSeq(net, i + 1, Len(net))

\* Packets may overtake each other, but not within the resynchronisation,
\* whose packets leave 10 ms apart.
CanOvertake(i) == \A j \in 1 .. i : i = 1 \/ net[j].resync = 0

\* FRONT takes a packet from the network.
Deliver(i) ==
    /\ CanOvertake(i)
    /\ acceptHpscPacket(net[i].packet, 0)
    /\ heard' = net[i].order
    /\ acceptedOrder' = IF Accepted(net[i].packet) THEN net[i].order ELSE acceptedOrder
    /\ resynced' = resynced \union ({net[i].resync} \ {0})
    /\ net' = Remove(i)
    /\ UNCHANGED <<sender, sent>>

\* The network, or a full receive ring, loses a packet.
Lose(i) ==
    /\ net' = Remove(i)
    /\ UNCHANGED <<command, sender, observer>>

\* FRONT's watchdog trips.
FrontTrip ==
    /\ Watchdog(TRUE)
    /\ UNCHANGED <<sender, net, observer>>

Next ==
    \/ \E st \in Steers : Control(st)
    \/ EmergencyStop
    \/ Stop
    \/ PublishLoop
    \/ \E b \in Bases : Start(b)
    \/ Resync
    \/ ResyncFail
    \/ ResyncDone
    \/ Close
    \/ Kill
    \/ \E i \in DOMAIN net : Deliver(i) \/ Lose(i)
    \/ FrontTrip

Spec == Init /\ [][Next]_vars

-----------------------------------------------------------------------------
\* Every packet FRONT applies was sent after all those it has applied: never
\* the twin of one (each goes out twice) nor an overtaken one, although a
\* failed publish reuses its sequence number and a restart moves the numbers
\* (sequenceNewer against _publish_locked and the resync).  Each delivery is
\* judged, also one that would leave FRONT's state as it is.
NoReplay ==
    [][\A i \in DOMAIN net :
          Deliver(i) /\ Accepted(net[i].packet) => net[i].order > acceptedOrder]_vars

\* A packet that asks for emergency centring, is the latest one sent and is
\* not behind FRONT's sequence number, centres the wheels when it arrives.
CenterObeyed ==
    [][\A i \in DOMAIN net :
          /\ heard' # heard /\ heard' = net[i].order /\ net[i].order = sent
          /\ net[i].packet.emergencyCenter
          /\ WordSub(net[i].packet.sequence, lastSequence) < HalfWord
          => targetAngle' = 0]_vars

\* Enough of the resynchronisation got through: three packets in a row.
ResyncSeen == {1, 2, 3} \subseteq resynced \/ {2, 3, 4} \subseteq resynced

\* Whatever sequence number FRONT held before, a restarted controller whose
\* resynchronisation got through is never locked out: its next packet is
\* newer than FRONT's last, or is a repetition after a failed publish.
NeverLockedOut ==
    phase = "up" /\ ResyncSeen => WordSub(sequence, lastSequence) < HalfWord
=============================================================================
