----------------------------- MODULE RuntimeApi -----------------------------
(***************************************************************************)
(* The HPVC runtime API (hpvc_runtime_api.py) and the two boards it        *)
(* commands.  HTTP handlers change the requested features; every change,   *)
(* and every FRONT sensor frame, recomputes which features are in effect.  *)
(* Handlers and two publisher threads send one steering packet to FRONT    *)
(* and one drive packet to REAR, all under one lock, and stop at the first *)
(* send that fails.  The first publisher thread starts before the counters *)
(* it uses exist and dies if it runs that early.                           *)
(*                                                                         *)
(* Time advances in publisher periods (50 ms): in each, every publisher    *)
(* alive has one turn.  A packet sent is delivered or lost.  FRONT is      *)
(* HpscReceiver with its watchdog, which runs at least once in FrontTurns  *)
(* periods (sensor work and the ToF search hold it up) and may also trip   *)
(* on a live link, as it does when the millisecond clock turns over.  REAR *)
(* takes the bytes at the offsets of udp_receive_acc_recv.  Fields that    *)
(* only reach the status page (LCA, turn signal, reasons) are left out,    *)
(* and so is the acceleration estimate, whose bytes REAR does not read as  *)
(* one number; REAR's status frames feed only that.                        *)
(***************************************************************************)
EXTENDS HpscReceiver, Sequences

CONSTANTS
    SteerAngle,     \* 0.25 rad
    SteerRate,      \* 0.5 rad/s
    Steers,         \* steering commands the operator uses
    Drives,         \* drive commands the operator uses
    Features,       \* features the operator switches
    Frames,         \* ToF distances of FRONT's sensor frames, 0 for none
    Guard,          \* 0.18 m
    WatchdogTurns,  \* FRONT's watchdog, in publisher periods
    FrontTurns      \* longest time between two runs of it, in periods

ASSUME ApiAssumption ==
    /\ SteerAngle \in 0 .. MaxAbs /\ SteerRate \in Nat \ {0}
    /\ "STRAIGHT" \in Steers /\ Steers \subseteq {"STRAIGHT", "LEFT", "RIGHT"}
    /\ "STOP" \in Drives /\ Drives \subseteq {"STOP", "FORWARD", "REVERSE"}
    /\ Features \subseteq {"lkas", "acc", "aeb"}
    /\ 0 \in Frames /\ Frames \subseteq Nat /\ Guard \in Nat
    /\ WatchdogTurns \in Nat /\ FrontTurns \in Nat \ {0}

VARIABLES
    phase,      \* the process: down, boot (threads run, counters missing), up
    loopAlive,  \* _publish_thread is alive
    requested, effective, front_aeb,    \* RuntimeControlState
    sequence,
    due,        \* publishers that still have their turn in this period
    rearCmd,    \* the drive command REAR holds
    sinceRun,   \* periods since FRONT ran its watchdog
    \* Observer only (quiet is also FRONT's packet age), in periods: since FRONT
    \* accepted a packet, since LKAS was last requested, since a packet failed
    \* or was lost or the process started (clean), since that or since the mode
    \* the operator and the ranger call for changed (settled); and the fields
    \* packed in the drive packet REAR received last.
    quiet, lkasOff, clean, settled, packed

api      == <<phase, loopAlive, requested, effective, front_aeb, sequence, due>>
observer == <<quiet, lkasOff, clean, settled, packed>>
vars     == <<command, api, rearCmd, sinceRun, observer>>

Publishers == {"loop", "serve", "main"}
Requests   == [features : SUBSET Features, steer : Steers, drive : Drives]
RearFields == [mode : {"MANUAL", "ACC", "AEB"}, direction : Drives, emergency_stop : {0, 1}]

QuietCap   == WatchdogTurns + 2
OffCap     == WatchdogTurns + FrontTurns + 1
CleanCap   == HalfWord + 3

TypeOK ==
    /\ CommandTypeOK({0})
    /\ phase \in {"down", "boot", "up"} /\ loopAlive \in BOOLEAN
    /\ requested \in Requests /\ effective \subseteq Features \union {"aeb"}
    /\ front_aeb \in Frames
    /\ sequence \in Words
    /\ due \subseteq Publishers
    /\ rearCmd \in RearFields /\ packed \in RearFields
    /\ sinceRun \in 0 .. FrontTurns
    /\ quiet \in 0 .. QuietCap /\ lkasOff \in 0 .. OffCap
    /\ clean \in 0 .. CleanCap /\ settled \in 0 .. 2

Defaults == [features |-> {}, steer |-> "STRAIGHT", drive |-> "STOP"]
Parked   == [mode |-> "MANUAL", direction |-> "STOP", emergency_stop |-> 0]

\* FRONT is just booted, or an earlier sender left any number in it.
Init ==
    /\ \/ CommandInit
       \/ /\ initialized = TRUE /\ linkValid = FALSE
          /\ commandValid = FALSE /\ emergencyCenter = TRUE
          /\ targetAngle = 0 /\ maxRate = DefaultRate
          /\ lastSequence \in Words /\ lastPacketMs = 0
    /\ phase = "down" /\ loopAlive = FALSE
    /\ requested = Defaults /\ effective = {} /\ front_aeb = 0
    /\ sequence = 0 /\ due = {}
    /\ rearCmd = Parked /\ packed = Parked
    /\ sinceRun = 0
    /\ quiet = QuietCap /\ lkasOff = OffCap /\ clean = 0 /\ settled = 0

-----------------------------------------------------------------------------
Near(tof) == tof > 0 /\ tof <= Guard

\* _recompute_effective_locked.  The frame's valid bit is not looked at.
Recompute(features, f) == features \union (IF Near(f) THEN {"aeb"} ELSE {})

\* The steering packet: valid exactly with LKAS, emergency centre without.
SteeringPacket(e, r) ==
    [sequence |-> sequence, wellFormed |-> TRUE, controlMode |-> "STEERING_ANGLE",
     steeringValid |-> "lkas" \in e, emergencyCenter |-> "lkas" \notin e,
     upstreamValid |-> TRUE, finite |-> TRUE,
     angle |-> CASE "lkas" \in e /\ r.steer = "LEFT"  -> SteerAngle
                 [] "lkas" \in e /\ r.steer = "RIGHT" -> -SteerAngle
                 [] OTHER -> 0,
     rate |-> SteerRate]

\* _rear_control_mode, _requested_drive_direction and the constant 0.
RearWish(e, r) ==
    [mode |-> IF "aeb" \in e THEN "AEB" ELSE IF "acc" \in e THEN "ACC" ELSE "MANUAL",
     direction |-> r.drive, emergency_stop |-> 0]

\* The body of _build_rear_command_packet, packed without padding: bytes 16 to
\* 31 of the datagram.  A byte that is none of the fields modelled is "data".
RearBody(w) ==
    <<w.mode, w.direction>>
      \o [i \in 1 .. 8 |-> "data"]      \* target speed, acceleration
      \o <<w.emergency_stop, "turn_signal", 1, "alive", 0, "brake">>

\* udp_receive_acc_recv: the bytes at offsets 16, 17 and 28.
RearReads(body) ==
    LET buf(offset) == body[offset - 15]
    IN  [mode |-> buf(16), direction |-> buf(17), emergency_stop |-> buf(28)]

\* Mutant of NextSequence: not reduced to 32 bits.
NextSequence_Unmasked(n) == n + 1

NextSequence(n) == WordAdd(n, 1)

\* A packet for FRONT arrives or is lost.
ToFront(p, arrives) ==
    /\ IF arrives THEN acceptHpscPacket(p, 0) ELSE UNCHANGED command
    /\ quiet' = IF arrives /\ Accepted(p) THEN 0 ELSE quiet

ToRear(w, arrives) ==
    /\ rearCmd' = IF arrives THEN RearReads(RearBody(w)) ELSE rearCmd
    /\ packed' = IF arrives THEN w ELSE packed

\* _publish_runtime_control_locked with the state as the caller left it.
Publish(e, r) ==
    LET p == SteeringPacket(e, r)
        w == RearWish(e, r)
    IN  \E f, b \in BOOLEAN :
          /\ ToFront(p, f) /\ ToRear(w, b)
          /\ clean' = IF f /\ b THEN clean ELSE 0
          /\ \/ sequence' = NextSequence(sequence)
             \/ ~b /\ UNCHANGED sequence  \* a send failed: REAR's, or FRONT's if ~f

-----------------------------------------------------------------------------
\* What the API should ask of REAR, by the operator and FRONT's last frame.
Wish(r, f) == RearWish(Recompute(r.features, f), r).mode

\* RuntimeControlStore.update: one HTTP handler, under the lock.
Update(r) ==
    /\ phase = "up" /\ "main" \notin due
    /\ requested' = r
    /\ effective' = Recompute(r.features, front_aeb)
    /\ Publish(effective', r)
    /\ lkasOff' = IF "lkas" \in r.features THEN 0 ELSE lkasOff
    /\ settled' = IF Wish(r, front_aeb) = Wish(requested, front_aeb) /\ clean' > 0
                  THEN settled ELSE 0
    /\ UNCHANGED <<phase, loopAlive, front_aeb, due, sinceRun>>

\* POST /features/enable and /control/lkas: any of the features, on or off.
EnableFeatures(features) == Update([requested EXCEPT !.features = features])

\* POST /control/manual.
ControlManual(steer, drive) ==
    Update([requested EXCEPT !.steer = steer, !.drive = drive])

\* POST /control/turn-signal and /control/lca.
ControlTurn == Update(requested)

\* POST /control/reset.
ControlReset == Update(Defaults)

\* Mutant of FrontLoop: the frame is kept but nothing is recomputed.
FrontLoop_KeepsEffect(f) ==
    /\ phase # "down"
    /\ front_aeb' = f
    /\ settled' = IF Wish(requested, f) = Wish(requested, front_aeb) THEN settled ELSE 0
    /\ UNCHANGED <<command, phase, loopAlive, requested, effective, sequence, due,
                   rearCmd, sinceRun, quiet, lkasOff, clean, packed>>

\* _front_loop: a frame arrives.  Nothing is published.
FrontLoop(f) ==
    /\ phase # "down"
    /\ front_aeb' = f
    /\ effective' = Recompute(requested.features, f)
    /\ settled' = IF Wish(requested, f) = Wish(requested, front_aeb) THEN settled ELSE 0
    /\ UNCHANGED <<command, phase, loopAlive, requested, sequence, due,
                   rearCmd, sinceRun, quiet, lkasOff, clean, packed>>

\* One turn of _publish_loop, of serve's publisher, or serve's own snapshot
\* before it takes requests.
PublisherTurn(t) ==
    /\ phase = "up" /\ t \in due
    /\ due' = due \ {t}
    /\ Publish(effective, requested)
    /\ settled' = IF clean' > 0 THEN settled ELSE 0
    /\ UNCHANGED <<phase, loopAlive, requested, effective, front_aeb, lkasOff, sinceRun>>

\* _publish_loop before the counters exist: the AttributeError ends the thread.
LoopDies ==
    /\ phase = "boot" /\ loopAlive
    /\ loopAlive' = FALSE
    /\ UNCHANGED <<command, phase, requested, effective, front_aeb, sequence, due,
                   rearCmd, sinceRun, observer>>

\* RuntimeControlStore.__init__ up to the start of its threads.
Start ==
    /\ phase = "down"
    /\ phase' = "boot" /\ loopAlive' = TRUE
    /\ UNCHANGED <<command, requested, effective, front_aeb, sequence, due,
                   rearCmd, sinceRun, observer>>

\* Mutant of Serving: serve has no publisher of its own.
Serving_LoopOnly == IF loopAlive THEN {"loop"} ELSE {}

\* The publishers of a process that serves.
Serving == {"serve"} \union (IF loopAlive THEN {"loop"} ELSE {})

\* The counters are set and serve starts its publisher.
Serve ==
    /\ phase = "boot"
    /\ phase' = "up" /\ sequence' = 0
    /\ due' = Serving \union {"main"}
    /\ clean' = 0 /\ settled' = 0
    /\ UNCHANGED <<command, loopAlive, requested, effective, front_aeb, rearCmd,
                   sinceRun, quiet, lkasOff, packed>>

\* The process ends: its HTTP port is taken, it is killed, or it closes, which
\* sends nothing either.
Exit ==
    /\ phase # "down"
    /\ phase' = "down" /\ loopAlive' = FALSE
    /\ requested' = Defaults /\ effective' = {} /\ front_aeb' = 0
    /\ sequence' = 0 /\ due' = {}
    /\ clean' = 0 /\ settled' = 0
    /\ UNCHANGED <<command, rearCmd, sinceRun, quiet, lkasOff, packed>>

Capped(n, cap) == IF n < cap THEN n + 1 ELSE cap

\* Mutant of FrontRun: FRONT has no watchdog.
FrontRun_NoWatchdog(wrapped) ==
    /\ sinceRun' = 0
    /\ UNCHANGED <<command, api, rearCmd, observer>>

\* FrontSteeringNode_runOnce: the watchdog trips before the first packet, after
\* silence (a packet accepted in a period is older than WatchdogTurns of them
\* once that many more and one have begun), and on a live link when the
\* millisecond clock has turned over since the packet.  The moment within the
\* period is free: whatever is sent may come before or after.
FrontRun(wrapped) ==
    /\ Watchdog(~initialized \/ quiet > WatchdogTurns \/ wrapped)
    /\ sinceRun' = 0
    /\ UNCHANGED <<api, rearCmd, observer>>

\* A publisher period ends.
Tick ==
    /\ due = {}
    /\ sinceRun < FrontTurns
    /\ sinceRun' = sinceRun + 1
    /\ due' = IF phase = "up" THEN Serving ELSE {}
    /\ quiet' = Capped(quiet, QuietCap)
    /\ lkasOff' = IF "lkas" \in requested.features THEN 0 ELSE Capped(lkasOff, OffCap)
    /\ clean' = IF phase = "up" THEN Capped(clean, CleanCap) ELSE 0
    /\ settled' = IF phase = "up" THEN Capped(settled, 2) ELSE 0
    /\ UNCHANGED <<command, phase, loopAlive, requested, effective, front_aeb, sequence,
                   rearCmd, packed>>

Next ==
    \/ \E fs \in SUBSET Features : EnableFeatures(fs)
    \/ \E s \in Steers, d \in Drives : ControlManual(s, d)
    \/ ControlTurn
    \/ ControlReset
    \/ \E f \in Frames : FrontLoop(f)
    \/ \E t \in Publishers : PublisherTurn(t)
    \/ LoopDies
    \/ Start
    \/ Serve
    \/ Exit
    \/ \E wrapped \in BOOLEAN : FrontRun(wrapped)
    \/ Tick

Spec == Init /\ [][Next]_vars

-----------------------------------------------------------------------------
\* Once LKAS has not been requested for the length of FRONT's watchdog and the
\* longest time it is held up, the wheels are asked to centre: by an
\* emergency-centre packet or, when those fail, are lost or carry a number
\* FRONT has already taken, by the watchdog; also after the API's process is
\* gone, which tells FRONT nothing.
DisabledCenters == lkasOff > WatchdogTurns + FrontTurns => targetAngle = 0

\* An API whose packets get through is heard after at most half the sequence
\* word of periods and two more, and from then on FRONT accepts a packet in
\* every period: whatever number FRONT held when the API started from 0, and
\* although its first publisher thread may have died at start.  The link may
\* still trip when FRONT's clock turns over, until the next packet.
HeardWithinHalfWord == phase = "up" /\ clean > HalfWord + 2 => quiet <= 1

\* When packets get through, the control mode REAR holds is the one that the
\* operator's requests and FRONT's last frame call for, at most one period
\* after they last changed, although a frame by itself publishes nothing.
ModeReachesRear ==
    phase = "up" /\ settled > 1 => rearCmd.mode = Wish(requested, front_aeb)

\* REAR takes from a drive packet the fields the API packed into it.
RearReadsWhatIsPacked == rearCmd = packed
=============================================================================
