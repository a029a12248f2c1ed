--------------------------- MODULE FrontSteering ---------------------------
(***************************************************************************)
(* The FRONT TC375 steering receiver: core0's main loop as far as steering *)
(* is concerned.  The loop runs FrontSteeringNode_runOnce, then            *)
(* AebSensorNode_runOnce (which polls the Ethernet ring twice, once before *)
(* and once after the sensor work, may block in the ToF initialisation and *)
(* holds the servo for one loop period), then runOnce again.  Frames       *)
(* arrive in the DMA ring at any moment.  Nothing but this loop services   *)
(* the ring or the watchdog, so every blocking call delays both.           *)
(*                                                                         *)
(* Time is the millisecond clock derived from the 32-bit STM0 counter: it  *)
(* wraps at ClockWrap (42950 ms at 100 MHz), long before the uint32 it is  *)
(* stored in does, and elapsed times are taken with uint32 subtraction.    *)
(*                                                                         *)
(* Angles are in units of the smallest servo step (0.001 rad), rates are   *)
(* angle units per millisecond.                                            *)
(***************************************************************************)
EXTENDS HpscReceiver, Sequences

CONSTANTS
    ClockWrap,      \* the millisecond clock counts 0 .. ClockWrap - 1
    WatchdogMs,     \* FRONT_STEERING_WATCHDOG_MS
    PulseMs,        \* one servo period, the time one runOnce takes
    SenseMs,        \* the durations the sensor work may have
    HoldMs,         \* the durations of ToF (re)initialisation plus hold
    RxDescriptors,  \* IFXGETH_MAX_RX_DESCRIPTORS: ring size and poll guard
    Packets,        \* the HPSC packets that can arrive
    AgeCap          \* where the observer's ages saturate

ASSUME ClockAssumption ==
    /\ ClockWrap \in 1 .. WordSize
    /\ WatchdogMs \in Nat
    /\ AgeCap \in Nat /\ AgeCap >= ClockWrap   \* ages exceed what the clock tells
ASSUME LoopAssumption ==
    /\ PulseMs \in Nat
    /\ SenseMs \subseteq Nat
    /\ HoldMs \subseteq Nat
    /\ RxDescriptors \in Nat \ {0}
    /\ Packets \subseteq Packet

\* The longest sensor phase and the longest ToF initialisation plus hold.
Longest(durations) == CHOOSE m \in durations : \A n \in durations : n <= m

\* Longest time a frame waits in the ring, and between two runOnce calls.
QueueDelay ==
    LET a == Longest(SenseMs)
        b == Longest(HoldMs) + 2 * PulseMs
    IN  IF a > b THEN a ELSE b
RunGap == PulseMs + Longest(SenseMs) + Longest(HoldMs)

\* Every wait of the sensor work and of the ToF initialisation has a timeout,
\* and the clock does not go round between the watchdog's limit and its next run.
ASSUME TimingAssumption ==
    /\ \E m \in SenseMs : \A n \in SenseMs : n <= m
    /\ \E m \in HoldMs : \A n \in HoldMs : n <= m
    /\ WatchdogMs + RunGap < ClockWrap

VARIABLES
    \* The servo half of g_state; HpscReceiver has the command half.
    appliedAngle, lastApplyMs,
    \* The main loop: where it is, and how long its current call still blocks.
    pc, busy,
    \* Locals of aeb_pollSteeringRx: the time read on entry, frames handled.
    pollNow, guard,
    \* The clock and the receive ring.
    now, rx,
    \* Observer only: the true age of the packet in force since its arrival,
    \* and the true time since the servo was last moved.
    commandAge, sinceApply

servo    == <<appliedAngle, lastApplyMs>>
observer == <<commandAge, sinceApply>>
vars     == <<command, servo, pc, busy, pollNow, guard, now, rx, observer>>

Clock  == 0 .. ClockWrap - 1
Ages   == 0 .. AgeCap
Frame  == [packet : Packets, age : Ages]

TypeOK ==
    /\ CommandTypeOK(Clock)
    /\ appliedAngle \in Angles
    /\ lastApplyMs \in Clock
    /\ pc \in {"run1", "poll1", "rx1", "poll2", "rx2", "run2"}
    /\ busy \in Nat
    /\ pollNow \in Clock
    /\ guard \in 0 .. RxDescriptors
    /\ now \in Clock
    /\ rx \in Seq(Frame) /\ Len(rx) <= RxDescriptors
    /\ commandAge \in Ages
    /\ sinceApply \in Ages

-----------------------------------------------------------------------------
Older(age) == IF age < AgeCap THEN age + 1 ELSE AgeCap

\* FrontSteeringNode_init: a zeroed state, the default rate, and the servo
\* held at centre.  lastApplyMs is read before the boot hold and the sensor
\* node's initialisation, so any time may have passed when the loop starts.
Init ==
    /\ CommandInit
    /\ appliedAngle = 0
    /\ now \in Clock /\ lastApplyMs \in Clock
    /\ pc = "run1" /\ busy = 0
    /\ pollNow = 0 /\ guard = 0
    /\ rx = <<>>
    /\ commandAge = AgeCap /\ sinceApply = AgeCap

\* One millisecond of a blocking call.
Tick ==
    /\ busy > 0
    /\ busy' = busy - 1
    /\ now' = IF now + 1 < ClockWrap THEN now + 1 ELSE 0
    /\ rx' = [i \in 1 .. Len(rx) |-> [rx[i] EXCEPT !.age = Older(@)]]
    /\ commandAge' = Older(commandAge)
    /\ sinceApply' = Older(sinceApply)
    /\ UNCHANGED <<command, servo, pc, pollNow, guard>>

\* The loop goes on to label next, whose call then blocks for ms.
Goto(from, next, ms) ==
    /\ pc = from /\ busy = 0
    /\ pc' = next /\ busy' = ms

\* A frame is stored in a free descriptor; with none free it is lost.
Arrive(p) ==
    /\ Len(rx) < RxDescriptors
    /\ rx' = Append(rx, [packet |-> p, age |-> 0])
    /\ UNCHANGED <<command, servo, pc, busy, pollNow, guard, now, observer>>

-----------------------------------------------------------------------------
\* aeb_pollSteeringRx, entry: the time is read once, before the ring.
PollBegin(at, next) ==
    /\ Goto(at, next, 0)
    /\ pollNow' = now
    /\ guard' = 0
    /\ UNCHANGED <<command, servo, now, rx, observer>>

\* Mutant of PollFrame: a frame that is not accepted refreshes the watchdog.
PollFrame_RefreshesAlways(at) ==
    /\ pc = at /\ busy = 0
    /\ rx # <<>> /\ guard < RxDescriptors
    /\ \/ Accepted(Head(rx).packet) /\ acceptHpscPacket(Head(rx).packet, pollNow)
       \/ /\ ~Accepted(Head(rx).packet)
          /\ lastPacketMs' = pollNow
          /\ UNCHANGED <<initialized, linkValid, commandValid, emergencyCenter,
                         targetAngle, maxRate, lastSequence>>
    /\ commandAge' = IF Accepted(Head(rx).packet)
                     THEN Head(rx).age ELSE commandAge
    /\ rx' = Tail(rx)
    /\ guard' = guard + 1
    /\ UNCHANGED <<servo, pc, busy, pollNow, now, sinceApply>>

\* One turn of its loop: the oldest frame is handled and its buffer freed.
PollFrame(at) ==
    /\ pc = at /\ busy = 0
    /\ rx # <<>> /\ guard < RxDescriptors
    /\ acceptHpscPacket(Head(rx).packet, pollNow)
    /\ commandAge' = IF Accepted(Head(rx).packet)
                     THEN Head(rx).age ELSE commandAge
    /\ rx' = Tail(rx)
    /\ guard' = guard + 1
    /\ UNCHANGED <<servo, pc, busy, pollNow, now, sinceApply>>

\* Its exit, with the ring empty or the guard reached; what follows (the
\* sensor work, or ToF initialisation and hold) blocks for ms.
PollEnd(at, next, durations) ==
    /\ rx = <<>> \/ guard >= RxDescriptors
    /\ \E ms \in durations : Goto(at, next, ms)
    /\ pollNow' = 0 /\ guard' = 0     \* locals of the poll, out of scope
    /\ UNCHANGED <<command, servo, now, rx, observer>>

\* Mutant of Tripped: the link is lost when its age reaches the limit.
Tripped_AtLimit == ~initialized \/ WordSub(now, lastPacketMs) >= WatchdogMs

\* The watchdog's condition.
Tripped == ~initialized \/ WordSub(now, lastPacketMs) > WatchdogMs

\* Mutant of maxStep: three servo steps are always allowed.
maxStep_AtLeastThree ==
    LET dtMs == WordSub(now, lastApplyMs)
    IN  IF maxRate * dtMs < 3 THEN 3 ELSE maxRate * dtMs

\* The rate limit: how far the servo may move in the time since it last did.
maxStep ==
    LET dtMs == WordSub(now, lastApplyMs)
    IN  IF maxRate * dtMs < 1 THEN 1 ELSE maxRate * dtMs

\* Mutant of Limited: the error is taken the wrong way round.
Limited_WrongSign(target) ==
    LET step == Clamp(appliedAngle - target, -maxStep, maxStep)
    IN  Clamp(appliedAngle + step, -MaxAbs, MaxAbs)

\* The next servo angle on the way to target.
Limited(target) ==
    LET step == Clamp(target - appliedAngle, -maxStep, maxStep)
    IN  Clamp(appliedAngle + step, -MaxAbs, MaxAbs)

\* FrontSteeringNode_runOnce: watchdog, rate limit, one servo pulse.
runOnce(at, next) ==
    /\ Goto(at, next, PulseMs)
    /\ Watchdog(Tripped)
    /\ appliedAngle' = Limited(targetAngle')
    /\ lastApplyMs' = now
    /\ sinceApply' = 0
    /\ UNCHANGED <<pollNow, guard, now, rx, commandAge>>

-----------------------------------------------------------------------------
\* core0_main: runOnce; poll; sensors; poll; ToF initialisation; hold; runOnce.
Loop ==
    \/ runOnce("run1", "poll1")
    \/ PollBegin("poll1", "rx1")
    \/ PollFrame("rx1")
    \/ PollEnd("rx1", "poll2", SenseMs)
    \/ PollBegin("poll2", "rx2")
    \/ PollFrame("rx2")
    \/ PollEnd("rx2", "run2", HoldMs)
    \/ runOnce("run2", "run1")

Next == Tick \/ Loop \/ \E p \in Packets : Arrive(p)

Spec == Init /\ [][Next]_vars

\* The core never stops and its clock never stops.
Fairness == WF_vars(Tick) /\ WF_vars(Loop)

FairSpec == Spec /\ Fairness

-----------------------------------------------------------------------------
(***************************************************************************)
(* Properties.                                                             *)
(***************************************************************************)

\* The clock has wrapped since the given reading of it was taken.
WrappedSince(reading) == now < reading

\* How stale a command can get.  Receive time is stamped when the ring is
\* polled, not when the frame arrived, and the watchdog only runs between
\* blocking calls, so the 200 ms of the watchdog are not the bound: it is
\* the watchdog plus the queueing delay plus the longest gap between runs.
StalenessBound ==
    commandValid => commandAge <= QueueDelay + WatchdogMs + RunGap

\* FrontSteeringNode_runOnce moves the servo by at most the commanded rate
\* times the time really elapsed since the last move, or by the minimum step.
WithinRate ==
    LET move  == appliedAngle' - appliedAngle
        limit == IF maxRate * sinceApply < 1 THEN 1 ELSE maxRate * sinceApply
    IN  move <= limit /\ -move <= limit

\* The servo respects the rate limit on every step between two wraps of the
\* millisecond clock.
RateLimitedBetweenWraps ==
    [][WrappedSince(lastApplyMs) \/ WithinRate]_vars

\* The watchdog takes the link down only when the last accepted packet is
\* really older than the watchdog time, between two wraps of the clock.
TripMeansSilenceBetweenWraps ==
    [][linkValid /\ ~linkValid' =>
          WrappedSince(lastPacketMs) \/ commandAge > WatchdogMs]_vars

\* When no acceptable packet has come for long enough the wheels go back to
\* centre, however the silence falls relative to the loop and to the clock.
SilenceCenters ==
    commandAge = AgeCap ~> (appliedAngle = 0 \/ commandAge < AgeCap)

\* The servo reaches every target that stays in force.
TargetReached ==
    \A a \in Angles :
        (targetAngle = a) ~> (appliedAngle = a \/ targetAngle # a)

=============================================================================
