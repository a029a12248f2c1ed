------------------------- MODULE FrontSteeringProofs -------------------------
(***************************************************************************)
(* Proofs about FrontSteering: the type invariant, SteeringAuthorised, and *)
(* the three promises about time (TripMeansSilenceBetweenWraps,            *)
(* RateLimitedBetweenWraps, StalenessBound), for every word and clock      *)
(* width, watchdog time, set of packets, ring size and duration of the     *)
(* loop's calls.                                                           *)
(***************************************************************************)
EXTENDS FrontSteering, SequenceTheorems, TLAPS

USE DEF WordSize, Words, Angles, Rates, Clock

-----------------------------------------------------------------------------
(***************************************************************************)
(* The operators of the receiver.                                          *)
(***************************************************************************)

\* Unsigned subtraction (WordSub) yields a word.
LEMMA WordSubType ==
  ASSUME NEW a \in Words, NEW b \in Words PROVE WordSub(a, b) \in Words
BY HalfWordAssumption DEF WordSub

\* clampFloat keeps a value within its limits.
LEMMA ClampType ==
  ASSUME NEW v \in Int, NEW lo \in Int, NEW hi \in Int, lo <= hi
  PROVE  Clamp(v, lo, hi) \in lo .. hi
BY DEF Clamp

\* The flags of the command half of g_state.
Flags == {initialized, linkValid, commandValid, emergencyCenter} \subseteq BOOLEAN

\* Its numbers.
Numbers ==
    /\ targetAngle \in Angles
    /\ maxRate \in Rates
    /\ lastSequence \in Words
    /\ lastPacketMs \in Clock

\* CommandTypeOK, split into the facts about flags and those about numbers.
LEMMA CommandType == CommandTypeOK(Clock) <=> Flags /\ Numbers
BY DEF CommandTypeOK, Flags, Numbers

\* acceptTarget, with any arguments a packet can give it, keeps the types and
\* authorises whatever target it sets.
LEMMA AcceptTarget ==
  ASSUME NEW seq \in Words, NEW angle \in Int, NEW rate \in Int,
         NEW valid \in BOOLEAN, NEW center \in BOOLEAN, NEW t \in Clock,
         acceptTarget(seq, angle, rate, valid, center, t)
  PROVE  Flags' /\ Numbers' /\ SteeringAuthorised'
<1>1. Flags'
  BY DEF acceptTarget, Flags
<1>2. Clamp(angle, -MaxAbs, MaxAbs) \in Angles /\ 0 \in Angles
  BY ServoAssumption DEF Clamp
<1>3. Clamp(rate, MinRate, MaxRate) \in Rates
  BY ServoAssumption DEF Clamp
<1>4. Numbers'
  BY <1>2, <1>3 DEF acceptTarget, Numbers
<1>5. SteeringAuthorised'
  BY DEF acceptTarget, SteeringAuthorised
<1> QED BY <1>1, <1>4, <1>5

\* So does the whole packet handler.
LEMMA AcceptPacket ==
  ASSUME Flags, Numbers, SteeringAuthorised,
         NEW p \in Packet, NEW t \in Clock, acceptHpscPacket(p, t)
  PROVE  Flags' /\ Numbers' /\ SteeringAuthorised'
<1>1. p.sequence \in Words /\ p.angle \in Int /\ p.rate \in Int
  BY DEF Packet
<1>2. DefaultRate \in Int /\ 0 \in Int
  BY ServoAssumption
<1>3. CASE acceptTarget(p.sequence, 0, DefaultRate, FALSE, TRUE, t)
  BY <1>1, <1>2, <1>3, AcceptTarget
<1>4. CASE acceptTarget(p.sequence, p.angle, p.rate, TRUE, FALSE, t)
  BY <1>1, <1>4, AcceptTarget
<1>5. CASE acceptTarget(p.sequence, 0, DefaultRate, FALSE, FALSE, t)
  BY <1>1, <1>2, <1>5, AcceptTarget
<1>6. CASE rejectPacket
  BY <1>6 DEF rejectPacket, command, Flags, Numbers, SteeringAuthorised
<1> QED BY <1>3, <1>4, <1>5, <1>6 DEF acceptHpscPacket

\* The watchdog keeps the types, and centres the target when it trips.
LEMMA WatchdogSafe ==
  ASSUME Flags, Numbers, SteeringAuthorised, NEW tripped \in BOOLEAN, Watchdog(tripped)
  PROVE  Flags' /\ Numbers' /\ SteeringAuthorised'
<1>1. Flags'
  BY DEF Watchdog, Flags
<1>2. Numbers'
  BY ServoAssumption DEF Watchdog, Numbers
<1>3. SteeringAuthorised'
  BY DEF Watchdog, SteeringAuthorised, Flags
<1> QED BY <1>1, <1>2, <1>3

-----------------------------------------------------------------------------
(***************************************************************************)
(* The main loop.                                                          *)
(***************************************************************************)

ServoOK == appliedAngle \in Angles /\ lastApplyMs \in Clock
LoopOK ==
    /\ pc \in {"run1", "poll1", "rx1", "poll2", "rx2", "run2"}
    /\ busy \in Nat
    /\ pollNow \in Clock
    /\ guard \in 0 .. RxDescriptors
    /\ now \in Clock
RingOK     == rx \in Seq(Frame) /\ Len(rx) <= RxDescriptors
ObserverOK == commandAge \in Ages /\ sinceApply \in Ages

\* The inductive invariant.
IInv == Flags /\ Numbers /\ SteeringAuthorised /\ ServoOK /\ LoopOK /\ RingOK /\ ObserverOK

\* The inductive invariant contains the type invariant.
LEMMA IInvType == IInv => TypeOK
BY CommandType DEF IInv, TypeOK, ServoOK, LoopOK, RingOK, ObserverOK

\* The observer's ages saturate.
LEMMA OlderType == ASSUME NEW a \in Ages PROVE Older(a) \in Ages
BY ClockAssumption DEF Ages, Older

\* The steps that leave the command alone keep its part of the invariant.
LEMMA CommandUnchanged ==
  ASSUME Flags, Numbers, SteeringAuthorised, UNCHANGED command
  PROVE  Flags' /\ Numbers' /\ SteeringAuthorised'
BY DEF command, Flags, Numbers, SteeringAuthorised

\* FrontSteeringNode_init establishes the invariant.
LEMMA InitIInv == Init => IInv
<1> SUFFICES ASSUME Init PROVE IInv
  OBVIOUS
<1>1. Flags
  BY DEF Init, CommandInit, Flags
<1>2. Numbers
  BY HalfWordAssumption, ServoAssumption, ClockAssumption DEF Init, CommandInit, Numbers
<1>3. SteeringAuthorised
  BY DEF Init, CommandInit, SteeringAuthorised
<1>4. ServoOK
  BY ServoAssumption DEF Init, ServoOK
<1>5. LoopOK
  BY ClockAssumption, LoopAssumption DEF Init, LoopOK
<1>6. RingOK
  BY LoopAssumption DEF Init, RingOK
<1>7. ObserverOK
  BY ClockAssumption DEF Init, ObserverOK, Ages
<1> QED BY <1>1, <1>2, <1>3, <1>4, <1>5, <1>6, <1>7 DEF IInv

\* The passing of time inside a blocking call preserves it.
LEMMA TickIInv == IInv /\ Tick => IInv'
<1> SUFFICES ASSUME IInv, Tick PROVE IInv'
  OBVIOUS
<1> USE DEF IInv
<1>1. Flags' /\ Numbers' /\ SteeringAuthorised'
  BY CommandUnchanged DEF Tick
<1>2. ServoOK'
  BY DEF Tick, servo, ServoOK
<1>3. LoopOK'
  BY ClockAssumption DEF Tick, LoopOK
<1>4. RingOK'
  <2>1. ASSUME NEW i \in 1 .. Len(rx)
        PROVE  [rx[i] EXCEPT !.age = Older(@)] \in Frame
    <3>1. rx[i] \in Frame
      BY DEF RingOK
    <3> QED BY <3>1, OlderType DEF Frame
  <2>2. rx' \in Seq(Frame) /\ Len(rx') = Len(rx)
    <3>1. Len(rx) \in Nat
      BY DEF RingOK
    <3> QED BY <2>1, <3>1 DEF Tick
  <2> QED BY <2>2 DEF RingOK
<1>5. ObserverOK'
  BY OlderType DEF Tick, ObserverOK
<1> QED BY <1>1, <1>2, <1>3, <1>4, <1>5

\* So does a frame stored by the receive DMA.
LEMMA ArriveIInv == ASSUME IInv, NEW p \in Packets, Arrive(p) PROVE IInv'
<1> USE DEF IInv
<1>1. Flags' /\ Numbers' /\ SteeringAuthorised'
  BY CommandUnchanged DEF Arrive
<1>2. ServoOK'
  BY DEF Arrive, servo, ServoOK
<1>3. LoopOK'
  BY DEF Arrive, LoopOK
<1>4. RingOK'
  <2>1. [packet |-> p, age |-> 0] \in Frame
    BY ClockAssumption DEF Frame, Ages
  <2> QED BY <2>1, LoopAssumption DEF Arrive, RingOK
<1>5. ObserverOK'
  BY DEF Arrive, observer, ObserverOK
<1> QED BY <1>1, <1>2, <1>3, <1>4, <1>5

Labels == {"run1", "poll1", "rx1", "poll2", "rx2", "run2"}

\* So does the entry of aeb_pollSteeringRx.
LEMMA PollBeginIInv ==
  ASSUME IInv, NEW at \in Labels, NEW next \in Labels, PollBegin(at, next)
  PROVE  IInv'
<1> USE DEF IInv
<1>1. Flags' /\ Numbers' /\ SteeringAuthorised'
  BY CommandUnchanged DEF PollBegin
<1>2. ServoOK'
  BY DEF PollBegin, servo, ServoOK
<1>3. LoopOK'
  BY LoopAssumption DEF PollBegin, Goto, LoopOK, Labels
<1>4. RingOK' /\ ObserverOK'
  BY DEF PollBegin, observer, RingOK, ObserverOK
<1> QED BY <1>1, <1>2, <1>3, <1>4

\* So does the handling of one frame, whatever it holds.
LEMMA PollFrameIInv ==
  ASSUME IInv, NEW at \in Labels, PollFrame(at) PROVE IInv'
<1> USE DEF IInv
<1>1. Head(rx) \in Frame /\ Tail(rx) \in Seq(Frame) /\ Len(Tail(rx)) = Len(rx) - 1
  BY DEF PollFrame, RingOK
<1>2. Head(rx).packet \in Packet /\ Head(rx).age \in Ages
  BY <1>1, LoopAssumption DEF Frame
<1>3. Flags' /\ Numbers' /\ SteeringAuthorised'
  <2>1. pollNow \in Clock
    BY DEF LoopOK
  <2> QED BY <1>2, <2>1, AcceptPacket DEF PollFrame
<1>4. ServoOK'
  BY DEF PollFrame, servo, ServoOK
<1>5. LoopOK'
  BY LoopAssumption DEF PollFrame, LoopOK
<1>6. RingOK'
  <2>1. Len(rx) \in Nat
    BY DEF RingOK
  <2> QED BY <1>1, <2>1, LoopAssumption DEF PollFrame, RingOK
<1>7. ObserverOK'
  BY <1>2 DEF PollFrame, ObserverOK
<1> QED BY <1>3, <1>4, <1>5, <1>6, <1>7

\* So does the exit of aeb_pollSteeringRx.
LEMMA PollEndIInv ==
  ASSUME IInv, NEW at \in Labels, NEW next \in Labels,
         NEW durations \in SUBSET Nat, PollEnd(at, next, durations)
  PROVE  IInv'
<1> USE DEF IInv
<1>1. Flags' /\ Numbers' /\ SteeringAuthorised'
  BY CommandUnchanged DEF PollEnd
<1>2. ServoOK'
  BY DEF PollEnd, servo, ServoOK
<1>3. LoopOK'
  BY ClockAssumption, LoopAssumption DEF PollEnd, Goto, LoopOK, Labels
<1>4. RingOK' /\ ObserverOK'
  BY DEF PollEnd, observer, RingOK, ObserverOK
<1> QED BY <1>1, <1>2, <1>3, <1>4

\* So does FrontSteeringNode_runOnce: the watchdog authorises or centres, and
\* the clamp keeps the servo within its limits whatever the clock says.
LEMMA RunOnceIInv ==
  ASSUME IInv, NEW at \in Labels, NEW next \in Labels, runOnce(at, next)
  PROVE  IInv'
<1> USE DEF IInv
<1> DEFINE dtMs == WordSub(now, lastApplyMs)
           step == Clamp(targetAngle' - appliedAngle, -maxStep, maxStep)
<1>1. Flags' /\ Numbers' /\ SteeringAuthorised'
  <2>1. Tripped \in BOOLEAN
    BY DEF Tripped
  <2>2. Watchdog(Tripped)
    BY DEF runOnce
  <2> QED BY <2>1, <2>2, WatchdogSafe
<1>2. ServoOK'
  <2>1. now \in Words /\ lastApplyMs \in Words
    BY ClockAssumption, HalfWordAssumption DEF LoopOK, ServoOK
  <2>2. dtMs \in Int
    BY <2>1, WordSubType, HalfWordAssumption
  <2>3. maxRate \in Int
    BY ServoAssumption DEF Numbers
  <2>4. maxStep \in Int /\ 1 <= maxStep
    <3>1. maxRate * dtMs \in Int
      BY <2>2, <2>3
    <3>2. maxStep = IF maxRate * dtMs < 1 THEN 1 ELSE maxRate * dtMs
      BY DEF maxStep
    <3> HIDE DEF dtMs
    <3> QED BY <3>1, <3>2
  <2>5. step \in Int
    <3>1. targetAngle' - appliedAngle \in Int
      BY <1>1, ServoAssumption DEF Numbers, ServoOK
    <3> QED BY <2>4, <3>1, ClampType
  <2>6. Clamp(appliedAngle + step, -MaxAbs, MaxAbs) \in Angles
    <3>1. appliedAngle \in Int
      BY ServoAssumption DEF ServoOK
    <3> HIDE DEF step
    <3> QED BY <2>5, <3>1, ClampType, ServoAssumption
  <2>7. appliedAngle' = Clamp(appliedAngle + step, -MaxAbs, MaxAbs) /\ lastApplyMs' = now
    BY DEF runOnce, Limited
  <2> QED BY <2>6, <2>7 DEF ServoOK, LoopOK
<1>3. LoopOK'
  BY LoopAssumption DEF runOnce, Goto, LoopOK, Labels
<1>4. RingOK' /\ ObserverOK'
  BY ClockAssumption DEF runOnce, RingOK, ObserverOK, Ages
<1> QED BY <1>1, <1>2, <1>3, <1>4

\* Every step of the node and of its surroundings preserves the invariant.
LEMMA NextIInv == IInv /\ [Next]_vars => IInv'
<1> SUFFICES ASSUME IInv, [Next]_vars PROVE IInv'
  OBVIOUS
<1>1. CASE Tick
  BY <1>1, TickIInv
<1>2. ASSUME NEW p \in Packets, Arrive(p) PROVE IInv'
  BY <1>2, ArriveIInv
<1>3. CASE Loop
  <2>1. CASE runOnce("run1", "poll1")
    BY <2>1, RunOnceIInv DEF Labels
  <2>2. CASE PollBegin("poll1", "rx1")
    BY <2>2, PollBeginIInv DEF Labels
  <2>3. CASE PollFrame("rx1")
    BY <2>3, PollFrameIInv DEF Labels
  <2>4. CASE PollEnd("rx1", "poll2", SenseMs)
    BY <2>4, PollEndIInv, LoopAssumption DEF Labels
  <2>5. CASE PollBegin("poll2", "rx2")
    BY <2>5, PollBeginIInv DEF Labels
  <2>6. CASE PollFrame("rx2")
    BY <2>6, PollFrameIInv DEF Labels
  <2>7. CASE PollEnd("rx2", "run2", HoldMs)
    BY <2>7, PollEndIInv, LoopAssumption DEF Labels
  <2>8. CASE runOnce("run2", "run1")
    BY <2>8, RunOnceIInv DEF Labels
  <2> QED BY <1>3, <2>1, <2>2, <2>3, <2>4, <2>5, <2>6, <2>7, <2>8 DEF Loop
<1>4. CASE UNCHANGED vars
  <2>1. UNCHANGED command
    BY <1>4 DEF vars, command
  <2>2. ServoOK' /\ LoopOK' /\ RingOK' /\ ObserverOK'
    BY <1>4 DEF vars, servo, observer, IInv, ServoOK, LoopOK, RingOK, ObserverOK
  <2> QED BY <2>1, <2>2, CommandUnchanged DEF IInv
<1> QED BY <1>1, <1>2, <1>3, <1>4 DEF Next

\* The invariant holds in every state of the FRONT steering node.
LEMMA InductiveInvariant == Spec => []IInv
BY InitIInv, NextIInv, PTL DEF Spec

-----------------------------------------------------------------------------
\* The receiver's state stays well typed: in particular the target and the
\* applied angle never leave the steering limits and the rate its clamps.
THEOREM TypeCorrect == Spec => []TypeOK
BY InductiveInvariant, IInvType, PTL

\* A target off centre always goes with a live link, a valid command and no
\* emergency centring.
THEOREM Authorised == Spec => []SteeringAuthorised
<1>1. IInv => SteeringAuthorised
  BY DEF IInv
<1> QED BY <1>1, InductiveInvariant, PTL

-----------------------------------------------------------------------------
(***************************************************************************)
(* Time.  The clock readings the node keeps, against the true ages.        *)
(***************************************************************************)

\* A poll takes no time: what it stamps packets with is the time.
PollPrompt == pc \in {"rx1", "rx2"} => busy = 0 /\ pollNow = now

\* Between two wraps no reading of the clock is older than it looks, or newer.
ApplyAged  == lastApplyMs <= now => sinceApply >= now - lastApplyMs
PacketAged == lastPacketMs <= now => commandAge >= now - lastPacketMs
LinkHeard  == linkValid => initialized

TimeInv == PollPrompt /\ ApplyAged /\ PacketAged /\ LinkHeard

\* acceptHpscPacket either stamps the packet and brings the link up, or leaves
\* the command alone.
LEMMA AcceptOrNot ==
  ASSUME NEW p, NEW t, acceptHpscPacket(p, t)
  PROVE  \/ /\ Accepted(p) /\ lastPacketMs' = t /\ linkValid' /\ initialized'
         \/ ~Accepted(p) /\ UNCHANGED command
<1>1. CASE Fresh(p) /\ (p.emergencyCenter \/ IsCommand(p) \/ p.controlMode = "DISABLED")
  BY <1>1 DEF acceptHpscPacket, acceptTarget, Accepted
<1>2. CASE ~(Fresh(p) /\ (p.emergencyCenter \/ IsCommand(p) \/ p.controlMode = "DISABLED"))
  BY <1>2 DEF acceptHpscPacket, rejectPacket, Accepted
<1> QED BY <1>1, <1>2

\* The numbers of the clocks and ages.
LEMMA ClockNumbers ==
  ASSUME IInv
  PROVE  /\ now \in Nat /\ now < ClockWrap /\ lastApplyMs \in Nat /\ lastApplyMs < ClockWrap
         /\ lastPacketMs \in Nat /\ lastPacketMs < ClockWrap
         /\ pollNow \in Nat /\ busy \in Nat
         /\ commandAge \in Nat /\ commandAge <= AgeCap
         /\ sinceApply \in Nat /\ sinceApply <= AgeCap
         /\ ClockWrap \in Nat /\ ClockWrap <= WordSize /\ AgeCap \in Nat /\ AgeCap >= ClockWrap
<1>1. WordSize \in Nat
  BY HalfWordAssumption DEF WordSize
<1> HIDE DEF WordSize
<1>2. ClockWrap \in Nat /\ ClockWrap <= WordSize /\ AgeCap \in Nat /\ AgeCap >= ClockWrap
  BY <1>1, ClockAssumption
<1> QED BY <1>2 DEF IInv, ServoOK, LoopOK, Numbers, ObserverOK, Ages, Clock

\* The node starts with ages that no reading contradicts.
LEMMA InitTime == Init => TimeInv
<1> SUFFICES ASSUME Init PROVE TimeInv
  OBVIOUS
<1>1. IInv
  BY InitIInv
<1>2. sinceApply = AgeCap /\ commandAge = AgeCap /\ pc = "run1" /\ linkValid = FALSE
  BY DEF Init, CommandInit
<1> QED BY <1>1, <1>2, ClockNumbers
        DEF TimeInv, PollPrompt, ApplyAged, PacketAged, LinkHeard

\* A millisecond makes every age at least as much older as the clock shows.
LEMMA TickTime == ASSUME IInv, TimeInv, Tick PROVE TimeInv'
<1>1. PollPrompt' /\ LinkHeard'
  BY DEF TimeInv, PollPrompt, LinkHeard, Tick, command
<1>2. /\ now' = IF now + 1 < ClockWrap THEN now + 1 ELSE 0
      /\ sinceApply' = Older(sinceApply) /\ commandAge' = Older(commandAge)
      /\ lastApplyMs' = lastApplyMs /\ lastPacketMs' = lastPacketMs
  BY DEF Tick, servo, command
<1>3. ApplyAged'
  BY <1>2, ClockNumbers DEF TimeInv, ApplyAged, Older
<1>4. PacketAged'
  BY <1>2, ClockNumbers DEF TimeInv, PacketAged, Older
<1> QED BY <1>1, <1>3, <1>4 DEF TimeInv

\* A poll stamps what it accepts with the present time.
LEMMA PollFrameTime ==
  ASSUME IInv, TimeInv, NEW at \in {"rx1", "rx2"}, PollFrame(at) PROVE TimeInv'
<1>1. pollNow = now /\ busy = 0
  BY DEF PollFrame, TimeInv, PollPrompt
<1>2. Head(rx).age \in Nat
  <2>1. Head(rx) \in Frame
    BY DEF PollFrame, IInv, RingOK
  <2> QED BY <2>1, ClockAssumption DEF Frame, Ages
<1>3. PollPrompt' /\ ApplyAged'
  BY DEF PollFrame, servo, TimeInv, PollPrompt, ApplyAged
<1>4. acceptHpscPacket(Head(rx).packet, pollNow)
  BY DEF PollFrame
<1>5. CASE /\ Accepted(Head(rx).packet) /\ lastPacketMs' = pollNow
           /\ linkValid' /\ initialized'
  <2>1. commandAge' = Head(rx).age /\ now' = now
    BY <1>5 DEF PollFrame
  <2>2. PacketAged'
    BY <1>1, <1>2, <1>5, <2>1, ClockNumbers DEF PacketAged
  <2> QED BY <1>3, <1>5, <2>2 DEF TimeInv, LinkHeard
<1>6. CASE ~Accepted(Head(rx).packet) /\ UNCHANGED command
  <2>1. commandAge' = commandAge /\ now' = now
    BY <1>6 DEF PollFrame
  <2> QED BY <1>3, <1>6, <2>1 DEF command, TimeInv, LinkHeard, PacketAged
<1> QED BY <1>4, <1>5, <1>6, AcceptOrNot

\* runOnce reads the clock and moves the servo at that moment.
LEMMA RunOnceTime ==
  ASSUME IInv, TimeInv, NEW at, NEW next \in {"run1", "poll1"}, runOnce(at, next)
  PROVE  TimeInv'
<1>1. PollPrompt'
  BY DEF runOnce, Goto, PollPrompt
<1>2. lastApplyMs' = now /\ now' = now /\ sinceApply' = 0
  BY DEF runOnce
<1>3. ApplyAged'
  BY <1>2, ClockNumbers DEF ApplyAged
<1>4. PacketAged'
  BY DEF runOnce, Watchdog, TimeInv, PacketAged
<1>5. LinkHeard'
  BY DEF runOnce, Watchdog, TimeInv, LinkHeard
<1> QED BY <1>1, <1>3, <1>4, <1>5 DEF TimeInv

\* The steps that take no time and change neither command nor servo.
LEMMA StillTime ==
  ASSUME TimeInv, UNCHANGED <<command, servo, now, observer>>, PollPrompt'
  PROVE  TimeInv'
BY DEF TimeInv, ApplyAged, PacketAged, LinkHeard, command, servo, observer

\* Every step preserves the relation of readings and ages.
LEMMA NextTime == IInv /\ TimeInv /\ [Next]_vars => TimeInv'
<1> SUFFICES ASSUME IInv, TimeInv, [Next]_vars PROVE TimeInv'
  OBVIOUS
<1>1. CASE Tick
  BY <1>1, TickTime
<1>2. ASSUME NEW p \in Packets, Arrive(p) PROVE TimeInv'
  <2>1. PollPrompt'
    BY <1>2 DEF Arrive, TimeInv, PollPrompt
  <2> QED BY <1>2, <2>1, StillTime DEF Arrive
<1>3. CASE PollBegin("poll1", "rx1") \/ PollBegin("poll2", "rx2")
  <2>1. PollPrompt'
    BY <1>3 DEF PollBegin, Goto, PollPrompt
  <2> QED BY <1>3, <2>1, StillTime DEF PollBegin
<1>4. CASE PollFrame("rx1") \/ PollFrame("rx2")
  BY <1>4, PollFrameTime
<1>5. CASE PollEnd("rx1", "poll2", SenseMs) \/ PollEnd("rx2", "run2", HoldMs)
  <2>1. PollPrompt'
    BY <1>5 DEF PollEnd, Goto, PollPrompt
  <2> QED BY <1>5, <2>1, StillTime DEF PollEnd
<1>6. CASE runOnce("run1", "poll1") \/ runOnce("run2", "run1")
  BY <1>6, RunOnceTime
<1>7. CASE UNCHANGED vars
  BY <1>7 DEF vars, command, servo, observer, TimeInv, PollPrompt, ApplyAged, PacketAged, LinkHeard
<1> QED BY <1>1, <1>2, <1>3, <1>4, <1>5, <1>6, <1>7 DEF Next, Loop

\* The relation holds in every state.
LEMMA TimeInvariant == Spec => [](IInv /\ TimeInv)
BY InitIInv, NextIInv, InitTime, NextTime, PTL DEF Spec

\* The link goes down only in runOnce, under the watchdog's condition.
LEMMA TripStep ==
  ASSUME IInv, TimeInv, [Next]_vars, linkValid, ~linkValid', ~WrappedSince(lastPacketMs)
  PROVE  commandAge > WatchdogMs
<1>1. ASSUME NEW p, NEW t, acceptHpscPacket(p, t) PROVE FALSE
  BY <1>1, AcceptOrNot DEF command
<1>2. ~UNCHANGED command
  BY DEF command
<1>3. Watchdog(Tripped)
  BY <1>1, <1>2 DEF Next, Loop, Tick, Arrive, PollBegin, PollFrame, PollEnd, runOnce, vars
<1>4. linkValid' = (linkValid /\ ~Tripped)
  BY <1>3 DEF Watchdog
<1>5. Tripped
  BY <1>4, Zenon
<1>6. WordSub(now, lastPacketMs) > WatchdogMs
  BY <1>5 DEF Tripped, TimeInv, LinkHeard
<1>7. lastPacketMs <= now
  BY ClockNumbers DEF WrappedSince
<1>8. WordSub(now, lastPacketMs) = now - lastPacketMs
  BY <1>7, ClockNumbers DEF WordSub
<1> QED BY <1>6, <1>7, <1>8, ClockNumbers, ClockAssumption DEF TimeInv, PacketAged

\* The watchdog never takes the link down early: between two wraps of the clock
\* a trip means that the last accepted packet is older than the watchdog time.
THEOREM TripsOnSilence == Spec => TripMeansSilenceBetweenWraps
<1>1. IInv /\ TimeInv /\ [Next]_vars
        => [linkValid /\ ~linkValid' =>
              WrappedSince(lastPacketMs) \/ commandAge > WatchdogMs]_vars
  BY TripStep
<1> QED BY <1>1, InitIInv, NextIInv, InitTime, NextTime, PTL
        DEF Spec, TripMeansSilenceBetweenWraps

-----------------------------------------------------------------------------
(***************************************************************************)
(* The rate limit.                                                         *)
(***************************************************************************)

\* More time allows no smaller step.
LEMMA ProductGrows ==
  ASSUME NEW r \in Nat, NEW a \in Nat, NEW b \in Nat, a <= b
  PROVE  r * a \in Nat /\ r * b \in Nat /\ r * a <= r * b
<1>1. PICK c \in Nat : b = a + c
  <2>1. b - a \in Nat /\ b = a + (b - a)
    OBVIOUS
  <2> QED BY <2>1
<1>2. r * c \in Nat /\ r * a \in Nat
  OBVIOUS
<1>3. r * b = r * a + r * c
  BY <1>1
<1> QED BY <1>2, <1>3

\* The two clamps of the servo move it by no more than the step allowed.
LEMMA ClampedMove ==
  ASSUME NEW a \in Angles, NEW target \in Int, NEW limit \in Nat
  PROVE  LET step == Clamp(target - a, -limit, limit)
             move == Clamp(a + step, -MaxAbs, MaxAbs) - a
         IN  move <= limit /\ -move <= limit
<1> DEFINE step == Clamp(target - a, -limit, limit)
           move == Clamp(a + step, -MaxAbs, MaxAbs) - a
<1>1. a \in Int /\ -MaxAbs <= a /\ a <= MaxAbs /\ MaxAbs \in Nat
  BY ServoAssumption DEF Angles
<1>2. step \in Int /\ -limit <= step /\ step <= limit
  BY <1>1 DEF Clamp
<1> HIDE DEF step
<1>3. move <= limit /\ -move <= limit
  BY <1>1, <1>2 DEF Clamp
<1> QED BY <1>3 DEF step

\* runOnce moves the servo within the limit of the time really elapsed, unless
\* the clock has wrapped since it last did.
LEMMA RunOnceRate ==
  ASSUME IInv, IInv', TimeInv, NEW at, NEW next, runOnce(at, next), ~WrappedSince(lastApplyMs)
  PROVE  WithinRate
<1> DEFINE dtMs == WordSub(now, lastApplyMs)
<1>1. lastApplyMs <= now
  BY ClockNumbers DEF WrappedSince
<1>2. dtMs = now - lastApplyMs /\ dtMs \in Nat /\ dtMs <= sinceApply /\ sinceApply \in Nat
  BY <1>1, ClockNumbers DEF WordSub, TimeInv, ApplyAged
<1>3. maxRate \in Nat
  BY ServoAssumption DEF IInv, Numbers, Rates
<1> HIDE DEF dtMs
<1>4. /\ maxRate * dtMs \in Nat /\ maxRate * sinceApply \in Nat
      /\ maxRate * dtMs <= maxRate * sinceApply
  BY <1>2, <1>3, ProductGrows
<1> DEFINE limit == IF maxRate * sinceApply < 1 THEN 1 ELSE maxRate * sinceApply
<1>5. maxStep \in Nat /\ maxStep <= limit /\ limit \in Nat
  <2>1. maxStep = IF maxRate * dtMs < 1 THEN 1 ELSE maxRate * dtMs
    BY DEF maxStep, dtMs
  <2> QED BY <1>4, <2>1
<1>6. appliedAngle \in Angles /\ targetAngle' \in Int
  BY ServoAssumption DEF IInv, ServoOK, Numbers, Angles
<1> DEFINE move == appliedAngle' - appliedAngle
<1>7. move <= maxStep /\ -move <= maxStep
  <2>1. appliedAngle' = Clamp(appliedAngle + Clamp(targetAngle' - appliedAngle, -maxStep, maxStep),
                              -MaxAbs, MaxAbs)
    BY DEF runOnce, Limited
  <2> QED BY <1>5, <1>6, <2>1, ClampedMove
<1>8. move \in Int
  BY <1>6, ServoAssumption DEF IInv, ServoOK, Angles
<1> HIDE DEF move, limit
<1>9. move <= limit /\ -move <= limit
  BY <1>5, <1>7, <1>8
<1> QED BY <1>9 DEF WithinRate, move, limit

\* Nothing but runOnce moves the servo.
LEMMA StillRate ==
  ASSUME IInv, UNCHANGED appliedAngle PROVE WithinRate
<1>1. appliedAngle \in Int /\ maxRate \in Nat /\ sinceApply \in Nat
  BY ServoAssumption, ClockNumbers DEF IInv, ServoOK, Numbers, Angles, Rates
<1>2. appliedAngle' - appliedAngle = 0
  BY <1>1
<1>3. maxRate * sinceApply \in Nat
  BY <1>1
<1> QED BY <1>2, <1>3 DEF WithinRate

\* Between two wraps of the millisecond clock the servo never moves faster than
\* the commanded rate, whatever the loop's calls took and whatever arrived.
THEOREM RateLimited == Spec => RateLimitedBetweenWraps
<1>1. IInv /\ IInv' /\ TimeInv /\ [Next]_vars
        => [WrappedSince(lastApplyMs) \/ WithinRate]_vars
  <2> SUFFICES ASSUME IInv, IInv', TimeInv, [Next]_vars, ~WrappedSince(lastApplyMs)
               PROVE  WithinRate
    OBVIOUS
  <2>1. CASE runOnce("run1", "poll1") \/ runOnce("run2", "run1")
    BY <2>1, RunOnceRate
  <2>2. CASE UNCHANGED servo
    BY <2>2, StillRate DEF servo
  <2> QED BY <2>1, <2>2
          DEF Next, Loop, Tick, Arrive, PollBegin, PollFrame, PollEnd, vars, servo
<1> QED BY <1>1, InitIInv, NextIInv, InitTime, NextTime, PTL
        DEF Spec, RateLimitedBetweenWraps

-----------------------------------------------------------------------------
(***************************************************************************)
(* How stale a command can get.  The argument follows the loop round: how  *)
(* long a frame has waited in the ring, and how long the watchdog has not  *)
(* run, at each of its labels.                                             *)
(***************************************************************************)
LongestSense == Longest(SenseMs)
LongestHold  == Longest(HoldMs)

\* What is left of the current call is no more than the call may take.
CallBounded ==
    busy <= CASE pc \in {"run1", "poll1"} -> PulseMs
              [] pc = "poll2"             -> LongestSense
              [] pc = "run2"              -> LongestHold
              [] OTHER                    -> 0

\* The time since the watchdog last ran, and since the ring was last polled.
SinceRun ==
    CASE pc \in {"run1", "poll1"} -> PulseMs - busy
      [] pc = "rx1"               -> PulseMs
      [] pc = "poll2"             -> PulseMs + LongestSense - busy
      [] pc = "rx2"               -> PulseMs + LongestSense
      [] OTHER                    -> RunGap - busy
SincePoll ==
    CASE pc = "poll2" -> LongestSense - busy
      [] pc = "rx2"   -> LongestSense
      [] pc = "run2"  -> LongestHold - busy
      [] pc = "run1"  -> LongestHold + PulseMs - busy
      [] pc = "poll1" -> LongestHold + 2 * PulseMs - busy
      [] OTHER        -> LongestHold + 2 * PulseMs

\* No frame in the ring is older than the last poll; of the frames that the
\* guard makes a poll leave behind, none is older than that poll.
RingYoung == \A i \in 1 .. Len(rx) : rx[i].age <= SincePoll
LeftYoung ==
    pc \in {"rx1", "rx2"} => \A i \in 1 .. Len(rx) : i > RxDescriptors - guard => rx[i].age = 0

\* The time since the last accepted packet was stamped, by a clock that wraps
\* at most once meanwhile.
Elapsed == IF lastPacketMs <= now THEN now - lastPacketMs ELSE now - lastPacketMs + ClockWrap

\* A command in force waited in the ring, was stamped, and has been in force no
\* longer than the watchdog allowed when it last ran and the time since then.
CommandYoung ==
    commandValid => /\ commandAge <= QueueDelay + Elapsed
                    /\ Elapsed <= WatchdogMs + SinceRun

StaleInv == CallBounded /\ RingYoung /\ LeftYoung /\ CommandYoung

\* The durations are numbers, and none exceeds the longest.
LEMMA Durations ==
  /\ PulseMs \in Nat /\ WatchdogMs \in Nat /\ RxDescriptors \in Nat
  /\ LongestSense \in Nat /\ \A ms \in SenseMs : ms \in Nat /\ ms <= LongestSense
  /\ LongestHold \in Nat /\ \A ms \in HoldMs : ms \in Nat /\ ms <= LongestHold
  /\ RunGap = PulseMs + LongestSense + LongestHold
  /\ WatchdogMs + RunGap < ClockWrap
  /\ QueueDelay \in Nat /\ LongestSense <= QueueDelay /\ LongestHold + 2 * PulseMs <= QueueDelay
<1>1. LongestSense \in SenseMs /\ \A n \in SenseMs : n <= LongestSense
  BY TimingAssumption DEF LongestSense, Longest
<1>2. LongestHold \in HoldMs /\ \A n \in HoldMs : n <= LongestHold
  BY TimingAssumption DEF LongestHold, Longest
<1>3. RunGap = PulseMs + LongestSense + LongestHold
  BY DEF RunGap, LongestSense, LongestHold
<1>4. QueueDelay = IF LongestSense > LongestHold + 2 * PulseMs
                   THEN LongestSense ELSE LongestHold + 2 * PulseMs
  BY DEF QueueDelay, LongestSense, LongestHold
<1>5. PulseMs \in Nat /\ WatchdogMs \in Nat /\ RxDescriptors \in Nat
      /\ LongestSense \in Nat /\ LongestHold \in Nat
      /\ (\A ms \in SenseMs : ms \in Nat) /\ (\A ms \in HoldMs : ms \in Nat)
  BY <1>1, <1>2, LoopAssumption, ClockAssumption
<1>6. WatchdogMs + RunGap < ClockWrap
  BY TimingAssumption
<1>7. QueueDelay \in Nat /\ LongestSense <= QueueDelay /\ LongestHold + 2 * PulseMs <= QueueDelay
  BY <1>4, <1>5
<1> QED BY <1>1, <1>2, <1>3, <1>5, <1>6, <1>7

\* The frames of the ring have ages.
LEMMA FrameAges ==
  ASSUME IInv
  PROVE  /\ Len(rx) \in Nat /\ Len(rx) <= RxDescriptors
         /\ \A i \in 1 .. Len(rx) : rx[i] \in Frame /\ rx[i].age \in Nat
<1>1. rx \in Seq(Frame) /\ Len(rx) <= RxDescriptors
  BY DEF IInv, RingOK
<1>2. \A i \in 1 .. Len(rx) : rx[i] \in Frame
  BY <1>1
<1> QED BY <1>1, <1>2, ClockAssumption DEF Frame, Ages

\* The measured time since the last packet is the true one, or more.
LEMMA ElapsedFacts ==
  ASSUME IInv
  PROVE  Elapsed \in Nat /\ Elapsed < ClockWrap /\ Elapsed <= WordSub(now, lastPacketMs)
<1>1. WordSize \in Nat
  BY HalfWordAssumption DEF WordSize
<1> HIDE DEF WordSize
<1> QED BY <1>1, ClockNumbers DEF Elapsed, WordSub

\* The node starts with an empty ring and no command.
LEMMA InitStale == Init => StaleInv
<1> SUFFICES ASSUME Init PROVE StaleInv
  OBVIOUS
<1>1. pc = "run1" /\ busy = 0 /\ rx = <<>> /\ commandValid = FALSE
  BY DEF Init, CommandInit
<1>2. CallBounded
  BY <1>1, Durations DEF CallBounded
<1>3. RingYoung /\ LeftYoung
  BY <1>1 DEF RingYoung, LeftYoung
<1>4. CommandYoung
  BY <1>1 DEF CommandYoung
<1> QED BY <1>2, <1>3, <1>4 DEF StaleInv

\* A millisecond ages frames, command, ring and watchdog alike.
LEMMA TickStale == ASSUME IInv, TimeInv, StaleInv, Tick PROVE StaleInv'
<1>1. /\ busy > 0 /\ busy' = busy - 1 /\ pc' = pc /\ busy \in Nat
      /\ pc \in {"run1", "poll1", "rx1", "poll2", "rx2", "run2"}
  BY DEF Tick, IInv, LoopOK
<1>2. pc \in {"run1", "poll1", "poll2", "run2"}
  BY <1>1 DEF TimeInv, PollPrompt
<1>3. CallBounded'
  BY <1>1, <1>2, Durations DEF StaleInv, CallBounded
<1>4. /\ SinceRun' = SinceRun + 1 /\ SincePoll' = SincePoll + 1
      /\ SinceRun \in Int /\ SincePoll \in Int
  BY <1>1, <1>2, Durations DEF SinceRun, SincePoll
<1>5. RingYoung'
  <2>1. Len(rx) \in Nat /\ \A i \in 1 .. Len(rx) : rx[i] \in Frame /\ rx[i].age \in Nat
    BY FrameAges
  <2>2. Len(rx') = Len(rx) /\ \A i \in 1 .. Len(rx) : rx'[i] = [rx[i] EXCEPT !.age = Older(@)]
    BY <2>1 DEF Tick
  <2>3. ASSUME NEW i \in 1 .. Len(rx) PROVE rx'[i].age <= SincePoll'
    <3>1. rx[i].age \in Nat /\ rx[i].age <= SincePoll
      BY <2>1 DEF StaleInv, RingYoung
    <3>2. rx'[i].age = Older(rx[i].age)
      BY <2>1, <2>2 DEF Frame
    <3>3. Older(rx[i].age) \in Nat /\ Older(rx[i].age) <= rx[i].age + 1
      <4>1. rx[i].age \in Ages
        BY <2>1 DEF Frame
      <4> QED BY <4>1, ClockAssumption DEF Older, Ages
    <3> QED BY <1>4, <3>1, <3>2, <3>3
  <2> QED BY <2>2, <2>3 DEF RingYoung
<1>6. LeftYoung'
  BY <1>1, <1>2 DEF LeftYoung
<1>7. CommandYoung'
  <2> SUFFICES ASSUME commandValid
               PROVE  commandAge' <= QueueDelay + Elapsed' /\ Elapsed' <= WatchdogMs + SinceRun'
    BY DEF CommandYoung, Tick, command
  <2>1. commandAge <= QueueDelay + Elapsed /\ Elapsed <= WatchdogMs + SinceRun
    BY DEF StaleInv, CommandYoung
  <2>2. SinceRun' <= RunGap /\ SinceRun \in Int
    BY <1>1, <1>2, <1>3, Durations DEF SinceRun, CallBounded
  <2>3. Elapsed \in Nat /\ Elapsed + 1 < ClockWrap
    BY <1>4, <2>1, <2>2, ElapsedFacts, ClockNumbers, Durations
  <2>4. Elapsed' = Elapsed + 1
    <3>1. /\ now' = IF now + 1 < ClockWrap THEN now + 1 ELSE 0
          /\ lastPacketMs' = lastPacketMs
      BY DEF Tick, command
    <3> QED BY <2>3, <3>1, ClockNumbers DEF Elapsed
  <2>5. commandAge' <= commandAge + 1 /\ commandAge' \in Nat /\ commandAge \in Nat
    BY ClockNumbers DEF Tick, Older
  <2> QED BY <1>4, <2>1, <2>2, <2>3, <2>4, <2>5, Durations
<1> QED BY <1>3, <1>5, <1>6, <1>7 DEF StaleInv

\* Both times are natural numbers.
LEMMA SinceNat ==
  ASSUME IInv, CallBounded PROVE SinceRun \in Nat /\ SincePoll \in Nat
<1>1. busy \in Nat /\ pc \in {"run1", "poll1", "rx1", "poll2", "rx2", "run2"}
  BY DEF IInv, LoopOK
<1> QED BY <1>1, Durations DEF CallBounded, SinceRun, SincePoll

\* A frame that arrives is new.
LEMMA ArriveStale ==
  ASSUME IInv, StaleInv, NEW p \in Packets, Arrive(p) PROVE StaleInv'
<1>1. UNCHANGED <<pc, busy, guard, now>> /\ UNCHANGED command /\ UNCHANGED observer
  BY DEF Arrive
<1>2. SinceRun' = SinceRun /\ SincePoll' = SincePoll /\ SincePoll \in Nat
  BY <1>1, SinceNat DEF SinceRun, SincePoll, StaleInv
<1>3. CallBounded' /\ CommandYoung'
  BY <1>1, <1>2 DEF StaleInv, CallBounded, CommandYoung, Elapsed, command, observer
<1>4. /\ rx \in Seq(Frame) /\ Len(rx') = Len(rx) + 1 /\ Len(rx) \in Nat
      /\ \A i \in 1 .. Len(rx) + 1 :
           rx'[i] = IF i <= Len(rx) THEN rx[i] ELSE [packet |-> p, age |-> 0]
  <2>1. rx \in Seq(Frame) /\ [packet |-> p, age |-> 0] \in Frame
    BY ClockAssumption DEF IInv, RingOK, Frame, Ages
  <2> QED BY <2>1 DEF Arrive
<1>5. \A i \in 1 .. Len(rx') : (i \in 1 .. Len(rx) /\ rx'[i] = rx[i]) \/ rx'[i].age = 0
  BY <1>4
<1>6. RingYoung'
  BY <1>2, <1>5 DEF StaleInv, RingYoung
<1>7. LeftYoung'
  BY <1>1, <1>5 DEF StaleInv, LeftYoung
<1> QED BY <1>3, <1>6, <1>7 DEF StaleInv

\* A poll begins with no more frames than its guard lets it handle.
LEMMA PollBeginStale ==
  ASSUME IInv, StaleInv,
         PollBegin("poll1", "rx1") \/ PollBegin("poll2", "rx2")
  PROVE  StaleInv'
<1>1. /\ busy = 0 /\ busy' = 0 /\ guard' = 0 /\ rx' = rx
      /\ (pc = "poll1" /\ pc' = "rx1") \/ (pc = "poll2" /\ pc' = "rx2")
      /\ UNCHANGED now /\ UNCHANGED command /\ UNCHANGED observer
  BY DEF PollBegin, Goto
<1>2. SinceRun' = SinceRun /\ SincePoll' = SincePoll
  BY <1>1, Durations DEF SinceRun, SincePoll
<1>3. CallBounded'
  BY <1>1 DEF CallBounded
<1>4. CommandYoung' /\ RingYoung'
  BY <1>1, <1>2 DEF StaleInv, CommandYoung, RingYoung, Elapsed, command, observer
<1>5. LeftYoung'
  BY <1>1, FrameAges, Durations DEF LeftYoung
<1> QED BY <1>3, <1>4, <1>5 DEF StaleInv

\* A frame that is handled waited no longer than since the last poll.
LEMMA PollFrameStale ==
  ASSUME IInv, TimeInv, StaleInv, NEW at \in {"rx1", "rx2"}, PollFrame(at) PROVE StaleInv'
<1>1. /\ pc = at /\ pc' = pc /\ busy' = busy /\ guard' = guard + 1 /\ now' = now
      /\ rx # <<>> /\ rx' = Tail(rx) /\ pollNow = now
  BY DEF PollFrame, TimeInv, PollPrompt
<1>2. SinceRun' = SinceRun /\ SincePoll' = SincePoll /\ SinceRun \in Nat /\ SincePoll \in Nat
  BY <1>1, SinceNat DEF SinceRun, SincePoll, StaleInv
<1>3. CallBounded'
  BY <1>1 DEF StaleInv, CallBounded
<1>4. /\ Len(rx) \in Nat /\ Len(rx) > 0 /\ Head(rx) = rx[1] /\ Len(rx') = Len(rx) - 1
      /\ \A i \in 1 .. Len(rx) - 1 : rx'[i] = rx[i + 1]
  <2>1. rx \in Seq(Frame)
    BY DEF IInv, RingOK
  <2> QED BY <1>1, <2>1
<1>5. RingYoung'
  <2>1. \A i \in 1 .. Len(rx) - 1 : i + 1 \in 1 .. Len(rx)
    BY <1>4
  <2> QED BY <1>2, <1>4, <2>1 DEF StaleInv, RingYoung
<1>6. LeftYoung'
  <2> SUFFICES ASSUME NEW i \in 1 .. Len(rx) - 1, i > RxDescriptors - guard'
               PROVE  rx'[i].age = 0
    BY <1>1, <1>4 DEF LeftYoung
  <2>1. i + 1 \in 1 .. Len(rx) /\ i + 1 > RxDescriptors - guard
    BY <1>1, <1>4, Durations DEF IInv, LoopOK
  <2>2. rx[i + 1].age = 0
    BY <1>1, <2>1 DEF StaleInv, LeftYoung
  <2> QED BY <1>4, <2>2
<1>7. CommandYoung'
  <2>1. acceptHpscPacket(Head(rx).packet, pollNow)
    BY DEF PollFrame
  <2>2. CASE Accepted(Head(rx).packet) /\ lastPacketMs' = pollNow
    <3>1. commandAge' = Head(rx).age
      BY <2>2 DEF PollFrame
    <3>2. Head(rx).age <= SincePoll /\ Head(rx).age \in Nat
      BY <1>4, FrameAges DEF StaleInv, RingYoung
    <3>3. SincePoll <= QueueDelay
      BY <1>1, Durations DEF SincePoll
    <3>4. Elapsed' = 0
      BY <1>1, <2>2, ClockNumbers DEF Elapsed
    <3> QED BY <1>2, <3>1, <3>2, <3>3, <3>4, Durations DEF CommandYoung
  <2>3. CASE ~Accepted(Head(rx).packet) /\ UNCHANGED command
    <3>1. commandAge' = commandAge
      BY <2>3 DEF PollFrame
    <3> QED BY <1>1, <1>2, <2>3, <3>1 DEF StaleInv, CommandYoung, Elapsed, command
  <2> QED BY <2>1, <2>2, <2>3, AcceptOrNot
<1> QED BY <1>3, <1>5, <1>6, <1>7 DEF StaleInv

\* A poll leaves no frame behind that was there when it began.
LEMMA PollEndStale ==
  ASSUME IInv, StaleInv,
         PollEnd("rx1", "poll2", SenseMs) \/ PollEnd("rx2", "run2", HoldMs)
  PROVE  StaleInv'
<1>1. /\ rx' = rx /\ (rx = <<>> \/ guard >= RxDescriptors)
      /\ pc \in {"rx1", "rx2"}
      /\ UNCHANGED now /\ UNCHANGED command /\ UNCHANGED observer
  BY DEF PollEnd, Goto
<1>2. \/ pc = "rx1" /\ pc' = "poll2" /\ busy' \in SenseMs
      \/ pc = "rx2" /\ pc' = "run2" /\ busy' \in HoldMs
  BY DEF PollEnd, Goto
<1>3. /\ CallBounded'
      /\ SinceRun' \in Nat /\ SinceRun \in Nat /\ SinceRun <= SinceRun' /\ SincePoll' >= 0
  BY <1>2, Durations DEF CallBounded, SinceRun, SincePoll
<1>4. \A i \in 1 .. Len(rx) : rx[i].age = 0
  <2>1. CASE rx = <<>>
    BY <2>1
  <2>2. CASE guard >= RxDescriptors
    BY <1>1, <2>2, FrameAges, Durations DEF StaleInv, LeftYoung, IInv, LoopOK
  <2> QED BY <1>1, <2>1, <2>2
<1>5. RingYoung' /\ LeftYoung'
  BY <1>1, <1>2, <1>3, <1>4 DEF RingYoung, LeftYoung
<1>6. CommandYoung'
  <2>1. Elapsed' = Elapsed /\ commandAge' = commandAge /\ commandValid' = commandValid
    BY <1>1 DEF Elapsed, command, observer
  <2> QED BY <1>3, <2>1, ElapsedFacts, Durations DEF StaleInv, CommandYoung
<1> QED BY <1>3, <1>5, <1>6 DEF StaleInv

\* The watchdog leaves a command in force only within its limit.
LEMMA RunOnceStale ==
  ASSUME IInv, StaleInv, runOnce("run1", "poll1") \/ runOnce("run2", "run1")
  PROVE  StaleInv'
<1>1. /\ busy = 0 /\ busy' = PulseMs /\ rx' = rx /\ now' = now /\ commandAge' = commandAge
      /\ lastPacketMs' = lastPacketMs
      /\ (pc = "run1" /\ pc' = "poll1") \/ (pc = "run2" /\ pc' = "run1")
  BY DEF runOnce, Goto, Watchdog
<1>2. SinceRun' = 0 /\ SincePoll' = SincePoll
  BY <1>1, Durations DEF SinceRun, SincePoll
<1>3. CallBounded'
  BY <1>1, Durations DEF CallBounded
<1>4. RingYoung' /\ LeftYoung'
  BY <1>1, <1>2 DEF StaleInv, RingYoung, LeftYoung
<1>5. CommandYoung'
  <2> SUFFICES ASSUME commandValid'
               PROVE  commandAge' <= QueueDelay + Elapsed' /\ Elapsed' <= WatchdogMs + SinceRun'
    BY DEF CommandYoung
  <2>1. commandValid' = (commandValid /\ ~Tripped)
    BY DEF runOnce, Watchdog
  <2>2. commandValid /\ ~Tripped
    BY <2>1, Zenon
  <2>3. ~(WordSub(now, lastPacketMs) > WatchdogMs)
    BY <2>2 DEF Tripped
  <2>4. WordSub(now, lastPacketMs) \in Int
    <3>1. WordSize \in Nat
      BY HalfWordAssumption DEF WordSize
    <3> HIDE DEF WordSize
    <3> QED BY <3>1, ClockNumbers DEF WordSub
  <2>5. Elapsed <= WatchdogMs /\ Elapsed' = Elapsed
    <3>1. Elapsed' = Elapsed
      BY <1>1 DEF Elapsed
    <3> QED BY <2>3, <2>4, <3>1, ElapsedFacts, Durations
  <2> QED BY <1>1, <1>2, <2>2, <2>5, ElapsedFacts, Durations DEF StaleInv, CommandYoung
<1> QED BY <1>3, <1>4, <1>5 DEF StaleInv

\* Every step keeps the bounds.
LEMMA NextStale == IInv /\ TimeInv /\ StaleInv /\ [Next]_vars => StaleInv'
<1> SUFFICES ASSUME IInv, TimeInv, StaleInv, [Next]_vars PROVE StaleInv'
  OBVIOUS
<1>1. CASE Tick
  BY <1>1, TickStale
<1>2. ASSUME NEW p \in Packets, Arrive(p) PROVE StaleInv'
  BY <1>2, ArriveStale
<1>3. CASE PollBegin("poll1", "rx1") \/ PollBegin("poll2", "rx2")
  BY <1>3, PollBeginStale
<1>4. CASE PollFrame("rx1") \/ PollFrame("rx2")
  BY <1>4, PollFrameStale
<1>5. CASE PollEnd("rx1", "poll2", SenseMs) \/ PollEnd("rx2", "run2", HoldMs)
  BY <1>5, PollEndStale
<1>6. CASE runOnce("run1", "poll1") \/ runOnce("run2", "run1")
  BY <1>6, RunOnceStale
<1>7. CASE UNCHANGED vars
  <2>1. /\ UNCHANGED <<pc, busy, guard, now, rx>> /\ UNCHANGED command /\ UNCHANGED observer
    BY <1>7 DEF vars
  <2>2. SinceRun' = SinceRun /\ SincePoll' = SincePoll /\ Elapsed' = Elapsed
    BY <2>1 DEF SinceRun, SincePoll, Elapsed, command
  <2> QED BY <2>1, <2>2
          DEF StaleInv, CallBounded, RingYoung, LeftYoung, CommandYoung, command, observer
<1> QED BY <1>1, <1>2, <1>3, <1>4, <1>5, <1>6, <1>7 DEF Next, Loop

\* A command in force is never older, counted from its arrival in the ring, than
\* the longest wait in the ring, the watchdog time and the longest gap between
\* two runs of the watchdog together, through every wrap of the clock.
THEOREM StalenessBounded == Spec => []StalenessBound
<1>1. IInv /\ StaleInv => StalenessBound
  <2> SUFFICES ASSUME IInv, StaleInv, commandValid
               PROVE  commandAge <= QueueDelay + WatchdogMs + RunGap
    BY DEF StalenessBound
  <2>1. commandAge <= QueueDelay + Elapsed /\ Elapsed <= WatchdogMs + SinceRun
    BY DEF StaleInv, CommandYoung
  <2>2. SinceRun <= RunGap /\ SinceRun \in Nat
    <3>1. busy \in Nat /\ pc \in {"run1", "poll1", "rx1", "poll2", "rx2", "run2"}
      BY DEF IInv, LoopOK
    <3>2. SinceRun \in Nat
      BY SinceNat DEF StaleInv
    <3> QED BY <3>1, <3>2, Durations DEF SinceRun
  <2> QED BY <2>1, <2>2, ElapsedFacts, ClockNumbers, Durations
<1> QED BY <1>1, InitIInv, NextIInv, InitTime, NextTime, InitStale, NextStale, PTL DEF Spec
=============================================================================
