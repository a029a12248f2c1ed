-------------------------- MODULE RuntimeApiProofs --------------------------
(***************************************************************************)
(* DisabledCenters, the types, ModeReachesRear and HeardWithinHalfWord,    *)
(* proved for every sequence word, watchdog time, set of commands and      *)
(* pattern of losses, failed sends and restarts.                           *)
(*                                                                         *)
(* The invariant behind DisabledCenters: wheels off centre were put there  *)
(* by a packet of the API, which only sends one while LKAS is in effect,   *)
(* so only while it is requested (InEffect, Asked).  LKAS has therefore    *)
(* not been off for longer than FRONT has been silent, and the silence was *)
(* within the watchdog's length when the watchdog last ran (Steered).      *)
(* Whether later packets reach FRONT, or are new to it, plays no part: a   *)
(* packet it does not accept leaves its silence growing.                   *)
(***************************************************************************)
EXTENDS RuntimeApi, SequenceTheorems, TLAPS

Typed    == /\ requested \in Requests /\ quiet \in Nat /\ lkasOff \in Nat
            /\ sinceRun \in 0 .. FrontTurns
Asked    == "lkas" \in requested.features => lkasOff = 0
InEffect == "lkas" \in effective => "lkas" \in requested.features
Steered  == targetAngle # 0 =>
                /\ lkasOff <= WatchdogTurns + sinceRun
                /\ quiet <= WatchdogTurns => lkasOff <= quiet

IInv == Typed /\ Asked /\ InEffect /\ Steered

\* A freshly started API, and a reset one, asks for nothing.
LEMMA DefaultsType == Defaults \in Requests /\ "lkas" \notin Defaults.features
BY ApiAssumption DEF Defaults, Requests

\* The emergency guard adds no lane keeping.
LEMMA GuardIsNotLkas ==
  ASSUME NEW features, NEW f, "lkas" \in Recompute(features, f)
  PROVE  "lkas" \in features
BY DEF Recompute

\* FRONT keeps its target unless it accepts the packet, and takes one off
\* centre only from a packet sent with LKAS in effect.
LEMMA ToFrontSteers ==
  ASSUME NEW e, NEW r, NEW f \in BOOLEAN, quiet \in Nat,
         ToFront(SteeringPacket(e, r), f)
  PROVE  /\ quiet' \in Nat
         /\ targetAngle' # 0 =>
              \/ "lkas" \in e /\ quiet' = 0
              \/ targetAngle' = targetAngle /\ quiet' = quiet
<1> DEFINE p == SteeringPacket(e, r)
<1>1. p.emergencyCenter = ("lkas" \notin e)
  BY DEF SteeringPacket
<1>2. CASE f /\ Accepted(p)
  <2>1. quiet' = 0
    BY <1>2 DEF ToFront
  <2>2. acceptHpscPacket(p, 0)
    BY <1>2 DEF ToFront
  <2>3. CASE p.emergencyCenter
    <3>1. targetAngle' = 0
      BY <1>2, <2>2, <2>3 DEF acceptHpscPacket, Accepted, acceptTarget
    <3> QED BY <2>1, <3>1
  <2>4. CASE ~p.emergencyCenter
    BY <1>1, <2>1, <2>4
  <2> QED BY <2>3, <2>4
<1>3. CASE ~(f /\ Accepted(p))
  <2>1. quiet' = quiet
    BY <1>3 DEF ToFront
  <2>2. UNCHANGED command
    BY <1>3 DEF ToFront, acceptHpscPacket, Accepted, rejectPacket
  <2> QED BY <2>1, <2>2 DEF command
<1> QED BY <1>2, <1>3

\* The API starts with nothing requested and FRONT's wheels centred.
LEMMA InitCenters == Init => IInv
BY DefaultsType, ApiAssumption
   DEF Init, CommandInit, IInv, Typed, Asked, InEffect, Steered, QuietCap, OffCap

\* A handler changes requests, recomputes and publishes in one step.
LEMMA UpdateCenters ==
  ASSUME IInv, NEW r \in Requests, Update(r)
  PROVE  IInv'
<1>1. PICK f \in BOOLEAN : ToFront(SteeringPacket(effective', r), f)
  BY DEF Update, Publish
<1>2. requested' = r /\ lkasOff' = IF "lkas" \in r.features THEN 0 ELSE lkasOff
  BY DEF Update
<1>3. "lkas" \in effective' => "lkas" \in r.features
  BY GuardIsNotLkas DEF Update
<1>4. sinceRun' = sinceRun
  BY DEF Update
<1>5. Typed' /\ Asked' /\ InEffect'
  BY <1>1, <1>2, <1>3, <1>4, ToFrontSteers DEF IInv, Typed, Asked, InEffect
<1>6. ASSUME targetAngle' # 0
      PROVE  /\ lkasOff' <= WatchdogTurns + sinceRun'
             /\ quiet' <= WatchdogTurns => lkasOff' <= quiet'
  <2>1. CASE "lkas" \in effective' /\ quiet' = 0
    BY <1>2, <1>3, <1>4, <2>1, ApiAssumption DEF IInv, Typed
  <2>2. CASE targetAngle' = targetAngle /\ quiet' = quiet
    <3>1. /\ lkasOff <= WatchdogTurns + sinceRun
          /\ quiet <= WatchdogTurns => lkasOff <= quiet
      BY <1>6, <2>2 DEF IInv, Steered
    <3> QED BY <1>2, <1>4, <2>2, <3>1, ApiAssumption DEF IInv, Typed
  <2> QED BY <1>1, <1>6, <2>1, <2>2, ToFrontSteers DEF IInv, Typed
<1> QED BY <1>5, <1>6 DEF IInv, Steered

\* So does a publisher, with requests and features as they stand.
LEMMA PublisherCenters ==
  ASSUME IInv, NEW t, PublisherTurn(t)
  PROVE  IInv'
<1>1. PICK f \in BOOLEAN : ToFront(SteeringPacket(effective, requested), f)
  BY DEF PublisherTurn, Publish
<1>2. UNCHANGED <<requested, effective, lkasOff, sinceRun>>
  BY DEF PublisherTurn
<1>3. Typed' /\ Asked' /\ InEffect'
  BY <1>1, <1>2, ToFrontSteers DEF IInv, Typed, Asked, InEffect
<1>4. ASSUME targetAngle' # 0
      PROVE  /\ lkasOff' <= WatchdogTurns + sinceRun'
             /\ quiet' <= WatchdogTurns => lkasOff' <= quiet'
  <2>1. CASE "lkas" \in effective /\ quiet' = 0
    BY <1>2, <2>1, ApiAssumption DEF IInv, Typed, Asked, InEffect
  <2>2. CASE targetAngle' = targetAngle /\ quiet' = quiet
    BY <1>2, <1>4, <2>2 DEF IInv, Steered
  <2> QED BY <1>1, <1>4, <2>1, <2>2, ToFrontSteers DEF IInv, Typed
<1> QED BY <1>3, <1>4 DEF IInv, Steered

\* FRONT runs its watchdog: wheels it leaves off centre are steered by a
\* packet recent enough, whether or not the clock has turned over.
LEMMA FrontRunCenters ==
  ASSUME IInv, NEW wrapped, FrontRun(wrapped)
  PROVE  IInv'
<1>1. UNCHANGED <<requested, effective, quiet, lkasOff>> /\ sinceRun' = 0
  BY DEF FrontRun, api, observer
<1>2. Typed' /\ Asked' /\ InEffect'
  BY <1>1, ApiAssumption DEF IInv, Typed, Asked, InEffect
<1>3. ASSUME targetAngle' # 0
      PROVE  /\ lkasOff' <= WatchdogTurns + sinceRun'
             /\ quiet' <= WatchdogTurns => lkasOff' <= quiet'
  <2>1. targetAngle # 0 /\ ~(quiet > WatchdogTurns)
    BY <1>3 DEF FrontRun, Watchdog
  <2>2. quiet <= WatchdogTurns
    BY <2>1, ApiAssumption DEF IInv, Typed
  <2>3. lkasOff <= quiet
    BY <2>1, <2>2 DEF IInv, Steered
  <2> QED BY <1>1, <2>2, <2>3, ApiAssumption DEF IInv, Typed
<1> QED BY <1>2, <1>3 DEF IInv, Steered

\* A period passes: silence and the time since FRONT's last run grow together.
LEMMA TickCenters == ASSUME IInv, Tick PROVE IInv'
<1>1. /\ quiet' = Capped(quiet, QuietCap) /\ quiet' \in Nat
      /\ lkasOff' \in Nat
  BY ApiAssumption DEF Tick, Capped, QuietCap, OffCap, IInv, Typed
<1>2. sinceRun < FrontTurns /\ sinceRun' = sinceRun + 1
  BY DEF Tick
<1>3. Typed' /\ Asked' /\ InEffect'
  BY <1>1, <1>2, ApiAssumption DEF Tick, IInv, Typed, Asked, InEffect
<1>4. ASSUME targetAngle' # 0
      PROVE  /\ lkasOff' <= WatchdogTurns + sinceRun'
             /\ quiet' <= WatchdogTurns => lkasOff' <= quiet'
  <2>1. targetAngle # 0
    BY <1>4 DEF Tick, command
  <2>2. /\ lkasOff <= WatchdogTurns + sinceRun
        /\ quiet <= WatchdogTurns => lkasOff <= quiet
    BY <2>1 DEF IInv, Steered
  <2>3. quiet' <= WatchdogTurns => quiet <= WatchdogTurns /\ quiet' = quiet + 1
    BY <1>1, ApiAssumption DEF Capped, QuietCap, IInv, Typed
  <2>4. lkasOff' <= lkasOff + 1
    BY ApiAssumption DEF Tick, Capped, OffCap, IInv, Typed
  <2> QED BY <1>1, <1>2, <2>2, <2>3, <2>4, ApiAssumption DEF IInv, Typed
<1> QED BY <1>3, <1>4 DEF IInv, Steered

\* Every step keeps the invariant.
LEMMA NextCenters == IInv /\ [Next]_vars => IInv'
<1> SUFFICES ASSUME IInv, [Next]_vars PROVE IInv'
  OBVIOUS
<1>1. requested \in Requests
  BY DEF IInv, Typed
<1>2. ASSUME NEW fs \in SUBSET Features, EnableFeatures(fs) PROVE IInv'
  BY <1>1, <1>2, UpdateCenters DEF EnableFeatures, Requests
<1>3. ASSUME NEW s \in Steers, NEW d \in Drives, ControlManual(s, d) PROVE IInv'
  BY <1>1, <1>3, UpdateCenters DEF ControlManual, Requests
<1>4. CASE ControlTurn
  BY <1>1, <1>4, UpdateCenters DEF ControlTurn
<1>5. CASE ControlReset
  BY <1>5, DefaultsType, UpdateCenters DEF ControlReset
<1>6. ASSUME NEW f \in Frames, FrontLoop(f) PROVE IInv'
  BY <1>6, GuardIsNotLkas
     DEF FrontLoop, command, IInv, Typed, Asked, InEffect, Steered
<1>7. ASSUME NEW t \in Publishers, PublisherTurn(t) PROVE IInv'
  BY <1>7, PublisherCenters
<1>8. CASE LoopDies \/ Start
  BY <1>8 DEF LoopDies, Start, command, observer, IInv, Typed, Asked, InEffect, Steered
<1>9. CASE Serve
  BY <1>9 DEF Serve, command, IInv, Typed, Asked, InEffect, Steered
<1>10. CASE Exit
  BY <1>10, DefaultsType DEF Exit, command, IInv, Typed, Asked, InEffect, Steered
<1>11. ASSUME NEW wrapped \in BOOLEAN, FrontRun(wrapped) PROVE IInv'
  BY <1>11, FrontRunCenters
<1>12. CASE Tick
  BY <1>12, TickCenters
<1>13. CASE UNCHANGED vars
  BY <1>13 DEF vars, command, api, observer, IInv, Typed, Asked, InEffect, Steered
<1> QED BY <1>2, <1>3, <1>4, <1>5, <1>6, <1>7, <1>8, <1>9, <1>10, <1>11, <1>12, <1>13
        DEF Next

\* Once the operator has not asked for LKAS for the length of FRONT's watchdog
\* and the longest time it is held up, FRONT's target is the centre, whatever
\* was lost, failed, numbered anew or restarted meanwhile.
THEOREM SteeringReleased == Spec => []DisabledCenters
<1>1. IInv => DisabledCenters
  BY ApiAssumption DEF IInv, Typed, Steered, DisabledCenters
<1> QED BY InitCenters, NextCenters, <1>1, PTL DEF Spec

-----------------------------------------------------------------------------
(***************************************************************************)
(* Types.                                                                  *)
(***************************************************************************)
\* One more than a word, and the distance of two words, are words.
LEMMA WordTypes ==
  ASSUME NEW a \in Words, NEW b \in Words
  PROVE  WordAdd(a, 1) \in Words /\ WordSub(a, b) \in Words
BY HalfWordAssumption DEF Words, WordSize, WordAdd, WordSub

\* The observer's counters saturate.
LEMMA CappedType ==
  ASSUME NEW cap \in Nat, NEW n \in 0 .. cap
  PROVE  Capped(n, cap) \in 0 .. cap
BY DEF Capped

\* What the guard and the operator put into effect.
LEMMA RecomputeType ==
  ASSUME NEW features \in SUBSET Features, NEW f
  PROVE  Recompute(features, f) \subseteq Features \union {"aeb"}
BY DEF Recompute

\* REAR reads the mode and the direction from the bytes the API put them in,
\* and its emergency flag from the byte of another field, which is always 1.
LEMMA RearReadsBytes ==
  ASSUME NEW w
  PROVE  RearReads(RearBody(w)) =
           [mode |-> w.mode, direction |-> w.direction, emergency_stop |-> 1]
<1> DEFINE lead == <<w.mode, w.direction>>
           data == [i \in 1 .. 8 |-> "data"]
           rest == <<w.emergency_stop, "turn_signal", 1, "alive", 0, "brake">>
           head == lead \o data
           body == head \o rest
           U    == {w.mode, w.direction, w.emergency_stop, "data", "turn_signal",
                    1, "alive", 0, "brake"}
<1>1. lead \in Seq(U) /\ Len(lead) = 2 /\ lead[1] = w.mode /\ lead[2] = w.direction
  OBVIOUS
<1>2. data \in Seq(U) /\ Len(data) = 8
  OBVIOUS
<1>3. rest \in Seq(U) /\ Len(rest) = 6 /\ rest[3] = 1
  OBVIOUS
<1>4. RearBody(w) = body
  BY DEF RearBody
<1> HIDE DEF lead, data, rest, U
<1>5. /\ head \in Seq(U) /\ Len(head) = Len(lead) + Len(data)
      /\ \A i \in 1 .. Len(lead) + Len(data) :
             head[i] = IF i <= Len(lead) THEN lead[i] ELSE data[i - Len(lead)]
  BY <1>1, <1>2, ConcatProperties
<1> HIDE DEF head
<1>6. \A i \in 1 .. Len(head) + Len(rest) :
             body[i] = IF i <= Len(head) THEN head[i] ELSE rest[i - Len(head)]
  <2>1. head \in Seq(U) /\ rest \in Seq(U)
    BY <1>3, <1>5
  <2> QED BY <2>1, ConcatProperties
<1> HIDE DEF body
<1>7. Len(head) = 10 /\ head[1] = w.mode /\ head[2] = w.direction
  BY <1>1, <1>2, <1>5
<1>8. body[1] = w.mode /\ body[2] = w.direction /\ body[13] = 1
  BY <1>3, <1>6, <1>7
<1> QED BY <1>4, <1>8 DEF RearReads

\* The flags of FRONT's command, and its numbers.
CommandFlags == {initialized, linkValid, commandValid, emergencyCenter} \subseteq BOOLEAN
CommandNumbers ==
    /\ targetAngle \in Angles /\ maxRate \in Rates
    /\ lastSequence \in Words /\ lastPacketMs = 0

\* The two together are CommandTypeOK.
LEMMA CommandParts == CommandTypeOK({0}) <=> CommandFlags /\ CommandNumbers
BY DEF CommandTypeOK, CommandFlags, CommandNumbers

\* The rest of the state: the process, what its operator and FRONT told it, its
\* packets, and the counters of the observer.
ApiTyped ==
    /\ phase \in {"down", "boot", "up"} /\ loopAlive \in BOOLEAN
    /\ requested \in Requests /\ effective \subseteq Features \union {"aeb"}
    /\ front_aeb \in Frames
    /\ due \subseteq Publishers
RearTyped    == rearCmd \in RearFields /\ packed \in RearFields
CountersTyped ==
    /\ sequence \in Words
    /\ sinceRun \in 0 .. FrontTurns
    /\ quiet \in 0 .. QuietCap /\ lkasOff \in 0 .. OffCap
    /\ clean \in 0 .. CleanCap /\ settled \in 0 .. 2

TInv == CommandFlags /\ CommandNumbers /\ ApiTyped /\ RearTyped /\ CountersTyped

\* Together they are TypeOK.
LEMMA TInvType == TInv <=> TypeOK
BY CommandParts DEF TInv, TypeOK, ApiTyped, RearTyped, CountersTyped

\* The caps are natural numbers.
LEMMA CapTypes ==
  /\ QuietCap \in Nat /\ OffCap \in Nat /\ CleanCap \in Nat /\ WatchdogTurns \in Nat
  /\ HalfWord \in Nat /\ HalfWord > 0 /\ CleanCap = HalfWord + 3
  /\ FrontTurns \in Nat /\ FrontTurns > 0 /\ QuietCap > 0
BY ApiAssumption, HalfWordAssumption DEF QuietCap, OffCap, CleanCap

\* acceptTarget keeps FRONT's types.
LEMMA AcceptTyped ==
  ASSUME NEW seq \in Words, NEW angle \in Int, NEW rate \in Int,
         NEW valid \in BOOLEAN, NEW center \in BOOLEAN,
         acceptTarget(seq, angle, rate, valid, center, 0)
  PROVE  CommandFlags' /\ CommandNumbers'
<1>1. CommandFlags'
  BY DEF acceptTarget, CommandFlags
<1>2. Clamp(angle, -MaxAbs, MaxAbs) \in Angles /\ 0 \in Angles
  BY ServoAssumption DEF Clamp, Angles
<1>3. Clamp(rate, MinRate, MaxRate) \in Rates
  BY ServoAssumption DEF Clamp, Rates
<1> QED BY <1>1, <1>2, <1>3 DEF acceptTarget, CommandNumbers

\* What the API's steering packet looks like to FRONT: it is accepted exactly
\* when its number is newer than the last one accepted.
LEMMA SteeringPacketFacts ==
  ASSUME NEW e, NEW r
  PROVE  LET p == SteeringPacket(e, r)
         IN  /\ p.sequence = sequence /\ p.angle \in Int /\ p.rate \in Int
             /\ Accepted(p) <=> (initialized => sequenceNewer(sequence, lastSequence))
<1> DEFINE p == SteeringPacket(e, r)
<1>1. /\ p.sequence = sequence /\ p.wellFormed /\ p.controlMode = "STEERING_ANGLE"
      /\ p.steeringValid = ("lkas" \in e) /\ p.emergencyCenter = ("lkas" \notin e)
      /\ p.upstreamValid /\ p.finite /\ p.rate = SteerRate
  BY DEF SteeringPacket
<1>2. p.angle \in {0, SteerAngle, -SteerAngle}
  BY DEF SteeringPacket
<1>3. p.angle \in Angles /\ p.angle \in Int
  BY <1>2, ApiAssumption, ServoAssumption DEF Angles
<1>4. p.rate > 0 /\ p.rate \in Int
  BY <1>1, ApiAssumption
<1> HIDE DEF p
<1>5. p.emergencyCenter \/ IsCommand(p)
  BY <1>1, <1>3, <1>4 DEF IsCommand
<1>6. Accepted(p) <=> (initialized => sequenceNewer(sequence, lastSequence))
  BY <1>1, <1>5 DEF Accepted, Fresh
<1> QED BY <1>1, <1>3, <1>4, <1>6 DEF p

\* A publish keeps the types, whatever is lost.
LEMMA PublishTyped ==
  ASSUME TInv, NEW e, NEW r \in Requests, Publish(e, r)
  PROVE  CommandFlags' /\ CommandNumbers' /\ RearTyped'
         /\ sequence' \in Words /\ quiet' \in 0 .. QuietCap /\ clean' \in 0 .. CleanCap
<1> DEFINE p == SteeringPacket(e, r)
           w == RearWish(e, r)
<1>1. PICK f \in BOOLEAN, b \in BOOLEAN :
          /\ ToFront(p, f) /\ ToRear(w, b)
          /\ clean' = IF f /\ b THEN clean ELSE 0
          /\ \/ sequence' = NextSequence(sequence)
             \/ ~b /\ UNCHANGED sequence
  BY DEF Publish
<1>2. p.sequence \in Words /\ p.angle \in Int /\ p.rate \in Int
  BY SteeringPacketFacts DEF TInv, CountersTyped
<1>3. CommandFlags' /\ CommandNumbers'
  <2>1. CASE UNCHANGED command
    BY <2>1 DEF TInv, CommandFlags, CommandNumbers, command
  <2>2. CASE acceptHpscPacket(p, 0)
    <3> HIDE DEF p
    <3>1. DefaultRate \in Int /\ 0 \in Int
      BY ServoAssumption
    <3>2. \/ UNCHANGED command
          \/ acceptTarget(p.sequence, 0, DefaultRate, FALSE, TRUE, 0)
          \/ acceptTarget(p.sequence, p.angle, p.rate, TRUE, FALSE, 0)
          \/ acceptTarget(p.sequence, 0, DefaultRate, FALSE, FALSE, 0)
      BY <2>2 DEF acceptHpscPacket, rejectPacket
    <3>3. CASE acceptTarget(p.sequence, 0, DefaultRate, FALSE, TRUE, 0)
      BY <1>2, <3>1, <3>3, AcceptTyped
    <3>4. CASE acceptTarget(p.sequence, p.angle, p.rate, TRUE, FALSE, 0)
      BY <1>2, <3>4, AcceptTyped
    <3>5. CASE acceptTarget(p.sequence, 0, DefaultRate, FALSE, FALSE, 0)
      BY <1>2, <3>1, <3>5, AcceptTyped
    <3> QED BY <2>1, <3>2, <3>3, <3>4, <3>5
  <2> QED BY <1>1, <2>1, <2>2 DEF ToFront
<1>4. RearTyped'
  <2>1. w.mode \in {"MANUAL", "ACC", "AEB"} /\ w.direction \in Drives /\ w.emergency_stop = 0
    BY DEF RearWish, Requests
  <2>2. w \in RearFields
    BY <2>1 DEF RearWish, RearFields
  <2>3. RearReads(RearBody(w)) \in RearFields
    BY <2>1, RearReadsBytes DEF RearFields
  <2> HIDE DEF w
  <2> QED BY <1>1, <2>2, <2>3 DEF ToRear, TInv, RearTyped
<1>5. sequence' \in Words
  BY <1>1, WordTypes DEF NextSequence, TInv, CountersTyped
<1>6. quiet' \in 0 .. QuietCap
  BY <1>1, CapTypes DEF ToFront, TInv, CountersTyped
<1>7. clean' \in 0 .. CleanCap
  BY <1>1, CapTypes DEF TInv, CountersTyped
<1> QED BY <1>3, <1>4, <1>5, <1>6, <1>7

\* A handler, which changes the requests and publishes, keeps the types.
LEMMA UpdateTyped == ASSUME TInv, NEW r \in Requests, Update(r) PROVE TInv'
<1>1. Publish(effective', r)
  BY DEF Update
<1>2. ApiTyped'
  BY RecomputeType DEF Update, TInv, ApiTyped, Requests
<1>3. lkasOff' \in 0 .. OffCap /\ settled' \in 0 .. 2
  BY CapTypes DEF Update, TInv, CountersTyped
<1>4. sinceRun' = sinceRun
  BY DEF Update
<1> QED BY <1>1, <1>2, <1>3, <1>4, PublishTyped DEF TInv, CountersTyped

\* A turn of a publisher keeps the types.
LEMMA PublisherTyped == ASSUME TInv, NEW t, PublisherTurn(t) PROVE TInv'
<1>1. Publish(effective, requested) /\ requested \in Requests
  BY DEF PublisherTurn, TInv, ApiTyped
<1>2. ApiTyped'
  BY DEF PublisherTurn, TInv, ApiTyped
<1>3. lkasOff' \in 0 .. OffCap /\ settled' \in 0 .. 2
  BY CapTypes DEF PublisherTurn, TInv, CountersTyped
<1>4. sinceRun' = sinceRun
  BY DEF PublisherTurn
<1> QED BY <1>1, <1>2, <1>3, <1>4, PublishTyped DEF TInv, CountersTyped

\* FRONT's watchdog keeps the types.
LEMMA FrontRunTyped ==
  ASSUME TInv, NEW wrapped \in BOOLEAN, FrontRun(wrapped)
  PROVE  TInv'
<1> DEFINE tripped == ~initialized \/ quiet > WatchdogTurns \/ wrapped
<1>1. Watchdog(tripped)
  BY DEF FrontRun
<1>2. UNCHANGED <<api, rearCmd, observer>> /\ sinceRun' = 0
  BY DEF FrontRun
<1> HIDE DEF tripped
<1>3. CommandFlags'
  BY <1>1 DEF Watchdog, TInv, CommandFlags
<1>4. CommandNumbers'
  BY <1>1, ServoAssumption DEF Watchdog, TInv, CommandNumbers, Angles
<1>5. ApiTyped' /\ RearTyped'
  BY <1>2 DEF api, observer, TInv, ApiTyped, RearTyped
<1>6. CountersTyped'
  BY <1>2, CapTypes DEF api, observer, TInv, CountersTyped
<1> QED BY <1>3, <1>4, <1>5, <1>6 DEF TInv

\* The end of a period keeps the types.
LEMMA TickTyped == ASSUME TInv, Tick PROVE TInv'
<1>1. CommandFlags'
  BY DEF Tick, command, TInv, CommandFlags
<1>2. CommandNumbers'
  BY DEF Tick, command, TInv, CommandNumbers
<1>3. ApiTyped'
  BY DEF Tick, TInv, ApiTyped, Serving, Publishers
<1>4. RearTyped'
  BY DEF Tick, TInv, RearTyped
<1>5. CountersTyped'
  <2>1. quiet' \in 0 .. QuietCap
    BY CapTypes, CappedType DEF Tick, TInv, CountersTyped
  <2>2. lkasOff' \in 0 .. OffCap
    BY CapTypes, CappedType DEF Tick, TInv, CountersTyped
  <2>3. clean' \in 0 .. CleanCap
    BY CapTypes, CappedType DEF Tick, TInv, CountersTyped
  <2>4. settled' \in 0 .. 2
    BY DEF Tick, Capped, TInv, CountersTyped
  <2>5. sinceRun' \in 0 .. FrontTurns
    BY CapTypes DEF Tick, TInv, CountersTyped
  <2> QED BY <2>1, <2>2, <2>3, <2>4, <2>5 DEF Tick, TInv, CountersTyped
<1> QED BY <1>1, <1>2, <1>3, <1>4, <1>5 DEF TInv

\* The API starts typed, whatever FRONT remembers.
LEMMA InitTyped == Init => TInv
<1> SUFFICES ASSUME Init PROVE TInv
  OBVIOUS
<1>1. CommandFlags
  BY DEF Init, CommandInit, CommandFlags
<1>2. CommandNumbers
  BY HalfWordAssumption, ServoAssumption
     DEF Init, CommandInit, CommandNumbers, Angles, Rates, Words, WordSize
<1>3. ApiTyped
  BY DefaultsType, ApiAssumption DEF Init, ApiTyped
<1>4. RearTyped
  BY ApiAssumption DEF Init, RearTyped, RearFields, Parked
<1>5. CountersTyped
  BY CapTypes DEF Init, CountersTyped, Words, WordSize
<1> QED BY <1>1, <1>2, <1>3, <1>4, <1>5 DEF TInv

\* Every step keeps the types.
LEMMA NextTyped == TInv /\ [Next]_vars => TInv'
<1> SUFFICES ASSUME TInv, [Next]_vars PROVE TInv'
  OBVIOUS
<1>1. requested \in Requests
  BY DEF TInv, ApiTyped
<1>2. ASSUME UNCHANGED command PROVE CommandFlags' /\ CommandNumbers'
  BY <1>2 DEF command, TInv, CommandFlags, CommandNumbers
<1>3. 0 \in Words
  BY CapTypes DEF Words, WordSize
<1>4. ASSUME NEW fs \in SUBSET Features, EnableFeatures(fs) PROVE TInv'
  BY <1>1, <1>4, UpdateTyped DEF EnableFeatures, Requests
<1>5. ASSUME NEW s \in Steers, NEW d \in Drives, ControlManual(s, d) PROVE TInv'
  BY <1>1, <1>5, UpdateTyped DEF ControlManual, Requests
<1>6. CASE ControlTurn
  BY <1>1, <1>6, UpdateTyped DEF ControlTurn
<1>7. CASE ControlReset
  BY <1>7, DefaultsType, UpdateTyped DEF ControlReset
<1>8. ASSUME NEW f \in Frames, FrontLoop(f) PROVE TInv'
  <2>1. ApiTyped'
    BY <1>1, <1>8, RecomputeType DEF FrontLoop, TInv, ApiTyped, Requests
  <2>2. CountersTyped'
    BY <1>8 DEF FrontLoop, TInv, CountersTyped
  <2> QED BY <1>2, <1>8, <2>1, <2>2 DEF FrontLoop, TInv, RearTyped
<1>9. ASSUME NEW t \in Publishers, PublisherTurn(t) PROVE TInv'
  BY <1>9, PublisherTyped
<1>10. CASE LoopDies \/ Start
  BY <1>2, <1>10 DEF LoopDies, Start, observer, TInv, ApiTyped, RearTyped, CountersTyped
<1>11. CASE Serve
  <2>1. ApiTyped'
    BY <1>11 DEF Serve, Serving, Publishers, TInv, ApiTyped
  <2>2. CountersTyped'
    BY <1>3, <1>11, CapTypes DEF Serve, TInv, CountersTyped
  <2> QED BY <1>2, <1>11, <2>1, <2>2 DEF Serve, TInv, RearTyped
<1>12. CASE Exit
  <2>1. ApiTyped'
    BY <1>12, DefaultsType, ApiAssumption DEF Exit, TInv, ApiTyped
  <2>2. CountersTyped'
    BY <1>3, <1>12, CapTypes DEF Exit, TInv, CountersTyped
  <2> QED BY <1>2, <1>12, <2>1, <2>2 DEF Exit, TInv, RearTyped
<1>13. ASSUME NEW wrapped \in BOOLEAN, FrontRun(wrapped) PROVE TInv'
  BY <1>13, FrontRunTyped
<1>14. CASE Tick
  BY <1>14, TickTyped
<1>15. CASE UNCHANGED vars
  BY <1>2, <1>15 DEF vars, api, observer, TInv, ApiTyped, RearTyped, CountersTyped
<1> QED BY <1>4, <1>5, <1>6, <1>7, <1>8, <1>9, <1>10, <1>11, <1>12, <1>13, <1>14, <1>15
        DEF Next

\* Type correctness of the API, FRONT's command and REAR's command, through
\* losses, failed sends and restarts.
THEOREM TypeCorrect == Spec => []TypeOK
BY InitTyped, NextTyped, TInvType, PTL DEF Spec

-----------------------------------------------------------------------------
(***************************************************************************)
(* ModeReachesRear.  A frame from FRONT changes what the API should ask of *)
(* REAR without sending anything, so between the change and the next turn  *)
(* of serve's publisher REAR holds another mode.  The invariant says where *)
(* in the period that can be.                                              *)
(***************************************************************************)

\* What is in effect is what the requests and the last frame call for.
ExactEffect == effective = Recompute(requested.features, front_aeb)

\* REAR has been told, unless serve's publisher still has its first turn since
\* the wish changed or a packet was lost.
ModeTold ==
    phase = "up" /\ (settled > 1 \/ (settled > 0 /\ "serve" \notin due))
      => rearCmd.mode = Wish(requested, front_aeb)

\* A publish after which the observer still counts was delivered to both
\* boards, and took a number.
LEMMA PublishDelivers ==
  ASSUME TInv, NEW e, NEW r, Publish(e, r), clean' > 0
  PROVE  /\ clean' = clean /\ sequence' = WordAdd(sequence, 1)
         /\ ToFront(SteeringPacket(e, r), TRUE)
         /\ rearCmd'.mode = RearWish(e, r).mode
<1>1. PICK f \in BOOLEAN, b \in BOOLEAN :
          /\ ToFront(SteeringPacket(e, r), f) /\ ToRear(RearWish(e, r), b)
          /\ clean' = IF f /\ b THEN clean ELSE 0
          /\ \/ sequence' = NextSequence(sequence)
             \/ ~b /\ UNCHANGED sequence
  BY DEF Publish
<1>2. f = TRUE /\ b = TRUE
  BY <1>1
<1>3. rearCmd' = RearReads(RearBody(RearWish(e, r)))
  BY <1>1, <1>2 DEF ToRear
<1>4. rearCmd'.mode = RearWish(e, r).mode
  BY <1>3, RearReadsBytes
<1> QED BY <1>1, <1>2, <1>4 DEF NextSequence

\* A handler that keeps the observer counting has told REAR.
LEMMA UpdateTells ==
  ASSUME TInv, NEW r \in Requests, Update(r)
  PROVE  ExactEffect' /\ ModeTold'
<1>1. ExactEffect'
  BY DEF Update, ExactEffect
<1>2. ASSUME settled' > 0 PROVE rearCmd'.mode = Wish(requested', front_aeb')
  <2>1. clean' > 0
    BY <1>2 DEF Update
  <2>2. rearCmd'.mode = RearWish(effective', r).mode
    BY <2>1, PublishDelivers DEF Update
  <2> QED BY <2>2 DEF Update, Wish
<1>3. settled' \in Nat
  BY UpdateTyped DEF TInv, CountersTyped
<1> QED BY <1>1, <1>2, <1>3 DEF ModeTold

\* So has a publisher: what it sends is in effect, and that is exact.
LEMMA PublisherTells ==
  ASSUME TInv, ExactEffect, NEW t, PublisherTurn(t)
  PROVE  ExactEffect' /\ ModeTold'
<1>1. ExactEffect'
  BY DEF PublisherTurn, ExactEffect
<1>2. ASSUME settled' > 0 PROVE rearCmd'.mode = Wish(requested', front_aeb')
  <2>1. clean' > 0
    BY <1>2 DEF PublisherTurn
  <2>2. rearCmd'.mode = RearWish(effective, requested).mode
    BY <2>1, PublishDelivers DEF PublisherTurn
  <2> QED BY <2>2 DEF PublisherTurn, Wish, ExactEffect
<1>3. settled' \in Nat
  BY PublisherTyped DEF TInv, CountersTyped
<1> QED BY <1>1, <1>2, <1>3 DEF ModeTold

\* A process that has nothing requested and no frame has nothing in effect.
LEMMA NothingInEffect == Recompute(Defaults.features, 0) = {}
BY DEF Recompute, Defaults, Near

\* Every step keeps what REAR has been told.
LEMMA NextTells ==
  TInv /\ ExactEffect /\ ModeTold /\ [Next]_vars => ExactEffect' /\ ModeTold'
<1> SUFFICES ASSUME TInv, ExactEffect, ModeTold, [Next]_vars
             PROVE  ExactEffect' /\ ModeTold'
  OBVIOUS
<1>1. requested \in Requests /\ settled \in Nat
  BY DEF TInv, ApiTyped, CountersTyped
<1>2. ASSUME NEW fs \in SUBSET Features, EnableFeatures(fs) PROVE ExactEffect' /\ ModeTold'
  BY <1>1, <1>2, UpdateTells DEF EnableFeatures, Requests
<1>3. ASSUME NEW s \in Steers, NEW d \in Drives, ControlManual(s, d)
      PROVE  ExactEffect' /\ ModeTold'
  BY <1>1, <1>3, UpdateTells DEF ControlManual, Requests
<1>4. CASE ControlTurn
  BY <1>1, <1>4, UpdateTells DEF ControlTurn
<1>5. CASE ControlReset
  BY <1>5, DefaultsType, UpdateTells DEF ControlReset
<1>6. ASSUME NEW f \in Frames, FrontLoop(f) PROVE ExactEffect' /\ ModeTold'
  <2>1. CASE Wish(requested, f) = Wish(requested, front_aeb)
    BY <1>6, <2>1 DEF FrontLoop, ExactEffect, ModeTold
  <2>2. CASE Wish(requested, f) # Wish(requested, front_aeb)
    BY <1>6, <2>2 DEF FrontLoop, ExactEffect, ModeTold
  <2> QED BY <2>1, <2>2
<1>7. ASSUME NEW t \in Publishers, PublisherTurn(t) PROVE ExactEffect' /\ ModeTold'
  BY <1>7, PublisherTells
<1>8. CASE LoopDies \/ Start
  BY <1>8 DEF LoopDies, Start, observer, ExactEffect, ModeTold
<1>9. CASE Serve
  BY <1>9 DEF Serve, ExactEffect, ModeTold
<1>10. CASE Exit
  BY <1>10, NothingInEffect DEF Exit, ExactEffect, ModeTold
<1>11. CASE Tick
  <2>1. ExactEffect'
    BY <1>11 DEF Tick, ExactEffect
  <2>2. ASSUME phase' = "up", settled' > 1 \/ (settled' > 0 /\ "serve" \notin due')
        PROVE  rearCmd'.mode = Wish(requested', front_aeb')
    <3>1. "serve" \in due' /\ phase = "up" /\ "serve" \notin due
      BY <1>11, <2>2 DEF Tick, Serving
    <3>2. settled > 0
      BY <1>1, <1>11, <2>2, <3>1 DEF Tick, Capped
    <3> QED BY <1>11, <3>1, <3>2 DEF Tick, ModeTold
  <2> QED BY <2>1, <2>2 DEF ModeTold
<1>12. ASSUME NEW wrapped \in BOOLEAN, FrontRun(wrapped) PROVE ExactEffect' /\ ModeTold'
  BY <1>12 DEF FrontRun, api, observer, ExactEffect, ModeTold
<1>13. CASE UNCHANGED vars
  BY <1>13 DEF vars, api, observer, ExactEffect, ModeTold
<1> QED BY <1>2, <1>3, <1>4, <1>5, <1>6, <1>7, <1>8, <1>9, <1>10, <1>11, <1>12, <1>13
        DEF Next

\* When packets get through, REAR holds the mode the operator and FRONT's last
\* frame call for at most one publisher period after they last changed.
THEOREM ModeTakesEffect == Spec => []ModeReachesRear
<1>1. Init => TInv /\ ExactEffect /\ ModeTold
  BY InitTyped, NothingInEffect DEF Init, ExactEffect, ModeTold
<1>2. ModeTold => ModeReachesRear
  BY DEF ModeTold, ModeReachesRear
<1> QED BY <1>1, <1>2, NextTyped, NextTells, PTL DEF Spec

-----------------------------------------------------------------------------
(***************************************************************************)
(* HeardWithinHalfWord, for sequence words of at least two bits (32 in the *)
(* code).  The argument counts the packets FRONT still has to reject.  A   *)
(* trip of the watchdog plays no part: it forgets no sequence number.      *)
(***************************************************************************)

\* The packets after which FRONT has accepted one, if all of them arrive: one
\* if the next number is newer than FRONT's, two if it is the same, and else
\* those that bring it round to the same number first.
Behind ==
    LET gap == WordSub(sequence, lastSequence)
    IN  IF ~initialized \/ (gap # 0 /\ gap < HalfWord) THEN 1
        ELSE IF gap = 0 THEN 2 ELSE WordSize - gap + 2

\* serve's publisher still has its turn in this period.
Pending == IF "serve" \in due THEN 1 ELSE 0

\* FRONT has accepted a packet in this or the last period, and takes the next.
Heard == Behind = 1 /\ quiet <= Pending

\* While no packet is lost, FRONT hears the API or is that much nearer to it.
HeardOrSoon ==
    phase = "up" /\ clean > 0 => Heard \/ Behind <= HalfWord + 2 - (clean - Pending)

\* At most half a word of packets, and two, are needed.
LEMMA BehindRange ==
  ASSUME TInv PROVE Behind \in 1 .. HalfWord + 2
<1>1. WordSub(sequence, lastSequence) \in 0 .. WordSize - 1
  BY WordTypes DEF TInv, CountersTyped, CommandNumbers, Words
<1> QED BY <1>1, CapTypes DEF Behind, WordSize

\* A delivered packet is heard, or the next one is nearer to being heard.
LEMMA DeliveredNearer ==
  ASSUME TInv, HalfWord > 1, NEW e, NEW r,
         ToFront(SteeringPacket(e, r), TRUE), sequence' = WordAdd(sequence, 1)
  PROVE  \/ Behind' = 1 /\ quiet' = 0
         \/ Behind > 1 /\ Behind' = Behind - 1
<1> DEFINE p == SteeringPacket(e, r)
<1>1. sequence \in Words /\ lastSequence \in Words
  BY DEF TInv, CountersTyped, CommandNumbers
<1>2. CASE Accepted(p)
  <2>1. quiet' = 0 /\ acceptHpscPacket(p, 0)
    BY <1>2 DEF ToFront
  <2>2. p.sequence = sequence
    BY SteeringPacketFacts
  <2> HIDE DEF p
  <2>3. initialized' /\ lastSequence' = sequence
    BY <1>2, <2>1, <2>2 DEF acceptHpscPacket, Accepted, acceptTarget
  <2>4. WordSub(sequence', lastSequence') = 1
    BY <1>1, <2>3, CapTypes DEF WordSub, WordAdd, Words, WordSize
  <2>5. Behind' = 1
    BY <2>3, <2>4 DEF Behind
  <2> QED BY <2>1, <2>5
<1>3. CASE ~Accepted(p)
  <2>1. UNCHANGED command
    BY <1>3 DEF ToFront, acceptHpscPacket, Accepted, rejectPacket
  <2>2. initialized /\ ~sequenceNewer(sequence, lastSequence)
    BY <1>3, SteeringPacketFacts
  <2>3. initialized' /\ lastSequence' = lastSequence
    BY <2>1, <2>2 DEF command
  <2> DEFINE gap == WordSub(sequence, lastSequence)
  <2>4. gap \in 0 .. WordSize - 1 /\ (gap = 0 \/ gap >= HalfWord)
    <3>1. gap \in 0 .. WordSize - 1
      BY <1>1, WordTypes DEF Words
    <3>2. gap = 0 \/ ~(gap < HalfWord)
      BY <2>2 DEF sequenceNewer
    <3> HIDE DEF gap
    <3> QED BY <3>1, <3>2, CapTypes DEF WordSize
  <2>5. WordSub(sequence', lastSequence') = WordAdd(gap, 1)
    BY <1>1, <2>3, CapTypes DEF WordSub, WordAdd, Words, WordSize
  <2> HIDE DEF gap
  <2>6. Behind = IF gap = 0 THEN 2 ELSE WordSize - gap + 2
    BY <2>2, <2>4, CapTypes DEF Behind, gap, WordSize
  <2>7. Behind' = IF WordAdd(gap, 1) # 0 /\ WordAdd(gap, 1) < HalfWord THEN 1
                  ELSE IF WordAdd(gap, 1) = 0 THEN 2 ELSE WordSize - WordAdd(gap, 1) + 2
    BY <2>3, <2>5 DEF Behind
  <2> QED BY <2>4, <2>6, <2>7, CapTypes DEF WordAdd, WordSize
<1> QED BY <1>2, <1>3

\* So a handler or a publisher brings FRONT nearer.
LEMMA PublishHears ==
  ASSUME TInv, HalfWord > 1, HeardOrSoon, NEW e, NEW r, Publish(e, r),
         phase = "up"
  PROVE  HeardOrSoon'
<1> SUFFICES ASSUME clean' > 0
             PROVE  Heard' \/ Behind' <= HalfWord + 2 - (clean' - Pending')
  BY DEF HeardOrSoon
<1>1. /\ clean' = clean /\ sequence' = WordAdd(sequence, 1)
      /\ ToFront(SteeringPacket(e, r), TRUE)
  BY PublishDelivers
<1>2. Pending \in {0, 1} /\ Pending' \in {0, 1} /\ clean \in Nat /\ HalfWord \in Nat
  BY CapTypes DEF Pending, TInv, CountersTyped
<1>3. CASE Behind' = 1 /\ quiet' = 0
  BY <1>2, <1>3 DEF Heard
<1>4. CASE Behind > 1 /\ Behind' = Behind - 1
  <2>1. Behind <= HalfWord + 2 - (clean - Pending)
    BY <1>1, <1>4 DEF HeardOrSoon, Heard
  <2>2. Behind \in Int
    BY BehindRange, CapTypes
  <2>3. Behind - 1 <= HalfWord + 2 - (clean - Pending')
    <3>1. \A h \in Nat, c \in Nat, b \in Int, i \in {0, 1}, j \in {0, 1} :
            b <= h + 2 - (c - i) => b - 1 <= h + 2 - (c - j)
      OBVIOUS
    <3> QED BY <1>2, <2>1, <2>2, <3>1
  <2> QED BY <1>1, <1>4, <2>3
<1> QED BY <1>1, <1>3, <1>4, DeliveredNearer

\* A period that ends has heard the API's packet, or counted it.
LEMMA TickHears ==
  ASSUME TInv, HeardOrSoon, Tick
  PROVE  HeardOrSoon'
<1> SUFFICES ASSUME phase' = "up", clean' > 0
             PROVE  Heard' \/ Behind' <= HalfWord + 2 - (clean' - Pending')
  BY DEF HeardOrSoon
<1>1. phase = "up" /\ Pending = 0 /\ Pending' = 1 /\ clean' = Capped(clean, CleanCap)
  BY DEF Tick, Pending, Serving
<1>2. Behind' = Behind
  BY DEF Tick, command, Behind
<1>3. clean \in 0 .. CleanCap /\ quiet \in Nat /\ Behind \in 1 .. HalfWord + 2
  BY BehindRange, CapTypes DEF TInv, CountersTyped
<1>4. CASE Heard
  <2>1. Behind = 1 /\ quiet = 0
    BY <1>1, <1>3, <1>4 DEF Heard
  <2>2. quiet' <= 1
    BY <2>1, CapTypes DEF Tick, Capped
  <2> QED BY <1>1, <1>2, <2>1, <2>2 DEF Heard
<1>5. CASE ~Heard
  <2>1. clean > 0 => Behind <= HalfWord + 2 - clean
    BY <1>1, <1>3, <1>5, CapTypes DEF HeardOrSoon
  <2>2. clean < CleanCap /\ clean' = clean + 1
    BY <1>1, <1>3, <2>1, CapTypes DEF Capped
  <2> QED BY <1>1, <1>2, <1>3, <2>1, <2>2, CapTypes
<1> QED BY <1>4, <1>5

\* Every step keeps FRONT's nearness to the API's numbers.
LEMMA NextHears ==
  ASSUME HalfWord > 1
  PROVE  TInv /\ HeardOrSoon /\ [Next]_vars => HeardOrSoon'
<1> SUFFICES ASSUME TInv, HeardOrSoon, [Next]_vars PROVE HeardOrSoon'
  OBVIOUS
<1>1. ASSUME NEW r, Update(r) PROVE HeardOrSoon'
  BY <1>1, PublishHears DEF Update
<1>2. CASE ControlTurn \/ ControlReset
  BY <1>1, <1>2 DEF ControlTurn, ControlReset
<1>3. CASE (\E fs \in SUBSET Features : EnableFeatures(fs))
           \/ \E s \in Steers, d \in Drives : ControlManual(s, d)
  BY <1>1, <1>3 DEF EnableFeatures, ControlManual
<1>4. ASSUME NEW f \in Frames, FrontLoop(f) PROVE HeardOrSoon'
  BY <1>4 DEF FrontLoop, command, HeardOrSoon, Heard, Behind, Pending
<1>5. ASSUME NEW t \in Publishers, PublisherTurn(t) PROVE HeardOrSoon'
  BY <1>5, PublishHears DEF PublisherTurn
<1>6. CASE LoopDies \/ Start \/ Serve \/ Exit
  BY <1>6 DEF LoopDies, Start, Serve, Exit, HeardOrSoon
<1>7. CASE Tick
  BY <1>7, TickHears
<1>8. ASSUME NEW wrapped \in BOOLEAN, FrontRun(wrapped) PROVE HeardOrSoon'
  <2>1. UNCHANGED <<initialized, lastSequence, sequence, due, phase, quiet, clean>>
    BY <1>8 DEF FrontRun, Watchdog, api, observer
  <2> QED BY <2>1 DEF HeardOrSoon, Heard, Behind, Pending
<1>9. CASE UNCHANGED vars
  BY <1>9 DEF vars, command, api, observer, HeardOrSoon, Heard, Behind, Pending
<1> QED BY <1>2, <1>3, <1>4, <1>5, <1>6, <1>7, <1>8, <1>9 DEF Next

\* An API whose packets get through is heard by FRONT after at most half the
\* sequence word of periods and two more, whatever number FRONT last accepted
\* and although the API starts again from 0, and then in every period.
THEOREM HeardInTime ==
  ASSUME HalfWord > 1
  PROVE  Spec => []HeardWithinHalfWord
<1>1. Init => HeardOrSoon
  BY DEF Init, HeardOrSoon
<1>2. TInv /\ HeardOrSoon => HeardWithinHalfWord
  <2> SUFFICES ASSUME TInv, HeardOrSoon, phase = "up", clean > HalfWord + 2
               PROVE  quiet <= 1
    BY DEF HeardWithinHalfWord
  <2>1. clean = HalfWord + 3 /\ Pending \in {0, 1} /\ Behind \in 1 .. HalfWord + 2
    BY BehindRange, CapTypes DEF TInv, CountersTyped, Pending
  <2>2. ~(Behind <= HalfWord + 2 - (clean - Pending))
    BY <2>1, CapTypes
  <2>3. Heard
    BY <2>1, <2>2, CapTypes DEF HeardOrSoon
  <2>4. quiet \in Nat
    BY CapTypes DEF TInv, CountersTyped
  <2> QED BY <2>1, <2>3, <2>4 DEF Heard
<1>3. TInv /\ HeardOrSoon /\ [Next]_vars => HeardOrSoon'
  BY NextHears
<1> QED BY <1>1, <1>2, <1>3, InitTyped, NextTyped, PTL DEF Spec
=============================================================================
