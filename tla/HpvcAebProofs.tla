--------------------------- MODULE HpvcAebProofs ---------------------------
(***************************************************************************)
(* TypeOK, HoldKept and BrakeBacked, proved for every set of frames, every *)
(* distance limit, timeout and stop hold.  Neither action property follows *)
(* from the types: a decision taken during the stop hold is right only if  *)
(* the hold timer still agrees with the full brake that started it.  The   *)
(* invariant relates _hold_until to the two ages the properties observe.   *)
(***************************************************************************)
EXTENDS HpvcAeb, TLAPS

\* Within the stop hold of a full brake, the timer is what is left of it.
HoldTimed == fullAge < StopHold => holdLeft = StopHold - fullAge

\* A hold that still runs rests on a range that was fresh when it was set.
HoldBacked == holdLeft > 0 => evidenceAge <= FrontTimeout + StopHold - holdLeft

IInv == TypeOK /\ HoldTimed /\ HoldBacked

-----------------------------------------------------------------------------
\* The age cap is a natural number above every timeout of the runtime.
LEMMA Bounds ==
    /\ FrontTimeout \in Nat /\ MiddleTimeout \in Nat /\ StopHold \in Nat
    /\ AgeCap \in Nat
    /\ AgeCap > StopHold /\ AgeCap > FrontTimeout + StopHold /\ AgeCap > MiddleTimeout
    /\ 0 \in Ages /\ AgeCap \in Ages
BY AebAssumption DEF AgeCap, Ages

\* The next sequence number of a decision is a word.
LEMMA NextWord == \A a \in Words : WordAdd(a, 1) \in Words
BY HalfWordAssumption DEF Words, WordAdd, WordSize

\* An age stays within the cap and grows by at most one.
LEMMA OlderAge ==
    \A a \in Ages : Older(a) \in Ages /\ (a < AgeCap => Older(a) = a + 1) /\ Older(a) >= a
BY Bounds DEF Ages, Older

\* The most severe of the candidates is a range state.
LEMMA WorstState ==
    ASSUME NEW found
    PROVE  /\ Worst(found) \in {"FULL_BRAKE", "PARTIAL_BRAKE", "FCW", "CLEAR"}
           /\ found = {} => Worst(found) = "CLEAR"
BY DEF Worst

\* What decide answers: a state of the runtime; FULL_BRAKE and PARTIAL_BRAKE
\* only from a fresh FRONT frame, PARTIAL_BRAKE and everything milder that is
\* not a lost sensor only when no stop hold runs.
LEMMA DecideFacts ==
    ASSUME NEW ff \in BOOLEAN, NEW mf \in BOOLEAN, NEW f, NEW m, holdLeft \in Nat
    PROVE  LET s == Decide(ff, mf, f, m)
           IN  /\ s \in States
               /\ s \in {"FULL_BRAKE", "PARTIAL_BRAKE"} => ff
               /\ s = "STOP_HOLD" => holdLeft > 0
               /\ holdLeft > 0 => s \in {"FULL_BRAKE", "STOP_HOLD", "DEGRADED", "SENSOR_FAULT"}
<1> DEFINE person == mf /\ PersonInPath(m)
           range  == Worst(IF ff THEN Candidates(f, person) ELSE {})
<1>1. range \in {"FULL_BRAKE", "PARTIAL_BRAKE", "FCW", "CLEAR"}
  BY WorstState
<1>2. ~ff => range = "CLEAR"
  BY WorstState
<1>3. Decide(ff, mf, f, m) =
        IF ~ff /\ ~mf THEN "SENSOR_FAULT"
        ELSE IF ~ff /\ person THEN "DEGRADED"
        ELSE IF range = "FULL_BRAKE" THEN "FULL_BRAKE"
        ELSE IF holdLeft > 0 THEN "STOP_HOLD"
        ELSE IF range = "CLEAR" /\ person THEN "FCW" ELSE range
  BY DEF Decide
<1> HIDE DEF person, range
<1> QED BY <1>1, <1>2, <1>3 DEF States

\* The braking that goes with a state.
LEMMA BrakeFacts ==
    ASSUME NEW s \in States
    PROVE  /\ Brake(s) \in {0, 65, 100}
           /\ s \in {"FULL_BRAKE", "STOP_HOLD"} => Brake(s) = 100
           /\ s \notin {"FULL_BRAKE", "STOP_HOLD", "PARTIAL_BRAKE"} => Brake(s) = 0
BY DEF Brake, States

-----------------------------------------------------------------------------
\* A turn of the main loop with frames and ages that it can hold: it preserves
\* the invariant, keeps a running hold and brakes only on recent evidence.
LEMMA TurnStep ==
    ASSUME IInv,
           NEW f \in FrontFrames \union {NoFront}, NEW fAge \in Ages,
           NEW m \in MiddlePackets \union {NoMiddle}, NEW mAge \in Ages,
           Turn(f, fAge, m, mAge)
    PROVE  /\ IInv'
           /\ fullAge < StopHold
                => decision'.brake = 100 \/ decision'.state \in {"DEGRADED", "SENSOR_FAULT"}
           /\ decision'.brake > 0 => evidenceAge' <= FrontTimeout + StopHold
<1> DEFINE s == Decide(FrontFresh(fAge), MiddleFresh(mAge), f, m)
<1>1. holdLeft \in Nat /\ holdLeft <= StopHold
  BY Bounds DEF IInv, TypeOK
<1>2. /\ s \in States
      /\ s \in {"FULL_BRAKE", "PARTIAL_BRAKE"} => fAge <= FrontTimeout
      /\ s = "STOP_HOLD" => holdLeft > 0
      /\ holdLeft > 0 => s \in {"FULL_BRAKE", "STOP_HOLD", "DEGRADED", "SENSOR_FAULT"}
  <2>1. FrontFresh(fAge) \in BOOLEAN /\ MiddleFresh(mAge) \in BOOLEAN
    BY DEF FrontFresh, MiddleFresh
  <2> QED BY <2>1, <1>1, DecideFacts DEF FrontFresh
<1>3. /\ running /\ UNCHANGED running
      /\ front' = f /\ frontAge' = fAge /\ middle' = m /\ middleAge' = mAge
      /\ holdLeft' = IF s = "FULL_BRAKE" THEN StopHold ELSE holdLeft
      /\ decision' = [sequence |-> WordAdd(decision.sequence, 1),
                      state |-> s, brake |-> Brake(s)]
      /\ fullAge' = IF s = "FULL_BRAKE" THEN 0 ELSE fullAge
      /\ evidenceAge' = IF s \in {"FULL_BRAKE", "PARTIAL_BRAKE"} THEN fAge ELSE evidenceAge
  BY DEF Turn, HoldAfter
<1> HIDE DEF s
<1>4. TypeOK'
  <2>1. decision' \in Decision
    <3>1. WordAdd(decision.sequence, 1) \in Words
      BY NextWord DEF IInv, TypeOK, Decision
    <3> QED BY <1>2, <1>3, <3>1, BrakeFacts DEF Decision
  <2>2. holdLeft' \in 0 .. StopHold /\ fullAge' \in Ages /\ evidenceAge' \in Ages
    BY <1>3, Bounds DEF IInv, TypeOK
  <2> QED BY <1>3, <2>1, <2>2 DEF IInv, TypeOK
<1>5. HoldTimed'
  BY <1>3, Bounds DEF IInv, HoldTimed
<1>6. HoldBacked'
  <2>1. fullAge \in Nat /\ evidenceAge \in Nat /\ fAge \in Nat
    BY Bounds DEF IInv, TypeOK, Ages
  <2> QED BY <1>1, <1>2, <1>3, <2>1, Bounds DEF IInv, HoldBacked
<1>7. fullAge < StopHold
        => decision'.brake = 100 \/ decision'.state \in {"DEGRADED", "SENSOR_FAULT"}
  <2>1. fullAge < StopHold => holdLeft > 0
    BY Bounds DEF IInv, TypeOK, HoldTimed, Ages
  <2> QED BY <1>2, <1>3, <2>1, BrakeFacts
<1>8. decision'.brake > 0 => evidenceAge' <= FrontTimeout + StopHold
  <2>1. decision'.brake > 0 => s \in {"FULL_BRAKE", "STOP_HOLD", "PARTIAL_BRAKE"}
    BY <1>2, <1>3, BrakeFacts
  <2>2. evidenceAge \in Nat /\ fAge \in Nat
    BY Bounds DEF IInv, TypeOK, Ages
  <2> QED BY <1>1, <1>2, <1>3, <2>1, <2>2, Bounds DEF IInv, HoldBacked
<1> QED BY <1>4, <1>5, <1>6, <1>7, <1>8 DEF IInv

\* Every turn of the loop is one with frames and ages the runtime can hold.
LEMMA LoopStep ==
    ASSUME IInv, Loop
    PROVE  /\ IInv'
           /\ fullAge < StopHold
                => decision'.brake = 100 \/ decision'.state \in {"DEGRADED", "SENSOR_FAULT"}
           /\ decision'.brake > 0 => evidenceAge' <= FrontTimeout + StopHold
<1>1. \E f \in FrontFrames \union {NoFront}, fAge \in Ages,
         m \in MiddlePackets \union {NoMiddle}, mAge \in Ages : Turn(f, fAge, m, mAge)
  <2>1. /\ front \in FrontFrames \union {NoFront} /\ frontAge \in Ages
        /\ middle \in MiddlePackets \union {NoMiddle} /\ middleAge \in Ages
    BY DEF IInv, TypeOK
  <2> QED BY <2>1, Bounds DEF Loop
<1>2. PICK f \in FrontFrames \union {NoFront}, fAge \in Ages,
           m \in MiddlePackets \union {NoMiddle}, mAge \in Ages : Turn(f, fAge, m, mAge)
  BY <1>1
<1> QED BY <1>2, TurnStep

\* The passage of time moves the hold timer and both ages together.
LEMMA TickStep == ASSUME IInv, Tick PROVE IInv' /\ UNCHANGED decision
<1>1. /\ holdLeft \in Nat /\ holdLeft <= StopHold
      /\ fullAge \in Ages /\ fullAge \in Nat /\ fullAge <= AgeCap
      /\ evidenceAge \in Ages /\ evidenceAge \in Nat /\ evidenceAge <= AgeCap
  BY Bounds DEF IInv, TypeOK, Ages
<1>2. /\ holdLeft' = IF holdLeft > 0 THEN holdLeft - 1 ELSE 0
      /\ fullAge' = Older(fullAge) /\ evidenceAge' = Older(evidenceAge)
  BY DEF Tick
<1>3. TypeOK'
  <2>1. holdLeft' \in 0 .. StopHold
    BY <1>1, <1>2, Bounds
  <2>2. frontAge' \in Ages /\ middleAge' \in Ages /\ fullAge' \in Ages /\ evidenceAge' \in Ages
    BY OlderAge DEF Tick, IInv, TypeOK
  <2> QED BY <2>1, <2>2 DEF Tick, IInv, TypeOK
<1>4. HoldTimed'
  BY <1>1, <1>2, Bounds DEF IInv, HoldTimed, Older
<1>5. HoldBacked'
  BY <1>1, <1>2, Bounds DEF IInv, HoldBacked, Older
<1> QED BY <1>3, <1>4, <1>5 DEF Tick, IInv

\* A process that starts holds nothing and remembers no braking.
LEMMA FreshStart ==
    /\ Init => IInv
    /\ Restart => IInv' /\ decision'.brake = 0
<1>1. NoDecision \in Decision /\ NoDecision.brake = 0
  BY HalfWordAssumption DEF NoDecision, Decision, States, Words, WordSize
<1>2. ~(AgeCap < StopHold)
  BY Bounds
<1>3. Init => IInv
  BY <1>1, <1>2, Bounds DEF Init, IInv, TypeOK, HoldTimed, HoldBacked
<1>4. Restart => IInv' /\ decision'.brake = 0
  BY <1>1, <1>2, Bounds DEF Restart, IInv, TypeOK, HoldTimed, HoldBacked
<1> QED BY <1>3, <1>4

\* Every step preserves the invariant and keeps both promises.
LEMMA NextStep ==
    ASSUME IInv, [Next]_vars
    PROVE  /\ IInv'
           /\ [running /\ fullAge < StopHold
                 => \/ decision'.brake = 100
                    \/ decision'.state \in {"DEGRADED", "SENSOR_FAULT"}]_decision
           /\ [decision'.brake > 0 => evidenceAge' <= FrontTimeout + StopHold]_decision
<1>1. CASE Loop
  BY <1>1, LoopStep
<1>2. CASE SendFails
  BY <1>2 DEF SendFails, IInv, TypeOK, HoldTimed, HoldBacked, inputs
<1>3. CASE Restart
  BY <1>3, FreshStart DEF Restart
<1>4. CASE Tick
  BY <1>4, TickStep
<1>5. CASE UNCHANGED vars
  BY <1>5 DEF vars, inputs, IInv, TypeOK, HoldTimed, HoldBacked
<1> QED BY <1>1, <1>2, <1>3, <1>4, <1>5 DEF Next

-----------------------------------------------------------------------------
\* Type correctness of the runtime's state, through turns, crashes and restarts.
THEOREM TypeCorrect == Spec => []TypeOK
<1>1. IInv => TypeOK
  BY DEF IInv
<1> QED BY FreshStart, NextStep, <1>1, PTL DEF Spec

\* decide never lets go of a stop hold early: whatever ranges and detections
\* arrive while it runs, the runtime goes on asking for full braking.
THEOREM StopHoldKept == Spec => HoldKept
BY FreshStart, NextStep, PTL DEF Spec, HoldKept

\* decide never brakes on an old range: what it asks for rests on a FRONT frame
\* at most the front timeout, and for a held brake also the stop hold, old.
THEOREM BrakingBacked == Spec => BrakeBacked
BY FreshStart, NextStep, PTL DEF Spec, BrakeBacked
=============================================================================
