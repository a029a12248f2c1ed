------------------------------ MODULE HpvcAeb ------------------------------
(***************************************************************************)
(* The HPVC emergency-braking runtime (hpvc_aeb.py).  Each turn of its     *)
(* main loop takes the newest decodable MIDDLE and FRONT datagrams from    *)
(* the two sockets, decides, and sends the decision to the brake           *)
(* controller.  It never compares the sequence numbers of what it receives *)
(* (they are left out here), and a send that fails ends the process.       *)
(*                                                                         *)
(* Times are kept as ages: of the two latest frames since their arrival,   *)
(* and what is left of the stop hold.  The age of a frame that never came  *)
(* is the cap, which is stale.  Distances are numbers, 0 for one that is   *)
(* not valid; confidences, reason codes and texts are left out.            *)
(***************************************************************************)
EXTENDS WordArith, FiniteSets

CONSTANTS
    FrontFrames,    \* the FRONT frames that can arrive
    MiddlePackets,  \* the MIDDLE packets that can arrive
    FrontLimits, PersonLimits, SideLimits,  \* distance limits, see Limits
    FrontTimeout, MiddleTimeout,            \* front_timeout_s, middle_timeout_s
    StopHold        \* stop_hold_s

Limits  == [full : Nat, partial : Nat, fcw : Nat]
Front   == [tof : Nat, left : Nat, right : Nat]
Person  == [valid : BOOLEAN, confident : BOOLEAN, centered : BOOLEAN]
Middle  == [detectionValid : BOOLEAN, persons : SUBSET Person]

ASSUME AebAssumption ==
    /\ FrontFrames \subseteq Front
    /\ MiddlePackets \subseteq Middle
    /\ {FrontLimits, PersonLimits, SideLimits} \subseteq Limits
    /\ FrontTimeout \in Nat /\ MiddleTimeout \in Nat /\ StopHold \in Nat

VARIABLES
    running,                \* the process is alive
    front, frontAge,        \* latest_front and its age
    middle, middleAge,      \* latest_middle and its age
    holdLeft,               \* _hold_until - now, when positive
    decision,               \* the last decision sent: sequence, state, brake
    fullAge, evidenceAge    \* observer: time since the last FULL_BRAKE, and
                            \* since the arrival of the range it was based on

inputs == <<front, frontAge, middle, middleAge>>
vars   == <<running, inputs, holdLeft, decision, fullAge, evidenceAge>>

AgeCap   == FrontTimeout + MiddleTimeout + StopHold + 2
Ages     == 0 .. AgeCap
States   == {"CLEAR", "FCW", "PARTIAL_BRAKE", "FULL_BRAKE",
             "STOP_HOLD", "DEGRADED", "SENSOR_FAULT"}
Decision == [sequence : Words, state : States, brake : {0, 65, 100}]

NoFront  == [tof |-> 0, left |-> 0, right |-> 0]
NoMiddle == [detectionValid |-> FALSE, persons |-> {}]

TypeOK ==
    /\ running \in BOOLEAN
    /\ front \in FrontFrames \union {NoFront} /\ frontAge \in Ages
    /\ middle \in MiddlePackets \union {NoMiddle} /\ middleAge \in Ages
    /\ holdLeft \in 0 .. StopHold
    /\ decision \in Decision
    /\ fullAge \in Ages /\ evidenceAge \in Ages

NoDecision == [sequence |-> 0, state |-> "CLEAR", brake |-> 0]

Init ==
    /\ running = TRUE
    /\ front = NoFront /\ frontAge = AgeCap
    /\ middle = NoMiddle /\ middleAge = AgeCap
    /\ holdLeft = 0
    /\ decision = NoDecision
    /\ fullAge = AgeCap /\ evidenceAge = AgeCap

-----------------------------------------------------------------------------
\* _person_in_path.
PersonInPath(m) ==
    m.detectionValid /\ \E p \in m.persons : p.valid /\ p.confident /\ p.centered

\* _range_state, for a distance under the given limits.
RangeState(d, limits) ==
    CASE d <= limits.full    -> "FULL_BRAKE"
      [] d > limits.full /\ d <= limits.partial -> "PARTIAL_BRAKE"
      [] d > limits.full /\ d > limits.partial /\ d <= limits.fcw -> "FCW"
      [] OTHER -> "CLEAR"

\* The candidates of decide: the ToF range and the nearer ultrasonic range.
Candidates(f, person) ==
    LET sides == {f.left, f.right} \ {0}
        near  == CHOOSE d \in sides : \A e \in sides : d <= e
    IN  (IF f.tof = 0 THEN {}
         ELSE {RangeState(f.tof, IF person THEN PersonLimits ELSE FrontLimits)})
        \union (IF sides = {} THEN {} ELSE {RangeState(near, SideLimits)})

\* The most severe candidate, CLEAR without any.
Worst(found) ==
    IF "FULL_BRAKE" \in found THEN "FULL_BRAKE"
    ELSE IF "PARTIAL_BRAKE" \in found THEN "PARTIAL_BRAKE"
    ELSE IF "FCW" \in found THEN "FCW" ELSE "CLEAR"

Brake(state) ==
    CASE state \in {"FULL_BRAKE", "STOP_HOLD"} -> 100
      [] state = "PARTIAL_BRAKE" -> 65
      [] OTHER -> 0

\* Mutants of HoldAfter: the hold is one tick too long; it renews itself.
HoldAfter_TooLong(state) == IF state = "FULL_BRAKE" THEN StopHold + 1 ELSE holdLeft

HoldAfter_Renews(state) == IF state \in {"FULL_BRAKE", "STOP_HOLD"} THEN StopHold ELSE holdLeft

\* _hold_until after a decision.
HoldAfter(state) == IF state = "FULL_BRAKE" THEN StopHold ELSE holdLeft

\* Mutant of Decide: a range that is only closer than the partial limit ends
\* the hold.
Decide_HoldYields(frontFresh, middleFresh, f, m) ==
    LET person == middleFresh /\ PersonInPath(m)
        range  == Worst(IF frontFresh THEN Candidates(f, person) ELSE {})
    IN  IF ~frontFresh /\ ~middleFresh THEN "SENSOR_FAULT"
        ELSE IF ~frontFresh /\ person THEN "DEGRADED"
        ELSE IF range \in {"FULL_BRAKE", "PARTIAL_BRAKE"} THEN range
        ELSE IF holdLeft > 0 THEN "STOP_HOLD"
        ELSE IF range = "CLEAR" /\ person THEN "FCW" ELSE range

\* HpvcAebController.decide: the state decided on.
Decide(frontFresh, middleFresh, f, m) ==
    LET person == middleFresh /\ PersonInPath(m)
        range  == Worst(IF frontFresh THEN Candidates(f, person) ELSE {})
    IN  IF ~frontFresh /\ ~middleFresh THEN "SENSOR_FAULT"
        ELSE IF ~frontFresh /\ person THEN "DEGRADED"
        ELSE IF range = "FULL_BRAKE" THEN "FULL_BRAKE"
        ELSE IF holdLeft > 0 THEN "STOP_HOLD"
        ELSE IF range = "CLEAR" /\ person THEN "FCW" ELSE range

FrontFresh(age)  == age <= FrontTimeout
MiddleFresh(age) == age <= MiddleTimeout

\* One turn of main's loop in which the newest FRONT and MIDDLE frames are
\* those given, with their ages.
Turn(f, fAge, m, mAge) ==
    LET state == Decide(FrontFresh(fAge), MiddleFresh(mAge), f, m)
    IN  /\ running
        /\ UNCHANGED running
        /\ front' = f /\ frontAge' = fAge
        /\ middle' = m /\ middleAge' = mAge
        /\ holdLeft' = HoldAfter(state)
        /\ decision' = [sequence |-> WordAdd(decision.sequence, 1),
                        state |-> state, brake |-> Brake(state)]
        /\ fullAge' = IF state = "FULL_BRAKE" THEN 0 ELSE fullAge
        /\ evidenceAge' = IF state \in {"FULL_BRAKE", "PARTIAL_BRAKE"} THEN fAge ELSE evidenceAge

\* What the sockets hold when a turn starts: nothing (or nothing decodable)
\* for one, a new frame for the other, for both, or for none.
Loop ==
    \/ Turn(front, frontAge, middle, middleAge)
    \/ \E f \in FrontFrames : Turn(f, 0, middle, middleAge)
    \/ \E m \in MiddlePackets : Turn(front, frontAge, m, 0)
    \/ \E f \in FrontFrames, m \in MiddlePackets : Turn(f, 0, m, 0)

\* A turn whose send raises: the exception ends the process with its stop hold.
SendFails ==
    /\ running
    /\ running' = FALSE
    /\ UNCHANGED <<inputs, holdLeft, decision, fullAge, evidenceAge>>

\* The process is started again, knowing nothing of the one before.
Restart ==
    /\ ~running
    /\ running' = TRUE
    /\ front' = NoFront /\ frontAge' = AgeCap
    /\ middle' = NoMiddle /\ middleAge' = AgeCap
    /\ holdLeft' = 0
    /\ decision' = NoDecision
    /\ fullAge' = AgeCap /\ evidenceAge' = AgeCap

Older(age) == IF age < AgeCap THEN age + 1 ELSE AgeCap

\* Time passes between turns.
Tick ==
    /\ frontAge' = Older(frontAge)
    /\ middleAge' = Older(middleAge)
    /\ holdLeft' = IF holdLeft > 0 THEN holdLeft - 1 ELSE 0
    /\ fullAge' = Older(fullAge)
    /\ evidenceAge' = Older(evidenceAge)
    /\ UNCHANGED <<running, front, middle, decision>>

Next == Loop \/ SendFails \/ Restart \/ Tick

Spec == Init /\ [][Next]_vars

-----------------------------------------------------------------------------
\* For the whole stop hold after a full brake the runtime goes on asking for
\* full braking, whatever arrives meanwhile, unless it reports that it has
\* lost its sensors (which ends the braking) or its process has been restarted.
HoldKept ==
    [][running /\ fullAge < StopHold
          => decision'.brake = 100 \/ decision'.state \in {"DEGRADED", "SENSOR_FAULT"}]_decision

\* Braking is never asked for without recent evidence: the range it rests on
\* arrived at most the front timeout, and for full braking also the stop
\* hold, before.  A hold does not feed itself and stale ranges do not brake.
BrakeBacked ==
    [][decision'.brake > 0 => evidenceAge' <= FrontTimeout + StopHold]_decision
=============================================================================
