----------------------------- MODULE Perception -----------------------------
(***************************************************************************)
(* From MIDDLE's camera to the emergency-braking decision of HPVC.  Each   *)
(* turn of PerceptionService.run captures a frame and sends a datagram,    *)
(* but only every DetectEvery-th frame goes through the person detector:   *)
(* the others, and the frames on which it fails, reuse its last result     *)
(* while that is fresh.  A frame that cannot be captured sends nothing.    *)
(* hpvc_aeb.py takes the datagrams as they come, in any order and as often *)
(* as the network delivers them (it does not look at their numbers), and   *)
(* drops the last one when it is older than its timeout, counted from its  *)
(* arrival.                                                                *)
(*                                                                         *)
(* Time is explicit: a turn lasts MinTurn to MaxTurn ticks, an inference   *)
(* at most MaxInfer; at most MaxLoss datagrams in a row fail or are lost,  *)
(* and the others are delivered within MaxDelay, including the wait in     *)
(* HPVC's socket.  A turn is counted from the moment the person detector   *)
(* is given its frame: capture and lane detection come before and are the  *)
(* end of the turn before, so an image is older than a detection by their  *)
(* time.  Whether a detection is confident and in the path is one Boolean. *)
(* What lane detection finds, side distances and the web preview are left  *)
(* out.                                                                    *)
(***************************************************************************)
EXTENDS Integers

CONSTANTS
    DetectEvery,            \* person_detect_every
    PersonStale,            \* person_stale_sec
    MinTurn, MaxTurn, MaxInfer, MaxLoss, MaxDelay,
    MiddleTimeout           \* middle_timeout_s of the AEB runtime

\* The last conjuncts are what the defaults of the two programs (every 10th
\* of 15 frames per second, 1.0 s and 0.5 s) leave room for.
ASSUME PerceptionAssumption ==
    /\ DetectEvery \in Nat \ {0} /\ {PersonStale, MaxLoss, MaxDelay, MiddleTimeout} \subseteq Nat
    /\ MinTurn \in Nat \ {0} /\ MaxTurn \in Nat /\ MinTurn <= MaxTurn
    /\ MaxInfer \in 0 .. MaxTurn
    /\ (DetectEvery - 1) * MaxTurn <= PersonStale
    /\ (MaxLoss + 1) * MaxTurn + MaxInfer + MaxDelay <= MiddleTimeout

VARIABLES
    running, pc,    \* MIDDLE's process; its loop waits for a frame or infers
    turnAge,        \* time since the detector was given the last frame, or
                    \* the camera failed
    count,          \* sequence, modulo DetectEvery
    cached,         \* last_detections holds a person in the path
    inferAge,       \* now - last_inference_time
    net, losses,    \* datagrams that can still be delivered; lost in a row
    middle,         \* latest_middle of the AEB runtime: person, age of the
                    \* detection (since its frame was given to the
                    \* detector), time since the datagram's arrival
    goodAge         \* observer: how long camera and detector have worked and
                    \* every inference has found a person

service == <<running, pc, turnAge, count, cached, inferAge>>
vars    == <<service, net, losses, middle, goodAge>>

\* The oldest a detection can be when it is sent, and when the AEB uses it.
SentBound     == PersonStale + MaxInfer
EvidenceBound == SentBound + MaxDelay + MiddleTimeout

\* The time until a person found by every inference is known to the AEB and
\* no datagram from before is left to replace it: the next inference is due,
\* the last of the old datagrams arrives, overtaken, the next new ones are lost,
\* an inference holds up the one that is not, and the network delays it.
SettleBound == (DetectEvery + MaxLoss + 1) * MaxTurn + MaxInfer + 2 * MaxDelay

InferCap    == PersonStale + MaxInfer + 1
EvidenceCap == EvidenceBound + 1
ArrivalCap  == MiddleTimeout + 1
GoodCap     == SettleBound + 1

Datagram == [person : BOOLEAN, evidence : 0 .. SentBound, age : 0 .. MaxDelay,
             delivered : BOOLEAN]

TypeOK ==
    /\ running \in BOOLEAN /\ pc \in {"frame", "infer"}
    /\ turnAge \in 0 .. MaxTurn /\ count \in 0 .. DetectEvery - 1
    /\ cached \in BOOLEAN /\ inferAge \in 0 .. InferCap
    /\ net \subseteq Datagram /\ losses \in 0 .. MaxLoss
    /\ middle \in [person : BOOLEAN, evidence : 0 .. EvidenceCap, age : 0 .. ArrivalCap]
    /\ goodAge \in 0 .. GoodCap

Nothing == [person |-> FALSE, evidence |-> 0, age |-> ArrivalCap]

Started ==
    /\ running' = TRUE /\ pc' = "frame" /\ turnAge' = MinTurn /\ count' = 0
    /\ cached' = FALSE /\ inferAge' = InferCap

Init ==
    /\ running = TRUE /\ pc = "frame" /\ turnAge = MinTurn /\ count = 0
    /\ cached = FALSE /\ inferAge = InferCap
    /\ net = {} /\ losses = 0
    /\ middle = Nothing
    /\ goodAge = 0

-----------------------------------------------------------------------------
\* Mutants of FreshOrEmpty: the result never goes stale; it is not reused.
FreshOrEmpty_Forever(age) == cached
FreshOrEmpty_Empty(age)   == FALSE

\* _fresh_or_empty, with the last inference age old.
FreshOrEmpty(age) == cached /\ age <= PersonStale

\* Mutant of NextCount: never back to zero.
NextCount_Unbounded == count + 1

NextCount == (count + 1) % DetectEvery

\* The rest of a turn: the datagram is packed and sent, or its send fails or
\* it is lost, and the sequence moves on in every case.
Send(person, evidence) ==
    /\ \/ /\ net' = net \union {[person |-> person,
                                 evidence |-> IF person THEN evidence ELSE 0,
                                 age |-> 0, delivered |-> FALSE]}
          /\ losses' = 0
       \/ /\ losses < MaxLoss
          /\ losses' = losses + 1
          /\ UNCHANGED net
    /\ count' = NextCount

Due == running /\ pc = "frame" /\ turnAge >= MinTurn

\* A frame the detector is not run on.
PlainTurn ==
    /\ Due /\ count # 0
    /\ Send(FreshOrEmpty(inferAge), inferAge)
    /\ turnAge' = 0
    /\ UNCHANGED <<running, pc, cached, inferAge, middle, goodAge>>

\* A frame the detector is run on ...
BeginInference ==
    /\ Due /\ count = 0
    /\ pc' = "infer" /\ turnAge' = 0
    /\ UNCHANGED <<running, count, cached, inferAge, net, losses, middle, goodAge>>

\* ... which answers; the result counts from before the inference, ...
EndInference(person) ==
    /\ running /\ pc = "infer"
    /\ cached' = person /\ inferAge' = turnAge
    /\ Send(person, turnAge)
    /\ pc' = "frame"
    /\ goodAge' = IF person THEN goodAge ELSE 0
    /\ UNCHANGED <<running, turnAge, middle>>

\* ... or raises: freshness is judged by the time before the inference.
FailInference ==
    /\ running /\ pc = "infer"
    /\ Send(FreshOrEmpty(inferAge - turnAge), inferAge)
    /\ pc' = "frame"
    /\ goodAge' = 0
    /\ UNCHANGED <<running, turnAge, cached, inferAge, middle>>

\* The camera gives no frame: nothing is sent, the loop tries again.
CameraFails ==
    /\ Due
    /\ turnAge' = 0
    /\ goodAge' = 0
    /\ UNCHANGED <<running, pc, count, cached, inferAge, net, losses, middle>>

\* MIDDLE's process ends, and starts again.
StopMiddle ==
    /\ running
    /\ running' = FALSE /\ pc' = "frame" /\ turnAge' = 0 /\ count' = 0
    /\ cached' = FALSE /\ inferAge' = InferCap
    /\ goodAge' = 0
    /\ UNCHANGED <<net, losses, middle>>

StartMiddle ==
    /\ ~running
    /\ Started
    /\ UNCHANGED <<net, losses, middle, goodAge>>

-----------------------------------------------------------------------------
\* The receive loop of hpvc_aeb's main: the datagram read last is the latest.
AebTakes(p) ==
    /\ net' = (net \ {p}) \union {[p EXCEPT !.delivered = TRUE]}
    /\ middle' = [person |-> p.person,
                  evidence |-> IF p.person THEN p.evidence + p.age ELSE 0,
                  age |-> 0]
    /\ UNCHANGED <<service, losses, goodAge>>

\* What decide makes of it: stale data is dropped.
PersonInPath == middle.person /\ middle.age <= MiddleTimeout

Capped(age, cap) == IF age < cap THEN age + 1 ELSE cap

\* Time passes, unless a turn, the end of an inference or a delivery is due.
Tick ==
    /\ running => turnAge < IF pc = "infer" THEN MaxInfer ELSE MaxTurn
    /\ \A p \in net : p.age = MaxDelay => p.delivered
    /\ turnAge' = IF running THEN turnAge + 1 ELSE turnAge
    /\ inferAge' = Capped(inferAge, InferCap)
    /\ net' = {[p EXCEPT !.age = @ + 1] : p \in {q \in net : q.age < MaxDelay}}
    /\ middle' = [person |-> middle.person,
                  evidence |-> IF middle.person THEN Capped(middle.evidence, EvidenceCap) ELSE 0,
                  age |-> Capped(middle.age, ArrivalCap)]
    /\ goodAge' = IF running THEN Capped(goodAge, GoodCap) ELSE 0
    /\ UNCHANGED <<running, pc, count, cached, losses>>

Next ==
    \/ PlainTurn \/ BeginInference \/ FailInference \/ CameraFails
    \/ \E person \in BOOLEAN : EndInference(person)
    \/ StopMiddle \/ StartMiddle
    \/ \E p \in net : AebTakes(p)
    \/ Tick

Spec == Init /\ [][Next]_vars

-----------------------------------------------------------------------------
\* The AEB runtime believes in a person only while the detection is recent,
\* counted from when the detector was given its frame: its cache, its failures,
\* a silent camera, a dead MIDDLE, and datagrams that come late, twice or out
\* of order add up to no more.
PersonForgotten == PersonInPath => middle.evidence <= EvidenceBound

\* A person that every inference finds stays in the AEB runtime's view without
\* a gap, although most frames only repeat the last result, datagrams are lost,
\* and an overtaken datagram from before can replace a newer one.
PersonHeld == goodAge > SettleBound => PersonInPath
=============================================================================
