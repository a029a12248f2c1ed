-------------------------- MODULE PerceptionProofs --------------------------
(***************************************************************************)
(* How old a person the AEB runtime believes in can be, and that a person  *)
(* that MIDDLE keeps finding stays in its view, for every choice of        *)
(* periods, timeouts, delays and losses.                                   *)
(*                                                                         *)
(* The type invariant is part of the argument: that a datagram carries no  *)
(* evidence older than SentBound is its type.  A failing inference makes   *)
(* this more than the cache's own limit: freshness is judged by the time   *)
(* before the inference, so the result sent is older by its length, which  *)
(* InferenceOK bounds.  In the AEB runtime the evidence ages in step with  *)
(* the time since its arrival (EvidenceOK), until the timeout.             *)
(***************************************************************************)
EXTENDS Perception, TLAPS

InferenceOK == pc = "infer" => running /\ turnAge <= MaxInfer
EvidenceOK  == middle.person /\ middle.age <= MiddleTimeout
                  => middle.evidence <= SentBound + MaxDelay + middle.age

\* The type invariant in parts: the service, the network, the AEB runtime.
ServiceOK ==
    /\ running \in BOOLEAN /\ pc \in {"frame", "infer"}
    /\ turnAge \in 0 .. MaxTurn /\ count \in 0 .. DetectEvery - 1
    /\ cached \in BOOLEAN /\ inferAge \in 0 .. InferCap
NetOK    == net \subseteq Datagram /\ losses \in 0 .. MaxLoss
Middle   == [person : BOOLEAN, evidence : 0 .. EvidenceCap, age : 0 .. ArrivalCap]
MiddleOK == middle \in Middle
GoodOK   == goodAge \in 0 .. GoodCap

IInv == ServiceOK /\ NetOK /\ MiddleOK /\ GoodOK /\ InferenceOK /\ EvidenceOK

\* The parts are the type invariant.
LEMMA Parts == TypeOK <=> ServiceOK /\ NetOK /\ MiddleOK /\ GoodOK
BY DEF TypeOK, ServiceOK, NetOK, MiddleOK, Middle, GoodOK

\* The bounds are natural numbers.
LEMMA Bounds ==
    /\ SentBound \in Nat /\ EvidenceBound \in Nat /\ SettleBound \in Nat
    /\ InferCap \in Nat /\ EvidenceCap \in Nat /\ ArrivalCap \in Nat /\ GoodCap \in Nat
    /\ {MaxLoss, MaxDelay, MiddleTimeout, PersonStale, MaxInfer, MaxTurn, MinTurn} \subseteq Nat
<1>1. {MaxLoss, MaxDelay, MiddleTimeout, PersonStale, MaxInfer, MaxTurn, MinTurn} \subseteq Nat
  BY PerceptionAssumption
<1>2. (DetectEvery + MaxLoss + 1) * MaxTurn \in Nat
  BY <1>1, PerceptionAssumption
<1> QED
  BY <1>1, <1>2 DEF SentBound, EvidenceBound, SettleBound, InferCap, EvidenceCap,
                    ArrivalCap, GoodCap

\* A service that starts is in range.
LEMMA StartRange ==
    /\ MinTurn \in 0 .. MaxTurn /\ 0 \in 0 .. MaxTurn
    /\ 0 \in 0 .. DetectEvery - 1 /\ InferCap \in 0 .. InferCap
BY PerceptionAssumption, Bounds

\* A turn keeps the network's type when the evidence it sends is in bounds,
\* and the counter of frames in its range (PerceptionService.run).
LEMMA SendOK ==
  ASSUME NetOK, NEW person \in BOOLEAN, NEW evidence \in Nat,
         person => evidence <= SentBound, Send(person, evidence)
  PROVE  NetOK' /\ count' = NextCount
<1> DEFINE e == IF person THEN evidence ELSE 0
           p == [person |-> person, evidence |-> e, age |-> 0, delivered |-> FALSE]
<1>1. e \in 0 .. SentBound
  BY Bounds
<1>2. p \in Datagram
  BY <1>1, Bounds DEF Datagram
<1>3. net' \subseteq net \union {p}
  BY DEF Send
<1>4. losses' \in 0 .. MaxLoss
  BY Bounds DEF Send, NetOK
<1>5. net' \subseteq Datagram
  <2> HIDE DEF p
  <2> QED BY <1>2, <1>3 DEF NetOK
<1>6. count' = NextCount
  BY DEF Send
<1> QED BY <1>4, <1>5, <1>6 DEF NetOK

\* NextCount stays within a cycle of the detector.
LEMMA CountOK == ASSUME ServiceOK PROVE NextCount \in 0 .. DetectEvery - 1
BY PerceptionAssumption DEF ServiceOK, NextCount

\* Ages stop at their cap.
LEMMA CappedOK ==
  ASSUME NEW cap \in Nat, NEW age \in 0 .. cap
  PROVE  Capped(age, cap) \in 0 .. cap /\ Capped(age, cap) <= age + 1
BY DEF Capped

\* Init of both programs.
LEMMA InitOK == Init => IInv
<1> SUFFICES ASSUME Init PROVE IInv
  OBVIOUS
<1>1. ServiceOK /\ InferenceOK
  BY StartRange DEF Init, ServiceOK, InferenceOK
<1>2. NetOK /\ GoodOK
  BY Bounds DEF Init, NetOK, GoodOK
<1>3. MiddleOK /\ EvidenceOK
  BY Bounds DEF Init, Nothing, MiddleOK, Middle, EvidenceOK, ArrivalCap
<1> QED BY <1>1, <1>2, <1>3 DEF IInv

\* Turns of MIDDLE's service that send a datagram.
LEMMA TurnOK ==
  ASSUME IInv, PlainTurn \/ FailInference \/ \E person \in BOOLEAN : EndInference(person)
  PROVE  IInv'
<1>1. MiddleOK' /\ EvidenceOK'
  BY DEF PlainTurn, FailInference, EndInference, IInv, MiddleOK, EvidenceOK
<1>2. GoodOK'
  BY Bounds DEF PlainTurn, FailInference, EndInference, IInv, GoodOK
<1>3. CASE PlainTurn
  <2>1. FreshOrEmpty(inferAge) \in BOOLEAN /\ inferAge \in Nat
    BY Bounds DEF FreshOrEmpty, IInv, ServiceOK
  <2>2. FreshOrEmpty(inferAge) => inferAge <= SentBound
    BY <2>1, Bounds DEF FreshOrEmpty, SentBound
  <2>3. NetOK' /\ count' = NextCount
    BY <1>3, <2>1, <2>2, SendOK DEF PlainTurn, IInv
  <2>4. ServiceOK' /\ InferenceOK'
    BY <1>3, <2>3, CountOK, Bounds DEF PlainTurn, IInv, ServiceOK, InferenceOK
  <2> QED BY <1>1, <1>2, <2>3, <2>4 DEF IInv
<1>4. CASE FailInference
  <2>1. FreshOrEmpty(inferAge - turnAge) \in BOOLEAN /\ inferAge \in Nat /\ turnAge \in Nat
    BY Bounds DEF FreshOrEmpty, IInv, ServiceOK
  <2>2. turnAge <= MaxInfer
    BY <1>4 DEF FailInference, IInv, InferenceOK
  <2>3. FreshOrEmpty(inferAge - turnAge) => inferAge <= SentBound
    BY <2>1, <2>2, Bounds DEF FreshOrEmpty, SentBound
  <2>4. NetOK' /\ count' = NextCount
    BY <1>4, <2>1, <2>3, SendOK DEF FailInference, IInv
  <2>5. ServiceOK' /\ InferenceOK'
    BY <1>4, <2>4, CountOK, Bounds DEF FailInference, IInv, ServiceOK, InferenceOK
  <2> QED BY <1>1, <1>2, <2>4, <2>5 DEF IInv
<1>5. ASSUME NEW person \in BOOLEAN, EndInference(person) PROVE IInv'
  <2>1. turnAge \in Nat /\ turnAge <= MaxInfer
    BY <1>5, Bounds DEF EndInference, IInv, InferenceOK, ServiceOK
  <2>2. turnAge <= SentBound /\ turnAge \in 0 .. InferCap
    BY <2>1, Bounds DEF SentBound, InferCap
  <2>3. NetOK' /\ count' = NextCount
    BY <1>5, <2>1, <2>2, SendOK DEF EndInference, IInv
  <2>4. ServiceOK' /\ InferenceOK'
    BY <1>5, <2>2, <2>3, CountOK, Bounds DEF EndInference, IInv, ServiceOK, InferenceOK
  <2> QED BY <1>1, <1>2, <2>3, <2>4 DEF IInv
<1> QED BY <1>3, <1>4, <1>5

\* Steps of MIDDLE that send nothing.
LEMMA QuietOK ==
  ASSUME IInv, BeginInference \/ CameraFails \/ StopMiddle \/ StartMiddle
  PROVE  IInv'
<1>1. NetOK' /\ MiddleOK' /\ EvidenceOK'
  BY DEF BeginInference, CameraFails, StopMiddle, StartMiddle,
         IInv, NetOK, MiddleOK, EvidenceOK
<1>2. GoodOK'
  BY Bounds DEF BeginInference, CameraFails, StopMiddle, StartMiddle, IInv, GoodOK
<1>3. CASE BeginInference \/ CameraFails
  BY <1>1, <1>2, <1>3, Bounds
     DEF BeginInference, CameraFails, Due, IInv, ServiceOK, InferenceOK
<1>4. CASE StopMiddle \/ StartMiddle
  <2>1. ServiceOK' /\ InferenceOK'
    BY <1>4, StartRange DEF StopMiddle, StartMiddle, Started, ServiceOK, InferenceOK
  <2> QED BY <1>1, <1>2, <2>1 DEF IInv
<1> QED BY <1>3, <1>4

\* The AEB runtime takes a datagram, whichever it is (hpvc_aeb.py, main).
LEMMA TakeOK == ASSUME IInv, NEW p \in net, AebTakes(p) PROVE IInv'
<1>1. p \in Datagram
  BY DEF IInv, NetOK
<1>2. p.person \in BOOLEAN /\ p.evidence \in 0 .. SentBound /\ p.age \in 0 .. MaxDelay
  BY <1>1 DEF Datagram
<1>3. NetOK'
  BY <1>1 DEF AebTakes, IInv, NetOK, Datagram
<1>4. p.evidence + p.age \in 0 .. EvidenceCap
  BY <1>2, Bounds DEF EvidenceCap, EvidenceBound
<1>5. MiddleOK'
  BY <1>2, <1>4, Bounds DEF AebTakes, MiddleOK, Middle
<1>6. EvidenceOK'
  BY <1>2, Bounds DEF AebTakes, EvidenceOK
<1> QED
  BY <1>3, <1>5, <1>6
     DEF AebTakes, service, IInv, ServiceOK, InferenceOK, GoodOK

\* Time passes.
LEMMA TickOK == ASSUME IInv, Tick PROVE IInv'
<1>1. ServiceOK' /\ InferenceOK'
  <2>1. inferAge' \in 0 .. InferCap
    BY CappedOK, Bounds DEF Tick, IInv, ServiceOK
  <2>2. turnAge' \in 0 .. MaxTurn
    BY Bounds, PerceptionAssumption DEF Tick, IInv, ServiceOK
  <2>3. InferenceOK'
    BY Bounds DEF Tick, IInv, ServiceOK, InferenceOK
  <2> QED BY <2>1, <2>2, <2>3 DEF Tick, IInv, ServiceOK
<1>2. NetOK'
  <2>1. ASSUME NEW q \in net, q.age < MaxDelay
        PROVE  [q EXCEPT !.age = @ + 1] \in Datagram
    <3>1. q \in Datagram
      BY DEF IInv, NetOK
    <3>2. q.age + 1 \in 0 .. MaxDelay
      BY <2>1, <3>1, Bounds DEF Datagram
    <3> QED BY <3>1, <3>2 DEF Datagram
  <2> QED BY <2>1 DEF Tick, IInv, NetOK
<1>3. /\ middle.person \in BOOLEAN
      /\ middle.evidence \in 0 .. EvidenceCap
      /\ middle.age \in 0 .. ArrivalCap
  BY DEF IInv, MiddleOK, Middle
<1>4. /\ Capped(middle.evidence, EvidenceCap) \in 0 .. EvidenceCap
      /\ Capped(middle.evidence, EvidenceCap) <= middle.evidence + 1
      /\ Capped(middle.age, ArrivalCap) \in 0 .. ArrivalCap
  BY <1>3, CappedOK, Bounds
<1>5. /\ middle'.person = middle.person
      /\ middle'.evidence = IF middle.person THEN Capped(middle.evidence, EvidenceCap) ELSE 0
      /\ middle'.age = Capped(middle.age, ArrivalCap)
  BY DEF Tick
<1>6. MiddleOK'
  BY <1>3, <1>4, Bounds DEF Tick, MiddleOK, Middle
<1>7. EvidenceOK'
  <2> SUFFICES ASSUME middle.person, middle'.age <= MiddleTimeout
               PROVE  middle'.evidence <= SentBound + MaxDelay + middle'.age
    BY <1>5 DEF EvidenceOK
  <2>1. middle'.age = middle.age + 1
    BY <1>3, <1>5, Bounds DEF Capped, ArrivalCap
  <2>2. middle.evidence <= SentBound + MaxDelay + middle.age
    BY <1>3, <2>1, Bounds DEF IInv, EvidenceOK
  <2> QED BY <1>3, <1>4, <1>5, <2>1, <2>2, Bounds
<1>8. GoodOK'
  BY CappedOK, Bounds DEF Tick, IInv, GoodOK
<1> QED BY <1>1, <1>2, <1>6, <1>7, <1>8 DEF IInv

\* Every step keeps the invariant.
LEMMA NextOK == IInv /\ [Next]_vars => IInv'
<1> SUFFICES ASSUME IInv, [Next]_vars PROVE IInv'
  OBVIOUS
<1>1. CASE UNCHANGED vars
  BY <1>1 DEF vars, service, IInv, ServiceOK, NetOK, MiddleOK, GoodOK, InferenceOK, EvidenceOK
<1> QED BY <1>1, TurnOK, QuietOK, TakeOK, TickOK DEF Next

\* The state of MIDDLE's service, the network and the AEB runtime stays typed;
\* no datagram ever carries evidence older than cache and inference allow.
THEOREM TypeCorrect == Spec => []TypeOK
<1>1. IInv => TypeOK
  BY Parts DEF IInv
<1> QED BY InitOK, NextOK, <1>1, PTL DEF Spec

\* The AEB runtime never acts on a person whose frame is older than the cache,
\* the inference, the network and its own timeout together allow, in whatever
\* order, how often and how late the datagrams come.
THEOREM OldPersonsForgotten == Spec => []PersonForgotten
<1>1. IInv => PersonForgotten
  <2> SUFFICES ASSUME IInv, middle.person, middle.age <= MiddleTimeout
               PROVE  middle.evidence <= EvidenceBound
    BY DEF PersonForgotten, PersonInPath
  <2>1. middle.evidence \in Nat /\ middle.age \in Nat
    BY Bounds DEF IInv, MiddleOK, Middle
  <2> QED BY <2>1, Bounds DEF IInv, EvidenceOK, EvidenceBound
<1> QED BY InitOK, NextOK, <1>1, PTL DEF Spec

-----------------------------------------------------------------------------
(***************************************************************************)
(* PersonHeld.  Two accounts are kept: of the time since the last          *)
(* inference, in turns (Since), and of the time since a datagram last got  *)
(* through, in lost turns (Unheard).  While every inference finds a person *)
(* the first one bounds the cache's age, so that from the first inference  *)
(* on every datagram says so; the second one bounds the wait for such a    *)
(* datagram.  What was sent before ages in the network (OldNews).          *)
(***************************************************************************)

\* The turns since the last inference began, before turn c, or in inference.
SinceAt(p, c) ==
    IF p = "infer" THEN DetectEvery * MaxTurn
    ELSE IF c = 0 THEN (DetectEvery - 1) * MaxTurn ELSE (c - 1) * MaxTurn

Since == SinceAt(pc, count)

\* The turns since a datagram last got through, n turns in a row having lost
\* theirs.
UnheardAt(t, n, p) == t + n * MaxTurn + (IF p = "infer" THEN MaxTurn ELSE 0)

Unheard == UnheardAt(turnAge, losses, pc)

\* The longest time between two datagrams that get through, and the time after
\* which nothing from before is left.
Gap   == (MaxLoss + 1) * MaxTurn + MaxInfer
Clear == DetectEvery * MaxTurn + MaxDelay

\* The cache holds a person from the last inference that was due.
Fresh == cached /\ inferAge <= turnAge + Since

\* A datagram of q with a person is on its way, and accounts for the age a.
OnItsWay(q, a) == \E p \in q : p.person /\ ~p.delivered /\ a <= p.age + Gap

\* What the AEB runtime holds is from a datagram that the next one will replace
\* in time ...
Current == middle.person /\ (middle.age <= Unheard \/ OnItsWay(net, middle.age))

\* ... or the first such datagram is still to come.
Waiting == goodAge <= Clear + Unheard \/ OnItsWay(net, goodAge - Clear)

OldNews == \A p \in net : p.person \/ goodAge <= p.age + (DetectEvery - 1) * MaxTurn

HeldInv ==
    /\ ~running => goodAge = 0
    /\ Fresh \/ goodAge <= turnAge + Since
    /\ OldNews
    /\ Current \/ Waiting

\* Longer multiples of a turn are longer.
LEMMA ProductGrows ==
  ASSUME NEW r \in Nat, NEW a \in Nat, NEW b \in Nat, a <= b
  PROVE  a * r \in Nat /\ b * r \in Nat /\ a * r <= b * r
<1>1. PICK c \in Nat : b = a + c
  <2>1. b - a \in Nat /\ b = a + (b - a)
    OBVIOUS
  <2> QED BY <2>1
<1>2. c * r \in Nat /\ a * r \in Nat
  OBVIOUS
<1>3. b * r = a * r + c * r
  BY <1>1
<1> QED BY <1>2, <1>3

\* One more turn.
LEMMA OneMore ==
  ASSUME NEW a \in Nat
  PROVE  a * MaxTurn \in Nat /\ (a + 1) * MaxTurn = a * MaxTurn + MaxTurn
<1>1. MaxTurn \in Nat
  BY Bounds
<1> QED BY <1>1

\* The times that the bounds are made of.
LEMMA Times ==
    /\ DetectEvery * MaxTurn \in Nat /\ (DetectEvery - 1) * MaxTurn \in Nat
    /\ (DetectEvery - 1) * MaxTurn + MaxTurn = DetectEvery * MaxTurn
    /\ (DetectEvery - 1) * MaxTurn <= PersonStale
    /\ Gap \in Nat /\ Clear \in Nat
    /\ Clear = DetectEvery * MaxTurn + MaxDelay
    /\ Gap + MaxDelay <= MiddleTimeout
    /\ SettleBound = Clear + Gap + MaxDelay
<1>1. /\ DetectEvery - 1 \in Nat /\ DetectEvery \in Nat /\ MaxLoss + 1 \in Nat
      /\ MaxTurn \in Nat /\ MaxDelay \in Nat /\ MaxInfer \in Nat
  BY PerceptionAssumption, Bounds
<1>2. (DetectEvery - 1) * MaxTurn \in Nat /\ (MaxLoss + 1) * MaxTurn \in Nat
  BY <1>1, OneMore
<1>3. ((DetectEvery - 1) + 1) * MaxTurn = (DetectEvery - 1) * MaxTurn + MaxTurn
  BY <1>1, OneMore
<1>4. (DetectEvery - 1) + 1 = DetectEvery
  BY <1>1
<1>5. (DetectEvery - 1) * MaxTurn + MaxTurn = DetectEvery * MaxTurn
  BY <1>3, <1>4
<1>6. (DetectEvery + MaxLoss + 1) * MaxTurn = DetectEvery * MaxTurn + (MaxLoss + 1) * MaxTurn
  BY <1>1, Bounds
<1>7. DetectEvery * MaxTurn \in Nat
  BY <1>1, <1>2, <1>5
<1> HIDE <1>3, <1>4
<1> QED BY <1>1, <1>2, <1>5, <1>6, <1>7, PerceptionAssumption DEF Gap, Clear, SettleBound

\* A turn's number gives the time since the last inference.
LEMMA SinceRange ==
  ASSUME NEW c \in 0 .. DetectEvery - 1
  PROVE  /\ \A p \in {"frame", "infer"} : SinceAt(p, c) \in Nat
         /\ SinceAt("frame", c) <= (DetectEvery - 1) * MaxTurn
         /\ SinceAt("infer", c) = DetectEvery * MaxTurn
         /\ c # 0 => /\ SinceAt("frame", (c + 1) % DetectEvery) = SinceAt("frame", c) + MaxTurn
                     /\ SinceAt("frame", c) + MaxTurn <= (DetectEvery - 1) * MaxTurn
<1>1. DetectEvery \in Nat /\ DetectEvery > 0
  BY PerceptionAssumption
<1>2. SinceAt("infer", c) = DetectEvery * MaxTurn
  BY DEF SinceAt
<1>3. CASE c = 0
  BY <1>2, <1>3, Times DEF SinceAt
<1>4. CASE c # 0
  <2>1. c \in Nat /\ c - 1 \in Nat /\ c <= DetectEvery - 1 /\ DetectEvery - 1 \in Nat
    BY <1>1, <1>4
  <2>2. SinceAt("frame", c) = (c - 1) * MaxTurn
    BY <1>4 DEF SinceAt
  <2>3. (c - 1) * MaxTurn \in Nat /\ c * MaxTurn = (c - 1) * MaxTurn + MaxTurn
    <3>1. (c - 1) + 1 = c
      BY <2>1
    <3> QED BY <2>1, <3>1, OneMore
  <2>4. c * MaxTurn <= (DetectEvery - 1) * MaxTurn
    BY <2>1, ProductGrows, Bounds
  <2>5. SinceAt("frame", (c + 1) % DetectEvery) = c * MaxTurn
    <3>1. CASE c + 1 < DetectEvery
      <4>1. (c + 1) % DetectEvery = c + 1 /\ c + 1 # 0 /\ (c + 1) - 1 = c
        BY <1>1, <2>1, <3>1
      <4> QED BY <4>1 DEF SinceAt
    <3>2. CASE c + 1 = DetectEvery
      <4>1. (c + 1) % DetectEvery = 0 /\ DetectEvery - 1 = c
        BY <1>1, <2>1, <3>2
      <4> QED BY <4>1 DEF SinceAt
    <3> QED BY <1>1, <2>1, <3>1, <3>2
  <2>6. \A p \in {"frame", "infer"} : SinceAt(p, c) \in Nat
    BY <1>2, <2>2, <2>3, Times
  <2>7. SinceAt("frame", (c + 1) % DetectEvery) = SinceAt("frame", c) + MaxTurn
    BY <2>2, <2>3, <2>5
  <2>8. SinceAt("frame", c) + MaxTurn <= (DetectEvery - 1) * MaxTurn
    BY <2>2, <2>3, <2>4
  <2>9. SinceAt("frame", c) <= (DetectEvery - 1) * MaxTurn
    BY <2>6, <2>8, Bounds, Times
  <2> QED BY <1>2, <2>6, <2>7, <2>8, <2>9
<1> QED BY <1>3, <1>4

\* The time without a datagram stays below Gap while an inference takes its
\* time at most; a turn that loses its datagram is accounted for.
LEMMA UnheardRange ==
  ASSUME NEW t \in Nat, NEW n \in 0 .. MaxLoss
  PROVE  /\ UnheardAt(t, n, "frame") \in Nat /\ UnheardAt(t, n, "infer") \in Nat
         /\ t <= MaxTurn => UnheardAt(t, n, "frame") <= Gap
         /\ t <= MaxInfer => UnheardAt(t, n, "infer") <= Gap
         /\ UnheardAt(t, n, "infer") = UnheardAt(t, n + 1, "frame")
         /\ t <= MaxTurn => /\ UnheardAt(t, n, "frame") <= UnheardAt(0, n + 1, "frame")
                            /\ UnheardAt(t, n, "frame") <= UnheardAt(0, n, "infer")
         /\ \A p \in {"frame", "infer"} : UnheardAt(t + 1, n, p) = UnheardAt(t, n, p) + 1
<1> DEFINE w == n * MaxTurn
<1>1. MaxTurn \in Nat /\ MaxInfer \in Nat /\ n \in Nat /\ MaxLoss \in Nat
  BY Bounds
<1>2. w \in Nat /\ (n + 1) * MaxTurn = w + MaxTurn
  BY <1>1, OneMore
<1>3. w + MaxTurn + MaxInfer <= Gap
  <2>1. (n + 1) * MaxTurn <= (MaxLoss + 1) * MaxTurn /\ (MaxLoss + 1) * MaxTurn \in Nat
    BY <1>1, ProductGrows
  <2> QED BY <1>1, <1>2, <2>1 DEF Gap
<1>4. \A u \in Nat : /\ UnheardAt(u, n, "frame") = u + w
                     /\ UnheardAt(u, n, "infer") = u + w + MaxTurn
                     /\ UnheardAt(u, n + 1, "frame") = u + w + MaxTurn
  BY <1>1, <1>2 DEF UnheardAt
<1>5. t + 1 \in Nat /\ 0 \in Nat /\ Gap \in Nat
  BY Times
<1> HIDE DEF w
<1> QED BY <1>1, <1>2, <1>3, <1>4, <1>5

\* What is known of the accounts in each place of the loop.
AccountsOK ==
    /\ Since \in Nat /\ Unheard \in Nat /\ Unheard <= Gap
    /\ turnAge \in Nat /\ inferAge \in Nat /\ goodAge \in Nat
    /\ middle.age \in Nat /\ losses \in 0 .. MaxLoss
    /\ pc = "frame" => Since = SinceAt("frame", count) /\ turnAge <= MaxTurn
    /\ pc = "infer" => turnAge <= MaxInfer

\* In an inference turnAge is its length, at most MaxInfer.
LEMMA Accounts == IInv => AccountsOK
<1> SUFFICES ASSUME IInv PROVE AccountsOK
  OBVIOUS
<1>1. /\ turnAge \in Nat /\ inferAge \in Nat /\ turnAge <= MaxTurn
      /\ count \in 0 .. DetectEvery - 1 /\ pc \in {"frame", "infer"}
  BY Bounds DEF IInv, ServiceOK
<1>2. losses \in 0 .. MaxLoss /\ goodAge \in Nat /\ middle.age \in Nat
  BY Bounds DEF IInv, NetOK, GoodOK, MiddleOK, Middle
<1>3. pc = "infer" => turnAge <= MaxInfer
  BY DEF IInv, InferenceOK
<1>4. Since \in Nat /\ (pc = "frame" => Since = SinceAt("frame", count))
  BY <1>1, SinceRange DEF Since
<1>5. Unheard \in Nat /\ Unheard <= Gap
  <2>1. Unheard = UnheardAt(turnAge, losses, pc)
    BY DEF Unheard
  <2>2. CASE pc = "frame"
    BY <1>1, <1>2, <2>1, <2>2, UnheardRange
  <2>3. CASE pc = "infer"
    BY <1>1, <1>2, <1>3, <2>1, <2>3, UnheardRange
  <2> QED BY <1>1, <2>2, <2>3
<1> QED BY <1>1, <1>2, <1>3, <1>4, <1>5 DEF AccountsOK

\* A datagram's age is a natural number.
LEMMA Ages == ASSUME IInv, NEW p \in net
              PROVE  p.age \in Nat /\ p.age <= MaxDelay
BY Bounds DEF IInv, NetOK, Datagram

\* While nothing has been accounted for, nothing is owed.
LEMMA NothingOwed == IInv /\ goodAge = 0 => HeldInv
<1> SUFFICES ASSUME IInv, goodAge = 0 PROVE HeldInv
  OBVIOUS
<1>1. goodAge <= turnAge + Since
  BY Accounts DEF AccountsOK
<1>2. OldNews
  BY Ages, Times DEF OldNews
<1>3. Waiting
  <2>1. goodAge <= Clear + Unheard
    BY Accounts, Times DEF AccountsOK
  <2> QED BY <2>1 DEF Waiting
<1> QED BY <1>1, <1>2, <1>3 DEF HeldInv

\* What is on its way stays so when the network carries more.
LEMMA StillOnItsWay ==
  ASSUME NEW q, NEW r, q \subseteq r, NEW a, OnItsWay(q, a)
  PROVE  OnItsWay(r, a)
BY DEF OnItsWay

\* A step that ends the camera's or the detector's good time owes nothing.
LEMMA ResetHeld ==
  ASSUME IInv, IInv',
         \/ FailInference \/ CameraFails \/ StopMiddle \/ EndInference(FALSE)
         \/ ~running /\ goodAge = 0 /\ (StartMiddle \/ Tick)
  PROVE  HeldInv'
<1>1. goodAge' = 0
  BY DEF FailInference, CameraFails, StopMiddle, EndInference, StartMiddle, Tick
<1>2. (IInv /\ goodAge = 0 => HeldInv)'
  BY NothingOwed, PTL
<1> QED BY <1>1, <1>2

\* A turn's datagram gets through, or one more has been lost in a row.  Either
\* it says that a person is there, or the good time is that short.
LEMMA SendHeld ==
  ASSUME IInv, HeldInv, IInv', NEW person \in BOOLEAN, NEW evidence,
         Send(person, evidence), UNCHANGED <<middle, goodAge>>, pc' = "frame",
         person \/ goodAge <= (DetectEvery - 1) * MaxTurn,
         Unheard <= UnheardAt(turnAge', losses + 1, "frame")
  PROVE  OldNews' /\ (Current' \/ Waiting')
<1>a. AccountsOK /\ AccountsOK'
  <2>1. AccountsOK'
    BY Accounts, PTL
  <2> QED BY <2>1, Accounts
<1>1. CASE UNCHANGED net /\ losses' = losses + 1
  <2>1. Unheard <= Unheard'
    BY <1>1 DEF Unheard
  <2>2. OldNews'
    BY <1>1 DEF HeldInv, OldNews
  <2>3. Current => Current'
    <3>1. CASE middle.age <= Unheard
      BY <1>a, <2>1, <3>1 DEF Current, AccountsOK
    <3>2. CASE OnItsWay(net, middle.age)
      BY <1>1, <3>2 DEF Current
    <3> QED BY <3>1, <3>2 DEF Current
  <2>4. Waiting => Waiting'
    <3>1. CASE goodAge <= Clear + Unheard
      BY <1>a, <2>1, <3>1, Times DEF Waiting, AccountsOK
    <3>2. CASE OnItsWay(net, goodAge - Clear)
      BY <1>1, <3>2 DEF Waiting
    <3> QED BY <3>1, <3>2 DEF Waiting
  <2> QED BY <2>2, <2>3, <2>4 DEF HeldInv
<1>2. ASSUME NEW d, d.person = person, d.age = 0, d.delivered = FALSE,
             net' = net \union {d}
      PROVE  OldNews' /\ (Current' \/ Waiting')
  <2>1. \A a \in Int : OnItsWay(net, a) => OnItsWay(net', a)
    BY <1>2, StillOnItsWay
  <2>2. OldNews'
    BY <1>2, Times DEF HeldInv, OldNews
  <2>3. CASE person
    <3>1. \A a \in Int : a <= Gap => OnItsWay(net', a)
      <4>1. d \in net' /\ d.person /\ ~d.delivered
        BY <1>2, <2>3
      <4>2. \A a \in Int : a <= Gap => a <= d.age + Gap
        BY <1>2, Times
      <4> QED BY <4>1, <4>2, Zenon DEF OnItsWay
    <3>2. Current => Current'
      BY <1>a, <2>1, <3>1, Times DEF Current, AccountsOK
    <3>3. Waiting => OnItsWay(net', goodAge - Clear)
      BY <1>a, <2>1, <3>1, Times DEF Waiting, AccountsOK
    <3> QED BY <2>2, <3>2, <3>3 DEF HeldInv, Waiting
  <2>4. CASE ~person
    <3>1. goodAge' <= Clear + Unheard'
      BY <1>a, <2>4, Times, Bounds DEF AccountsOK
    <3> QED BY <2>2, <3>1 DEF Waiting
  <2> QED BY <2>3, <2>4
<1>3. CASE /\ net' = net \union {[person |-> person,
                                  evidence |-> IF person THEN evidence ELSE 0,
                                  age |-> 0, delivered |-> FALSE]}
           /\ losses' = 0
  BY <1>2, <1>3
<1> QED BY <1>1, <1>3 DEF Send

\* A turn without an inference: a fresh result is reused, because the cache
\* outlives the turns between two inferences.
LEMMA PlainTurnHeld == ASSUME IInv, HeldInv, IInv', PlainTurn PROVE HeldInv'
<1>1. /\ pc = "frame" /\ pc' = "frame" /\ count # 0 /\ count \in 0 .. DetectEvery - 1
      /\ count' = (count + 1) % DetectEvery /\ turnAge' = 0 /\ running
      /\ UNCHANGED <<running, cached, inferAge, middle, goodAge>>
      /\ Send(FreshOrEmpty(inferAge), inferAge)
  BY DEF PlainTurn, Due, Send, NextCount, IInv, ServiceOK
<1>2. AccountsOK
  BY Accounts
<1>3. /\ Since + MaxTurn <= (DetectEvery - 1) * MaxTurn
      /\ turnAge + Since <= turnAge' + Since'
      /\ turnAge + Since <= (DetectEvery - 1) * MaxTurn
  <2>1. Since = SinceAt("frame", count) /\ turnAge <= MaxTurn
    BY <1>1, <1>2 DEF AccountsOK
  <2>2. Since' = Since + MaxTurn
    BY <1>1, <2>1, SinceRange DEF Since
  <2>3. Since + MaxTurn <= (DetectEvery - 1) * MaxTurn
    BY <1>1, <2>1, SinceRange
  <2> QED BY <1>1, <1>2, <2>1, <2>2, <2>3, Bounds, Times DEF AccountsOK
<1>4. Fresh => FreshOrEmpty(inferAge)
  <2>1. inferAge <= turnAge + Since => inferAge <= PersonStale
    BY <1>2, <1>3, Times, Bounds DEF AccountsOK
  <2> QED BY <2>1 DEF Fresh, FreshOrEmpty
<1>5. FreshOrEmpty(inferAge) \/ goodAge <= (DetectEvery - 1) * MaxTurn
  <2>1. goodAge <= turnAge + Since => goodAge <= (DetectEvery - 1) * MaxTurn
    BY <1>2, <1>3, Times DEF AccountsOK
  <2> QED BY <1>4, <2>1 DEF HeldInv
<1>6. FreshOrEmpty(inferAge) \in BOOLEAN
  BY DEF FreshOrEmpty, IInv, ServiceOK
<1>7. Unheard <= UnheardAt(turnAge', losses + 1, "frame")
  BY <1>1, <1>2, UnheardRange DEF AccountsOK, Unheard
<1>8. OldNews' /\ (Current' \/ Waiting')
  BY <1>1, <1>5, <1>6, <1>7, SendHeld
<1>9. Fresh' \/ goodAge' <= turnAge' + Since'
  <2>1. AccountsOK'
    BY Accounts, PTL
  <2>2. inferAge <= turnAge + Since => inferAge' <= turnAge' + Since'
    BY <1>1, <1>2, <1>3, <2>1 DEF AccountsOK
  <2>3. goodAge <= turnAge + Since => goodAge' <= turnAge' + Since'
    BY <1>1, <1>2, <1>3, <2>1 DEF AccountsOK
  <2> QED BY <1>1, <2>2, <2>3 DEF HeldInv, Fresh
<1> QED BY <1>1, <1>8, <1>9 DEF HeldInv

\* An inference begins: one more turn has gone by.
LEMMA BeginHeld == ASSUME IInv, HeldInv, IInv', BeginInference PROVE HeldInv'
<1>1. /\ pc = "frame" /\ pc' = "infer" /\ count = 0 /\ turnAge' = 0 /\ running
      /\ UNCHANGED <<running, count, cached, inferAge, net, losses, middle, goodAge>>
  BY DEF BeginInference, Due
<1>2. AccountsOK /\ AccountsOK'
  <2>1. AccountsOK'
    BY Accounts, PTL
  <2> QED BY <2>1, Accounts
<1>3. turnAge + Since <= turnAge' + Since'
  <2>1. 0 \in 0 .. DetectEvery - 1
    BY StartRange
  <2>2. Since = SinceAt("frame", 0) /\ turnAge <= MaxTurn /\ Since' = SinceAt("infer", 0)
    BY <1>1, <1>2 DEF AccountsOK, Since
  <2>3. Since <= (DetectEvery - 1) * MaxTurn /\ Since' = DetectEvery * MaxTurn
    BY <2>1, <2>2, SinceRange
  <2> QED BY <1>1, <1>2, <2>2, <2>3, Bounds, Times DEF AccountsOK
<1>4. Unheard <= Unheard'
  BY <1>1, <1>2, UnheardRange DEF AccountsOK, Unheard
<1>5. Fresh' \/ goodAge' <= turnAge' + Since'
  <2>0. turnAge + Since \in Nat /\ turnAge' + Since' \in Nat
    <3>1. turnAge \in Nat /\ Since \in Nat
      BY <1>2 DEF AccountsOK
    <3>2. turnAge' \in Nat /\ Since' \in Nat
      BY <1>2 DEF AccountsOK
    <3>3. \A a, b \in Nat : a + b \in Nat
      OBVIOUS
    <3> QED BY <3>1, <3>2, <3>3, Zenon
  <2>1. inferAge \in Nat /\ goodAge \in Nat /\ inferAge' = inferAge /\ goodAge' = goodAge
    BY <1>1, <1>2 DEF AccountsOK
  <2>2. \A x, y, g \in Nat : x <= y /\ g <= x => g <= y
    OBVIOUS
  <2>3. /\ inferAge <= turnAge + Since => inferAge' <= turnAge' + Since'
        /\ goodAge <= turnAge + Since => goodAge' <= turnAge' + Since'
    BY <1>3, <2>0, <2>1, <2>2, Zenon
  <2> QED BY <1>1, <2>3 DEF HeldInv, Fresh
<1>6. Current => Current'
  <2>1. middle.age <= Unheard => middle'.age <= Unheard'
    BY <1>1, <1>2, <1>4 DEF AccountsOK
  <2>2. OnItsWay(net, middle.age) => OnItsWay(net', middle'.age)
    BY <1>1
  <2> QED BY <1>1, <2>1, <2>2, Zenon DEF Current
<1>7. Waiting => Waiting'
  <2>1. goodAge <= Clear + Unheard => goodAge' <= Clear + Unheard'
    BY <1>1, <1>2, <1>4, Times DEF AccountsOK
  <2>2. OnItsWay(net, goodAge - Clear) => OnItsWay(net', goodAge' - Clear)
    BY <1>1
  <2> QED BY <2>1, <2>2, Zenon DEF Waiting
<1>8. OldNews'
  BY <1>1 DEF HeldInv, OldNews
<1> QED BY <1>1, <1>5, <1>6, <1>7, <1>8 DEF HeldInv

\* An inference that finds the person fills the cache.
LEMMA EndHeld == ASSUME IInv, HeldInv, IInv', EndInference(TRUE) PROVE HeldInv'
<1>1. /\ running /\ running' /\ pc = "infer" /\ pc' = "frame" /\ cached' = TRUE
      /\ inferAge' = turnAge /\ turnAge' = turnAge /\ Send(TRUE, turnAge)
      /\ UNCHANGED <<middle, goodAge>>
  BY DEF EndInference
<1>2. AccountsOK /\ AccountsOK'
  <2>1. AccountsOK'
    BY Accounts, PTL
  <2> QED BY <2>1, Accounts
<1>3. Unheard <= UnheardAt(turnAge', losses + 1, "frame")
  BY <1>1, <1>2, UnheardRange DEF AccountsOK, Unheard
<1>4. OldNews' /\ (Current' \/ Waiting')
  BY <1>1, <1>3, SendHeld
<1>5. Fresh'
  <2>1. inferAge' <= turnAge' + Since'
    BY <1>1, <1>2 DEF AccountsOK
  <2> QED BY <1>1, <2>1 DEF Fresh
<1> QED BY <1>1, <1>4, <1>5 DEF HeldInv

\* The AEB runtime takes a datagram: the person, or a datagram from before the
\* good time, which cannot be old then.
LEMMA TakeHeld == ASSUME IInv, HeldInv, IInv', NEW p \in net, AebTakes(p) PROVE HeldInv'
<1>1. /\ net' = (net \ {p}) \union {[p EXCEPT !.delivered = TRUE]}
      /\ middle'.person = p.person /\ middle'.age = 0
      /\ UNCHANGED <<running, pc, turnAge, count, cached, inferAge, losses, goodAge>>
  BY DEF AebTakes, service
<1>2. AccountsOK /\ AccountsOK'
  <2>1. AccountsOK'
    BY Accounts, PTL
  <2> QED BY <2>1, Accounts
<1>3. OldNews'
  <2>1. [p EXCEPT !.delivered = TRUE].person = p.person
    BY DEF IInv, NetOK, Datagram
  <2>2. [p EXCEPT !.delivered = TRUE].age = p.age
    BY DEF IInv, NetOK, Datagram
  <2>3. ASSUME NEW q \in net'
        PROVE  \E r \in net : q.person = r.person /\ q.age = r.age
    BY <1>1, <2>1, <2>2
  <2>4. ASSUME NEW q \in net' PROVE q.person \/ goodAge' <= q.age + (DetectEvery - 1) * MaxTurn
    <3>1. PICK r \in net : q.person = r.person /\ q.age = r.age
      BY <2>3, <2>4
    <3>2. r.person \/ goodAge <= r.age + (DetectEvery - 1) * MaxTurn
      BY DEF HeldInv, OldNews
    <3> QED BY <1>1, <3>1, <3>2
  <2> QED BY <2>4 DEF OldNews
<1>4. CASE p.person
  <2>1. middle'.age <= Unheard'
    BY <1>1, <1>2 DEF AccountsOK
  <2>2. Current'
    BY <1>1, <1>4, <2>1 DEF Current
  <2> QED BY <1>1, <1>3, <2>2 DEF HeldInv, Fresh, Since
<1>5. CASE ~p.person
  <2>1. goodAge <= p.age + (DetectEvery - 1) * MaxTurn
    BY <1>5 DEF HeldInv, OldNews
  <2>2. goodAge' <= Clear + Unheard'
    BY <1>1, <1>2, <2>1, Ages, Times, Bounds DEF AccountsOK
  <2>3. Waiting'
    BY <2>2 DEF Waiting
  <2> QED BY <1>1, <1>3, <2>3 DEF HeldInv, Fresh, Since
<1> QED BY <1>4, <1>5

\* Time passes in a running service: every account grows at least as fast as
\* what it accounts for, and what is on its way is not too old to survive.
LEMMA TickHeld == ASSUME IInv, HeldInv, IInv', running, Tick PROVE HeldInv'
<1>1. /\ turnAge' = turnAge + 1 /\ running' /\ UNCHANGED <<pc, count, cached, losses>>
      /\ middle'.person = middle.person /\ middle'.age = Capped(middle.age, ArrivalCap)
      /\ goodAge' = Capped(goodAge, GoodCap) /\ inferAge' = Capped(inferAge, InferCap)
      /\ net' = {[p EXCEPT !.age = @ + 1] : p \in {q \in net : q.age < MaxDelay}}
      /\ \A p \in net : p.age = MaxDelay => p.delivered
  BY DEF Tick
<1>2. AccountsOK /\ AccountsOK'
  <2>1. AccountsOK'
    BY Accounts, PTL
  <2> QED BY <2>1, Accounts
<1>3. middle'.age <= middle.age + 1 /\ goodAge' <= goodAge + 1 /\ inferAge' <= inferAge + 1
  <2>1. \A cap, age \in Nat : Capped(age, cap) <= age + 1 \/ age > cap
    BY DEF Capped
  <2>2. middle.age <= ArrivalCap /\ goodAge <= GoodCap /\ inferAge <= InferCap
    BY Bounds DEF IInv, MiddleOK, Middle, GoodOK, ServiceOK
  <2> QED BY <1>1, <1>2, <2>1, <2>2, Bounds DEF AccountsOK
<1>4. Since' = Since /\ Unheard' = Unheard + 1
  <2>1. Since' = Since
    BY <1>1 DEF Since
  <2>2. pc \in {"frame", "infer"}
    BY DEF IInv, ServiceOK
  <2>3. Unheard' = Unheard + 1
    BY <1>1, <1>2, <2>2, UnheardRange DEF AccountsOK, Unheard
  <2> QED BY <2>1, <2>3
<1>5. ASSUME NEW p \in net, p.age < MaxDelay
      PROVE  LET r == [p EXCEPT !.age = @ + 1]
             IN  /\ r \in net' /\ r.age = p.age + 1
                 /\ r.person = p.person /\ r.delivered = p.delivered
  BY <1>1, <1>5 DEF IInv, NetOK, Datagram
<1>6. ASSUME NEW a \in Int, NEW b \in Int, b <= a + 1, OnItsWay(net, a)
      PROVE  OnItsWay(net', b)
  <2>1. PICK p \in net : p.person /\ ~p.delivered /\ a <= p.age + Gap
    BY <1>6 DEF OnItsWay
  <2>2. p.age \in Nat /\ p.age < MaxDelay
    BY <1>1, <2>1, Ages, Bounds
  <2>3. PICK r \in net' : r.age = p.age + 1 /\ r.person = p.person /\ r.delivered = p.delivered
    BY <1>5, <2>2
  <2>4. b <= r.age + Gap
    BY <1>6, <2>1, <2>2, <2>3, Times
  <2>5. r.person /\ ~r.delivered
    BY <2>1, <2>3
  <2> QED BY <2>4, <2>5 DEF OnItsWay
<1>7. OldNews'
  <2>1. ASSUME NEW q \in net' PROVE q.person \/ goodAge' <= q.age + (DetectEvery - 1) * MaxTurn
    <3>1. PICK p \in net : q.age = p.age + 1 /\ q.person = p.person
      BY <1>1, <1>5, <2>1
    <3>2. p.person \/ goodAge <= p.age + (DetectEvery - 1) * MaxTurn
      BY DEF HeldInv, OldNews
    <3>3. goodAge <= p.age + (DetectEvery - 1) * MaxTurn
          => goodAge' <= q.age + (DetectEvery - 1) * MaxTurn
      BY <1>2, <1>3, <3>1, Ages, Times DEF AccountsOK
    <3> QED BY <3>1, <3>2, <3>3
  <2> QED BY <2>1 DEF OldNews
<1>8. Fresh' \/ goodAge' <= turnAge' + Since'
  <2>1. inferAge <= turnAge + Since => inferAge' <= turnAge' + Since'
    BY <1>1, <1>2, <1>3, <1>4 DEF AccountsOK
  <2>2. goodAge <= turnAge + Since => goodAge' <= turnAge' + Since'
    BY <1>1, <1>2, <1>3, <1>4 DEF AccountsOK
  <2> QED BY <1>1, <2>1, <2>2 DEF HeldInv, Fresh
<1>9. Current => Current'
  <2>1. middle.age <= Unheard => middle'.age <= Unheard'
    BY <1>2, <1>3, <1>4 DEF AccountsOK
  <2>2. OnItsWay(net, middle.age) => OnItsWay(net', middle'.age)
    BY <1>2, <1>3, <1>6 DEF AccountsOK
  <2> QED BY <1>1, <2>1, <2>2, Zenon DEF Current
<1>10. Waiting => Waiting'
  <2>1. goodAge <= Clear + Unheard => goodAge' <= Clear + Unheard'
    BY <1>2, <1>3, <1>4, Times DEF AccountsOK
  <2>2. OnItsWay(net, goodAge - Clear) => OnItsWay(net', goodAge' - Clear)
    BY <1>2, <1>3, <1>6, Times DEF AccountsOK
  <2> QED BY <2>1, <2>2, Zenon DEF Waiting
<1> QED BY <1>1, <1>7, <1>8, <1>9, <1>10 DEF HeldInv

\* Every step keeps the accounts.
LEMMA NextHeld == IInv /\ HeldInv /\ [Next]_vars => HeldInv'
<1> SUFFICES ASSUME IInv, HeldInv, [Next]_vars PROVE HeldInv'
  OBVIOUS
<1>1. IInv'
  BY NextOK
<1>2. CASE UNCHANGED vars
  BY <1>2 DEF vars, service, HeldInv, Fresh, Since, OldNews, Current, Waiting, Unheard
<1>3. CASE StartMiddle
  <2>1. ~running /\ goodAge = 0
    BY <1>3 DEF StartMiddle, HeldInv
  <2> QED BY <1>1, <1>3, <2>1, ResetHeld
<1>4. CASE Tick
  <2>1. running \/ (~running /\ goodAge = 0)
    BY DEF HeldInv
  <2> QED BY <1>1, <1>4, <2>1, TickHeld, ResetHeld
<1>5. ASSUME NEW person \in BOOLEAN, EndInference(person) PROVE HeldInv'
  <2>1. person = TRUE \/ person = FALSE
    OBVIOUS
  <2> QED BY <1>1, <1>5, <2>1, EndHeld, ResetHeld
<1>6. CASE FailInference \/ CameraFails \/ StopMiddle
  BY <1>1, <1>6, ResetHeld
<1> QED
  BY <1>1, <1>2, <1>3, <1>4, <1>5, <1>6, PlainTurnHeld, BeginHeld, TakeHeld DEF Next

\* What the accounts come to once they are longer than the time to settle.
LEMMA HeldEnough == IInv /\ HeldInv => PersonHeld
<1> SUFFICES ASSUME IInv, HeldInv, goodAge > SettleBound PROVE PersonInPath
  BY DEF PersonHeld
<1>1. AccountsOK
  BY Accounts
<1>2. ASSUME NEW a \in Int, OnItsWay(net, a) PROVE a <= Gap + MaxDelay
  <2>1. PICK p \in net : a <= p.age + Gap
    BY <1>2 DEF OnItsWay
  <2> QED BY <1>2, <2>1, Ages, Times, Bounds
<1>3. ~Waiting
  <2>1. ~(goodAge <= Clear + Unheard)
    BY <1>1, Times, Bounds DEF AccountsOK
  <2>2. ~OnItsWay(net, goodAge - Clear)
    BY <1>1, <1>2, Times, Bounds DEF AccountsOK
  <2> QED BY <2>1, <2>2 DEF Waiting
<1>4. Current
  BY <1>3 DEF HeldInv
<1>5. middle.age <= MiddleTimeout
  <2>1. middle.age <= Unheard => middle.age <= MiddleTimeout
    BY <1>1, Times, Bounds DEF AccountsOK
  <2>2. OnItsWay(net, middle.age) => middle.age <= MiddleTimeout
    BY <1>1, <1>2, Times, Bounds DEF AccountsOK
  <2> QED BY <1>4, <2>1, <2>2 DEF Current
<1> QED BY <1>4, <1>5 DEF Current, PersonInPath

\* A person that every inference finds stays in the AEB runtime's view: reuse of
\* the detector's last result, lost datagrams, an inference that holds up the
\* next one and an overtaken old one leave no gap in it after SettleBound.
THEOREM PersonStays == Spec => []PersonHeld
<1>1. Init => HeldInv
  <2>1. Init => goodAge = 0
    BY DEF Init
  <2> QED BY <2>1, InitOK, NothingOwed
<1> QED BY InitOK, NextOK, <1>1, NextHeld, HeldEnough, PTL DEF Spec
=============================================================================
