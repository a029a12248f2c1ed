-------------------------- MODULE MiddleLinkProofs --------------------------
(***************************************************************************)
(* Proofs about MiddleLink: the type invariant, OnlyNewerRefreshes and     *)
(* RestartRecovers, for every period, delay, burst of losses, timeout and  *)
(* width of the sequence number.                                           *)
(*                                                                         *)
(* OnlyNewerRefreshes rests on the order of what is in flight: sequence    *)
(* numbers follow ages (InOrder, ByAge), and a datagram no newer than the  *)
(* last one accepted carries a number at or behind lastSequence and has    *)
(* outlived the acceptance (Passed), so that neither the comparison nor    *)
(* the resynchronisation takes it for new.  RestartRecovers counts the     *)
(* publications since the monitor began to accept any other number         *)
(* (Awaiting).                                                             *)
(***************************************************************************)
EXTENDS MiddleLink, TLAPS

\* How far number n is behind the next one to be published.
Behind(n) == WordSub(sequence, n)

\* A datagram is at least as old as the publications since it took.
InOrder ==
    \A p \in net : /\ Behind(p.sequence) >= 1
                   /\ Behind(p.sequence) - 1 + sincePublish <= p.age

\* Of two datagrams the one with the later number is the younger one.
ByAge == \A p, q \in net : p.age < q.age <=> Behind(p.sequence) < Behind(q.sequence)

\* A datagram published no later than the last one accepted.
Passed ==
    \A p \in net : ~p.newer
       => /\ initialized
          /\ freshAge <= p.age
          /\ Behind(lastSequence) >= 1
          /\ Behind(lastSequence) <= Behind(p.sequence)

\* Whatever is newer than the last one accepted is younger than the rest.
NewerYounger == \A p, q \in net : ~p.newer /\ q.newer => q.age < p.age

OrderInv == InOrder /\ ByAge /\ Passed /\ NewerYounger /\ OnlyNewerRefreshes

\* The monitor has accepted any other number for at most t, or MIDDLE runs for
\* at most t.
Waited(t) == freshAge <= RestartResync + t \/ upAge <= t

\* The time of a burst of losses with the datagram after it.
Burst == (MaxLoss + 1) * MaxPeriod

\* The publications lost in a row, after the one that carried lastSequence if
\* that was the last one to get through.
Wasted ==
    losses * MaxPeriod + (IF Behind(lastSequence) = losses + 1 THEN Burst ELSE 0)

\* While MIDDLE runs, the time the monitor has waited is accounted for by lost
\* publications, or a datagram that will end the wait is on its way.
Awaiting ==
    running => \/ Waited(sincePublish + Wasted)
               \/ \E p \in net : /\ ~p.delivered /\ p.sequence # lastSequence
                                 /\ Waited(p.age + 2 * Burst)

IInv == TypeOK /\ OrderInv /\ Awaiting

-----------------------------------------------------------------------------
(***************************************************************************)
(* Numbers.                                                                *)
(***************************************************************************)

\* Longer multiples of a period are longer.
LEMMA ProductGrows ==
  ASSUME NEW r \in Nat, NEW a \in Nat, NEW b \in Nat, a <= b
  PROVE  a * r \in Nat /\ b * r \in Nat /\ a * r <= b * r
<1>1. PICK c \in Nat : b = a + c
  <2>1. b - a \in Nat /\ b = a + (b - a)
    OBVIOUS
  <2> QED BY <2>1
<1>2. c * r \in Nat /\ a * r \in Nat
  OBVIOUS
<1>3. b * r = a * r + c * r
  BY <1>1
<1> QED BY <1>2, <1>3

\* The numbers the constants give.
LEMMA Bounds ==
  /\ HalfWord \in Nat /\ HalfWord > 0 /\ WordSize = 2 * HalfWord /\ Words = 0 .. WordSize - 1
  /\ MinPeriod \in Nat /\ MinPeriod > 0 /\ MaxPeriod \in Nat /\ MinPeriod <= MaxPeriod
  /\ MaxLoss \in Nat /\ MaxLoss < HalfWord /\ MaxDelay \in Nat /\ MaxDelay < HalfWord
  /\ RestartResync \in Nat /\ MaxDelay < RestartResync
  /\ Burst \in Nat
  /\ OutageBound = RestartResync + 2 * Burst + MaxDelay
  /\ AgeCap = OutageBound + 1 /\ AgeCap \in Nat /\ Ages = 0 .. AgeCap
<1>1. /\ HalfWord \in Nat /\ HalfWord > 0
      /\ MinPeriod \in Nat /\ MinPeriod > 0 /\ MaxPeriod \in Nat /\ MinPeriod <= MaxPeriod
      /\ MaxLoss \in Nat /\ MaxLoss < HalfWord /\ MaxDelay \in Nat /\ MaxDelay < HalfWord
      /\ Timeout \in Nat /\ RestartFloor \in Nat /\ MaxDelay < RestartFloor
  BY HalfWordAssumption, LinkAssumption
<1>2. RestartResync \in Nat /\ MaxDelay < RestartResync
  BY <1>1 DEF RestartResync
<1>3. Burst \in Nat
  BY <1>1, ProductGrows DEF Burst
<1>4. 2 * (MaxLoss + 1) * MaxPeriod = 2 * Burst
  BY <1>1 DEF Burst
<1>5. OutageBound = RestartResync + 2 * Burst + MaxDelay
  BY <1>4 DEF OutageBound
<1>6. AgeCap = OutageBound + 1 /\ AgeCap \in Nat /\ Ages = 0 .. AgeCap
  BY <1>1, <1>2, <1>3, <1>5 DEF AgeCap, Ages
<1> QED BY <1>1, <1>2, <1>3, <1>5, <1>6 DEF WordSize, Words

\* Lost publications fill at most a burst.
LEMMA LossTime ==
  ASSUME NEW n \in 0 .. MaxLoss
  PROVE  /\ n * MaxPeriod \in Nat
         /\ (n + 1) * MaxPeriod = n * MaxPeriod + MaxPeriod
         /\ (n + 1) * MaxPeriod <= Burst
<1>1. n \in Nat /\ n + 1 \in Nat /\ n + 1 <= MaxLoss + 1 /\ MaxLoss + 1 \in Nat /\ MaxPeriod \in Nat
  BY Bounds
<1>2. (n + 1) * MaxPeriod <= (MaxLoss + 1) * MaxPeriod
  BY <1>1, ProductGrows
<1>3. n * MaxPeriod \in Nat
  BY <1>1, ProductGrows
<1>4. (n + 1) * MaxPeriod = n * MaxPeriod + MaxPeriod
  BY <1>1
<1> QED BY <1>2, <1>3, <1>4 DEF Burst

\* Distances between sequence numbers.
LEMMA Distance ==
  ASSUME NEW s \in Words, NEW a \in Words, NEW b \in Words
  PROVE  /\ WordSub(s, a) \in Words
         /\ NextSequence(s) \in Words
         /\ WordSub(NextSequence(s), s) = 1
         /\ WordSub(s, a) < WordSize - 1 => WordSub(NextSequence(s), a) = WordSub(s, a) + 1
         /\ WordSub(s, a) = 0 <=> s = a
         /\ WordSub(s, a) = WordSub(s, b) => a = b
         /\ WordSub(s, a) <= WordSub(s, b) /\ WordSub(s, b) - WordSub(s, a) < HalfWord
              => ~sequenceNewer(b, a)
<1>1. /\ WordSub(s, a) \in Words /\ NextSequence(s) \in Words
      /\ WordSub(NextSequence(s), s) = 1
      /\ WordSub(s, a) < WordSize - 1 => WordSub(NextSequence(s), a) = WordSub(s, a) + 1
      /\ WordSub(s, a) = 0 <=> s = a
      /\ WordSub(s, a) = WordSub(s, b) => a = b
  BY Bounds DEF WordSub, WordAdd, NextSequence
<1>2. ASSUME WordSub(s, a) <= WordSub(s, b), WordSub(s, b) - WordSub(s, a) < HalfWord
      PROVE  ~sequenceNewer(b, a)
  <2>1. b = a \/ WordSub(b, a) >= HalfWord
    BY <1>2, Bounds DEF WordSub
  <2>2. b = a => WordSub(b, a) = 0
    BY Bounds DEF WordSub
  <2>3. WordSub(b, a) \in Nat
    BY Bounds DEF WordSub
  <2> QED BY <2>1, <2>2, <2>3, Bounds DEF sequenceNewer
<1> QED BY <1>1, <1>2

\* A saturating age.
LEMMA OlderAge ==
  ASSUME NEW a \in Ages
  PROVE  Older(a) \in Ages /\ Older(a) <= a + 1 /\ a \in Nat /\ Older(a) \in Nat
BY Bounds DEF Older

\* Types of the parts.
LEMMA Parts ==
  ASSUME TypeOK
  PROVE  /\ sequence \in Words /\ lastSequence \in Words
         /\ sincePublish \in Nat /\ sincePublish <= MaxPeriod
         /\ upAge \in Ages /\ freshAge \in Ages /\ upAge \in Nat /\ freshAge \in Nat
         /\ losses \in 0 .. MaxLoss
         /\ \A p \in net : /\ p \in Datagram
                           /\ p.sequence \in Words /\ p.age \in Nat /\ p.age <= MaxDelay
                           /\ p.delivered \in BOOLEAN /\ p.newer \in BOOLEAN
<1>1. /\ sequence \in Words /\ lastSequence \in Words
      /\ sincePublish \in Nat /\ sincePublish <= MaxPeriod
      /\ upAge \in Ages /\ freshAge \in Ages
      /\ losses \in 0 .. MaxLoss /\ net \subseteq Datagram
  BY Bounds DEF TypeOK
<1>2. upAge \in Nat /\ freshAge \in Nat
  BY <1>1, Bounds
<1>3. \A p \in Datagram : /\ p.sequence \in Words /\ p.age \in Nat /\ p.age <= MaxDelay
                          /\ p.delivered \in BOOLEAN /\ p.newer \in BOOLEAN
  BY Bounds DEF Datagram
<1> QED BY <1>1, <1>2, <1>3

\* What is in flight is at most MaxDelay publications behind the last one.
LEMMA BehindRange ==
  ASSUME TypeOK, InOrder, NEW p \in net
  PROVE  /\ Behind(p.sequence) \in Nat /\ Behind(p.sequence) >= 1
         /\ Behind(p.sequence) <= MaxDelay + 1
<1>1. Behind(p.sequence) \in Words /\ Behind(p.sequence) >= 1
  BY Parts, Distance DEF Behind, InOrder
<1>2. Behind(p.sequence) - 1 + sincePublish <= p.age /\ p.age <= MaxDelay
  BY Parts DEF InOrder
<1>3. Behind(p.sequence) \in Nat
  BY <1>1, Bounds
<1> QED BY <1>1, <1>2, <1>3, Parts, Bounds

-----------------------------------------------------------------------------
(***************************************************************************)
(* The steps.                                                              *)
(***************************************************************************)

\* MIDDLE runs, nothing is in flight, nothing has been accepted.
LEMMA InitIInv == Init => IInv
<1> SUFFICES ASSUME Init PROVE IInv
  OBVIOUS
<1>1. TypeOK
  <2>1. /\ 0 \in Words /\ MinPeriod \in 0 .. MaxPeriod /\ 0 \in Ages /\ 0 \in 0 .. MaxLoss
        /\ {} \subseteq Datagram
    BY Bounds
  <2>2. {running, initialized, replayed} \subseteq BOOLEAN
    BY DEF Init
  <2> QED BY <2>1, <2>2 DEF Init, TypeOK
<1>2. OrderInv
  BY DEF Init, OrderInv, InOrder, ByAge, Passed, NewerYounger, OnlyNewerRefreshes
<1>3. Waited(sincePublish + Wasted)
  <2>1. sincePublish \in Nat /\ Wasted \in Nat /\ freshAge = 0
    <3>1. losses * MaxPeriod \in Nat /\ sincePublish \in Nat
      BY <1>1, Parts, LossTime
    <3> QED BY <3>1, Bounds DEF Wasted, Init
  <2> QED BY <2>1, Bounds DEF Waited
<1> QED BY <1>1, <1>2, <1>3 DEF IInv, Awaiting

\* The time accounted for is a natural number, and it is at most two bursts.
LEMMA WastedRange ==
  ASSUME TypeOK
  PROVE  /\ Wasted \in Nat
         /\ losses * MaxPeriod \in Nat
         /\ sincePublish + Wasted <= 2 * Burst
<1>1. /\ losses * MaxPeriod \in Nat
      /\ losses * MaxPeriod + MaxPeriod <= Burst
  BY Parts, LossTime
<1>2. sincePublish \in Nat /\ sincePublish <= MaxPeriod
  BY Parts
<1> DEFINE lost == losses * MaxPeriod
<1>3. Wasted = lost \/ Wasted = lost + Burst
  <2>1. lost + 0 = lost
    BY <1>1
  <2> QED BY <2>1 DEF Wasted
<1> HIDE DEF lost
<1> QED BY <1>1, <1>2, <1>3, Bounds DEF lost

\* Publish: the new datagram is the youngest and has the latest number; those
\* in flight fall behind by one.
LEMMA PublishOrder == ASSUME IInv, Publish PROVE TypeOK' /\ OrderInv'
<1>1. /\ running /\ sincePublish >= MinPeriod
      /\ sequence' = NextSequence(sequence) /\ sincePublish' = 0
      /\ running' = running /\ upAge' = upAge /\ initialized' = initialized
      /\ lastSequence' = lastSequence /\ freshAge' = freshAge /\ replayed' = replayed
  BY DEF Publish, monitor
<1>2. TypeOK /\ InOrder /\ ByAge /\ Passed /\ NewerYounger /\ ~replayed
  BY DEF IInv, OrderInv, OnlyNewerRefreshes
<1>3. PICK new :
         /\ new = [sequence |-> sequence, age |-> 0, delivered |-> FALSE, newer |-> TRUE]
         /\ \/ net' = net \union {new} /\ losses' = 0
            \/ net' = net /\ losses < MaxLoss /\ losses' = losses + 1
  BY DEF Publish
<1>4. new \in Datagram
  BY <1>2, <1>3, Parts, Bounds DEF Datagram
<1>5. /\ new.sequence = sequence /\ new.age = 0 /\ new.newer = TRUE
  BY <1>3
<1>6. losses' \in 0 .. MaxLoss
  BY <1>2, <1>3, Parts, Bounds
<1>7. TypeOK'
  <2>1. sequence' \in Words
    BY <1>1, <1>2, Parts, Distance
  <2>2. net' \subseteq Datagram
    BY <1>2, <1>3, <1>4 DEF TypeOK
  <2>3. sincePublish' \in 0 .. MaxPeriod
    BY <1>1, Bounds
  <2> QED BY <1>1, <1>2, <1>6, <2>1, <2>2, <2>3 DEF TypeOK
<1>8. ASSUME NEW p \in net
      PROVE  /\ Behind(p.sequence) \in Nat /\ Behind(p.sequence) >= 1
             /\ Behind(p.sequence) <= p.age /\ p.age \in Nat /\ p.age >= 1
             /\ Behind(p.sequence) < WordSize - 1
             /\ Behind(p.sequence)' = Behind(p.sequence) + 1
  <2>1. Behind(p.sequence) \in Nat /\ Behind(p.sequence) >= 1
    BY <1>2, BehindRange
  <2>2. Behind(p.sequence) - 1 + sincePublish <= p.age
    BY <1>2 DEF InOrder
  <2>3. p.age \in Nat /\ p.age <= MaxDelay /\ sincePublish \in Nat
    BY <1>2, Parts
  <2>4. Behind(p.sequence) <= p.age /\ p.age >= 1 /\ Behind(p.sequence) < WordSize - 1
    BY <1>1, <2>1, <2>2, <2>3, Bounds
  <2>5. Behind(p.sequence)' = Behind(p.sequence) + 1
    BY <1>1, <1>2, <2>4, Parts, Distance DEF Behind
  <2> QED BY <2>1, <2>3, <2>4, <2>5
<1>9. Behind(new.sequence)' = 1
  BY <1>1, <1>2, <1>5, Parts, Distance DEF Behind
<1>10. InOrder'
  <2>1. SUFFICES ASSUME NEW p \in net'
                 PROVE  Behind(p.sequence)' >= 1 /\ Behind(p.sequence)' - 1 + 0 <= p.age
    BY <1>1 DEF InOrder
  <2>2. CASE p \in net
    BY <1>8, <2>2
  <2>3. CASE p = new
    BY <1>5, <1>9, <2>3
  <2> QED BY <1>3, <2>1, <2>2, <2>3
<1>11. ByAge'
  <2>1. SUFFICES ASSUME NEW p \in net', NEW q \in net'
                 PROVE  p.age < q.age <=> Behind(p.sequence)' < Behind(q.sequence)'
    BY DEF ByAge
  <2>2. CASE p \in net /\ q \in net
    <3>1. p.age < q.age <=> Behind(p.sequence) < Behind(q.sequence)
      BY <1>2, <2>2 DEF ByAge
    <3> QED BY <1>8, <2>2, <3>1
  <2>3. CASE p \in net /\ q = new
    BY <1>5, <1>8, <1>9, <2>3
  <2>4. CASE p = new /\ q \in net
    BY <1>5, <1>8, <1>9, <2>4
  <2>5. CASE p = new /\ q = new
    BY <1>5, <1>9, <2>5
  <2> QED BY <1>3, <2>1, <2>2, <2>3, <2>4, <2>5
<1>12. Passed'
  <2>1. SUFFICES ASSUME NEW p \in net', ~p.newer
                 PROVE  /\ initialized /\ freshAge <= p.age
                        /\ Behind(lastSequence)' >= 1
                        /\ Behind(lastSequence)' <= Behind(p.sequence)'
    BY <1>1 DEF Passed
  <2>2. p \in net
    BY <1>3, <1>5, <2>1
  <2>3. /\ initialized /\ freshAge <= p.age /\ Behind(lastSequence) >= 1
        /\ Behind(lastSequence) <= Behind(p.sequence)
    BY <1>2, <2>1, <2>2 DEF Passed
  <2>4. lastSequence \in Words /\ sequence \in Words /\ Behind(lastSequence) \in Nat
    BY <1>2, Parts, Distance, Bounds DEF Behind
  <2>5. Behind(lastSequence) < WordSize - 1
    BY <1>8, <2>2, <2>3, <2>4, Bounds
  <2>6. Behind(lastSequence)' = Behind(lastSequence) + 1
    BY <1>1, <2>4, <2>5, Distance DEF Behind
  <2> QED BY <1>8, <2>2, <2>3, <2>4, <2>6
<1>13. NewerYounger'
  <2>1. SUFFICES ASSUME NEW p \in net', NEW q \in net', ~p.newer, q.newer
                 PROVE  q.age < p.age
    BY DEF NewerYounger
  <2>2. p \in net
    BY <1>3, <1>5, <2>1
  <2>3. CASE q \in net
    BY <1>2, <2>1, <2>2, <2>3 DEF NewerYounger
  <2>4. CASE q = new
    BY <1>5, <1>8, <2>2, <2>4
  <2> QED BY <1>3, <2>3, <2>4
<1> QED BY <1>1, <1>2, <1>7, <1>10, <1>11, <1>12, <1>13 DEF OrderInv, OnlyNewerRefreshes

\* Publish: a datagram that gets through will end the wait, unless it carries
\* lastSequence; one that is lost, or carries lastSequence, uses up its period.
LEMMA PublishAwaits == ASSUME IInv, Publish PROVE Awaiting'
<1>1. /\ running /\ sequence' = NextSequence(sequence) /\ sincePublish' = 0
      /\ upAge' = upAge /\ lastSequence' = lastSequence /\ freshAge' = freshAge
  BY DEF Publish, monitor
<1>2. TypeOK /\ Awaiting
  BY DEF IInv
<1>3. PICK new :
         /\ new = [sequence |-> sequence, age |-> 0, delivered |-> FALSE, newer |-> TRUE]
         /\ \/ net' = net \union {new} /\ losses' = 0
            \/ net' = net /\ losses < MaxLoss /\ losses' = losses + 1
  BY DEF Publish
<1>4. \A t : Waited(t)' <=> Waited(t)
  BY <1>1 DEF Waited
<1>5. \A t, u \in Nat : t <= u /\ Waited(t) => Waited(u)
  BY <1>2, Parts, Bounds DEF Waited
<1>6. CASE \E p \in net : /\ ~p.delivered /\ p.sequence # lastSequence
                          /\ Waited(p.age + 2 * Burst)
  <2>1. PICK p \in net : /\ ~p.delivered /\ p.sequence # lastSequence
                         /\ Waited(p.age + 2 * Burst)
    BY <1>6
  <2>2. p \in net'
    BY <1>3
  <2>3. Waited(p.age + 2 * Burst)'
    BY <1>4, <2>1
  <2> QED BY <1>1, <2>1, <2>2, <2>3 DEF Awaiting
<1>7. CASE Waited(sincePublish + Wasted)
  <2>1. /\ sequence \in Words /\ lastSequence \in Words /\ losses \in 0 .. MaxLoss
        /\ sincePublish \in Nat /\ sincePublish <= MaxPeriod
    BY <1>2, Parts
  <2>2. /\ losses * MaxPeriod \in Nat /\ (losses + 1) * MaxPeriod = losses * MaxPeriod + MaxPeriod
        /\ (losses + 1) * MaxPeriod <= Burst
    BY <2>1, LossTime
  <2>3. Wasted \in Nat /\ sincePublish + Wasted <= 2 * Burst
    BY <1>2, WastedRange
  <2> DEFINE gap  == Behind(lastSequence)
             lost == losses * MaxPeriod
  <2>4. gap \in Words /\ (gap < WordSize - 1 => gap' = gap + 1) /\ (gap = 0 <=> sequence = lastSequence)
    BY <1>1, <2>1, Distance DEF Behind
  <2>5. Wasted = lost + (IF gap = losses + 1 THEN Burst ELSE 0)
    BY DEF Wasted
  <2>6. losses + 1 < WordSize
    BY <2>1, Bounds
  <2> HIDE DEF gap, lost
  <2>7. CASE net' = net /\ losses < MaxLoss /\ losses' = losses + 1
    <3>1. Wasted' = (losses + 1) * MaxPeriod + (IF gap' = losses + 2 THEN Burst ELSE 0)
      <4>1. losses' + 1 = losses + 2
        BY <2>1, <2>7
      <4> QED BY <2>7, <4>1 DEF Wasted, gap
    <3>2. gap = losses + 1 => gap' = losses + 2
      BY <2>1, <2>4, <2>7, Bounds
    <3>3. Wasted' \in Nat /\ sincePublish + Wasted <= Wasted'
      BY <2>1, <2>2, <2>5, <3>1, <3>2, Bounds DEF lost
    <3>4. sincePublish + Wasted \in Nat /\ 0 + Wasted' \in Nat /\ sincePublish + Wasted <= 0 + Wasted'
      <4>1. sincePublish \in Nat /\ Wasted \in Nat /\ Wasted' \in Nat
        BY <2>1, <2>3, <3>3
      <4>2. \A a, b, c \in Nat :
               a + b <= c => a + b \in Nat /\ 0 + c \in Nat /\ a + b <= 0 + c
        OBVIOUS
      <4> QED BY <3>3, <4>1, <4>2
    <3>5. Waited(0 + Wasted')
      BY <1>5, <1>7, <3>4
    <3>6. Waited(sincePublish + Wasted)'
      BY <1>1, <3>5 DEF Waited
    <3> QED BY <3>6 DEF Awaiting
  <2>8. CASE net' = net \union {new} /\ losses' = 0 /\ sequence # lastSequence
    <3>1. new \in net' /\ new.delivered = FALSE /\ new.sequence = sequence /\ new.age = 0
      BY <1>3, <2>8
    <3>2. Waited(0 + 2 * Burst)
      BY <1>5, <1>7, <2>1, <2>3, Bounds
    <3>3. Waited(new.age + 2 * Burst)'
      BY <1>1, <3>1, <3>2 DEF Waited
    <3> QED BY <1>1, <2>8, <3>1, <3>3 DEF Awaiting
  <2>9. CASE net' = net \union {new} /\ losses' = 0 /\ sequence = lastSequence
    <3>1. gap = 0 /\ gap' = 1
      BY <2>4, <2>9, Bounds
    <3>2. Wasted = lost
      BY <2>1, <2>2, <2>5, <3>1 DEF lost
    <3>3. Wasted' = Burst
      <4>1. 0 * MaxPeriod + Burst = Burst /\ 0 + 1 = 1
        BY Bounds
      <4> QED BY <2>9, <3>1, <4>1 DEF Wasted, gap
    <3>4. sincePublish + Wasted \in Nat /\ 0 + Wasted' \in Nat /\ sincePublish + Wasted <= 0 + Wasted'
      BY <2>1, <2>2, <3>2, <3>3, Bounds DEF lost
    <3>5. Waited(0 + Wasted')
      BY <1>5, <1>7, <3>4
    <3>6. Waited(sincePublish + Wasted)'
      BY <1>1, <3>5 DEF Waited
    <3> QED BY <3>6 DEF Awaiting
  <2> QED BY <1>3, <2>7, <2>8, <2>9
<1> QED BY <1>1, <1>2, <1>6, <1>7 DEF Awaiting

\* MIDDLE stops: the datagrams and the monitor stay as they are.
LEMMA StopStep == ASSUME IInv, StopMiddle PROVE IInv'
<1>1. /\ running' = FALSE /\ sequence' = sequence /\ sincePublish' = sincePublish
      /\ upAge' = upAge /\ net' = net /\ losses' = losses /\ initialized' = initialized
      /\ lastSequence' = lastSequence /\ freshAge' = freshAge /\ replayed' = replayed
  BY DEF StopMiddle, monitor
<1>2. TypeOK'
  BY <1>1 DEF IInv, TypeOK
<1>3. OrderInv'
  BY <1>1 DEF IInv, OrderInv, InOrder, ByAge, Passed, NewerYounger, OnlyNewerRefreshes, Behind
<1> QED BY <1>1, <1>2, <1>3 DEF IInv, Awaiting

\* MIDDLE starts: the network is empty, and a new wait begins.
LEMMA StartStep == ASSUME IInv, StartMiddle PROVE IInv'
<1>1. /\ running' = TRUE /\ sequence' = 0 /\ sincePublish' = MinPeriod
      /\ upAge' = 0 /\ net' = {} /\ losses' = losses /\ initialized' = initialized
      /\ lastSequence' = lastSequence /\ freshAge' = freshAge /\ replayed' = replayed
  BY DEF StartMiddle, monitor
<1>2. TypeOK'
  <2>1. 0 \in Words /\ MinPeriod \in 0 .. MaxPeriod /\ 0 \in Ages
    BY Bounds
  <2> QED BY <1>1, <2>1 DEF IInv, TypeOK
<1>3. OrderInv'
  BY <1>1 DEF IInv, OrderInv, InOrder, ByAge, Passed, NewerYounger, OnlyNewerRefreshes
<1>4. Waited(sincePublish + Wasted)'
  <2>1. losses * MaxPeriod \in Nat
    BY LossTime DEF IInv, TypeOK
  <2>2. Wasted' \in Nat
    <3>1. losses' * MaxPeriod \in Nat
      BY <1>1, <2>1
    <3> QED BY <3>1, Bounds DEF Wasted
  <2>3. \A a, b \in Nat : 0 <= a + b
    OBVIOUS
  <2>4. 0 <= MinPeriod + Wasted'
    BY <2>2, <2>3, Bounds
  <2> QED BY <1>1, <2>4 DEF Waited
<1> QED BY <1>2, <1>3, <1>4 DEF IInv, Awaiting

\* The monitor never takes a datagram for new that it has passed.
LEMMA PassedRejected ==
  ASSUME TypeOK, InOrder, Passed, NEW p \in net, ~p.newer
  PROVE  ~Accepts(p.sequence)
<1>1. /\ initialized /\ freshAge <= p.age /\ Behind(lastSequence) >= 1
      /\ Behind(lastSequence) <= Behind(p.sequence)
  BY DEF Passed
<1>2. freshAge < RestartResync
  BY <1>1, Parts, Bounds
<1>3. /\ Behind(p.sequence) \in Nat /\ Behind(p.sequence) <= MaxDelay + 1
      /\ p.sequence \in Words /\ lastSequence \in Words /\ sequence \in Words
  BY BehindRange, Parts
<1>4. Behind(lastSequence) \in Nat
  <2>1. Behind(lastSequence) \in Words
    BY <1>3, Distance DEF Behind
  <2> QED BY <2>1, Bounds
<1>5. Behind(p.sequence) - Behind(lastSequence) < HalfWord
  BY <1>1, <1>3, <1>4, Bounds
<1>6. ~sequenceNewer(p.sequence, lastSequence)
  BY <1>1, <1>3, <1>5, Distance DEF Behind
<1>7. ~(freshAge >= RestartResync)
  BY <1>2, Parts, Bounds
<1> QED BY <1>1, <1>6, <1>7 DEF Accepts

\* middleLinkMonitor is called with a datagram.
LEMMA DeliverStep == ASSUME IInv, NEW p \in net, Deliver(p) PROVE IInv'
<1>1. PICK accept \in BOOLEAN : accept = Accepts(p.sequence)
  <2>1. Accepts(p.sequence) \in BOOLEAN
    BY DEF Accepts, sequenceNewer
  <2> QED BY <2>1
<1>2. /\ net' = {[q EXCEPT !.delivered = @ \/ q = p,
                           !.newer = @ /\ ~(accept /\ q.age >= p.age)] : q \in net}
      /\ replayed' = (replayed \/ (accept /\ ~p.newer))
      /\ running' = running /\ sequence' = sequence /\ sincePublish' = sincePublish
      /\ upAge' = upAge /\ losses' = losses
  BY <1>1 DEF Deliver, sender
<1>3. accept => initialized' = TRUE /\ lastSequence' = p.sequence /\ freshAge' = 0
  BY <1>1 DEF Deliver
<1>4. ~accept => /\ initialized' = initialized /\ lastSequence' = lastSequence
                 /\ freshAge' = freshAge
  BY <1>1 DEF Deliver, monitor
<1>5. TypeOK /\ InOrder /\ ByAge /\ Passed /\ NewerYounger /\ Awaiting /\ replayed = FALSE
  BY DEF IInv, OrderInv, OnlyNewerRefreshes, TypeOK
<1>6. accept => p.newer
  BY <1>1, <1>5, PassedRejected
<1> DEFINE Image(q) == [q EXCEPT !.delivered = @ \/ q = p,
                                 !.newer = @ /\ ~(accept /\ q.age >= p.age)]
<1>7. ASSUME NEW q \in net
      PROVE  /\ Image(q) \in Datagram
             /\ Image(q).sequence = q.sequence /\ Image(q).age = q.age
             /\ Image(q).delivered = (q.delivered \/ q = p)
             /\ Image(q).newer = (q.newer /\ ~(accept /\ q.age >= p.age))
  <2>1. q \in Datagram
    BY <1>5, Parts
  <2> QED BY <2>1 DEF Datagram
<1>8. net' = {Image(q) : q \in net}
  BY <1>2
<1> HIDE DEF Image
<1>9. \A x \in net' : \E q \in net : x = Image(q)
  BY <1>8
<1>10. TypeOK'
  <2>1. net' \subseteq Datagram
    BY <1>7, <1>9
  <2>2. freshAge' \in Ages /\ lastSequence' \in Words
    BY <1>3, <1>4, <1>5, Parts, Bounds
  <2>3. initialized' \in BOOLEAN /\ replayed' \in BOOLEAN
    BY <1>2, <1>3, <1>4, <1>5 DEF TypeOK
  <2> QED BY <1>2, <1>5, <2>1, <2>2, <2>3 DEF TypeOK
<1>12. InOrder'
  <2>1. SUFFICES ASSUME NEW x \in net'
                 PROVE  Behind(x.sequence)' >= 1
                        /\ Behind(x.sequence)' - 1 + sincePublish' <= x.age
    BY DEF InOrder
  <2>2. PICK q \in net : x = Image(q)
    BY <1>9
  <2> QED BY <1>2, <1>5, <1>7, <2>2 DEF InOrder, Behind
<1>13. ByAge'
  <2>1. SUFFICES ASSUME NEW x \in net', NEW y \in net'
                 PROVE  x.age < y.age <=> Behind(x.sequence)' < Behind(y.sequence)'
    BY DEF ByAge
  <2>2. PICK q \in net : x = Image(q)
    BY <1>9
  <2>3. PICK r \in net : y = Image(r)
    BY <1>9
  <2>4. x.age = q.age /\ y.age = r.age /\ x.sequence = q.sequence /\ y.sequence = r.sequence
    BY <1>7, <2>2, <2>3
  <2>5. Behind(x.sequence)' = Behind(q.sequence) /\ Behind(y.sequence)' = Behind(r.sequence)
    BY <1>2, <2>4 DEF Behind
  <2>6. q.age < r.age <=> Behind(q.sequence) < Behind(r.sequence)
    BY <1>5 DEF ByAge
  <2> QED BY <2>4, <2>5, <2>6
<1>14. Passed'
  <2>1. SUFFICES ASSUME NEW x \in net', ~x.newer
                 PROVE  /\ initialized' /\ freshAge' <= x.age
                        /\ Behind(lastSequence)' >= 1
                        /\ Behind(lastSequence)' <= Behind(x.sequence)'
    BY DEF Passed
  <2>2. PICK q \in net : x = Image(q)
    BY <1>9
  <2>3. x.age = q.age /\ x.sequence = q.sequence
        /\ (~q.newer \/ (accept /\ q.age >= p.age))
    BY <1>7, <2>1, <2>2
  <2>4. CASE accept
    <3>1. q.age >= p.age
      <4>1. ~q.newer => p.age < q.age
        BY <1>5, <1>6, <2>4 DEF NewerYounger
      <4> QED BY <1>5, <2>3, <4>1, Parts
    <3>2. Behind(p.sequence) <= Behind(q.sequence)
      <4>1. ~(q.age < p.age)
        BY <1>5, <3>1, Parts
      <4>2. ~(Behind(q.sequence) < Behind(p.sequence))
        BY <1>5, <4>1 DEF ByAge
      <4> QED BY <1>5, <4>2, BehindRange
    <3>3. Behind(p.sequence) >= 1
      BY <1>5 DEF InOrder
    <3>4. Behind(lastSequence)' = Behind(p.sequence) /\ Behind(x.sequence)' = Behind(q.sequence)
      BY <1>2, <1>3, <2>3, <2>4 DEF Behind
    <3>5. freshAge' <= x.age
      BY <1>3, <1>5, <2>3, <2>4, Parts
    <3> QED BY <1>3, <2>4, <3>2, <3>3, <3>4, <3>5
  <2>5. CASE ~accept
    <3>1. /\ initialized /\ freshAge <= q.age /\ Behind(lastSequence) >= 1
          /\ Behind(lastSequence) <= Behind(q.sequence)
      BY <1>5, <2>3, <2>5 DEF Passed
    <3>2. /\ Behind(lastSequence)' = Behind(lastSequence)
          /\ Behind(x.sequence)' = Behind(q.sequence)
      BY <1>2, <1>4, <2>3, <2>5 DEF Behind
    <3> QED BY <1>4, <2>3, <2>5, <3>1, <3>2
  <2> QED BY <2>4, <2>5
<1>15. NewerYounger'
  <2>1. SUFFICES ASSUME NEW x \in net', NEW y \in net', ~x.newer, y.newer
                 PROVE  y.age < x.age
    BY DEF NewerYounger
  <2>2. PICK q \in net : x = Image(q)
    BY <1>9
  <2>3. PICK r \in net : y = Image(r)
    BY <1>9
  <2>4. /\ x.age = q.age /\ y.age = r.age /\ r.newer /\ ~(accept /\ r.age >= p.age)
        /\ (~q.newer \/ (accept /\ q.age >= p.age))
    BY <1>7, <2>1, <2>2, <2>3
  <2>5. CASE ~q.newer
    BY <1>5, <2>4, <2>5 DEF NewerYounger
  <2>6. CASE accept /\ q.age >= p.age
    BY <1>5, <2>4, <2>6, Parts
  <2> QED BY <2>4, <2>5, <2>6
<1>16. Awaiting'
  <2>1. CASE accept
    <3>1. Wasted' \in Nat /\ sincePublish' \in Nat
      <4>1. losses' * MaxPeriod \in Nat /\ sincePublish' \in Nat
        BY <1>2, <1>5, Parts, WastedRange
      <4> QED BY <4>1, Bounds DEF Wasted
    <3>2. Waited(sincePublish + Wasted)'
      <4>1. 0 <= RestartResync + (sincePublish' + Wasted')
        <5>1. \A a, b, c \in Nat : 0 <= a + (b + c)
          OBVIOUS
        <5> QED BY <3>1, <5>1, Bounds
      <4> QED BY <1>3, <2>1, <4>1 DEF Waited
    <3> QED BY <3>2 DEF Awaiting
  <2>2. CASE ~accept
    <3>2. Wasted' = Wasted
      BY <1>2, <1>4, <2>2 DEF Wasted, Behind
    <3>3. CASE Waited(sincePublish + Wasted)
      <4>1. Waited(sincePublish + Wasted)'
        BY <1>2, <1>4, <2>2, <3>2, <3>3 DEF Waited
      <4> QED BY <4>1 DEF Awaiting
    <3>4. CASE \E q \in net : /\ ~q.delivered /\ q.sequence # lastSequence
                              /\ Waited(q.age + 2 * Burst)
      <4>1. PICK q \in net : /\ ~q.delivered /\ q.sequence # lastSequence
                             /\ Waited(q.age + 2 * Burst)
        BY <3>4
      <4>2. CASE q = p
        <5>1. ~(freshAge >= RestartResync)
          BY <1>1, <2>2, <4>1, <4>2 DEF Accepts
        <5>2. sincePublish \in Nat /\ Wasted \in Nat
          BY <1>5, Parts, WastedRange
        <5>3. Waited(sincePublish + Wasted)
          BY <1>5, <5>1, <5>2, Parts, Bounds DEF Waited
        <5> QED BY <3>3, <5>3
      <4>3. CASE q # p
        <5>1. Image(q) \in net'
          BY <1>8
        <5>2. ~Image(q).delivered /\ Image(q).sequence # lastSequence' /\ Image(q).age = q.age
          BY <1>4, <1>7, <2>2, <4>1, <4>3
        <5>3. PICK x \in net' : /\ ~x.delivered /\ x.sequence # lastSequence' /\ x.age = q.age
          BY <5>1, <5>2
        <5>4. Waited(x.age + 2 * Burst)'
          BY <1>2, <1>4, <2>2, <4>1, <5>3 DEF Waited
        <5> QED BY <5>3, <5>4 DEF Awaiting
      <4> QED BY <4>2, <4>3
    <3>5. CASE ~running
      BY <1>2, <3>5 DEF Awaiting
    <3> QED BY <1>5, <3>3, <3>4, <3>5 DEF Awaiting
  <2> QED BY <2>1, <2>2
<1>17. OnlyNewerRefreshes'
  BY <1>2, <1>5, <1>6 DEF OnlyNewerRefreshes
<1> QED BY <1>10, <1>12, <1>13, <1>14, <1>15, <1>16, <1>17 DEF IInv, OrderInv

\* Time passes: everything in flight grows older with the waits, and only what
\* was delivered leaves the network.
LEMMA TickStep == ASSUME IInv, Tick PROVE IInv'
<1>1. /\ running => sincePublish < MaxPeriod
      /\ \A p \in net : p.age = MaxDelay => p.delivered
      /\ sincePublish' = IF running THEN sincePublish + 1 ELSE sincePublish
      /\ upAge' = Older(upAge) /\ freshAge' = Older(freshAge)
      /\ net' = {[p EXCEPT !.age = @ + 1] : p \in {q \in net : q.age < MaxDelay}}
      /\ running' = running /\ sequence' = sequence /\ losses' = losses
      /\ initialized' = initialized /\ lastSequence' = lastSequence /\ replayed' = replayed
  BY DEF Tick
<1>2. TypeOK /\ InOrder /\ ByAge /\ Passed /\ NewerYounger /\ Awaiting /\ ~replayed
  BY DEF IInv, OrderInv, OnlyNewerRefreshes
<1> DEFINE Image(q) == [q EXCEPT !.age = @ + 1]
<1>3. ASSUME NEW q \in net, q.age < MaxDelay
      PROVE  /\ Image(q) \in Datagram
             /\ Image(q).sequence = q.sequence /\ Image(q).age = q.age + 1
             /\ Image(q).delivered = q.delivered /\ Image(q).newer = q.newer
  <2>1. q \in Datagram /\ q.age + 1 \in 0 .. MaxDelay
    BY <1>2, <1>3, Parts, Bounds
  <2> QED BY <2>1 DEF Datagram
<1>4. net' = {Image(p) : p \in {q \in net : q.age < MaxDelay}}
  BY <1>1
<1> HIDE DEF Image
<1>5. \A x \in net' : \E q \in net : q.age < MaxDelay /\ x = Image(q)
  BY <1>4
<1>6. ASSUME NEW x \in net'
      PROVE  \E q \in net :
                /\ x.sequence = q.sequence /\ x.age = q.age + 1
                /\ x.delivered = q.delivered /\ x.newer = q.newer
                /\ Behind(x.sequence)' = Behind(q.sequence)
  <2>1. PICK q \in net : q.age < MaxDelay /\ x = Image(q)
    BY <1>5
  <2>2. /\ x.sequence = q.sequence /\ x.age = q.age + 1
        /\ x.delivered = q.delivered /\ x.newer = q.newer
    BY <1>3, <2>1
  <2>3. Behind(x.sequence)' = Behind(q.sequence)
    BY <1>1, <2>2 DEF Behind
  <2> QED BY <2>2, <2>3
<1>7. TypeOK'
  <2>1. net' \subseteq Datagram
    BY <1>3, <1>5
  <2>2. sincePublish' \in 0 .. MaxPeriod
    <3>1. sincePublish \in Nat /\ sincePublish <= MaxPeriod /\ MaxPeriod \in Nat
      BY <1>2, Parts, Bounds
    <3>2. CASE running
      <4>1. sincePublish < MaxPeriod /\ sincePublish' = sincePublish + 1
        BY <1>1, <3>2
      <4> QED BY <3>1, <4>1
    <3>3. CASE ~running
      <4>1. sincePublish' = sincePublish
        BY <1>1, <3>3
      <4> QED BY <3>1, <4>1
    <3> QED BY <3>2, <3>3
  <2>3. upAge' \in Ages /\ freshAge' \in Ages
    BY <1>1, <1>2, Parts, OlderAge
  <2> QED BY <1>1, <1>2, <2>1, <2>2, <2>3 DEF TypeOK
<1>8. InOrder'
  <2>1. SUFFICES ASSUME NEW x \in net'
                 PROVE  Behind(x.sequence)' >= 1
                        /\ Behind(x.sequence)' - 1 + sincePublish' <= x.age
    BY DEF InOrder
  <2>2. PICK q \in net : x.age = q.age + 1 /\ Behind(x.sequence)' = Behind(q.sequence)
    BY <1>6
  <2>3. Behind(q.sequence) >= 1 /\ Behind(q.sequence) - 1 + sincePublish <= q.age
    BY <1>2 DEF InOrder
  <2>4. Behind(q.sequence) \in Nat /\ q.age \in Nat /\ sincePublish \in Nat
    BY <1>2, BehindRange, Parts
  <2> QED BY <1>1, <2>2, <2>3, <2>4
<1>9. ByAge'
  <2>1. SUFFICES ASSUME NEW x \in net', NEW y \in net'
                 PROVE  x.age < y.age <=> Behind(x.sequence)' < Behind(y.sequence)'
    BY DEF ByAge
  <2>2. PICK q \in net : x.age = q.age + 1 /\ Behind(x.sequence)' = Behind(q.sequence)
    BY <1>6
  <2>3. PICK r \in net : y.age = r.age + 1 /\ Behind(y.sequence)' = Behind(r.sequence)
    BY <1>6
  <2>4. q.age < r.age <=> Behind(q.sequence) < Behind(r.sequence)
    BY <1>2 DEF ByAge
  <2>5. q.age \in Nat /\ r.age \in Nat
    BY <1>2, Parts
  <2> QED BY <2>2, <2>3, <2>4, <2>5
<1>10. Passed'
  <2>1. SUFFICES ASSUME NEW x \in net', ~x.newer
                 PROVE  /\ initialized' /\ freshAge' <= x.age
                        /\ Behind(lastSequence)' >= 1
                        /\ Behind(lastSequence)' <= Behind(x.sequence)'
    BY DEF Passed
  <2>2. PICK q \in net : /\ x.age = q.age + 1 /\ x.newer = q.newer
                         /\ Behind(x.sequence)' = Behind(q.sequence)
    BY <1>6
  <2>3. /\ initialized /\ freshAge <= q.age /\ Behind(lastSequence) >= 1
        /\ Behind(lastSequence) <= Behind(q.sequence)
    BY <1>2, <2>1, <2>2 DEF Passed
  <2>4. Behind(lastSequence)' = Behind(lastSequence)
    BY <1>1 DEF Behind
  <2>5. freshAge' <= q.age + 1
    <3>1. /\ freshAge' <= freshAge + 1 /\ freshAge \in Nat /\ freshAge' \in Nat /\ q.age \in Nat
      BY <1>1, <1>2, Parts, OlderAge
    <3> QED BY <2>3, <3>1
  <2> QED BY <1>1, <2>2, <2>3, <2>4, <2>5
<1>11. NewerYounger'
  <2>1. SUFFICES ASSUME NEW x \in net', NEW y \in net', ~x.newer, y.newer
                 PROVE  y.age < x.age
    BY DEF NewerYounger
  <2>2. PICK q \in net : x.age = q.age + 1 /\ x.newer = q.newer
    BY <1>6
  <2>3. PICK r \in net : y.age = r.age + 1 /\ y.newer = r.newer
    BY <1>6
  <2>4. r.age < q.age
    BY <1>2, <2>1, <2>2, <2>3 DEF NewerYounger
  <2>5. q.age \in Nat /\ r.age \in Nat
    BY <1>2, Parts
  <2> QED BY <2>2, <2>3, <2>4, <2>5
<1>12. ASSUME NEW t \in Nat, freshAge <= RestartResync + t \/ upAge <= t
       PROVE  freshAge' <= RestartResync + (t + 1) \/ upAge' <= t + 1
  <2>1. /\ freshAge' <= freshAge + 1 /\ freshAge \in Nat /\ freshAge' \in Nat
        /\ upAge' <= upAge + 1 /\ upAge \in Nat /\ upAge' \in Nat
    BY <1>1, <1>2, Parts, OlderAge
  <2>2. CASE upAge <= t
    BY <2>1, <2>2
  <2>3. CASE freshAge <= RestartResync + t
    <3>1. RestartResync \in Nat
      BY Bounds
    <3> QED BY <2>1, <2>3, <3>1
  <2> QED BY <1>12, <2>2, <2>3
<1>13. Awaiting'
  <2>1. SUFFICES ASSUME running PROVE Awaiting'
    BY <1>1 DEF Awaiting
  <2>2. CASE Waited(sincePublish + Wasted)
    <3>1. sincePublish \in Nat /\ Wasted \in Nat
      BY <1>2, Parts, WastedRange
    <3>2. Wasted' = Wasted
      BY <1>1 DEF Wasted, Behind
    <3>3. sincePublish' + Wasted' = (sincePublish + Wasted) + 1 /\ sincePublish + Wasted \in Nat
      BY <1>1, <2>1, <3>1, <3>2
    <3>4. Waited(sincePublish + Wasted)'
      BY <1>12, <2>2, <3>3 DEF Waited
    <3> QED BY <3>4 DEF Awaiting
  <2>3. CASE \E q \in net : /\ ~q.delivered /\ q.sequence # lastSequence
                            /\ Waited(q.age + 2 * Burst)
    <3>1. PICK q \in net : /\ ~q.delivered /\ q.sequence # lastSequence
                           /\ Waited(q.age + 2 * Burst)
      BY <2>3
    <3>2. q.age \in Nat /\ q.age < MaxDelay
      <4>1. q.age \in Nat /\ q.age <= MaxDelay /\ MaxDelay \in Nat
        BY <1>2, Parts, Bounds
      <4>2. q.age # MaxDelay
        BY <1>1, <3>1
      <4> QED BY <4>1, <4>2
    <3>3. Image(q) \in net'
      BY <1>4, <3>2
    <3>4. /\ ~Image(q).delivered /\ Image(q).sequence # lastSequence
          /\ Image(q).age = q.age + 1
      BY <1>3, <3>1, <3>2
    <3>5. PICK x \in net' : ~x.delivered /\ x.sequence # lastSequence' /\ x.age = q.age + 1
      BY <1>1, <3>3, <3>4
    <3>6. x.age + 2 * Burst = (q.age + 2 * Burst) + 1 /\ q.age + 2 * Burst \in Nat
      BY <3>2, <3>5, Bounds
    <3>7. Waited(x.age + 2 * Burst)'
      BY <1>12, <3>1, <3>6 DEF Waited
    <3> QED BY <3>5, <3>7 DEF Awaiting
  <2> QED BY <1>2, <2>1, <2>2, <2>3 DEF Awaiting
<1> QED BY <1>1, <1>2, <1>7, <1>8, <1>9, <1>10, <1>11, <1>13
        DEF IInv, OrderInv, OnlyNewerRefreshes

\* Every step keeps the invariant.
LEMMA NextStep == IInv /\ [Next]_vars => IInv'
<1> SUFFICES ASSUME IInv, [Next]_vars PROVE IInv'
  OBVIOUS
<1>1. CASE Publish
  BY <1>1, PublishOrder, PublishAwaits DEF IInv
<1>2. CASE StopMiddle
  BY <1>2, StopStep
<1>3. CASE StartMiddle
  BY <1>3, StartStep
<1>4. ASSUME NEW p \in net, Deliver(p) PROVE IInv'
  BY <1>4, DeliverStep
<1>5. CASE Tick
  BY <1>5, TickStep
<1>6. CASE UNCHANGED vars
  <2>1. /\ running' = running /\ sequence' = sequence /\ sincePublish' = sincePublish
        /\ upAge' = upAge /\ net' = net /\ losses' = losses /\ initialized' = initialized
        /\ lastSequence' = lastSequence /\ freshAge' = freshAge /\ replayed' = replayed
    BY <1>6 DEF vars, sender, monitor
  <2>2. TypeOK'
    BY <2>1 DEF IInv, TypeOK
  <2>3. OrderInv'
    BY <2>1 DEF IInv, OrderInv, InOrder, ByAge, Passed, NewerYounger, OnlyNewerRefreshes,
                Behind
  <2>4. Awaiting'
    BY <2>1 DEF IInv, Awaiting, Waited, Wasted, Behind
  <2> QED BY <2>2, <2>3, <2>4 DEF IInv
<1> QED BY <1>1, <1>2, <1>3, <1>4, <1>5, <1>6 DEF Next

\* IInv is invariant.
LEMMA InductiveInvariant == Spec => []IInv
BY InitIInv, NextStep, PTL DEF Spec

-----------------------------------------------------------------------------
(***************************************************************************)
(* The theorems.                                                           *)
(***************************************************************************)

\* MIDDLE's counters, the datagrams in flight and the monitor's memory stay
\* typed; in particular the sequence number stays a word.
THEOREM TypeCorrect == Spec => []TypeOK
<1>1. IInv => TypeOK
  BY DEF IInv
<1> QED BY <1>1, InductiveInvariant, PTL

\* Every datagram that refreshes middleLinkMonitor was published after the one
\* that refreshed it before, across restarts of MIDDLE and wraps of its number.
THEOREM RefreshedByNewer == Spec => []OnlyNewerRefreshes
<1>1. IInv => OnlyNewerRefreshes
  BY DEF IInv, OrderInv
<1> QED BY <1>1, InductiveInvariant, PTL

\* A running MIDDLE is never locked out of middleLinkMonitor for longer than
\* OutageBound after the last refresh or its start: the resynchronisation time
\* (restartResyncS), two bursts of losses and the network's delay.
THEOREM RestartRecovered == Spec => []RestartRecovers
<1>1. ASSUME IInv, running PROVE freshAge <= OutageBound \/ upAge <= OutageBound
  <2>1. TypeOK /\ Awaiting
    BY <1>1 DEF IInv
  <2>2. \A t \in Nat : Waited(t) /\ t <= 2 * Burst + MaxDelay
                         => freshAge <= OutageBound \/ upAge <= OutageBound
    <3>1. /\ RestartResync \in Nat /\ Burst \in Nat /\ MaxDelay \in Nat
          /\ OutageBound = RestartResync + 2 * Burst + MaxDelay
          /\ freshAge \in Nat /\ upAge \in Nat
      BY <2>1, Parts, Bounds
    <3> QED BY <3>1 DEF Waited
  <2>3. CASE Waited(sincePublish + Wasted)
    <3>1. sincePublish + Wasted \in Nat /\ sincePublish + Wasted <= 2 * Burst
      BY <2>1, Parts, WastedRange
    <3>2. sincePublish + Wasted <= 2 * Burst + MaxDelay
      BY <3>1, Bounds
    <3> QED BY <2>2, <2>3, <3>1, <3>2
  <2>4. CASE \E p \in net : /\ ~p.delivered /\ p.sequence # lastSequence
                            /\ Waited(p.age + 2 * Burst)
    <3>1. PICK p \in net : Waited(p.age + 2 * Burst)
      BY <2>4
    <3>2. p.age + 2 * Burst \in Nat /\ p.age + 2 * Burst <= 2 * Burst + MaxDelay
      BY <2>1, Parts, Bounds
    <3> QED BY <2>2, <3>1, <3>2
  <2> QED BY <1>1, <2>1, <2>3, <2>4 DEF Awaiting
<1>2. IInv => RestartRecovers
  BY <1>1 DEF RestartRecovers
<1> QED BY <1>2, InductiveInvariant, PTL
=============================================================================
