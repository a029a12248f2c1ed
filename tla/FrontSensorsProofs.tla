------------------------- MODULE FrontSensorsProofs -------------------------
(***************************************************************************)
(* Proofs about FrontSensors: the type invariant, the median filter        *)
(* (OutlierRejected), the valid bits (ValidExactWithinWrap) and the        *)
(* spacing of the searches for the ToF ranger (SearchesSpaced), for every  *)
(* number of ultrasonic rangers, every width of the tick counter and all   *)
(* limits, delays and distances.                                           *)
(***************************************************************************)
EXTENDS FrontSensors, FiniteSetTheorems, SequenceTheorems, TLAPS

\* What the code's ages, ticks and rings have to do with the truth.

\* The tick of a ranger's last good reading gives its true age, as long as that
\* is below a turn of the counter.
ReadTimed ==
    \A r \in Rangers :
       readAge[r] < WordSize => WordSub(now, LastValidTick(r)) = readAge[r]

\* Only a ToF ranger that was found has been read, and only one that was not
\* found is searched for.
TofFound ==
    /\ readAge["tof"] < WordSize => tof.present
    /\ pc = "search" => ~tof.present

\* The deadline of the next search is Retry ticks after the last one.
SearchTimed ==
    searchAge < Retry
      => tof.initAttempted /\ WordSub(tof.nextInit, now) = Retry - searchAge

\* A ring u holds the readings q: in order while it fills up, then from the
\* index on, and the filtered distance is their median.
Holds(u, q) ==
    /\ u.sampleCount = Len(q)
    /\ Len(q) < 3 => /\ u.sampleIndex = Len(q)
                     /\ \A k \in 1 .. Len(q) : u.samples[k - 1] = q[k]
    /\ Len(q) = 3 => /\ \A k \in 1 .. 3 : u.samples[(u.sampleIndex + k - 1) % 3] = q[k]
                     /\ u.filtered = aeb_median3(u.samples, 3)

RingRecent == \A s \in Ultrasonics : Holds(ultra[s], recent[s])

IInv ==
    /\ TypeOK
    /\ ReadTimed /\ TofFound /\ ValidExactWithinWrap
    /\ SearchTimed
    /\ RingRecent

-----------------------------------------------------------------------------
(***************************************************************************)
(* Constants, words and ages.                                              *)
(***************************************************************************)

\* The numbers the constants give.
LEMMA Bounds ==
  /\ HalfWord \in Nat /\ HalfWord > 0
  /\ WordSize \in Nat /\ WordSize = 2 * HalfWord /\ WordSize > 0
  /\ AgeCap \in Nat /\ AgeCap >= WordSize
  /\ Retry \in Nat /\ Retry <= HalfWord
  /\ InitDelay \in Nat /\ UltraStale \in Nat /\ TofStale \in Nat
  /\ \A d \in Delays : d \in Nat /\ d > 0 /\ d < WordSize
BY HalfWordAssumption, SensorAssumption DEF WordSize

\* Names of rangers and of steps: all distinct.
LEMMA Names ==
  /\ Sides[1] \in Ultrasonics
  /\ \A s \in Ultrasonics : s \notin {"tof", "send", "check", "search"}
  /\ Ultrasonics \subseteq Rangers /\ "tof" \in Rangers
<1>1. Sides \in Seq(STRING) /\ Sides # <<>>
  BY SidesAssumption
<1>2. 1 \in DOMAIN Sides
  BY <1>1
<1> QED BY <1>2, SidesAssumption DEF Ultrasonics, Rangers

\* After walks through the rangers in their order: it never returns to the
\* first one, and no two rangers have the same successor.
LEMMA AfterFacts ==
  ASSUME NEW s \in Ultrasonics
  PROVE  /\ After(s) \in Rangers
         /\ After(s) # Sides[1]
         /\ \A t \in Ultrasonics : After(t) = After(s) => t = s
<1> DEFINE At(t) == CHOOSE i \in DOMAIN Sides : Sides[i] = t
<1>1. Sides \in Seq(STRING) /\ Len(Sides) \in Nat /\ DOMAIN Sides = 1 .. Len(Sides)
  BY SidesAssumption
<1>2. ASSUME NEW t \in Ultrasonics
      PROVE  /\ At(t) \in 1 .. Len(Sides) /\ Sides[At(t)] = t
             /\ After(t) = IF At(t) = Len(Sides) THEN "tof" ELSE Sides[At(t) + 1]
  <2>1. \E i \in DOMAIN Sides : Sides[i] = t
    BY DEF Ultrasonics
  <2> QED BY <1>1, <2>1 DEF After
<1> HIDE DEF At
<1>3. After(s) \in Rangers /\ After(s) # Sides[1]
  <2>1. CASE At(s) = Len(Sides)
    BY <1>2, <2>1, Names
  <2>2. CASE At(s) # Len(Sides)
    <3>1. At(s) + 1 \in 2 .. Len(Sides) /\ After(s) = Sides[At(s) + 1]
      BY <1>1, <1>2, <2>2
    <3> QED BY <1>1, <3>1, SidesAssumption DEF Ultrasonics, Rangers
  <2> QED BY <2>1, <2>2
<1>4. ASSUME NEW t \in Ultrasonics, After(t) = After(s)
      PROVE  t = s
  <2>1. At(t) = Len(Sides) <=> At(s) = Len(Sides)
    <3>1. \A u \in Ultrasonics : After(u) = "tof" <=> At(u) = Len(Sides)
      <4>1. SUFFICES ASSUME NEW u \in Ultrasonics, At(u) # Len(Sides)
                     PROVE  After(u) # "tof"
        BY <1>2
      <4>2. At(u) + 1 \in DOMAIN Sides /\ After(u) = Sides[At(u) + 1]
        BY <1>1, <1>2, <4>1
      <4> QED BY <4>2, SidesAssumption
    <3> QED BY <3>1, <1>4
  <2>2. CASE At(s) = Len(Sides)
    BY <1>2, <2>1, <2>2
  <2>3. CASE At(s) # Len(Sides)
    <3>1. At(s) + 1 \in DOMAIN Sides /\ At(t) + 1 \in DOMAIN Sides
      BY <1>1, <1>2, <2>1, <2>3
    <3>2. Sides[At(s) + 1] = Sides[At(t) + 1]
      BY <1>2, <1>4, <2>1, <2>3
    <3>3. At(s) + 1 = At(t) + 1
      BY <3>1, <3>2, SidesAssumption
    <3>4. At(s) = At(t)
      BY <1>2, <3>3
    <3> QED BY <1>2, <3>4
  <2> QED BY <2>2, <2>3
<1> QED BY <1>3, <1>4

\* The counter stays a word, and what was d ticks younger is now d ticks older.
LEMMA PassingFacts ==
  ASSUME NEW n \in Words, NEW t \in Words, NEW d \in Delays
  PROVE  /\ WordAdd(n, d) \in Words
         /\ WordSub(n, t) + d < WordSize => WordSub(WordAdd(n, d), t) = WordSub(n, t) + d
         /\ WordSub(t, n) > d => WordSub(t, WordAdd(n, d)) = WordSub(t, n) - d
BY Bounds DEF Words, WordAdd, WordSub

\* A saturating age.
LEMMA CappedAge ==
  ASSUME NEW a \in Ages, NEW d \in Delays
  PROVE  /\ Capped(a, d) \in Ages
         /\ Capped(a, d) < AgeCap => Capped(a, d) = a + d
BY Bounds DEF Ages, Capped

-----------------------------------------------------------------------------
(***************************************************************************)
(* The ring and its median.                                                *)
(***************************************************************************)

\* aeb_median3 of a full ring is the middle of its samples.
LEMMA MedianMiddle ==
  ASSUME NEW f \in [0 .. 2 -> Nat]
  PROVE  \E a, b, c \in 0 .. 2 :
            /\ a # b /\ b # c /\ a # c
            /\ f[a] <= aeb_median3(f, 3)
            /\ f[b] = aeb_median3(f, 3)
            /\ f[c] >= aeb_median3(f, 3)
<1> DEFINE x == f[0]  y == f[1]  z == f[2]  m == aeb_median3(f, 3)
<1>1. x \in Nat /\ y \in Nat /\ z \in Nat
  OBVIOUS
<1>2. m = LET a == IF x > y THEN y ELSE x
              b == IF x > y THEN x ELSE y
              c == IF b > z THEN z ELSE b
          IN  IF a > c THEN a ELSE c
  BY DEF aeb_median3
<1>3. \/ x <= m /\ y = m /\ z >= m
      \/ x <= m /\ z = m /\ y >= m
      \/ y <= m /\ x = m /\ z >= m
      \/ y <= m /\ z = m /\ x >= m
      \/ z <= m /\ x = m /\ y >= m
      \/ z <= m /\ y = m /\ x >= m
  <2> HIDE DEF x, y, z, m
  <2> QED BY <1>1, <1>2
<1> QED BY <1>3

\* A new reading keeps the ring a ring.
LEMMA WithSampleType ==
  ASSUME NEW u \in Ultra, NEW cm \in Echoes, NEW at \in Words
  PROVE  WithSample(u, cm, at) \in Ultra
<1> DEFINE samples == [u.samples EXCEPT ![u.sampleIndex] = cm]
           count   == IF u.sampleCount < 3 THEN u.sampleCount + 1 ELSE 3
<1>1. samples \in [0 .. 2 -> Nat]
  BY SensorAssumption DEF Ultra
<1>2. count \in 1 .. 3
  BY DEF Ultra
<1> HIDE DEF samples, count
<1>3. aeb_median3(samples, count) \in Nat
  <2>1. samples[0] \in Nat /\ samples[1] \in Nat /\ samples[2] \in Nat
    BY <1>1
  <2>2. CASE count = 1
    BY <2>1, <2>2 DEF aeb_median3
  <2>3. CASE count = 2
    <3>1. aeb_median3(samples, count) = (samples[0] + samples[1]) \div 2
      BY <2>3 DEF aeb_median3
    <3> QED BY <2>1, <3>1
  <2>4. CASE count = 3
    <3>1. PICK b \in 0 .. 2 : samples[b] = aeb_median3(samples, 3)
      BY <1>1, MedianMiddle
    <3> QED BY <1>1, <2>4, <3>1
  <2> QED BY <1>2, <2>2, <2>3, <2>4
<1>4. (u.sampleIndex + 1) % 3 \in 0 .. 2
  BY DEF Ultra
<1>5. WithSample(u, cm, at) =
        [samples |-> samples, sampleCount |-> count,
         sampleIndex |-> (u.sampleIndex + 1) % 3,
         filtered |-> aeb_median3(samples, count), lastValidTick |-> at]
  BY DEF WithSample, samples, count
<1> QED BY <1>1, <1>2, <1>3, <1>4, <1>5 DEF Ultra

\* The last three of the readings and one more.
LEMMA LastThreeFacts ==
  ASSUME NEW q \in Seq(Echoes), Len(q) \in 0 .. 3, NEW cm \in Echoes
  PROVE  /\ LastThree(Append(q, cm)) \in Seq(Echoes)
         /\ Len(q) < 3 => LastThree(Append(q, cm)) = Append(q, cm)
         /\ Len(q) = 3 => /\ Len(LastThree(Append(q, cm))) = 3
                          /\ LastThree(Append(q, cm))[1] = q[2]
                          /\ LastThree(Append(q, cm))[2] = q[3]
                          /\ LastThree(Append(q, cm))[3] = cm
<1> DEFINE a == Append(q, cm)
<1>1. /\ a \in Seq(Echoes) /\ Len(a) = Len(q) + 1 /\ Len(q) \in Nat
      /\ \A i \in 1 .. Len(q) : a[i] = q[i]
      /\ a[Len(q) + 1] = cm
  OBVIOUS
<1> HIDE DEF a
<1>2. CASE Len(q) < 3
  <2>1. LastThree(a) = SubSeq(a, 1, Len(a))
    BY <1>1, <1>2 DEF LastThree
  <2>2. SubSeq(a, 1, Len(a)) = a
    BY <1>1, SubSeqFull
  <2> QED BY <1>1, <1>2, <2>1, <2>2 DEF a
<1>3. CASE Len(q) = 3
  <2>1. LastThree(a) = SubSeq(a, 2, 4)
    BY <1>1, <1>3 DEF LastThree
  <2>2. /\ SubSeq(a, 2, 4) \in Seq(Echoes) /\ Len(SubSeq(a, 2, 4)) = 3
        /\ SubSeq(a, 2, 4)[1] = a[2] /\ SubSeq(a, 2, 4)[2] = a[3]
        /\ SubSeq(a, 2, 4)[3] = a[4]
    <3> DEFINE b == SubSeq(a, 2, 4)
    <3>1. \A i \in 2 .. 4 : a[i] \in Echoes
      BY <1>1, <1>3
    <3>2. /\ b \in Seq(Echoes) /\ Len(b) = 3
          /\ \A i \in 1 .. 3 : b[i] = a[2 + i - 1]
      BY <3>1, SubSeqProperties
    <3> HIDE DEF b
    <3>3. b[1] = a[2] /\ b[2] = a[3] /\ b[3] = a[4]
      BY <3>2
    <3> QED BY <3>2, <3>3 DEF b
  <2> QED BY <1>1, <1>3, <2>1, <2>2 DEF a
<1>4. Len(q) < 3 \/ Len(q) = 3
  <2>1. \A n \in 0 .. 3 : n < 3 \/ n = 3
    OBVIOUS
  <2> QED BY <2>1, Zenon
<1> QED BY <1>2, <1>3, <1>4, Zenon

\* A new reading overwrites the oldest one.
LEMMA WithSampleHolds ==
  ASSUME NEW u \in Ultra, NEW q \in Seq(Echoes), Len(q) \in 0 .. 3, Holds(u, q),
         NEW cm \in Echoes, NEW at \in Words
  PROVE  /\ Holds(WithSample(u, cm, at), LastThree(Append(q, cm)))
         /\ LastThree(Append(q, cm)) \in Seq(Echoes)
         /\ Len(LastThree(Append(q, cm))) \in 0 .. 3
<1> DEFINE p == LastThree(Append(q, cm))
           w == WithSample(u, cm, at)
           samples == [u.samples EXCEPT ![u.sampleIndex] = cm]
           count   == IF u.sampleCount < 3 THEN u.sampleCount + 1 ELSE 3
<1>1. /\ w.samples = samples /\ w.sampleCount = count
      /\ w.sampleIndex = (u.sampleIndex + 1) % 3
      /\ w.filtered = aeb_median3(samples, count)
  BY DEF WithSample
<1>2. /\ u.samples \in [0 .. 2 -> Nat] /\ u.sampleIndex \in 0 .. 2
      /\ u.sampleCount \in 0 .. 3 /\ Len(q) \in Nat
  BY DEF Ultra
<1>3. /\ samples[u.sampleIndex] = cm
      /\ \A i \in 0 .. 2 : i # u.sampleIndex => samples[i] = u.samples[i]
  BY <1>2
<1>4. /\ u.sampleCount = Len(q)
      /\ Len(q) < 3 => /\ u.sampleIndex = Len(q)
                       /\ \A k \in 1 .. Len(q) : u.samples[k - 1] = q[k]
      /\ Len(q) = 3 => \A k \in 1 .. 3 : u.samples[(u.sampleIndex + k - 1) % 3] = q[k]
  BY DEF Holds
<1>5. CASE Len(q) < 3
  <2>1. /\ p = Append(q, cm) /\ Len(p) = Len(q) + 1
        /\ \A k \in 1 .. Len(q) : p[k] = q[k]
        /\ p[Len(q) + 1] = cm
    <3>1. p = Append(q, cm)
      BY <1>5, LastThreeFacts
    <3> QED BY <3>1
  <2>2. count = Len(p) /\ w.sampleCount = Len(p)
    BY <1>1, <1>2, <1>4, <1>5, <2>1
  <2> HIDE DEF p, w, samples, count
  <2>3. \A k \in 1 .. Len(p) : samples[k - 1] = p[k]
    BY <1>2, <1>3, <1>4, <1>5, <2>1
  <2>4. Len(p) < 3 => w.sampleIndex = Len(p)
    BY <1>1, <1>2, <1>4, <1>5, <2>1
  <2>5. Len(p) = 3
          => /\ w.sampleIndex = 0
             /\ \A k \in 1 .. 3 : w.samples[(w.sampleIndex + k - 1) % 3] = p[k]
    <3>1. SUFFICES ASSUME Len(p) = 3
                   PROVE  /\ w.sampleIndex = 0
                          /\ \A k \in 1 .. 3 : w.samples[(w.sampleIndex + k - 1) % 3] = p[k]
      OBVIOUS
    <3>2. w.sampleIndex = 0
      BY <1>1, <1>2, <1>4, <1>5, <2>1, <3>1
    <3>3. \A k \in 1 .. 3 : (0 + k - 1) % 3 = k - 1
      OBVIOUS
    <3> QED BY <1>1, <2>3, <3>1, <3>2, <3>3
  <2>6. Len(p) = 3 => w.filtered = aeb_median3(w.samples, 3)
    BY <1>1, <2>2
  <2>7. Holds(w, p)
    BY <1>1, <2>2, <2>3, <2>4, <2>5, <2>6 DEF Holds
  <2>8. p \in Seq(Echoes)
    BY LastThreeFacts DEF p
  <2>9. Len(p) \in 0 .. 3
    BY <1>2, <1>5, <2>1
  <2> QED BY <2>7, <2>8, <2>9 DEF p, w
<1>6. CASE Len(q) = 3
  <2>1. Len(p) = 3 /\ p[1] = q[2] /\ p[2] = q[3] /\ p[3] = cm
    BY <1>6, LastThreeFacts
  <2>2. p \in Seq(Echoes)
    BY LastThreeFacts
  <2> HIDE DEF p, w, samples
  <2>3. count = 3 /\ w.sampleCount = 3
    BY <1>1, <1>4, <1>6
  <2> HIDE DEF count
  <2>4. /\ u.samples[(u.sampleIndex + 1) % 3] = q[2]
        /\ u.samples[(u.sampleIndex + 2) % 3] = q[3]
    <3>1. /\ u.sampleIndex + 2 - 1 = u.sampleIndex + 1
          /\ u.sampleIndex + 3 - 1 = u.sampleIndex + 2
      BY <1>2
    <3> QED BY <1>4, <1>6, <3>1
  <2>5. \A k \in 1 .. 3 : samples[(w.sampleIndex + k - 1) % 3] = p[k]
    <3>1. CASE u.sampleIndex = 0
      <4>1. w.sampleIndex = 1
        BY <1>1, <3>1
      <4>2. samples[1] = q[2] /\ samples[2] = q[3] /\ samples[0] = cm
        BY <1>3, <2>4, <3>1
      <4> QED BY <2>1, <4>1, <4>2
    <3>2. CASE u.sampleIndex = 1
      <4>1. w.sampleIndex = 2
        BY <1>1, <3>2
      <4>2. samples[2] = q[2] /\ samples[0] = q[3] /\ samples[1] = cm
        BY <1>3, <2>4, <3>2
      <4> QED BY <2>1, <4>1, <4>2
    <3>3. CASE u.sampleIndex = 2
      <4>1. w.sampleIndex = 0
        BY <1>1, <3>3
      <4>2. samples[0] = q[2] /\ samples[1] = q[3] /\ samples[2] = cm
        BY <1>3, <2>4, <3>3
      <4> QED BY <2>1, <4>1, <4>2
    <3> QED BY <1>2, <3>1, <3>2, <3>3
  <2>6. Holds(w, p)
    BY <1>1, <2>1, <2>3, <2>5 DEF Holds
  <2> QED BY <2>1, <2>2, <2>6 DEF p, w
<1>7. Len(q) < 3 \/ Len(q) = 3
  <2>1. \A n \in 0 .. 3 : n < 3 \/ n = 3
    OBVIOUS
  <2> QED BY <2>1, Zenon
<1> QED BY <1>5, <1>6, <1>7, Zenon

-----------------------------------------------------------------------------
(***************************************************************************)
(* Time passes.                                                            *)
(***************************************************************************)

\* The ages after a step of d ticks with readings of the rangers in read.
LEMMA AgingFacts ==
  ASSUME TypeOK, NEW d \in Delays, NEW read \in SUBSET Rangers, Passing(d), Aging(d, read)
  PROVE  /\ now' \in Words /\ readAge' \in [Rangers -> Ages] /\ searchAge' \in Ages
         /\ \A r \in read : readAge'[r] = 0
         /\ \A r \in Rangers \ read : readAge'[r] < WordSize => readAge'[r] = readAge[r] + d
         /\ searchAge' < Retry => searchAge' = searchAge + d
<1>1. now \in Words /\ readAge \in [Rangers -> Ages] /\ searchAge \in Ages
  BY DEF TypeOK
<1>2. now' \in Words
  BY <1>1, PassingFacts DEF Passing
<1>3. 0 \in Ages /\ \A a \in Ages : a \in Nat
  BY Bounds DEF Ages
<1>4. readAge' = [r \in Rangers |-> IF r \in read THEN 0 ELSE Capped(readAge[r], d)]
  BY DEF Aging
<1>5. \A r \in Rangers : readAge[r] \in Ages /\ Capped(readAge[r], d) \in Ages
  BY <1>1, CappedAge
<1>6. readAge' \in [Rangers -> Ages]
  BY <1>3, <1>4, <1>5
<1>7. ASSUME NEW r \in Rangers \ read, readAge'[r] < WordSize
      PROVE  readAge'[r] = readAge[r] + d
  <2>1. readAge'[r] = Capped(readAge[r], d)
    BY <1>4
  <2>2. Capped(readAge[r], d) < AgeCap
    BY <1>3, <1>5, <1>7, <2>1, Bounds
  <2> QED BY <1>5, <2>1, <2>2, CappedAge
<1>8. searchAge' = Capped(searchAge, d) /\ searchAge' \in Ages
  BY <1>1, CappedAge DEF Aging
<1>9. ASSUME searchAge' < Retry PROVE searchAge' = searchAge + d
  <2>1. Capped(searchAge, d) < AgeCap
    BY <1>3, <1>8, <1>9, Bounds
  <2> QED BY <1>1, <1>8, <2>1, CappedAge
<1> QED BY <1>2, <1>4, <1>6, <1>7, <1>8, <1>9

\* The ticks of the last readings keep giving the true ages.
LEMMA ReadTimedStep ==
  ASSUME TypeOK, ReadTimed,
         NEW d \in Delays, NEW read \in SUBSET Rangers, Passing(d), Aging(d, read),
         \A r \in Rangers : LastValidTick(r) \in Words,
         \A r \in read : LastValidTick(r)' = now',
         \A r \in Rangers \ read : LastValidTick(r)' = LastValidTick(r)
  PROVE  ReadTimed'
<1>1. SUFFICES ASSUME NEW r \in Rangers, readAge'[r] < WordSize
               PROVE  WordSub(now', LastValidTick(r)') = readAge'[r]
  BY DEF ReadTimed
<1>2. now \in Words /\ now' \in Words /\ now' = WordAdd(now, d)
  BY AgingFacts DEF TypeOK, Passing
<1>3. CASE r \in read
  <2>1. WordSub(now', now') = 0
    BY <1>2, Bounds DEF WordSub, Words
  <2> QED BY <1>3, <2>1, AgingFacts
<1>4. CASE r \notin read
  <2>1. readAge'[r] = readAge[r] + d /\ LastValidTick(r)' = LastValidTick(r)
    BY <1>1, <1>4, AgingFacts
  <2>2. readAge[r] \in Nat /\ d \in Nat
    BY Bounds DEF TypeOK, Ages
  <2>3. readAge[r] < WordSize
    BY <1>1, <2>1, <2>2, Bounds
  <2>4. WordSub(now, LastValidTick(r)) = readAge[r]
    BY <2>3 DEF ReadTimed
  <2>5. WordSub(WordAdd(now, d), LastValidTick(r)) = readAge[r] + d
    BY <1>1, <1>2, <2>1, <2>4, PassingFacts
  <2> QED BY <1>2, <2>1, <2>5
<1> QED BY <1>3, <1>4

\* The deadline of the next search keeps its distance from the last one.
LEMMA SearchTimedStep ==
  ASSUME TypeOK, SearchTimed,
         NEW d \in Delays, NEW read \in SUBSET Rangers, Passing(d), Aging(d, read),
         tof'.nextInit = tof.nextInit, tof'.initAttempted = tof.initAttempted
  PROVE  SearchTimed'
<1>1. SUFFICES ASSUME searchAge' < Retry
               PROVE  tof'.initAttempted /\ WordSub(tof'.nextInit, now') = Retry - searchAge'
  BY DEF SearchTimed
<1>2. now \in Words /\ tof.nextInit \in Words /\ now' = WordAdd(now, d)
  BY DEF TypeOK, Tof, Passing
<1>3. searchAge' = searchAge + d /\ searchAge \in Nat /\ d \in Nat /\ d > 0
  BY <1>1, AgingFacts, Bounds DEF TypeOK, Ages
<1>4. searchAge < Retry /\ Retry - searchAge > d
  BY <1>1, <1>3, Bounds
<1>5. tof.initAttempted /\ WordSub(tof.nextInit, now) = Retry - searchAge
  BY <1>4 DEF SearchTimed
<1>6. WordSub(tof.nextInit, WordAdd(now, d)) = (Retry - searchAge) - d
  BY <1>2, <1>4, <1>5, PassingFacts
<1>7. (Retry - searchAge) - d = Retry - searchAge'
  BY <1>3, Bounds
<1> QED BY <1>2, <1>5, <1>6, <1>7

\* The rangers whose validity the step to p has decided.
Decided(p) == {s \in Ultrasonics : After(s) = p} \union (IF p = "send" THEN {"tof"} ELSE {})

\* The reading of a ranger decides for that ranger, and nothing else decides.
LEMMA DecidedFacts ==
  /\ \A s \in Ultrasonics : Decided(After(s)) = {s}
  /\ Decided("send") = {"tof"}
  /\ Decided("check") = {} /\ Decided("search") = {} /\ Decided(Sides[1]) = {}
<1>1. \A s \in Ultrasonics : /\ After(s) \notin {"send", "check", "search"}
                             /\ After(s) # Sides[1]
  BY AfterFacts, Names DEF Rangers
<1>2. \A s, t \in Ultrasonics : After(t) = After(s) => t = s
  BY AfterFacts
<1>3. Sides[1] # "send"
  BY Names
<1> QED BY <1>1, <1>2, <1>3 DEF Decided

\* A validity decided by aeb_isFresh from a tick that gives the true age is
\* exact.
LEMMA FreshExact ==
  ASSUME NEW age \in Ages, NEW t \in Words, NEW n \in Words, NEW stale \in Nat,
         WordSub(n, t) = age
  PROVE  aeb_isFresh(t, n, stale) <=> age <= stale /\ t # 0
BY DEF aeb_isFresh

-----------------------------------------------------------------------------
(***************************************************************************)
(* The steps of the loop.                                                  *)
(***************************************************************************)

\* Types of the parts that the proofs look into.
LEMMA Parts ==
  ASSUME TypeOK
  PROVE  /\ \A s \in Ultrasonics : /\ ultra[s] \in Ultra
                                   /\ recent[s] \in Seq(Echoes) /\ Len(recent[s]) \in 0 .. 3
         /\ \A r \in Rangers : LastValidTick(r) \in Words /\ readAge[r] \in Ages
         /\ \A s \in Ultrasonics : LastValidTick(s) = ultra[s].lastValidTick
         /\ LastValidTick("tof") = tof.lastValidTick
<1>1. ASSUME NEW s \in Ultrasonics
      PROVE  /\ ultra[s] \in Ultra
             /\ recent[s] \in Seq(Echoes) /\ Len(recent[s]) \in 0 .. 3
             /\ ultra[s].lastValidTick \in Words
             /\ LastValidTick(s) = ultra[s].lastValidTick
  <2>1. ultra[s] \in Ultra /\ recent[s] \in Seq(Echoes) /\ Len(recent[s]) <= 3
    BY DEF TypeOK
  <2>2. Len(recent[s]) \in Nat
    BY <2>1
  <2>3. \A n \in Nat : n <= 3 => n \in 0 .. 3
    OBVIOUS
  <2>4. Len(recent[s]) \in 0 .. 3
    BY <2>1, <2>2, <2>3, Zenon
  <2>5. s # "tof"
    BY Names
  <2>6. ultra[s].lastValidTick \in Words
    BY <2>1 DEF Ultra
  <2> QED BY <2>1, <2>4, <2>5, <2>6 DEF LastValidTick
<1>2. tof.lastValidTick \in Words /\ LastValidTick("tof") = tof.lastValidTick
  BY DEF TypeOK, Tof, LastValidTick
<1>3. \A r \in Rangers : readAge[r] \in Ages
  BY DEF TypeOK
<1> QED BY <1>1, <1>2, <1>3 DEF Rangers

\* The rings start empty, no ranger has been read and no search made.
LEMMA InitIInv == Init => IInv
<1> SUFFICES ASSUME Init PROVE IInv
  OBVIOUS
<1>1. TypeOK
  <2>1. pc \in Steps
    BY Names DEF Init, Steps
  <2>2. ultra \in [Ultrasonics -> Ultra] /\ tof \in Tof
    <3>1. 0 \in Words /\ 0 \in Nat /\ [i \in 0 .. 2 |-> 0] \in [0 .. 2 -> Nat]
      BY Bounds DEF Words
    <3>2. now \in Words /\ WordAdd(now, Retry) \in Words
      BY Bounds DEF Init, Words, WordAdd
    <3> QED BY <3>1, <3>2 DEF Init, Ultra, Tof
  <2>3. AgeCap \in Ages
    BY Bounds DEF Ages
  <2>4. recent = [s \in Ultrasonics |-> <<>>]
    BY DEF Init
  <2>5. <<>> \in Seq(Echoes) /\ Len(<<>>) <= 3
    OBVIOUS
  <2>6. recent \in [Ultrasonics -> Seq(Echoes)] /\ \A s \in Ultrasonics : Len(recent[s]) <= 3
    BY <2>4, <2>5, Zenon
  <2>7. sequence \in 0 .. InitDelay
    BY Bounds DEF Init
  <2>8. readAge \in [Rangers -> Ages] /\ searchAge \in Ages
    BY <2>3 DEF Init
  <2> QED BY <2>1, <2>2, <2>6, <2>7, <2>8 DEF TypeOK, Init
<1>2. \A r \in Rangers : ~(readAge[r] < WordSize)
  BY Bounds DEF Init
<1>3. ReadTimed /\ TofFound /\ ValidExactWithinWrap
  <2>1. JustDecided \subseteq Rangers
    BY Names DEF JustDecided, Rangers
  <2>2. pc # "search"
    BY Names DEF Init
  <2> QED BY <1>2, <2>1, <2>2, Names DEF ReadTimed, TofFound, ValidExactWithinWrap
<1>4. SearchTimed
  BY Bounds DEF Init, SearchTimed
<1>5. RingRecent
  <2>1. SUFFICES ASSUME NEW s \in Ultrasonics PROVE Holds(ultra[s], recent[s])
    BY DEF RingRecent
  <2>2. ultra[s].sampleCount = 0 /\ ultra[s].sampleIndex = 0 /\ recent[s] = <<>>
    BY DEF Init
  <2>3. Len(recent[s]) = 0
    BY <2>2
  <2> QED BY <2>2, <2>3 DEF Holds
<1> QED BY <1>1, <1>3, <1>4, <1>5 DEF IInv

\* A good reading of an ultrasonic ranger.
LEMMA UltrasonicReadStep ==
  ASSUME IInv, NEW s \in Ultrasonics, NEW d \in Delays, NEW cm \in Echoes,
         Passing(d), UltrasonicRead(s, d, cm)
  PROVE  /\ ultra' \in [Ultrasonics -> Ultra]
         /\ recent' \in [Ultrasonics -> Seq(Echoes)]
         /\ \A x \in Ultrasonics : Len(recent'[x]) <= 3
         /\ RingRecent'
         /\ ultra'[s].lastValidTick = now'
         /\ \A x \in Ultrasonics \ {s} : ultra'[x] = ultra[x]
<1> DEFINE u == WithSample(ultra[s], cm, now')
           q == LastThree(Append(recent[s], cm))
<1>1. TypeOK /\ RingRecent
  BY DEF IInv
<1>2. ultra \in [Ultrasonics -> Ultra] /\ recent \in [Ultrasonics -> Seq(Echoes)]
  BY <1>1 DEF TypeOK
<1>3. now' \in Words
  BY <1>1, PassingFacts DEF TypeOK, Passing
<1>4. ultra' = [ultra EXCEPT ![s] = u] /\ recent' = [recent EXCEPT ![s] = q]
  BY DEF UltrasonicRead
<1>5. /\ ultra[s] \in Ultra /\ recent[s] \in Seq(Echoes) /\ Len(recent[s]) \in 0 .. 3
      /\ Holds(ultra[s], recent[s])
  BY <1>1, Parts DEF RingRecent
<1>6. u \in Ultra
  BY <1>3, <1>5, WithSampleType
<1>7. Holds(u, q) /\ q \in Seq(Echoes) /\ Len(q) \in 0 .. 3
  BY <1>3, <1>5, WithSampleHolds
<1>8. u.lastValidTick = now'
  BY DEF WithSample
<1> HIDE DEF u, q
<1>9. /\ ultra' \in [Ultrasonics -> Ultra] /\ recent' \in [Ultrasonics -> Seq(Echoes)]
      /\ ultra'[s] = u /\ recent'[s] = q
      /\ \A x \in Ultrasonics \ {s} : ultra'[x] = ultra[x] /\ recent'[x] = recent[x]
  BY <1>2, <1>4, <1>6, <1>7, Zenon
<1>10. Len(q) <= 3
  <2>1. \A n \in 0 .. 3 : n <= 3
    OBVIOUS
  <2> QED BY <1>7, <2>1, Zenon
<1>11. \A x \in Ultrasonics : Len(recent'[x]) <= 3
  BY <1>1, <1>9, <1>10, Zenon DEF TypeOK
<1>12. \A x \in Ultrasonics : Holds(ultra'[x], recent'[x])
  BY <1>1, <1>7, <1>9, Zenon DEF RingRecent
<1>13. RingRecent'
  BY <1>12, Zenon DEF RingRecent
<1> QED BY <1>8, <1>9, <1>11, <1>13

\* aeb_ultrasonicUpdate, with or without a reading.
LEMMA UltrasonicStep == ASSUME IInv, aeb_ultrasonicUpdate PROVE IInv'
<1>1. PICK d \in Delays, s \in Ultrasonics :
         /\ pc = s
         /\ Passing(d)
         /\ \/ \E cm \in Echoes : UltrasonicRead(s, d, cm)
            \/ UltrasonicMissed(d)
         /\ valid' = IF aeb_isFresh(ultra'[s].lastValidTick, now', UltraStale)
                     THEN valid \union {s} ELSE valid \ {s}
         /\ pc' = After(s)
         /\ tof' = tof /\ sequence' = sequence
  BY DEF aeb_ultrasonicUpdate
<1>2. TypeOK /\ ReadTimed /\ TofFound /\ SearchTimed /\ RingRecent
  BY DEF IInv
<1>3. PICK read \in SUBSET {s} :
         /\ Aging(d, read)
         /\ ultra' \in [Ultrasonics -> Ultra] /\ recent' \in [Ultrasonics -> Seq(Echoes)]
         /\ \A x \in Ultrasonics : Len(recent'[x]) <= 3
         /\ RingRecent'
         /\ s \in read => ultra'[s].lastValidTick = now'
         /\ \A x \in Ultrasonics \ read : ultra'[x] = ultra[x]
  <2>1. CASE \E cm \in Echoes : UltrasonicRead(s, d, cm)
    <3>1. PICK cm \in Echoes : UltrasonicRead(s, d, cm)
      BY <2>1
    <3>2. Aging(d, {s})
      BY <3>1 DEF UltrasonicRead
    <3>3. /\ ultra' \in [Ultrasonics -> Ultra] /\ recent' \in [Ultrasonics -> Seq(Echoes)]
          /\ \A x \in Ultrasonics : Len(recent'[x]) <= 3
          /\ RingRecent'
          /\ ultra'[s].lastValidTick = now'
          /\ \A x \in Ultrasonics \ {s} : ultra'[x] = ultra[x]
      BY <1>1, <3>1, UltrasonicReadStep
    <3>4. {s} \in SUBSET {s}
      OBVIOUS
    <3> QED BY <3>2, <3>3, <3>4, Zenon
  <2>2. CASE UltrasonicMissed(d)
    <3>1. Aging(d, {}) /\ ultra' = ultra /\ recent' = recent
      BY <2>2 DEF UltrasonicMissed
    <3>2. RingRecent'
      BY <1>2, <3>1, Zenon DEF RingRecent
    <3>3. /\ ultra' \in [Ultrasonics -> Ultra] /\ recent' \in [Ultrasonics -> Seq(Echoes)]
          /\ \A x \in Ultrasonics : Len(recent'[x]) <= 3
      BY <1>2, <3>1 DEF TypeOK
    <3>4. {} \in SUBSET {s} /\ s \notin {}
      OBVIOUS
    <3> QED BY <3>1, <3>2, <3>3, <3>4, Zenon
  <2> QED BY <1>1, <2>1, <2>2
<1>4. read \in SUBSET Rangers /\ "tof" \notin read /\ s \in Rangers
  BY <1>1, <1>3, Names
<1>5. /\ now' \in Words /\ readAge' \in [Rangers -> Ages] /\ searchAge' \in Ages
      /\ readAge'["tof"] < WordSize => readAge'["tof"] = readAge["tof"] + d
  BY <1>1, <1>2, <1>3, <1>4, AgingFacts, Names
<1>6. TypeOK'
  <2>1. pc' \in Steps
    BY <1>1, AfterFacts DEF Steps
  <2>2. tof' \in Tof /\ sequence' \in 0 .. InitDelay
    BY <1>1, <1>2 DEF TypeOK
  <2>3. valid' \in SUBSET Rangers
    <3>1. valid \in SUBSET Rangers
      BY <1>2 DEF TypeOK
    <3> QED BY <1>1, <1>4, <3>1
  <2> QED BY <1>3, <1>5, <2>1, <2>2, <2>3 DEF TypeOK
<1>7. ReadTimed'
  <2>1. \A r \in read : LastValidTick(r)' = now'
    BY <1>1, <1>3, Names DEF LastValidTick
  <2>2. \A r \in Rangers \ read : LastValidTick(r)' = LastValidTick(r)
    BY <1>1, <1>3, Names DEF LastValidTick, Rangers
  <2>3. \A r \in Rangers : LastValidTick(r) \in Words
    BY <1>2, Parts
  <2> QED BY <1>1, <1>2, <1>3, <1>4, <2>1, <2>2, <2>3, ReadTimedStep
<1>8. TofFound'
  <2>1. pc' # "search"
    BY <1>1, AfterFacts, Names DEF Rangers
  <2>2. ASSUME readAge'["tof"] < WordSize PROVE tof'.present
    <3>1. readAge["tof"] < WordSize
      BY <1>2, <1>5, <2>2, Names, Bounds DEF TypeOK, Ages
    <3> QED BY <1>1, <1>2, <3>1 DEF TofFound
  <2> QED BY <2>1, <2>2 DEF TofFound
<1>9. ValidExactWithinWrap'
  <2>1. JustDecided' = {s}
    BY <1>1, DecidedFacts DEF JustDecided, Decided
  <2>2. StaleAfter(s) = UltraStale /\ LastValidTick(s)' = ultra'[s].lastValidTick
    BY <1>1, Names DEF StaleAfter, LastValidTick
  <2>3. ASSUME readAge'[s] < WordSize
        PROVE  s \in valid' <=> readAge'[s] <= UltraStale /\ LastValidTick(s)' # 0
    <3>1. WordSub(now', ultra'[s].lastValidTick) = readAge'[s]
      BY <1>4, <1>7, <2>2, <2>3 DEF ReadTimed
    <3>2. readAge'[s] \in Ages /\ ultra'[s].lastValidTick \in Words
      BY <1>1, <1>3, <1>4, <1>5 DEF Ultra
    <3>3. aeb_isFresh(ultra'[s].lastValidTick, now', UltraStale)
            <=> readAge'[s] <= UltraStale /\ ultra'[s].lastValidTick # 0
      BY <1>5, <3>1, <3>2, FreshExact, Bounds
    <3>4. s \in valid' <=> aeb_isFresh(ultra'[s].lastValidTick, now', UltraStale)
      BY <1>1
    <3> QED BY <2>2, <3>3, <3>4
  <2> QED BY <2>1, <2>2, <2>3 DEF ValidExactWithinWrap, StaleAfter
<1>10. SearchTimed'
  BY <1>1, <1>2, <1>3, <1>4, SearchTimedStep
<1> QED BY <1>3, <1>6, <1>7, <1>8, <1>9, <1>10 DEF IInv

\* aeb_tofUpdate, with or without a reading.
LEMMA TofStep == ASSUME IInv, aeb_tofUpdate PROVE IInv'
<1>1. PICK d \in Delays :
         /\ pc = "tof"
         /\ Passing(d)
         /\ \/ tof.present /\ \E cm \in Ranges : TofRead(d, cm)
            \/ TofMissed(d)
         /\ valid' = IF tof.present /\ aeb_isFresh(tof'.lastValidTick, now', TofStale)
                     THEN valid \union {"tof"} ELSE valid \ {"tof"}
         /\ pc' = "send"
         /\ ultra' = ultra /\ sequence' = sequence /\ recent' = recent
  BY DEF aeb_tofUpdate
<1>2. TypeOK /\ ReadTimed /\ TofFound /\ SearchTimed /\ RingRecent
  BY DEF IInv
<1>3. now' \in Words
  BY <1>1, <1>2, PassingFacts DEF TypeOK, Passing
<1>4. PICK read \in SUBSET {"tof"} :
         /\ Aging(d, read)
         /\ tof' \in Tof
         /\ tof'.present = tof.present
         /\ tof'.nextInit = tof.nextInit /\ tof'.initAttempted = tof.initAttempted
         /\ "tof" \in read => tof'.lastValidTick = now' /\ tof.present
         /\ "tof" \notin read => tof'.lastValidTick = tof.lastValidTick
  <2>1. CASE tof.present /\ \E cm \in Ranges : TofRead(d, cm)
    <3>1. PICK cm \in Ranges : TofRead(d, cm)
      BY <2>1
    <3>2. tof' = [tof EXCEPT !.cm = cm, !.lastValidTick = now'] /\ Aging(d, {"tof"})
      BY <3>1 DEF TofRead
    <3>3. tof \in Tof /\ cm \in Nat
      BY <1>2, SensorAssumption DEF TypeOK
    <3>4. /\ tof' \in Tof /\ tof'.present = tof.present
          /\ tof'.nextInit = tof.nextInit /\ tof'.initAttempted = tof.initAttempted
          /\ tof'.lastValidTick = now'
      BY <1>3, <3>2, <3>3 DEF Tof
    <3>5. {"tof"} \in SUBSET {"tof"}
      OBVIOUS
    <3> QED BY <2>1, <3>2, <3>4, <3>5, Zenon
  <2>2. CASE TofMissed(d)
    <3>1. Aging(d, {}) /\ tof' = tof
      BY <2>2 DEF TofMissed
    <3>2. tof' \in Tof
      BY <1>2, <3>1 DEF TypeOK
    <3>3. {} \in SUBSET {"tof"} /\ "tof" \notin {}
      OBVIOUS
    <3> QED BY <3>1, <3>2, <3>3, Zenon
  <2> QED BY <1>1, <2>1, <2>2
<1>5. read \in SUBSET Rangers /\ "tof" \in Rangers
  BY <1>4, Names
<1>6. /\ readAge' \in [Rangers -> Ages] /\ searchAge' \in Ages
      /\ "tof" \notin read /\ readAge'["tof"] < WordSize => readAge'["tof"] = readAge["tof"] + d
  BY <1>1, <1>2, <1>4, <1>5, AgingFacts
<1>7. TypeOK'
  <2>1. valid' \in SUBSET Rangers
    BY <1>1, <1>2, <1>5 DEF TypeOK
  <2>2. /\ ultra' \in [Ultrasonics -> Ultra] /\ sequence' \in 0 .. InitDelay
        /\ recent' \in [Ultrasonics -> Seq(Echoes)]
        /\ \A s \in Ultrasonics : Len(recent'[s]) <= 3
    BY <1>1, <1>2 DEF TypeOK
  <2> QED BY <1>1, <1>3, <1>4, <1>6, <2>1, <2>2 DEF TypeOK, Steps
<1>8. ReadTimed'
  <2>1. \A r \in read : LastValidTick(r)' = now'
    BY <1>4 DEF LastValidTick
  <2>2. \A r \in Rangers \ read : LastValidTick(r)' = LastValidTick(r)
    BY <1>1, <1>4 DEF LastValidTick
  <2>3. \A r \in Rangers : LastValidTick(r) \in Words
    BY <1>2, Parts
  <2> QED BY <1>1, <1>2, <1>4, <1>5, <2>1, <2>2, <2>3, ReadTimedStep
<1>9. readAge'["tof"] < WordSize => tof.present
  <2>1. CASE "tof" \in read
    BY <1>4, <2>1
  <2>2. CASE "tof" \notin read
    <3>1. readAge'["tof"] < WordSize => readAge["tof"] < WordSize
      BY <1>2, <1>5, <1>6, <2>2, Bounds DEF TypeOK, Ages
    <3> QED BY <1>2, <3>1 DEF TofFound
  <2> QED BY <2>1, <2>2
<1>10. TofFound'
  BY <1>1, <1>4, <1>9 DEF TofFound
<1>11. ValidExactWithinWrap'
  <2>1. JustDecided' = {"tof"}
    BY <1>1, DecidedFacts DEF JustDecided, Decided
  <2>2. LastValidTick("tof")' = tof'.lastValidTick
    BY DEF LastValidTick
  <2>3. ASSUME readAge'["tof"] < WordSize
        PROVE  "tof" \in valid' <=> readAge'["tof"] <= TofStale /\ LastValidTick("tof")' # 0
    <3>1. WordSub(now', tof'.lastValidTick) = readAge'["tof"]
      BY <1>5, <1>8, <2>2, <2>3 DEF ReadTimed
    <3>2. readAge'["tof"] \in Ages /\ tof'.lastValidTick \in Words
      BY <1>4, <1>5, <1>6 DEF Tof
    <3>3. aeb_isFresh(tof'.lastValidTick, now', TofStale)
            <=> readAge'["tof"] <= TofStale /\ tof'.lastValidTick # 0
      BY <1>3, <3>1, <3>2, FreshExact, Bounds
    <3>4. "tof" \in valid' <=> aeb_isFresh(tof'.lastValidTick, now', TofStale)
      BY <1>1, <1>9, <2>3
    <3> QED BY <2>2, <3>3, <3>4
  <2> QED BY <2>1, <2>2, <2>3 DEF ValidExactWithinWrap, StaleAfter
<1>12. SearchTimed'
  BY <1>1, <1>2, <1>4, <1>5, SearchTimedStep
<1>13. RingRecent'
  BY <1>1, <1>2, Zenon DEF RingRecent
<1> QED BY <1>7, <1>8, <1>10, <1>11, <1>12, <1>13 DEF IInv

\* The three steps after the readings leave rings, valid bits and the types of
\* the other parts alone.
LEMMA QuietParts ==
  ASSUME IInv, UNCHANGED <<ultra, valid, recent>>
  PROVE  /\ ultra' \in [Ultrasonics -> Ultra] /\ valid' \in SUBSET Rangers
         /\ recent' \in [Ultrasonics -> Seq(Echoes)]
         /\ \A s \in Ultrasonics : Len(recent'[s]) <= 3
         /\ RingRecent'
<1>1. TypeOK /\ RingRecent
  BY DEF IInv
<1>2. RingRecent'
  BY <1>1, Zenon DEF RingRecent
<1> QED BY <1>1, <1>2 DEF TypeOK

\* A step of d ticks without a reading.
LEMMA QuietTime ==
  ASSUME IInv, NEW d \in Delays, Passing(d), Aging(d, {}), UNCHANGED ultra,
         tof'.lastValidTick = tof.lastValidTick,
         tof'.nextInit = tof.nextInit, tof'.initAttempted = tof.initAttempted
  PROVE  /\ now' \in Words /\ readAge' \in [Rangers -> Ages] /\ searchAge' \in Ages
         /\ ReadTimed' /\ SearchTimed'
         /\ readAge'["tof"] < WordSize => tof.present
<1>1. TypeOK /\ ReadTimed /\ SearchTimed /\ TofFound
  BY DEF IInv
<1>2. {} \in SUBSET Rangers
  OBVIOUS
<1>3. \A r \in Rangers : LastValidTick(r) \in Words /\ LastValidTick(r)' = LastValidTick(r)
  BY <1>1, Parts DEF LastValidTick
<1>4. ReadTimed'
  BY <1>1, <1>2, <1>3, ReadTimedStep
<1>5. SearchTimed'
  BY <1>1, <1>2, SearchTimedStep
<1>6. /\ now' \in Words /\ readAge' \in [Rangers -> Ages] /\ searchAge' \in Ages
      /\ readAge'["tof"] < WordSize => readAge'["tof"] = readAge["tof"] + d
  BY <1>1, <1>2, Names, AgingFacts
<1>7. readAge'["tof"] < WordSize => readAge["tof"] < WordSize
  BY <1>1, <1>6, Names, Bounds DEF TypeOK, Ages
<1> QED BY <1>1, <1>4, <1>5, <1>6, <1>7 DEF TofFound

\* aeb_sendFrame.
LEMMA SendStep == ASSUME IInv, aeb_sendFrame PROVE IInv'
<1>1. /\ pc = "send" /\ pc' = "check"
      /\ sequence' = IF sequence < InitDelay THEN sequence + 1 ELSE InitDelay
      /\ now' = now /\ ultra' = ultra /\ tof' = tof /\ valid' = valid
      /\ recent' = recent /\ readAge' = readAge /\ searchAge' = searchAge
  BY DEF aeb_sendFrame, observer
<1>2. TypeOK /\ ReadTimed /\ TofFound /\ SearchTimed
  BY DEF IInv
<1>3. TypeOK'
  <2>1. sequence' \in 0 .. InitDelay
    BY <1>1, <1>2, Bounds DEF TypeOK
  <2>2. pc' \in Steps
    BY <1>1 DEF Steps
  <2> QED BY <1>1, <1>2, <2>1, <2>2, QuietParts DEF TypeOK
<1>4. ReadTimed' /\ TofFound' /\ SearchTimed'
  BY <1>1, <1>2 DEF ReadTimed, TofFound, SearchTimed, LastValidTick
<1>5. ValidExactWithinWrap'
  <2>1. JustDecided' = {}
    BY <1>1, DecidedFacts DEF JustDecided, Decided
  <2> QED BY <2>1 DEF ValidExactWithinWrap
<1> QED BY <1>1, <1>3, <1>4, <1>5, QuietParts DEF IInv

\* The end of the loop, with the start of a search or without one; a search
\* starts no sooner than Retry after the last one.
LEMMA CheckStep ==
  ASSUME IInv, CheckSearch
  PROVE  IInv' /\ (pc' = "search" => searchAge >= Retry)
<1>1. /\ pc = "check" /\ ultra' = ultra /\ valid' = valid
      /\ sequence' = sequence /\ recent' = recent
  BY DEF CheckSearch
<1>2. TypeOK /\ ReadTimed /\ TofFound /\ SearchTimed
  BY DEF IInv
<1>3. CASE /\ SearchDue
           /\ tof' = [tof EXCEPT !.initAttempted = TRUE, !.nextInit = WordAdd(now, Retry)]
           /\ pc' = "search"
           /\ searchAge' = 0
           /\ now' = now /\ readAge' = readAge
  <2>1. now \in Words /\ tof \in Tof
    BY <1>2 DEF TypeOK
  <2>2. WordAdd(now, Retry) \in Words
    BY <2>1, Bounds DEF Words, WordAdd
  <2>3. /\ tof' \in Tof /\ tof'.initAttempted = TRUE /\ tof'.nextInit = WordAdd(now, Retry)
        /\ tof'.present = tof.present /\ tof'.lastValidTick = tof.lastValidTick
    BY <1>3, <2>1, <2>2 DEF Tof
  <2>4. TypeOK'
    <3>1. 0 \in Ages
      BY Bounds DEF Ages
    <3>2. pc' \in Steps
      BY <1>3 DEF Steps
    <3> QED BY <1>1, <1>2, <1>3, <2>3, <3>1, <3>2, QuietParts DEF TypeOK
  <2>5. ReadTimed' /\ TofFound'
    <3>1. ~tof.present
      BY <1>3 DEF SearchDue
    <3> QED BY <1>1, <1>2, <1>3, <2>3, <3>1 DEF ReadTimed, TofFound, LastValidTick
  <2>6. SearchTimed'
    <3>1. WordSub(WordAdd(now, Retry), now) = Retry - 0
      BY <2>1, Bounds DEF Words, WordAdd, WordSub
    <3> QED BY <1>3, <2>3, <3>1 DEF SearchTimed
  <2>7. ValidExactWithinWrap'
    <3>1. JustDecided' = {}
      BY <1>3, DecidedFacts DEF JustDecided, Decided
    <3> QED BY <3>1 DEF ValidExactWithinWrap
  <2>8. ASSUME searchAge < Retry PROVE FALSE
    <3>1. tof.initAttempted /\ WordSub(tof.nextInit, now) = Retry - searchAge
      BY <1>2, <2>8 DEF SearchTimed
    <3>2. WordSub(now, tof.nextInit) < HalfWord
      BY <1>3, <3>1 DEF SearchDue
    <3>3. searchAge \in Nat /\ tof.nextInit \in Words
      BY <1>2 DEF TypeOK, Ages, Tof
    <3>4. WordSub(now, tof.nextInit) = WordSize - (Retry - searchAge)
      BY <2>1, <2>8, <3>1, <3>3, Bounds DEF Words, WordSub
    <3> QED BY <2>8, <3>2, <3>3, <3>4, Bounds
  <2>9. searchAge >= Retry
    BY <1>2, <2>8, Bounds DEF TypeOK, Ages
  <2> QED BY <1>1, <2>4, <2>5, <2>6, <2>7, <2>9, QuietParts DEF IInv
<1>4. CASE /\ pc' = Sides[1]
           /\ \E d \in Delays : Passing(d) /\ Aging(d, {})
           /\ tof' = tof
  <2>1. PICK d \in Delays : Passing(d) /\ Aging(d, {})
    BY <1>4
  <2>2. /\ now' \in Words /\ readAge' \in [Rangers -> Ages] /\ searchAge' \in Ages
        /\ ReadTimed' /\ SearchTimed'
        /\ readAge'["tof"] < WordSize => tof.present
    BY <1>1, <1>4, <2>1, QuietTime
  <2>3. TypeOK'
    BY <1>1, <1>2, <1>4, <2>2, Names, QuietParts DEF TypeOK, Steps
  <2>4. pc' # "search"
    BY <1>4, Names
  <2>5. TofFound'
    BY <1>4, <2>2, <2>4 DEF TofFound
  <2>6. ValidExactWithinWrap'
    <3>1. JustDecided' = {}
      BY <1>4, DecidedFacts DEF JustDecided, Decided
    <3> QED BY <3>1 DEF ValidExactWithinWrap
  <2> QED BY <1>1, <2>2, <2>3, <2>4, <2>5, <2>6, QuietParts DEF IInv
<1> QED BY <1>3, <1>4 DEF CheckSearch

\* aeb_tofInit: only a missing ranger is searched for, so a failed search takes
\* nothing away.
LEMMA TofInitStep == ASSUME IInv, aeb_tofInit PROVE IInv' /\ pc' # "search"
<1>1. PICK d \in Delays, found \in BOOLEAN :
         /\ pc = "search"
         /\ Passing(d) /\ Aging(d, {})
         /\ tof' = [tof EXCEPT !.present = found]
         /\ pc' = Sides[1]
         /\ ultra' = ultra /\ valid' = valid /\ sequence' = sequence /\ recent' = recent
  BY DEF aeb_tofInit
<1>2. TypeOK /\ TofFound
  BY DEF IInv
<1>3. /\ tof' \in Tof /\ tof'.lastValidTick = tof.lastValidTick
      /\ tof'.nextInit = tof.nextInit /\ tof'.initAttempted = tof.initAttempted
  BY <1>1, <1>2 DEF TypeOK, Tof
<1>4. /\ now' \in Words /\ readAge' \in [Rangers -> Ages] /\ searchAge' \in Ages
      /\ ReadTimed' /\ SearchTimed'
      /\ readAge'["tof"] < WordSize => tof.present
  BY <1>1, <1>3, QuietTime
<1>5. TypeOK'
  BY <1>1, <1>2, <1>3, <1>4, Names, QuietParts DEF TypeOK, Steps
<1>6. pc' # "search"
  BY <1>1, Names
<1>7. TofFound'
  BY <1>1, <1>2, <1>4, <1>6 DEF TofFound
<1>8. ValidExactWithinWrap'
  <2>1. JustDecided' = {}
    BY <1>1, DecidedFacts DEF JustDecided, Decided
  <2> QED BY <2>1 DEF ValidExactWithinWrap
<1> QED BY <1>1, <1>4, <1>5, <1>6, <1>7, <1>8, QuietParts DEF IInv

\* Every step keeps the invariant, and starts a search only when one is due.
LEMMA NextStep ==
  IInv /\ [Next]_vars
    => IInv' /\ (pc' = "search" /\ pc # "search" => searchAge >= Retry)
<1> SUFFICES ASSUME IInv, [Next]_vars
             PROVE  IInv' /\ (pc' = "search" /\ pc # "search" => searchAge >= Retry)
  OBVIOUS
<1>1. CASE aeb_ultrasonicUpdate
  <2>1. pc' # "search"
    BY <1>1, AfterFacts, Names DEF aeb_ultrasonicUpdate, Rangers
  <2> QED BY <1>1, <2>1, UltrasonicStep
<1>2. CASE aeb_tofUpdate
  <2>1. pc' # "search"
    BY <1>2 DEF aeb_tofUpdate
  <2> QED BY <1>2, <2>1, TofStep
<1>3. CASE aeb_sendFrame
  <2>1. pc' # "search"
    BY <1>3 DEF aeb_sendFrame
  <2> QED BY <1>3, <2>1, SendStep
<1>4. CASE CheckSearch
  BY <1>4, CheckStep
<1>5. CASE aeb_tofInit
  BY <1>5, TofInitStep
<1>6. CASE UNCHANGED vars
  <2>1. /\ now' = now /\ pc' = pc /\ ultra' = ultra /\ tof' = tof /\ valid' = valid
        /\ sequence' = sequence /\ recent' = recent /\ readAge' = readAge
        /\ searchAge' = searchAge
    BY <1>6 DEF vars, observer
  <2>2. TypeOK' /\ RingRecent'
    BY <2>1, QuietParts DEF IInv, TypeOK
  <2>3. ReadTimed' /\ TofFound' /\ SearchTimed' /\ ValidExactWithinWrap'
    BY <2>1 DEF IInv, ReadTimed, TofFound, SearchTimed, ValidExactWithinWrap,
                LastValidTick, JustDecided, StaleAfter
  <2> QED BY <2>1, <2>2, <2>3 DEF IInv
<1> QED BY <1>1, <1>2, <1>3, <1>4, <1>5, <1>6 DEF Next

\* IInv is invariant.
LEMMA InductiveInvariant == Spec => []IInv
BY InitIInv, NextStep, PTL DEF Spec

-----------------------------------------------------------------------------
(***************************************************************************)
(* The theorems.                                                           *)
(***************************************************************************)

\* Three distinct positions are three.
LEMMA ThreePositions ==
  ASSUME NEW i, NEW j, NEW k, i # j, j # k, i # k
  PROVE  Cardinality({i, j, k}) = 3
<1>1. IsFiniteSet({i}) /\ Cardinality({i}) = 1
  BY FS_Singleton
<1>2. IsFiniteSet({i} \union {j}) /\ Cardinality({i} \union {j}) = 2
  BY <1>1, FS_AddElement
<1>3. Cardinality(({i} \union {j}) \union {k}) = 3
  BY <1>2, FS_AddElement
<1>4. {i, j, k} = ({i} \union {j}) \union {k}
  OBVIOUS
<1> QED BY <1>3, <1>4

\* The rangers' rings, ticks, valid bits and the loop's program counter keep
\* their types: in particular the ring is never indexed outside its three
\* places (aeb_ultrasonicUpdate).
THEOREM TypeCorrect == Spec => []TypeOK
<1>1. IInv => TypeOK
  BY DEF IInv
<1> QED BY <1>1, InductiveInvariant, PTL

\* A single outlier never becomes the filtered distance (aeb_median3 on the ring
\* that aeb_ultrasonicUpdate fills), in whatever order good and failed readings
\* come, for any number of rangers and any distances.
THEOREM MedianFilters == Spec => []OutlierRejected
<1>1. ASSUME IInv PROVE OutlierRejected
  <2>1. SUFFICES ASSUME NEW s \in Ultrasonics, Len(recent[s]) = 3
                 PROVE  \E i, j, k \in 1 .. 3 :
                           /\ Cardinality({i, j, k}) = 3
                           /\ recent[s][i] <= ultra[s].filtered
                           /\ recent[s][j] = ultra[s].filtered
                           /\ recent[s][k] >= ultra[s].filtered
    BY DEF OutlierRejected
  <2> DEFINE f == ultra[s].samples
             n == ultra[s].sampleIndex
             q == recent[s]
             m == ultra[s].filtered
  <2>2. Holds(ultra[s], recent[s]) /\ ultra[s] \in Ultra
    BY <1>1, Parts DEF IInv, RingRecent
  <2>3. f \in [0 .. 2 -> Nat] /\ n \in 0 .. 2 /\ m = aeb_median3(f, 3)
    BY <2>1, <2>2 DEF Holds, Ultra
  <2>4. \A k \in 1 .. 3 : f[(n + k - 1) % 3] = q[k]
    BY <2>1, <2>2 DEF Holds
  <2> HIDE DEF f, n, q, m
  <2>5. PICK a, b, c \in 0 .. 2 :
           a # b /\ b # c /\ a # c /\ f[a] <= m /\ f[b] = m /\ f[c] >= m
    BY <2>3, MedianMiddle
  <2>6. \A x \in 0 .. 2 : \E k \in 1 .. 3 : (n + k - 1) % 3 = x
    <3>1. CASE n = 0
      <4>1. (0 + 1 - 1) % 3 = 0 /\ (0 + 2 - 1) % 3 = 1 /\ (0 + 3 - 1) % 3 = 2
        OBVIOUS
      <4> QED BY <3>1, <4>1
    <3>2. CASE n = 1
      <4>1. (1 + 1 - 1) % 3 = 1 /\ (1 + 2 - 1) % 3 = 2 /\ (1 + 3 - 1) % 3 = 0
        OBVIOUS
      <4> QED BY <3>2, <4>1
    <3>3. CASE n = 2
      <4>1. (2 + 1 - 1) % 3 = 2 /\ (2 + 2 - 1) % 3 = 0 /\ (2 + 3 - 1) % 3 = 1
        OBVIOUS
      <4> QED BY <3>3, <4>1
    <3> QED BY <2>3, <3>1, <3>2, <3>3
  <2>7. PICK i \in 1 .. 3 : (n + i - 1) % 3 = a
    BY <2>6
  <2>8. PICK j \in 1 .. 3 : (n + j - 1) % 3 = b
    BY <2>6
  <2>9. PICK k \in 1 .. 3 : (n + k - 1) % 3 = c
    BY <2>6
  <2>10. i # j /\ j # k /\ i # k
    BY <2>5, <2>7, <2>8, <2>9
  <2>11. q[i] = f[a] /\ q[j] = f[b] /\ q[k] = f[c]
    BY <2>4, <2>7, <2>8, <2>9
  <2>12. q[i] <= m /\ q[j] = m /\ q[k] >= m
    BY <2>5, <2>11
  <2>13. Cardinality({i, j, k}) = 3
    BY <2>10, ThreePositions
  <2> QED BY <2>12, <2>13, Zenon DEF q, m
<1> QED BY <1>1, InductiveInvariant, PTL

\* The valid bits of the AEB1 frame are exact while no ranger has been silent
\* for a turn of the tick counter (aeb_isFresh in aeb_ultrasonicUpdate and
\* aeb_tofUpdate), wherever the counter stood at the start.
THEOREM ValidBitsExact == Spec => []ValidExactWithinWrap
<1>1. IInv => ValidExactWithinWrap
  BY DEF IInv
<1> QED BY <1>1, InductiveInvariant, PTL

\* Two searches for the ToF ranger start at least the retry interval apart
\* (the end of AebSensorNode_runOnce), across wraps of the tick counter.
THEOREM SearchesApart == Spec => SearchesSpaced
<1>1. IInv /\ [Next]_vars => [pc' = "search" /\ pc # "search" => searchAge >= Retry]_pc
  BY NextStep
<1> QED BY <1>1, InductiveInvariant, PTL DEF Spec, SearchesSpaced
=============================================================================
