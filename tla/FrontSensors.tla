---------------------------- MODULE FrontSensors ----------------------------
(***************************************************************************)
(* The sensor half of the FRONT node: AebSensorNode_runOnce with its two   *)
(* ultrasonic rangers, its time-of-flight ranger and the AEB1 frame it     *)
(* sends.  Each ranger keeps the tick of its last good reading, and a      *)
(* reading counts as fresh for a while after that tick, by unsigned        *)
(* subtraction on the 32-bit tick counter.  An ultrasonic ranger also      *)
(* filters: a ring of its last three good readings and their median.  A    *)
(* time-of-flight ranger that has not been found is looked for again once  *)
(* per retry interval, which blocks the loop.                              *)
(*                                                                         *)
(* Every step takes some ticks.  Diagnostic codes, pins, the I2C register  *)
(* traffic and the layout of the frame are left out, and so are the        *)
(* steering bits of the valid mask, which FrontSteering's state gives.     *)
(***************************************************************************)
EXTENDS WordArith, Sequences, FiniteSets

CONSTANTS
    Sides,          \* the ultrasonic rangers, in the order they are read
    Echoes,         \* the distances an ultrasonic reading can give, in limits
    Ranges,         \* the distances a ToF reading can give, in limits
    UltraStale, TofStale,   \* AEB_ULTRA_STALE_MS, AEB_TOF_STALE_MS in ticks
    Retry,          \* AEB_TOF_RETRY_INTERVAL_MS in ticks
    InitDelay,      \* AEB_TOF_INIT_DELAY_FRAMES
    Delays,         \* the ticks a step can take
    AgeCap          \* where the observer's ages saturate

\* The rangers are distinct, and their names are not those of other steps.
ASSUME SidesAssumption ==
    /\ Sides \in Seq(STRING) \ {<<>>}
    /\ \A i, j \in DOMAIN Sides : Sides[i] = Sides[j] => i = j
    /\ \A i \in DOMAIN Sides : Sides[i] \notin {"tof", "send", "check", "search"}

\* The retry interval (1 s) is far below half a turn of the counter (21 s), and
\* the observer can tell ages of up to a whole turn apart.
ASSUME SensorAssumption ==
    /\ Echoes \subseteq Nat \ {0} /\ Ranges \subseteq Nat \ {0}
    /\ UltraStale \in Nat /\ TofStale \in Nat /\ InitDelay \in Nat
    /\ Retry \in 0 .. HalfWord
    /\ Delays \subseteq 1 .. WordSize - 1
    /\ AgeCap \in Nat /\ AgeCap >= WordSize

Ultrasonics == {Sides[i] : i \in DOMAIN Sides}
Rangers     == Ultrasonics \union {"tof"}

VARIABLES
    now,        \* the tick counter
    pc,         \* the next step: a ranger to read, or a later step
    ultra,      \* g_leftUltrasonic and g_rightUltrasonic
    tof,        \* g_tofPresent, g_tofCmX10, g_tofLastValidTick, ...
    valid,      \* leftValid, rightValid and tofValid, as a set
    sequence,   \* g_latestFrame.sequence: the frames sent so far
    \* Observer only: the last three good readings of each ultrasonic ranger,
    \* oldest first; the true time since each ranger's last good reading and
    \* since the last search.
    recent, readAge, searchAge

observer == <<recent, readAge, searchAge>>
vars     == <<now, pc, ultra, tof, valid, sequence, observer>>

Ages     == 0 .. AgeCap
Ultra    == [samples : [0 .. 2 -> Nat], sampleCount : 0 .. 3, sampleIndex : 0 .. 2,
             filtered : Nat, lastValidTick : Words]
Tof      == [present : BOOLEAN, cm : Nat, lastValidTick : Words,
             nextInit : Words, initAttempted : BOOLEAN]
Steps    == Rangers \union {"send", "check", "search"}

TypeOK ==
    /\ now \in Words
    /\ pc \in Steps
    /\ ultra \in [Ultrasonics -> Ultra]
    /\ tof \in Tof
    /\ valid \in SUBSET Rangers
    /\ sequence \in 0 .. InitDelay
    /\ recent \in [Ultrasonics -> Seq(Echoes)]
    /\ \A s \in Ultrasonics : Len(recent[s]) <= 3
    /\ readAge \in [Rangers -> Ages] /\ searchAge \in Ages

\* AebSensorNode_init, on a counter that can stand anywhere.
Init ==
    /\ now \in Words
    /\ pc = Sides[1]
    /\ ultra = [s \in Ultrasonics |->
                  [samples |-> [i \in 0 .. 2 |-> 0], sampleCount |-> 0,
                   sampleIndex |-> 0, filtered |-> 0, lastValidTick |-> 0]]
    /\ tof = [present |-> FALSE, cm |-> 0, lastValidTick |-> 0,
              nextInit |-> WordAdd(now, Retry), initAttempted |-> FALSE]
    /\ valid = {}
    /\ sequence = 0
    /\ recent = [s \in Ultrasonics |-> <<>>]
    /\ readAge = [r \in Rangers |-> AgeCap]
    /\ searchAge = AgeCap

-----------------------------------------------------------------------------
Capped(age, d) == IF age + d <= AgeCap THEN age + d ELSE AgeCap

LastThree(readings) == SubSeq(readings, IF Len(readings) > 3 THEN 2 ELSE 1, Len(readings))

\* The step takes d ticks.
Passing(d) == now' = WordAdd(now, d)

\* What follows the reading of a side: the next side, or the ToF ranger.
After(s) ==
    LET i == CHOOSE i \in DOMAIN Sides : Sides[i] = s
    IN  IF i = Len(Sides) THEN "tof" ELSE Sides[i + 1]

\* The true ages after a step of d ticks in which the rangers in read gave a
\* reading.
Aging(d, read) ==
    /\ readAge' = [r \in Rangers |-> IF r \in read THEN 0 ELSE Capped(readAge[r], d)]
    /\ searchAge' = Capped(searchAge, d)

\* Mutant of aeb_isFresh: the time since the reading is not looked at.
aeb_isFresh_Never(lastValidTick, at, stale) == lastValidTick # 0

aeb_isFresh(lastValidTick, at, stale) ==
    lastValidTick # 0 /\ WordSub(at, lastValidTick) <= stale

\* Mutant of aeb_median3: the last exchange is missing.
aeb_median3_TwoExchanges(samples, count) ==
    LET b == IF samples[0] > samples[1] THEN samples[0] ELSE samples[1]
    IN  CASE count = 0 -> 0
          [] count = 1 -> samples[0]
          [] count = 2 -> (samples[0] + samples[1]) \div 2
          [] count = 3 -> IF b > samples[2] THEN samples[2] ELSE b

\* The middle of three samples; of fewer, their mean.
aeb_median3(samples, count) ==
    CASE count = 0 -> 0
      [] count = 1 -> samples[0]
      [] count = 2 -> (samples[0] + samples[1]) \div 2
      [] count = 3 -> LET a == IF samples[0] > samples[1] THEN samples[1] ELSE samples[0]
                          b == IF samples[0] > samples[1] THEN samples[0] ELSE samples[1]
                          c == IF b > samples[2] THEN samples[2] ELSE b
                      IN  IF a > c THEN a ELSE c

\* Mutant of WithSample: the index of the ring runs past its end.
WithSample_NoWrap(u, cm, at) ==
    [samples |-> [u.samples EXCEPT ![u.sampleIndex] = cm], sampleCount |-> u.sampleCount,
     sampleIndex |-> u.sampleIndex + 1, filtered |-> cm, lastValidTick |-> at]

\* The ranger after a good reading taken at tick `at`.
WithSample(u, cm, at) ==
    LET samples == [u.samples EXCEPT ![u.sampleIndex] = cm]
        count   == IF u.sampleCount < 3 THEN u.sampleCount + 1 ELSE 3
    IN  [samples |-> samples, sampleCount |-> count,
         sampleIndex |-> (u.sampleIndex + 1) % 3,
         filtered |-> aeb_median3(samples, count), lastValidTick |-> at]

\* aeb_ultrasonicUpdate of one side, and the crosstalk delay.  The echo may be
\* missing, never end or lie outside the limits: then nothing but the
\* diagnostic changes.
UltrasonicRead(s, d, cm) ==
    /\ ultra' = [ultra EXCEPT ![s] = WithSample(@, cm, now')]
    /\ recent' = [recent EXCEPT ![s] = LastThree(Append(@, cm))]
    /\ Aging(d, {s})

UltrasonicMissed(d) == Aging(d, {}) /\ UNCHANGED <<ultra, recent>>

aeb_ultrasonicUpdate ==
    \E d \in Delays :
       /\ pc \in Ultrasonics
       /\ Passing(d)
       /\ \/ \E cm \in Echoes : UltrasonicRead(pc, d, cm)
          \/ UltrasonicMissed(d)
       /\ valid' = IF aeb_isFresh(ultra'[pc].lastValidTick, now', UltraStale)
                   THEN valid \union {pc} ELSE valid \ {pc}
       /\ pc' = After(pc)
       /\ UNCHANGED <<tof, sequence>>

\* aeb_tofUpdate.  A measurement that fails at any of its five places leaves
\* all but the diagnostic as it was; a ranger once found stays present.
TofRead(d, cm) ==
    /\ tof' = [tof EXCEPT !.cm = cm, !.lastValidTick = now']
    /\ Aging(d, {"tof"})

TofMissed(d) == Aging(d, {}) /\ UNCHANGED tof

aeb_tofUpdate ==
    \E d \in Delays :
       /\ pc = "tof"
       /\ Passing(d)
       /\ \/ tof.present /\ \E cm \in Ranges : TofRead(d, cm)
          \/ TofMissed(d)
       /\ valid' = IF tof.present /\ aeb_isFresh(tof'.lastValidTick, now', TofStale)
                   THEN valid \union {"tof"} ELSE valid \ {"tof"}
       /\ pc' = "send"
       /\ UNCHANGED <<ultra, sequence, recent>>

\* The frame is filled in from ultra, tof and valid, numbered and sent.  Of the
\* sequence number only the comparison with InitDelay is used, so it saturates
\* there (it would need 2^32 frames, over five years, to wrap).
aeb_sendFrame ==
    /\ pc = "send"
    /\ sequence' = IF sequence < InitDelay THEN sequence + 1 ELSE InitDelay
    /\ pc' = "check"
    /\ UNCHANGED <<now, ultra, tof, valid, observer>>

\* Mutant of SearchDue: the ranger is looked for only once.
SearchDue_Once == ~tof.present /\ sequence >= InitDelay /\ ~tof.initAttempted

\* Mutant of SearchDue: the deadline is compared the wrong way round.
SearchDue_Early ==
    /\ ~tof.present
    /\ sequence >= InitDelay
    /\ ~tof.initAttempted \/ WordSub(tof.nextInit, now) < HalfWord

\* The condition before aeb_tofInit.
SearchDue ==
    /\ ~tof.present
    /\ sequence >= InitDelay
    /\ ~tof.initAttempted \/ WordSub(now, tof.nextInit) < HalfWord

\* The end of AebSensorNode_runOnce, up to the blocking aeb_tofInit ...
CheckSearch ==
    /\ pc = "check"
    /\ \/ /\ SearchDue
          /\ tof' = [tof EXCEPT !.initAttempted = TRUE, !.nextInit = WordAdd(now, Retry)]
          /\ pc' = "search"
          /\ searchAge' = 0
          /\ UNCHANGED <<now, readAge>>
       \/ /\ ~SearchDue
          /\ pc' = Sides[1]
          /\ \E d \in Delays : Passing(d) /\ Aging(d, {})
          /\ UNCHANGED tof
    /\ UNCHANGED <<ultra, valid, sequence, recent>>

\* ... and aeb_tofInit, which finds the ranger or not, with the hold of one
\* loop period.
aeb_tofInit ==
    \E d \in Delays, found \in BOOLEAN :
       /\ pc = "search"
       /\ Passing(d) /\ Aging(d, {})
       /\ tof' = [tof EXCEPT !.present = found]
       /\ pc' = Sides[1]
       /\ UNCHANGED <<ultra, valid, sequence, recent>>

Next == aeb_ultrasonicUpdate \/ aeb_tofUpdate \/ aeb_sendFrame \/ CheckSearch \/ aeb_tofInit

Spec     == Init /\ [][Next]_vars
FairSpec == Spec /\ WF_vars(Next)   \* the main loop never stops

-----------------------------------------------------------------------------
StaleAfter(r)    == IF r = "tof" THEN TofStale ELSE UltraStale
LastValidTick(r) == IF r = "tof" THEN tof.lastValidTick ELSE ultra[r].lastValidTick

\* The ranger whose validity was decided by the step that has just been taken.
JustDecided == {s \in Ultrasonics : After(s) = pc} \union (IF pc = "send" THEN {"tof"} ELSE {})

\* Whatever order good and failed readings come in, the filtered distance of a
\* full ring is one of the last three good readings with one of the others on
\* each side of it: a single outlier never becomes the reported distance.
OutlierRejected ==
    \A s \in Ultrasonics : Len(recent[s]) = 3
       => \E i, j, k \in 1 .. 3 :
             /\ Cardinality({i, j, k}) = 3
             /\ recent[s][i] <= ultra[s].filtered
             /\ recent[s][j] = ultra[s].filtered
             /\ recent[s][k] >= ultra[s].filtered

\* While no ranger has been silent for a whole turn of the tick counter, the
\* valid bits are exact: a bit is set if and only if the last good reading is
\* within the limit (and did not fall on tick 0, which means "never").
ValidExactWithinWrap ==
    \A r \in JustDecided : readAge[r] < WordSize
       => (r \in valid <=> readAge[r] <= StaleAfter(r) /\ LastValidTick(r) # 0)

\* Searching for the ToF ranger blocks steering, so two searches start at
\* least the retry interval apart.
SearchesSpaced == [][pc' = "search" /\ pc # "search" => searchAge >= Retry]_pc

\* A ranger that has not been found is searched for again and again.
SearchedAgain == []<>(tof.present \/ pc = "search")
=============================================================================
