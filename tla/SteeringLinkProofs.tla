------------------------- MODULE SteeringLinkProofs -------------------------
(***************************************************************************)
(* The steering link, for every word size: FRONT applies no packet twice   *)
(* and none after a later one, and a controller whose resynchronisation    *)
(* got through is never locked out.                                        *)
(***************************************************************************)
EXTENDS SteeringLink, SequenceTheorems, TLAPS

\* The type invariant in parts: the controller, the network, the observers.
SenderOK ==
    /\ phase \in {"down", "resync", "up"}
    /\ sequence \in Words
    /\ steer \in Steers /\ estop \in BOOLEAN
    /\ base \in 0 .. Quarter - 1
    /\ index \in 0 .. 4
NetOK == net \in Seq(InFlight) /\ Len(net) <= NetCap
SeenOK ==
    /\ sent \in 0 .. MaxSends
    /\ heard \in 0 .. MaxSends /\ acceptedOrder \in 0 .. MaxSends
    /\ resynced \subseteq 1 .. 4

\* FRONT refuses a packet of the controller only as old.
Usable(p)  == p \in Packet /\ p.wellFormed /\ (p.emergencyCenter \/ IsCommand(p))
AllUsable  == \A i \in DOMAIN net : Usable(net[i].packet)

Typed == CommandTypeOK({0}) /\ SenderOK /\ NetOK /\ SeenOK /\ AllUsable

\* The parts are the type invariant.
LEMMA Parts == Typed => TypeOK
BY DEF Typed, TypeOK, SenderOK, NetOK, SeenOK

-----------------------------------------------------------------------------
\* The word is four quarters.
LEMMA Sizes ==
    /\ Quarter \in Nat /\ Quarter >= 1
    /\ HalfWord = 2 * Quarter /\ WordSize = 4 * Quarter
    /\ Words = 0 .. 4 * Quarter - 1
    /\ NetCap \in Nat /\ MaxSends \in Nat /\ MaxSends <= Quarter + 2
BY LinkAssumption DEF WordSize, Words

\* What unsigned arithmetic gives, for words of any size.
LEMMA WordFacts ==
  ASSUME NEW a \in Words, NEW b \in Words
  PROVE  /\ WordSub(a, b) \in Words /\ WordAdd(a, 1) \in Words
         /\ WordSub(a, a) = 0 /\ WordSub(WordAdd(a, 1), a) = 1
         /\ WordSub(WordAdd(a, 1), b) \in {0, WordSub(a, b) + 1}
         /\ WordSub(a, b) < WordSize - 1 => WordSub(WordAdd(a, 1), b) = WordSub(a, b) + 1
         /\ WordSub(a, b) = 0 <=> a = b
         /\ a # b => WordSub(a, b) = WordSize - WordSub(b, a)
BY Sizes DEF WordSub, WordAdd

\* Seen from any number c, words are compared as they stand.
LEMMA WordDiff ==
  ASSUME NEW a \in Words, NEW b \in Words, NEW c \in Words
  PROVE  WordSub(a, b) = IF WordSub(a, c) >= WordSub(b, c)
                         THEN WordSub(a, c) - WordSub(b, c)
                         ELSE WordSub(a, c) - WordSub(b, c) + WordSize
BY Sizes DEF WordSub

\* The packets of _pack_front_steering_locked.
LEMMA PackOK ==
  ASSUME NEW seq \in Words, NEW st \in Steers, NEW es \in BOOLEAN, NEW center \in BOOLEAN
  PROVE  LET p == PackFront(seq, st, es, center)
         IN  Usable(p) /\ p.sequence = seq
<1> DEFINE p == PackFront(seq, st, es, center)
<1>1. SteeringAngle(st, es) \in Angles /\ SteeringAngle(st, es) \in Int
  BY LinkAssumption, ServoAssumption DEF SteeringAngle, Angles
<1>2. 0 \in Int /\ SteerRate \in Int /\ SteerRate > 0
  BY LinkAssumption
<1>3. p \in Packet
  BY <1>1, <1>2 DEF PackFront, Packet, Modes
<1>4. CASE center \/ es
  BY <1>3, <1>4 DEF PackFront, Usable
<1>5. CASE ~center /\ ~es
  <2>1. IsCommand(p)
    BY <1>1, <1>2, <1>5 DEF PackFront, IsCommand
  <2> QED BY <1>3, <2>1 DEF PackFront, Usable
<1> QED BY <1>4, <1>5 DEF PackFront

\* FRONT takes a usable packet, or leaves everything as it is.
LEMMA AcceptOK ==
  ASSUME CommandTypeOK({0}), NEW p, Usable(p), acceptHpscPacket(p, 0)
  PROVE  /\ CommandTypeOK({0})'
         /\ Accepted(p) <=> Fresh(p)
         /\ Accepted(p) => initialized' /\ lastSequence' = p.sequence
         /\ ~Accepted(p) => UNCHANGED command
<1>1. Accepted(p) <=> Fresh(p)
  BY DEF Accepted, Usable
<1>2. \A r \in Int : Clamp(r, MinRate, MaxRate) \in Rates
  BY ServoAssumption DEF Clamp, Rates
<1>3. \A a \in Int : Clamp(a, -MaxAbs, MaxAbs) \in Angles
  BY ServoAssumption DEF Clamp, Angles
<1>4. /\ p.sequence \in Words /\ p.rate \in Int /\ p.angle \in Int
      /\ DefaultRate \in Int /\ 0 \in Angles
  BY ServoAssumption DEF Usable, Packet, Angles
<1>5. CASE Fresh(p) /\ p.emergencyCenter
  <2>1. acceptTarget(p.sequence, 0, DefaultRate, FALSE, TRUE, 0)
    BY <1>5 DEF acceptHpscPacket
  <2>2. CommandTypeOK({0})'
    BY <1>2, <1>4, <2>1 DEF acceptTarget, CommandTypeOK
  <2> QED BY <1>1, <1>5, <2>1, <2>2 DEF acceptTarget
<1>6. CASE Fresh(p) /\ ~p.emergencyCenter
  <2>1. IsCommand(p)
    BY <1>6 DEF Usable
  <2>2. acceptTarget(p.sequence, p.angle, p.rate, TRUE, FALSE, 0)
    BY <1>6, <2>1 DEF acceptHpscPacket
  <2>3. CommandTypeOK({0})'
    BY <1>2, <1>3, <1>4, <2>2 DEF acceptTarget, CommandTypeOK
  <2> QED BY <1>1, <1>6, <2>2, <2>3 DEF acceptTarget
<1>7. CASE ~Fresh(p)
  <2>1. UNCHANGED command
    BY <1>7 DEF acceptHpscPacket, rejectPacket
  <2> QED BY <1>1, <1>7, <2>1 DEF command, CommandTypeOK
<1> QED BY <1>5, <1>6, <1>7

-----------------------------------------------------------------------------
\* A network from which packets have gone, the others in their old order.
Thinner ==
    \E f \in [DOMAIN net' -> DOMAIN net] : \A j, k \in DOMAIN net' :
        net'[j] = net[f[j]] /\ (j <= k <=> f[j] <= f[k])

\* A network at whose end one packet has been put, up to twice.
Longer(m) ==
    /\ DOMAIN net \subseteq DOMAIN net'
    /\ \A j \in DOMAIN net : net'[j] = net[j]
    /\ \A j \in DOMAIN net' \ DOMAIN net : net'[j] = m /\ sent' = sent + 1
    /\ \A j \in DOMAIN net, k \in DOMAIN net' \ DOMAIN net : j < k

\* The network that stays as it is.
LEMMA Unmoved == ASSUME net' = net PROVE Thinner
<1>1. [j \in DOMAIN net |-> j] \in [DOMAIN net' -> DOMAIN net]
  OBVIOUS
<1> QED BY <1>1 DEF Thinner

\* Removal of a packet.
LEMMA Removed ==
  ASSUME NetOK, NEW i \in DOMAIN net, net' = Remove(i)
  PROVE  /\ NetOK' /\ Thinner
         /\ \E f \in [DOMAIN net' -> DOMAIN net] : \A j, k \in DOMAIN net' :
               net'[j] = net[f[j]] /\ f[j] # i
<1> DEFINE f == [j \in DOMAIN net' |-> IF j < i THEN j ELSE j + 1]
<1>1. /\ net \in Seq(InFlight) /\ Len(net) \in Nat /\ DOMAIN net = 1 .. Len(net)
      /\ i \in 1 .. Len(net) /\ NetCap \in Nat
  BY Sizes DEF NetOK
<1>2. /\ net' \in Seq(InFlight) /\ Len(net') = Len(net) - 1
      /\ DOMAIN net' = 1 .. Len(net) - 1
      /\ \A j \in 1 .. Len(net) - 1 : net'[j] = net[IF j < i THEN j ELSE j + 1]
  <2> DEFINE a == SubSeq(net, 1, i - 1)
             b == SubSeq(net, i + 1, Len(net))
  <2>1. /\ a \in Seq(InFlight) /\ Len(a) = i - 1
        /\ \A j \in 1 .. i - 1 : a[j] = net[j]
    BY <1>1
  <2>2. /\ b \in Seq(InFlight) /\ Len(b) = Len(net) - i
        /\ \A j \in 1 .. Len(net) - i : b[j] = net[i + j]
    <3>1. \A k \in i + 1 .. Len(net) : net[k] \in InFlight
      BY <1>1
    <3>2. b \in Seq(InFlight)
      BY <1>1, <3>1
    <3>3. Len(b) = Len(net) - i
      BY <1>1
    <3>4. \A j \in 1 .. Len(net) - i : b[j] = net[i + j]
      BY <1>1
    <3> QED BY <3>2, <3>3, <3>4
  <2>3. net' = a \o b
    BY DEF Remove
  <2> HIDE DEF a, b
  <2>4. net' \in Seq(InFlight) /\ Len(net') = Len(net) - 1 /\ DOMAIN net' = 1 .. Len(net) - 1
    <3>1. a \o b \in Seq(InFlight) /\ Len(a \o b) = Len(a) + Len(b)
      <4>1. a \in Seq(InFlight) /\ b \in Seq(InFlight)
        BY <2>1, <2>2
      <4> QED BY <4>1, ConcatProperties
    <3>2. Len(a) + Len(b) = Len(net) - 1
      BY <1>1, <2>1, <2>2
    <3>3. DOMAIN net' = 1 .. Len(net')
      BY <2>3, <3>1
    <3> QED BY <2>3, <3>1, <3>2, <3>3
  <2>5. ASSUME NEW j \in 1 .. Len(net) - 1
        PROVE  net'[j] = net[IF j < i THEN j ELSE j + 1]
    <3>1. CASE j < i
      BY <1>1, <2>1, <2>2, <2>3, <3>1
    <3>2. CASE j >= i
      <4>1. net'[j] = b[j - (i - 1)]
        BY <1>1, <2>1, <2>2, <2>3, <3>2
      <4>2. j - (i - 1) \in 1 .. Len(net) - i /\ i + (j - (i - 1)) = j + 1
        BY <1>1, <3>2
      <4> QED BY <2>2, <3>2, <4>1, <4>2, <1>1
    <3> QED BY <1>1, <3>1, <3>2
  <2> QED BY <2>4, <2>5
<1>3. f \in [DOMAIN net' -> DOMAIN net]
  BY <1>1, <1>2
<1>4. \A j, k \in DOMAIN net' : /\ net'[j] = net[f[j]] /\ f[j] # i
                                /\ j <= k <=> f[j] <= f[k]
  BY <1>1, <1>2
<1>5. NetOK'
  BY <1>1, <1>2 DEF NetOK
<1> HIDE DEF f
<1> QED BY <1>3, <1>4, <1>5 DEF Thinner

\* A send (_send_front_packet_locked).
LEMMA Appended ==
  ASSUME NetOK, SeenOK, NEW p \in Packet, NEW n \in 0 .. 2, NEW k \in 0 .. 4,
         SendFront(p, n, k)
  PROVE  /\ NetOK' /\ Longer([packet |-> p, order |-> sent + 1, resync |-> k])
         /\ sent' \in 0 .. MaxSends /\ sent' \in {sent, sent + 1}
         /\ n = 2 => sent' = sent + 1
<1> DEFINE m == [packet |-> p, order |-> sent + 1, resync |-> k]
           t == [j \in 1 .. n |-> m]
<1>1. /\ sent < MaxSends /\ Len(net) + n <= NetCap
      /\ sent' = IF n = 0 THEN sent ELSE sent + 1
      /\ net' = net \o t
  BY DEF SendFront
<1>2. sent \in Nat /\ MaxSends \in Nat /\ NetCap \in Nat
  BY Sizes DEF SeenOK
<1>3. m \in InFlight
  BY <1>1, <1>2 DEF InFlight
<1>4. t \in Seq(InFlight) /\ Len(t) = n /\ \A j \in 1 .. n : t[j] = m
  <2> HIDE DEF m
  <2> QED BY <1>3
<1>5. net \in Seq(InFlight) /\ Len(net) \in Nat /\ DOMAIN net = 1 .. Len(net)
  BY DEF NetOK
<1>6. /\ net' \in Seq(InFlight) /\ Len(net') = Len(net) + n
      /\ DOMAIN net' = 1 .. Len(net) + n
      /\ \A j \in 1 .. Len(net) : net'[j] = net[j]
      /\ \A j \in Len(net) + 1 .. Len(net) + n : net'[j] = t[j - Len(net)]
  <2> HIDE DEF t
  <2> QED BY <1>1, <1>4, <1>5
<1>7. NetOK'
  BY <1>1, <1>2, <1>5, <1>6 DEF NetOK
<1>8. \A j \in DOMAIN net' \ DOMAIN net : j \in Len(net) + 1 .. Len(net) + n
  BY <1>5, <1>6
<1>9. \A j \in DOMAIN net' \ DOMAIN net : net'[j] = m
  <2> HIDE DEF m, t
  <2> QED BY <1>4, <1>5, <1>6, <1>8
<1>10. n = 0 => DOMAIN net' \ DOMAIN net = {}
  BY <1>5, <1>6
<1>11. Longer(m)
  <2> HIDE DEF m, t
  <2>1. DOMAIN net \subseteq DOMAIN net' /\ \A j \in DOMAIN net : net'[j] = net[j]
    BY <1>5, <1>6
  <2>2. \A j \in DOMAIN net, k2 \in DOMAIN net' \ DOMAIN net : j < k2
    BY <1>5, <1>8
  <2>3. \A j \in DOMAIN net' \ DOMAIN net : sent' = sent + 1
    BY <1>1, <1>10
  <2> QED BY <1>9, <2>1, <2>2, <2>3 DEF Longer
<1> QED BY <1>1, <1>2, <1>7, <1>11

-----------------------------------------------------------------------------
(***************************************************************************)
(* NoReplay.  The network keeps packets in the order they were sent.  A    *)
(* packet sent before one that FRONT has taken is behind FRONT's number by *)
(* no more than the packets sent in between (Passed): of the ordinary ones *)
(* because they are numbered upwards (Spread), and of the resync packets,  *)
(* which jump, because nothing overtakes them.                             *)
(***************************************************************************)

\* The two packets of a send carry the same number.
Twins ==
    \A i, j \in DOMAIN net : net[i].order = net[j].order
                                => net[i].packet.sequence = net[j].packet.sequence

\* Ordinary packets are numbered in the order they are sent, at most one by one.
Spread ==
    \A i, j \in DOMAIN net :
        net[i].resync = 0 /\ net[j].resync = 0 /\ net[i].order <= net[j].order
        => WordSub(net[j].packet.sequence, net[i].packet.sequence)
             <= net[j].order - net[i].order

Queued ==
    /\ \A i \in DOMAIN net : 1 <= net[i].order /\ net[i].order <= sent
    /\ \A i, j \in DOMAIN net : i <= j => net[i].order <= net[j].order

OrderNet == Queued /\ Twins /\ Spread

\* The number s comes next after the ordinary packets in flight.
Lagging(s) ==
    \A i \in DOMAIN net :
        net[i].resync = 0 => WordSub(s, net[i].packet.sequence) <= sent + 1 - net[i].order

SenderOrder ==
    /\ phase = "up" => Lagging(sequence)
    /\ phase = "resync" => \A i \in DOMAIN net : net[i].resync # 0

Passed ==
    \A i \in DOMAIN net :
        /\ net[i].order = acceptedOrder => net[i].packet.sequence = lastSequence
        /\ net[i].order < acceptedOrder =>
             /\ net[i].resync = 0
             /\ WordSub(lastSequence, net[i].packet.sequence) <= acceptedOrder - net[i].order

FrontOrder ==
    /\ acceptedOrder <= sent
    /\ ~initialized => acceptedOrder = 0 /\ resynced = {}
    /\ Passed

OrderInv == OrderNet /\ SenderOrder /\ FrontOrder

\* What a packet in flight is made of.
LEMMA FlightTypes ==
  ASSUME NetOK, AllUsable, NEW i \in DOMAIN net
  PROVE  /\ net[i] \in InFlight /\ Usable(net[i].packet)
         /\ net[i].packet \in Packet /\ net[i].packet.sequence \in Words
         /\ net[i].order \in Nat /\ net[i].order <= MaxSends
         /\ net[i].resync \in 0 .. 4
         /\ i \in Nat /\ i >= 1
<1>1. net[i] \in InFlight /\ i \in Nat /\ i >= 1
  BY DEF NetOK
<1> QED BY <1>1, Sizes DEF InFlight, Packet, AllUsable

\* Packets that go take nothing from the others.
LEMMA ThinnerOrder ==
  ASSUME OrderNet, Thinner, UNCHANGED sent
  PROVE  OrderNet'
<1>1. PICK f \in [DOMAIN net' -> DOMAIN net] : \A j, k \in DOMAIN net' :
          net'[j] = net[f[j]] /\ (j <= k <=> f[j] <= f[k])
  BY DEF Thinner
<1>2. Queued'
  BY <1>1 DEF OrderNet, Queued
<1>3. Twins'
  BY <1>1 DEF OrderNet, Twins
<1>4. Spread'
  BY <1>1 DEF OrderNet, Spread
<1> QED BY <1>2, <1>3, <1>4 DEF OrderNet

\* Nor do they change what the sender and FRONT make of the others.
LEMMA ThinnerSides ==
  ASSUME Thinner, UNCHANGED sent
  PROVE  /\ \A s \in Words : Lagging(s) => Lagging(s)'
         /\ (\A i \in DOMAIN net : net[i].resync # 0)
              => (\A i \in DOMAIN net' : net'[i].resync # 0)
         /\ Passed /\ UNCHANGED <<acceptedOrder, lastSequence>> => Passed'
<1>1. PICK f \in [DOMAIN net' -> DOMAIN net] : \A j, k \in DOMAIN net' :
          net'[j] = net[f[j]] /\ (j <= k <=> f[j] <= f[k])
  BY DEF Thinner
<1>2. \A s \in Words : Lagging(s) => Lagging(s)'
  BY <1>1 DEF Lagging
<1>3. (\A i \in DOMAIN net : net[i].resync # 0)
         => (\A i \in DOMAIN net' : net'[i].resync # 0)
  BY <1>1
<1>4. Passed /\ UNCHANGED <<acceptedOrder, lastSequence>> => Passed'
  BY <1>1 DEF Passed
<1> QED BY <1>2, <1>3, <1>4

\* A packet that is sent is the last in order, and no older than what FRONT has.
LEMMA LongerOrder ==
  ASSUME Typed, OrderInv, Typed', NEW p \in Packet, NEW k \in 0 .. 4,
         Longer([packet |-> p, order |-> sent + 1, resync |-> k]),
         sent' \in {sent, sent + 1}, k = 0 => Lagging(p.sequence),
         UNCHANGED <<lastSequence, acceptedOrder, initialized, resynced>>
  PROVE  OrderNet' /\ FrontOrder'
<1>1. /\ DOMAIN net \subseteq DOMAIN net'
      /\ \A j \in DOMAIN net : net'[j] = net[j]
      /\ \A j \in DOMAIN net' \ DOMAIN net :
            /\ net'[j].packet = p /\ net'[j].order = sent + 1 /\ net'[j].resync = k
            /\ sent' = sent + 1
      /\ \A j \in DOMAIN net, l \in DOMAIN net' \ DOMAIN net : j < l
  BY DEF Longer
<1>2. sent \in Nat /\ acceptedOrder \in Nat /\ p.sequence \in Words
  BY DEF Typed, SeenOK, Packet
<1>3. \A j \in DOMAIN net : j \in Nat /\ net[j].order \in Nat
  BY FlightTypes DEF Typed
<1>4. \A j \in DOMAIN net' : j \in Nat
  BY DEF Typed, NetOK
<1>5. Queued'
  <2>1. \A i \in DOMAIN net' : 1 <= net'[i].order /\ net'[i].order <= sent'
    BY <1>1, <1>2, <1>3 DEF OrderInv, OrderNet, Queued
  <2>2. ASSUME NEW i \in DOMAIN net', NEW j \in DOMAIN net', i <= j
        PROVE  net'[i].order <= net'[j].order
    <3>1. CASE i \in DOMAIN net /\ j \in DOMAIN net
      BY <1>1, <2>2, <3>1 DEF OrderInv, OrderNet, Queued
    <3>2. CASE i \in DOMAIN net /\ j \notin DOMAIN net
      BY <1>1, <1>2, <1>3, <3>2 DEF OrderInv, OrderNet, Queued
    <3>3. CASE i \notin DOMAIN net /\ j \notin DOMAIN net
      BY <1>1, <1>2, <3>3
    <3>4. CASE i \notin DOMAIN net /\ j \in DOMAIN net
      <4>1. j < i
        BY <1>1, <3>4
      <4> QED BY <1>4, <2>2, <4>1
    <3> QED BY <3>1, <3>2, <3>3, <3>4
  <2> QED BY <2>1, <2>2 DEF Queued
<1>6. Twins'
  <2>1. ASSUME NEW i \in DOMAIN net', NEW j \in DOMAIN net', net'[i].order = net'[j].order
        PROVE  net'[i].packet.sequence = net'[j].packet.sequence
    <3>1. CASE i \in DOMAIN net /\ j \in DOMAIN net
      BY <1>1, <2>1, <3>1 DEF OrderInv, OrderNet, Twins
    <3>2. CASE i \notin DOMAIN net /\ j \notin DOMAIN net
      BY <1>1, <3>2
    <3>3. \A x \in DOMAIN net, y \in DOMAIN net' \ DOMAIN net : net'[x].order < net'[y].order
      BY <1>1, <1>2, <1>3 DEF OrderInv, OrderNet, Queued
    <3>4. CASE i \in DOMAIN net /\ j \notin DOMAIN net
      BY <1>1, <1>2, <1>3, <2>1, <3>3, <3>4
    <3>5. CASE i \notin DOMAIN net /\ j \in DOMAIN net
      BY <1>1, <1>2, <1>3, <2>1, <3>3, <3>5
    <3> QED BY <3>1, <3>2, <3>4, <3>5
  <2> QED BY <2>1 DEF Twins
<1>7. Spread'
  <2>1. ASSUME NEW i \in DOMAIN net', NEW j \in DOMAIN net',
               net'[i].resync = 0, net'[j].resync = 0, net'[i].order <= net'[j].order
        PROVE  WordSub(net'[j].packet.sequence, net'[i].packet.sequence)
                 <= net'[j].order - net'[i].order
    <3>1. CASE i \in DOMAIN net /\ j \in DOMAIN net
      BY <1>1, <2>1, <3>1 DEF OrderInv, OrderNet, Spread
    <3>2. CASE i \notin DOMAIN net /\ j \notin DOMAIN net
      <4>1. WordSub(p.sequence, p.sequence) = 0
        BY <1>2, WordFacts
      <4> QED BY <1>1, <1>2, <3>2, <4>1
    <3>3. CASE i \in DOMAIN net /\ j \notin DOMAIN net
      <4>1. k = 0
        BY <1>1, <2>1, <3>3
      <4>2. Lagging(p.sequence)
        BY <4>1
      <4>3. /\ net'[i] = net[i] /\ net'[j].packet = p
            /\ net'[j].order = sent + 1
        BY <1>1, <3>3
      <4>4. WordSub(p.sequence, net[i].packet.sequence) <= sent + 1 - net[i].order
        BY <2>1, <3>3, <4>2, <4>3 DEF Lagging
      <4>5. /\ net'[j].packet.sequence = p.sequence
            /\ net'[i].packet.sequence = net[i].packet.sequence
        BY <4>3
      <4>6. WordSub(p.sequence, net[i].packet.sequence) \in Nat
        <5>1. net[i].packet.sequence \in Words
          BY <3>3, FlightTypes DEF Typed
        <5>2. WordSub(p.sequence, net[i].packet.sequence) \in Words
          BY <1>2, <5>1, WordFacts
        <5> QED BY <5>2, Sizes
      <4>7. /\ net'[j].order = sent + 1 /\ net'[i].order = net[i].order
            /\ net[i].order \in Nat
        BY <1>3, <3>3, <4>3
      <4> QED BY <1>2, <4>4, <4>5, <4>6, <4>7
    <3>4. CASE i \notin DOMAIN net /\ j \in DOMAIN net
      BY <1>1, <1>2, <1>3, <2>1, <3>4 DEF OrderInv, OrderNet, Queued
    <3> QED BY <3>1, <3>2, <3>3, <3>4
  <2> QED BY <2>1 DEF Spread
<1>8. FrontOrder'
  <2>1. acceptedOrder' <= sent' /\ (~initialized' => acceptedOrder' = 0 /\ resynced' = {})
    BY <1>2 DEF OrderInv, FrontOrder
  <2>2. ASSUME NEW i \in DOMAIN net' \ DOMAIN net
        PROVE  net'[i].order \in Nat /\ net'[i].order > acceptedOrder'
    BY <1>1, <1>2 DEF OrderInv, FrontOrder
  <2>3. Passed'
    <3>1. ASSUME NEW i \in DOMAIN net'
          PROVE  /\ net'[i].order = acceptedOrder => net'[i].packet.sequence = lastSequence
                 /\ net'[i].order < acceptedOrder =>
                      /\ net'[i].resync = 0
                      /\ WordSub(lastSequence, net'[i].packet.sequence)
                           <= acceptedOrder - net'[i].order
      <4>1. CASE i \in DOMAIN net
        BY <1>1, <4>1 DEF OrderInv, FrontOrder, Passed
      <4>2. CASE i \notin DOMAIN net
        BY <1>2, <2>2, <4>2
      <4> QED BY <4>1, <4>2
    <3> QED BY <3>1 DEF Passed
  <2> QED BY <2>1, <2>3 DEF FrontOrder
<1> QED BY <1>5, <1>6, <1>7, <1>8 DEF OrderNet

-----------------------------------------------------------------------------
\* A turn or a handler of the controller sends a packet (_publish_locked).
LEMMA HandlerTyped ==
  ASSUME Typed, NEW st \in Steers, NEW es \in BOOLEAN, Handler(st, es)
  PROVE  /\ Typed'
         /\ PackFront(sequence, st, es, FALSE) \in Packet
         /\ PackFront(sequence, st, es, FALSE).sequence = sequence
         /\ Longer([packet |-> PackFront(sequence, st, es, FALSE),
                    order |-> sent + 1, resync |-> 0])
         /\ sent' \in {sent, sent + 1}
         /\ \/ sequence' = WordAdd(sequence, 1) /\ sent' = sent + 1
            \/ sequence' = sequence
<1> DEFINE p == PackFront(sequence, st, es, FALSE)
<1>1. /\ phase = "up" /\ steer' = st /\ estop' = es
      /\ UNCHANGED <<command, phase, base, index, front>>
  BY DEF Handler
<1>2. sequence \in Words
  BY DEF Typed, SenderOK
<1>3. Usable(p) /\ p.sequence = sequence /\ p \in Packet
  BY <1>2, PackOK DEF Usable
<1>4. PICK n \in 0 .. 2 :
        /\ SendFront(p, n, 0)
        /\ \/ n = 2 /\ sequence' = WordAdd(sequence, 1)
           \/ sequence' = sequence
  <2>1. \/ SendFront(p, 2, 0) /\ sequence' = WordAdd(sequence, 1)
        \/ (\E n \in 0 .. 2 : SendFront(p, n, 0)) /\ sequence' = sequence
    BY DEF Handler, Publish
  <2>2. 2 \in 0 .. 2
    OBVIOUS
  <2> HIDE DEF p
  <2> QED BY <2>1, <2>2, Zenon
<1> HIDE DEF p
<1>5. /\ NetOK' /\ Longer([packet |-> p, order |-> sent + 1, resync |-> 0])
      /\ sent' \in 0 .. MaxSends /\ sent' \in {sent, sent + 1}
      /\ n = 2 => sent' = sent + 1
  <2>1. 0 \in 0 .. 4
    OBVIOUS
  <2> QED BY <1>3, <1>4, <2>1, Appended, Zenon DEF Typed
<1>6. sequence' \in Words
  BY <1>2, <1>4, WordFacts
<1>7. SenderOK'
  BY <1>1, <1>6 DEF Typed, SenderOK
<1>8. SeenOK' /\ CommandTypeOK({0})'
  BY <1>1, <1>5 DEF Typed, SeenOK, front, command, CommandTypeOK
<1>9. AllUsable'
  BY <1>3, <1>5 DEF Typed, AllUsable, Longer
<1>10. Typed'
  BY <1>5, <1>7, <1>8, <1>9 DEF Typed
<1> QED BY <1>3, <1>4, <1>5, <1>10 DEF p

\* It keeps the order.
LEMMA HandlerOrder ==
  ASSUME Typed, OrderInv, NEW st \in Steers, NEW es \in BOOLEAN, Handler(st, es)
  PROVE  OrderInv'
<1>1. PICK p \in Packet :
        /\ p.sequence = sequence
        /\ Longer([packet |-> p, order |-> sent + 1, resync |-> 0])
        /\ sent' \in {sent, sent + 1}
        /\ \/ sequence' = WordAdd(sequence, 1) /\ sent' = sent + 1
           \/ sequence' = sequence
  BY HandlerTyped
<1>2. Typed'
  BY HandlerTyped
<1>3. /\ phase = "up" /\ phase' = "up"
      /\ UNCHANGED <<lastSequence, acceptedOrder, initialized, resynced>>
  BY DEF Handler, command, front
<1>4. Lagging(sequence)
  BY <1>3 DEF OrderInv, SenderOrder
<1>5. OrderNet' /\ FrontOrder'
  <2>1. Lagging(p.sequence)
    BY <1>1, <1>4
  <2>2. 0 \in 0 .. 4
    OBVIOUS
  <2> QED BY <1>1, <1>2, <1>3, <2>1, <2>2, LongerOrder, Zenon
<1>6. ASSUME NEW i \in DOMAIN net', net'[i].resync = 0
      PROVE  WordSub(sequence', net'[i].packet.sequence) <= sent' + 1 - net'[i].order
  <2>1. sequence \in Words /\ sent \in Nat
    BY DEF Typed, SenderOK, SeenOK
  <2>2. CASE i \in DOMAIN net
    <3>1. net'[i] = net[i] /\ net[i].packet.sequence \in Words /\ net[i].order \in Nat
      BY <1>1, <2>2, FlightTypes DEF Longer, Typed
    <3>2. WordSub(sequence, net[i].packet.sequence) <= sent + 1 - net[i].order
      BY <1>4, <1>6, <2>2, <3>1 DEF Lagging
    <3>3. net[i].order <= sent
      BY <2>2 DEF OrderInv, OrderNet, Queued
    <3>4. /\ WordSub(sequence, net[i].packet.sequence) \in Nat
          /\ WordSub(WordAdd(sequence, 1), net[i].packet.sequence)
               \in {0, WordSub(sequence, net[i].packet.sequence) + 1}
      <4>1. /\ WordSub(sequence, net[i].packet.sequence) \in Words
            /\ WordSub(WordAdd(sequence, 1), net[i].packet.sequence)
                 \in {0, WordSub(sequence, net[i].packet.sequence) + 1}
        BY <2>1, <3>1, WordFacts
      <4> QED BY <4>1, Sizes
    <3> QED BY <1>1, <2>1, <3>1, <3>2, <3>3, <3>4
  <2>3. CASE i \notin DOMAIN net
    <3>1. net'[i].packet = p /\ net'[i].order = sent + 1 /\ sent' = sent + 1
      BY <1>1, <2>3 DEF Longer
    <3>2. WordSub(sequence, sequence) = 0 /\ WordSub(WordAdd(sequence, 1), sequence) = 1
      BY <2>1, WordFacts
    <3> QED BY <1>1, <2>1, <3>1, <3>2
  <2> QED BY <2>2, <2>3
<1>7. SenderOrder'
  BY <1>3, <1>6 DEF SenderOrder, Lagging
<1> QED BY <1>5, <1>7 DEF OrderInv

\* A packet that is sent by a step that leaves FRONT alone.
LEMMA SendTyped ==
  ASSUME Typed, NEW p, Usable(p), NEW n \in 0 .. 2, NEW k \in 0 .. 4, SendFront(p, n, k),
         UNCHANGED <<command, front>>, SenderOK'
  PROVE  /\ Typed'
         /\ p \in Packet /\ Longer([packet |-> p, order |-> sent + 1, resync |-> k])
         /\ sent' \in {sent, sent + 1}
         /\ n = 2 => sent' = sent + 1
         /\ UNCHANGED <<lastSequence, acceptedOrder, initialized, resynced>>
<1>1. p \in Packet
  BY DEF Usable
<1>2. /\ NetOK' /\ Longer([packet |-> p, order |-> sent + 1, resync |-> k])
      /\ sent' \in 0 .. MaxSends /\ sent' \in {sent, sent + 1}
      /\ n = 2 => sent' = sent + 1
  BY <1>1, Appended, Zenon DEF Typed
<1>3. SeenOK' /\ CommandTypeOK({0})'
  BY <1>2 DEF Typed, SeenOK, front, command, CommandTypeOK
<1>4. AllUsable'
  BY <1>2 DEF Typed, AllUsable, Longer
<1> QED BY <1>1, <1>2, <1>3, <1>4 DEF Typed, command, front

\* Resync packet k + 1 is k quarters from where the process began.
LEMMA ResyncWords ==
  ASSUME NEW b \in 0 .. Quarter - 1, NEW k \in 0 .. 3
  PROVE  /\ b + k * Quarter \in Words
         /\ k * Quarter \in {0, Quarter, 2 * Quarter, 3 * Quarter}
<1>1. k = 0 \/ k = 1 \/ k = 2 \/ k = 3
  OBVIOUS
<1>2. Quarter \in Nat /\ Words = 0 .. 4 * Quarter - 1
  BY Sizes
<1> QED BY <1>1, <1>2

\* One turn of the resynchronisation, and one that fails.
LEMMA ResyncTyped ==
  ASSUME Typed, Resync
  PROVE  /\ Typed' /\ sent' = sent + 1
         /\ UNCHANGED <<lastSequence, acceptedOrder, initialized, resynced>>
         /\ \E p \in Packet :
              /\ p.sequence = base + index * Quarter
              /\ Longer([packet |-> p, order |-> sent + 1, resync |-> index + 1])
<1> DEFINE p == PackFront(ResyncSequence(index), "STRAIGHT", FALSE, FALSE)
<1>1. /\ phase = "resync" /\ index \in 0 .. 3 /\ index + 1 \in 0 .. 4
      /\ sequence' = ResyncSequence(index) /\ SendFront(p, 2, index + 1)
      /\ index' = index + 1
      /\ UNCHANGED <<command, phase, operator, base, front>>
  <2>1. index \in 0 .. 4 /\ (phase = "resync" /\ index < 4 => index \in 0 .. 3)
    BY DEF Typed, SenderOK
  <2>2. /\ phase = "resync" /\ index < 4
        /\ sequence' = ResyncSequence(index) /\ index' = index + 1
        /\ UNCHANGED <<command, phase, operator, base, front>>
    BY DEF Resync
  <2>3. SendFront(p, 2, index + 1)
    BY Zenon DEF Resync
  <2> HIDE DEF p
  <2> QED BY <2>1, <2>2, <2>3
<1>2. ResyncSequence(index) = base + index * Quarter /\ ResyncSequence(index) \in Words
  BY <1>1, ResyncWords DEF ResyncSequence, Typed, SenderOK
<1>3. Usable(p) /\ p.sequence = ResyncSequence(index)
  <2>1. "STRAIGHT" \in Steers
    BY LinkAssumption
  <2> QED BY <1>2, <2>1, PackOK
<1> HIDE DEF p
<1>4. SenderOK'
  BY <1>1, <1>2 DEF Typed, SenderOK, operator
<1>5. 2 \in 0 .. 2
  OBVIOUS
<1>6. UNCHANGED <<command, front>>
  BY <1>1
<1>7. /\ Typed' /\ p \in Packet
      /\ Longer([packet |-> p, order |-> sent + 1, resync |-> index + 1])
      /\ sent' = sent + 1
      /\ UNCHANGED <<lastSequence, acceptedOrder, initialized, resynced>>
  BY <1>1, <1>3, <1>4, <1>5, <1>6, SendTyped, Zenon
<1>8. p.sequence = base + index * Quarter
  BY <1>2, <1>3
<1> QED BY <1>7, <1>8, Zenon

\* The same for the turn whose send fails.
LEMMA ResyncFailTyped ==
  ASSUME Typed, ResyncFail
  PROVE  /\ Typed' /\ sent' \in {sent, sent + 1}
         /\ UNCHANGED <<lastSequence, acceptedOrder, initialized, resynced>>
         /\ \E p \in Packet :
              /\ p.sequence = base + index * Quarter
              /\ Longer([packet |-> p, order |-> sent + 1, resync |-> 0])
<1> DEFINE p == PackFront(ResyncSequence(index), "STRAIGHT", FALSE, FALSE)
<1>1. /\ phase = "resync" /\ index \in 0 .. 3
      /\ sequence' = ResyncSequence(index)
      /\ phase' = "up" /\ index' = 0 /\ base' = 0
      /\ UNCHANGED <<command, operator, front>>
  BY DEF ResyncFail, Typed, SenderOK
<1>2. PICK n \in {0, 1} : SendFront(p, n, 0)
  BY DEF ResyncFail
<1>3. ResyncSequence(index) = base + index * Quarter /\ ResyncSequence(index) \in Words
  BY <1>1, ResyncWords DEF ResyncSequence, Typed, SenderOK
<1>4. Usable(p) /\ p.sequence = ResyncSequence(index)
  <2>1. "STRAIGHT" \in Steers
    BY LinkAssumption
  <2> QED BY <1>3, <2>1, PackOK
<1> HIDE DEF p
<1>5. SenderOK'
  <2>1. 0 \in 0 .. Quarter - 1 /\ 0 \in 0 .. 4
    BY Sizes
  <2> QED BY <1>1, <1>3, <2>1 DEF Typed, SenderOK, operator
<1>6. n \in 0 .. 2 /\ 0 \in 0 .. 4
  OBVIOUS
<1>7. UNCHANGED <<command, front>>
  BY <1>1
<1>8. /\ Typed' /\ p \in Packet
      /\ Longer([packet |-> p, order |-> sent + 1, resync |-> 0])
      /\ sent' \in {sent, sent + 1}
      /\ UNCHANGED <<lastSequence, acceptedOrder, initialized, resynced>>
  BY <1>2, <1>4, <1>5, <1>6, <1>7, SendTyped, Zenon
<1>9. p.sequence = base + index * Quarter
  BY <1>3, <1>4
<1> QED BY <1>8, <1>9, Zenon

\* The resynchronisation keeps the order: what is in flight are resync packets.
LEMMA ResyncOrder ==
  ASSUME Typed, OrderInv, Resync \/ ResyncFail
  PROVE  OrderInv'
<1>1. phase = "resync"
  BY DEF Resync, ResyncFail
<1>2. \A i \in DOMAIN net : net[i].resync # 0
  BY <1>1 DEF OrderInv, SenderOrder
<1>3. \A s \in Words : Lagging(s)
  BY <1>2 DEF Lagging
<1>4. sent \in Nat /\ index \in Nat
  BY DEF Typed, SeenOK, SenderOK
<1>5. CASE Resync
  <2>1. PICK p \in Packet :
          Longer([packet |-> p, order |-> sent + 1, resync |-> index + 1])
    BY <1>5, ResyncTyped
  <2>2. /\ Typed' /\ sent' \in {sent, sent + 1} /\ phase' = "resync"
        /\ UNCHANGED <<lastSequence, acceptedOrder, initialized, resynced>>
    BY <1>1, <1>5, ResyncTyped DEF Resync
  <2>3. index + 1 \in 0 .. 4 /\ index + 1 # 0
    BY <1>5 DEF Resync, Typed, SenderOK
  <2>4. OrderNet' /\ FrontOrder'
    BY <2>1, <2>2, <2>3, LongerOrder, Zenon
  <2>5. \A i \in DOMAIN net' : net'[i].resync # 0
    <3>1. ASSUME NEW i \in DOMAIN net' PROVE net'[i].resync # 0
      <4>1. CASE i \in DOMAIN net
        BY <1>2, <2>1, <4>1 DEF Longer
      <4>2. CASE i \notin DOMAIN net
        BY <2>1, <2>3, <4>2 DEF Longer
      <4> QED BY <4>1, <4>2
    <3> QED BY <3>1
  <2> QED BY <2>2, <2>4, <2>5 DEF OrderInv, SenderOrder
<1>6. CASE ResyncFail
  <2>1. PICK p \in Packet :
          /\ p.sequence = base + index * Quarter
          /\ Longer([packet |-> p, order |-> sent + 1, resync |-> 0])
    BY <1>6, ResyncFailTyped
  <2>2. /\ Typed' /\ sent' \in {sent, sent + 1} /\ phase' = "up"
        /\ UNCHANGED <<lastSequence, acceptedOrder, initialized, resynced>>
    BY <1>6, ResyncFailTyped DEF ResyncFail
  <2>3. sequence' = p.sequence
    BY <1>6, <2>1 DEF ResyncFail, ResyncSequence
  <2>4. p.sequence \in Words /\ 0 \in 0 .. 4
    BY DEF Packet
  <2>5. OrderNet' /\ FrontOrder'
    BY <1>3, <2>1, <2>2, <2>4, LongerOrder, Zenon
  <2>6. Lagging(sequence)'
    <3>1. ASSUME NEW i \in DOMAIN net', net'[i].resync = 0
          PROVE  WordSub(sequence', net'[i].packet.sequence) <= sent' + 1 - net'[i].order
      <4>1. i \notin DOMAIN net
        BY <1>2, <2>1, <3>1 DEF Longer
      <4>2. net'[i].packet = p /\ net'[i].order = sent + 1 /\ sent' = sent + 1
        BY <2>1, <4>1 DEF Longer
      <4>3. WordSub(p.sequence, p.sequence) = 0
        BY <2>4, WordFacts
      <4> QED BY <1>4, <2>3, <4>2, <4>3
    <3> QED BY <3>1 DEF Lagging
  <2> QED BY <2>2, <2>5, <2>6 DEF OrderInv, SenderOrder
<1> QED BY <1>5, <1>6

\* The steps that send nothing and take nothing: a start, the end of the
\* resynchronisation, and a process that ends.
LEMMA SilentTyped ==
  ASSUME Typed, UNCHANGED <<command, net, sent, heard, acceptedOrder>>,
         \/ \E b \in Bases : Start(b)
         \/ ResyncDone
         \/ ProcessGone /\ UNCHANGED resynced
  PROVE  Typed' /\ UNCHANGED <<lastSequence, initialized>>
<1>1. 0 \in 0 .. Quarter - 1 /\ 0 \in 0 .. 4 /\ "STRAIGHT" \in Steers /\ 0 \in Words
  BY Sizes, LinkAssumption
<1>2. CommandTypeOK({0})' /\ NetOK' /\ AllUsable'
  BY DEF Typed, command, CommandTypeOK, NetOK, AllUsable
<1>3. UNCHANGED <<lastSequence, initialized>>
  BY DEF command
<1>4. ASSUME NEW b \in Bases, Start(b) PROVE SenderOK' /\ SeenOK'
  <2>1. b \in 0 .. Quarter - 1 /\ b \in Words
    BY Sizes, LinkAssumption
  <2> QED BY <1>1, <1>4, <2>1 DEF Start, Typed, SenderOK, SeenOK
<1>5. CASE ResyncDone
  <2>1. sequence' \in Words
    BY <1>5, WordFacts DEF ResyncDone, Typed, SenderOK
  <2> QED
    BY <1>1, <1>2, <1>3, <1>5, <2>1
       DEF ResyncDone, operator, observer, front, Typed, SenderOK, SeenOK
<1>6. CASE ProcessGone /\ UNCHANGED resynced
  BY <1>1, <1>2, <1>3, <1>6 DEF ProcessGone, Typed, SenderOK, SeenOK
<1> QED BY <1>2, <1>3, <1>4, <1>5, <1>6 DEF Typed

\* They keep the order.
LEMMA SilentOrder ==
  ASSUME Typed, OrderInv, UNCHANGED <<command, net, sent, heard, acceptedOrder>>,
         \/ \E b \in Bases : Start(b)
         \/ ResyncDone
         \/ ProcessGone /\ UNCHANGED resynced
  PROVE  OrderInv'
<1>1. UNCHANGED <<lastSequence, initialized>>
  BY SilentTyped
<1>2. OrderNet'
  BY Unmoved, ThinnerOrder DEF OrderInv
<1>3. resynced' \subseteq resynced
  BY DEF Start, ResyncDone, observer, front
<1>4. FrontOrder'
  <2>1. Passed'
    BY <1>1 DEF OrderInv, FrontOrder, Passed
  <2> QED BY <1>1, <1>3, <2>1 DEF OrderInv, FrontOrder
<1>5. SenderOrder'
  <2>1. CASE \E b \in Bases : Start(b)
    <3>1. DOMAIN net' = {} /\ phase' = "resync"
      BY <2>1 DEF Start
    <3> QED BY <3>1 DEF SenderOrder
  <2>2. CASE ResyncDone
    <3>1. \A i \in DOMAIN net' : net'[i].resync # 0
      BY <2>2 DEF ResyncDone, OrderInv, SenderOrder
    <3> QED BY <2>2, <3>1 DEF ResyncDone, SenderOrder, Lagging
  <2>3. CASE ProcessGone
    BY <2>3 DEF ProcessGone, SenderOrder
  <2> QED BY <2>1, <2>2, <2>3
<1> QED BY <1>2, <1>4, <1>5 DEF OrderInv

\* close, whether or not its emergency centre goes out.
LEMMA CloseOrder ==
  ASSUME Typed, OrderInv, Close
  PROVE  Typed' /\ OrderInv'
<1> DEFINE p == PackFront(sequence, "STRAIGHT", estop, TRUE)
<1>1. phase = "up" /\ ProcessGone /\ UNCHANGED <<command, front>>
  BY DEF Close
<1>2. CASE UNCHANGED <<net, sent>>
  <2>1. UNCHANGED <<command, net, sent, heard, acceptedOrder, resynced>>
    BY <1>1, <1>2 DEF front
  <2> QED BY <1>1, <2>1, SilentTyped, SilentOrder
<1>3. CASE \E n \in 0 .. 2 : SendFront(p, n, 0)
  <2>1. PICK n \in 0 .. 2 : SendFront(p, n, 0)
    BY <1>3
  <2>2. Usable(p) /\ p.sequence = sequence
    <3>1. "STRAIGHT" \in Steers /\ sequence \in Words /\ estop \in BOOLEAN /\ TRUE \in BOOLEAN
      BY LinkAssumption DEF Typed, SenderOK
    <3> QED BY <3>1, PackOK
  <2> HIDE DEF p
  <2>3. SenderOK'
    <3>1. 0 \in 0 .. Quarter - 1 /\ 0 \in 0 .. 4 /\ "STRAIGHT" \in Steers /\ 0 \in Words
      BY Sizes, LinkAssumption
    <3> QED BY <1>1, <3>1 DEF ProcessGone, SenderOK
  <2>4. 0 \in 0 .. 4
    OBVIOUS
  <2>5. /\ Typed' /\ p \in Packet
        /\ Longer([packet |-> p, order |-> sent + 1, resync |-> 0])
        /\ sent' \in {sent, sent + 1}
        /\ UNCHANGED <<lastSequence, acceptedOrder, initialized, resynced>>
    BY <1>1, <2>1, <2>2, <2>3, <2>4, SendTyped, Zenon
  <2>6. Lagging(p.sequence)
    BY <1>1, <2>2 DEF OrderInv, SenderOrder
  <2>7. OrderNet' /\ FrontOrder'
    BY <2>4, <2>5, <2>6, LongerOrder, Zenon
  <2>8. SenderOrder'
    BY <1>1 DEF ProcessGone, SenderOrder
  <2> QED BY <2>5, <2>7, <2>8 DEF OrderInv
<1> QED BY <1>2, <1>3 DEF Close

\* FRONT takes a packet, or leaves everything as it is.
LEMMA DeliverTyped ==
  ASSUME Typed, NEW i \in DOMAIN net, Deliver(i)
  PROVE  /\ Typed' /\ Thinner /\ UNCHANGED <<sender, sent>>
         /\ Accepted(net[i].packet) <=> Fresh(net[i].packet)
         /\ Accepted(net[i].packet) => /\ initialized'
                                       /\ lastSequence' = net[i].packet.sequence
                                       /\ acceptedOrder' = net[i].order
         /\ ~Accepted(net[i].packet) =>
              UNCHANGED <<initialized, lastSequence, acceptedOrder>>
         /\ resynced' = resynced \union ({net[i].resync} \ {0})
<1>1. /\ acceptHpscPacket(net[i].packet, 0) /\ net' = Remove(i)
      /\ heard' = net[i].order
      /\ acceptedOrder' = IF Accepted(net[i].packet) THEN net[i].order ELSE acceptedOrder
      /\ resynced' = resynced \union ({net[i].resync} \ {0})
      /\ UNCHANGED <<sender, sent>>
  BY DEF Deliver
<1>2. /\ net[i].order \in 0 .. MaxSends /\ net[i].resync \in 0 .. 4
      /\ Usable(net[i].packet)
  BY FlightTypes, Sizes DEF Typed
<1>3. NetOK' /\ Thinner
  BY <1>1, Removed DEF Typed
<1>4. \E f \in [DOMAIN net' -> DOMAIN net] : \A j \in DOMAIN net' : net'[j] = net[f[j]]
  BY <1>3 DEF Thinner
<1>5. AllUsable'
  BY <1>4 DEF Typed, AllUsable
<1>6. /\ CommandTypeOK({0})'
      /\ Accepted(net[i].packet) <=> Fresh(net[i].packet)
      /\ Accepted(net[i].packet) => initialized' /\ lastSequence' = net[i].packet.sequence
      /\ ~Accepted(net[i].packet) => UNCHANGED command
  BY <1>1, <1>2, AcceptOK DEF Typed
<1>7. SeenOK'
  <2>1. {net[i].resync} \ {0} \subseteq 1 .. 4
    BY <1>2
  <2>2. resynced' \subseteq 1 .. 4
    BY <1>1, <2>1 DEF Typed, SeenOK
  <2>3. /\ sent' \in 0 .. MaxSends /\ heard' \in 0 .. MaxSends
        /\ acceptedOrder' \in 0 .. MaxSends
    BY <1>1, <1>2 DEF Typed, SeenOK
  <2> QED BY <2>2, <2>3 DEF SeenOK
<1>8. SenderOK'
  BY <1>1 DEF sender, operator, Typed, SenderOK
<1>9. Typed'
  BY <1>3, <1>5, <1>6, <1>7, <1>8 DEF Typed
<1> QED BY <1>1, <1>3, <1>6, <1>9 DEF command

\* A packet that is taken leaves behind it only packets it was entitled to pass.
LEMMA DeliverOrder ==
  ASSUME Typed, OrderInv, NEW i \in DOMAIN net, Deliver(i)
  PROVE  OrderInv'
<1>1. /\ Typed' /\ Thinner /\ UNCHANGED <<sender, sent>>
      /\ Accepted(net[i].packet) => /\ initialized'
                                    /\ lastSequence' = net[i].packet.sequence
                                    /\ acceptedOrder' = net[i].order
      /\ ~Accepted(net[i].packet) =>
           UNCHANGED <<initialized, lastSequence, acceptedOrder>>
      /\ Fresh(net[i].packet) => Accepted(net[i].packet)
      /\ resynced' = resynced \union ({net[i].resync} \ {0})
  BY DeliverTyped
<1>2. OrderNet'
  BY <1>1, ThinnerOrder DEF OrderInv
<1>3. SenderOrder'
  <2>1. sequence \in Words /\ UNCHANGED <<phase, sequence>>
    BY <1>1 DEF Typed, SenderOK, sender
  <2>2. \A s \in Words : Lagging(s) => Lagging(s)'
    BY <1>1, ThinnerSides
  <2>3. (\A j \in DOMAIN net : net[j].resync # 0)
           => (\A j \in DOMAIN net' : net'[j].resync # 0)
    BY <1>1, ThinnerSides
  <2>4. Lagging(sequence) => Lagging(sequence)'
    BY <2>1, <2>2 DEF Lagging
  <2> QED BY <2>1, <2>3, <2>4 DEF OrderInv, SenderOrder
<1>4. Passed'
  <2>1. CASE ~Accepted(net[i].packet)
    BY <1>1, <2>1, ThinnerSides DEF OrderInv, FrontOrder
  <2>2. CASE Accepted(net[i].packet)
    <3>1. PICK f \in [DOMAIN net' -> DOMAIN net] : \A j \in DOMAIN net' :
              net'[j] = net[f[j]]
      BY <1>1 DEF Thinner
    <3>2. ASSUME NEW k \in DOMAIN net
          PROVE  /\ net[k].order = net[i].order =>
                      net[k].packet.sequence = net[i].packet.sequence
                 /\ net[k].order < net[i].order =>
                      /\ net[k].resync = 0
                      /\ WordSub(net[i].packet.sequence, net[k].packet.sequence)
                           <= net[i].order - net[k].order
      <4>1. net[k].order = net[i].order => net[k].packet.sequence = net[i].packet.sequence
        BY DEF OrderInv, OrderNet, Twins
      <4>2. ASSUME net[k].order < net[i].order
            PROVE  /\ net[k].resync = 0
                   /\ WordSub(net[i].packet.sequence, net[k].packet.sequence)
                        <= net[i].order - net[k].order
        <5>1. /\ k \in Nat /\ i \in Nat /\ k >= 1 /\ i >= 1
              /\ net[k].order \in Nat /\ net[i].order \in Nat
          BY FlightTypes DEF Typed
        <5>2. k < i
          <6>1. i <= k => net[i].order <= net[k].order
            BY DEF OrderInv, OrderNet, Queued
          <6> QED BY <4>2, <5>1, <6>1
        <5>3. k \in 1 .. i /\ i \in 1 .. i /\ i # 1
          BY <5>1, <5>2
        <5>4. net[k].resync = 0 /\ net[i].resync = 0
          BY <5>3 DEF Deliver, CanOvertake
        <5> QED BY <4>2, <5>1, <5>4 DEF OrderInv, OrderNet, Spread
      <4> QED BY <4>1, <4>2
    <3> QED BY <1>1, <2>2, <3>1, <3>2 DEF Passed
  <2> QED BY <2>1, <2>2
<1>5. acceptedOrder' <= sent'
  <2>1. net[i].order <= sent
    BY DEF OrderInv, OrderNet, Queued
  <2> QED BY <1>1, <2>1 DEF OrderInv, FrontOrder
<1>6. ~initialized' => acceptedOrder' = 0 /\ resynced' = {}
  <2>1. ~initialized => Fresh(net[i].packet)
    BY FlightTypes DEF Typed, Fresh, Usable
  <2>2. initialized'
    BY <1>1, <2>1
  <2> QED BY <2>2
<1> QED BY <1>2, <1>3, <1>4, <1>5, <1>6 DEF OrderInv, FrontOrder

\* FRONT applies only what it has not passed.
LEMMA DeliverNew ==
  ASSUME Typed, OrderInv, NEW i \in DOMAIN net, Deliver(i)
  PROVE  Accepted(net[i].packet) => net[i].order > acceptedOrder
<1> SUFFICES ASSUME Accepted(net[i].packet), ~(net[i].order > acceptedOrder)
             PROVE  FALSE
  OBVIOUS
<1> DEFINE s == net[i].packet.sequence
<1>1. /\ net[i].order \in Nat /\ acceptedOrder \in Nat /\ acceptedOrder <= MaxSends
      /\ s \in Words /\ lastSequence \in Words
  BY FlightTypes, Sizes DEF Typed, SeenOK, CommandTypeOK
<1>2. net[i].order >= 1
  BY DEF OrderInv, OrderNet, Queued
<1>3. initialized
  BY <1>1, <1>2 DEF OrderInv, FrontOrder
<1>4. WordSub(s, lastSequence) # 0 /\ WordSub(s, lastSequence) < HalfWord
  BY <1>3, DeliverTyped DEF Fresh, sequenceNewer
<1>5. s # lastSequence
  BY <1>1, <1>4, WordFacts
<1>6. net[i].order < acceptedOrder
  BY <1>1, <1>5 DEF OrderInv, FrontOrder, Passed
<1>7. WordSub(lastSequence, s) <= acceptedOrder - net[i].order
  BY <1>6 DEF OrderInv, FrontOrder, Passed
<1>8. WordSub(s, lastSequence) = WordSize - WordSub(lastSequence, s)
  BY <1>1, <1>5, WordFacts
<1>9. WordSub(lastSequence, s) \in Nat
  <2>1. WordSub(lastSequence, s) \in Words
    BY <1>1, WordFacts
  <2> QED BY <2>1, Sizes
<1> HIDE DEF s
<1> QED BY <1>1, <1>2, <1>4, <1>7, <1>8, <1>9, Sizes

\* A packet is lost, and FRONT's watchdog trips.
LEMMA LoseOrder ==
  ASSUME Typed, OrderInv, FrontTrip \/ \E i \in DOMAIN net : Lose(i)
  PROVE  /\ Typed' /\ OrderInv' /\ Thinner
         /\ UNCHANGED <<sender, observer, lastSequence, initialized>>
<1>1. UNCHANGED <<sender, observer, lastSequence, initialized>>
  BY DEF FrontTrip, Lose, Watchdog, command
<1>2. NetOK' /\ Thinner
  <2>1. CASE FrontTrip
    BY <2>1, Unmoved DEF FrontTrip, Typed, NetOK
  <2>2. ASSUME NEW i \in DOMAIN net, Lose(i) PROVE NetOK' /\ Thinner
    BY <2>2, Removed DEF Lose, Typed
  <2> QED BY <2>1, <2>2
<1>3. AllUsable'
  <2>1. \E f \in [DOMAIN net' -> DOMAIN net] : \A j \in DOMAIN net' : net'[j] = net[f[j]]
    BY <1>2 DEF Thinner
  <2> QED BY <2>1 DEF Typed, AllUsable
<1>4. CommandTypeOK({0})'
  <2>1. CASE FrontTrip
    <3>1. 0 \in Angles
      BY ServoAssumption DEF Angles
    <3>2. Watchdog(TRUE)
      BY <2>1 DEF FrontTrip
    <3> QED BY <3>1, <3>2 DEF Watchdog, Typed, CommandTypeOK
  <2>2. CASE \E i \in DOMAIN net : Lose(i)
    BY <2>2 DEF Lose, command, Typed, CommandTypeOK
  <2> QED BY <2>1, <2>2
<1>5. SenderOK' /\ SeenOK'
  BY <1>1 DEF sender, operator, observer, front, Typed, SenderOK, SeenOK
<1>6. OrderNet'
  BY <1>1, <1>2, ThinnerOrder DEF OrderInv, observer
<1>7. SenderOrder'
  <2>1. sequence \in Words /\ UNCHANGED <<phase, sequence, sent>>
    BY <1>1 DEF Typed, SenderOK, sender, observer
  <2>2. \A s \in Words : Lagging(s) => Lagging(s)'
    BY <1>2, <2>1, ThinnerSides
  <2>3. (\A j \in DOMAIN net : net[j].resync # 0)
           => (\A j \in DOMAIN net' : net'[j].resync # 0)
    BY <1>2, <2>1, ThinnerSides
  <2>4. Lagging(sequence) => Lagging(sequence)'
    BY <2>1, <2>2 DEF Lagging
  <2> QED BY <2>1, <2>3, <2>4 DEF OrderInv, SenderOrder
<1>8. FrontOrder'
  <2>1. UNCHANGED <<acceptedOrder, lastSequence, sent, initialized, resynced>>
    BY <1>1 DEF observer, front
  <2>2. Passed'
    BY <1>2, <2>1, ThinnerSides DEF OrderInv, FrontOrder
  <2> QED BY <2>1, <2>2 DEF OrderInv, FrontOrder
<1> QED BY <1>1, <1>2, <1>3, <1>4, <1>5, <1>6, <1>7, <1>8 DEF Typed, OrderInv

\* The initial states.
LEMMA InitOrder == Init => Typed /\ OrderInv
<1> SUFFICES ASSUME Init PROVE Typed /\ OrderInv
  OBVIOUS
<1>1. /\ 0 \in Angles /\ DefaultRate \in Rates /\ 0 \in Words /\ 0 \in 0 .. Quarter - 1
      /\ "STRAIGHT" \in Steers /\ 0 \in 0 .. 4 /\ 0 \in 0 .. MaxSends /\ 0 <= NetCap
  BY Sizes, LinkAssumption, ServoAssumption DEF Angles, Rates
<1>2. CommandTypeOK({0})
  BY <1>1, LinkAssumption DEF Init, FrontInit, CommandInit, CommandTypeOK
<1>3. /\ net = <<>> /\ DOMAIN net = {} /\ Len(net) = 0 /\ net \in Seq(InFlight)
  BY DEF Init
<1>4. SenderOK /\ NetOK /\ SeenOK /\ AllUsable
  BY <1>1, <1>3 DEF Init, SenderOK, NetOK, SeenOK, AllUsable
<1>5. OrderInv
  BY <1>3 DEF Init, OrderInv, OrderNet, Queued, Twins, Spread, SenderOrder, FrontOrder, Passed
<1> QED BY <1>2, <1>4, <1>5 DEF Typed

\* The handlers and the publisher thread.
LEMMA Handlers ==
  ASSUME Typed, (\E st \in Steers : Control(st)) \/ EmergencyStop \/ Stop \/ PublishLoop
  PROVE  \E st \in Steers, es \in BOOLEAN : Handler(st, es)
<1>1. "STRAIGHT" \in Steers /\ steer \in Steers /\ estop \in BOOLEAN
  BY LinkAssumption DEF Typed, SenderOK
<1> QED BY <1>1 DEF Control, EmergencyStop, Stop, PublishLoop

\* Every step keeps types and order.
LEMMA NextOrder == Typed /\ OrderInv /\ [Next]_vars => Typed' /\ OrderInv'
<1> SUFFICES ASSUME Typed, OrderInv, [Next]_vars PROVE Typed' /\ OrderInv'
  OBVIOUS
<1>1. CASE (\E st \in Steers : Control(st)) \/ EmergencyStop \/ Stop \/ PublishLoop
  BY <1>1, Handlers, HandlerTyped, HandlerOrder
<1>2. CASE \E b \in Bases : Start(b)
  <2>1. UNCHANGED <<command, net, sent, heard, acceptedOrder>>
    BY <1>2 DEF Start
  <2> QED BY <1>2, <2>1, SilentTyped, SilentOrder
<1>3. CASE Resync \/ ResyncFail
  BY <1>3, ResyncTyped, ResyncFailTyped, ResyncOrder
<1>4. CASE ResyncDone
  <2>1. UNCHANGED <<command, net, sent, heard, acceptedOrder>>
    BY <1>4 DEF ResyncDone, observer, front
  <2> QED BY <1>4, <2>1, SilentTyped, SilentOrder
<1>5. CASE Close
  BY <1>5, CloseOrder
<1>6. CASE Kill
  <2>1. UNCHANGED <<command, net, sent, heard, acceptedOrder, resynced>> /\ ProcessGone
    BY <1>6 DEF Kill, observer, front
  <2> QED BY <2>1, SilentTyped, SilentOrder
<1>7. ASSUME NEW i \in DOMAIN net, Deliver(i) PROVE Typed' /\ OrderInv'
  BY <1>7, DeliverTyped, DeliverOrder
<1>8. CASE FrontTrip \/ \E i \in DOMAIN net : Lose(i)
  BY <1>8, LoseOrder
<1>9. CASE UNCHANGED vars
  <2>1. /\ Typed' /\ OrderNet' /\ SenderOrder'
    BY <1>9 DEF vars, command, sender, operator, observer, front, Typed, CommandTypeOK,
                SenderOK, NetOK, SeenOK, AllUsable, OrderInv, OrderNet, Queued, Twins,
                Spread, SenderOrder, Lagging
  <2>2. FrontOrder'
    BY <1>9 DEF vars, command, observer, front, OrderInv, FrontOrder, Passed
  <2> QED BY <2>1, <2>2 DEF OrderInv
<1> QED BY <1>1, <1>2, <1>3, <1>4, <1>5, <1>6, <1>7, <1>8, <1>9 DEF Next

\* The link stays typed: whatever the controller, the network and FRONT do, every
\* number stays a word and the target within the steering limits.
THEOREM TypeCorrect == Spec => []TypeOK
BY InitOrder, NextOrder, Parts, PTL DEF Spec

\* Every packet FRONT applies was sent after all those it has applied, whatever
\* pairs, overtaking, reused numbers, resynchronisations and restarts there were.
THEOREM NothingReplayed == Spec => NoReplay
<1>1. Typed /\ OrderInv =>
        \A i \in DOMAIN net :
          Deliver(i) /\ Accepted(net[i].packet) => net[i].order > acceptedOrder
  BY DeliverNew
<1>2. Typed /\ OrderInv /\ [Next]_vars =>
        [\A i \in DOMAIN net :
           Deliver(i) /\ Accepted(net[i].packet) => net[i].order > acceptedOrder]_vars
  BY <1>1
<1> QED BY InitOrder, NextOrder, <1>2, PTL DEF Spec, NoReplay

-----------------------------------------------------------------------------
(***************************************************************************)
(* NeverLockedOut.  Numbers are counted from b, the number the running     *)
(* process began with: resync packet k is k - 1 quarters on, the ordinary  *)
(* packets follow, and none comes round to b again (Numbered).  What FRONT *)
(* holds is anywhere at first; each resync packet that is not taken rules  *)
(* out a part of the word, and after three in a row FRONT's number is that *)
(* of the last, or of a later packet (Located).  n is the number of resync *)
(* packets sent.                                                           *)
(***************************************************************************)
Mark(k)  == (k - 1) * Quarter
Floor(n) == IF n = 4 THEN 3 * Quarter ELSE n * Quarter

Numbered(b, n) ==
    /\ phase = "resync" => b = base /\ n = index /\ sequence = b + (IF n = 0 THEN 0 ELSE Mark(n))
    /\ n <= sent
    /\ WordSub(sequence, b) <= 3 * Quarter + sent - 3
    /\ phase = "up" => Floor(n) <= WordSub(sequence, b)

\* Ordinary packets, and those of the resynchronisation, which are in front.
Ordinary(b, n) ==
    \A i \in DOMAIN net :
        net[i].resync = 0 => /\ Floor(n) <= WordSub(net[i].packet.sequence, b)
                             /\ WordSub(net[i].packet.sequence, b) <= WordSub(sequence, b)
Resyncs(b, n) ==
    \A i \in DOMAIN net :
        net[i].resync # 0 =>
            /\ net[i].packet.sequence = b + Mark(net[i].resync)
            /\ net[i].resync <= n
            /\ \A r \in resynced : r <= net[i].resync
            /\ \A j \in DOMAIN net :
                  j <= i => net[j].resync # 0 /\ net[j].resync <= net[i].resync

\* More of the resynchronisation may come.
Open == phase = "resync" \/ \E i \in DOMAIN net : net[i].resync # 0

\* Packet k is the last that FRONT has seen of the resynchronisation; so are k
\* and k + 1; it has seen three in a row.
Seen1(k) == k \in resynced /\ \A r \in resynced : r <= k
Seen2(k) == k \in resynced /\ k + 1 \in resynced /\ \A r \in resynced : r <= k + 1
Seen3(k) == {k, k + 1, k + 2} \subseteq resynced

Located(b) ==
    \A k \in {1, 2} :
        /\ Open /\ Seen1(k) => /\ Mark(k) <= WordSub(lastSequence, b)
                               /\ WordSub(lastSequence, b) <= Mark(k + 2)
        /\ Open /\ Seen2(k) => /\ Mark(k + 1) <= WordSub(lastSequence, b)
                               /\ WordSub(lastSequence, b) <= Mark(k + 2)
        /\ Seen3(k) => /\ Mark(k + 2) <= WordSub(lastSequence, b)
                       /\ WordSub(lastSequence, b) <= WordSub(sequence, b)

Frame(b, n) ==
    /\ Numbered(b, n) /\ Ordinary(b, n) /\ Resyncs(b, n)
    /\ resynced \subseteq 1 .. n /\ Located(b)

Framed == phase # "down" => \E b \in 0 .. Quarter - 1, n \in 0 .. 4 : Frame(b, n)

\* Where the resync packets are, and the ordinary ones begin.
LEMMA Marks ==
    /\ Mark(1) = 0 /\ Mark(2) = Quarter /\ Mark(3) = 2 * Quarter /\ Mark(4) = 3 * Quarter
    /\ Floor(0) = 0 /\ Floor(1) = Quarter /\ Floor(2) = 2 * Quarter
    /\ Floor(3) = 3 * Quarter /\ Floor(4) = 3 * Quarter
BY Sizes DEF Mark, Floor

\* They are in order, and a quarter apart.
LEMMA MarkOrder ==
  ASSUME NEW k \in 1 .. 4
  PROVE  /\ Mark(k) \in Nat /\ Mark(k) <= 3 * Quarter /\ Mark(k) <= Floor(k)
         /\ k < 4 => Mark(k + 1) = Mark(k) + Quarter /\ Floor(k) = Mark(k + 1)
         /\ \A j \in 1 .. k : Mark(j) <= Mark(k)
<1>1. k = 1 \/ k = 2 \/ k = 3 \/ k = 4
  OBVIOUS
<1>2. \A j \in 1 .. k : j = 1 \/ j = 2 \/ j = 3 \/ j = 4
  OBVIOUS
<1>3. Quarter \in Nat
  BY Sizes
<1>4. CASE k = 1
  BY <1>3, <1>4, Marks
<1>5. CASE k = 2
  BY <1>3, <1>5, Marks
<1>6. CASE k = 3
  BY <1>3, <1>6, Marks
<1>7. CASE k = 4
  <2>1. \A j \in 1 .. k : Mark(j) <= Mark(k)
    BY <1>2, <1>3, <1>7, Marks
  <2> QED BY <1>3, <1>7, <2>1, Marks
<1> QED BY <1>1, <1>4, <1>5, <1>6, <1>7

\* Resync packet k is Mark(k) on from b.
LEMMA MarkPlace ==
  ASSUME NEW b \in 0 .. Quarter - 1, NEW k \in 1 .. 4
  PROVE  b + Mark(k) \in Words /\ WordSub(b + Mark(k), b) = Mark(k)
<1>1. Mark(k) \in Nat /\ Mark(k) <= 3 * Quarter
  BY MarkOrder
<1>2. \A m \in Nat : b + m >= b /\ (b + m) - b = m
  BY Sizes
<1>3. b + Mark(k) \in Words
  BY <1>1, Sizes
<1> QED BY <1>1, <1>2, <1>3 DEF WordSub

\* A step that leaves FRONT alone, whatever else it does.
LEMMA LocatedStays ==
  ASSUME NEW b, Located(b), UNCHANGED <<lastSequence, resynced>>, Open' => Open,
         WordSub(sequence, b) \in Nat, WordSub(lastSequence, b) \in Nat,
         WordSub(sequence', b) \in Nat,
         WordSub(sequence, b) <= WordSub(sequence', b) \/ resynced \subseteq 1 .. 2
  PROVE  Located(b)'
<1>1. ASSUME NEW k \in {1, 2}
      PROVE  /\ Open' /\ Seen1(k)' => /\ Mark(k) <= WordSub(lastSequence', b)
                                      /\ WordSub(lastSequence', b) <= Mark(k + 2)
             /\ Open' /\ Seen2(k)' => /\ Mark(k + 1) <= WordSub(lastSequence', b)
                                      /\ WordSub(lastSequence', b) <= Mark(k + 2)
  BY DEF Located, Seen1, Seen2
<1>2. ASSUME NEW k \in {1, 2}, Seen3(k)'
      PROVE  /\ Mark(k + 2) <= WordSub(lastSequence', b)
             /\ WordSub(lastSequence', b) <= WordSub(sequence', b)
  <2>1. Seen3(k)
    BY <1>2 DEF Seen3
  <2>2. k + 2 \in resynced /\ k + 2 \notin 1 .. 2
    BY <2>1 DEF Seen3
  <2>3. /\ Mark(k + 2) <= WordSub(lastSequence, b)
        /\ WordSub(lastSequence, b) <= WordSub(sequence, b)
    BY <2>1 DEF Located
  <2>4. WordSub(sequence, b) <= WordSub(sequence', b)
    BY <2>2
  <2> QED BY <2>3, <2>4
<1> QED BY <1>1, <1>2 DEF Located

\* Packets that go leave the others where they are.
LEMMA ThinnerFrame ==
  ASSUME NEW b \in 0 .. Quarter - 1, NEW n \in 0 .. 4, Ordinary(b, n), Resyncs(b, n),
         Thinner, sequence' = sequence
  PROVE  /\ Ordinary(b, n)'
         /\ resynced' = resynced => Resyncs(b, n)'
         /\ Open' /\ phase' = phase => Open
<1>1. PICK f \in [DOMAIN net' -> DOMAIN net] : \A j, k \in DOMAIN net' :
          net'[j] = net[f[j]] /\ (j <= k <=> f[j] <= f[k])
  BY DEF Thinner
<1>2. Ordinary(b, n)'
  BY <1>1 DEF Ordinary
<1>3. ASSUME resynced' = resynced PROVE Resyncs(b, n)'
  BY <1>1, <1>3 DEF Resyncs
<1>4. Open' /\ phase' = phase => Open
  BY <1>1 DEF Open
<1> QED BY <1>2, <1>3, <1>4

\* A packet that is sent takes its place behind the others.
LEMMA LongerFrame ==
  ASSUME NEW b \in 0 .. Quarter - 1, NEW n \in 0 .. 4, NEW m \in n .. 4,
         Ordinary(b, n), Resyncs(b, n), resynced \subseteq 1 .. n, Typed, Typed',
         NEW p, NEW k \in 0 .. 4,
         Longer([packet |-> p, order |-> sent + 1, resync |-> k]), resynced' = resynced,
         WordSub(sequence, b) <= WordSub(sequence', b) \/ \A i \in DOMAIN net : net[i].resync # 0,
         m = n \/ \A i \in DOMAIN net : net[i].resync # 0,
         k = 0 => /\ Floor(m) <= WordSub(p.sequence, b)
                  /\ WordSub(p.sequence, b) <= WordSub(sequence', b),
         k # 0 => /\ p.sequence = b + Mark(k) /\ k = m /\ k = n + 1
                  /\ \A i \in DOMAIN net : net[i].resync # 0
  PROVE  Ordinary(b, m)' /\ Resyncs(b, m)'
<1>1. /\ DOMAIN net \subseteq DOMAIN net'
      /\ \A j \in DOMAIN net : net'[j] = net[j]
      /\ \A j \in DOMAIN net' \ DOMAIN net :
            net'[j].packet = p /\ net'[j].order = sent + 1 /\ net'[j].resync = k
      /\ \A j \in DOMAIN net, l \in DOMAIN net' \ DOMAIN net : j < l
  BY DEF Longer
<1>2. /\ \A j \in DOMAIN net' : j \in Nat
      /\ sequence \in Words /\ sequence' \in Words /\ b \in Words
  BY Sizes DEF Typed, NetOK, SenderOK
<1>3. ASSUME NEW i \in DOMAIN net', net'[i].resync = 0
      PROVE  /\ Floor(m) <= WordSub(net'[i].packet.sequence, b)
             /\ WordSub(net'[i].packet.sequence, b) <= WordSub(sequence', b)
  <2>1. CASE i \in DOMAIN net
    <3>1. net'[i] = net[i] /\ net[i].resync = 0
      BY <1>1, <1>3, <2>1
    <3>2. m = n /\ WordSub(sequence, b) <= WordSub(sequence', b)
      BY <2>1, <3>1
    <3>3. /\ Floor(n) <= WordSub(net[i].packet.sequence, b)
          /\ WordSub(net[i].packet.sequence, b) <= WordSub(sequence, b)
      BY <2>1, <3>1 DEF Ordinary
    <3>4. /\ WordSub(net[i].packet.sequence, b) \in Words
          /\ WordSub(sequence, b) \in Words /\ WordSub(sequence', b) \in Words
      BY <1>2, <2>1, FlightTypes, WordFacts DEF Typed
    <3> QED BY <3>1, <3>2, <3>3, <3>4, Sizes
  <2>2. CASE i \notin DOMAIN net
    BY <1>1, <1>3, <2>2
  <2> QED BY <2>1, <2>2
<1>4. ASSUME NEW i \in DOMAIN net', net'[i].resync # 0
      PROVE  /\ net'[i].packet.sequence = b + Mark(net'[i].resync)
             /\ net'[i].resync <= m
             /\ \A r \in resynced' : r <= net'[i].resync
             /\ \A j \in DOMAIN net' :
                   j <= i => net'[j].resync # 0 /\ net'[j].resync <= net'[i].resync
  <2>1. CASE i \in DOMAIN net
    <3>1. net'[i] = net[i] /\ net[i].resync # 0 /\ net[i].resync \in 0 .. 4
      BY <1>1, <1>4, <2>1, FlightTypes DEF Typed
    <3>2. /\ net[i].packet.sequence = b + Mark(net[i].resync)
          /\ net[i].resync <= n
          /\ \A r \in resynced : r <= net[i].resync
      BY <2>1, <3>1 DEF Resyncs
    <3>3. \A j \in DOMAIN net : j <= i => net[j].resync # 0 /\ net[j].resync <= net[i].resync
      BY <2>1, <3>1 DEF Resyncs
    <3>4. \A j \in DOMAIN net' : j <= i => j \in DOMAIN net
      BY <1>1, <1>2, <2>1
    <3> QED BY <1>1, <3>1, <3>2, <3>3, <3>4
  <2>2. CASE i \notin DOMAIN net
    <3>1. net'[i].packet = p /\ net'[i].resync = k /\ k # 0
      BY <1>1, <1>4, <2>2
    <3>2. p.sequence = b + Mark(k) /\ k = m /\ k = n + 1
      BY <3>1
    <3>3. \A r \in resynced' : r <= k
      BY <3>2
    <3>4. ASSUME NEW j \in DOMAIN net' PROVE net'[j].resync # 0 /\ net'[j].resync <= k
      <4>1. CASE j \in DOMAIN net
        <5>1. net'[j] = net[j] /\ net[j].resync # 0 /\ net[j].resync \in 0 .. 4
          BY <1>1, <3>1, <4>1, FlightTypes DEF Typed
        <5>2. net[j].resync <= n
          BY <4>1, <5>1 DEF Resyncs
        <5> QED BY <3>2, <5>1, <5>2
      <4>2. CASE j \notin DOMAIN net
        BY <1>1, <3>1, <4>2
      <4> QED BY <4>1, <4>2
    <3> QED BY <3>1, <3>2, <3>3, <3>4
  <2> QED BY <2>1, <2>2
<1> QED BY <1>3, <1>4 DEF Ordinary, Resyncs

\* Places of words counted from b are natural numbers.
LEMMA Places ==
  ASSUME NEW b \in 0 .. Quarter - 1, Typed
  PROVE  /\ b \in Words
         /\ WordSub(sequence, b) \in 0 .. 4 * Quarter - 1
         /\ WordSub(lastSequence, b) \in 0 .. 4 * Quarter - 1
<1>1. b \in Words /\ sequence \in Words /\ lastSequence \in Words
  BY Sizes DEF Typed, SenderOK, CommandTypeOK
<1>2. WordSub(sequence, b) \in Words /\ WordSub(lastSequence, b) \in Words
  BY <1>1, WordFacts
<1> QED BY <1>1, <1>2, Sizes

\* The controller is past every resync packet it has sent.
LEMMA Beyond ==
  ASSUME Typed, NEW b \in 0 .. Quarter - 1, NEW n \in 0 .. 4, Numbered(b, n),
         phase # "down", NEW k \in 1 .. n
  PROVE  Mark(k) <= WordSub(sequence, b)
<1>1. /\ n \in 1 .. 4 /\ k \in 1 .. 4 /\ n # 0
  OBVIOUS
<1>2. Mark(k) \in Nat /\ Mark(n) \in Nat /\ Mark(n) <= Floor(n) /\ Mark(k) <= Mark(n)
  BY <1>1, MarkOrder
<1>3. WordSub(sequence, b) \in Nat
  BY Places
<1>4. CASE phase = "resync"
  <2>1. sequence = b + Mark(n)
    BY <1>1, <1>4 DEF Numbered
  <2>2. WordSub(sequence, b) = Mark(n)
    BY <1>1, <2>1, MarkPlace
  <2> QED BY <1>2, <2>2
<1>5. CASE phase = "up"
  <2>1. Floor(n) <= WordSub(sequence, b)
    BY <1>5 DEF Numbered
  <2>2. Floor(n) \in Nat
    BY <1>1, Sizes, Marks DEF Floor
  <2> QED BY <1>2, <1>3, <2>1, <2>2
<1> QED BY <1>4, <1>5 DEF Typed, SenderOK

\* A process starts from b, whatever FRONT holds.
LEMMA StartFrame ==
  ASSUME Typed, NEW b \in Bases, Start(b)
  PROVE  Frame(b, 0)'
<1>1. /\ net' = <<>> /\ DOMAIN net' = {} /\ phase' = "resync" /\ base' = b /\ index' = 0
      /\ sequence' = b /\ resynced' = {} /\ sent' = sent
  BY DEF Start
<1>2. b \in 0 .. Quarter - 1 /\ b \in Words /\ sent \in Nat
  BY Sizes, LinkAssumption DEF Typed, SeenOK
<1>3. WordSub(sequence', b) = 0
  BY <1>1, <1>2, WordFacts
<1>4. Numbered(b, 0)'
  <2>1. 0 <= 3 * Quarter + sent - 3 /\ 0 <= sent /\ b = b + 0
    BY <1>2, Sizes
  <2> QED BY <1>1, <1>3, <2>1 DEF Numbered
<1>5. Ordinary(b, 0)' /\ Resyncs(b, 0)'
  BY <1>1 DEF Ordinary, Resyncs
<1>6. Located(b)'
  BY <1>1 DEF Located, Seen1, Seen2, Seen3
<1>7. resynced' \subseteq 1 .. 0
  BY <1>1
<1> QED BY <1>4, <1>5, <1>6, <1>7 DEF Frame

\* A handler or a turn of the publisher keeps the frame.
LEMMA HandlerFrame ==
  ASSUME Typed, NEW st \in Steers, NEW es \in BOOLEAN, Handler(st, es),
         NEW b \in 0 .. Quarter - 1, NEW n \in 0 .. 4, Frame(b, n)
  PROVE  Frame(b, n)'
<1>1. PICK p \in Packet :
        /\ p.sequence = sequence
        /\ Longer([packet |-> p, order |-> sent + 1, resync |-> 0])
        /\ sent' \in {sent, sent + 1}
        /\ \/ sequence' = WordAdd(sequence, 1) /\ sent' = sent + 1
           \/ sequence' = sequence
  BY HandlerTyped
<1>2. /\ Typed' /\ phase = "up" /\ phase' = "up"
      /\ UNCHANGED <<lastSequence, resynced>>
  BY HandlerTyped DEF Handler, command, front
<1>3. /\ b \in Words /\ sequence \in Words /\ sent \in Nat /\ sent' \in Nat
      /\ sent' <= MaxSends
      /\ WordSub(sequence, b) \in 0 .. 4 * Quarter - 1
      /\ WordSub(sequence', b) \in 0 .. 4 * Quarter - 1
      /\ WordSub(lastSequence, b) \in 0 .. 4 * Quarter - 1
  <2>1. /\ b \in Words /\ WordSub(sequence, b) \in 0 .. 4 * Quarter - 1
        /\ WordSub(lastSequence, b) \in 0 .. 4 * Quarter - 1
    BY Places
  <2>2. WordSub(sequence', b) \in Words
    BY <1>2, <2>1, WordFacts DEF Typed, SenderOK
  <2> QED BY <1>2, <2>1, <2>2, Sizes DEF Typed, SenderOK, SeenOK
<1>4. /\ WordSub(sequence, b) <= 3 * Quarter + sent - 3
      /\ Floor(n) <= WordSub(sequence, b) /\ n <= sent
  BY <1>2 DEF Frame, Numbered
<1>5. /\ WordSub(sequence, b) <= WordSub(sequence', b)
      /\ WordSub(sequence', b) <= 3 * Quarter + sent' - 3
  <2>1. CASE sequence' = sequence
    BY <1>1, <1>3, <1>4, <2>1, Sizes
  <2>2. CASE sequence' = WordAdd(sequence, 1) /\ sent' = sent + 1
    <3>1. WordSub(sequence, b) < WordSize - 1
      BY <1>3, <1>4, <2>2, Sizes
    <3>2. WordSub(sequence', b) = WordSub(sequence, b) + 1
      BY <1>3, <2>2, <3>1, WordFacts
    <3> QED BY <1>3, <1>4, <2>2, <3>2, Sizes
  <2> QED BY <1>1, <2>1, <2>2
<1>6. Floor(n) \in Nat
  BY Sizes, Marks DEF Floor
<1>7. Numbered(b, n)'
  <2>1. n <= sent' /\ Floor(n) <= WordSub(sequence', b)
    BY <1>1, <1>3, <1>4, <1>5, <1>6
  <2> QED BY <1>2, <1>5, <2>1 DEF Numbered
<1>8. Ordinary(b, n)' /\ Resyncs(b, n)'
  <2>1. Floor(n) <= WordSub(p.sequence, b) /\ WordSub(p.sequence, b) <= WordSub(sequence', b)
    BY <1>1, <1>4, <1>5
  <2>2. n \in n .. 4 /\ 0 \in 0 .. 4
    OBVIOUS
  <2>3. /\ Ordinary(b, n) /\ Resyncs(b, n) /\ resynced \subseteq 1 .. n /\ Typed'
        /\ resynced' = resynced
    BY <1>2 DEF Frame
  <2> QED BY <1>1, <1>5, <2>1, <2>2, <2>3, LongerFrame, Zenon
<1>9. Open' => Open
  <2>1. ASSUME NEW i \in DOMAIN net', net'[i].resync # 0
        PROVE  i \in DOMAIN net /\ net[i].resync # 0
    <3>1. CASE i \in DOMAIN net
      BY <1>1, <2>1, <3>1 DEF Longer
    <3>2. CASE i \notin DOMAIN net
      BY <1>1, <2>1, <3>2 DEF Longer
    <3> QED BY <3>1, <3>2
  <2> QED BY <1>2, <2>1 DEF Open
<1>10. Located(b)'
  <2>1. /\ Located(b) /\ UNCHANGED <<lastSequence, resynced>>
    BY <1>2 DEF Frame
  <2>2. /\ WordSub(sequence, b) \in Nat /\ WordSub(sequence', b) \in Nat
        /\ WordSub(lastSequence, b) \in Nat
    BY <1>3
  <2> QED BY <1>5, <1>9, <2>1, <2>2, LocatedStays
<1> QED BY <1>2, <1>7, <1>8, <1>10 DEF Frame

\* The next resync packet, or the one whose send fails, is a quarter on.
LEMMA QuarterOn ==
  ASSUME Typed, NEW b \in 0 .. Quarter - 1, NEW n \in 0 .. 3, Numbered(b, n), phase = "resync"
  PROVE  /\ b = base /\ n = index /\ b + n * Quarter = b + Mark(n + 1)
         /\ b + n * Quarter \in Words
         /\ WordSub(b + n * Quarter, b) = n * Quarter /\ n * Quarter \in Nat
         /\ Mark(n + 1) = n * Quarter /\ Floor(n) = n * Quarter
         /\ WordSub(sequence, b) <= n * Quarter
         /\ n * Quarter <= 3 * Quarter + sent - 3
<1>1. b = base /\ n = index /\ n <= sent
  BY DEF Numbered
<1>2. n + 1 \in 1 .. 4 /\ n # 4 /\ (n + 1) - 1 = n
  OBVIOUS
<1>3. Mark(n + 1) = n * Quarter /\ Floor(n) = n * Quarter
  BY <1>2 DEF Mark, Floor
<1>4. Mark(n + 1) \in Nat /\ b + Mark(n + 1) \in Words /\ WordSub(b + Mark(n + 1), b) = Mark(n + 1)
  BY <1>2, MarkOrder, MarkPlace
<1>5. WordSub(sequence, b) <= n * Quarter
  <2>1. CASE n = 0
    <3>1. sequence = b /\ b \in Words
      BY <2>1, Places, Sizes DEF Numbered
    <3>2. WordSub(sequence, b) = 0
      BY <3>1, WordFacts
    <3> QED BY <2>1, <3>2, Sizes
  <2>2. CASE n # 0
    <3>1. n \in 1 .. 4 /\ n \in 1 .. n + 1
      BY <2>2
    <3>2. WordSub(sequence, b) = Mark(n)
      BY <2>2, <3>1, MarkPlace DEF Numbered
    <3>3. Mark(n) <= Mark(n + 1)
      BY <1>2, <3>1, MarkOrder
    <3> QED BY <1>3, <3>2, <3>3
  <2> QED BY <2>1, <2>2
<1>6. n * Quarter <= 3 * Quarter + sent - 3
  <2>1. Quarter \in Nat /\ Quarter >= 1 /\ sent \in Nat
    BY Sizes DEF Typed, SeenOK
  <2>2. n = 0 \/ n = 1 \/ n = 2 \/ n = 3
    OBVIOUS
  <2>3. CASE n = 0
    BY <2>1, <2>3
  <2>4. CASE n = 1
    BY <1>1, <2>1, <2>4
  <2>5. CASE n = 2
    BY <1>1, <2>1, <2>5
  <2>6. CASE n = 3
    BY <1>1, <2>1, <2>6
  <2> QED BY <2>2, <2>3, <2>4, <2>5, <2>6
<1> QED BY <1>1, <1>3, <1>4, <1>5, <1>6

\* A resync packet is sent.
LEMMA ResyncFrame ==
  ASSUME Typed, OrderInv, Resync, NEW b \in 0 .. Quarter - 1, NEW n \in 0 .. 4, Frame(b, n)
  PROVE  n + 1 \in 0 .. 4 /\ Frame(b, n + 1)'
<1>1. /\ Typed' /\ sent' = sent + 1 /\ phase = "resync" /\ phase' = "resync"
      /\ UNCHANGED <<lastSequence, resynced, base>> /\ index < 4 /\ index' = index + 1
      /\ sequence' = base + index * Quarter
  BY ResyncTyped DEF Resync, ResyncSequence
<1>2. PICK p \in Packet :
        /\ p.sequence = base + index * Quarter
        /\ Longer([packet |-> p, order |-> sent + 1, resync |-> index + 1])
  BY ResyncTyped
<1>3. /\ Numbered(b, n) /\ Ordinary(b, n) /\ Resyncs(b, n)
      /\ resynced \subseteq 1 .. n /\ Located(b)
  BY DEF Frame
<1>4. n = index /\ n \in 0 .. 3 /\ n + 1 \in 0 .. 4 /\ n + 1 # 0
  BY <1>1, <1>3 DEF Numbered
<1>5. /\ b = base
      /\ b + n * Quarter = b + Mark(n + 1)
      /\ WordSub(b + n * Quarter, b) = n * Quarter /\ n * Quarter \in Nat
      /\ WordSub(sequence, b) <= n * Quarter
      /\ n * Quarter <= 3 * Quarter + sent - 3
  BY <1>1, <1>3, <1>4, QuarterOn
<1>6. /\ sent \in Nat /\ n <= sent
      /\ WordSub(sequence, b) \in Nat /\ WordSub(lastSequence, b) \in Nat
  BY <1>3, Places DEF Typed, SeenOK, Numbered
<1>7. WordSub(sequence', b) = n * Quarter /\ sequence' = b + Mark(n + 1)
  BY <1>1, <1>4, <1>5
<1>8. Numbered(b, n + 1)'
  <2>1. n * Quarter <= 3 * Quarter + (sent + 1) - 3 /\ n + 1 <= sent + 1
    BY <1>4, <1>5, <1>6, Sizes
  <2> QED BY <1>1, <1>4, <1>5, <1>7, <2>1 DEF Numbered
<1>9. \A i \in DOMAIN net : net[i].resync # 0
  BY <1>1 DEF OrderInv, SenderOrder
<1>10. Ordinary(b, n + 1)' /\ Resyncs(b, n + 1)'
  <2>1. n + 1 \in n .. 4
    BY <1>4
  <2>2. p.sequence = b + Mark(n + 1)
    BY <1>2, <1>4, <1>5
  <2>3. Longer([packet |-> p, order |-> sent + 1, resync |-> n + 1])
    BY <1>2, <1>4
  <2>4. Typed' /\ resynced' = resynced
    BY <1>1
  <2> QED BY <1>3, <1>4, <1>9, <2>1, <2>2, <2>3, <2>4, LongerFrame, Zenon
<1>11. Located(b)'
  <2>1. Open
    BY <1>1 DEF Open
  <2> QED BY <1>1, <1>3, <1>5, <1>6, <1>7, <2>1, LocatedStays
<1>12. resynced' \subseteq 1 .. n + 1
  BY <1>1, <1>3
<1> QED BY <1>4, <1>8, <1>10, <1>11, <1>12 DEF Frame

\* The resynchronisation is abandoned: the packet, sent once or not at all, is
\* an ordinary one from here on.
LEMMA ResyncFailFrame ==
  ASSUME Typed, OrderInv, ResyncFail, NEW b \in 0 .. Quarter - 1, NEW n \in 0 .. 4, Frame(b, n)
  PROVE  Frame(b, n)'
<1>1. /\ Typed' /\ sent' \in {sent, sent + 1} /\ phase = "resync" /\ phase' = "up"
      /\ UNCHANGED <<lastSequence, resynced>> /\ index < 4
      /\ sequence' = base + index * Quarter
  BY ResyncFailTyped DEF ResyncFail, ResyncSequence
<1>2. PICK p \in Packet :
        /\ p.sequence = base + index * Quarter
        /\ Longer([packet |-> p, order |-> sent + 1, resync |-> 0])
  BY ResyncFailTyped
<1>3. /\ Numbered(b, n) /\ Ordinary(b, n) /\ Resyncs(b, n)
      /\ resynced \subseteq 1 .. n /\ Located(b)
  BY DEF Frame
<1>4. n = index /\ n \in 0 .. 3
  BY <1>1, <1>3 DEF Numbered
<1>5. /\ b = base /\ Floor(n) = n * Quarter
      /\ WordSub(b + n * Quarter, b) = n * Quarter /\ n * Quarter \in Nat
      /\ WordSub(sequence, b) <= n * Quarter
      /\ n * Quarter <= 3 * Quarter + sent - 3
  BY <1>1, <1>3, <1>4, QuarterOn
<1>6. /\ sent \in Nat /\ n <= sent
      /\ WordSub(sequence, b) \in Nat /\ WordSub(lastSequence, b) \in Nat
  BY <1>3, Places DEF Typed, SeenOK, Numbered
<1>7. /\ WordSub(sequence', b) = n * Quarter /\ WordSub(p.sequence, b) = n * Quarter
  BY <1>1, <1>2, <1>4, <1>5
<1>8. Numbered(b, n)'
  <2>1. \A m, q, s, t \in Nat : m <= q + s - 3 /\ s <= t => m <= q + t - 3
    OBVIOUS
  <2>2. sent' \in Nat /\ sent <= sent' /\ 3 * Quarter \in Nat
    BY <1>1, <1>6, Sizes
  <2>3. n * Quarter <= 3 * Quarter + sent' - 3
    BY <1>5, <1>6, <2>1, <2>2
  <2>4. n <= sent'
    BY <1>4, <1>6, <2>2
  <2>5. Floor(n) <= n * Quarter
    BY <1>5
  <2> QED BY <1>1, <1>7, <2>3, <2>4, <2>5 DEF Numbered
<1>9. \A i \in DOMAIN net : net[i].resync # 0
  BY <1>1 DEF OrderInv, SenderOrder
<1>10. Ordinary(b, n)' /\ Resyncs(b, n)'
  <2>1. n \in n .. 4 /\ 0 \in 0 .. 4
    OBVIOUS
  <2>2. Floor(n) <= WordSub(p.sequence, b) /\ WordSub(p.sequence, b) <= WordSub(sequence', b)
    BY <1>5, <1>7
  <2>3. Typed' /\ resynced' = resynced
    BY <1>1
  <2> QED BY <1>2, <1>3, <1>9, <2>1, <2>2, <2>3, LongerFrame, Zenon
<1>11. Located(b)'
  <2>1. Open
    BY <1>1 DEF Open
  <2> QED BY <1>1, <1>3, <1>5, <1>6, <1>7, <2>1, LocatedStays
<1> QED BY <1>1, <1>3, <1>8, <1>10, <1>11 DEF Frame

\* The resynchronisation is complete: the next number is one on.
LEMMA ResyncDoneFrame ==
  ASSUME Typed, OrderInv, ResyncDone, NEW b \in 0 .. Quarter - 1, NEW n \in 0 .. 4, Frame(b, n)
  PROVE  Frame(b, n)'
<1>1. /\ phase = "resync" /\ phase' = "up" /\ index = 4
      /\ sequence' = WordAdd(sequence, 1)
      /\ UNCHANGED <<lastSequence, resynced, net, sent>>
  BY DEF ResyncDone, command, observer, front
<1>2. /\ Numbered(b, n) /\ Ordinary(b, n) /\ Resyncs(b, n)
      /\ resynced \subseteq 1 .. n /\ Located(b)
  BY DEF Frame
<1>3. /\ n = 4 /\ sequence = b + Mark(4) /\ 4 <= sent
  BY <1>1, <1>2 DEF Numbered
<1>4. /\ sent \in Nat /\ sent <= MaxSends /\ sequence \in Words /\ b \in Words
      /\ WordSub(sequence, b) \in Nat /\ WordSub(lastSequence, b) \in Nat
  BY Places, Sizes DEF Typed, SeenOK, SenderOK
<1>5. WordSub(sequence, b) = 3 * Quarter
  BY <1>3, MarkPlace, Marks
<1>6. WordSub(sequence', b) = 3 * Quarter + 1
  <2>1. 3 * Quarter < WordSize - 1
    BY <1>3, <1>4, Sizes
  <2> QED BY <1>1, <1>4, <1>5, <2>1, WordFacts
<1>7. Numbered(b, n)'
  <2>1. 3 * Quarter + 1 <= 3 * Quarter + sent' - 3 /\ Floor(n) <= 3 * Quarter + 1 /\ n <= sent'
    BY <1>1, <1>3, <1>4, Sizes, Marks
  <2> QED BY <1>1, <1>6, <2>1 DEF Numbered
<1>8. Ordinary(b, n)'
  BY <1>1 DEF OrderInv, SenderOrder, Ordinary
<1>9. Resyncs(b, n)'
  BY <1>1, <1>2 DEF Resyncs
<1>10. Located(b)'
  <2>1. Open
    BY <1>1 DEF Open
  <2>2. 3 * Quarter <= 3 * Quarter + 1 /\ 3 * Quarter + 1 \in Nat
    BY Sizes
  <2> QED BY <1>1, <1>2, <1>4, <1>5, <1>6, <2>1, <2>2, LocatedStays
<1> QED BY <1>1, <1>2, <1>7, <1>8, <1>9, <1>10 DEF Frame

\* A packet is lost, or nothing happens.
LEMMA LoseFrame ==
  ASSUME Typed, Thinner, UNCHANGED <<sender, observer, lastSequence>>,
         NEW b \in 0 .. Quarter - 1, NEW n \in 0 .. 4, Frame(b, n)
  PROVE  Frame(b, n)'
<1>1. UNCHANGED <<phase, sequence, base, index, sent, resynced, lastSequence>>
  BY DEF sender, observer, front
<1>2. /\ Numbered(b, n) /\ Ordinary(b, n) /\ Resyncs(b, n)
      /\ resynced \subseteq 1 .. n /\ Located(b)
  BY DEF Frame
<1>3. Numbered(b, n)'
  BY <1>1, <1>2 DEF Numbered
<1>4. Ordinary(b, n)' /\ Resyncs(b, n)' /\ (Open' => Open)
  BY <1>1, <1>2, ThinnerFrame
<1>5. Located(b)'
  <2>1. WordSub(sequence, b) \in Nat /\ WordSub(lastSequence, b) \in Nat
    BY Places
  <2> QED BY <1>1, <1>2, <1>4, <2>1, LocatedStays
<1> QED BY <1>1, <1>2, <1>3, <1>4, <1>5 DEF Frame

\* Where FRONT's number is after a resync packet: at the packet, or untouched
\* because the packet, seen from it, is in the old half of the word.
LEMMA Judged ==
  ASSUME Typed, NEW i \in DOMAIN net, Deliver(i), NEW b \in 0 .. Quarter - 1, NEW k \in 1 .. 4,
         net[i].packet.sequence = b + Mark(k)
  PROVE  \/ WordSub(lastSequence', b) = Mark(k)
         \/ /\ lastSequence' = lastSequence
            /\ \/ /\ Mark(k) <= WordSub(lastSequence, b)
                  /\ WordSub(lastSequence, b) <= Mark(k) + 2 * Quarter
               \/ WordSub(lastSequence, b) + 2 * Quarter <= Mark(k)
<1> DEFINE s == b + Mark(k)
           l == WordSub(lastSequence, b)
<1>1. /\ b \in Words /\ lastSequence \in Words /\ s \in Words /\ WordSub(s, b) = Mark(k)
      /\ l \in 0 .. 4 * Quarter - 1
  BY Places, MarkPlace DEF Typed, CommandTypeOK
<1>2. Mark(k) \in Nat /\ Mark(k) <= 3 * Quarter
  BY MarkOrder
<1>3. /\ Accepted(net[i].packet) <=> Fresh(net[i].packet)
      /\ Accepted(net[i].packet) => lastSequence' = s
      /\ ~Accepted(net[i].packet) => lastSequence' = lastSequence
  BY DeliverTyped
<1>4. CASE Accepted(net[i].packet)
  BY <1>1, <1>3, <1>4
<1>5. CASE ~Accepted(net[i].packet)
  <2>1. ~sequenceNewer(s, lastSequence)
    <3>1. net[i].packet.wellFormed
      BY FlightTypes DEF Typed, Usable
    <3> QED BY <1>3, <1>5, <3>1 DEF Fresh
  <2>2. WordSub(s, lastSequence) = 0 \/ ~(WordSub(s, lastSequence) < HalfWord)
    BY <2>1 DEF sequenceNewer
  <2>3. WordSub(s, lastSequence) = IF Mark(k) >= l THEN Mark(k) - l ELSE Mark(k) - l + WordSize
    <3> HIDE DEF s
    <3> QED BY <1>1, WordDiff
  <2> HIDE DEF s, l
  <2>4. (Mark(k) <= l /\ l <= Mark(k) + 2 * Quarter) \/ l + 2 * Quarter <= Mark(k)
    BY <1>1, <1>2, <2>2, <2>3, Sizes
  <2> QED BY <1>3, <1>5, <2>4 DEF l
<1> QED BY <1>4, <1>5

\* FRONT sees a resync packet: what it holds is located more closely.
LEMMA ResyncSeenFrame ==
  ASSUME Typed, phase # "down", NEW i \in DOMAIN net, Deliver(i), net[i].resync # 0,
         NEW b \in 0 .. Quarter - 1, NEW n \in 0 .. 4, Frame(b, n)
  PROVE  Located(b)'
<1> DEFINE l  == WordSub(lastSequence, b)
           l2 == WordSub(lastSequence', b)
           P  == WordSub(sequence, b)
<1>1. PICK k \in 1 .. 4 : net[i].resync = k
  BY FlightTypes DEF Typed
<1>2. /\ Numbered(b, n) /\ Resyncs(b, n) /\ Located(b) /\ resynced \subseteq 1 .. n
  BY DEF Frame
<1>3. /\ net[i].packet.sequence = b + Mark(k) /\ k \in 1 .. n
      /\ \A r \in resynced : r <= k
  BY <1>1, <1>2 DEF Resyncs
<1>4. /\ Typed' /\ sequence' = sequence /\ resynced' = resynced \union {k}
  BY <1>1, DeliverTyped DEF sender
<1>5. l \in 0 .. 4 * Quarter - 1 /\ P \in 0 .. 4 * Quarter - 1 /\ l2 \in 0 .. 4 * Quarter - 1
  <2>1. lastSequence' \in Words /\ b \in Words
    BY <1>4, Sizes DEF Typed, CommandTypeOK
  <2>2. l2 \in Words
    BY <2>1, WordFacts
  <2> QED BY <2>2, Places, Sizes
<1>6. Mark(k) <= P
  BY <1>2, <1>3, Beyond
<1>7. \/ l2 = Mark(k)
      \/ l2 = l /\ Mark(k) <= l /\ l <= Mark(k) + 2 * Quarter
      \/ l2 = l /\ l + 2 * Quarter <= Mark(k)
  BY <1>3, Judged
<1>8. Open
  BY DEF Open
<1>9. Quarter \in Nat /\ Quarter >= 1
  BY Sizes
<1>10. resynced \subseteq 1 .. 4
  BY DEF Typed, SeenOK
<1>11. /\ Mark(1) = 0 /\ Mark(1 + 1) = Quarter /\ Mark(2 + 1) = 2 * Quarter
       /\ Mark(1 + 2) = 2 * Quarter /\ Mark(2 + 2) = 3 * Quarter
       /\ Mark(2) = Quarter /\ Mark(3) = 2 * Quarter /\ Mark(4) = 3 * Quarter
  BY Marks
<1> HIDE DEF l, l2, P
<1>12. ASSUME NEW j \in {1, 2}, Seen1(j)'
       PROVE  Mark(j) <= l2 /\ l2 <= Mark(j + 2)
  <2>1. k = j
    BY <1>3, <1>4, <1>10, <1>12 DEF Seen1
  <2> QED BY <1>5, <1>7, <1>9, <1>11, <2>1
<1>13. ASSUME NEW j \in {1, 2}, Seen2(j)'
       PROVE  Mark(j + 1) <= l2 /\ l2 <= Mark(j + 2)
  <2>1. k = j + 1 /\ j \in resynced
    BY <1>3, <1>4, <1>10, <1>13 DEF Seen2
  <2>2. Mark(j) <= l /\ l <= Mark(j + 2)
    <3>1. CASE j + 1 \in resynced
      <4>1. Seen2(j)
        BY <1>3, <2>1, <3>1 DEF Seen2
      <4>2. Mark(j + 1) <= l /\ l <= Mark(j + 2)
        BY <1>2, <1>8, <4>1 DEF Located, l
      <4> QED BY <1>5, <1>9, <1>11, <4>2
    <3>2. CASE j + 1 \notin resynced
      <4>1. Seen1(j)
        BY <1>3, <1>10, <2>1, <3>2 DEF Seen1
      <4> QED BY <1>2, <1>8, <4>1 DEF Located, l
    <3> QED BY <3>1, <3>2
  <2> QED BY <1>5, <1>7, <1>9, <1>11, <2>1, <2>2
<1>14. ASSUME NEW j \in {1, 2}, Seen3(j)'
       PROVE  Mark(j + 2) <= l2 /\ l2 <= P
  <2>1. j + 2 \in resynced' /\ j \in resynced' /\ j + 1 \in resynced'
    BY <1>14 DEF Seen3
  <2>2. j + 2 <= k
    BY <1>3, <1>4, <2>1
  <2>3. j \in resynced /\ j + 1 \in resynced
    BY <1>4, <2>1, <2>2
  <2>4. CASE j + 2 \in resynced
    <3>1. Seen3(j)
      BY <2>3, <2>4 DEF Seen3
    <3>2. Mark(j + 2) <= l /\ l <= P
      BY <1>2, <3>1 DEF Located, l, P
    <3>3. Mark(j + 2) <= Mark(k)
      BY <1>9, <1>11, <2>2
    <3> QED BY <1>5, <1>6, <1>7, <1>9, <1>11, <3>2, <3>3
  <2>5. CASE j + 2 \notin resynced
    <3>1. k = j + 2
      BY <1>4, <2>1, <2>5
    <3>2. Seen2(j)
      <4>1. \A r \in resynced : r <= j + 1
        BY <1>3, <1>10, <2>5, <3>1
      <4> QED BY <2>3, <4>1 DEF Seen2
    <3>3. Mark(j + 1) <= l /\ l <= Mark(j + 2)
      BY <1>2, <1>8, <3>2 DEF Located, l
    <3> QED BY <1>5, <1>6, <1>7, <1>9, <1>11, <3>1, <3>3
  <2> QED BY <2>4, <2>5
<1> QED BY <1>4, <1>12, <1>13, <1>14 DEF Located, l2, P

\* An ordinary packet is only delivered when nothing of the resynchronisation
\* is left, and does not move FRONT back behind it.
LEMMA OrdinaryFrame ==
  ASSUME Typed, OrderInv, phase # "down", NEW i \in DOMAIN net, Deliver(i), net[i].resync = 0,
         NEW b \in 0 .. Quarter - 1, NEW n \in 0 .. 4, Frame(b, n)
  PROVE  Located(b)'
<1> DEFINE l  == WordSub(lastSequence, b)
           l2 == WordSub(lastSequence', b)
           P  == WordSub(sequence, b)
<1>1. /\ Ordinary(b, n) /\ Resyncs(b, n) /\ Located(b) /\ resynced \subseteq 1 .. n
  BY DEF Frame
<1>2. /\ Typed' /\ Thinner /\ sequence' = sequence /\ phase' = phase /\ resynced' = resynced
      /\ lastSequence' = net[i].packet.sequence \/ lastSequence' = lastSequence
  BY DeliverTyped DEF sender
<1>3. \A j \in DOMAIN net : net[j].resync = 0
  <2> SUFFICES ASSUME NEW j \in DOMAIN net, net[j].resync # 0 PROVE FALSE
    OBVIOUS
  <2>1. i \in Nat /\ i >= 1 /\ j \in Nat /\ j >= 1 /\ i # j
    BY FlightTypes DEF Typed
  <2>2. CASE i < j
    <3>1. i <= j
      BY <2>1, <2>2
    <3> QED BY <1>1, <3>1 DEF Resyncs
  <2>3. CASE j < i
    <3>1. j \in 1 .. i /\ i # 1
      BY <2>1, <2>3
    <3> QED BY <3>1 DEF Deliver, CanOvertake
  <2> QED BY <2>1, <2>2, <2>3
<1>4. ~Open'
  <2>1. phase # "resync"
    BY DEF OrderInv, SenderOrder
  <2>2. PICK f \in [DOMAIN net' -> DOMAIN net] : \A j \in DOMAIN net' : net'[j] = net[f[j]]
    BY <1>2 DEF Thinner
  <2>3. \A j \in DOMAIN net' : net'[j].resync = 0
    BY <1>3, <2>2
  <2> QED BY <1>2, <2>1, <2>3 DEF Open
<1>5. ASSUME NEW j \in {1, 2}, Seen3(j)'
      PROVE  Mark(j + 2) <= l2 /\ l2 <= P
  <2>1. Seen3(j)
    BY <1>2, <1>5 DEF Seen3
  <2>2. Mark(j + 2) <= l /\ l <= P
    BY <1>1, <2>1 DEF Located
  <2>3. CASE lastSequence' = lastSequence
    BY <2>2, <2>3
  <2>4. CASE lastSequence' = net[i].packet.sequence
    <3>1. Floor(n) <= l2 /\ l2 <= P
      BY <1>1, <2>4 DEF Ordinary
    <3>2. j + 2 \in 1 .. n
      BY <1>1, <2>1 DEF Seen3
    <3>3. n = 3 \/ n = 4
      BY <3>2
    <3>4. Floor(n) = 3 * Quarter
      BY <3>3, Marks
    <3>5. Mark(j + 2) <= 3 * Quarter /\ Mark(j + 2) \in Nat
      BY MarkOrder
    <3>6. l2 \in Words
      <4>1. lastSequence' \in Words /\ b \in Words
        BY <1>2, Sizes DEF Typed, CommandTypeOK
      <4> QED BY <4>1, WordFacts
    <3> HIDE DEF l2, P
    <3>7. l2 \in Nat
      BY <3>6, Sizes
    <3> QED BY <3>1, <3>4, <3>5, <3>7, Sizes
  <2> QED BY <1>2, <2>3, <2>4
<1> QED BY <1>2, <1>4, <1>5 DEF Located

\* FRONT takes a packet.
LEMMA DeliverFrame ==
  ASSUME Typed, OrderInv, phase # "down", NEW i \in DOMAIN net, Deliver(i),
         NEW b \in 0 .. Quarter - 1, NEW n \in 0 .. 4, Frame(b, n)
  PROVE  Frame(b, n)'
<1>1. /\ Numbered(b, n) /\ Ordinary(b, n) /\ Resyncs(b, n) /\ resynced \subseteq 1 .. n
  BY DEF Frame
<1>2. /\ Typed' /\ Thinner /\ UNCHANGED <<phase, sequence, base, index, sent>>
      /\ resynced' = resynced \union ({net[i].resync} \ {0})
  BY DeliverTyped DEF sender
<1>3. Numbered(b, n)'
  BY <1>1, <1>2 DEF Numbered
<1>4. Ordinary(b, n)'
  BY <1>1, <1>2, ThinnerFrame
<1>5. CASE net[i].resync = 0
  <2>1. resynced' = resynced
    BY <1>2, <1>5
  <2>2. Resyncs(b, n)'
    BY <1>1, <1>2, <2>1, ThinnerFrame
  <2>3. Located(b)'
    BY <1>5, OrdinaryFrame
  <2> QED BY <1>1, <1>3, <1>4, <2>1, <2>2, <2>3 DEF Frame
<1>6. CASE net[i].resync # 0
  <2>1. /\ net[i].resync \in 1 .. n /\ i \in Nat /\ i >= 1
    BY <1>1, <1>6, FlightTypes DEF Resyncs, Typed
  <2>2. resynced' = resynced \union {net[i].resync}
    BY <1>2, <1>6
  <2>3. i = 1
    <3>1. i \in 1 .. i
      BY <2>1
    <3> QED BY <1>6, <3>1 DEF Deliver, CanOvertake
  <2>4. PICK f \in [DOMAIN net' -> DOMAIN net] : \A j, k \in DOMAIN net' :
            net'[j] = net[f[j]] /\ (j <= k <=> f[j] <= f[k])
    BY <1>2 DEF Thinner
  <2>5. ASSUME NEW j \in DOMAIN net', net'[j].resync # 0
        PROVE  /\ net'[j].packet.sequence = b + Mark(net'[j].resync)
               /\ net'[j].resync <= n
               /\ \A r \in resynced' : r <= net'[j].resync
               /\ \A m \in DOMAIN net' :
                     m <= j => net'[m].resync # 0 /\ net'[m].resync <= net'[j].resync
    <3>1. f[j] \in DOMAIN net /\ net'[j] = net[f[j]] /\ net[f[j]].resync # 0
      BY <2>4, <2>5
    <3>2. i <= f[j]
      BY <2>3, <3>1, FlightTypes DEF Typed
    <3>3. net[i].resync <= net[f[j]].resync /\ \A r \in resynced : r <= net[f[j]].resync
      BY <1>1, <3>1, <3>2 DEF Resyncs
    <3>4. \A r \in resynced' : r <= net'[j].resync
      BY <2>2, <3>1, <3>3
    <3>5. net'[j].packet.sequence = b + Mark(net'[j].resync) /\ net'[j].resync <= n
      BY <1>1, <3>1 DEF Resyncs
    <3>6. ASSUME NEW m \in DOMAIN net', m <= j
          PROVE  net'[m].resync # 0 /\ net'[m].resync <= net'[j].resync
      BY <1>1, <2>4, <3>1, <3>6 DEF Resyncs
    <3> QED BY <3>4, <3>5, <3>6
  <2>6. Resyncs(b, n)'
    BY <2>5 DEF Resyncs
  <2>7. Located(b)'
    BY <1>6, ResyncSeenFrame
  <2> QED BY <1>1, <1>3, <1>4, <2>1, <2>2, <2>6, <2>7 DEF Frame
<1> QED BY <1>5, <1>6

\* Every step finds the running process in a frame again.
LEMMA NextFramed == Typed /\ OrderInv /\ Framed /\ [Next]_vars => Framed'
<1> SUFFICES ASSUME Typed, OrderInv, Framed, [Next]_vars, phase' # "down"
             PROVE  \E b \in 0 .. Quarter - 1, n \in 0 .. 4 : Frame(b, n)'
  BY DEF Framed
<1>1. ASSUME NEW b \in Bases, Start(b)
      PROVE  \E c \in 0 .. Quarter - 1, n \in 0 .. 4 : Frame(c, n)'
  <2>1. b \in 0 .. Quarter - 1 /\ 0 \in 0 .. 4
    BY LinkAssumption
  <2> QED BY <1>1, <2>1, StartFrame
<1>2. CASE Close \/ Kill
  BY <1>2 DEF Close, Kill, ProcessGone
<1>3. CASE phase # "down" /\ ~(\E b \in Bases : Start(b)) /\ ~Close /\ ~Kill
  <2>1. PICK b \in 0 .. Quarter - 1, n \in 0 .. 4 : Frame(b, n)
    BY <1>3 DEF Framed
  <2>2. CASE (\E st \in Steers : Control(st)) \/ EmergencyStop \/ Stop \/ PublishLoop
    BY <2>1, <2>2, Handlers, HandlerFrame
  <2>3. CASE Resync
    BY <2>1, <2>3, ResyncFrame
  <2>4. CASE ResyncFail
    BY <2>1, <2>4, ResyncFailFrame
  <2>5. CASE ResyncDone
    BY <2>1, <2>5, ResyncDoneFrame
  <2>6. ASSUME NEW i \in DOMAIN net, Deliver(i) PROVE Frame(b, n)'
    BY <1>3, <2>1, <2>6, DeliverFrame
  <2>7. CASE FrontTrip \/ \E i \in DOMAIN net : Lose(i)
    <3>1. Thinner /\ UNCHANGED <<sender, observer, lastSequence>>
      BY <2>7, LoseOrder
    <3> QED BY <2>1, <3>1, LoseFrame
  <2>8. CASE UNCHANGED vars
    <3>1. Thinner /\ UNCHANGED <<sender, observer, lastSequence>>
      BY <2>8, Unmoved DEF vars, command
    <3> QED BY <2>1, <3>1, LoseFrame
  <2> QED BY <1>3, <2>1, <2>2, <2>3, <2>4, <2>5, <2>6, <2>7, <2>8 DEF Next
<1>4. (\E b \in Bases : Start(b)) \/ phase # "down"
  <2>1. CASE (\E st \in Steers : Control(st)) \/ EmergencyStop \/ Stop \/ PublishLoop
    BY <2>1, Handlers DEF Handler
  <2>2. CASE Resync \/ ResyncFail \/ ResyncDone \/ Close \/ Kill
    BY <2>2 DEF Resync, ResyncFail, ResyncDone, Close, Kill
  <2>3. CASE FrontTrip \/ (\E i \in DOMAIN net : Deliver(i) \/ Lose(i)) \/ UNCHANGED vars
    BY <2>3 DEF FrontTrip, Deliver, Lose, vars, sender
  <2> QED BY <2>1, <2>2, <2>3 DEF Next
<1> QED BY <1>1, <1>2, <1>3, <1>4

\* Whatever FRONT held, a restarted controller whose resynchronisation got through
\* is heard: its next number is ahead of FRONT's by less than half the word.
THEOREM HeardAfterRestart == Spec => []NeverLockedOut
<1>1. Init => Framed
  BY DEF Init, Framed
<1>2. Typed /\ OrderInv /\ Framed => NeverLockedOut
  <2> SUFFICES ASSUME Typed, Framed, phase = "up", ResyncSeen
               PROVE  WordSub(sequence, lastSequence) < HalfWord
    BY DEF NeverLockedOut
  <2>1. PICK b \in 0 .. Quarter - 1, n \in 0 .. 4 : Frame(b, n)
    BY DEF Framed
  <2> DEFINE l == WordSub(lastSequence, b)
             P == WordSub(sequence, b)
  <2>2. \E j \in {1, 2} : Seen3(j)
    BY DEF ResyncSeen, Seen3
  <2>3. PICK j \in {1, 2} : Mark(j + 2) <= l /\ l <= P
    BY <2>1, <2>2 DEF Frame, Located
  <2>4. Mark(j + 2) \in Nat /\ 2 * Quarter <= Mark(j + 2)
    BY Sizes, Marks
  <2>5. P <= 3 * Quarter + sent - 3 /\ sent \in Nat /\ sent <= MaxSends
    BY <2>1, Sizes DEF Frame, Numbered, Typed, SeenOK
  <2>6. l \in Nat /\ P \in Nat
    BY Places
  <2>7. WordSub(sequence, lastSequence) = IF P >= l THEN P - l ELSE P - l + WordSize
    BY Places, WordDiff DEF Typed, SenderOK, CommandTypeOK
  <2> HIDE DEF l, P
  <2> QED BY <2>3, <2>4, <2>5, <2>6, <2>7, Sizes
<1> QED BY InitOrder, NextOrder, NextFramed, <1>1, <1>2, PTL DEF Spec
=============================================================================
