# Self-Driving: a TLA+ model of the vehicle's control nodes

The repository holds the software of a small self-driving vehicle: four computers
that exchange UDP datagrams. FRONT and REAR are TC375 microcontrollers (C), MIDDLE
and HPVC are Raspberry Pis (Python, MATLAB/Simulink). This directory models the
parts that decide whether the vehicle steers, drives and brakes as asked, checks
small instances with TLC, and proves the central properties with TLAPS.

Paths below are relative to `src/`.

## 1. Inventory

| Component | State it keeps | Operations | Talks to |
|---|---|---|---|
| FRONT steering receiver (`FRONT/FrontSteeringNode.c`, loop in `FRONT/Cpu0_Main.c`, polling in `FRONT/AebSensorNode.c`) | `g_state`: link and command flags, target, rate, last sequence and its time, servo angle | accept a packet, watchdog, rate-limited servo step | HPSC datagrams from HPVC through the Ethernet ring; servo |
| FRONT sensor node (`FRONT/AebSensorNode.c`) | two ultrasonic rings, ToF state, ticks of last good readings, frame | read rangers, send AEB1 frame, search for the ToF ranger | AEB1 frames to HPVC; shares the main loop with steering |
| HPVC remote controller (`HPVC/remote_control_flask.py`) | operator's drive/steer/e-stop, sequence number | HTTP handlers, publisher thread, resynchronisation, close | FRONT (each packet twice), REAR |
| HPVC AEB runtime (`HPVC/hpvc_aeb.py`) | latest FRONT and MIDDLE frames with arrival times, stop-hold deadline | one loop turn: receive, decide, send | AEB1 from FRONT, perception from MIDDLE, brake decision out |
| MIDDLE publisher and HPVC link monitor (`MIDDLE/app.py`, `HPVC/middleLinkMonitor.m`) | sequence number; last sequence and fresh time | publish; judge a packet | perception datagrams |
| REAR inter-core buffers (`REAR/Cpu0_Main.c`, `Cpu1_Main.c`, `AebSensorNode.c`) | two slots and an index per buffer | write, read, without locks | cores 0, 1 and 2 |
| REAR drive control (`REAR/Cpu1_Main.c`, `udp_txrx.c`) | last command; speed reference, integral, brake latch, previous mode | receive a command; 5 ms control cycle | commands from HPVC; motors |
| REAR telemetry (`REAR/Cpu0_Main.c`, `udp_txrx.c`) | address of the last sender | send status every 20 ms | whoever sent last |
| REAR sensor node | ultrasonic ring | read, write to LMU | core 0 |
| HPVC runtime API (`HPVC/RPI1/hpvc_runtime_api.py`) | requested and effective features, last FRONT frame, sequence number | HTTP handlers, receiver threads, three publishers | FRONT, REAR |
| MIDDLE perception (`MIDDLE/app.py`, lane, person, ultrasonic) | person cache and its time, worker thread's snapshot | process a frame | camera, AEB runtime |
| HPVC lane-change test script, diagnostics | none | send a fixed profile; print | FRONT, MIDDLE |
| MATLAB encoders/decoders, Simulink builders | none | convert bytes; generate a model | - |
| Vendored lwIP, iLLD, board support | external | - | - |

What is hard here:

* **Time.** Both FRONT clocks come from a 32-bit counter that turns over every
  42.95 s. The millisecond clock turns over with it, long before the `uint32` that
  holds it; elapsed times are `uint32` differences.
* **Order and loss.** Every link is UDP. Steering packets are sent twice and
  numbered; the receivers decide freshness by half-range comparison; both senders
  number from somewhere else after a restart.
* **Blocking.** FRONT's single loop polls the ring, runs the watchdog, reads the
  rangers and may sit in the ToF initialisation; each delays the others.
* **Cores without locks.** REAR's cores share frames field by field.
* **Several sends, one failing.** A publish of the remote controller is three sends,
  of the runtime API two; each stops at the first failure and then keeps its number.
* **Publishers that race.** Handlers, a publisher thread and (in the API) a second one
  that may die at start share one counter.
* **Results used again.** MIDDLE repeats a detection for a second; HPVC keeps what it
  heard last; REAR keeps its last command for ever.
* **State that outlives a mode.** REAR's integrator, brake latch and previous mode;
  the AEB runtime's stop hold.

What makes each correct is stated with the runs below, and the complete list of
hazards, each at its line, is under `hazards` in `PROJECT.json`.

## 2. Modules

| Module | Models | Notes |
|---|---|---|
| `WordArith` | unsigned words, `sequenceNewer` | word size `2 * HalfWord` stands for 2^32 |
| `HpscReceiver` | the command half of FRONT's `g_state`: `FrontSteeringNode_acceptHpscPacket`, the watchdog's effect | shared by the next two modules |
| `FrontSteering` | FRONT's main loop around the receiver: ring, polling, watchdog, rate limit, servo, wrapping clock | one action per call of the loop, `Tick` for the time a call blocks |
| `SteeringLink` | the steering half of the remote controller, the network, `HpscReceiver` at its end | one action per HTTP handler, publisher turn, resync step, close, kill, delivery, loss |
| `AtomicCell`, `DoubleBuffer` | abstract promise and implementation of REAR's inter-core buffers | one action per field access |
| `RearControl` | REAR's command reception and control cycle, any command at any time | PI arithmetic arbitrary within its limits |
| `RearDrive` | composes `RearControl` with the drive half of the remote controller, other hosts and REAR's status frames | one action per handler, publisher turn, process event, frame and cycle |
| `RuntimeApi` | the runtime API, `HpscReceiver` and its watchdog at one end, REAR's reception at the other | one action per handler, frame, publisher turn, process event; time in publisher periods |
| `HpvcAeb` | the AEB runtime's loop, decision, stop hold, crash and restart | times kept as ages |
| `FrontSensors` | FRONT's rangers: ring, median, freshness, ToF search | tick counter as a word |
| `MiddleLink` | MIDDLE's numbering, a lossy network, `middleLinkMonitor` | its constants are numbers, so its runs need no MC module |
| `Perception` | MIDDLE's person detector and its cache, the network, and what `hpvc_aeb.py` makes of it | explicit time; no MC module |
| `FrontSteeringProofs`, `SteeringLinkProofs`, `FrontSensorsProofs`, `HpvcAebProofs`, `MiddleLinkProofs`, `PerceptionProofs`, `RuntimeApiProofs` | theorems about the module of that name | see section 5 |
| `RearProofs` | theorems about `RearControl`, `RearDrive` and `DoubleBuffer` | extends both sides of REAR, whose definitions therefore carry different names (`Spec`, `DriveSpec`, `BufferSpec`) |
| `MC*` | the constants of the runs | |

Correspondence, where it is not the obvious one:

* A packet in `HpscReceiver` is a record of what the code reads. Length, magic,
  version, header fields and CRC are one flag, `wellFormed`: each failing check
  takes the same early return. The angle stays a number, because the limit check,
  the clamp and the rate limit act on it.
* `FrontSteering`'s `pc` names the call `core0_main` is about to make, `busy` the
  milliseconds the last call still takes. `commandAge` and `sinceApply` are
  observers: the true time since the packet in force *arrived*, and since the servo
  moved. The code never sees them; the properties compare them with what the code
  computes from its clock.
* `DoubleBuffer` is one module for four buffers with the same access pattern, so its
  definitions are mapped to different functions, which together are all of them. The
  accesses are volatile and uncached and a `dsync` comes before the index switch;
  program order is therefore assumed.
* In `RearControl` the command is an atomic value. `DoubleBuffer` justifies that for
  reads that are not overrun; an overrun read of a drive command mixes the fields of
  two commands, and that mixture is again a member of `DriveCmd`, which `Receive`
  may deliver at any time. The double buffer's frame therefore needs no place in it.
* `SteeringLink` lets the watchdog trip at any moment (a superset of what FRONT's
  timing allows), so it needs no clock. Its `heard`, `acceptedOrder` and `resynced`
  are observers. A publish holds the controller's lock from the handler's assignment
  to its last send, which is why it is one action.
* The remote controller's publish is split over two modules: `SteeringLink` has what it
  means for FRONT (every pattern of failing sends), `RearDrive` what it means for REAR
  (the packet arrives, or a send to either board failed or it was lost). The operator's
  emergency flag is in both.
* `RearDrive` keeps `RearControl`'s variables and adds its own; `ControlSpec` is
  `RearControl`'s specification, so the properties of the control loop alone are
  checked, and proved, in the composition too. `released` is an observer. `sendable`
  belongs to the environment: `_publish_locked` sends to FRONT before it sends to REAR
  and stops at the first send that raises, so without a route to FRONT, or to the
  broadcast address, no turn reaches REAR.
* `RuntimeApi` keeps the requested features as a set. LCA, the turn signal, reasons and
  the acceleration estimate are not in it: they reach only the status page, or bytes
  that REAR does not read as what they are. The drive packet is a sequence of bytes as
  far as its fields are concerned, because the offsets are what matters there. A frame
  from FRONT is its ToF distance. `quiet`, `lkasOff`, `clean`, `settled` and `packed`
  are observers; `quiet` also stands for FRONT's packet age, in periods. FRONT's
  watchdog is an action of its own, `FrontRun`: FRONT's loop may be held up (a ToF
  search, the ranger reads) for up to `FrontTurns` periods, counted by `sinceRun`, and
  the watchdog may trip on a live link, as it does at a wrap of its clock.
* In `Perception` a detection is one Boolean (confident and in the path), and its
  `evidence` the time since its frame was given to the detector, which the code never
  sends. Capture and lane detection (`MIDDLE/app.py:284-291`) come before that, in the
  same turn, so the image is older than its evidence by their time.
* `MiddleLink` leaves out the `reset` input of `middleLinkMonitor`: its caller feeds it
  the constant `false` (`HPVC/buildHpvcDesktopValidationModel.m:142`), and the tests use
  it to start afresh, which is `Init`.
* `HpvcAeb` keeps ages instead of times; a frame that never came has the largest
  age, which is stale, as `None` is in the code.
* `FrontSensors.sequence` saturates at `InitDelay`, the only value it is compared
  with. The frame's contents are a function of the state and have no variable.

## 3. Runs

Every pass run checks one type invariant at most, and each property is broken by a
mutant of the code (`mutants` in `PROJECT.json`).

| Run | Question and properties | Bounds and why they suffice |
|---|---|---|
| `MCFrontReceiver` | Under every kind of packet at every moment of the loop: a target off centre has a live link, a valid command and no emergency centring (`SteeringAuthorised`); a command in force is never older than watchdog + queueing + longest gap between runs (`StalenessBound`); the servo keeps to the commanded rate, and the watchdog trips only on silence, between clock wraps (`RateLimitedBetweenWraps`, `TripMeansSilenceBetweenWraps`) | word of 16, clock wrapping at 10 (so the two wraps differ, as 42950 and 2^32 do), watchdog 3 ms, sensor work of 1 ms and ToF search plus hold of 1 or 2 ms, ring of 2 (a full ring and the poll guard both happen), one packet of each kind the receiver tells apart, with three sequence numbers that are cyclically newer |
| `MCFrontLive` | Silence brings the wheels back to centre from every phase of the loop and across wraps (`SilenceCenters`); a target that stays is reached (`TargetReached`) | smallest deflection, sensor work and hold of 1 or 2 ms, ring of 1 |
| `MCLink` | A restarted controller whose resynchronisation got through (three packets in a row) is never locked out, whatever number FRONT held (`NeverLockedOut`); every packet FRONT accepts was sent after the one it accepted before, so neither a late one nor the twin of the same send is taken (`NoReplay`, judged at each delivery), with duplicates, overtaking, loss, partial send failures, restarts | word of 16, prior sequence numbers all around it, three packets in flight (a pair and an overtaker), five sends: four resync packets a quarter word apart and a publish, or a resynchronisation cut short, publishes and a restart |
| `MCLinkCenter` (violation) | Does the latest emergency-centre packet centre the wheels when it arrives? Not after a failed send to REAR | as `MCLink`, all steering commands |
| `MCDoubleBuffer` | No torn read without a lap (`NoTornRead`); the buffer implements the cell (`CellSpec`) | three fields, two values: any mixture of two frames can show |
| `MCRearDrive` | No integrator state survives a change of mode (`NoResidue`); the brake is not released within the hysteresis band, also from AEB to ACC (`BrakeHeldUnderDemand`); an urgent command that stays is braked for (`UrgentBrakes`); the network is no more to the loop than `RearControl`'s free environment (`ControlSpec`); an emergency stop that reached REAR survives losses, failures, close and death of the controller (`EstopKept`); one the operator keeps up is braked for in the end if the sends to FRONT stop raising, although its own packet and any number of repetitions may never have left (`EstopBrakes`); the status then comes back from other hosts (`StatusReturns`) | the operator stops and drives; another host sends every kind of command the loop tells apart; accelerations on both sides of the clamp, speeds on both sides of `V_BRAKE_MIN` |
| `MCAebHold` | The stop hold is kept for its whole length whatever arrives (`HoldKept`); braking always rests on a range that arrived recently enough (`BrakeBacked`) | distances in every band of the limits, with and without a person in the path; ages up to the sum of all time-outs |
| `MCFrontSensors` | The median of a full ring is one of its readings with the others around it (`OutlierRejected`); valid bits are exact while no ranger has been silent for a whole turn of the counter (`ValidExactWithinWrap`); searches start at least the retry interval apart, and repeat until the ranger is found (`SearchesSpaced`, `SearchedAgain`) | counter of 8 ticks, every step one tick, so a loop of three ticks meets every value of the counter and stays below half a turn, as the real one does; a usual and an outlying distance |
| `MCMiddleLink` | Every packet that refreshes the link was published after the one before (`OnlyNewerRefreshes`); a restarted MIDDLE is recognised within a bounded time (`RestartRecovers`) | word of 32, at most one loss in a row, delay up to 2 ticks, resync time 5 ticks; the bound is tight to within one period |
| `MCRuntimeApi` | Once LKAS has not been requested for the length of the watchdog and its longest hold-up the target is the centre, although the packet saying so may fail, be lost, carry a used number, or the process be gone (`DisabledCenters`); an API whose packets get through is heard within half the word of periods and two more, and then in every period, whatever number FRONT holds, although a publisher may have died at start, and although the watchdog trips on the live link now and then (`HeardWithinHalfWord`); REAR holds the mode that operator and ranger call for one period after it last changed (`ModeReachesRear`) | word of 4, so numbers are soon used up and a reused or restarted one looks old; a watchdog that trips in the first period without a packet (the shortest one makes the bound of `DisabledCenters` the strictest; the theorem has every length), held up by one period; frames on both sides of the guard |
| `MCRuntimeDrive` (violation) | Does REAR read from an API drive packet what was packed? It does not | all features and distances |
| `MCPerception` | A person believed in was seen no longer ago than cache, inference, network and timeout together allow (`PersonForgotten`); a person every inference finds stays in view without a gap (`PersonHeld`) | inference on every third frame, turns of 1 or 2 ticks, inferences of up to 1, one loss in a row, delay up to 1 (an old datagram can arrive after a newer one). `EvidenceBound` is tight: one less is violated. `SettleBound` is an upper bound, reached to within three ticks |

Bounds that exist only for TLC: `MaxSends` and `NetCap` (`SteeringLink`), `AgeCap`
(observers' ages saturate; past the cap no property tells ages apart), `MaxDelay` and
`MaxLoss` (`MiddleLink`, `Perception`), the `...Cap` ages of `RuntimeApi` and `Perception`. Because `MaxSends` ends behaviours, the `MCLink`
runs set `CHECK_DEADLOCK FALSE`; nothing else does. `MaxSends` may be up to a quarter of
the word and two, for `NeverLockedOut` speaks of no more: 2^30 packets are 20 months of
publishing at 20 Hz, and a controller that FRONT has not heard for longer falls behind it
again.

Assumptions about the environment: in `SteeringLink` and `MiddleLink` a process is
down for longer than the network delays a packet before it is started again; packets
of one resynchronisation, sent 10 ms apart, do not overtake each other; in
`MiddleLink` and `Perception` MIDDLE publishes with a period between two bounds while it
runs; in `RuntimeApi` each publisher alive has one turn in every period and packets are
delivered or lost at once (in the code FRONT may stamp a packet late, by the wait in its
ring: `DisabledCenters` is to be read with the slack that `StalenessBound` gives), and
FRONT runs its watchdog at least once in `FrontTurns` periods; in `RearDrive` drive packets do not overtake each other.

### Fairness

* `FrontSteering`: `WF(Tick)` and `WF(Loop)`. The core's loop has no exit, every
  call in it ends (each wait has a time-out), and the hardware counter never stops.
  Nothing is assumed about packets.
* `FrontSensors`: `WF(Next)`, the same loop.
* `RearDrive`: `WF(Cycle)` and `WF(Status)`, REAR's timer interrupt and the endless loop
  of core 0; `WF(LoopReaches)`: while the process is up and the sends to FRONT have
  stopped raising for good, the publisher thread, which catches every send error, goes
  on sending and the network does not lose every packet. The action needs `sendable`, and
  `Route`, which changes it, has no fairness: nothing makes the sends stop raising, and
  where they come and go for ever nothing is assumed. A handler's own packet has no
  fairness, and neither have other hosts.

## 4. Deviations found

Shown by violation runs:

* `MCLinkCenter`: when the send to REAR fails, the sequence number is not advanced
  although FRONT got the packet. The next one, an emergency centre included, carries
  the same number and is dropped.
* `MCRuntimeDrive`: the API packs the drive packet without padding, REAR reads it at
  padded offsets. Byte 28, REAR's emergency stop, is the API's `command_valid`, always 1:
  every drive packet of the API is an emergency stop.
  `HPVC/remote_control_flask.py:281-283` states the offsets REAR reads.

Seen while modelling, without a run of their own:

* A well-formed new steering packet that is not usable (angle beyond the limit, not
  finite, upstream invalid) leaves the old target in force (`FRONT/FrontSteeringNode.c:285`);
  `HPVC/Interfaces/HPVC_FRONT_STEERING_PROTOCOL.md:61-63` says FRONT centres. The target
  ends with the watchdog at the latest (`StalenessBound`).
* At a wrap of the millisecond clock the elapsed time comes out as about 4.29e9 ms
  (`FRONT/FrontSteeringNode.c:384`), so the servo may reach any target in one step, and
  by the same subtraction the watchdog trips on a live link. That is why
  `RateLimitedBetweenWraps` and `TripMeansSilenceBetweenWraps` say "between wraps", and
  `HeardWithinHalfWord` that packets are accepted, not that the link is up.
* The runtime API numbers from 0 after every start and does not resynchronise: FRONT
  ignores a restarted API until it has sent more packets than its predecessor.
  `HeardWithinHalfWord` is the most that holds.
* The API's emergency guard uses the last ToF range without its valid bit and however
  old it is (`HPVC/RPI1/hpvc_runtime_api.py:248`);
  `HPVC/Interfaces/TC375_FRONT_AEB_SENSOR_PROTOCOL.md:36-37` says invalid distances must
  be ignored.
* While a send to FRONT or to the broadcast address raises, the remote controller sends
  nothing to REAR at all (`HPVC/remote_control_flask.py:304-314`), so not even an
  emergency stop reaches it, however often the publisher repeats it: REAR drives on with
  its last command. Only `close` sends to REAR first. `EstopBrakes` therefore promises
  the stop only where the sends work again.
* A restarted remote controller has forgotten the emergency stop, and its publisher
  replaces it at REAR (`released` in `EstopKept`). Any other host's command does too.
* A ranger that has been dead for a whole turn of the counter is reported fresh again
  for the length of its limit (`FRONT/AebSensorNode.c:192`); that is why
  `ValidExactWithinWrap` says "within a turn".
* After an outage one new ultrasonic reading makes a median of old readings count as
  fresh (`FRONT/AebSensorNode.c:327`).
* `HPVC/hpvc_aeb.py:555` takes any decodable MIDDLE packet, repeated or older, as the
  latest; `HPVC/Interfaces/HPVC_MIDDLE_PROTOCOL.md:53` says such packets do not refresh
  the link. `MCPerception` bounds what that can do. `middleLinkMonitor.m` does check (`MCMiddleLink`).
* When both inputs are stale, or FRONT's is and a person is in the path,
  `hpvc_aeb.py` asks for no braking and so drops a running stop hold; `HoldKept`
  names the two states.
* REAR keeps the last drive command for ever when its sender dies (good for a stop, see
  `EstopKept`; not for a drive), and reads a
  datagram that is too short from uninitialised memory.
* `POST /api/control` clears an emergency stop.

## 5. Proofs

Every safety property that a pass run checks is also a theorem, for every value of the
constants: words of any size, any clock, time-out, delay, number of losses, set of
packets or frames. `Type` stands for the module's type invariant.

| Theorem | Statement |
|---|---|
| `FrontSteeringProofs!TypeCorrect`, `Authorised` | `[]Type`, `[]SteeringAuthorised` |
| `FrontSteeringProofs!TripsOnSilence`, `RateLimited` | `TripMeansSilenceBetweenWraps`, `RateLimitedBetweenWraps` |
| `FrontSteeringProofs!StalenessBounded` | `[]StalenessBound` |
| `SteeringLinkProofs!TypeCorrect`, `NothingReplayed`, `HeardAfterRestart` | `[]Type`, `NoReplay`, `[]NeverLockedOut` |
| `FrontSensorsProofs!TypeCorrect`, `MedianFilters`, `ValidBitsExact`, `SearchesApart` | `[]Type`, `[]OutlierRejected`, `[]ValidExactWithinWrap`, `SearchesSpaced` |
| `HpvcAebProofs!TypeCorrect`, `StopHoldKept`, `BrakingBacked` | `[]Type`, `HoldKept`, `BrakeBacked` |
| `MiddleLinkProofs!TypeCorrect`, `RefreshedByNewer`, `RestartRecovered` | `[]Type`, `[]OnlyNewerRefreshes`, `[]RestartRecovers` |
| `PerceptionProofs!TypeCorrect`, `OldPersonsForgotten`, `PersonStays` | `[]Type`, `[]PersonForgotten`, `[]PersonHeld` |
| `RuntimeApiProofs!TypeCorrect`, `SteeringReleased`, `ModeTakesEffect` | `[]Type`, `[]DisabledCenters`, `[]ModeReachesRear` |
| `RuntimeApiProofs!HeardInTime` | `[]HeardWithinHalfWord`, for a half word above 1 |
| `RearProofs!TypeCorrect`, `CleanStart`, `BrakeHeld` | of `RearControl`: `[]Type`, `[]NoResidue`, `BrakeHeldUnderDemand` |
| `RearProofs!ImplementsControl` | `DriveSpec => ControlSpec`: every step of `RearDrive` maps to a step of `RearControl` or a stutter |
| `RearProofs!DriveTypeCorrect`, `DriveCleanStart`, `DriveBrakeHeld` | the same of `RearDrive`, by the refinement |
| `RearProofs!EmergencyStopKept` | `EstopKept` |
| `RearProofs!BufferTypeCorrect`, `WholeFrames` | of `DoubleBuffer`: `[]Type`, `[]NoTornRead` |
| `RearProofs!ImplementsCell` | `BufferSpec => CellSpec`: every step maps to a step of `AtomicCell` or a stutter |

They rest on the named assumptions about the constants, which TLC evaluates in every run.
Most give types. Those that say more:

* `ClockAssumption`, `SensorAssumption`: the observers' age caps are no smaller than a
  turn of the clock they are compared with (the caps are the model's, not the code's);
  `Retry` is at most half a turn of the counter (1 s and 21 s).
* `TimingAssumption`: the watchdog and the longest gap between two runs together stay
  below one wrap of the clock (42.95 s; every wait in the loop has a time-out); the longest sensor
  phase and the longest ToF search exist.
* `SidesAssumption`: the ultrasonic rangers are distinct.
* `LinkAssumption` of `SteeringLink`: the resync step is half of half the word
  (`FRONT_SEQUENCE_RESYNC_STEP`), and the bound on `MaxSends` above.
* `LinkAssumption` of `MiddleLink`: the network delays a packet for less than the
  monitor's restart time-out, and neither delay nor losses reach half the word of packets.
* `PerceptionAssumption`: the detection interval fits the cache's limit, and losses,
  delay and inference fit HPVC's time-out. Without it the code drops persons it sees.
* `ApiAssumption`: FRONT's watchdog runs at least once in some number of periods.
* `HeardInTime`: with a half word of 1 no number is ever newer. The code has 2^31.

The arguments, by module; the invariants are named as in the proofs:

* **FrontSteering.** The type invariant is taken in parts, which keep Boolean and
  arithmetic reasoning in separate steps. `SteeringAuthorised` is inductive because
  acceptance and watchdog set target and flags together. The clamp lemma bounds target,
  rate and servo angle whatever `dtMs` a wrap yields: the wrap breaks the rate limit,
  never the angle limit. `TimeInv`: between wraps the clock's differences are no more
  than the true ages, since a poll takes no time. `StaleInv` accounts for the age of a
  command from the wire on: what is left of the current call (`CallBounded`), frames in
  the ring no older than the last poll, or than the one before it where the guard leaves
  some behind (`RingYoung`, `LeftYoung`), then the clock's own difference (`CommandYoung`).
* **SteeringLink.** `OrderInv`: the network keeps the send order (`Queued`); both copies
  of a packet carry one number (`Twins`); ordinary numbers rise by at most one per send,
  also with a repetition after a failed publish (`Spread`, `Lagging`); and whatever was
  sent before the packet FRONT took last is behind FRONT's number by no more than the
  packets in between (`Passed`), so half-range comparison calls it old; its twin has
  FRONT's number, which is not newer than itself. The resync
  packets jump, but nothing overtakes them. `Framed` counts numbers from `b`, the low
  bits the process began with, and `n`, the resync packets sent: packet `k` is
  `k - 1` quarters on, ordinary ones follow, none comes round to `b` again (`Numbered`,
  `Ordinary`, `Resyncs`). FRONT's number may be anywhere; each resync packet it takes or
  refuses confines it, and after three in a row it is that of the last one or of a later
  packet (`Located`). Two in a row need not be enough.
* **FrontSensors.** A ring holds the readings in order up to its rotation (`RingRecent`,
  `Holds`), from which the median; last good ticks give true ages within a turn
  (`ReadTimed`); the deadline of the next search is the last one and `Retry`
  (`SearchTimed`), and only a ranger not found is searched for (`TofFound`).
* **HpvcAeb.** The hold timer is the stop hold less the time since the last full brake
  (`HoldTimed`), and what it holds rests on a range fresh when it was set (`HoldBacked`).
* **MiddleLink.** Numbers in flight follow ages (`InOrder`, `ByAge`); a datagram no newer
  than the last one accepted has outlived that acceptance (`Passed`, `NewerYounger`),
  so the restart time-out, longer than any delay, cannot take it for a restart.
  `Awaiting`: once the monitor accepts any number, time is paid for by lost publications.
* **Perception.** The type of a datagram bounds its evidence at `SentBound`; a failing
  inference makes that more than the cache's limit (`InferenceOK`). At the AEB runtime
  evidence and time since arrival grow together (`EvidenceOK`). `PersonHeld` needs two
  accounts: the turns since the last inference (`Since`) keep the cache fresh (`Fresh`),
  and those since a datagram got through (`Unheard`) keep HPVC's view (`Current`), while
  what was sent without the person dies out (`OldNews`, `Waiting`). The attempt to prove
  it found `SettleBound` too small: it had left out that a datagram from before the person
  appeared may arrive late, after a newer one, so that the network's delay counts twice. The bound
  now says so; the run's value had been large enough by chance.
* **RuntimeApi.** `DisabledCenters` relates clocks: while the wheels are off centre,
  LKAS has been off no longer than FRONT has been silent, and that silence was within the
  watchdog's length when it last ran (`Steered`). A packet that
  is lost, fails or looks old only lets the silence grow, and a trip more only centres. `ModeReachesRear`: what is in effect is a function of
  requests and last frame (`ExactEffect`), and REAR has it unless a publisher still has
  its turn (`ModeTold`). `HeardWithinHalfWord`: `Behind` counts the packets until FRONT
  takes one, and every period in which none is lost uses up one (`HeardOrSoon`); a trip
  of the watchdog forgets no number.
* **RearControl.** `NoResidue` needs `ManualIsClean`: after a MANUAL cycle
  `s_prev_mode = "MANUAL"` alone makes the code skip the reset, so the state must be
  clean already. `BrakeHeldUnderDemand` needs `BrakeLatched`: the motor brakes only
  with the latch set, whichever branch set it.
* **RearDrive.** What the controller packs must be a command of `RearControl`, which
  needs the flag to be a Boolean; and a running controller without the flag has had its
  stop released (`FlagOrReleased`), so its publisher and its last stop undo nothing.
* **DoubleBuffer.** `NoTornRead` alone is not inductive. What is needed: the named slot
  holds the last frame written and the other one the fields stored so far (`SlotsOK`);
  the index names the slot being read until a write is completed, and a further write
  means a lap (`Apart`); so the slot under an unlapped read stays what was taken
  (`SourceStable`). The refinement maps `current` to `slot[idx]`: the switch of the
  index is the abstract write.

Only model-checked: the liveness properties `SilenceCenters`, `TargetReached`,
`SearchedAgain`, `UrgentBrakes`, `EstopBrakes` and `StatusReturns`, since fairness and
`ENABLED` are out of the prover's reach. No module uses `RECURSIVE`. The two violation
runs show counterexamples and have no theorem.

## 6. Not modelled

* Byte layouts (but for the drive packet of the API), CRC and text: conversions that no
  property is about.
* I2C register traffic and pulse timing; the PI controller's arithmetic (bounded
  nondeterminism); the acceleration estimate of the API.
* MIDDLE's lane detection (floating-point geometry); its ultrasonic worker, which hands
  over one immutable snapshot under a lock; the web preview.
* REAR's sensor node: FRONT's ultrasonic code again (`FrontSensors`), writing through
  `DoubleBuffer`.
* `lca_side_only.py`, a one-shot test script, and the diagnostic monitors, which print.
* MATLAB/Simulink builders and stateless decoders.
* Vendored lwIP, iLLD and board drivers. They are nearly all of the repository's lines
  (lwIP alone some 100 thousand): the vehicle's own control code, which this project is
  about, is a few thousand lines, and most of those that change state are mapped.

## 7. Plan

Order so far: FRONT receiver and loop, steering link, REAR buffers, REAR control, AEB
runtime, FRONT sensors, perception link, runtime API, REAR behind its network, person
detection; then the proofs of all their safety properties. What is left:

1. `FrontSensors` composed with `HpvcAeb`: how old a range can be when it brakes, checked
   and proved from `ValidBitsExact` and `BrakingBacked`.
2. An abstract specification of a steering receiver (a target that is either fresh or
   the centre), and `FrontSteering` shown to implement it.
3. The lemmas about words and about packets in flight are stated in each proof module that
   needs them; one module of facts about `WordArith` would serve all.
