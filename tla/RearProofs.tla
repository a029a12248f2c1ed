----------------------------- MODULE RearProofs -----------------------------
(***************************************************************************)
(* REAR's control loop and REAR between its network and its motors, for    *)
(* every set of drive commands, foreign commands, limits, speeds and       *)
(* accelerations.                                                          *)
(*                                                                         *)
(* First the control loop alone (RearControl).  NoResidue is not           *)
(* inductive: a MANUAL cycle that follows a MANUAL one resets nothing and  *)
(* relies on s_prev_mode to tell it that there is nothing to reset.        *)
(* s_prev_mode is not the branch of the last cycle: an emergency stop      *)
(* copies the command's mode into it.  BrakeHeldUnderDemand rests on the   *)
(* latch telling the truth: the motor is short-braked only while           *)
(* s_brake_mode is set, whichever branch set it.                           *)
(*                                                                         *)
(* Then the composed system: the network is one of the environments        *)
(* RearControl allows, so its theorems carry over, and an emergency stop   *)
(* that reached REAR is kept.  EstopKept rests on two facts about the      *)
(* controller: its flag is a Boolean, so that what it packs is a command;  *)
(* and a running controller without the flag has had the emergency stop    *)
(* released, so that its publisher thread and its last stop never undo     *)
(* what the operator did not.                                              *)
(*                                                                         *)
(* Last the double buffers between the cores, for any number of fields and *)
(* any values.                                                             *)
(***************************************************************************)
EXTENDS RearDrive, DoubleBuffer, TLAPS

-----------------------------------------------------------------------------
(***************************************************************************)
(* The control loop.                                                       *)
(***************************************************************************)

\* A last mode of MANUAL means that the last cycle did not integrate.
ManualIsClean == s_prev_mode = "MANUAL" => s_v_ref = 0 /\ s_I_term = 0

IInv == NoResidue /\ ManualIsClean

\* The statics of Cpu1_Main.c start clean.
LEMMA InitClean == Init => IInv
BY DEF Init, IInv, NoResidue, ManualIsClean

\* Every control cycle and every received command preserves the invariant.
LEMMA NextClean == IInv /\ [Next]_vars => IInv'
<1> SUFFICES ASSUME IInv, [Next]_vars PROVE IInv'
  OBVIOUS
<1> USE DEF IInv, NoResidue, ManualIsClean
<1>1. CASE Stopped
  BY <1>1 DEF Stopped, acc_reset_state
<1>2. CASE Manual
  BY <1>2 DEF Manual, acc_reset_state
<1>3. CASE Acc
  BY <1>3 DEF Acc
<1>4. ASSUME NEW c \in DriveCmd, Receive(c) PROVE IInv'
  BY <1>4 DEF Receive, statics, cycle
<1>5. CASE UNCHANGED vars
  BY <1>5 DEF vars, statics, cycle
<1> QED BY <1>1, <1>2, <1>3, <1>4, <1>5 DEF Next, ControlLoop

\* No sequence of mode changes, emergency stops and control cycles of REAR lets
\* ACC start from a speed reference or an integral left by an earlier ACC phase.
THEOREM CleanStart == Spec => []NoResidue
<1>1. IInv => NoResidue
  BY DEF IInv
<1> QED BY InitClean, NextClean, <1>1, PTL DEF Spec

-----------------------------------------------------------------------------
\* The clamp of the acceleration and of the speed reference stays in range.
LEMMA ClampRange ==
    ASSUME NEW x \in Int, NEW lo \in Int, NEW hi \in Int, lo <= hi
    PROVE  clampf(x, lo, hi) \in lo .. hi
BY DEF clampf

\* The motor is short-braked only while the latch of apply_output is set.
BrakeLatched == motor = "BRAKE" => s_brake_mode = 1

LoopInv == TypeOK /\ BrakeLatched

\* REAR starts typed, coasting and with the latch clear.
LEMMA InitTyped == Init => LoopInv
BY RearAssumption DEF Init, LoopInv, TypeOK, BrakeLatched, ControlModes, Motors

\* An ACC cycle keeps the speed reference, the integral and the output within
\* their limits, and brakes only with the latch set.
LEMMA AccTyped ==
    ASSUME LoopInv, Acc, v_meas' \in Speeds, UNCHANGED cmd
    PROVE  LoopInv'
<1> DEFINE v0    == IF s_prev_mode # "ACC" THEN 0 ELSE s_v_ref
           a_cmd == IF cmd.accel_finite THEN clampf(cmd.accel_cmd, -AMax, AMax) ELSE 0
<1>1. a_cmd \in Int
  <2>1. cmd.accel_cmd \in Int
    BY RearAssumption DEF LoopInv, TypeOK, DriveCmd
  <2>2. -AMax \in Int /\ AMax \in Int /\ -AMax <= AMax
    BY RearAssumption
  <2>3. clampf(cmd.accel_cmd, -AMax, AMax) \in -AMax .. AMax
    BY <2>1, <2>2, ClampRange
  <2> QED BY <2>2, <2>3
<1>2. v0 \in Int /\ VMax \in Int /\ 0 <= VMax
  BY RearAssumption DEF LoopInv, TypeOK
<1> HIDE DEF v0, a_cmd
<1>3. s_v_ref' \in 0 .. VMax
  <2>1. s_v_ref' = clampf(v0 + a_cmd, 0, VMax)
    BY DEF Acc, v0, a_cmd
  <2> QED BY <1>1, <1>2, <2>1, ClampRange
<1>4. s_I_term' \in -IMax .. IMax
  BY RearAssumption DEF Acc
<1>5. /\ s_brake_mode' \in {0, 1} /\ motor' \in Motors
      /\ BrakeLatched'
  BY DEF LoopInv, TypeOK, BrakeLatched, Acc, apply_output, Motors
<1>6. s_prev_mode' \in ControlModes /\ u' \in -UMax .. UMax /\ branch' = "ACC"
  BY DEF Acc, ControlModes
<1> QED BY <1>3, <1>4, <1>5, <1>6 DEF LoopInv, TypeOK

\* Every control cycle and every received command keeps the types and the latch.
LEMMA NextTyped == LoopInv /\ [Next]_vars => LoopInv'
<1> SUFFICES ASSUME LoopInv, [Next]_vars PROVE LoopInv'
  OBVIOUS
<1>1. CASE Stopped /\ v_meas' \in Speeds /\ UNCHANGED cmd
  BY <1>1, RearAssumption
     DEF Stopped, acc_reset_state, LoopInv, TypeOK, BrakeLatched, Motors, DriveCmd
<1>2. CASE Manual /\ v_meas' \in Speeds /\ UNCHANGED cmd
  <2>1. u' \in -UMax .. UMax
    BY <1>2, RearAssumption DEF Manual
  <2>2. motor' \in Motors /\ motor' # "BRAKE"
    BY <1>2 DEF Manual, Motors
  <2>3. s_v_ref' \in 0 .. VMax /\ s_I_term' \in -IMax .. IMax
    BY <1>2, RearAssumption DEF Manual, acc_reset_state, LoopInv, TypeOK
  <2> QED BY <1>2, <2>1, <2>2, <2>3
          DEF Manual, LoopInv, TypeOK, BrakeLatched, ControlModes
<1>3. CASE Acc /\ v_meas' \in Speeds /\ UNCHANGED cmd
  BY <1>3, AccTyped
<1>4. ASSUME NEW c \in DriveCmd, Receive(c) PROVE LoopInv'
  BY <1>4 DEF Receive, statics, cycle, LoopInv, TypeOK, BrakeLatched
<1>5. CASE UNCHANGED vars
  BY <1>5 DEF vars, statics, cycle, LoopInv, TypeOK, BrakeLatched
<1> QED BY <1>1, <1>2, <1>3, <1>4, <1>5 DEF Next, ControlLoop

\* Type correctness of the control loop: references, integral and output stay
\* within their saturation limits whatever commands arrive.
THEOREM TypeCorrect == Spec => []TypeOK
<1>1. LoopInv => TypeOK
  BY DEF LoopInv
<1> QED BY InitTyped, NextTyped, <1>1, PTL DEF Spec

\* The step's part of BrakeHeldUnderDemand.
LEMMA BrakeHeldStep ==
    ASSUME LoopInv, [Next]_vars,
           motor = "BRAKE", branch' = "ACC",
           u' <= -BrakeOff, u' < 0, v_meas' >= VBrakeMin
    PROVE  motor' = "BRAKE"
<1>1. s_brake_mode = 1
  BY DEF LoopInv, BrakeLatched
<1>2. CASE Acc
  <2>1. u' \in Int /\ v_meas' \in Int
    <3>1. u' \in -UMax .. UMax /\ v_meas' \in Speeds
      BY NextTyped DEF LoopInv, TypeOK
    <3>2. UMax \in Int /\ -UMax \in Int
      BY RearAssumption
    <3> QED BY <3>1, <3>2, RearAssumption
  <2>2. ~(-u' < BrakeOff) /\ ~(u' >= 0) /\ ~(v_meas' < VBrakeMin)
    <3>1. BrakeOff \in Int /\ VBrakeMin \in Int
      BY RearAssumption
    <3>2. \A x \in Int, y \in Int : x <= -y => ~(-x < y)
      OBVIOUS
    <3>3. ~(-u' < BrakeOff)
      BY <2>1, <3>1, <3>2
    <3>4. ~(u' >= 0)
      BY <2>1
    <3>5. ~(v_meas' < VBrakeMin)
      BY <2>1, <3>1
    <3> QED BY <3>3, <3>4, <3>5
  <2>3. apply_output(u', v_meas')
    BY <1>2 DEF Acc
  <2> QED BY <1>1, <2>2, <2>3 DEF apply_output
<1>3. CASE Stopped
  BY <1>3 DEF Stopped
<1>4. CASE Manual
  BY <1>4 DEF Manual
<1>5. CASE UNCHANGED motor
  BY <1>5
<1> QED BY <1>2, <1>3, <1>4, <1>5 DEF Next, ControlLoop, Receive, vars

\* A short brake is not released by an ACC cycle that still asks for braking
\* within the hysteresis band while the vehicle rolls forward, whatever set the
\* latch: an earlier ACC cycle, AEB or an emergency stop.
THEOREM BrakeHeld == Spec => BrakeHeldUnderDemand
<1>1. LoopInv /\ [Next]_vars
        => [motor = "BRAKE" /\ branch' = "ACC" /\ cmd' = cmd
              /\ u' <= -BrakeOff /\ u' < 0 /\ v_meas' >= VBrakeMin
              => motor' = "BRAKE"]_<<motor, cycle, statics>>
  BY BrakeHeldStep
<1> QED BY <1>1, InitTyped, NextTyped, PTL DEF Spec, BrakeHeldUnderDemand

-----------------------------------------------------------------------------
(***************************************************************************)
(* The loop behind its network and its senders.                            *)
(***************************************************************************)

FlagTyped == drive \in Drives /\ estop \in BOOLEAN

FlagOrReleased == up => estop \/ released

DriveInv == FlagTyped /\ FlagOrReleased

\* What the controller packs is a command REAR's control loop knows.
LEMMA PackedIsCommand ==
    ASSUME NEW dr, NEW es \in BOOLEAN
    PROVE  PackRear(dr, es) \in DriveCmd /\ PackRear(dr, es).emergency_stop = es
BY DriveAssumption DEF PackRear, DriveCmd, ControlModes, Directions

\* The controller starts without the flag, and released.
LEMMA DriveInvInit == DriveInit => DriveInv
BY DriveAssumption DEF DriveInit, DriveInv, FlagTyped, FlagOrReleased

\* Handlers, publisher turns and restarts keep the two facts.
LEMMA DriveInvNext == DriveInv /\ [DriveNext]_driveVars => DriveInv'
<1> SUFFICES ASSUME DriveInv, [DriveNext]_driveVars PROVE DriveInv'
  OBVIOUS
<1> USE DriveAssumption DEF DriveInv, FlagTyped, FlagOrReleased
<1>1. ASSUME NEW dr \in Drives, Control(dr) PROVE DriveInv'
  BY <1>1 DEF Control, Handler, Reaches, FallsShort
<1>2. CASE EmergencyStop
  BY <1>2 DEF EmergencyStop, Handler, Reaches, FallsShort
<1>3. CASE Stop
  BY <1>3 DEF Stop, Handler, Reaches, FallsShort
<1>4. CASE LoopReaches \/ LoopFallsShort
  BY <1>4 DEF LoopReaches, LoopFallsShort, Reaches, FallsShort
<1>5. CASE Start \/ Close \/ Kill
  BY <1>5 DEF Start, Close, Kill
<1>6. CASE Route
  <2>1. UNCHANGED <<up, drive, estop, released>>
    BY <1>6 DEF Route
  <2> QED BY <2>1
<1>7. CASE Status \/ Cycle \/ \E c \in Others : OtherSends(c)
  BY <1>7 DEF Status, Cycle, OtherSends, controller
<1>8. CASE UNCHANGED driveVars
  BY <1>8 DEF driveVars, controller
<1> QED BY <1>1, <1>2, <1>3, <1>4, <1>5, <1>6, <1>7, <1>8 DEF DriveNext

\* Every step of the network, the hosts and core 0 is, to core 1, a received
\* command, a control cycle or nothing.
LEMMA DriveStepIsControlStep ==
    DriveInv /\ [DriveNext]_driveVars => [Next]_vars
<1> SUFFICES ASSUME DriveInv, [DriveNext]_driveVars PROVE [Next]_vars
  OBVIOUS
<1> USE DEF DriveInv, FlagTyped
<1>1. ASSUME NEW dr, NEW es \in BOOLEAN, Handler(dr, es) PROVE [Next]_vars
  BY <1>1, PackedIsCommand DEF Handler, Reaches, FallsShort, Take, Missed, Next
<1>2. CASE \/ EmergencyStop \/ Stop \/ \E dr \in Drives : Control(dr)
  BY <1>1, <1>2 DEF EmergencyStop, Stop, Control
<1>3. CASE LoopReaches \/ LoopFallsShort
  BY <1>1, <1>3 DEF LoopReaches, LoopFallsShort, Handler
<1>4. CASE Close
  BY <1>4, PackedIsCommand DEF Close, StopPacket, Take, Missed, Next
<1>5. CASE \E c \in Others : OtherSends(c)
  BY <1>5, DriveAssumption DEF OtherSends, Take, Next
<1>6. CASE Start \/ Kill \/ Status \/ Route
  BY <1>6 DEF Start, Kill, Status, Route
<1>7. CASE Cycle
  BY <1>7 DEF Cycle, Next
<1>8. CASE UNCHANGED driveVars
  BY <1>8 DEF driveVars
<1> QED BY <1>2, <1>3, <1>4, <1>5, <1>6, <1>7, <1>8 DEF DriveNext

\* REAR behind its network implements the control loop in its free
\* environment.
THEOREM ImplementsControl == DriveSpec => ControlSpec
<1>1. DriveInit => Init
  BY DEF DriveInit
<1> QED
  BY <1>1, DriveInvInit, DriveInvNext, DriveStepIsControlStep, PTL
     DEF DriveSpec, ControlSpec, Spec

\* Whatever the hosts send and whenever they die, ACC never starts from
\* integrator state of an earlier ACC phase.
THEOREM DriveCleanStart == DriveSpec => []NoResidue
BY ImplementsControl, CleanStart, PTL DEF ControlSpec

\* Whatever the hosts send and whenever they die, a short brake survives every
\* ACC cycle that still asks for braking within the hysteresis band.
THEOREM DriveBrakeHeld == DriveSpec => BrakeHeldUnderDemand
BY ImplementsControl, BrakeHeld, PTL DEF ControlSpec

-----------------------------------------------------------------------------
\* The types of the controller's process and of what core 0 remembers.
HostTypeOK ==
    /\ up \in BOOLEAN /\ drive \in Drives /\ estop \in BOOLEAN
    /\ sendable \in BOOLEAN
    /\ pcip \in Hosts /\ statusTo \in Hosts \union {"none"}
    /\ released \in BOOLEAN

\* Handlers, restarts, foreign commands and status frames keep those types.
LEMMA HostTyped == HostTypeOK /\ [DriveNext]_driveVars => HostTypeOK'
<1> SUFFICES ASSUME HostTypeOK, [DriveNext]_driveVars PROVE HostTypeOK'
  OBVIOUS
<1> USE DriveAssumption DEF HostTypeOK, Hosts
<1>1. ASSUME NEW dr \in Drives, NEW es \in BOOLEAN, Handler(dr, es), released' \in BOOLEAN
      PROVE  HostTypeOK'
  BY <1>1 DEF Handler, Reaches, FallsShort, Take, Missed
<1>2. CASE EmergencyStop \/ Stop \/ \E dr \in Drives : Control(dr)
  BY <1>1, <1>2 DEF EmergencyStop, Stop, Control
<1>3. CASE LoopReaches \/ LoopFallsShort
  BY <1>1, <1>3 DEF LoopReaches, LoopFallsShort, Handler
<1>4. CASE Start \/ Close \/ Kill
  BY <1>4 DEF Start, Close, Kill, Take, Missed
<1>5. CASE Status \/ Cycle \/ \E c \in Others : OtherSends(c)
  BY <1>5 DEF Status, Cycle, OtherSends, Take, controller
<1>6. CASE Route
  <2>1. sendable' \in BOOLEAN
    BY <1>6 DEF Route
  <2>2. UNCHANGED <<up, drive, estop, pcip, statusTo, released>>
    BY <1>6 DEF Route
  <2> QED BY <2>1, <2>2
<1>7. CASE UNCHANGED driveVars
  BY <1>7 DEF driveVars, controller
<1> QED BY <1>2, <1>3, <1>4, <1>5, <1>6, <1>7 DEF DriveNext

\* Type correctness of REAR with both ends of its network: the control loop's
\* limits hold whatever datagrams arrive, and the hosts keep their own types.
THEOREM DriveTypeCorrect == DriveSpec => []DriveTypeOK
<1>1. DriveInit => HostTypeOK
  BY DriveAssumption DEF DriveInit, HostTypeOK, Hosts
<1>2. DriveSpec => []HostTypeOK
  BY <1>1, HostTyped, PTL DEF DriveSpec
<1>3. DriveSpec => []TypeOK
  BY ImplementsControl, TypeCorrect, PTL DEF ControlSpec
<1>4. TypeOK /\ HostTypeOK => DriveTypeOK
  BY DEF HostTypeOK, DriveTypeOK
<1> QED BY <1>2, <1>3, <1>4, PTL

-----------------------------------------------------------------------------
\* The step's part of EstopKept: nobody but the operator, a restarted
\* controller or another host replaces REAR's emergency stop.
LEMMA EstopStep ==
    ASSUME DriveInv, DriveNext,
           cmd.emergency_stop, ~cmd'.emergency_stop
    PROVE  released' \/ pcip' = "other"
<1> USE DEF DriveInv, FlagTyped, FlagOrReleased
<1>1. CASE \E dr \in Drives : Control(dr)
  BY <1>1 DEF Control
<1>2. CASE EmergencyStop
  BY <1>2, PackedIsCommand
     DEF EmergencyStop, Handler, Reaches, FallsShort, Take, Missed, Receive, vars
<1>3. CASE Stop \/ Start
  BY <1>3 DEF Stop, Start
<1>4. CASE LoopReaches \/ LoopFallsShort
  BY <1>4, PackedIsCommand
     DEF LoopReaches, LoopFallsShort, Reaches, FallsShort, Take, Missed, Receive, vars
<1>5. CASE Close
  BY <1>5, PackedIsCommand DEF Close, StopPacket, Take, Missed, Receive, vars
<1>6. CASE Kill \/ Status \/ Route
  BY <1>6 DEF Kill, Status, Route, vars
<1>7. CASE \E c \in Others : OtherSends(c)
  BY <1>7 DEF OtherSends, Take
<1>8. CASE Cycle
  BY <1>8 DEF Cycle, ControlLoop
<1> QED BY <1>1, <1>2, <1>3, <1>4, <1>5, <1>6, <1>7, <1>8 DEF DriveNext

\* Lost packets, failed sends, an orderly close and the death of the controller
\* never undo an emergency stop that reached REAR.
THEOREM EmergencyStopKept == DriveSpec => EstopKept
<1>1. DriveInv /\ [DriveNext]_driveVars
        => [pcip = "HPVC" /\ cmd.emergency_stop /\ ~cmd'.emergency_stop
              => released' \/ pcip' = "other"]_driveVars
  BY EstopStep
<1> QED BY <1>1, DriveInvInit, DriveInvNext, PTL DEF DriveSpec, EstopKept

-----------------------------------------------------------------------------
(***************************************************************************)
(* The double buffers.                                                     *)
(***************************************************************************)

\* The named slot holds the last frame written; the fields already stored in
\* the other slot are those of the frame being written.
SlotsOK ==
    /\ slot[idx] = published
    /\ writing => \A f \in 1 .. stored : slot[Other(idx)][f] = frame[f]

\* The index still names the slot being read until a write is completed, and
\* from then on nothing is written unless the read is lapped.
Apart ==
    /\ reading /\ ~superseded => ridx = idx
    /\ writing /\ superseded => lapped

\* The slot being read changes only under a lapped read.
SourceStable == reading /\ ~lapped => slot[ridx] = taken

\* The inductive invariant behind NoTornRead.
BufferInv == BufferTypeOK /\ SlotsOK /\ Apart /\ SourceStable /\ NoTornRead

\* The inductive invariant holds initially and every field access of either
\* core preserves it.
LEMMA BufferInductive == BufferSpec => []BufferInv
<1>1. BufferInit => BufferInv
  <2> SUFFICES ASSUME BufferInit PROVE BufferInv
    OBVIOUS
  <2>1. Blank \in Frames
    BY BufferAssumption DEF Blank, Frames
  <2>2. FlagsOK
    BY DEF BufferInit, FlagsOK
  <2>3. FramesOK
    BY <2>1 DEF BufferInit, FramesOK
  <2>4. IndicesOK
    BY BufferAssumption DEF BufferInit, IndicesOK
  <2>5. SlotsOK
    BY DEF BufferInit, SlotsOK
  <2>6. Apart /\ SourceStable /\ NoTornRead
    BY DEF BufferInit, Apart, SourceStable, NoTornRead
  <2> QED BY <2>2, <2>3, <2>4, <2>5, <2>6 DEF BufferInv, BufferTypeOK
<1>2. BufferInv /\ [BufferNext]_bufferVars => BufferInv'
  <2> SUFFICES ASSUME BufferInv, [BufferNext]_bufferVars PROVE BufferInv'
    OBVIOUS
  <2> USE BufferAssumption DEF BufferInv, BufferTypeOK
  <2>1. ASSUME NEW v \in Frames, WriteBegin(v) PROVE BufferInv'
    <3> USE <2>1 DEF WriteBegin, shared, reader
    <3>1. FlagsOK'
      BY DEF FlagsOK
    <3>2. FramesOK'
      BY DEF FramesOK
    <3>3. IndicesOK'
      BY DEF IndicesOK
    <3>4. Apart' /\ SourceStable' /\ NoTornRead'
      BY DEF FlagsOK, Apart, SourceStable, NoTornRead
    <3>5. SlotsOK'
      BY DEF SlotsOK
    <3> QED BY <3>1, <3>2, <3>3, <3>4, <3>5
  <2>2. CASE StoreField
    <3> USE <2>2 DEF StoreField, reader
    <3>1. FlagsOK'
      BY DEF FlagsOK
    <3> DEFINE filled == [slot[Other(idx)] EXCEPT ![stored + 1] = frame[stored + 1]]
    <3>a. stored + 1 \in Fields
      BY DEF IndicesOK, Fields
    <3>b. slot[Other(idx)] \in [Fields -> Values] /\ Other(idx) # idx
      BY DEF IndicesOK, FramesOK, Frames, Other
    <3>c. filled \in Frames
      BY <3>a, <3>b DEF FramesOK, Frames
    <3>d. slot'[idx] = slot[idx] /\ slot'[Other(idx)] = filled
      BY <3>b DEF FramesOK, IndicesOK, Other
    <3>2. FramesOK'
      BY <3>c DEF FramesOK, Other
    <3>3. IndicesOK'
      BY DEF IndicesOK
    <3>4. Apart' /\ NoTornRead'
      BY DEF Apart, NoTornRead
    <3>5. SourceStable'
      BY DEF Apart, SourceStable, FramesOK, IndicesOK, Other
    <3>6. SlotsOK'
      <4>1. ASSUME NEW f \in 1 .. stored + 1 PROVE filled[f] = frame[f]
        <5>1. f \in Fields
          BY <3>a DEF IndicesOK, Fields
        <5>2. CASE f = stored + 1
          BY <3>b, <5>1, <5>2
        <5>3. CASE f # stored + 1
          <6>1. f \in 1 .. stored
            BY <5>3 DEF IndicesOK
          <6>2. filled[f] = slot[Other(idx)][f]
            BY <3>b, <5>1, <5>3
          <6> QED BY <6>1, <6>2 DEF SlotsOK
        <5> QED BY <5>2, <5>3
      <4>2. slot'[idx'] = published'
        BY <3>d DEF SlotsOK
      <4>3. \A f \in 1 .. stored' : slot'[Other(idx')][f] = frame'[f]
        BY <3>d, <4>1
      <4> QED BY <4>2, <4>3 DEF SlotsOK
    <3> QED BY <3>1, <3>2, <3>3, <3>4, <3>5, <3>6
  <2>3. CASE Publish
    <3> USE <2>3 DEF Publish, reader
    <3>1. FlagsOK' /\ FramesOK'
      BY DEF FlagsOK, FramesOK
    <3>2. IndicesOK'
      BY DEF IndicesOK, Other
    <3>3. Apart' /\ SourceStable' /\ NoTornRead'
      BY DEF Apart, SourceStable, NoTornRead
    <3>4. SlotsOK'
      <4>1. slot[Other(idx)] \in [Fields -> Values] /\ frame \in [Fields -> Values]
        BY DEF IndicesOK, FramesOK, Frames, Other
      <4>2. \A f \in Fields : slot[Other(idx)][f] = frame[f]
        BY DEF SlotsOK, Fields
      <4>3. slot[Other(idx)] = frame
        BY <4>1, <4>2
      <4> QED BY <4>3 DEF SlotsOK
    <3> QED BY <3>1, <3>2, <3>3, <3>4
  <2>4. CASE ReadBegin
    <3> USE <2>4 DEF ReadBegin, shared, writer
    <3>1. FlagsOK'
      BY DEF FlagsOK
    <3>2. FramesOK'
      BY DEF FramesOK, IndicesOK
    <3>3. IndicesOK'
      BY DEF IndicesOK
    <3>4. Apart' /\ SourceStable' /\ NoTornRead'
      BY DEF SlotsOK, Apart, SourceStable, NoTornRead
    <3>5. SlotsOK'
      BY DEF SlotsOK
    <3> QED BY <3>1, <3>2, <3>3, <3>4, <3>5
  <2>5. CASE CopyField
    <3> USE <2>5 DEF CopyField, shared, writer
    <3>1. copied + 1 \in Fields
      BY DEF IndicesOK, Fields
    <3>2. FlagsOK'
      BY DEF FlagsOK
    <3>3. slot[ridx] \in Frames /\ out \in [Fields -> Values]
      BY DEF FramesOK, IndicesOK, Frames
    <3>4. FramesOK'
      <4>1. out' \in Frames
        BY <3>1, <3>3 DEF Frames
      <4> QED BY <4>1 DEF FramesOK
    <3>5. IndicesOK'
      BY DEF IndicesOK
    <3>6. SlotsOK' /\ Apart' /\ SourceStable'
      BY DEF SlotsOK, Apart, SourceStable
    <3>7. NoTornRead'
      <4> SUFFICES ASSUME ~lapped, NEW f \in 1 .. copied + 1
                   PROVE  out'[f] = taken[f]
        BY DEF NoTornRead
      <4>1. slot[ridx] = taken
        BY DEF SourceStable
      <4>2. CASE f = copied + 1
        BY <3>1, <3>3, <4>1, <4>2
      <4>3. CASE f # copied + 1
        <5>1. f \in 1 .. copied
          BY <4>3 DEF IndicesOK
        <5>2. f \in Fields
          BY <5>1 DEF IndicesOK, Fields
        <5>3. out'[f] = out[f]
          BY <3>3, <4>3, <5>2
        <5> QED BY <5>1, <5>3 DEF NoTornRead
      <4> QED BY <4>2, <4>3
    <3> QED BY <3>2, <3>4, <3>5, <3>6, <3>7
  <2>6. CASE ReadEnd
    <3> USE <2>6 DEF ReadEnd, shared, writer
    <3>1. FlagsOK' /\ FramesOK'
      BY DEF FlagsOK, FramesOK
    <3>2. IndicesOK'
      BY DEF IndicesOK
    <3>3. SlotsOK' /\ Apart' /\ SourceStable' /\ NoTornRead'
      BY DEF SlotsOK, Apart, SourceStable, NoTornRead
    <3> QED BY <3>1, <3>2, <3>3
  <2>7. CASE UNCHANGED bufferVars
    BY <2>7 DEF bufferVars, shared, writer, reader, FlagsOK, FramesOK, IndicesOK,
                SlotsOK, Apart, SourceStable, NoTornRead
  <2> QED
    BY <2>1, <2>2, <2>3, <2>4, <2>5, <2>6, <2>7 DEF BufferNext
<1> QED
  BY <1>1, <1>2, PTL DEF BufferSpec

\* Type correctness of the buffer and of both cores' copies of a frame.
THEOREM BufferTypeCorrect == BufferSpec => []BufferTypeOK
<1>1. BufferInv => BufferTypeOK
  BY DEF BufferInv
<1> QED BY BufferInductive, <1>1, PTL

\* No read of a double buffer is torn unless the writer lapped it: the copied
\* fields all belong to the frame last written when the read began.
THEOREM WholeFrames == BufferSpec => []NoTornRead
<1>1. BufferInv => NoTornRead
  BY DEF BufferInv
<1> QED
  BY <1>1, BufferInductive, PTL

-----------------------------------------------------------------------------
\* The double buffers of REAR implement the abstract cell: every access of
\* either core is a step of it or no step at all, and a read hands over the
\* frame it took unless it was overrun.
THEOREM ImplementsCell == BufferSpec => CellSpec
<1>1. BufferInit => Cell!Init
  BY DEF BufferInit, Cell!Init
<1>2. BufferInv /\ [BufferNext]_bufferVars => [Cell!Next]_(Cell!cell)
  <2> SUFFICES ASSUME BufferInv, [BufferNext]_bufferVars PROVE [Cell!Next]_(Cell!cell)
    OBVIOUS
  <2> USE BufferAssumption DEF BufferInv, BufferTypeOK, Cell!cell, Cell!Next
  <2>1. ASSUME NEW v \in Frames, WriteBegin(v) PROVE [Cell!Next]_(Cell!cell)
    <3>1. CASE superseded
      BY <2>1, <3>1 DEF WriteBegin, shared, reader, Cell!Overrun
    <3>2. CASE ~superseded
      BY <2>1, <3>2 DEF WriteBegin, shared, reader, FlagsOK
    <3> QED BY <3>1, <3>2
  <2>2. CASE StoreField
    <3>1. UNCHANGED <<taken, superseded, lapped, result, idx>>
      BY <2>2 DEF StoreField, reader
    <3>2. slot'[idx] = slot[idx]
      BY <2>2 DEF StoreField, Other, FramesOK, IndicesOK
    <3> QED BY <3>1, <3>2
  <2>3. CASE Publish
    <3>1. slot[Other(idx)] \in Frames
      BY DEF Other, FramesOK, IndicesOK
    <3> QED BY <2>3, <3>1 DEF Publish, reader, Cell!Write
  <2>4. CASE ReadBegin
    BY <2>4 DEF ReadBegin, shared, writer, Cell!Take, SlotsOK
  <2>5. CASE CopyField
    BY <2>5 DEF CopyField, shared, writer
  <2>6. CASE ReadEnd
    <3> USE <2>6 DEF ReadEnd, shared, writer, Cell!Give
    <3>1. CASE lapped
      BY <3>1 DEF FramesOK
    <3>2. CASE ~lapped
      <4>1. \A f \in Fields : out[f] = taken[f]
        BY <3>2 DEF NoTornRead, Fields
      <4>2. out = taken
        BY <4>1 DEF FramesOK, Frames
      <4> QED BY <3>2, <4>2
    <3> QED BY <3>1, <3>2
  <2>7. CASE UNCHANGED bufferVars
    BY <2>7 DEF bufferVars, shared, writer, reader
  <2> QED
    BY <2>1, <2>2, <2>3, <2>4, <2>5, <2>6, <2>7 DEF BufferNext
<1> QED
  BY <1>1, <1>2, BufferInductive, PTL DEF BufferSpec, CellSpec, Cell!Spec
=============================================================================
