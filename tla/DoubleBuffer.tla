---------------------------- MODULE DoubleBuffer ----------------------------
(***************************************************************************)
(* The lock-free double buffers in LMU memory through which the three      *)
(* cores of the REAR TC375 exchange frames: drive commands (core 0 to 1),  *)
(* telemetry and speed (1 to 0), ultrasonic distances (2 to 0).  All of    *)
(* them are written and read by the same pattern.  The writer stores the   *)
(* fields one by one into the slot the index does not name, then switches  *)
(* the index; the reader reads the index, then copies that slot field by   *)
(* field.  Neither waits for the other.  The accesses are volatile and     *)
(* non-cached and a dsync precedes the switch, so they happen in program   *)
(* order; each is one action here.                                         *)
(*                                                                         *)
(* A writer can lap the reader: switch the index and start on the slot     *)
(* still being copied.  The periods of the writers of telemetry, speed and *)
(* ultrasonic frames, a few ms, make that remote; drive commands are       *)
(* written once per received packet, as fast as packets come.              *)
(***************************************************************************)
EXTENDS Integers

CONSTANTS
    NumFields,  \* fields of a frame (5, 1 or 3)
    Values,     \* what a field holds
    Zero        \* the value of every field after startup

ASSUME BufferAssumption ==
    /\ NumFields \in Nat \ {0}
    /\ Zero \in Values

VARIABLES
    slot, idx,              \* shared: g_xxx_buf[2], g_xxx_idx
    writing, frame, stored, \* writer: inside a write, its frame, fields stored
    reading, ridx, copied,  \* reader: inside a read, its index, fields copied
    out,                    \* the reader's local frame
    result,                 \* the frame the last completed read returned
    published,              \* observer: the frame of the last completed write,
    taken,                  \* what that was when the last read began,
    superseded,             \* whether a write has been completed since, and
    lapped                  \* whether a write has begun after that one

shared == <<slot, idx>>
writer == <<writing, frame, stored>>
reader == <<reading, ridx, copied, out, result>>
bufferVars == <<shared, writer, reader, published, taken, superseded, lapped>>

Fields  == 1 .. NumFields
Frames  == [Fields -> Values]
Blank   == [f \in Fields |-> Zero]
Other(i) == 1 - i

FlagsOK   == {writing, reading, superseded, lapped} \subseteq BOOLEAN
FramesOK  == slot \in [{0, 1} -> Frames] /\ {frame, out, result, published, taken} \subseteq Frames
IndicesOK == {idx, ridx} \subseteq {0, 1} /\ {stored, copied} \subseteq 0 .. NumFields

BufferTypeOK == FlagsOK /\ FramesOK /\ IndicesOK

BufferInit ==
    /\ slot = [i \in {0, 1} |-> Blank] /\ idx = 0
    /\ writing = FALSE /\ frame = Blank /\ stored = 0
    /\ reading = FALSE /\ ridx = 0 /\ copied = 0
    /\ out = Blank /\ result = Blank
    /\ published = Blank /\ taken = Blank
    /\ superseded = FALSE /\ lapped = FALSE

-----------------------------------------------------------------------------
\* Entry of a write: the slot to fill is the one the index does not name.
WriteBegin(v) ==
    /\ ~writing
    /\ writing' = TRUE /\ frame' = v /\ stored' = 0
    /\ lapped' = (lapped \/ superseded)
    /\ UNCHANGED <<shared, reader, published, taken, superseded>>

\* Mutant of StoreField: the slot is the one the index names.
StoreField_SameSlot ==
    /\ writing /\ stored < NumFields
    /\ slot' = [slot EXCEPT ![idx][stored + 1] = frame[stored + 1]]
    /\ stored' = stored + 1
    /\ UNCHANGED <<idx, writing, frame, reader, published, taken, superseded, lapped>>

\* One field is stored.
StoreField ==
    /\ writing /\ stored < NumFields
    /\ slot' = [slot EXCEPT ![Other(idx)][stored + 1] = frame[stored + 1]]
    /\ stored' = stored + 1
    /\ UNCHANGED <<idx, writing, frame, reader, published, taken, superseded, lapped>>

\* Mutants of Publish: the index counts up; it is switched one store early.
Publish_Increments ==
    /\ writing /\ stored = NumFields
    /\ idx' = idx + 1
    /\ writing' = FALSE
    /\ published' = frame /\ superseded' = TRUE
    /\ UNCHANGED <<slot, frame, stored, reader, taken, lapped>>
Publish_Early ==
    /\ writing /\ stored = NumFields - 1
    /\ idx' = Other(idx)
    /\ writing' = FALSE
    /\ published' = frame /\ superseded' = TRUE
    /\ UNCHANGED <<slot, frame, stored, reader, taken, lapped>>

\* dsync; the index is switched to the slot just filled.
Publish ==
    /\ writing /\ stored = NumFields
    /\ idx' = Other(idx)
    /\ writing' = FALSE
    /\ published' = frame /\ superseded' = TRUE
    /\ UNCHANGED <<slot, frame, stored, reader, taken, lapped>>

\* Entry of a read: the index is read, once.
ReadBegin ==
    /\ ~reading
    /\ reading' = TRUE /\ ridx' = idx /\ copied' = 0
    /\ taken' = published /\ superseded' = FALSE /\ lapped' = FALSE
    /\ UNCHANGED <<shared, writer, out, result, published>>

\* One field is copied.
CopyField ==
    /\ reading /\ copied < NumFields
    /\ out' = [out EXCEPT ![copied + 1] = slot[ridx][copied + 1]]
    /\ copied' = copied + 1
    /\ UNCHANGED <<shared, writer, reading, ridx, result, published, taken, superseded, lapped>>

\* The read returns.
ReadEnd ==
    /\ reading /\ copied = NumFields
    /\ reading' = FALSE
    /\ result' = out
    /\ UNCHANGED <<shared, writer, ridx, copied, out, published, taken, superseded, lapped>>

BufferNext ==
    \/ \E v \in Frames : WriteBegin(v)
    \/ StoreField
    \/ Publish
    \/ ReadBegin
    \/ CopyField
    \/ ReadEnd

BufferSpec == BufferInit /\ [][BufferNext]_bufferVars

-----------------------------------------------------------------------------
\* However the field accesses of the two cores interleave, a read that was not
\* lapped copies one whole frame, the one last written when the read began:
\* the fields copied so far are all that frame's.
NoTornRead ==
    ~lapped => \A f \in 1 .. copied : out[f] = taken[f]

\* The double buffer implements an atomic cell whose reads are whole unless
\* overrun: Cpu0_WriteDriveCmd and its kin promise no less, and no more.
Cell == INSTANCE AtomicCell WITH
            InitialFrame <- Blank, current <- slot[idx], overrun <- lapped

CellSpec == Cell!Spec
=============================================================================
