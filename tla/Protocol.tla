------------------------------ MODULE Protocol ------------------------------
(***************************************************************************)
(* The frame codec of src/src/protocol.cpp, at its width: encodeCommand    *)
(* and makeZeroCommandFrame towards the vehicle, decodeFeedbackFrame from  *)
(* it.  Physical values are integers in millionths of their unit, so a     *)
(* wire unit is 1000 of them; NaN stands for what is not finite.  The      *)
(* vehicle itself is external: it reads a command frame field by field,    *)
(* and its feedback may be damaged in one byte on the way.                 *)
(***************************************************************************)
EXTENDS Integers, Sequences

CONSTANTS
  NaN,
  ByteXor(_, _),    \* bitwise exclusive or of two bytes
  Motion, SpeedLimit,  \* the commands and limits encodeCommand is called with
  Report,           \* what the vehicle reports, its fields in wire units
  Damage            \* what a damaged byte may read as

kFrameHeader == 123
kFrameTail == 125
kFeedbackFrameSize == 24
kMotionUnitsPerWireUnit == 1000
Int16Min == -32768
Int16Max == 32767
UInt16Max == 65535
Byte == 0..255
Int16 == Int16Min..Int16Max
UInt16 == 0..UInt16Max

\* The reports a feedback frame has room for.
VehicleReport ==
  {report \in [control_allowed: BOOLEAN, control_inhibited: BOOLEAN,
               linear: Int16, lateral: Int16, yaw: Int16,
               acceleration: [1..3 -> Int16], gyroscope: [1..3 -> Int16], voltage: UInt16]:
     report.control_allowed # report.control_inhibited}

ASSUME CodecAssumption ==
  /\ NaN \notin Int
  /\ Motion \subseteq [linear: Int \cup {NaN}, lateral: Int \cup {NaN}, yaw: Int \cup {NaN}]
  /\ SpeedLimit \subseteq Int \cup {NaN}
  /\ Report \subseteq VehicleReport
  /\ Damage \subseteq Byte
\* What is used of exclusive or.
ASSUME XorAssumption ==
  /\ \A a \in Byte: ByteXor(a, 0) = a
  /\ \A a, b \in Byte: /\ ByteXor(a, b) \in Byte
                       /\ ByteXor(a, b) = ByteXor(b, a)
                       /\ ByteXor(ByteXor(a, b), b) = a

-----------------------------------------------------------------------------
(* Helpers *)

XorRange(data, size) ==
  LET value[i \in 0..size] == IF i = 0 THEN 0 ELSE ByteXor(value[i - 1], data[i])
  IN value[size]

\* Mutant: rounding down, away from zero for what is negative.
FloorValue(value) == value \div kMotionUnitsPerWireUnit

\* std::trunc, towards zero
TruncValue(value) ==
  IF value >= 0 THEN value \div kMotionUnitsPerWireUnit
  ELSE -((-value) \div kMotionUnitsPerWireUnit)

FitsWire(value) == TruncValue(value) \in Int16

\* The two bytes of a 16-bit two's complement, high byte first.
StoreSignedBigEndian(value) ==
  LET bits == value % 65536 IN <<bits \div 256, bits % 256>>
LoadUnsignedBigEndian(high, low) == high * 256 + low
LoadSignedBigEndian(high, low) ==
  LET bits == LoadUnsignedBigEndian(high, low) IN
  IF bits >= 32768 THEN bits - 65536 ELSE bits

-----------------------------------------------------------------------------
(* encodeCommand *)

IsValidMaxLinearSpeed(limit) == limit # NaN /\ limit > 0 /\ limit < 6000000
Magnitude(value) == IF value >= 0 THEN value ELSE -value

\* The first test a command fails, in the order of the code.
EncodeError(c, limit) ==
  IF ~IsValidMaxLinearSpeed(limit) THEN "kInvalidMaxLinearSpeed"
  ELSE IF c.linear = NaN THEN "kNonFiniteLinearSpeed"
  ELSE IF c.lateral = NaN THEN "kNonFiniteLateralSpeed"
  ELSE IF c.yaw = NaN THEN "kNonFiniteYawRate"
  ELSE IF ~FitsWire(c.linear) THEN "kLinearWireRange"
  ELSE IF ~FitsWire(c.lateral) THEN "kLateralWireRange"
  ELSE IF ~FitsWire(c.yaw) THEN "kYawRateWireRange"
  ELSE IF Magnitude(c.linear) > limit THEN "kLinearSpeedLimitExceeded"
  ELSE "kNone"

CommandBody(c) ==
  <<kFrameHeader, 0, 0>> \o StoreSignedBigEndian(TruncValue(c.linear))
  \o StoreSignedBigEndian(TruncValue(c.lateral)) \o StoreSignedBigEndian(TruncValue(c.yaw))
CommandFrame(c) == CommandBody(c) \o <<XorRange(CommandBody(c), 9), kFrameTail>>

\* Mutant: the checksum is left out of the frame written by hand.
ZeroFrameUnchecked == <<kFrameHeader, 0, 0, 0, 0, 0, 0, 0, 0, 0, kFrameTail>>
MakeZeroCommandFrame == <<kFrameHeader, 0, 0, 0, 0, 0, 0, 0, 0, kFrameHeader, kFrameTail>>

-----------------------------------------------------------------------------
(* decodeFeedbackFrame *)

\* Mutant: the checksum is not compared.
DecodeErrorUnsummed(data) ==
  IF Len(data) # kFeedbackFrameSize THEN "kInvalidFrameSize"
  ELSE IF data[1] # kFrameHeader THEN "kInvalidHeader"
  ELSE IF data[24] # kFrameTail THEN "kInvalidTail"
  ELSE IF data[2] > 1 THEN "kInvalidCompositeStopFlag"
  ELSE "kNone"

DecodeError(data) ==
  IF Len(data) # kFeedbackFrameSize THEN "kInvalidFrameSize"
  ELSE IF data[1] # kFrameHeader THEN "kInvalidHeader"
  ELSE IF data[24] # kFrameTail THEN "kInvalidTail"
  ELSE IF XorRange(data, 22) # data[23] THEN "kChecksumMismatch"
  ELSE IF data[2] > 1 THEN "kInvalidCompositeStopFlag"
  ELSE "kNone"

\* FeedbackData: raw wire units, before the division by a constant.  A frame
\* that fails leaves the defaults, which inhibit.
NoFeedback == [control_allowed |-> FALSE, control_inhibited |-> TRUE,
               linear |-> 0, lateral |-> 0, yaw |-> 0,
               acceleration |-> <<0, 0, 0>>, gyroscope |-> <<0, 0, 0>>, voltage |-> 0]
Field(data, i) == LoadSignedBigEndian(data[i], data[i + 1])
DecodeFeedback(data) ==
  IF DecodeError(data) # "kNone" THEN NoFeedback
  ELSE [control_allowed |-> data[2] = 0, control_inhibited |-> data[2] = 1,
        linear |-> Field(data, 3), lateral |-> Field(data, 5), yaw |-> Field(data, 7),
        acceleration |-> [axis \in 1..3 |-> Field(data, 7 + 2 * axis)],
        gyroscope |-> [axis \in 1..3 |-> Field(data, 13 + 2 * axis)],
        voltage |-> LoadUnsignedBigEndian(data[21], data[22])]

-----------------------------------------------------------------------------
(* The vehicle *)

\* What the vehicle reads from a command frame.
VehicleReads(frame) ==
  [linear |-> LoadSignedBigEndian(frame[4], frame[5]),
   lateral |-> LoadSignedBigEndian(frame[6], frame[7]),
   yaw |-> LoadSignedBigEndian(frame[8], frame[9])]

VehicleBody(report) ==
  <<kFrameHeader, IF report.control_inhibited THEN 1 ELSE 0>>
  \o StoreSignedBigEndian(report.linear) \o StoreSignedBigEndian(report.lateral)
  \o StoreSignedBigEndian(report.yaw)
  \o StoreSignedBigEndian(report.acceleration[1]) \o StoreSignedBigEndian(report.acceleration[2])
  \o StoreSignedBigEndian(report.acceleration[3])
  \o StoreSignedBigEndian(report.gyroscope[1]) \o StoreSignedBigEndian(report.gyroscope[2])
  \o StoreSignedBigEndian(report.gyroscope[3])
  \o StoreSignedBigEndian(report.voltage)
VehicleSends(report) == VehicleBody(report) \o <<XorRange(VehicleBody(report), 22), kFrameTail>>

-----------------------------------------------------------------------------
(* One exchange in each direction *)

VARIABLES
  command,   \* [motion, limit, error, frame] of a call of encodeCommand
  feedback   \* [report, sent, received, error, data] of a frame from the vehicle

codecVars == <<command, feedback>>

None == [error |-> "none"]

CodecInit == command = None /\ feedback = None

Encode ==
  /\ command = None /\ feedback = None
  /\ \E c \in Motion, limit \in SpeedLimit:
       LET error == EncodeError(c, limit) IN
       command' = [motion |-> c, limit |-> limit, error |-> error,
                   frame |-> IF error = "kNone" THEN CommandFrame(c) ELSE <<>>]
  /\ UNCHANGED feedback

Receive(report, received) ==
  feedback' = [report |-> report, sent |-> VehicleSends(report), received |-> received,
               error |-> DecodeError(received), data |-> DecodeFeedback(received)]

ReceiveIntact ==
  /\ command = None /\ feedback = None
  /\ \E report \in Report: Receive(report, VehicleSends(report))
  /\ UNCHANGED command

ReceiveDamaged ==
  /\ command = None /\ feedback = None
  /\ \E report \in Report, i \in 1..kFeedbackFrameSize, b \in Damage:
       /\ VehicleSends(report)[i] # b
       /\ Receive(report, [VehicleSends(report) EXCEPT ![i] = b])
  /\ UNCHANGED command

ReceiveShort ==
  /\ command = None /\ feedback = None
  /\ \E report \in Report, size \in 0..kFeedbackFrameSize - 1:
       Receive(report, SubSeq(VehicleSends(report), 1, size))
  /\ UNCHANGED command

CodecNext == Encode \/ ReceiveIntact \/ ReceiveDamaged \/ ReceiveShort

CodecSpec == CodecInit /\ [][CodecNext]_codecVars

-----------------------------------------------------------------------------
(* Properties *)

Encoded == command # None /\ command.error = "kNone"

\* What the vehicle reads is never faster than what was asked for, never of
\* the other sign and less than a wire unit slower, also at both ends of
\* int16_t; and its linear speed never exceeds the limit of the call.
EncodingNeverSpeedsUp ==
  Encoded =>
    LET read == VehicleReads(command.frame) IN
    /\ \A f \in {"linear", "lateral", "yaw"}:
         LET asked == command.motion[f]
             got == read[f] * kMotionUnitsPerWireUnit
         IN /\ Magnitude(got) <= Magnitude(asked)
            /\ Magnitude(asked - got) < kMotionUnitsPerWireUnit
            /\ got # 0 => (got > 0 <=> asked > 0)
    /\ Magnitude(read.linear) * kMotionUnitsPerWireUnit <= command.limit

\* The zero frame that is written out by hand is the encoding of no motion,
\* and every frame the vehicle reads as no motion is that very frame.
ZeroFrameIsZero ==
  Encoded =>
    (command.frame = MakeZeroCommandFrame
       <=> \A f \in {"linear", "lateral", "yaw"}: VehicleReads(command.frame)[f] = 0)

\* What is decoded is what the vehicle meant: an intact report field by field,
\* and a report with a damaged byte, wherever it is, or cut short never passes;
\* what does not pass never allows control.
FeedbackIsGenuine ==
  feedback # None =>
    IF feedback.received = feedback.sent
    THEN feedback.error = "kNone" /\ feedback.data = feedback.report
    ELSE /\ feedback.error # "kNone"
         /\ ~feedback.data.control_allowed /\ feedback.data.control_inhibited

=============================================================================
