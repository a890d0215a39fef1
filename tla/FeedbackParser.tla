--------------------------- MODULE FeedbackParser ---------------------------
(***************************************************************************)
(* The incremental parser of src/src/feedback_parser.cpp and the frame     *)
(* tests of decodeFeedbackFrame in src/src/protocol.cpp.                   *)
(*                                                                         *)
(* consume() is a loop over the bytes of one chunk; an iteration is one    *)
(* action.  A frame has FrameSize bytes: the header, the composite stop    *)
(* flag, a payload, the XOR of all of these, and the tail.  The loop may   *)
(* also be left by an exception, when the vector it returns cannot grow.   *)
(***************************************************************************)
EXTENDS Integers, Sequences

CONSTANTS
  FrameSize,               \* kFeedbackFrameSize
  Byte, FrameHeader, FrameTail,  \* the bytes of the line, kFrameHeader, kFrameTail
  ByteXor(_, _),           \* bitwise exclusive or of two bytes
  MaxChunk, MaxStream      \* bounds: bytes of one chunk, bytes consumed in all

ASSUME FrameAssumption ==
  /\ FrameSize \in Nat /\ FrameSize >= 4
  /\ Byte \subseteq Nat /\ FrameHeader \in Byte /\ FrameTail \in Byte
  /\ MaxChunk \in Nat /\ MaxStream \in Nat

VARIABLES
  retained,    \* the first retained_size_ bytes of retained_
  statistics,  \* FeedbackParserStatistics
  input,       \* the bytes of the present chunk the loop has not reached
  past         \* history: what was consumed and parsed

vars == <<retained, statistics, input, past>>

\* stream: the bytes consumed since the parser last started afresh.
\* frames: the frames parsed from it.
\* consumed: every byte taken; lost: those of a frame that was thrown away.
NoPast == [stream |-> <<>>, frames |-> <<>>, consumed |-> 0, lost |-> 0]
NoStatistics == [valid_frames |-> 0, checksum_failures |-> 0,
                 framing_failures |-> 0, discarded_bytes |-> 0]

\* The shape of the state.
TypeOK ==
  /\ retained \in Seq(Byte) /\ Len(retained) <= FrameSize
  /\ statistics \in [valid_frames: Nat, checksum_failures: Nat,
                     framing_failures: Nat, discarded_bytes: Nat]
  /\ input \in Seq(Byte)
  /\ past \in [stream: Seq(Byte), frames: Seq(Seq(Byte)), consumed: Nat, lost: Nat]

-----------------------------------------------------------------------------
(* decodeFeedbackFrame *)

XorRange(data, size) ==
  LET value[i \in 0..size] == IF i = 0 THEN 0 ELSE ByteXor(value[i - 1], data[i])
  IN value[size]

\* The first test a candidate fails, in the order of the code.
DecodeError(data) ==
  IF data[1] # FrameHeader THEN "kInvalidHeader"
  ELSE IF data[FrameSize] # FrameTail THEN "kInvalidTail"
  ELSE IF XorRange(data, FrameSize - 2) # data[FrameSize - 1] THEN "kChecksumMismatch"
  ELSE IF data[2] > 1 THEN "kInvalidCompositeStopFlag"
  ELSE "kNone"

-----------------------------------------------------------------------------
(* consume *)

Init ==
  /\ retained = <<>>
  /\ statistics = NoStatistics
  /\ input = <<>>
  /\ past = NoPast

\* The caller hands over a chunk.
Consume(chunk) ==
  /\ input = <<>>
  /\ past.consumed + Len(chunk) <= MaxStream
  /\ input' = chunk
  /\ UNCHANGED <<retained, statistics, past>>

\* A size without data
ConsumeNull(size) ==
  /\ input = <<>>
  /\ past.consumed + size <= MaxStream
  /\ statistics' = [statistics EXCEPT
                      !.framing_failures = statistics.framing_failures + 1,
                      !.discarded_bytes = statistics.discarded_bytes + size]
  /\ past' = [past EXCEPT !.consumed = past.consumed + size]
  /\ UNCHANGED <<retained, input>>

Taken == [past EXCEPT !.stream = Append(past.stream, Head(input)),
                      !.consumed = past.consumed + 1]
Candidate == Append(retained, Head(input))

\* Noise outside a candidate
SkipByte ==
  /\ input # <<>>
  /\ retained = <<>> /\ Head(input) # FrameHeader
  /\ statistics' = [statistics EXCEPT !.discarded_bytes = statistics.discarded_bytes + 1]
  /\ input' = Tail(input)
  /\ past' = Taken
  /\ UNCHANGED retained

RetainByte ==
  /\ input # <<>>
  /\ retained # <<>> \/ Head(input) = FrameHeader
  /\ Len(Candidate) < FrameSize
  /\ retained' = Candidate
  /\ input' = Tail(input)
  /\ past' = Taken
  /\ UNCHANGED statistics

\* The byte that completes a candidate
Completes(error) ==
  /\ input # <<>>
  /\ retained # <<>> \/ Head(input) = FrameHeader
  /\ Len(Candidate) >= FrameSize
  /\ error = DecodeError(Candidate)

AcceptFrame ==
  /\ Completes("kNone")
  /\ retained' = <<>>
  /\ statistics' = [statistics EXCEPT !.valid_frames = statistics.valid_frames + 1]
  /\ input' = Tail(input)
  /\ past' = [Taken EXCEPT !.frames = Append(past.frames, Candidate)]

\* Mutants: the candidate is consumed only when push_back has returned; the
\* frame is counted before it returns.
AcceptThrowsRetaining ==
  /\ Completes("kNone")
  /\ retained' = Candidate
  /\ input' = <<>>
  /\ past' = [NoPast EXCEPT !.consumed = past.consumed + 1, !.lost = past.lost + FrameSize]
  /\ UNCHANGED statistics

AcceptThrowsCounted ==
  /\ Completes("kNone")
  /\ retained' = <<>>
  /\ statistics' = [statistics EXCEPT !.valid_frames = statistics.valid_frames + 1]
  /\ input' = <<>>
  /\ past' = [NoPast EXCEPT !.consumed = past.consumed + 1, !.lost = past.lost + FrameSize]

\* push_back throws: the frame, the result and the rest of the chunk are
\* gone, but the candidate was consumed first.
AcceptThrows ==
  /\ Completes("kNone")
  /\ retained' = <<>>
  /\ input' = <<>>
  /\ past' = [NoPast EXCEPT !.consumed = past.consumed + 1, !.lost = past.lost + FrameSize]
  /\ UNCHANGED statistics

\* resynchronizeAfterInvalidCandidate: drop the header and what follows it up
\* to the next header, which becomes the start of the new candidate.
NextHeaders(candidate) == {i \in 2..Len(candidate): candidate[i] = FrameHeader}
\* Mutant: the whole candidate is dropped.
DiscardAll(candidate) == Len(candidate)

DiscardCount(candidate) ==
  IF NextHeaders(candidate) = {} THEN Len(candidate)
  ELSE (CHOOSE i \in NextHeaders(candidate):
          \A j \in NextHeaders(candidate): i <= j) - 1

RejectCandidate ==
  \E error \in {"kInvalidHeader", "kInvalidTail", "kChecksumMismatch",
                "kInvalidCompositeStopFlag"}:
    LET discard == DiscardCount(Candidate)
        checksum == IF error = "kChecksumMismatch" THEN 1 ELSE 0
    IN
    /\ Completes(error)
    /\ retained' = SubSeq(Candidate, discard + 1, Len(Candidate))
    /\ statistics' = [statistics EXCEPT
                        !.checksum_failures = statistics.checksum_failures + checksum,
                        !.framing_failures = statistics.framing_failures + (1 - checksum),
                        !.discarded_bytes = statistics.discarded_bytes + discard]
    /\ input' = Tail(input)
    /\ past' = Taken

\* reset()
Reset ==
  /\ input = <<>>
  /\ retained' = <<>>
  /\ statistics' = NoStatistics
  /\ past' = NoPast
  /\ UNCHANGED input

Next ==
  \/ \E n \in 1..MaxChunk: \E chunk \in [1..n -> Byte]: Consume(chunk)
  \/ \E size \in 1..MaxChunk: ConsumeNull(size)
  \/ SkipByte \/ RetainByte \/ AcceptFrame \/ AcceptThrows \/ RejectCandidate
  \/ Reset

Spec == Init /\ [][Next]_vars

-----------------------------------------------------------------------------
(* Properties *)

\* What a parser that sees the whole stream at once would find: the leftmost
\* valid frames that do not overlap.
Reference(stream) ==
  LET from[p \in 1..(Len(stream) + 1)] ==
        IF p + FrameSize - 1 > Len(stream) THEN <<>>
        ELSE LET frame == SubSeq(stream, p, p + FrameSize - 1) IN
             IF DecodeError(frame) = "kNone"
             THEN <<frame>> \o from[p + FrameSize] ELSE from[p + 1]
  IN from[1]

\* However the line is cut into chunks, and whatever noise and broken
\* candidates overlap the frames, the parser finds exactly the frames of the
\* reference: resynchronization neither skips nor invents one.
FramesMatchReference == past.frames = Reference(past.stream)

\* Every byte consumed is discarded, part of a valid frame, still retained or
\* lost with a thrown frame: the statistics count none twice and miss none.
BytesAreAccounted ==
  statistics.discarded_bytes + FrameSize * statistics.valid_frames
    + Len(retained) + past.lost = past.consumed

\* Between two bytes the parser retains less than a frame, starting with a
\* header, also after an exception left the loop.
RetainedIsCandidate ==
  /\ Len(retained) < FrameSize
  /\ retained # <<>> => retained[1] = FrameHeader

=============================================================================
