------------------------ MODULE FeedbackParserProofs ------------------------
(***************************************************************************)
(* The parser loses, invents and miscounts nothing, for every size of a    *)
(* frame, every alphabet of bytes and every checksum function.             *)
(***************************************************************************)
EXTENDS FeedbackParser, SequenceTheorems, WellFoundedInduction, TLAPS

PInv == TypeOK /\ RetainedIsCandidate /\ BytesAreAccounted

-----------------------------------------------------------------------------
(* The operators of the loop *)

\* A set of natural numbers has a least element.
LEMMA LeastNatural ==
  ASSUME NEW T, T \subseteq Nat, T # {}
  PROVE  \E x \in T: \A y \in T: x <= y
<1> DEFINE R == OpToRel(<, Nat)
<1>1. IsWellFoundedOn(R, Nat)
  BY NatLessThanWellFounded
<1>2. R = {r \in Nat \X Nat: r[1] < r[2]}
  BY DEF OpToRel
<1>3. \A x, y \in Nat: x < y => <<x, y>> \in R
  BY <1>2
<1> HIDE DEF R
<1>4. PICK x \in T: \A y \in T: ~(<<y, x>> \in R)
  BY <1>1, WFMin
<1>5. \A y \in T: ~(y < x)
  BY <1>3, <1>4
<1> QED BY <1>5

\* resynchronizeAfterInvalidCandidate drops at least the header, and stops at
\* the first header behind it.
LEMMA DiscardFacts ==
  ASSUME NEW c \in Seq(Byte), Len(c) >= 1
  PROVE  /\ DiscardCount(c) \in 1..Len(c)
         /\ \A i \in 2..DiscardCount(c): c[i] # FrameHeader
         /\ DiscardCount(c) < Len(c) => c[DiscardCount(c) + 1] = FrameHeader
<1> DEFINE H == NextHeaders(c)
           first == CHOOSE i \in H: \A j \in H: i <= j
<1>1. Len(c) \in Nat
  OBVIOUS
<1>2. /\ H \subseteq 2..Len(c) /\ \A i \in H: c[i] = FrameHeader
      /\ \A i \in 2..Len(c): i \notin H => c[i] # FrameHeader
  BY DEF NextHeaders
<1>3. DiscardCount(c) = IF H = {} THEN Len(c) ELSE first - 1
  BY DEF DiscardCount
<1> HIDE DEF H
<1>4. CASE H = {}
  BY <1>1, <1>2, <1>3, <1>4
<1>5. CASE H # {}
  <2>1. H \subseteq Nat
    BY <1>1, <1>2
  <2>2. \E i \in H: \A j \in H: i <= j
    BY <1>5, <2>1, LeastNatural
  <2>3. first \in H /\ \A j \in H: first <= j
    BY <2>2
  <2> HIDE DEF first
  <2>4. first \in 2..Len(c) /\ first \in Nat /\ c[first] = FrameHeader
    BY <1>2, <2>1, <2>3
  <2>5. DiscardCount(c) = first - 1
    BY <1>3, <1>5
  <2>6. \A i \in 2..(first - 1): c[i] # FrameHeader
    BY <1>1, <1>2, <2>3, <2>4
  <2>7. first - 1 \in 1..Len(c) /\ first - 1 + 1 = first
    BY <1>1, <2>4
  <2> QED BY <2>4, <2>5, <2>6, <2>7
<1> QED BY <1>4, <1>5

LEMMA SizeFacts ==
  /\ FrameSize \in Nat /\ FrameSize >= 4 /\ Byte \subseteq Nat /\ FrameHeader \in Byte
BY FrameAssumption

\* The byte the loop is at, and the candidate it belongs to.
LEMMA CandidateFacts ==
  ASSUME TypeOK, input # <<>>
  PROVE  /\ Head(input) \in Byte /\ Tail(input) \in Seq(Byte)
         /\ Candidate \in Seq(Byte) /\ Len(Candidate) = Len(retained) + 1
         /\ Len(retained) \in Nat
         /\ Candidate[Len(retained) + 1] = Head(input)
         /\ \A i \in 1..Len(retained): Candidate[i] = retained[i]
         /\ Taken.stream = Append(past.stream, Head(input))
         /\ Taken.frames = past.frames /\ Taken.lost = past.lost
         /\ Taken.consumed = past.consumed + 1
         /\ Taken \in [stream: Seq(Byte), frames: Seq(Seq(Byte)), consumed: Nat, lost: Nat]
<1>1. /\ retained \in Seq(Byte) /\ input \in Seq(Byte)
      /\ past \in [stream: Seq(Byte), frames: Seq(Seq(Byte)), consumed: Nat, lost: Nat]
  BY DEF TypeOK
<1>2. Head(input) \in Byte /\ Tail(input) \in Seq(Byte)
  BY <1>1
<1> DEFINE b == Head(input)
<1> HIDE DEF b
<1>3. /\ Append(retained, b) \in Seq(Byte) /\ Len(Append(retained, b)) = Len(retained) + 1
      /\ Len(retained) \in Nat /\ Append(retained, b)[Len(retained) + 1] = b
      /\ \A i \in 1..Len(retained): Append(retained, b)[i] = retained[i]
  BY <1>1, <1>2 DEF b
<1>4. Append(past.stream, b) \in Seq(Byte)
  BY <1>1, <1>2 DEF b
<1>5. Taken = [past EXCEPT !.stream = Append(past.stream, b), !.consumed = past.consumed + 1]
  BY DEF Taken, b
<1>6. /\ Taken.stream = Append(past.stream, b) /\ Taken.frames = past.frames
      /\ Taken.lost = past.lost /\ Taken.consumed = past.consumed + 1
  BY <1>1, <1>5
<1>7. Taken \in [stream: Seq(Byte), frames: Seq(Seq(Byte)), consumed: Nat, lost: Nat]
  <2> DEFINE longer == Append(past.stream, b)
  <2>1. longer \in Seq(Byte) /\ past.consumed + 1 \in Nat
    BY <1>1, <1>4
  <2> HIDE DEF longer
  <2>2. Taken = [past EXCEPT !.stream = longer, !.consumed = past.consumed + 1]
    BY <1>5 DEF longer
  <2> QED BY <1>1, <2>1, <2>2
<1> QED BY <1>2, <1>3, <1>6, <1>7 DEF Candidate, b

-----------------------------------------------------------------------------
(* Every byte is counted once *)

Past == [stream: Seq(Byte), frames: Seq(Seq(Byte)), consumed: Nat, lost: Nat]
Statistics == [valid_frames: Nat, checksum_failures: Nat,
               framing_failures: Nat, discarded_bytes: Nat]

\* The bytes of the frames that were counted.
FrameBytes(s) == FrameSize * s.valid_frames

LEMMA Shape ==
  ASSUME PInv
  PROVE  /\ retained \in Seq(Byte) /\ Len(retained) \in Nat /\ Len(retained) < FrameSize
         /\ input \in Seq(Byte) /\ past \in Past /\ statistics \in Statistics
         /\ past.stream \in Seq(Byte) /\ past.frames \in Seq(Seq(Byte))
<1>1. /\ retained \in Seq(Byte) /\ input \in Seq(Byte) /\ past \in Past
      /\ statistics \in Statistics
  BY DEF PInv, TypeOK, Past, Statistics
<1>2. Len(retained) < FrameSize
  BY DEF PInv, RetainedIsCandidate
<1> QED BY <1>1, <1>2 DEF Past

\* The numbers of the state.
LEMMA Counts ==
  ASSUME PInv
  PROVE  /\ Len(retained) \in Nat /\ Len(retained) < FrameSize
         /\ past.consumed \in Nat /\ past.lost \in Nat
         /\ statistics.valid_frames \in Nat /\ statistics.discarded_bytes \in Nat
         /\ statistics.checksum_failures \in Nat /\ statistics.framing_failures \in Nat
         /\ FrameBytes(statistics) \in Nat
<1>1. statistics \in Statistics /\ past \in Past
  BY Shape
<1>2. Len(retained) \in Nat /\ Len(retained) < FrameSize
  BY Shape
<1>3. past.consumed \in Nat /\ past.lost \in Nat
  BY <1>1 DEF Past
<1>4. /\ statistics.valid_frames \in Nat /\ statistics.discarded_bytes \in Nat
      /\ statistics.checksum_failures \in Nat /\ statistics.framing_failures \in Nat
  BY <1>1 DEF Statistics
<1>5. FrameBytes(statistics) \in Nat
  BY <1>4, SizeFacts DEF FrameBytes
<1> QED BY <1>2, <1>3, <1>4, <1>5

\* The sides of the account: bytes discarded, in frames, retained and lost.
Total(d, f, r, l) == d + f + r + l

LEMMA TotalFacts ==
  ASSUME NEW d \in Int, NEW f \in Int, NEW r \in Int, NEW l \in Int, NEW n \in Int
  PROVE  /\ Total(d + n, f, r, l) = Total(d, f, r, l) + n
         /\ Total(d, f, r + 1, l) = Total(d, f, r, l) + 1
BY DEF Total

LEMMA Balance ==
  ASSUME PInv
  PROVE  Total(statistics.discarded_bytes, FrameBytes(statistics), Len(retained), past.lost)
           = past.consumed
BY DEF PInv, BytesAreAccounted, FrameBytes, Total

\* What the parts of the invariant ask of a new state.
LEMMA Accounted ==
  ASSUME retained' \in Seq(Byte), Len(retained') < FrameSize,
         retained' # <<>> => retained'[1] = FrameHeader,
         input' \in Seq(Byte), past' \in Past, statistics' \in Statistics,
         Total(statistics'.discarded_bytes, FrameBytes(statistics'), Len(retained'), past'.lost)
           = past'.consumed
  PROVE  PInv'
<1>1. Len(retained') \in Nat
  OBVIOUS
<1>2. Len(retained') <= FrameSize
  BY <1>1, SizeFacts
<1>3. TypeOK'
  BY <1>2 DEF TypeOK, Past, Statistics
<1>4. RetainedIsCandidate' /\ BytesAreAccounted'
  BY DEF RetainedIsCandidate, BytesAreAccounted, FrameBytes, Total
<1> QED BY <1>3, <1>4 DEF PInv

LEMMA FreshFacts ==
  /\ <<>> \in Seq(Byte) /\ Len(<<>>) = 0
  /\ NoPast \in Past /\ NoPast.stream = <<>> /\ NoPast.frames = <<>>
  /\ NoPast.consumed = 0 /\ NoPast.lost = 0
  /\ NoStatistics \in Statistics /\ NoStatistics.valid_frames = 0
  /\ NoStatistics.discarded_bytes = 0
<1>1. <<>> \in Seq(Byte) /\ Len(<<>>) = 0 /\ <<>> \in Seq(Seq(Byte))
  OBVIOUS
<1>2. /\ NoPast \in Past /\ NoPast.stream = <<>> /\ NoPast.frames = <<>>
      /\ NoPast.consumed = 0 /\ NoPast.lost = 0
  BY <1>1 DEF NoPast, Past
<1>3. /\ NoStatistics \in Statistics /\ NoStatistics.valid_frames = 0
      /\ NoStatistics.discarded_bytes = 0
  BY DEF NoStatistics, Statistics
<1> QED BY <1>1, <1>2, <1>3

LEMMA InitAccounted ==
  ASSUME Init
  PROVE  PInv
<1>1. /\ retained = <<>> /\ statistics = NoStatistics /\ input = <<>> /\ past = NoPast
  BY DEF Init
<1>2. TypeOK
  <2>1. Len(retained) <= FrameSize
    BY <1>1, FreshFacts, SizeFacts
  <2> QED BY <1>1, <2>1, FreshFacts DEF TypeOK, Past, Statistics
<1>3. RetainedIsCandidate
  <2>1. Len(retained) < FrameSize
    BY <1>1, FreshFacts, SizeFacts
  <2> QED BY <1>1, <2>1 DEF RetainedIsCandidate
<1>4. BytesAreAccounted
  BY <1>1, FreshFacts, SizeFacts DEF BytesAreAccounted
<1> QED BY <1>2, <1>3, <1>4 DEF PInv

LEMMA ConsumeAccounted ==
  ASSUME PInv, NEW n \in 1..MaxChunk, NEW chunk \in [1..n -> Byte], Consume(chunk)
  PROVE  PInv'
<1>1. /\ input' = chunk /\ retained' = retained /\ statistics' = statistics /\ past' = past
  BY DEF Consume
<1>2. n \in Nat
  BY FrameAssumption
<1>3. chunk \in Seq(Byte)
  BY <1>2, SeqDef
<1>4. retained # <<>> => retained[1] = FrameHeader
  BY DEF PInv, RetainedIsCandidate
<1>5. Total(statistics'.discarded_bytes, FrameBytes(statistics'), Len(retained'), past'.lost)
        = past'.consumed
  BY <1>1, Balance
<1> QED BY <1>1, <1>3, <1>4, <1>5, Shape, Accounted

LEMMA ConsumeNullAccounted ==
  ASSUME PInv, NEW size \in 1..MaxChunk, ConsumeNull(size)
  PROVE  PInv'
<1>1. /\ input' = input /\ retained' = retained
      /\ statistics' = [statistics EXCEPT
                          !.framing_failures = statistics.framing_failures + 1,
                          !.discarded_bytes = statistics.discarded_bytes + size]
      /\ past' = [past EXCEPT !.consumed = past.consumed + size]
  BY DEF ConsumeNull
<1>2. size \in Nat
  BY FrameAssumption
<1>3. /\ statistics.framing_failures + 1 \in Nat /\ statistics.discarded_bytes + size \in Nat
      /\ past.consumed + size \in Nat
  BY <1>2, Counts
<1>4. /\ statistics' \in Statistics /\ FrameBytes(statistics') = FrameBytes(statistics)
      /\ statistics'.discarded_bytes = statistics.discarded_bytes + size
  BY <1>1, <1>3, Shape DEF Statistics, FrameBytes
<1>5. past' \in Past /\ past'.consumed = past.consumed + size /\ past'.lost = past.lost
  BY <1>1, <1>3, Shape DEF Past
<1>6. retained # <<>> => retained[1] = FrameHeader
  BY DEF PInv, RetainedIsCandidate
<1>7. Total(statistics'.discarded_bytes, FrameBytes(statistics'), Len(retained'), past'.lost)
        = past'.consumed
  <2> DEFINE d == statistics.discarded_bytes
             f == FrameBytes(statistics)
             r == Len(retained)
             l == past.lost
  <2>1. d \in Int /\ f \in Int /\ r \in Int /\ l \in Int /\ FrameSize \in Int
    BY Counts, SizeFacts
  <2>2. Total(d, f, r, l) = past.consumed
    BY Balance
  <2>3. /\ statistics'.discarded_bytes = d + size /\ FrameBytes(statistics') = f
        /\ Len(retained') = r /\ past'.lost = l
        /\ past'.consumed = past.consumed + size
    BY <1>1, <1>2, <1>4, <1>5
  <2> HIDE DEF d, f, r, l
  <2>4. Total(d + size, f, r, l) = Total(d, f, r, l) + size
    BY <1>2, <2>1, TotalFacts
  <2> QED BY <2>2, <2>3, <2>4
<1> QED BY <1>1, <1>4, <1>5, <1>6, <1>7, Shape, Accounted

LEMMA SkipByteAccounted ==
  ASSUME PInv, SkipByte
  PROVE  PInv'
<1>1. /\ input # <<>> /\ input' = Tail(input) /\ retained = <<>> /\ retained' = retained
      /\ statistics' = [statistics EXCEPT !.discarded_bytes = statistics.discarded_bytes + 1]
      /\ past' = Taken
  BY DEF SkipByte
<1>2. TypeOK
  BY DEF PInv
<1>3. /\ Tail(input) \in Seq(Byte) /\ Taken \in Past
      /\ Taken.consumed = past.consumed + 1 /\ Taken.lost = past.lost
  BY <1>1, <1>2, CandidateFacts DEF Past
<1>4. statistics.discarded_bytes + 1 \in Nat
  BY Counts
<1>5. /\ statistics' \in Statistics /\ FrameBytes(statistics') = FrameBytes(statistics)
      /\ statistics'.discarded_bytes = statistics.discarded_bytes + 1
  BY <1>1, <1>4, Shape DEF Statistics, FrameBytes
<1>6. Total(statistics'.discarded_bytes, FrameBytes(statistics'), Len(retained'), past'.lost)
        = past'.consumed
  <2> DEFINE d == statistics.discarded_bytes
             f == FrameBytes(statistics)
             r == Len(retained)
             l == past.lost
  <2>1. d \in Int /\ f \in Int /\ r \in Int /\ l \in Int /\ FrameSize \in Int
    BY Counts, SizeFacts
  <2>2. Total(d, f, r, l) = past.consumed
    BY Balance
  <2>3. /\ statistics'.discarded_bytes = d + 1 /\ FrameBytes(statistics') = f
        /\ Len(retained') = r /\ past'.lost = l
        /\ past'.consumed = past.consumed + 1
    BY <1>1, <1>3, <1>5
  <2> HIDE DEF d, f, r, l
  <2>4. Total(d + 1, f, r, l) = Total(d, f, r, l) + 1
    BY <2>1, TotalFacts
  <2> QED BY <2>2, <2>3, <2>4
<1> QED BY <1>1, <1>3, <1>5, <1>6, Shape, Accounted

LEMMA RetainByteAccounted ==
  ASSUME PInv, RetainByte
  PROVE  PInv'
<1>1. /\ input # <<>> /\ input' = Tail(input) /\ retained' = Candidate
      /\ retained # <<>> \/ Head(input) = FrameHeader
      /\ Len(Candidate) < FrameSize /\ statistics' = statistics /\ past' = Taken
  BY DEF RetainByte
<1>2. TypeOK
  BY DEF PInv
<1>3. /\ Tail(input) \in Seq(Byte) /\ Taken \in Past
      /\ Taken.consumed = past.consumed + 1 /\ Taken.lost = past.lost
      /\ Candidate \in Seq(Byte) /\ Len(Candidate) = Len(retained) + 1
  BY <1>1, <1>2, CandidateFacts DEF Past
<1>4. Candidate[1] = FrameHeader
  <2>1. CASE retained = <<>>
    <3>1. Len(retained) = 0
      BY <2>1
    <3>2. Candidate[0 + 1] = Head(input)
      BY <1>1, <1>2, <3>1, CandidateFacts
    <3> QED BY <1>1, <2>1, <3>2
  <2>2. CASE retained # <<>>
    <3>1. retained[1] = FrameHeader
      BY <2>2 DEF PInv, RetainedIsCandidate
    <3>2. 1 \in 1..Len(retained)
      BY <2>2, Shape, EmptySeq
    <3> QED BY <1>1, <1>2, <3>1, <3>2, CandidateFacts
  <2> QED BY <2>1, <2>2
<1>5. Total(statistics'.discarded_bytes, FrameBytes(statistics'), Len(retained'), past'.lost)
        = past'.consumed
  <2> DEFINE d == statistics.discarded_bytes
             f == FrameBytes(statistics)
             r == Len(retained)
             l == past.lost
  <2>1. d \in Int /\ f \in Int /\ r \in Int /\ l \in Int /\ FrameSize \in Int
    BY Counts, SizeFacts
  <2>2. Total(d, f, r, l) = past.consumed
    BY Balance
  <2>3. /\ statistics'.discarded_bytes = d /\ FrameBytes(statistics') = f
        /\ Len(retained') = r + 1 /\ past'.lost = l
        /\ past'.consumed = past.consumed + 1
    BY <1>1, <1>3
  <2> HIDE DEF d, f, r, l
  <2>4. Total(d, f, r + 1, l) = Total(d, f, r, l) + 1
    BY <2>1, TotalFacts
  <2> QED BY <2>2, <2>3, <2>4
<1> QED BY <1>1, <1>3, <1>4, <1>5, Shape, Accounted

\* A candidate is complete with its last byte, and begins with a header.
LEMMA CompleteFacts ==
  ASSUME PInv, NEW error, Completes(error)
  PROVE  /\ input # <<>> /\ Len(Candidate) = FrameSize /\ Len(retained) = FrameSize - 1
         /\ Candidate \in Seq(Byte) /\ Tail(input) \in Seq(Byte) /\ Taken \in Past
         /\ Taken.consumed = past.consumed + 1 /\ Taken.lost = past.lost
         /\ Taken.frames = past.frames
         /\ error = DecodeError(Candidate)
<1>1. input # <<>> /\ Len(Candidate) >= FrameSize /\ error = DecodeError(Candidate)
  BY DEF Completes
<1>2. TypeOK
  BY DEF PInv
<1>3. /\ Tail(input) \in Seq(Byte) /\ Taken \in Past
      /\ Taken.consumed = past.consumed + 1 /\ Taken.lost = past.lost
      /\ Taken.frames = past.frames
      /\ Candidate \in Seq(Byte) /\ Len(Candidate) = Len(retained) + 1
  BY <1>1, <1>2, CandidateFacts DEF Past
<1>4. Len(Candidate) = FrameSize /\ Len(retained) = FrameSize - 1
  BY <1>1, <1>3, Counts, SizeFacts
<1> QED BY <1>1, <1>3, <1>4

LEMMA AcceptFrameAccounted ==
  ASSUME PInv, AcceptFrame
  PROVE  PInv'
<1>1. /\ Completes("kNone") /\ retained' = <<>> /\ input' = Tail(input)
      /\ statistics' = [statistics EXCEPT !.valid_frames = statistics.valid_frames + 1]
      /\ past' = [Taken EXCEPT !.frames = Append(past.frames, Candidate)]
  BY DEF AcceptFrame
<1>2. /\ Len(retained) = FrameSize - 1 /\ Candidate \in Seq(Byte)
      /\ Tail(input) \in Seq(Byte) /\ Taken \in Past
      /\ Taken.consumed = past.consumed + 1 /\ Taken.lost = past.lost
  BY <1>1, CompleteFacts
<1>3. Append(past.frames, Candidate) \in Seq(Seq(Byte))
  BY <1>2, Shape
<1>4. past' \in Past /\ past'.consumed = past.consumed + 1 /\ past'.lost = past.lost
  <2> DEFINE more == Append(past.frames, Candidate)
  <2> HIDE DEF more
  <2>1. past' = [Taken EXCEPT !.frames = more] /\ more \in Seq(Seq(Byte))
    BY <1>1, <1>3 DEF more
  <2> QED BY <1>2, <2>1 DEF Past
<1>5. statistics.valid_frames + 1 \in Nat
  BY Counts
<1>6. /\ statistics' \in Statistics
      /\ statistics'.valid_frames = statistics.valid_frames + 1
      /\ statistics'.discarded_bytes = statistics.discarded_bytes
  BY <1>1, <1>5, Shape DEF Statistics, FrameBytes
<1>7. FrameBytes(statistics') = FrameBytes(statistics) + FrameSize
  <2>1. statistics.valid_frames \in Nat /\ FrameSize \in Nat
    BY Counts, SizeFacts
  <2> QED BY <1>6, <2>1 DEF FrameBytes
<1>8. Len(retained') = 0 /\ Len(retained') < FrameSize /\ retained' \in Seq(Byte)
  BY <1>1, FreshFacts, SizeFacts
<1>9. Total(statistics'.discarded_bytes, FrameBytes(statistics'), Len(retained'), past'.lost)
        = past'.consumed
  <2> DEFINE d == statistics.discarded_bytes
             f == FrameBytes(statistics)
             r == Len(retained)
             l == past.lost
  <2>1. d \in Int /\ f \in Int /\ r \in Int /\ l \in Int /\ FrameSize \in Int
    BY Counts, SizeFacts
  <2>2. Total(d, f, r, l) = past.consumed
    BY Balance
  <2>3. /\ statistics'.discarded_bytes = d /\ FrameBytes(statistics') = f + FrameSize
        /\ Len(retained') = 0 /\ past'.lost = l
        /\ past'.consumed = past.consumed + 1 /\ r = FrameSize - 1
    BY <1>2, <1>4, <1>6, <1>7, <1>8
  <2> HIDE DEF d, f, r, l
  <2>4. Total(d, f + FrameSize, 0, l) = Total(d, f, FrameSize - 1, l) + 1
    BY <2>1 DEF Total
  <2> QED BY <2>2, <2>3, <2>4
<1> QED BY <1>1, <1>2, <1>4, <1>6, <1>8, <1>9, Accounted

LEMMA AcceptThrowsAccounted ==
  ASSUME PInv, AcceptThrows
  PROVE  PInv'
<1>1. /\ Completes("kNone") /\ retained' = <<>> /\ input' = <<>>
      /\ past' = [NoPast EXCEPT !.consumed = past.consumed + 1, !.lost = past.lost + FrameSize]
      /\ statistics' = statistics
  BY DEF AcceptThrows
<1>2. Len(retained) = FrameSize - 1
  BY <1>1, CompleteFacts
<1>3. past.consumed + 1 \in Nat /\ past.lost + FrameSize \in Nat
  BY Counts, SizeFacts
<1>4. /\ past' \in Past /\ past'.consumed = past.consumed + 1
      /\ past'.lost = past.lost + FrameSize
  BY <1>1, <1>3, FreshFacts DEF Past
<1>5. Len(retained') = 0 /\ Len(retained') < FrameSize /\ retained' \in Seq(Byte)
  BY <1>1, FreshFacts, SizeFacts
<1>6. Total(statistics'.discarded_bytes, FrameBytes(statistics'), Len(retained'), past'.lost)
        = past'.consumed
  <2> DEFINE d == statistics.discarded_bytes
             f == FrameBytes(statistics)
             r == Len(retained)
             l == past.lost
  <2>1. d \in Int /\ f \in Int /\ r \in Int /\ l \in Int /\ FrameSize \in Int
    BY Counts, SizeFacts
  <2>2. Total(d, f, r, l) = past.consumed
    BY Balance
  <2>3. /\ statistics'.discarded_bytes = d /\ FrameBytes(statistics') = f
        /\ Len(retained') = 0 /\ past'.lost = l + FrameSize
        /\ past'.consumed = past.consumed + 1 /\ r = FrameSize - 1
    BY <1>1, <1>2, <1>4, <1>5
  <2> HIDE DEF d, f, r, l
  <2>4. Total(d, f, 0, l + FrameSize) = Total(d, f, FrameSize - 1, l) + 1
    BY <2>1 DEF Total
  <2> QED BY <2>2, <2>3, <2>4
<1> QED BY <1>1, <1>4, <1>5, <1>6, Shape, FreshFacts, Accounted

\* What is left of a candidate that was refused.
LEMMA LeftOver ==
  ASSUME NEW c \in Seq(Byte), Len(c) = FrameSize
  PROVE  LET d == DiscardCount(c)
             r == SubSeq(c, d + 1, Len(c))
         IN /\ d \in Nat /\ d >= 1 /\ d <= FrameSize
            /\ r \in Seq(Byte) /\ Len(r) = FrameSize - d
            /\ \A i \in 1..Len(r): r[i] = c[d + i]
            /\ r # <<>> => r[1] = FrameHeader
<1> DEFINE d == DiscardCount(c)
           r == SubSeq(c, d + 1, Len(c))
<1>1. Len(c) \in Nat /\ Len(c) >= 1 /\ \A i \in 1..Len(c): c[i] \in Byte
  BY SizeFacts, ElementOfSeq
<1>2. d \in 1..Len(c) /\ (d < Len(c) => c[d + 1] = FrameHeader)
  BY <1>1, DiscardFacts
<1>3. d \in Nat /\ d >= 1 /\ d <= FrameSize
  BY <1>1, <1>2
<1> HIDE DEF d
<1>4. \A i \in (d + 1)..Len(c): c[i] \in Byte
  BY <1>1, <1>3
<1>5. d + 1 \in Int /\ Len(c) \in Int
  BY <1>1, <1>3
<1>6. /\ r \in Seq(Byte) /\ Len(r) = IF d + 1 <= Len(c) THEN Len(c) - (d + 1) + 1 ELSE 0
      /\ \A i \in 1..(Len(c) - (d + 1) + 1): r[i] = c[d + 1 + i - 1]
  BY <1>4, <1>5, SubSeqProperties
<1> HIDE DEF r
<1>7. Len(r) = FrameSize - d
  BY <1>1, <1>3, <1>6
<1>8. \A i \in 1..Len(r): r[i] = c[d + i]
  <2> SUFFICES ASSUME NEW i \in 1..Len(r) PROVE r[i] = c[d + i]
    OBVIOUS
  <2>1. i \in 1..(Len(c) - (d + 1) + 1) /\ d + 1 + i - 1 = d + i
    BY <1>1, <1>3, <1>7, SizeFacts
  <2> QED BY <1>6, <2>1
<1>9. r # <<>> => r[1] = FrameHeader
  <2> SUFFICES ASSUME r # <<>> PROVE r[1] = FrameHeader
    OBVIOUS
  <2>1. Len(r) \in Nat \ {0}
    BY <1>6, EmptySeq
  <2>2. 1 \in 1..Len(r) /\ d < Len(c)
    BY <1>1, <1>3, <1>7, <2>1, SizeFacts
  <2> QED BY <1>2, <1>8, <2>2
<1> QED BY <1>3, <1>6, <1>7, <1>8, <1>9 DEF d, r

LEMMA RejectCandidateAccounted ==
  ASSUME PInv, RejectCandidate
  PROVE  PInv'
<1> DEFINE d == DiscardCount(Candidate)
           r == SubSeq(Candidate, d + 1, Len(Candidate))
<1>1. PICK error \in {"kInvalidHeader", "kInvalidTail", "kChecksumMismatch",
                      "kInvalidCompositeStopFlag"}, checksum \in {0, 1}:
        /\ Completes(error) /\ retained' = r /\ input' = Tail(input) /\ past' = Taken
        /\ statistics' = [statistics EXCEPT
                            !.checksum_failures = statistics.checksum_failures + checksum,
                            !.framing_failures = statistics.framing_failures + (1 - checksum),
                            !.discarded_bytes = statistics.discarded_bytes + d]
  <2>1. PICK error \in {"kInvalidHeader", "kInvalidTail", "kChecksumMismatch",
                        "kInvalidCompositeStopFlag"}:
          LET checksum == IF error = "kChecksumMismatch" THEN 1 ELSE 0 IN
          /\ Completes(error) /\ retained' = r /\ input' = Tail(input) /\ past' = Taken
          /\ statistics' = [statistics EXCEPT
                              !.checksum_failures = statistics.checksum_failures + checksum,
                              !.framing_failures = statistics.framing_failures + (1 - checksum),
                              !.discarded_bytes = statistics.discarded_bytes + d]
    BY DEF RejectCandidate
  <2>2. (IF error = "kChecksumMismatch" THEN 1 ELSE 0) \in {0, 1}
    OBVIOUS
  <2> HIDE DEF d, r
  <2> QED BY <2>1, <2>2
<1>2. /\ Len(retained) = FrameSize - 1 /\ Candidate \in Seq(Byte)
      /\ Len(Candidate) = FrameSize /\ Tail(input) \in Seq(Byte) /\ Taken \in Past
      /\ Taken.consumed = past.consumed + 1 /\ Taken.lost = past.lost
  BY <1>1, CompleteFacts
<1>3. /\ d \in Nat /\ d >= 1 /\ d <= FrameSize
      /\ r \in Seq(Byte) /\ Len(r) = FrameSize - d
      /\ r # <<>> => r[1] = FrameHeader
  BY <1>2, LeftOver
<1> HIDE DEF d, r
<1>4. /\ statistics.checksum_failures + checksum \in Nat
      /\ statistics.framing_failures + (1 - checksum) \in Nat
      /\ statistics.discarded_bytes + d \in Nat
  BY <1>3, Counts
<1>5. /\ statistics' \in Statistics /\ FrameBytes(statistics') = FrameBytes(statistics)
      /\ statistics'.discarded_bytes = statistics.discarded_bytes + d
  BY <1>1, <1>4, Shape DEF Statistics, FrameBytes
<1>6. Len(r) < FrameSize
  BY <1>3, SizeFacts
<1>7. Total(statistics'.discarded_bytes, FrameBytes(statistics'), Len(retained'), past'.lost)
        = past'.consumed
  <2> DEFINE x == statistics.discarded_bytes
             f == FrameBytes(statistics)
             m == Len(retained)
             l == past.lost
  <2>1. x \in Int /\ f \in Int /\ m \in Int /\ l \in Int /\ FrameSize \in Int
    BY Counts, SizeFacts
  <2>2. Total(x, f, m, l) = past.consumed
    BY Balance
  <2>3. /\ statistics'.discarded_bytes = x + d /\ FrameBytes(statistics') = f
        /\ Len(retained') = FrameSize - d /\ past'.lost = l
        /\ past'.consumed = past.consumed + 1 /\ m = FrameSize - 1
    BY <1>1, <1>2, <1>3, <1>5
  <2> HIDE DEF x, f, m, l
  <2>4. Total(x + d, f, FrameSize - d, l) = Total(x, f, FrameSize - 1, l) + 1
    BY <1>3, <2>1 DEF Total
  <2> QED BY <2>2, <2>3, <2>4
<1> QED BY <1>1, <1>2, <1>3, <1>5, <1>6, <1>7, Accounted

LEMMA ResetAccounted ==
  ASSUME PInv, Reset
  PROVE  PInv'
<1>1. /\ retained' = <<>> /\ statistics' = NoStatistics /\ past' = NoPast /\ input' = input
  BY DEF Reset
<1>2. Len(retained') = 0 /\ Len(retained') < FrameSize /\ retained' \in Seq(Byte)
  BY <1>1, FreshFacts, SizeFacts
<1>3. Total(statistics'.discarded_bytes, FrameBytes(statistics'), Len(retained'), past'.lost)
        = past'.consumed
  <2>1. FrameBytes(statistics') = 0
    BY <1>1, FreshFacts, SizeFacts DEF FrameBytes
  <2> QED BY <1>1, <1>2, <2>1, FreshFacts DEF Total
<1> QED BY <1>1, <1>2, <1>3, Shape, FreshFacts, Accounted

LEMMA NextAccounted ==
  ASSUME PInv, Next
  PROVE  PInv'
<1>1. CASE \E n \in 1..MaxChunk: \E chunk \in [1..n -> Byte]: Consume(chunk)
  BY <1>1, ConsumeAccounted
<1>2. CASE \E size \in 1..MaxChunk: ConsumeNull(size)
  BY <1>2, ConsumeNullAccounted
<1>3. /\ SkipByte => PInv'
      /\ RetainByte => PInv'
      /\ AcceptFrame => PInv'
      /\ AcceptThrows => PInv'
      /\ RejectCandidate => PInv'
      /\ Reset => PInv'
  BY SkipByteAccounted, RetainByteAccounted, AcceptFrameAccounted, AcceptThrowsAccounted,
     RejectCandidateAccounted, ResetAccounted
<1> QED BY <1>1, <1>2, <1>3 DEF Next

-----------------------------------------------------------------------------
(* The reference.  It is a recursive function, so its equation is itself    *)
(* something to prove: Scan is the function Reference chooses, Body the     *)
(* right hand side of its definition.                                      *)

Window(stream, p) == SubSeq(stream, p, p + FrameSize - 1)
Body(stream, g, p) ==
  IF p + FrameSize - 1 > Len(stream) THEN <<>>
  ELSE IF DecodeError(Window(stream, p)) = "kNone"
  THEN <<Window(stream, p)>> \o g[p + FrameSize] ELSE g[p + 1]
Scan(stream) == CHOOSE g: g = [p \in 1..(Len(stream) + 1) |-> Body(stream, g, p)]

LEMMA ReferenceIsScan ==
  ASSUME NEW stream
  PROVE  Reference(stream) = Scan(stream)[1]
BY DEF Reference, Scan, Body, Window

LEMMA WindowFacts ==
  ASSUME NEW stream \in Seq(Byte), NEW p \in Nat, p >= 1, p + FrameSize - 1 <= Len(stream)
  PROVE  /\ Window(stream, p) \in Seq(Byte) /\ Len(Window(stream, p)) = FrameSize
         /\ \A i \in 1..FrameSize: Window(stream, p)[i] = stream[p + i - 1]
<1> DEFINE q == p + FrameSize - 1
<1>1. /\ FrameSize \in Nat /\ FrameSize >= 4 /\ Len(stream) \in Nat
      /\ \A i \in 1..Len(stream): stream[i] \in Byte
  BY SizeFacts, ElementOfSeq
<1>2. q \in Int /\ p \in Int /\ p <= q /\ q - p + 1 = FrameSize /\ q <= Len(stream)
  BY <1>1
<1> HIDE DEF q
<1>3. \A i \in p..q: stream[i] \in Byte
  BY <1>1, <1>2
<1>4. /\ SubSeq(stream, p, q) \in Seq(Byte)
      /\ Len(SubSeq(stream, p, q)) = IF p <= q THEN q - p + 1 ELSE 0
      /\ \A i \in 1..(q - p + 1): SubSeq(stream, p, q)[i] = stream[p + i - 1]
  BY <1>2, <1>3, SubSeqProperties
<1>5. Window(stream, p) = SubSeq(stream, p, q)
  BY DEF Window, q
<1> QED BY <1>2, <1>4, <1>5

Frames == Seq(Seq(Byte))

\* The body asks for later values only, and for values that exist.
LEMMA BodyFacts ==
  ASSUME NEW stream \in Seq(Byte), NEW g, NEW p \in 1..(Len(stream) + 1),
         \A q \in (p + 1)..(Len(stream) + 1): g[q] \in Frames
  PROVE  /\ Body(stream, g, p) \in Frames
         /\ \A h: (\A q \in (p + 1)..(Len(stream) + 1): h[q] = g[q])
                    => Body(stream, h, p) = Body(stream, g, p)
<1>1. FrameSize \in Nat /\ FrameSize >= 4 /\ Len(stream) \in Nat /\ p \in Nat /\ p >= 1
  BY SizeFacts
<1>2. CASE p + FrameSize - 1 > Len(stream)
  <2>1. \A h: Body(stream, h, p) = <<>>
    BY <1>2 DEF Body
  <2>2. <<>> \in Frames
    BY DEF Frames
  <2> QED BY <2>1, <2>2
<1>3. CASE ~(p + FrameSize - 1 > Len(stream))
  <2>1. p + FrameSize \in (p + 1)..(Len(stream) + 1) /\ p + 1 \in (p + 1)..(Len(stream) + 1)
    BY <1>1, <1>3
  <2>2. Window(stream, p) \in Seq(Byte)
    BY <1>1, <1>3, WindowFacts
  <2>3. \A h: Body(stream, h, p) = IF DecodeError(Window(stream, p)) = "kNone"
                                   THEN <<Window(stream, p)>> \o h[p + FrameSize] ELSE h[p + 1]
    BY <1>3 DEF Body
  <2>4. g[p + FrameSize] \in Frames /\ g[p + 1] \in Frames
    BY <2>1
  <2> DEFINE w == Window(stream, p)
             t == g[p + FrameSize]
  <2>5. <<w>> \o t \in Frames
    <3>1. w \in Seq(Byte) /\ t \in Frames
      BY <2>2, <2>4
    <3> HIDE DEF w, t
    <3> QED BY <3>1 DEF Frames
  <2> QED BY <2>1, <2>3, <2>4, <2>5
<1> QED BY <1>2, <1>3

\* By the least number for which there were no solution on the last positions.
LEMMA ScanExists ==
  ASSUME NEW stream \in Seq(Byte)
  PROVE  \E g \in [1..(Len(stream) + 1) -> Frames]:
           \A p \in 1..(Len(stream) + 1): g[p] = Body(stream, g, p)
<1> DEFINE L == Len(stream)
           Solves(g, a) == \A p \in a..(L + 1): g[p] = Body(stream, g, p)
           Solvable(a) == \E g \in [a..(L + 1) -> Frames]: Solves(g, a)
           T == {n \in 0..L: ~Solvable(L + 1 - n)}
<1>1. L \in Nat
  OBVIOUS
<1>2. FrameSize \in Nat /\ FrameSize >= 4
  BY SizeFacts
<1>3. Solvable(L + 1)
  <2> DEFINE g == [p \in (L + 1)..(L + 1) |-> <<>>]
  <2>1. <<>> \in Frames
    BY DEF Frames
  <2>2. g \in [(L + 1)..(L + 1) -> Frames]
    BY <2>1
  <2>3. \A p \in (L + 1)..(L + 1): g[p] = <<>> /\ p + FrameSize - 1 > L
    BY <1>1, <1>2
  <2> HIDE DEF g
  <2>4. Solves(g, L + 1)
    BY <2>3 DEF Body
  <2> QED BY <2>2, <2>4
<1>4. ASSUME NEW a \in 1..L, Solvable(a + 1)
      PROVE  Solvable(a)
  <2>1. PICK g \in [(a + 1)..(L + 1) -> Frames]: Solves(g, a + 1)
    BY <1>4
  <2>2. a \in Nat /\ a >= 1 /\ a <= L
    BY <1>1
  <2>3. \A q \in (a + 1)..(L + 1): g[q] \in Frames
    BY <2>1
  <2>4. a \in 1..(L + 1)
    BY <1>1, <2>2
  <2>5. Body(stream, g, a) \in Frames
    BY <2>3, <2>4, BodyFacts
  <2> DEFINE h == [p \in a..(L + 1) |-> IF p = a THEN Body(stream, g, a) ELSE g[p]]
  <2>6. /\ h[a] = Body(stream, g, a)
        /\ \A q \in (a + 1)..(L + 1): h[q] = g[q]
    <3>1. a \in a..(L + 1) /\ \A q \in (a + 1)..(L + 1): q \in a..(L + 1) /\ q # a
      BY <1>1, <2>2
    <3> QED BY <3>1
  <2>7. h \in [a..(L + 1) -> Frames]
    <3>1. \A p \in a..(L + 1): p = a \/ p \in (a + 1)..(L + 1)
      BY <1>1, <2>2
    <3> QED BY <2>3, <2>5, <3>1
  <2> HIDE DEF h
  <2>8. Solves(h, a)
    <3> SUFFICES ASSUME NEW p \in a..(L + 1) PROVE h[p] = Body(stream, h, p)
      OBVIOUS
    <3>1. p \in 1..(L + 1) /\ \A q \in (p + 1)..(L + 1): q \in (a + 1)..(L + 1)
      BY <1>1, <2>2
    <3>2. /\ \A q \in (p + 1)..(L + 1): g[q] \in Frames
          /\ \A q \in (p + 1)..(L + 1): h[q] = g[q]
      BY <2>3, <2>6, <3>1
    <3>3. Body(stream, h, p) = Body(stream, g, p)
      BY <3>1, <3>2, BodyFacts
    <3>4. CASE p = a
      BY <2>6, <3>3, <3>4
    <3>5. CASE p # a
      <4>1. p \in (a + 1)..(L + 1)
        BY <1>1, <2>2, <3>5
      <4> QED BY <2>1, <2>6, <3>3, <4>1
    <3> QED BY <3>4, <3>5
  <2> QED BY <2>7, <2>8
<1> HIDE DEF Solvable
<1>5. T = {}
  <2> SUFFICES ASSUME T # {} PROVE FALSE
    OBVIOUS
  <2>1. T \subseteq Nat
    BY <1>1
  <2>2. PICK n \in T: \A m \in T: n <= m
    BY <2>1, LeastNatural
  <2>3. n \in 0..L /\ n \in Nat /\ ~Solvable(L + 1 - n)
    BY <1>1
  <2>4. n # 0
    <3>1. n = 0 => L + 1 - n = L + 1
      BY <1>1
    <3> QED BY <1>3, <2>3, <3>1
  <2>5. n - 1 \in 0..L /\ n - 1 \notin T
    BY <1>1, <2>2, <2>3, <2>4
  <2>6. Solvable(L + 1 - (n - 1))
    BY <2>5
  <2>7. L + 1 - n \in 1..L /\ L + 1 - (n - 1) = (L + 1 - n) + 1
    BY <1>1, <2>3, <2>4
  <2> QED BY <1>4, <2>3, <2>6, <2>7
<1>6. Solvable(1)
  <2>1. L \in 0..L /\ L + 1 - L = 1
    BY <1>1
  <2> QED BY <1>5, <2>1
<1> QED BY <1>6 DEF Solvable

\* The values of the reference are sequences of frames and satisfy its equation.
LEMMA ScanFacts ==
  ASSUME NEW stream \in Seq(Byte)
  PROVE  \A p \in 1..(Len(stream) + 1):
           Scan(stream)[p] = Body(stream, Scan(stream), p) /\ Scan(stream)[p] \in Frames
<1> DEFINE L == Len(stream)
           s == Scan(stream)
           Is(g) == g = [p \in 1..(L + 1) |-> Body(stream, g, p)]
<1>1. \E g: Is(g)
  <2>1. PICK g \in [1..(L + 1) -> Frames]: \A p \in 1..(L + 1): g[p] = Body(stream, g, p)
    BY ScanExists
  <2>2. g = [p \in 1..(L + 1) |-> g[p]]
    OBVIOUS
  <2>3. Is(g)
    BY <2>1, <2>2
  <2> QED BY <2>3
<1>2. Is(s)
  BY <1>1 DEF Scan
<1> HIDE DEF s
<1>3. \A p \in 1..(L + 1): s[p] = Body(stream, s, p)
  BY <1>2
<1>4. L \in Nat /\ FrameSize \in Nat /\ FrameSize >= 4
  BY SizeFacts
<1> DEFINE T == {n \in 0..L: s[L + 1 - n] \notin Frames}
<1>5. T = {}
  <2> SUFFICES ASSUME T # {} PROVE FALSE
    OBVIOUS
  <2>1. T \subseteq Nat
    BY <1>4
  <2>2. PICK n \in T: \A m \in T: n <= m
    BY <2>1, LeastNatural
  <2> DEFINE p == L + 1 - n
  <2>3. n \in 0..L /\ n \in Nat /\ s[p] \notin Frames
    BY <1>4
  <2>4. p \in 1..(L + 1)
    BY <1>4, <2>3
  <2>5. ASSUME NEW q \in (p + 1)..(L + 1)
        PROVE  s[q] \in Frames
    <3>1. L + 1 - q \in 0..L /\ L + 1 - (L + 1 - q) = q /\ ~(n <= L + 1 - q)
      BY <1>4, <2>3
    <3>2. L + 1 - q \notin T
      BY <2>2, <3>1
    <3> QED BY <3>1, <3>2
  <2>6. Body(stream, s, p) \in Frames
    BY <2>4, <2>5, BodyFacts
  <2> QED BY <1>3, <2>3, <2>4, <2>6
<1>6. ASSUME NEW p \in 1..(L + 1)
      PROVE  s[p] \in Frames
  <2>1. L + 1 - p \in 0..L /\ L + 1 - (L + 1 - p) = p
    BY <1>4
  <2> QED BY <1>5, <2>1
<1> QED BY <1>3, <1>6 DEF s

\* Positions at which no valid frame begins do not count.
LEMMA ScanSkips ==
  ASSUME NEW stream \in Seq(Byte), NEW p \in 1..(Len(stream) + 1),
         NEW r \in p..(Len(stream) + 1),
         \A i \in p..(r - 1): \/ i + FrameSize - 1 > Len(stream)
                              \/ DecodeError(Window(stream, i)) # "kNone"
  PROVE  Scan(stream)[r] = Scan(stream)[p]
<1> DEFINE L == Len(stream)
           s == Scan(stream)
<1>1. /\ L \in Nat /\ FrameSize \in Nat /\ FrameSize >= 4 /\ p \in Nat /\ r \in Nat
      /\ p >= 1 /\ p <= r /\ r <= L + 1
  BY SizeFacts
<1>2. \A i \in 1..(L + 1): s[i] = Body(stream, s, i)
  BY ScanFacts
<1> HIDE DEF s
<1>3. ASSUME NEW i \in p..(r - 1)
      PROVE  s[i + 1] = s[i]
  <2>1. /\ i \in Nat /\ i \in 1..(L + 1) /\ i + 1 \in 1..(L + 1)
        /\ i + FrameSize - 1 > L => i + 1 + FrameSize - 1 > L
    BY <1>1
  <2>2. CASE i + FrameSize - 1 > L
    <3>1. s[i] = <<>> /\ s[i + 1] = <<>>
      BY <1>2, <2>1, <2>2 DEF Body
    <3> QED BY <3>1
  <2>3. CASE ~(i + FrameSize - 1 > L)
    <3>1. DecodeError(Window(stream, i)) # "kNone"
      BY <1>3, <2>3
    <3> QED BY <1>2, <2>1, <2>3, <3>1 DEF Body
  <2> QED BY <2>2, <2>3
<1> DEFINE T == {k \in 0..(r - p): s[p + k] # s[p]}
<1>4. T = {}
  <2> SUFFICES ASSUME T # {} PROVE FALSE
    OBVIOUS
  <2>1. T \subseteq Nat
    BY <1>1
  <2>2. PICK k \in T: \A m \in T: k <= m
    BY <2>1, LeastNatural
  <2>3. k \in 0..(r - p) /\ k \in Nat /\ s[p + k] # s[p]
    BY <1>1
  <2>4. k # 0
    <3>1. k = 0 => p + k = p
      BY <1>1
    <3> QED BY <2>3, <3>1
  <2>5. k - 1 \in 0..(r - p) /\ k - 1 \notin T
    BY <1>1, <2>2, <2>3, <2>4
  <2>6. s[p + (k - 1)] = s[p]
    BY <2>5
  <2>7. p + (k - 1) \in p..(r - 1) /\ p + (k - 1) + 1 = p + k
    BY <1>1, <2>3, <2>4
  <2>8. s[p + (k - 1) + 1] = s[p + (k - 1)]
    BY <1>3, <2>7
  <2> QED BY <2>3, <2>6, <2>7, <2>8
<1>5. r - p \in 0..(r - p) /\ p + (r - p) = r
  BY <1>1
<1>6. s[p + (r - p)] = s[p]
  BY <1>4, <1>5
<1>7. s[r] = s[p]
  BY <1>5, <1>6
<1> QED BY <1>7 DEF s

-----------------------------------------------------------------------------
(* The frames are those of the reference *)

\* The bytes of the stream before the retained ones are decided: whatever
\* follows, the reference finds in them the frames the parser has found.
Decided == Len(past.stream) - Len(retained)
Aligned ==
  /\ Len(retained) <= Len(past.stream)
  /\ \A i \in 1..Len(retained): retained[i] = past.stream[Decided + i]
Settled ==
  \A rest \in Seq(Byte):
    Scan(past.stream \o rest)[1] = past.frames \o Scan(past.stream \o rest)[Decided + 1]
FInv == PInv /\ Aligned /\ Settled

LEMMA FollowsReference ==
  ASSUME FInv
  PROVE  FramesMatchReference
<1> DEFINE s == past.stream
<1>1. /\ s \in Seq(Byte) /\ past.frames \in Frames /\ Len(retained) \in Nat
      /\ Len(retained) < FrameSize
  BY Shape DEF FInv, Frames
<1>2. Len(s) \in Nat /\ Len(retained) <= Len(s) /\ FrameSize \in Nat
  BY <1>1, SizeFacts DEF FInv, Aligned
<1>3. <<>> \in Seq(Byte) /\ s \o <<>> = s
  BY <1>1, ConcatEmptySeq
<1>4. Scan(s)[1] = past.frames \o Scan(s)[Decided + 1]
  BY <1>3 DEF FInv, Settled
<1>5. Decided + 1 \in 1..(Len(s) + 1) /\ Decided + 1 + FrameSize - 1 > Len(s)
  BY <1>1, <1>2 DEF Decided
<1>6. Scan(s)[Decided + 1] = <<>>
  BY <1>1, <1>5, ScanFacts DEF Body
<1>7. past.frames \o <<>> = past.frames
  BY <1>1, ConcatEmptySeq DEF Frames
<1> QED BY <1>4, <1>6, <1>7, ReferenceIsScan DEF FramesMatchReference

\* The loop takes a byte: the candidate is the end of the longer stream.
LEMMA TakenFacts ==
  ASSUME FInv, input # <<>>
  PROVE  LET s == Append(past.stream, Head(input)) IN
         /\ s \in Seq(Byte) /\ Len(s) = Len(past.stream) + 1
         /\ Decided \in Nat /\ Decided + Len(Candidate) = Len(s)
         /\ Candidate \in Seq(Byte) /\ Len(Candidate) = Len(retained) + 1
         /\ Len(Candidate) \in Nat
         /\ \A i \in 1..Len(Candidate): Candidate[i] = s[Decided + i]
         /\ \A rest \in Seq(Byte):
              /\ s \o rest \in Seq(Byte) /\ Len(s \o rest) = Len(s) + Len(rest)
              /\ \A i \in 1..Len(s): (s \o rest)[i] = s[i]
              /\ Scan(s \o rest)[1] = past.frames \o Scan(s \o rest)[Decided + 1]
<1> DEFINE o == past.stream
           b == Head(input)
           s == Append(o, b)
           n == Len(retained)
<1>1. PInv /\ TypeOK
  BY DEF FInv, PInv
<1>2. /\ o \in Seq(Byte) /\ n \in Nat /\ b \in Byte
      /\ Candidate \in Seq(Byte) /\ Len(Candidate) = n + 1
      /\ Candidate[n + 1] = b /\ \A i \in 1..n: Candidate[i] = retained[i]
  BY <1>1, Shape, CandidateFacts
<1>3. Len(o) \in Nat /\ n <= Len(o) /\ \A i \in 1..n: retained[i] = o[Decided + i]
  BY <1>2 DEF FInv, Aligned
<1>4. Decided \in Nat /\ Decided + n = Len(o)
  BY <1>2, <1>3 DEF Decided
<1> HIDE DEF o, b, n
<1>5. /\ s \in Seq(Byte) /\ Len(s) = Len(o) + 1 /\ s[Len(o) + 1] = b
      /\ \A i \in 1..Len(o): s[i] = o[i]
  BY <1>2
<1>6. \A i \in 1..Len(Candidate): Candidate[i] = s[Decided + i]
  <2> SUFFICES ASSUME NEW i \in 1..(n + 1) PROVE Candidate[i] = s[Decided + i]
    BY <1>2
  <2>1. CASE i = n + 1
    <3>1. Decided + i = Len(o) + 1
      BY <1>2, <1>4, <2>1
    <3> QED BY <1>2, <1>5, <2>1, <3>1
  <2>2. CASE i # n + 1
    <3>1. i \in 1..n /\ Decided + i \in 1..Len(o)
      BY <1>2, <1>4, <2>2
    <3> QED BY <1>2, <1>3, <1>5, <3>1
  <2> QED BY <2>1, <2>2
<1>7. s = o \o <<b>>
  BY <1>2
<1>8. ASSUME NEW rest \in Seq(Byte)
      PROVE  /\ s \o rest \in Seq(Byte) /\ Len(s \o rest) = Len(s) + Len(rest)
             /\ \A i \in 1..Len(s): (s \o rest)[i] = s[i]
             /\ Scan(s \o rest)[1] = past.frames \o Scan(s \o rest)[Decided + 1]
  <2>1. s \o rest = o \o (<<b>> \o rest) /\ <<b>> \o rest \in Seq(Byte)
    <3>1. <<b>> \in Seq(Byte)
      BY <1>2
    <3> QED BY <1>2, <1>7, <3>1, ConcatAssociative, ConcatProperties
  <2>2. Scan(s \o rest)[1] = past.frames \o Scan(s \o rest)[Decided + 1]
    <3>1. Scan(o \o (<<b>> \o rest))[1] =
            past.frames \o Scan(o \o (<<b>> \o rest))[Decided + 1]
      BY <2>1 DEF FInv, Settled, o
    <3> QED BY <2>1, <3>1
  <2> HIDE DEF s
  <2>3. /\ s \o rest \in Seq(Byte) /\ Len(s \o rest) = Len(s) + Len(rest)
        /\ \A i \in 1..(Len(s) + Len(rest)):
             (s \o rest)[i] = IF i <= Len(s) THEN s[i] ELSE rest[i - Len(s)]
    BY <1>5, ConcatProperties
  <2>4. \A i \in 1..Len(s): i \in 1..(Len(s) + Len(rest)) /\ i <= Len(s)
    BY <1>5
  <2> QED BY <2>2, <2>3, <2>4
<1>9. Len(Candidate) \in Nat /\ Decided + Len(Candidate) = Len(s)
  BY <1>2, <1>3, <1>4, <1>5
<1> HIDE DEF s
<1>10. /\ s \in Seq(Byte) /\ Len(s) = Len(past.stream) + 1
       /\ Decided \in Nat /\ Decided + Len(Candidate) = Len(s)
       /\ Candidate \in Seq(Byte) /\ Len(Candidate) = Len(retained) + 1
       /\ Len(Candidate) \in Nat
  BY <1>2, <1>4, <1>5, <1>9 DEF o, n
<1> QED BY <1>6, <1>8, <1>10 DEF s, o, b

\* A window that does not begin with a header holds no frame.
LEMMA NoHeaderNoFrame ==
  ASSUME NEW w, w[1] # FrameHeader
  PROVE  DecodeError(w) # "kNone"
BY DEF DecodeError

\* The first `d' bytes of the candidate begin no frame: they are decided.
LEMMA SettlesMore ==
  ASSUME FInv, input # <<>>, NEW d \in 0..Len(Candidate),
         \A i \in 2..d: Candidate[i] # FrameHeader,
         d > 0 => \/ Candidate[1] # FrameHeader
                  \/ Len(Candidate) = FrameSize /\ DecodeError(Candidate) # "kNone"
  PROVE  LET s == Append(past.stream, Head(input)) IN
         \A rest \in Seq(Byte):
           Scan(s \o rest)[1] = past.frames \o Scan(s \o rest)[Decided + d + 1]
<1> DEFINE s == Append(past.stream, Head(input))
           n == Len(Candidate)
<1> SUFFICES ASSUME NEW rest \in Seq(Byte)
             PROVE  Scan(s \o rest)[1] = past.frames \o Scan(s \o rest)[Decided + d + 1]
  OBVIOUS
<1> DEFINE x == s \o rest
<1>1. /\ s \in Seq(Byte) /\ Decided \in Nat /\ Decided + n = Len(s) /\ n \in Nat
      /\ Candidate \in Seq(Byte) /\ \A i \in 1..n: Candidate[i] = s[Decided + i]
      /\ x \in Seq(Byte) /\ Len(x) = Len(s) + Len(rest)
      /\ \A i \in 1..Len(s): x[i] = s[i]
      /\ Scan(x)[1] = past.frames \o Scan(x)[Decided + 1]
  BY TakenFacts
<1>2. /\ Len(s) \in Nat /\ Len(rest) \in Nat /\ Len(x) \in Nat
      /\ FrameSize \in Nat /\ FrameSize >= 4 /\ d \in Nat /\ d <= n
  BY <1>1, SizeFacts
<1> HIDE DEF s, x, n
<1>3. \A i \in 1..n: x[Decided + i] = Candidate[i]
  <2>1. \A i \in 1..n: Decided + i \in 1..Len(s)
    BY <1>1, <1>2
  <2> QED BY <1>1, <2>1
<1>4. ASSUME NEW j \in (Decided + 1)..(Decided + d), ~(j + FrameSize - 1 > Len(x))
      PROVE  DecodeError(Window(x, j)) # "kNone"
  <2> DEFINE i == j - Decided
             w == Window(x, j)
  <2>1. /\ i \in 1..d /\ i \in 1..n /\ j = Decided + i /\ j \in Nat /\ j >= 1
        /\ j + FrameSize - 1 <= Len(x) /\ 1 \in 1..FrameSize /\ j + 1 - 1 = j
    BY <1>1, <1>2, <1>4
  <2>2. /\ w \in Seq(Byte) /\ Len(w) = FrameSize
        /\ \A k \in 1..FrameSize: w[k] = x[j + k - 1]
    BY <1>1, <2>1, WindowFacts
  <2> HIDE DEF w, i
  <2>3. w[1] = Candidate[i]
    BY <1>3, <2>1, <2>2
  <2>4. CASE Candidate[i] # FrameHeader
    BY <2>3, <2>4, NoHeaderNoFrame DEF w
  <2>5. CASE Candidate[i] = FrameHeader
    <3>1. i = 1
      <4>1. i \notin 2..d
        BY <2>5
      <4> QED BY <1>2, <2>1, <4>1
    <3>2. n = FrameSize /\ DecodeError(Candidate) # "kNone"
      <4>1. d > 0
        BY <1>2, <2>1
      <4> QED BY <2>5, <3>1, <4>1 DEF n
    <3>3. w = Candidate
      <4>1. \A k \in 1..FrameSize: k \in 1..n /\ j + k - 1 = Decided + k
        BY <1>1, <1>2, <2>1, <3>1, <3>2
      <4>2. \A k \in 1..Len(w): w[k] = Candidate[k]
        BY <1>3, <2>2, <4>1
      <4> QED BY <1>1, <2>2, <3>2, <4>2, SeqEqual DEF n
    <3> QED BY <3>2, <3>3 DEF w
  <2> QED BY <2>4, <2>5
<1>5. Scan(x)[Decided + d + 1] = Scan(x)[Decided + 1]
  <2> DEFINE p == Decided + 1
             r == Decided + d + 1
  <2>1. p \in 1..(Len(x) + 1) /\ r \in p..(Len(x) + 1) /\ r - 1 = Decided + d
    BY <1>1, <1>2
  <2>2. \A j \in p..(r - 1): \/ j + FrameSize - 1 > Len(x)
                             \/ DecodeError(Window(x, j)) # "kNone"
    BY <1>4, <2>1
  <2> HIDE DEF p, r
  <2>3. Scan(x)[r] = Scan(x)[p]
    BY <1>1, <2>1, <2>2, ScanSkips
  <2> QED BY <2>3 DEF p, r
<1>6. Scan(x)[1] = past.frames \o Scan(x)[Decided + d + 1]
  BY <1>1, <1>5
<1> QED BY <1>6 DEF x, s

\* The parser starts afresh, with nothing of the stream before.
LEMMA FreshFollows ==
  ASSUME PInv', retained' = <<>>, past'.stream = <<>>, past'.frames = <<>>
  PROVE  FInv'
<1>1. Len(retained') = 0 /\ Len(past'.stream) = 0 /\ Decided' = 0
  BY FreshFacts DEF Decided
<1>2. Aligned'
  BY <1>1 DEF Aligned
<1>3. Settled'
  <2> SUFFICES ASSUME NEW rest \in Seq(Byte)
               PROVE  Scan(<<>> \o rest)[1] = <<>> \o Scan(<<>> \o rest)[0 + 1]
    BY <1>1 DEF Settled
  <2>1. <<>> \o rest = rest /\ 1 \in 1..(Len(rest) + 1)
    BY ConcatEmptySeq
  <2>2. Scan(rest)[1] \in Frames
    BY <2>1, ScanFacts
  <2>3. <<>> \o Scan(rest)[1] = Scan(rest)[1]
    BY <2>2, ConcatEmptySeq DEF Frames
  <2> QED BY <2>1, <2>3
<1> QED BY <1>2, <1>3 DEF FInv

LEMMA IdleFollows ==
  ASSUME FInv, PInv', retained' = retained,
         past'.stream = past.stream, past'.frames = past.frames
  PROVE  FInv'
<1>1. Decided' = Decided
  BY DEF Decided
<1> QED BY <1>1 DEF FInv, Aligned, Settled

\* Taking away less leaves more: the arithmetic of a shortened candidate.
LEMMA LessADifference ==
  \A a, b, m, k \in Nat: a + m = b => b - (m - k) = a + k
OBVIOUS

\* The loop takes a byte and decides `d' bytes of the candidate.
LEMMA TakenFollows ==
  ASSUME FInv, PInv', input # <<>>, NEW d \in 0..Len(Candidate),
         past'.stream = Append(past.stream, Head(input)),
         Len(retained') = Len(Candidate) - d,
         \A i \in 1..Len(retained'): retained'[i] = Candidate[d + i],
         \A rest \in Seq(Byte):
           Scan(past'.stream \o rest)[1] =
             past'.frames \o Scan(past'.stream \o rest)[Decided + d + 1]
  PROVE  FInv'
<1> DEFINE s == Append(past.stream, Head(input))
           n == Len(Candidate)
<1>1. /\ Decided \in Nat /\ Decided + n = Len(s) /\ n \in Nat /\ Len(s) \in Nat
      /\ \A i \in 1..n: Candidate[i] = s[Decided + i]
  BY TakenFacts
<1>2. past'.stream = s
  OBVIOUS
<1> HIDE DEF s, n
<1>3. d \in Nat /\ d <= n /\ Len(retained') = n - d
  BY <1>1 DEF n
<1>4. Decided' = Decided + d
  <2>1. Decided' = Len(past'.stream) - Len(retained')
    BY DEF Decided
  <2>2. Len(past'.stream) = Len(s)
    BY <1>2
  <2>3. Decided' = Len(s) - (n - d)
    BY <1>3, <2>1, <2>2
  <2>4. Decided \in Nat /\ Decided + n = Len(s) /\ n \in Nat /\ Len(s) \in Nat
    BY <1>1
  <2>5. Len(s) - (n - d) = Decided + d
    BY ZenonT(60), <1>3, <2>4, LessADifference
  <2> QED BY <2>3, <2>5
<1>5. Aligned'
  <2>1. Len(retained') <= Len(past'.stream)
    BY <1>1, <1>2, <1>3
  <2>2. ASSUME NEW i \in 1..Len(retained')
        PROVE  retained'[i] = past'.stream[Decided' + i]
    <3>1. d + i \in 1..n /\ Decided + (d + i) = Decided + d + i
      BY <1>1, <1>3
    <3>2. Candidate[d + i] = s[Decided + (d + i)]
      BY <1>1, <3>1
    <3> QED BY <1>2, <1>4, <2>2, <3>1, <3>2
  <2> QED BY <2>1, <2>2 DEF Aligned
<1>6. Settled'
  BY <1>4 DEF Settled
<1> QED BY <1>5, <1>6 DEF FInv

LEMMA SkipByteFollows ==
  ASSUME FInv, PInv', SkipByte
  PROVE  FInv'
<1>1. /\ input # <<>> /\ retained = <<>> /\ retained' = <<>> /\ Head(input) # FrameHeader
      /\ past' = Taken
  BY DEF SkipByte
<1>2. TypeOK /\ Len(retained) = 0
  BY <1>1, FreshFacts DEF FInv, PInv
<1>3. /\ Taken.stream = Append(past.stream, Head(input)) /\ Taken.frames = past.frames
      /\ Len(Candidate) = Len(retained) + 1 /\ Candidate[Len(retained) + 1] = Head(input)
  BY <1>1, <1>2, CandidateFacts
<1>4. Len(Candidate) = 1 /\ Candidate[1] = Head(input) /\ 1 \in 0..Len(Candidate)
  BY <1>2, <1>3
<1>5. \A rest \in Seq(Byte):
        Scan(past'.stream \o rest)[1] =
          past'.frames \o Scan(past'.stream \o rest)[Decided + 1 + 1]
  <2> DEFINE d == 1
  <2>1. d \in 0..Len(Candidate) /\ \A i \in 2..d: Candidate[i] # FrameHeader
    BY <1>4
  <2>2. Candidate[1] # FrameHeader
    BY <1>1, <1>4
  <2> HIDE DEF d
  <2>3. \A rest \in Seq(Byte):
          Scan(Append(past.stream, Head(input)) \o rest)[1] =
            past.frames \o Scan(Append(past.stream, Head(input)) \o rest)[Decided + d + 1]
    BY <1>1, <2>1, <2>2, SettlesMore DEF FInv
  <2> QED BY <1>1, <1>3, <2>3 DEF d
<1>6. /\ Len(retained') = Len(Candidate) - 1
      /\ \A i \in 1..Len(retained'): retained'[i] = Candidate[1 + i]
  BY <1>1, <1>4, FreshFacts
<1> QED BY <1>1, <1>3, <1>4, <1>5, <1>6, TakenFollows

LEMMA RetainByteFollows ==
  ASSUME FInv, PInv', RetainByte
  PROVE  FInv'
<1>1. input # <<>> /\ retained' = Candidate /\ past' = Taken
  BY DEF RetainByte
<1>2. TypeOK
  BY DEF FInv, PInv
<1>3. /\ Taken.stream = Append(past.stream, Head(input)) /\ Taken.frames = past.frames
      /\ Len(Candidate) \in Nat
  BY <1>1, <1>2, CandidateFacts
<1>4. 0 \in 0..Len(Candidate) /\ Decided \in Nat /\ Decided + 0 + 1 = Decided + 1
  BY <1>1, <1>3, TakenFacts
<1>5. \A rest \in Seq(Byte):
        Scan(past'.stream \o rest)[1] =
          past'.frames \o Scan(past'.stream \o rest)[Decided + 0 + 1]
  BY <1>1, <1>3, <1>4, TakenFacts
<1>6. /\ Len(retained') = Len(Candidate) - 0
      /\ \A i \in 1..Len(retained'): retained'[i] = Candidate[0 + i]
  BY <1>1, <1>3
<1> QED BY <1>1, <1>3, <1>4, <1>5, <1>6, TakenFollows

LEMMA RejectCandidateFollows ==
  ASSUME FInv, PInv', RejectCandidate
  PROVE  FInv'
<1> DEFINE c == Candidate
           d == DiscardCount(c)
<1>1. PICK error \in {"kInvalidHeader", "kInvalidTail", "kChecksumMismatch",
                      "kInvalidCompositeStopFlag"}:
        Completes(error) /\ retained' = SubSeq(c, d + 1, Len(c)) /\ past' = Taken
  BY DEF RejectCandidate
<1>2. PInv /\ TypeOK
  BY DEF FInv, PInv
<1>3. /\ input # <<>> /\ Len(c) = FrameSize /\ c \in Seq(Byte)
      /\ error = DecodeError(c) /\ error # "kNone"
  BY <1>1, <1>2, CompleteFacts
<1>4. Taken.stream = Append(past.stream, Head(input)) /\ Taken.frames = past.frames
  BY <1>2, <1>3, CandidateFacts
<1>5. /\ d \in Nat /\ d <= FrameSize /\ Len(retained') = FrameSize - d
      /\ \A i \in 1..Len(retained'): retained'[i] = c[d + i]
  BY <1>1, <1>3, LeftOver
<1>6. Len(c) >= 1 /\ d \in 0..Len(c)
  BY <1>3, <1>5, SizeFacts
<1>7. \A i \in 2..d: c[i] # FrameHeader
  BY <1>3, <1>6, DiscardFacts
<1> HIDE DEF d
<1>8. \A rest \in Seq(Byte):
        Scan(past'.stream \o rest)[1] =
          past'.frames \o Scan(past'.stream \o rest)[Decided + d + 1]
  BY <1>1, <1>3, <1>4, <1>6, <1>7, SettlesMore
<1> QED BY <1>1, <1>3, <1>4, <1>5, <1>6, <1>8, TakenFollows

LEMMA AcceptFrameFollows ==
  ASSUME FInv, PInv', AcceptFrame
  PROVE  FInv'
<1> DEFINE c == Candidate
           s == Append(past.stream, Head(input))
           n == Len(c)
<1>1. /\ Completes("kNone") /\ retained' = <<>>
      /\ past' = [Taken EXCEPT !.frames = Append(past.frames, c)]
  BY DEF AcceptFrame
<1>2. PInv /\ TypeOK
  BY DEF FInv, PInv
<1>3. /\ input # <<>> /\ n = FrameSize /\ c \in Seq(Byte) /\ DecodeError(c) = "kNone"
      /\ Taken \in Past
  BY <1>1, <1>2, CompleteFacts
<1>4. Taken.stream = s
  BY <1>2, <1>3, CandidateFacts
<1>5. past'.stream = s /\ past'.frames = Append(past.frames, c)
  BY <1>1, <1>3, <1>4 DEF Past
<1>6. /\ s \in Seq(Byte) /\ Decided \in Nat /\ Decided + n = Len(s)
      /\ \A i \in 1..n: c[i] = s[Decided + i]
  BY <1>3, TakenFacts
<1>7. past.frames \in Frames /\ FrameSize \in Nat /\ FrameSize >= 4 /\ Len(s) \in Nat
  BY <1>2, <1>6, Shape, SizeFacts DEF Frames
<1>8. ASSUME NEW rest \in Seq(Byte)
      PROVE  Scan(s \o rest)[1] =
               Append(past.frames, c) \o Scan(s \o rest)[Decided + n + 1]
  <2> DEFINE x == s \o rest
             p == Decided + 1
             w == Window(x, p)
  <2>1. /\ x \in Seq(Byte) /\ Len(x) = Len(s) + Len(rest)
        /\ \A i \in 1..Len(s): x[i] = s[i]
        /\ Scan(x)[1] = past.frames \o Scan(x)[p]
    BY <1>3, TakenFacts
  <2>2. Len(rest) \in Nat /\ Len(x) \in Nat
    BY <2>1
  <2> HIDE DEF x, c, s, n
  <2>3. /\ p \in Nat /\ p >= 1 /\ p + FrameSize - 1 <= Len(x) /\ p \in 1..(Len(x) + 1)
        /\ p + FrameSize = Decided + n + 1 /\ p + FrameSize \in 1..(Len(x) + 1)
        /\ ~(p + FrameSize - 1 > Len(x))
    BY <1>3, <1>6, <1>7, <2>1, <2>2
  <2> HIDE DEF p
  <2>4. /\ w \in Seq(Byte) /\ Len(w) = FrameSize
        /\ \A k \in 1..FrameSize: w[k] = x[p + k - 1]
    BY <2>1, <2>3, WindowFacts
  <2> HIDE DEF w
  <2>5. w = c
    <3>1. \A k \in 1..FrameSize: k \in 1..n /\ p + k - 1 = Decided + k /\ Decided + k \in 1..Len(s)
      BY <1>3, <1>6, <1>7 DEF p
    <3>2. \A k \in 1..Len(w): w[k] = c[k]
      BY <1>6, <2>1, <2>4, <3>1
    <3>3. Len(w) = Len(c)
      BY <1>3, <2>4 DEF n
    <3> QED BY <1>3, <2>4, <3>2, <3>3, SeqEqual
  <2>6. Scan(x)[p] = <<c>> \o Scan(x)[p + FrameSize] /\ Scan(x)[p + FrameSize] \in Frames
    <3>1. /\ Scan(x)[p] = Body(x, Scan(x), p) /\ Scan(x)[p + FrameSize] \in Frames
      BY <2>1, <2>3, ScanFacts
    <3>2. DecodeError(Window(x, p)) = "kNone" /\ Window(x, p) = c
      BY <1>3, <2>5 DEF w
    <3> QED BY <2>3, <3>1, <3>2 DEF Body
  <2> DEFINE t == Scan(x)[p + FrameSize]
             f == past.frames
  <2>7. t \in Frames /\ f \in Frames /\ Scan(x)[1] = f \o (<<c>> \o t)
    BY <1>7, <2>1, <2>6
  <2> HIDE DEF t, f
  <2>8. <<c>> \in Frames /\ Append(f, c) = f \o <<c>>
    BY <1>3, <2>7 DEF Frames
  <2>9. (f \o <<c>>) \o t = f \o (<<c>> \o t)
    BY SMTT(30), <2>7, <2>8, ConcatAssociative DEF Frames
  <2>10. Scan(x)[1] = Append(f, c) \o t
    BY <2>7, <2>8, <2>9
  <2> QED BY <2>3, <2>10 DEF x, f, t
<1>9. /\ Len(retained') = n - n /\ n \in 0..n
      /\ \A i \in 1..Len(retained'): retained'[i] = c[n + i]
  BY <1>1, <1>3, FreshFacts, SizeFacts
<1>10. \A rest \in Seq(Byte):
         Scan(past'.stream \o rest)[1] =
           past'.frames \o Scan(past'.stream \o rest)[Decided + n + 1]
  BY <1>5, <1>8
<1> QED BY <1>3, <1>5, <1>9, <1>10, TakenFollows

LEMMA NextFollows ==
  ASSUME FInv, Next
  PROVE  FInv'
<1>1. PInv'
  BY NextAccounted DEF FInv
<1>2. CASE \E n \in 1..MaxChunk: \E chunk \in [1..n -> Byte]: Consume(chunk)
  BY <1>1, <1>2, IdleFollows DEF Consume
<1>3. CASE \E size \in 1..MaxChunk: ConsumeNull(size)
  <2>1. PICK size \in 1..MaxChunk:
          retained' = retained /\ past' = [past EXCEPT !.consumed = past.consumed + size]
    BY <1>3 DEF ConsumeNull
  <2>2. past \in Past
    BY Shape DEF FInv
  <2>3. past'.stream = past.stream /\ past'.frames = past.frames
    BY <2>1, <2>2 DEF Past
  <2> QED BY <1>1, <2>1, <2>3, IdleFollows
<1>4. CASE AcceptThrows
  <2>1. /\ retained' = <<>>
        /\ past' = [NoPast EXCEPT !.consumed = past.consumed + 1, !.lost = past.lost + FrameSize]
    BY <1>4 DEF AcceptThrows
  <2>2. past'.stream = <<>> /\ past'.frames = <<>>
    BY <2>1 DEF NoPast
  <2> QED BY <1>1, <2>1, <2>2, FreshFollows
<1>5. CASE Reset
  BY <1>1, <1>5, FreshFacts, FreshFollows DEF Reset
<1>6. /\ SkipByte => FInv'
      /\ RetainByte => FInv'
      /\ AcceptFrame => FInv'
      /\ RejectCandidate => FInv'
  BY <1>1, SkipByteFollows, RetainByteFollows, AcceptFrameFollows, RejectCandidateFollows
<1> QED BY <1>2, <1>3, <1>4, <1>5, <1>6 DEF Next

LEMMA InitFollows ==
  ASSUME Init
  PROVE  FInv
<1>1. retained = <<>> /\ past.stream = <<>> /\ past.frames = <<>>
  BY FreshFacts DEF Init
<1>2. Len(retained) = 0 /\ Len(past.stream) = 0 /\ Decided = 0
  BY <1>1, FreshFacts DEF Decided
<1>3. Aligned
  BY <1>1, <1>2 DEF Aligned
<1>4. Settled
  <2> SUFFICES ASSUME NEW rest \in Seq(Byte)
               PROVE  Scan(<<>> \o rest)[1] = <<>> \o Scan(<<>> \o rest)[0 + 1]
    BY <1>1, <1>2 DEF Settled
  <2>1. <<>> \o rest = rest /\ 1 \in 1..(Len(rest) + 1)
    BY ConcatEmptySeq
  <2>2. Scan(rest)[1] \in Frames
    BY <2>1, ScanFacts
  <2>3. <<>> \o Scan(rest)[1] = Scan(rest)[1]
    BY <2>2, ConcatEmptySeq DEF Frames
  <2> QED BY <2>1, <2>3
<1> QED BY <1>3, <1>4, InitAccounted DEF FInv

LEMMA StutterFollows ==
  ASSUME FInv, UNCHANGED vars
  PROVE  FInv'
<1>1. retained' = retained /\ statistics' = statistics /\ input' = input /\ past' = past
  BY DEF vars
<1>2. PInv'
  BY <1>1 DEF FInv, PInv, TypeOK, RetainedIsCandidate, BytesAreAccounted
<1> QED BY <1>1, <1>2, IdleFollows

-----------------------------------------------------------------------------
(* The theorems *)

\* Every reachable state of consume() and reset() satisfies the invariant.
THEOREM ParserInvariant == Spec => []FInv
<1>1. Init => FInv
  BY InitFollows
<1>2. FInv /\ [Next]_vars => FInv'
  BY NextFollows, StutterFollows
<1> QED BY <1>1, <1>2, PTL DEF Spec

\* Whatever the chunks, the noise and the broken candidates, consume() returns
\* exactly the frames of the reference.
THEOREM FramesAreTheReference == Spec => []FramesMatchReference
<1>1. FInv => FramesMatchReference
  BY FollowsReference
<1> QED BY <1>1, ParserInvariant, PTL

\* The statistics of the parser count every byte it consumed once.
THEOREM BytesAccounted == Spec => []BytesAreAccounted
<1>1. FInv => BytesAreAccounted
  BY DEF FInv, PInv
<1> QED BY <1>1, ParserInvariant, PTL

\* retained_ never holds a whole frame between two bytes, and begins with a
\* header, after the exception of push_back as well.
THEOREM RetainedCandidate == Spec => []RetainedIsCandidate
<1>1. FInv => RetainedIsCandidate
  BY DEF FInv, PInv
<1> QED BY <1>1, ParserInvariant, PTL

=============================================================================
