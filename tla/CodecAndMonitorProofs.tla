----------------------- MODULE CodecAndMonitorProofs -----------------------
(***************************************************************************)
(* The frame codec, for every motion, limit, report and damaged byte, and  *)
(* the receive-only monitor that reads frames with it, for every count,    *)
(* timeout and delay.                                                      *)
(*                                                                         *)
(* The checksum is a recursive function.  As with every recursive function *)
(* the provers only see that it is chosen, so its equation is proved       *)
(* first, by the least position at which it would fail.                    *)
(***************************************************************************)
EXTENDS Protocol, Monitor, SequenceTheorems, WellFoundedInduction, TLAPS

-----------------------------------------------------------------------------
(* The checksum *)

\* A set of natural numbers has a least element.
LEMMA LeastNumber ==
  ASSUME NEW T, T \subseteq Nat, T # {}
  PROVE  \E x \in T: \A y \in T: x <= y
<1> DEFINE R == OpToRel(<, Nat)
<1>1. IsWellFoundedOn(R, Nat)
  BY NatLessThanWellFounded
<1>2. R = {r \in Nat \X Nat: r[1] < r[2]}
  BY DEF OpToRel
<1>3. \A x, y \in Nat: x < y => <<x, y>> \in R
  BY <1>2
<1> HIDE DEF R
<1>4. PICK x \in T: \A y \in T: ~(<<y, x>> \in R)
  BY <1>1, WFMin
<1>5. \A y \in T: ~(y < x)
  BY <1>3, <1>4
<1> QED BY <1>5

\* xorRange over a longer and longer range: the value before byte i + 1.
Link(data, g, i) == IF i = 0 THEN 0 ELSE ByteXor(g[i - 1], data[i])
Chained(data, g, n) == g = [i \in 0..n |-> Link(data, g, i)]
Chain(data, n) == CHOOSE g: Chained(data, g, n)

LEMMA XorIsChain ==
  ASSUME NEW data, NEW n
  PROVE  XorRange(data, n) = Chain(data, n)[n]
BY DEF XorRange, Chain, Chained, Link

LEMMA ChainExists ==
  ASSUME NEW data, NEW n \in Nat
  PROVE  \E g: Chained(data, g, n)
<1> DEFINE T == {m \in Nat: ~\E g: Chained(data, g, m)}
<1> SUFFICES ASSUME T # {} PROVE FALSE
  OBVIOUS
<1>1. PICK m \in T: \A k \in T: m <= k
  BY LeastNumber
<1>2. m \in Nat /\ ~\E g: Chained(data, g, m)
  OBVIOUS
<1>3. CASE m = 0
  <2> DEFINE g == [i \in 0..0 |-> 0]
  <2>1. g = [i \in 0..0 |-> Link(data, g, i)]
    BY DEF Link
  <2> QED BY <1>2, <1>3, <2>1 DEF Chained
<1>4. CASE m # 0
  <2> DEFINE k == m - 1
  <2>1. k \in Nat /\ m = k + 1 /\ k \notin T
    BY <1>1, <1>2, <1>4
  <2> HIDE DEF k
  <2>2. PICK g: g = [i \in 0..k |-> Link(data, g, i)]
    BY <2>1 DEF Chained
  <2> DEFINE h == [i \in 0..m |-> IF i = m THEN ByteXor(g[k], data[m]) ELSE g[i]]
  <2>3. ASSUME NEW i \in 0..m PROVE h[i] = Link(data, h, i)
    <3>1. CASE i = m
      <4>1. i # 0 /\ i - 1 = k /\ k \in 0..m /\ k # m
        BY <2>1, <3>1
      <4> QED BY <3>1, <4>1 DEF Link
    <3>2. CASE i # m
      <4>1. i \in 0..k /\ h[i] = g[i]
        BY <2>1, <3>2
      <4>2. g[i] = Link(data, g, i)
        BY <2>2, <4>1
      <4>3. i # 0 => i - 1 \in 0..m /\ i - 1 # m
        BY <2>1, <4>1
      <4> QED BY <4>1, <4>2, <4>3 DEF Link
    <3> QED BY <3>1, <3>2
  <2>4. h = [i \in 0..m |-> Link(data, h, i)]
    BY <2>3
  <2> QED BY <1>2, <2>4 DEF Chained
<1> QED BY <1>3, <1>4

LEMMA ChainFacts ==
  ASSUME NEW data, NEW n \in Nat
  PROVE  /\ Chain(data, n)[0] = 0
         /\ \A i \in 1..n: Chain(data, n)[i] = ByteXor(Chain(data, n)[i - 1], data[i])
<1> DEFINE c == Chain(data, n)
<1>1. c = [i \in 0..n |-> Link(data, c, i)]
  BY ChainExists DEF Chain, Chained
<1> HIDE DEF c
<1>2. \A i \in 0..n: c[i] = Link(data, c, i)
  BY <1>1
<1>3. 0 \in 0..n /\ \A i \in 1..n: i \in 0..n /\ i # 0
  OBVIOUS
<1>4. c[0] = 0 /\ \A i \in 1..n: c[i] = ByteXor(c[i - 1], data[i])
  BY <1>2, <1>3 DEF Link
<1> QED BY <1>4 DEF c

\* The laws of exclusive or that the checksum rests on.
LEMMA XorCancels ==
  ASSUME NEW a \in Byte, NEW b \in Byte, NEW x \in Byte
  PROVE  /\ ByteXor(a, x) = ByteXor(b, x) => a = b
         /\ ByteXor(x, a) = ByteXor(x, b) => a = b
BY XorAssumption

LEMMA ChainIsBytes ==
  ASSUME NEW data, NEW n \in Nat, \A i \in 1..n: data[i] \in Byte
  PROVE  \A i \in 0..n: Chain(data, n)[i] \in Byte
<1> DEFINE c == Chain(data, n)
           T == {i \in 0..n: c[i] \notin Byte}
<1>1. c[0] = 0 /\ \A i \in 1..n: c[i] = ByteXor(c[i - 1], data[i])
  BY ChainFacts
<1> HIDE DEF c
<1> SUFFICES ASSUME T # {} PROVE FALSE
  BY DEF c
<1>2. PICK m \in T: \A k \in T: m <= k
  <2>1. T \subseteq Nat
    OBVIOUS
  <2> HIDE DEF T
  <2> QED BY <2>1, LeastNumber
<1>3. m \in 0..n /\ c[m] \notin Byte
  OBVIOUS
<1>4. m # 0
  BY <1>1, <1>3 DEF Byte
<1>5. m \in 1..n /\ m - 1 \in 0..n /\ ~(m <= m - 1)
  BY <1>3, <1>4
<1>6. c[m - 1] \in Byte
  BY <1>2, <1>5
<1> QED BY <1>1, <1>3, <1>5, <1>6, XorAssumption

\* The checksum depends on the bytes it is over, and on no others.
LEMMA XorAgrees ==
  ASSUME NEW a, NEW b, NEW n \in Nat, \A i \in 1..n: a[i] = b[i]
  PROVE  XorRange(a, n) = XorRange(b, n)
<1> DEFINE c == Chain(a, n)
           d == Chain(b, n)
           T == {i \in 0..n: c[i] # d[i]}
<1>1. c[0] = 0 /\ \A i \in 1..n: c[i] = ByteXor(c[i - 1], a[i])
  BY ChainFacts
<1>2. d[0] = 0 /\ \A i \in 1..n: d[i] = ByteXor(d[i - 1], b[i])
  BY ChainFacts
<1> HIDE DEF c, d
<1>3. T = {}
  <2> SUFFICES ASSUME T # {} PROVE FALSE
    OBVIOUS
  <2>1. PICK m \in T: \A k \in T: m <= k
    <3>1. T \subseteq Nat
      OBVIOUS
    <3> HIDE DEF T
    <3> QED BY <3>1, LeastNumber
  <2>2. m \in 0..n /\ c[m] # d[m] /\ m # 0
    BY <1>1, <1>2
  <2>3. m \in 1..n /\ m - 1 \in 0..n /\ ~(m <= m - 1)
    BY <2>2
  <2>4. c[m - 1] = d[m - 1]
    BY <2>1, <2>3
  <2> QED BY <1>1, <1>2, <2>2, <2>3, <2>4
<1>4. c[n] = d[n]
  BY <1>3
<1> QED BY <1>4, XorIsChain DEF c, d

\* A single byte that differs shows in the checksum, wherever it is.
LEMMA XorNotices ==
  ASSUME NEW a, NEW b, NEW n \in Nat, NEW p \in 1..n,
         \A i \in 1..n: a[i] \in Byte /\ b[i] \in Byte,
         \A i \in 1..n: i # p => a[i] = b[i],
         a[p] # b[p]
  PROVE  XorRange(a, n) # XorRange(b, n)
<1> DEFINE c == Chain(a, n)
           d == Chain(b, n)
           T == {i \in 0..n: ~(IF i < p THEN c[i] = d[i] ELSE c[i] # d[i])}
<1>1. c[0] = 0 /\ \A i \in 1..n: c[i] = ByteXor(c[i - 1], a[i])
  BY ChainFacts
<1>2. d[0] = 0 /\ \A i \in 1..n: d[i] = ByteXor(d[i - 1], b[i])
  BY ChainFacts
<1>3. \A i \in 0..n: c[i] \in Byte /\ d[i] \in Byte
  BY ChainIsBytes
<1> HIDE DEF c, d
<1>4. T = {}
  <2> SUFFICES ASSUME T # {} PROVE FALSE
    OBVIOUS
  <2>1. PICK m \in T: \A k \in T: m <= k
    <3>1. T \subseteq Nat
      OBVIOUS
    <3> HIDE DEF T
    <3> QED BY <3>1, LeastNumber
  <2>2. m \in 0..n /\ ~(IF m < p THEN c[m] = d[m] ELSE c[m] # d[m])
    OBVIOUS
  <2>3. m # 0
    BY <1>1, <1>2, <2>2
  <2>4. m \in 1..n /\ m - 1 \in 0..n /\ ~(m <= m - 1)
    BY <2>2, <2>3
  <2>5. IF m - 1 < p THEN c[m - 1] = d[m - 1] ELSE c[m - 1] # d[m - 1]
    BY <2>1, <2>4
  <2>6. c[m] = ByteXor(c[m - 1], a[m]) /\ d[m] = ByteXor(d[m - 1], b[m])
    BY <1>1, <1>2, <2>4
  <2>7. /\ c[m - 1] \in Byte /\ d[m - 1] \in Byte /\ a[m] \in Byte /\ b[m] \in Byte
    BY <1>3, <2>4
  <2>8. CASE m < p
    <3>1. c[m - 1] = d[m - 1] /\ a[m] = b[m]
      BY <2>4, <2>5, <2>8
    <3> QED BY <2>2, <2>6, <2>8, <3>1
  <2>9. CASE m = p
    <3>1. c[m - 1] = d[m - 1] /\ a[m] # b[m]
      BY <2>4, <2>5, <2>9
    <3>2. c[m] = d[m]
      BY <2>2, <2>9
    <3> QED BY <2>6, <2>7, <3>1, <3>2, XorCancels
  <2>10. CASE m > p
    <3>1. c[m - 1] # d[m - 1] /\ a[m] = b[m]
      BY <2>4, <2>5, <2>10
    <3>2. c[m] = d[m]
      BY <2>2, <2>10
    <3> QED BY <2>6, <2>7, <3>1, <3>2, XorCancels
  <2> QED BY <2>4, <2>8, <2>9, <2>10
<1>5. n \in 0..n /\ ~(n < p)
  OBVIOUS
<1>6. c[n] # d[n]
  BY <1>4, <1>5
<1> QED BY <1>6, XorIsChain DEF c, d

-----------------------------------------------------------------------------
(* Two bytes, and where they stand in a frame *)

\* storeSignedBigEndian and the two loads are inverse, at the width they have.
LEMMA StoredPair ==
  ASSUME NEW v \in Int
  PROVE  /\ StoreSignedBigEndian(v) \in Seq(Byte) /\ Len(StoreSignedBigEndian(v)) = 2
         /\ LoadUnsignedBigEndian(StoreSignedBigEndian(v)[1], StoreSignedBigEndian(v)[2])
              = v % 65536
<1> DEFINE bits == v % 65536
<1>1. bits \in Int /\ 0 <= bits /\ bits < 65536
  OBVIOUS
<1> HIDE DEF bits
<1>2. /\ bits \div 256 \in Byte /\ bits % 256 \in Byte
      /\ (bits \div 256) * 256 + (bits % 256) = bits
  <2>1. /\ bits \div 256 \in Int /\ 0 <= bits \div 256 /\ bits \div 256 <= 255
        /\ bits % 256 \in Int /\ 0 <= bits % 256 /\ bits % 256 <= 255
        /\ (bits \div 256) * 256 + (bits % 256) = bits
    BY <1>1
  <2>2. \A b \in Int: 0 <= b /\ b <= 255 => b \in Byte
    BY DEF Byte
  <2> QED BY <2>1, <2>2
<1> DEFINE h == bits \div 256
           l == bits % 256
<1>3. StoreSignedBigEndian(v) = <<h, l>>
  BY DEF StoreSignedBigEndian, bits
<1> HIDE DEF h, l
<1>4. h \in Byte /\ l \in Byte /\ h * 256 + l = v % 65536
  BY <1>2 DEF h, l, bits
<1> QED BY <1>3, <1>4 DEF LoadUnsignedBigEndian

LEMMA Remainders ==
  /\ \A v \in Int: v >= 0 /\ v <= 65535 => v % 65536 = v
  /\ \A v \in Int: v >= -32768 /\ v <= 32767 =>
       v = IF v % 65536 >= 32768 THEN (v % 65536) - 65536 ELSE v % 65536
<1>1. ASSUME NEW v \in Int, v >= 0, v <= 65535 PROVE v % 65536 = v
  BY <1>1
<1>2. ASSUME NEW v \in Int, v >= -32768, v <= 32767
      PROVE  v = IF v % 65536 >= 32768 THEN (v % 65536) - 65536 ELSE v % 65536
  BY <1>2
<1> QED BY <1>1, <1>2

\* The integers of two bytes.
LEMMA Widths ==
  /\ \A v \in Int16: v \in Int /\ v >= -32768 /\ v <= 32767
  /\ \A v \in UInt16: v \in Int /\ v >= 0 /\ v <= 65535
<1>1. Int16Min \in Int /\ Int16Max \in Int /\ UInt16Max \in Int
  BY DEF Int16Min, Int16Max, UInt16Max
<1>2. /\ \A v \in Int16: v \in Int /\ v >= Int16Min /\ v <= Int16Max
      /\ \A v \in UInt16: v \in Int /\ v >= 0 /\ v <= UInt16Max
  BY <1>1 DEF Int16, UInt16
<1> QED BY <1>2 DEF Int16Min, Int16Max, UInt16Max

LEMMA SignedRoundTrip ==
  ASSUME NEW v \in Int16
  PROVE  LoadSignedBigEndian(StoreSignedBigEndian(v)[1], StoreSignedBigEndian(v)[2]) = v
<1>1. v \in Int /\ v >= -32768 /\ v <= 32767
  BY Widths
<1> DEFINE bits == v % 65536
           h == StoreSignedBigEndian(v)[1]
           l == StoreSignedBigEndian(v)[2]
<1>2. v = IF bits >= 32768 THEN bits - 65536 ELSE bits
  BY <1>1, Remainders
<1>3. LoadUnsignedBigEndian(h, l) = bits
  BY <1>1, StoredPair
<1> HIDE DEF bits, h, l
<1>4. LoadSignedBigEndian(h, l) = v
  BY <1>2, <1>3 DEF LoadSignedBigEndian
<1> QED BY <1>4 DEF h, l

LEMMA UnsignedRoundTrip ==
  ASSUME NEW v \in UInt16
  PROVE  LoadUnsignedBigEndian(StoreSignedBigEndian(v)[1], StoreSignedBigEndian(v)[2]) = v
<1>1. v \in Int /\ v >= 0 /\ v <= 65535
  BY Widths
<1> DEFINE bits == v % 65536
           loaded == LoadUnsignedBigEndian(StoreSignedBigEndian(v)[1], StoreSignedBigEndian(v)[2])
<1>2. bits = v
  BY <1>1, Remainders
<1>3. loaded = bits
  BY <1>1, StoredPair
<1> HIDE DEF bits, loaded
<1>4. loaded = v
  BY <1>2, <1>3
<1> QED BY <1>4 DEF loaded

\* u begins with the bytes of s.
Begins(u, s) == Len(s) <= Len(u) /\ \A i \in 1..Len(s): u[i] = s[i]
\* The pair w stands in u at position p.
Stands(u, p, w) == u[p] = w[1] /\ u[p + 1] = w[2]

\* s is a sequence of n bytes.
Word(s, n) == s \in Seq(Byte) /\ Len(s) = n
\* t is s with w behind it.
Joined(t, s, w) == t = s \o w
\* u is the body s of n bytes with its checksum and the tail behind it.
Sealed(u, s, n) == u = s \o <<XorRange(s, n), kFrameTail>>

LEMMA PairAppended ==
  ASSUME NEW n \in Nat, NEW s, NEW w, NEW t, NEW m, m = n + 2,
         Word(s, n), Word(w, 2), Joined(t, s, w)
  PROVE  Word(t, m)
<1>1. s \in Seq(Byte) /\ w \in Seq(Byte) /\ Len(s) = n /\ Len(w) = 2
  BY DEF Word
<1>2. s \o w \in Seq(Byte) /\ Len(s \o w) = Len(s) + Len(w)
  BY <1>1, ConcatProperties
<1> QED BY <1>1, <1>2 DEF Word, Joined

\* What begins with s and the pair w begins with s, and has w behind it.
LEMMA PairStands ==
  ASSUME NEW n \in Nat, NEW s, NEW w, NEW t, NEW p, p = n + 1,
         Word(s, n), Word(w, 2), Joined(t, s, w), NEW u \in Seq(Byte), Begins(u, t)
  PROVE  Begins(u, s) /\ Stands(u, p, w)
<1>1. /\ Len(t) = n + 2
      /\ \A i \in 1..(n + 2): t[i] = IF i <= n THEN s[i] ELSE w[i - n]
  <2>1. s \in Seq(Byte) /\ w \in Seq(Byte) /\ Len(s) = n /\ Len(w) = 2
    BY DEF Word
  <2>2. /\ s \o w \in Seq(Byte) /\ Len(s \o w) = Len(s) + Len(w)
        /\ \A i \in 1..Len(s) + Len(w): (s \o w)[i] = IF i <= Len(s) THEN s[i] ELSE w[i - Len(s)]
    BY <2>1, ConcatProperties
  <2> QED BY <2>1, <2>2 DEF Joined
<1>2. Len(u) \in Nat /\ n + 2 <= Len(u) /\ \A i \in 1..(n + 2): u[i] = t[i]
  BY <1>1 DEF Begins
<1>3. \A i \in 1..n: i \in 1..(n + 2) /\ i <= n
  BY <1>1
<1>4. \A i \in 1..n: u[i] = s[i]
  BY <1>1, <1>2, <1>3
<1>5. /\ n + 1 \in 1..(n + 2) /\ n + 2 \in 1..(n + 2) /\ ~(n + 1 <= n) /\ ~(n + 2 <= n)
      /\ (n + 1) - n = 1 /\ (n + 2) - n = 2 /\ (n + 1) + 1 = n + 2
  BY <1>1
<1>6. u[n + 1] = w[1] /\ u[n + 2] = w[2]
  BY <1>1, <1>2, <1>5
<1>7. n <= Len(u)
  BY <1>1, <1>2
<1> QED BY <1>4, <1>5, <1>6, <1>7 DEF Begins, Stands, Word

\* A body behind which its checksum and the tail are put.
LEMMA SealedFrame ==
  ASSUME NEW n \in Nat, NEW s, NEW u, NEW p, NEW q, p = n + 1, q = n + 2,
         Word(s, n), Sealed(u, s, n)
  PROVE  /\ Word(u, q) /\ Begins(u, s)
         /\ u[p] = XorRange(u, n) /\ u[q] = kFrameTail
<1> DEFINE x == XorRange(s, n)
           w == <<x, kFrameTail>>
<1>1. x \in Byte
  <2>1. \A i \in 1..n: s[i] \in Byte
    BY DEF Word
  <2> QED BY <2>1, ChainIsBytes, XorIsChain
<1>2. Joined(u, s, w)
  BY DEF Joined, Sealed
<1> HIDE DEF x
<1>3. Word(w, 2) /\ w[1] = x /\ w[2] = kFrameTail
  BY <1>1 DEF kFrameTail, Byte, Word
<1> HIDE DEF w
<1>4. Word(u, n + 2)
  BY <1>2, <1>3, PairAppended
<1>5. u \in Seq(Byte) /\ Begins(u, u)
  BY <1>4 DEF Begins, Word
<1>6. Begins(u, s) /\ Stands(u, n + 1, w)
  BY <1>2, <1>3, <1>5, PairStands
<1>7. u[n + 1] = x /\ u[n + 2] = kFrameTail
  <2>1. (n + 1) + 1 = n + 2
    OBVIOUS
  <2> QED BY <1>3, <1>6, <2>1 DEF Stands
<1>8. XorRange(u, n) = x
  <2>1. \A i \in 1..n: u[i] = s[i]
    BY <1>6 DEF Begins, Word
  <2> QED BY <2>1, XorAgrees DEF x
<1> QED BY <1>4, <1>6, <1>7, <1>8

\* Which bytes a command frame has, and where.
LEMMA CommandBytes ==
  ASSUME NEW c, NEW x \in Int, NEW y \in Int, NEW z \in Int,
         x = TruncValue(c.linear), y = TruncValue(c.lateral), z = TruncValue(c.yaw)
  PROVE  LET u == CommandFrame(c)
         IN /\ Word(u, 11)
            /\ u[1] = kFrameHeader /\ u[2] = 0 /\ u[3] = 0
            /\ Stands(u, 4, StoreSignedBigEndian(x))
            /\ Stands(u, 6, StoreSignedBigEndian(y))
            /\ Stands(u, 8, StoreSignedBigEndian(z))
            /\ u[10] = XorRange(u, 9) /\ u[11] = kFrameTail
<1> DEFINE X == StoreSignedBigEndian(x)
           Y == StoreSignedBigEndian(y)
           Z == StoreSignedBigEndian(z)
           s0 == <<kFrameHeader, 0, 0>>
           s1 == s0 \o X
           s2 == s1 \o Y
           s3 == s2 \o Z
           u == s3 \o <<XorRange(s3, 9), kFrameTail>>
<1>1. CommandFrame(c) = u
  BY DEF CommandFrame, CommandBody
<1>2. Word(X, 2) /\ Word(Y, 2) /\ Word(Z, 2)
  BY StoredPair DEF Word
<1>3. Word(s0, 3) /\ s0[1] = kFrameHeader /\ s0[2] = 0 /\ s0[3] = 0
  BY DEF kFrameHeader, Byte, Word
<1>4. Joined(s1, s0, X) /\ Joined(s2, s1, Y) /\ Joined(s3, s2, Z) /\ Sealed(u, s3, 9)
  BY DEF Joined, Sealed
<1> HIDE DEF s0, s1, s2, s3, u, X, Y, Z
<1>5. Word(s1, 5)
  BY <1>2, <1>3, <1>4, PairAppended
<1>6. Word(s2, 7)
  BY <1>2, <1>4, <1>5, PairAppended
<1>7. Word(s3, 9)
  BY <1>2, <1>4, <1>6, PairAppended
<1>8. /\ Word(u, 11) /\ Begins(u, s3) /\ u \in Seq(Byte)
      /\ u[10] = XorRange(u, 9) /\ u[11] = kFrameTail
  <2>1. Word(u, 11) /\ Begins(u, s3) /\ u[10] = XorRange(u, 9) /\ u[11] = kFrameTail
    BY <1>4, <1>7, SealedFrame
  <2> QED BY <2>1 DEF Word
<1>9. Begins(u, s2) /\ Stands(u, 8, Z)
  BY <1>2, <1>4, <1>6, <1>8, PairStands
<1>10. Begins(u, s1) /\ Stands(u, 6, Y)
  BY <1>2, <1>4, <1>5, <1>8, <1>9, PairStands
<1>11. Begins(u, s0) /\ Stands(u, 4, X)
  BY <1>2, <1>3, <1>4, <1>8, <1>10, PairStands
<1>12. u[1] = kFrameHeader /\ u[2] = 0 /\ u[3] = 0
  BY <1>3, <1>11 DEF Begins, Word
<1> QED BY <1>1, <1>8, <1>9, <1>10, <1>11, <1>12 DEF X, Y, Z

-----------------------------------------------------------------------------
(* encodeCommand *)

\* Truncation towards zero: no faster, of the same sign, less than a unit off.
LEMMA TruncFacts ==
  ASSUME NEW v \in Int
  PROVE  LET got == TruncValue(v) * kMotionUnitsPerWireUnit
         IN /\ TruncValue(v) \in Int
            /\ Magnitude(got) <= Magnitude(v)
            /\ Magnitude(v - got) < kMotionUnitsPerWireUnit
            /\ got # 0 => (got > 0 <=> v > 0)
BY DEF TruncValue, Magnitude, kMotionUnitsPerWireUnit

\* What encodeCommand accepts is finite, fits the wire and keeps the limit.
LEMMA AcceptedMotion ==
  ASSUME NEW c \in Motion, NEW limit \in SpeedLimit, EncodeError(c, limit) = "kNone"
  PROVE  /\ c.linear \in Int /\ c.lateral \in Int /\ c.yaw \in Int /\ limit \in Int
         /\ TruncValue(c.linear) \in Int16 /\ TruncValue(c.lateral) \in Int16
         /\ TruncValue(c.yaw) \in Int16
         /\ Magnitude(c.linear) <= limit
<1>1. /\ limit # NaN /\ c.linear # NaN /\ c.lateral # NaN /\ c.yaw # NaN
      /\ FitsWire(c.linear) /\ FitsWire(c.lateral) /\ FitsWire(c.yaw)
      /\ ~(Magnitude(c.linear) > limit)
  BY DEF EncodeError, IsValidMaxLinearSpeed
<1>2. /\ c.linear \in Int \cup {NaN} /\ c.lateral \in Int \cup {NaN}
      /\ c.yaw \in Int \cup {NaN} /\ limit \in Int \cup {NaN}
  BY CodecAssumption
<1>3. c.linear \in Int /\ c.lateral \in Int /\ c.yaw \in Int /\ limit \in Int
  BY <1>1, <1>2
<1>4. Magnitude(c.linear) \in Int
  BY <1>3 DEF Magnitude
<1> QED BY <1>1, <1>3, <1>4 DEF FitsWire

\* What the vehicle reads from an encoded command.
LEMMA CommandRead ==
  ASSUME NEW c \in Motion, NEW limit \in SpeedLimit, EncodeError(c, limit) = "kNone"
  PROVE  VehicleReads(CommandFrame(c))
           = [linear |-> TruncValue(c.linear), lateral |-> TruncValue(c.lateral),
              yaw |-> TruncValue(c.yaw)]
<1> DEFINE u == CommandFrame(c)
           x == TruncValue(c.linear)
           y == TruncValue(c.lateral)
           z == TruncValue(c.yaw)
<1>1. x \in Int16 /\ y \in Int16 /\ z \in Int16 /\ x \in Int /\ y \in Int /\ z \in Int
  <2>1. x \in Int16 /\ y \in Int16 /\ z \in Int16
    BY AcceptedMotion
  <2>2. Int16 \subseteq Int
    BY Widths
  <2> QED BY <2>1, <2>2
<1>2. /\ Stands(u, 4, StoreSignedBigEndian(x))
      /\ Stands(u, 6, StoreSignedBigEndian(y))
      /\ Stands(u, 8, StoreSignedBigEndian(z))
  BY <1>1, CommandBytes
<1> HIDE DEF u, x, y, z
<1>3. LoadSignedBigEndian(u[4], u[5]) = x
  BY <1>1, <1>2, SignedRoundTrip DEF Stands
<1>4. LoadSignedBigEndian(u[6], u[7]) = y
  BY <1>1, <1>2, SignedRoundTrip DEF Stands
<1>5. LoadSignedBigEndian(u[8], u[9]) = z
  BY <1>1, <1>2, SignedRoundTrip DEF Stands
<1>6. VehicleReads(u) = [linear |-> x, lateral |-> y, yaw |-> z]
  BY <1>3, <1>4, <1>5 DEF VehicleReads
<1> QED BY <1>6 DEF u, x, y, z

LEMMA EncodedSpeed ==
  ASSUME NEW c \in Motion, NEW limit \in SpeedLimit, EncodeError(c, limit) = "kNone",
         NEW read, read = VehicleReads(CommandFrame(c))
  PROVE  /\ \A f \in {"linear", "lateral", "yaw"}:
              LET asked == c[f]
                  got == read[f] * kMotionUnitsPerWireUnit
              IN /\ Magnitude(got) <= Magnitude(asked)
                 /\ Magnitude(asked - got) < kMotionUnitsPerWireUnit
                 /\ got # 0 => (got > 0 <=> asked > 0)
         /\ Magnitude(read.linear) * kMotionUnitsPerWireUnit <= limit
<1>1. /\ read.linear = TruncValue(c.linear) /\ read.lateral = TruncValue(c.lateral)
      /\ read.yaw = TruncValue(c.yaw)
  BY CommandRead
<1>2. c.linear \in Int /\ c.lateral \in Int /\ c.yaw \in Int /\ limit \in Int
      /\ Magnitude(c.linear) <= limit
  BY AcceptedMotion
<1>3. ASSUME NEW f \in {"linear", "lateral", "yaw"}
      PROVE  c[f] \in Int /\ read[f] = TruncValue(c[f])
  BY <1>1, <1>2
<1>4. ASSUME NEW v \in Int, v = TruncValue(c.linear),
             Magnitude(v * kMotionUnitsPerWireUnit) <= Magnitude(c.linear)
      PROVE  Magnitude(v) * kMotionUnitsPerWireUnit <= limit
  BY <1>2, <1>4 DEF Magnitude, kMotionUnitsPerWireUnit
<1>5. Magnitude(read.linear) * kMotionUnitsPerWireUnit <= limit
  BY <1>1, <1>2, <1>4, TruncFacts
<1>6. ASSUME NEW f \in {"linear", "lateral", "yaw"}
      PROVE  /\ Magnitude(read[f] * kMotionUnitsPerWireUnit) <= Magnitude(c[f])
             /\ Magnitude(c[f] - read[f] * kMotionUnitsPerWireUnit) < kMotionUnitsPerWireUnit
             /\ read[f] * kMotionUnitsPerWireUnit # 0
                  => (read[f] * kMotionUnitsPerWireUnit > 0 <=> c[f] > 0)
  BY <1>3, TruncFacts
<1> QED BY <1>5, <1>6

\* Every reachable exchange in which encodeCommand accepts.
LEMMA EncodeStep ==
  ASSUME Encode
  PROVE  /\ command' # None
         /\ command'.error = "kNone" =>
              /\ command'.motion \in Motion /\ command'.limit \in SpeedLimit
              /\ EncodeError(command'.motion, command'.limit) = "kNone"
              /\ command'.frame = CommandFrame(command'.motion)
<1>1. PICK c \in Motion, limit \in SpeedLimit:
        command' = [motion |-> c, limit |-> limit, error |-> EncodeError(c, limit),
                    frame |-> IF EncodeError(c, limit) = "kNone" THEN CommandFrame(c) ELSE <<>>]
  BY DEF Encode
<1> DEFINE e == EncodeError(c, limit)
           b == IF e = "kNone" THEN CommandFrame(c) ELSE <<>>
<1>2. command' = [motion |-> c, limit |-> limit, error |-> e, frame |-> b]
  BY <1>1
<1>3. e = "kNone" => b = CommandFrame(c)
  OBVIOUS
<1>4. e # "none"
  BY DEF EncodeError
<1> HIDE DEF b
<1>5. e = EncodeError(c, limit)
  OBVIOUS
<1> HIDE DEF e
<1>6. /\ command'.motion = c /\ command'.limit = limit
      /\ command'.error = e /\ command'.frame = b
  BY <1>2
<1>7. command' # None
  BY <1>4, <1>6 DEF None
<1> QED BY <1>3, <1>5, <1>6, <1>7

\* Outside Encode no command comes to be.
LEMMA CommandKept ==
  ASSUME [CodecNext]_codecVars, ~Encode
  PROVE  command' = command
BY DEF CodecNext, codecVars, ReceiveIntact, ReceiveDamaged, ReceiveShort

\* For every motion and limit encodeCommand is called with: what the vehicle
\* reads is no faster, of the same sign, less than a wire unit off and within
\* the limit.
THEOREM CommandsAreNeverFaster == CodecSpec => []EncodingNeverSpeedsUp
<1>1. CodecInit => EncodingNeverSpeedsUp
  BY DEF CodecInit, EncodingNeverSpeedsUp, Encoded
<1>2. EncodingNeverSpeedsUp /\ [CodecNext]_codecVars => EncodingNeverSpeedsUp'
  <2> SUFFICES ASSUME EncodingNeverSpeedsUp, [CodecNext]_codecVars
               PROVE  EncodingNeverSpeedsUp'
    OBVIOUS
  <2>1. CASE Encode
    <3> SUFFICES ASSUME Encoded' PROVE EncodingNeverSpeedsUp'
      BY DEF EncodingNeverSpeedsUp
    <3>1. /\ command'.motion \in Motion /\ command'.limit \in SpeedLimit
          /\ EncodeError(command'.motion, command'.limit) = "kNone"
          /\ command'.frame = CommandFrame(command'.motion)
      BY <2>1, EncodeStep DEF Encoded
    <3> QED BY <3>1, EncodedSpeed DEF EncodingNeverSpeedsUp
  <2>2. CASE ~Encode
    <3>1. command' = command
      BY <2>2, CommandKept
    <3> QED BY <3>1 DEF EncodingNeverSpeedsUp, Encoded
  <2> QED BY <2>1, <2>2
<1> QED BY <1>1, <1>2, PTL DEF CodecSpec

-----------------------------------------------------------------------------
(* makeZeroCommandFrame *)

\* Behind its first byte, bytes that are zero leave the checksum alone.
LEMMA XorOfZeros ==
  ASSUME NEW a, NEW n \in Nat, n >= 1, a[1] \in Byte, \A i \in 2..n: a[i] = 0
  PROVE  XorRange(a, n) = a[1]
<1> DEFINE c == Chain(a, n)
           T == {i \in 1..n: c[i] # a[1]}
<1>1. c[0] = 0 /\ \A i \in 1..n: c[i] = ByteXor(c[i - 1], a[i])
  BY ChainFacts
<1> HIDE DEF c
<1>2. T = {}
  <2> SUFFICES ASSUME T # {} PROVE FALSE
    OBVIOUS
  <2>1. PICK m \in T: \A k \in T: m <= k
    <3>1. T \subseteq Nat
      OBVIOUS
    <3> HIDE DEF T
    <3> QED BY <3>1, LeastNumber
  <2>2. m \in 1..n /\ c[m] # a[1] /\ c[m] = ByteXor(c[m - 1], a[m])
    BY <1>1
  <2>3. CASE m = 1
    <3>1. c[m] = ByteXor(0, a[1])
      BY <1>1, <2>2, <2>3
    <3>2. ByteXor(0, a[1]) = a[1]
      <4>1. 0 \in Byte
        BY DEF Byte
      <4>2. ByteXor(0, a[1]) = ByteXor(a[1], 0) /\ ByteXor(a[1], 0) = a[1]
        BY <4>1, XorAssumption
      <4> QED BY <4>2
    <3> QED BY <2>2, <3>1, <3>2
  <2>4. CASE m # 1
    <3>1. m \in 2..n /\ m - 1 \in 1..n /\ ~(m <= m - 1)
      BY <2>2, <2>4
    <3>2. c[m - 1] = a[1] /\ a[m] = 0
      BY <2>1, <3>1
    <3> QED BY <2>2, <3>2, XorAssumption
  <2> QED BY <2>3, <2>4
<1>3. c[n] = a[1]
  BY <1>2
<1> QED BY <1>3, XorIsChain DEF c

LEMMA ZeroBytes ==
  /\ Word(MakeZeroCommandFrame, 11)
  /\ MakeZeroCommandFrame[1] = 123 /\ MakeZeroCommandFrame[2] = 0
  /\ MakeZeroCommandFrame[3] = 0 /\ MakeZeroCommandFrame[4] = 0
  /\ MakeZeroCommandFrame[5] = 0 /\ MakeZeroCommandFrame[6] = 0
  /\ MakeZeroCommandFrame[7] = 0 /\ MakeZeroCommandFrame[8] = 0
  /\ MakeZeroCommandFrame[9] = 0 /\ MakeZeroCommandFrame[10] = 123
  /\ MakeZeroCommandFrame[11] = 125
BY DEF MakeZeroCommandFrame, kFrameHeader, kFrameTail, Byte, Word

LEMMA StoredZero == StoreSignedBigEndian(0)[1] = 0 /\ StoreSignedBigEndian(0)[2] = 0
<1>1. 0 % 65536 = 0 /\ 0 \div 256 = 0 /\ 0 % 256 = 0
  OBVIOUS
<1>2. StoreSignedBigEndian(0) = <<0, 0>>
  BY <1>1 DEF StoreSignedBigEndian
<1> QED BY <1>2

\* The hand-written frame and the encoding of no motion, byte by byte.
LEMMA ZeroEitherWay ==
  ASSUME NEW c \in Motion, NEW limit \in SpeedLimit, EncodeError(c, limit) = "kNone",
         NEW u, u = CommandFrame(c)
  PROVE  u = MakeZeroCommandFrame
           <=> \A f \in {"linear", "lateral", "yaw"}: VehicleReads(u)[f] = 0
<1> DEFINE Z == MakeZeroCommandFrame
           x == TruncValue(c.linear)
           y == TruncValue(c.lateral)
           z == TruncValue(c.yaw)
<1>1. ASSUME u = MakeZeroCommandFrame
      PROVE  VehicleReads(u).linear = 0 /\ VehicleReads(u).lateral = 0
             /\ VehicleReads(u).yaw = 0
  <2>1. u[4] = 0 /\ u[5] = 0 /\ u[6] = 0 /\ u[7] = 0 /\ u[8] = 0 /\ u[9] = 0
    BY <1>1, ZeroBytes
  <2>2. LoadSignedBigEndian(0, 0) = 0
    BY DEF LoadSignedBigEndian, LoadUnsignedBigEndian
  <2> QED BY <2>1, <2>2 DEF VehicleReads
<1>2. ASSUME \A f \in {"linear", "lateral", "yaw"}: VehicleReads(u)[f] = 0
      PROVE  u = MakeZeroCommandFrame
  <2>1. VehicleReads(u) = [linear |-> x, lateral |-> y, yaw |-> z]
    BY CommandRead
  <2>2. VehicleReads(u)["linear"] = 0 /\ VehicleReads(u)["lateral"] = 0
        /\ VehicleReads(u)["yaw"] = 0
    BY <1>2
  <2>3. x = 0 /\ y = 0 /\ z = 0
    BY <2>1, <2>2
  <2>4. /\ Word(u, 11)
        /\ u[1] = kFrameHeader /\ u[2] = 0 /\ u[3] = 0
        /\ Stands(u, 4, StoreSignedBigEndian(0))
        /\ Stands(u, 6, StoreSignedBigEndian(0))
        /\ Stands(u, 8, StoreSignedBigEndian(0))
        /\ u[10] = XorRange(u, 9) /\ u[11] = kFrameTail
    BY <2>3, CommandBytes
  <2>5. /\ u[1] = 123 /\ u[2] = 0 /\ u[3] = 0 /\ u[4] = 0 /\ u[5] = 0 /\ u[6] = 0
        /\ u[7] = 0 /\ u[8] = 0 /\ u[9] = 0 /\ u[11] = 125
    BY <2>4, StoredZero DEF Stands, kFrameHeader, kFrameTail
  <2>6. \A i \in 2..9: u[i] = 0
    BY <2>5
  <2>7. XorRange(u, 9) = u[1]
    <3>1. 9 \in Nat /\ 9 >= 1 /\ u[1] \in Byte
      BY <2>5 DEF Byte
    <3> QED BY <2>6, <3>1, XorOfZeros
  <2>8. u[10] = 123
    BY <2>4, <2>5, <2>7
  <2> HIDE DEF Z
  <2>9. /\ Word(Z, 11) /\ Z[1] = 123 /\ Z[2] = 0 /\ Z[3] = 0 /\ Z[4] = 0 /\ Z[5] = 0
        /\ Z[6] = 0 /\ Z[7] = 0 /\ Z[8] = 0 /\ Z[9] = 0 /\ Z[10] = 123 /\ Z[11] = 125
    BY ZeroBytes DEF Z
  <2>10. \A i \in 1..11: u[i] = Z[i]
    BY <2>5, <2>8, <2>9
  <2>11. u \in Seq(Byte) /\ Z \in Seq(Byte) /\ Len(u) = 11 /\ Len(Z) = 11
    BY <2>4, <2>9 DEF Word
  <2>12. u = Z
    BY <2>10, <2>11, SeqEqual
  <2> QED BY <2>12 DEF Z
<1> QED BY <1>1, <1>2

\* For every motion and limit encodeCommand is called with: the frame a stop
\* sends is the encoding of no motion, and the only frame read as no motion.
THEOREM StopFrameIsTheZeroCommand == CodecSpec => []ZeroFrameIsZero
<1>1. CodecInit => ZeroFrameIsZero
  BY DEF CodecInit, ZeroFrameIsZero, Encoded
<1>2. ZeroFrameIsZero /\ [CodecNext]_codecVars => ZeroFrameIsZero'
  <2> SUFFICES ASSUME ZeroFrameIsZero, [CodecNext]_codecVars
               PROVE  ZeroFrameIsZero'
    OBVIOUS
  <2>1. CASE Encode
    <3> SUFFICES ASSUME Encoded' PROVE ZeroFrameIsZero'
      BY DEF ZeroFrameIsZero
    <3>1. /\ command'.motion \in Motion /\ command'.limit \in SpeedLimit
          /\ EncodeError(command'.motion, command'.limit) = "kNone"
          /\ command'.frame = CommandFrame(command'.motion)
      BY <2>1, EncodeStep DEF Encoded
    <3> QED BY <3>1, ZeroEitherWay DEF ZeroFrameIsZero
  <2>2. CASE ~Encode
    <3>1. command' = command
      BY <2>2, CommandKept
    <3> QED BY <3>1 DEF ZeroFrameIsZero, Encoded
  <2> QED BY <2>1, <2>2
<1> QED BY <1>1, <1>2, PTL DEF CodecSpec

-----------------------------------------------------------------------------
(* decodeFeedbackFrame *)

\* The fields of a report, at the width they have in a frame.
LEMMA ReportFields ==
  ASSUME NEW r \in VehicleReport
  PROVE  /\ r.control_allowed \in BOOLEAN /\ r.control_inhibited \in BOOLEAN
         /\ r.control_allowed # r.control_inhibited
         /\ r.linear \in Int16 /\ r.lateral \in Int16 /\ r.yaw \in Int16
         /\ r.acceleration \in [1..3 -> Int16] /\ r.gyroscope \in [1..3 -> Int16]
         /\ r.voltage \in UInt16
BY DEF VehicleReport

LEMMA ReportNumbers ==
  ASSUME NEW r \in VehicleReport
  PROVE  /\ r.linear \in Int /\ r.lateral \in Int /\ r.yaw \in Int
         /\ r.acceleration[1] \in Int /\ r.acceleration[2] \in Int /\ r.acceleration[3] \in Int
         /\ r.gyroscope[1] \in Int /\ r.gyroscope[2] \in Int /\ r.gyroscope[3] \in Int
         /\ r.voltage \in Int
<1>1. Int16 \subseteq Int /\ UInt16 \subseteq Int
  BY Widths
<1>2. r.linear \in Int16 /\ r.lateral \in Int16 /\ r.yaw \in Int16 /\ r.voltage \in UInt16
  BY ReportFields
<1>3. ASSUME NEW v, v \in [1..3 -> Int16]
      PROVE  v[1] \in Int16 /\ v[2] \in Int16 /\ v[3] \in Int16
  BY <1>3
<1>4. r.acceleration \in [1..3 -> Int16] /\ r.gyroscope \in [1..3 -> Int16]
  BY ReportFields
<1>5. /\ r.acceleration[1] \in Int16 /\ r.acceleration[2] \in Int16
      /\ r.acceleration[3] \in Int16
  BY <1>3, <1>4
<1>6. /\ r.gyroscope[1] \in Int16 /\ r.gyroscope[2] \in Int16 /\ r.gyroscope[3] \in Int16
  BY <1>3, <1>4
<1> QED BY <1>1, <1>2, <1>5, <1>6

LEMMA StoredWord ==
  ASSUME NEW v \in Int
  PROVE  Word(StoreSignedBigEndian(v), 2)
BY StoredPair DEF Word

\* Which bytes a report has, and where.
LEMMA SentBytes ==
  ASSUME NEW r \in VehicleReport
  PROVE  LET u == VehicleSends(r)
         IN /\ Word(u, 24)
            /\ u[1] = kFrameHeader /\ u[2] = IF r.control_inhibited THEN 1 ELSE 0
            /\ Stands(u, 3, StoreSignedBigEndian(r.linear))
            /\ Stands(u, 5, StoreSignedBigEndian(r.lateral))
            /\ Stands(u, 7, StoreSignedBigEndian(r.yaw))
            /\ Stands(u, 9, StoreSignedBigEndian(r.acceleration[1]))
            /\ Stands(u, 11, StoreSignedBigEndian(r.acceleration[2]))
            /\ Stands(u, 13, StoreSignedBigEndian(r.acceleration[3]))
            /\ Stands(u, 15, StoreSignedBigEndian(r.gyroscope[1]))
            /\ Stands(u, 17, StoreSignedBigEndian(r.gyroscope[2]))
            /\ Stands(u, 19, StoreSignedBigEndian(r.gyroscope[3]))
            /\ Stands(u, 21, StoreSignedBigEndian(r.voltage))
            /\ u[23] = XorRange(u, 22) /\ u[24] = kFrameTail
<1> DEFINE flag == IF r.control_inhibited THEN 1 ELSE 0
           w1 == StoreSignedBigEndian(r.linear)
           w2 == StoreSignedBigEndian(r.lateral)
           w3 == StoreSignedBigEndian(r.yaw)
           w4 == StoreSignedBigEndian(r.acceleration[1])
           w5 == StoreSignedBigEndian(r.acceleration[2])
           w6 == StoreSignedBigEndian(r.acceleration[3])
           w7 == StoreSignedBigEndian(r.gyroscope[1])
           w8 == StoreSignedBigEndian(r.gyroscope[2])
           w9 == StoreSignedBigEndian(r.gyroscope[3])
           w10 == StoreSignedBigEndian(r.voltage)
           s0 == <<kFrameHeader, flag>>
           s1 == s0 \o w1
           s2 == s1 \o w2
           s3 == s2 \o w3
           s4 == s3 \o w4
           s5 == s4 \o w5
           s6 == s5 \o w6
           s7 == s6 \o w7
           s8 == s7 \o w8
           s9 == s8 \o w9
           s10 == s9 \o w10
           u == s10 \o <<XorRange(s10, 22), kFrameTail>>
<1>1. VehicleSends(r) = u
  BY DEF VehicleSends, VehicleBody
<1>2. /\ Word(w1, 2) /\ Word(w2, 2) /\ Word(w3, 2) /\ Word(w4, 2) /\ Word(w5, 2)
      /\ Word(w6, 2) /\ Word(w7, 2) /\ Word(w8, 2) /\ Word(w9, 2) /\ Word(w10, 2)
  BY ReportNumbers, StoredWord
<1>3. Word(s0, 2) /\ s0[1] = kFrameHeader /\ s0[2] = flag
  <2>1. flag \in Byte
    BY DEF Byte
  <2> HIDE DEF flag
  <2> QED BY <2>1 DEF kFrameHeader, Byte, Word
<1>4. /\ Joined(s1, s0, w1) /\ Joined(s2, s1, w2) /\ Joined(s3, s2, w3)
      /\ Joined(s4, s3, w4) /\ Joined(s5, s4, w5) /\ Joined(s6, s5, w6)
      /\ Joined(s7, s6, w7) /\ Joined(s8, s7, w8) /\ Joined(s9, s8, w9)
      /\ Joined(s10, s9, w10) /\ Sealed(u, s10, 22)
  BY DEF Joined, Sealed
<1> HIDE DEF flag, u, s0, s1, s2, s3, s4, s5, s6, s7, s8, s9, s10,
             w1, w2, w3, w4, w5, w6, w7, w8, w9, w10
<1>5. Word(s1, 4)
  BY <1>2, <1>3, <1>4, PairAppended
<1>6. Word(s2, 6)
  BY <1>2, <1>4, <1>5, PairAppended
<1>7. Word(s3, 8)
  BY <1>2, <1>4, <1>6, PairAppended
<1>8. Word(s4, 10)
  BY <1>2, <1>4, <1>7, PairAppended
<1>9. Word(s5, 12)
  BY <1>2, <1>4, <1>8, PairAppended
<1>10. Word(s6, 14)
  BY <1>2, <1>4, <1>9, PairAppended
<1>11. Word(s7, 16)
  BY <1>2, <1>4, <1>10, PairAppended
<1>12. Word(s8, 18)
  BY <1>2, <1>4, <1>11, PairAppended
<1>13. Word(s9, 20)
  BY <1>2, <1>4, <1>12, PairAppended
<1>14. Word(s10, 22)
  BY <1>2, <1>4, <1>13, PairAppended
<1>15. /\ Word(u, 24) /\ Begins(u, s10) /\ u \in Seq(Byte)
      /\ u[23] = XorRange(u, 22) /\ u[24] = kFrameTail
  <2>1. Word(u, 24) /\ Begins(u, s10) /\ u[23] = XorRange(u, 22) /\ u[24] = kFrameTail
    BY <1>4, <1>14, SealedFrame
  <2> QED BY <2>1 DEF Word
<1>16. Begins(u, s9) /\ Stands(u, 21, w10)
  BY <1>2, <1>13, <1>4, <1>15, PairStands
<1>17. Begins(u, s8) /\ Stands(u, 19, w9)
  BY <1>2, <1>12, <1>4, <1>15, <1>16, PairStands
<1>18. Begins(u, s7) /\ Stands(u, 17, w8)
  BY <1>2, <1>11, <1>4, <1>15, <1>17, PairStands
<1>19. Begins(u, s6) /\ Stands(u, 15, w7)
  BY <1>2, <1>10, <1>4, <1>15, <1>18, PairStands
<1>20. Begins(u, s5) /\ Stands(u, 13, w6)
  BY <1>2, <1>9, <1>4, <1>15, <1>19, PairStands
<1>21. Begins(u, s4) /\ Stands(u, 11, w5)
  BY <1>2, <1>8, <1>4, <1>15, <1>20, PairStands
<1>22. Begins(u, s3) /\ Stands(u, 9, w4)
  BY <1>2, <1>7, <1>4, <1>15, <1>21, PairStands
<1>23. Begins(u, s2) /\ Stands(u, 7, w3)
  BY <1>2, <1>6, <1>4, <1>15, <1>22, PairStands
<1>24. Begins(u, s1) /\ Stands(u, 5, w2)
  BY <1>2, <1>5, <1>4, <1>15, <1>23, PairStands
<1>25. Begins(u, s0) /\ Stands(u, 3, w1)
  BY <1>2, <1>3, <1>4, <1>15, <1>24, PairStands
<1>26. u[1] = kFrameHeader /\ u[2] = flag
  BY <1>3, <1>25 DEF Begins, Word
<1> QED BY <1>1, <1>15, <1>16, <1>17, <1>18, <1>19, <1>20, <1>21, <1>22, <1>23, <1>24, <1>25, <1>26
       DEF flag, w1, w2, w3, w4, w5, w6, w7, w8, w9, w10

\* A field read where a stored one stands.
LEMMA FieldStands ==
  ASSUME NEW u, NEW p \in Nat, NEW v \in Int16, Stands(u, p, StoreSignedBigEndian(v))
  PROVE  Field(u, p) = v
<1>1. u[p] = StoreSignedBigEndian(v)[1] /\ u[p + 1] = StoreSignedBigEndian(v)[2]
  BY DEF Stands
<1>2. Field(u, p) = LoadSignedBigEndian(StoreSignedBigEndian(v)[1], StoreSignedBigEndian(v)[2])
  BY <1>1 DEF Field
<1> QED BY <1>2, SignedRoundTrip

\* A report that arrives as it was sent is accepted.
LEMMA IntactAccepted ==
  ASSUME NEW r \in VehicleReport
  PROVE  DecodeError(VehicleSends(r)) = "kNone"
<1> DEFINE u == VehicleSends(r)
<1>1. /\ Len(u) = 24 /\ u[1] = kFrameHeader /\ u[2] = IF r.control_inhibited THEN 1 ELSE 0
      /\ u[23] = XorRange(u, 22) /\ u[24] = kFrameTail
  BY SentBytes DEF Word
<1> HIDE DEF u
<1>2. u[2] = 0 \/ u[2] = 1
  BY <1>1
<1>3. ~(u[2] > 1)
  BY <1>2
<1>4. DecodeError(u) = "kNone"
  BY <1>1, <1>3 DEF DecodeError, kFeedbackFrameSize
<1> QED BY <1>4 DEF u

\* And decoded field by field to what the vehicle reports.
LEMMA IntactDecoded ==
  ASSUME NEW r \in VehicleReport
  PROVE  DecodeFeedback(VehicleSends(r)) = r
<1> DEFINE u == VehicleSends(r)
<1>1. DecodeError(u) = "kNone"
  BY IntactAccepted
<1>2. /\ r.linear \in Int16 /\ r.lateral \in Int16 /\ r.yaw \in Int16
      /\ r.acceleration \in [1..3 -> Int16] /\ r.gyroscope \in [1..3 -> Int16]
      /\ r.voltage \in UInt16
  BY ReportFields
<1>3. /\ r.acceleration[1] \in Int16 /\ r.acceleration[2] \in Int16
      /\ r.acceleration[3] \in Int16
      /\ r.gyroscope[1] \in Int16 /\ r.gyroscope[2] \in Int16 /\ r.gyroscope[3] \in Int16
  BY <1>2
<1>4. Field(u, 3) = r.linear /\ Field(u, 5) = r.lateral /\ Field(u, 7) = r.yaw
  BY <1>2, SentBytes, FieldStands
<1>5. /\ Field(u, 9) = r.acceleration[1] /\ Field(u, 11) = r.acceleration[2]
      /\ Field(u, 13) = r.acceleration[3]
  BY <1>3, SentBytes, FieldStands
<1>6. /\ Field(u, 15) = r.gyroscope[1] /\ Field(u, 17) = r.gyroscope[2]
      /\ Field(u, 19) = r.gyroscope[3]
  BY <1>3, SentBytes, FieldStands
<1>7. LoadUnsignedBigEndian(u[21], u[22]) = r.voltage
  <2>1. Stands(u, 21, StoreSignedBigEndian(r.voltage))
    BY SentBytes
  <2> HIDE DEF u
  <2> QED BY <1>2, <2>1, UnsignedRoundTrip DEF Stands
<1>8. u[2] = IF r.control_inhibited THEN 1 ELSE 0
  BY SentBytes
<1> HIDE DEF u
<1>9. [axis \in 1..3 |-> Field(u, 7 + 2 * axis)] = r.acceleration
  <2>1. \A axis \in 1..3: Field(u, 7 + 2 * axis) = r.acceleration[axis]
    BY <1>5
  <2> QED BY <1>2, <2>1
<1>10. [axis \in 1..3 |-> Field(u, 13 + 2 * axis)] = r.gyroscope
  <2>1. \A axis \in 1..3: Field(u, 13 + 2 * axis) = r.gyroscope[axis]
    BY <1>6
  <2> QED BY <1>2, <2>1
<1>11. (u[2] = 0) = r.control_allowed /\ (u[2] = 1) = r.control_inhibited
  <2>1. /\ r.control_allowed \in BOOLEAN /\ r.control_inhibited \in BOOLEAN
        /\ r.control_allowed # r.control_inhibited
    BY ReportFields
  <2>2. CASE r.control_inhibited = TRUE
    <3>1. r.control_allowed = FALSE /\ u[2] = 1
      BY <1>8, <2>1, <2>2
    <3>2. (u[2] = 0) = FALSE /\ (u[2] = 1) = TRUE
      BY <3>1
    <3> QED BY <2>2, <3>1, <3>2
  <2>3. CASE r.control_inhibited = FALSE
    <3>1. r.control_allowed = TRUE /\ u[2] = 0
      BY <1>8, <2>1, <2>3
    <3>2. (u[2] = 0) = TRUE /\ (u[2] = 1) = FALSE
      BY <3>1
    <3> QED BY <2>3, <3>1, <3>2
  <2> QED BY <2>1, <2>2, <2>3
<1> DEFINE ca == u[2] = 0
           ci == u[2] = 1
           ac == [axis \in 1..3 |-> Field(u, 7 + 2 * axis)]
           gy == [axis \in 1..3 |-> Field(u, 13 + 2 * axis)]
           vo == LoadUnsignedBigEndian(u[21], u[22])
<1>12. DecodeFeedback(u)
         = [control_allowed |-> ca, control_inhibited |-> ci,
            linear |-> Field(u, 3), lateral |-> Field(u, 5), yaw |-> Field(u, 7),
            acceleration |-> ac, gyroscope |-> gy, voltage |-> vo]
  BY <1>1 DEF DecodeFeedback
<1>13. /\ ca = r.control_allowed /\ ci = r.control_inhibited
       /\ ac = r.acceleration /\ gy = r.gyroscope /\ vo = r.voltage
  BY <1>7, <1>9, <1>10, <1>11
<1> HIDE DEF ca, ci, ac, gy, vo
<1>14. r = [control_allowed |-> r.control_allowed, control_inhibited |-> r.control_inhibited,
            linear |-> r.linear, lateral |-> r.lateral, yaw |-> r.yaw,
            acceleration |-> r.acceleration, gyroscope |-> r.gyroscope, voltage |-> r.voltage]
  BY DEF VehicleReport
<1>15. DecodeFeedback(u) = r
  BY <1>4, <1>12, <1>13, <1>14
<1> QED BY <1>15 DEF u

\* d is u, of n bytes, except that byte p reads as b.
Damaged(d, u, n, p, b) == Word(d, n) /\ \A i \in 1..n: d[i] = IF i = p THEN b ELSE u[i]

LEMMA ByteReplaced ==
  ASSUME NEW n \in Nat, NEW u, Word(u, n), NEW p \in 1..n, NEW b \in Byte
  PROVE  Damaged([u EXCEPT ![p] = b], u, n, p, b)
<1>1. u \in Seq(Byte) /\ Len(u) = n
  BY DEF Word
<1>2. /\ [u EXCEPT ![p] = b] \in Seq(Byte) /\ Len([u EXCEPT ![p] = b]) = Len(u)
      /\ \A i \in 1..Len(u): [u EXCEPT ![p] = b][i] = IF i = p THEN b ELSE u[i]
  BY <1>1, ExceptSeq
<1> QED BY <1>1, <1>2 DEF Word, Damaged

\* Under the checksum or at the checksum itself, such a byte shows.
LEMMA ChecksumNotices ==
  ASSUME NEW n \in Nat, NEW m \in Nat, NEW q \in Nat, q = n + 1, q <= m,
         NEW u, Word(u, m), u[q] = XorRange(u, n),
         NEW p \in 1..q, NEW b \in Byte, u[p] # b,
         NEW d, Damaged(d, u, m, p, b)
  PROVE  XorRange(d, n) # d[q]
<1>0. Word(d, m) /\ \A i \in 1..m: d[i] = IF i = p THEN b ELSE u[i]
  BY DEF Damaged
<1>1. q \in 1..m /\ p \in 1..m /\ \A i \in 1..n: i \in 1..m /\ i # q
  OBVIOUS
<1>2. \A i \in 1..n: d[i] \in Byte /\ u[i] \in Byte
  BY <1>0, <1>1 DEF Word
<1>3. \A i \in 1..n: i # p => d[i] = u[i]
  BY <1>0, <1>1
<1>4. d[p] # u[p]
  BY <1>0, <1>1
<1>5. CASE p = q
  <2>1. \A i \in 1..n: d[i] = u[i]
    BY <1>1, <1>3, <1>5
  <2>2. XorRange(d, n) = XorRange(u, n)
    BY <2>1, XorAgrees
  <2> QED BY <1>4, <1>5, <2>2
<1>6. CASE p # q
  <2>1. p \in 1..n
    BY <1>6
  <2>2. XorRange(d, n) # XorRange(u, n)
    BY <1>2, <1>3, <1>4, <2>1, XorNotices
  <2>3. d[q] = u[q]
    BY <1>0, <1>1, <1>6
  <2> QED BY <2>2, <2>3
<1> QED BY <1>5, <1>6

\* A report with one byte that reads as another is refused, wherever it is: at
\* the tail, or up to the checksum, which covers the header too.
LEMMA DamageRefused ==
  ASSUME NEW r \in VehicleReport, NEW p, p \in 1..24, NEW b \in Byte,
         VehicleSends(r)[p] # b
  PROVE  LET d == [VehicleSends(r) EXCEPT ![p] = b]
         IN DecodeError(d) # "kNone" /\ d # VehicleSends(r)
<1> DEFINE u == VehicleSends(r)
           d == [u EXCEPT ![p] = b]
           n == 22
           q == 23
           m == 24
<1>1. Word(u, m) /\ u[q] = XorRange(u, n) /\ u[m] = kFrameTail
  BY SentBytes
<1>2. /\ n \in Nat /\ q \in Nat /\ m \in Nat /\ q = n + 1 /\ q <= m /\ p \in 1..m
      /\ p # m => p \in 1..q
  OBVIOUS
<1>3. Len(d) # m \/ d[m] # kFrameTail \/ XorRange(d, n) # d[q] => DecodeError(d) # "kNone"
  <2> HIDE DEF d
  <2> QED BY DEF DecodeError, kFeedbackFrameSize
<1>4. u[p] # b
  OBVIOUS
<1> HIDE DEF n, q, m, u
<1>5. Damaged(d, u, m, p, b)
  BY <1>1, <1>2, ByteReplaced
<1> HIDE DEF d
<1>6. d[p] # u[p]
  BY <1>2, <1>4, <1>5 DEF Damaged
<1>7. CASE p = m
  BY <1>1, <1>3, <1>6, <1>7 DEF u, d
<1>8. CASE p # m
  <2>1. XorRange(d, n) # d[q]
    BY <1>1, <1>2, <1>4, <1>5, <1>8, ChecksumNotices
  <2>2. DecodeError(d) # "kNone" /\ d # u
    BY <1>3, <1>6, <2>1
  <2> QED BY <2>2 DEF u, d
<1> QED BY <1>7, <1>8

\* So is a report that is cut short.
LEMMA ShortRefused ==
  ASSUME NEW r \in VehicleReport, NEW size \in 0..23, NEW u, u = VehicleSends(r),
         NEW d, d = SubSeq(u, 1, size)
  PROVE  DecodeError(d) # "kNone" /\ d # u
<1>1. u \in Seq(Byte) /\ Len(u) = 24
  BY SentBytes DEF Word
<1>2. Len(d) = size
  <2>1. \A i \in 1..size: u[i] \in Byte
    <3>1. \A i \in 1..size: i \in 1..Len(u)
      BY <1>1
    <3> QED BY <1>1, <3>1, ElementOfSeq
  <2>2. Len(SubSeq(u, 1, size)) = IF 1 <= size THEN size - 1 + 1 ELSE 0
    BY <2>1, SubSeqProperties
  <2> QED BY <2>2
<1>3. Len(d) # 24
  BY <1>2
<1> QED BY <1>1, <1>3 DEF DecodeError, kFeedbackFrameSize

\* What is refused leaves the defaults.
LEMMA RefusedInhibits ==
  ASSUME NEW d, DecodeError(d) # "kNone"
  PROVE  ~DecodeFeedback(d).control_allowed /\ DecodeFeedback(d).control_inhibited
BY DEF DecodeFeedback, NoFeedback

\* One frame from the vehicle, as it is received.
LEMMA GenuineReceived ==
  ASSUME NEW r \in VehicleReport, NEW d, Receive(r, d),
         \/ d = VehicleSends(r)
         \/ DecodeError(d) # "kNone" /\ d # VehicleSends(r)
  PROVE  FeedbackIsGenuine'
<1> DEFINE u == VehicleSends(r)
           e == DecodeError(d)
           f == DecodeFeedback(d)
<1>1. feedback' = [report |-> r, sent |-> u, received |-> d, error |-> e, data |-> f]
  BY DEF Receive
<1>2. CASE d = u
  <2>1. e = "kNone" /\ f = r
    BY <1>2, IntactAccepted, IntactDecoded
  <2> HIDE DEF u, e, f
  <2> QED BY <1>1, <1>2, <2>1 DEF FeedbackIsGenuine
<1>3. CASE e # "kNone" /\ d # u
  <2>1. ~f.control_allowed /\ f.control_inhibited
    BY <1>3, RefusedInhibits
  <2> HIDE DEF u, e, f
  <2> QED BY <1>1, <1>3, <2>1 DEF FeedbackIsGenuine
<1> QED BY <1>2, <1>3

\* For every report, every byte that is damaged, whatever it then reads as, and
\* every length a report is cut to: decodeFeedbackFrame returns what the vehicle
\* reported or refuses, and what it refuses inhibits.
THEOREM DecodedIsWhatWasReported == CodecSpec => []FeedbackIsGenuine
<1>1. CodecInit => FeedbackIsGenuine
  BY DEF CodecInit, FeedbackIsGenuine
<1>2. FeedbackIsGenuine /\ [CodecNext]_codecVars => FeedbackIsGenuine'
  <2> SUFFICES ASSUME FeedbackIsGenuine, [CodecNext]_codecVars
               PROVE  FeedbackIsGenuine'
    OBVIOUS
  <2>1. \A r \in Report: r \in VehicleReport
    BY CodecAssumption
  <2>2. CASE ReceiveIntact
    <3>1. PICK r \in Report: Receive(r, VehicleSends(r))
      BY <2>2 DEF ReceiveIntact
    <3> QED BY <2>1, <3>1, GenuineReceived
  <2>3. CASE ReceiveDamaged
    <3>1. PICK r \in Report, p \in 1..kFeedbackFrameSize, b \in Damage:
            /\ VehicleSends(r)[p] # b
            /\ Receive(r, [VehicleSends(r) EXCEPT ![p] = b])
      BY <2>3 DEF ReceiveDamaged
    <3>2. r \in VehicleReport /\ p \in 1..24 /\ b \in Byte
      BY <2>1, CodecAssumption DEF kFeedbackFrameSize
    <3> DEFINE u == VehicleSends(r)
               d == [u EXCEPT ![p] = b]
    <3>3. DecodeError(d) # "kNone" /\ d # u
      BY <3>1, <3>2, DamageRefused
    <3>4. Receive(r, d)
      BY <3>1
    <3> HIDE DEF d
    <3> QED BY <3>2, <3>3, <3>4, GenuineReceived
  <2>4. CASE ReceiveShort
    <3>1. PICK r \in Report, size \in 0..kFeedbackFrameSize - 1:
            Receive(r, SubSeq(VehicleSends(r), 1, size))
      BY <2>4 DEF ReceiveShort
    <3>2. r \in VehicleReport /\ size \in 0..23
      BY <2>1 DEF kFeedbackFrameSize
    <3> DEFINE u == VehicleSends(r)
               d == SubSeq(u, 1, size)
    <3>3. DecodeError(d) # "kNone" /\ d # u
      BY <3>2, ShortRefused
    <3>4. Receive(r, d)
      BY <3>1
    <3> HIDE DEF d
    <3> QED BY <3>2, <3>3, <3>4, GenuineReceived
  <2>5. CASE Encode \/ UNCHANGED codecVars
    <3>1. feedback' = feedback
      BY <2>5 DEF Encode, codecVars
    <3> QED BY <3>1 DEF FeedbackIsGenuine
  <2> QED BY <2>2, <2>3, <2>4, <2>5 DEF CodecNext
<1> QED BY <1>1, <1>2, PTL DEF CodecSpec

-----------------------------------------------------------------------------
(* The receive-only monitor *)

\* The code the loop has settled on, by the position in main().
LoopCode ==
  /\ mon.pc \in {"open", "started", "loop", "read", "count"} => mon.code = "none"
  /\ At("done") => mon.code \in {"none", "5", "6"}
  /\ At("done") /\ mon.code = "5" => mon.frames < FrameCount

\* How late it can be: a turn begins a read only before the deadline, a read
\* overruns it by no more than a blocked call does, and the reading of the
\* clock that ends the loop may be late once more.
LoopTime ==
  /\ At("read") => clock = mon.now /\ mon.now < mon.deadline
  /\ At("loop") \/ At("count") => clock <= mon.deadline + MaxOverrun
  /\ At("done") => clock <= mon.deadline + MaxOverrun + MaxDelay

\* The inductive invariant of the monitor.
MonitorInv == TypeOK /\ LoopCode /\ LoopTime /\ ExitCodeTellsTruth

\* The constants as numbers.
LEMMA MonitorNumbers ==
  /\ Int64Max \in Nat /\ MaxOverrun \in Nat
  /\ FrameCount \in Nat /\ FrameCount >= 1
  /\ Timeout \in Nat /\ Timeout >= 1 /\ ReadSlice \in Nat /\ MaxDelay \in Nat
  /\ MaxFrames \in Nat
BY ClockAssumption, MonitorAssumption

\* When a read of the contract comes back, and in which state.
LEMMA ReadReturns ==
  ASSUME NEW now \in Time, NEW deadline \in Nat, now < deadline,
         NEW r \in ReadResults(now, deadline)
  PROVE  /\ r.status \in {"kOk", "kDeadlineExceeded", "kIoError", "kDisconnected"}
         /\ r.completion \in Int /\ now <= r.completion
         /\ r.completion <= deadline + MaxOverrun
<1> DEFINE latest == Smaller(Int64Max, Larger(now, deadline) + MaxOverrun)
<1>0. now \in Int /\ deadline \in Int /\ Int64Max \in Int /\ MaxOverrun \in Nat
  BY MonitorNumbers DEF Time
<1>1. latest \in Int /\ latest <= deadline + MaxOverrun /\ Larger(now, deadline) = deadline
  BY <1>0 DEF Smaller, Larger
<1>2. \/ r \in ReadResult("kOk", TRUE, now..deadline)
      \/ r \in ReadResult("kDeadlineExceeded", TRUE, (deadline + 1)..latest)
      \/ r \in ReadResult("kDeadlineExceeded", FALSE, Larger(now, deadline)..latest)
      \/ r \in ReadResult("kIoError", FALSE, now..latest)
      \/ r \in ReadResult("kDisconnected", FALSE, now..latest)
  BY DEF ReadResults
<1> HIDE DEF latest
<1>3. ASSUME NEW status, NEW data, NEW times, r \in ReadResult(status, data, times)
      PROVE  r.status = status /\ r.completion \in times
  BY <1>3 DEF ReadResult
<1>4. CASE r \in ReadResult("kOk", TRUE, now..deadline)
  <2>1. r.status = "kOk" /\ r.completion \in now..deadline
    BY <1>3, <1>4
  <2> QED BY <1>0, <2>1
<1>5. CASE r \in ReadResult("kDeadlineExceeded", TRUE, (deadline + 1)..latest)
  <2>1. r.status = "kDeadlineExceeded" /\ r.completion \in (deadline + 1)..latest
    BY <1>3, <1>5
  <2> QED BY <1>0, <1>1, <2>1
<1>6. CASE r \in ReadResult("kDeadlineExceeded", FALSE, Larger(now, deadline)..latest)
  <2>1. r.status = "kDeadlineExceeded" /\ r.completion \in Larger(now, deadline)..latest
    BY <1>3, <1>6
  <2> QED BY <1>0, <1>1, <2>1
<1>7. CASE r \in ReadResult("kIoError", FALSE, now..latest)
  <2>1. r.status = "kIoError" /\ r.completion \in now..latest
    BY <1>3, <1>7
  <2> QED BY <1>0, <1>1, <2>1
<1>8. CASE r \in ReadResult("kDisconnected", FALSE, now..latest)
  <2>1. r.status = "kDisconnected" /\ r.completion \in now..latest
    BY <1>3, <1>8
  <2> QED BY <1>0, <1>1, <2>1
<1> QED BY <1>2, <1>4, <1>5, <1>6, <1>7, <1>8

\* The clock only moves on, by no more than MaxDelay.
LEMMA ClockReadings ==
  ASSUME TypeOK, NEW t \in Readings \cup {0}
  PROVE  /\ t \in Time /\ Larger(clock, t) \in Time
         /\ Larger(clock, t) <= clock + MaxDelay
         /\ t > 0 => Larger(clock, t) = t
<1>1. clock \in Int /\ 0 <= clock /\ clock <= Int64Max /\ Int64Max \in Nat /\ MaxDelay \in Nat
  BY MonitorNumbers DEF TypeOK, Time
<1>2. CASE t = 0
  BY <1>1, <1>2 DEF Time, Larger
<1>3. CASE t \in Readings
  BY <1>1, <1>3 DEF Readings, Time, Larger, Smaller
<1> QED BY <1>2, <1>3

LEMMA MonitorStarts ==
  ASSUME Init
  PROVE  MonitorInv
<1>1. TypeOK
  <2>1. clock \in Time /\ 0 \in Time /\ 0 \in 0..FrameCount
    BY MonitorNumbers DEF Init, Time
  <2> QED BY <2>1 DEF Init, TypeOK, ExitCode
<1>2. LoopCode /\ LoopTime /\ ExitCodeTellsTruth
  BY DEF Init, LoopCode, LoopTime, ExitCodeTellsTruth, At
<1> QED BY <1>1, <1>2 DEF MonitorInv

LEMMA SignalKeeps ==
  ASSUME MonitorInv, Signal
  PROVE  MonitorInv'
<1>1. stop' = TRUE /\ clock' = clock /\ mon' = mon
  BY DEF Signal
<1> QED BY <1>1 DEF MonitorInv, TypeOK, LoopCode, LoopTime, ExitCodeTellsTruth, At

LEMMA OpenLineKeeps ==
  ASSUME MonitorInv, OpenLine
  PROVE  MonitorInv'
<1>1. /\ clock' = clock /\ stop' = stop /\ TypeOK /\ mon.pc = "open" /\ mon.code = "none"
      /\ \/ mon' = [mon EXCEPT !.pc = "exited", !.code = "3"]
         \/ mon' = [mon EXCEPT !.pc = "started"]
  BY DEF OpenLine, Exits, MonitorInv, LoopCode, At
<1>2. TypeOK'
  BY <1>1 DEF TypeOK, ExitCode
<1>3. \/ mon'.pc = "exited" /\ mon'.code = "3"
      \/ mon'.pc = "started" /\ mon'.code = "none"
  BY <1>1 DEF TypeOK
<1>4. LoopCode' /\ LoopTime' /\ ExitCodeTellsTruth'
  BY <1>3 DEF LoopCode, LoopTime, ExitCodeTellsTruth, At
<1> QED BY <1>2, <1>4 DEF MonitorInv

LEMMA StartSessionKeeps ==
  ASSUME MonitorInv, StartSession
  PROVE  MonitorInv'
<1>1. TypeOK /\ mon.pc = "started" /\ mon.code = "none" /\ stop' = stop
  BY DEF StartSession, MonitorInv, LoopCode, At
<1>2. PICK t \in Readings \cup {0}:
        /\ clock' = Larger(clock, t)
        /\ IF SaturatedAddMilliseconds(t, Timeout) <= 0 THEN Exits("4")
           ELSE mon' = [mon EXCEPT !.pc = "loop",
                                   !.deadline = SaturatedAddMilliseconds(t, Timeout)]
  BY DEF StartSession
<1> DEFINE deadline == SaturatedAddMilliseconds(t, Timeout)
<1>3. t \in Time /\ clock' \in Time /\ (t > 0 => clock' = t)
  BY <1>1, <1>2, ClockReadings
<1>4. deadline \in Time /\ (deadline > 0 => t > 0 /\ t < deadline)
  BY <1>3, MonitorNumbers DEF SaturatedAddMilliseconds, Time
<1>5. IF deadline <= 0 THEN mon' = [mon EXCEPT !.pc = "exited", !.code = "4"]
      ELSE mon' = [mon EXCEPT !.pc = "loop", !.deadline = deadline]
  BY <1>2 DEF Exits
<1> HIDE DEF deadline
<1>6. CASE deadline <= 0
  <2>1. mon' = [mon EXCEPT !.pc = "exited", !.code = "4"]
    BY <1>5, <1>6
  <2>2. TypeOK' /\ mon'.pc = "exited" /\ mon'.code = "4"
    BY <1>1, <1>3, <2>1 DEF TypeOK, ExitCode
  <2> QED BY <2>2 DEF MonitorInv, LoopCode, LoopTime, ExitCodeTellsTruth, At
<1>7. CASE ~(deadline <= 0)
  <2>1. mon' = [mon EXCEPT !.pc = "loop", !.deadline = deadline]
    BY <1>5, <1>7
  <2>2. TypeOK' /\ mon'.pc = "loop" /\ mon'.code = "none" /\ mon'.deadline = deadline
    BY <1>1, <1>3, <1>4, <2>1 DEF TypeOK, ExitCode
  <2>3. clock' <= mon'.deadline + MaxOverrun
    BY <1>3, <1>4, <1>7, <2>2, MonitorNumbers DEF Time
  <2> QED BY <2>2, <2>3 DEF MonitorInv, LoopCode, LoopTime, ExitCodeTellsTruth, At
<1> QED BY <1>6, <1>7

LEMMA LoopEndsKeeps ==
  ASSUME MonitorInv, LoopEnds
  PROVE  MonitorInv'
<1>1. /\ TypeOK /\ mon.pc = "loop" /\ mon.code = "none" /\ clock' = clock /\ stop' = stop
      /\ mon' = [mon EXCEPT !.pc = "done"] /\ clock <= mon.deadline + MaxOverrun
  BY DEF LoopEnds, MonitorInv, LoopCode, LoopTime, At
<1>2. TypeOK' /\ mon'.pc = "done" /\ mon'.code = "none" /\ mon'.deadline = mon.deadline
  BY <1>1 DEF TypeOK, ExitCode
<1>3. clock' <= mon'.deadline + MaxOverrun + MaxDelay
  BY <1>1, <1>2, MonitorNumbers DEF TypeOK, Time
<1> QED BY <1>2, <1>3 DEF MonitorInv, LoopCode, LoopTime, ExitCodeTellsTruth, At

LEMMA LoopTurnsKeeps ==
  ASSUME MonitorInv, LoopTurns
  PROVE  MonitorInv'
<1>1. /\ TypeOK /\ mon.pc = "loop" /\ mon.code = "none" /\ stop' = stop
      /\ mon.frames < FrameCount /\ clock <= mon.deadline + MaxOverrun
  BY DEF LoopTurns, MonitorInv, LoopCode, LoopTime, At
<1>2. PICK t \in Readings \cup {0}:
        /\ clock' = Larger(clock, t)
        /\ mon' = IF t <= 0 \/ t >= mon.deadline
                  THEN [mon EXCEPT !.pc = "done", !.code = "5"]
                  ELSE [mon EXCEPT !.pc = "read", !.now = t]
  BY DEF LoopTurns
<1>3. t \in Time /\ clock' \in Time /\ clock' <= clock + MaxDelay /\ (t > 0 => clock' = t)
  BY <1>1, <1>2, ClockReadings
<1>4. CASE t <= 0 \/ t >= mon.deadline
  <2>1. mon' = [mon EXCEPT !.pc = "done", !.code = "5"]
    BY <1>2, <1>4
  <2>2. /\ TypeOK' /\ mon'.pc = "done" /\ mon'.code = "5" /\ mon'.deadline = mon.deadline
        /\ mon'.frames = mon.frames
    BY <1>1, <1>3, <2>1 DEF TypeOK, ExitCode
  <2>3. clock' <= mon'.deadline + MaxOverrun + MaxDelay
    BY <1>1, <1>3, <2>2, MonitorNumbers DEF TypeOK, Time
  <2> QED BY <1>1, <2>2, <2>3 DEF MonitorInv, LoopCode, LoopTime, ExitCodeTellsTruth, At
<1>5. CASE ~(t <= 0 \/ t >= mon.deadline)
  <2>1. mon' = [mon EXCEPT !.pc = "read", !.now = t]
    BY <1>2, <1>5
  <2>2. /\ TypeOK' /\ mon'.pc = "read" /\ mon'.code = "none" /\ mon'.deadline = mon.deadline
        /\ mon'.now = t
    BY <1>1, <1>3, <2>1 DEF TypeOK, ExitCode
  <2>3. clock' = mon'.now /\ mon'.now < mon'.deadline
    BY <1>1, <1>3, <1>5, <2>2 DEF TypeOK, Time
  <2> QED BY <2>2, <2>3 DEF MonitorInv, LoopCode, LoopTime, ExitCodeTellsTruth, At
<1> QED BY <1>4, <1>5

LEMMA ReadLineKeeps ==
  ASSUME MonitorInv, ReadLine
  PROVE  MonitorInv'
<1>1. /\ TypeOK /\ mon.pc = "read" /\ mon.code = "none" /\ stop' = stop
      /\ clock = mon.now /\ mon.now < mon.deadline
  BY DEF ReadLine, MonitorInv, LoopCode, LoopTime, At
<1> DEFINE until == ReadDeadline(mon.now)
<1>2. /\ clock \in Int /\ 0 <= clock /\ clock <= Int64Max /\ mon.now \in Time
      /\ mon.deadline \in Int /\ 0 <= mon.deadline /\ mon.deadline <= Int64Max
  BY <1>1, MonitorNumbers DEF TypeOK, Time
<1>3. until \in Nat /\ mon.now < until /\ until <= mon.deadline
  <2>1. ReadSlice >= 1
    BY MonitorAssumption
  <2> QED BY <1>1, <1>2, <2>1, MonitorNumbers DEF ReadDeadline, Smaller
<1>4. PICK r \in ReadResults(mon.now, until):
        /\ clock' = Smaller(Int64Max, Larger(clock + 1, r.completion))
        /\ mon' = CASE r.status = "kDeadlineExceeded" -> [mon EXCEPT !.pc = "loop", !.now = 0]
                    [] r.status = "kOk" -> [mon EXCEPT !.pc = "count", !.now = 0]
                    [] OTHER -> [mon EXCEPT !.pc = "done", !.code = "6", !.now = 0]
  BY DEF ReadLine
<1> HIDE DEF until
<1>5. r.completion \in Int /\ mon.now <= r.completion /\ r.completion <= until + MaxOverrun
  BY <1>2, <1>3, <1>4, ReadReturns
<1>6. clock' \in Time /\ clock' <= mon.deadline + MaxOverrun
  <2> DEFINE c == r.completion
  <2>1. c \in Int /\ 0 <= c /\ c <= mon.deadline + MaxOverrun
    BY <1>1, <1>2, <1>3, <1>5, MonitorNumbers
  <2>2. clock' = Smaller(Int64Max, Larger(clock + 1, c))
    BY <1>4
  <2> HIDE DEF c
  <2> QED BY <1>1, <1>2, <2>1, <2>2, MonitorNumbers DEF Smaller, Larger, Time
<1>7. \/ mon' = [mon EXCEPT !.pc = "loop", !.now = 0]
      \/ mon' = [mon EXCEPT !.pc = "count", !.now = 0]
      \/ mon' = [mon EXCEPT !.pc = "done", !.code = "6", !.now = 0]
  BY <1>4
<1>8. 0 \in Time
  BY MonitorNumbers DEF Time
<1>9. /\ TypeOK' /\ mon'.deadline = mon.deadline
      /\ \/ mon'.pc \in {"loop", "count"} /\ mon'.code = "none"
         \/ mon'.pc = "done" /\ mon'.code = "6"
  BY <1>1, <1>6, <1>7, <1>8 DEF TypeOK, ExitCode
<1>10. /\ clock' <= mon'.deadline + MaxOverrun
       /\ clock' <= mon'.deadline + MaxOverrun + MaxDelay
  BY <1>2, <1>6, <1>9, MonitorNumbers DEF Time
<1> QED BY <1>9, <1>10 DEF MonitorInv, LoopCode, LoopTime, ExitCodeTellsTruth, At

LEMMA CountFramesKeeps ==
  ASSUME MonitorInv, CountFrames
  PROVE  MonitorInv'
<1>1. /\ TypeOK /\ mon.pc = "count" /\ mon.code = "none" /\ stop' = stop /\ clock' = clock
      /\ clock <= mon.deadline + MaxOverrun
  BY DEF CountFrames, MonitorInv, LoopCode, LoopTime, At
<1>2. PICK found \in 0..MaxFrames:
        mon' = [mon EXCEPT !.pc = "loop", !.frames = Smaller(FrameCount, mon.frames + found)]
  BY DEF CountFrames
<1>3. Smaller(FrameCount, mon.frames + found) \in 0..FrameCount
  <2>1. mon.frames \in 0..FrameCount
    BY <1>1 DEF TypeOK
  <2> QED BY <2>1, MonitorNumbers DEF Smaller
<1>4. TypeOK' /\ mon'.pc = "loop" /\ mon'.code = "none" /\ mon'.deadline = mon.deadline
  BY <1>1, <1>2, <1>3 DEF TypeOK, ExitCode
<1> QED BY <1>1, <1>4 DEF MonitorInv, LoopCode, LoopTime, ExitCodeTellsTruth, At

LEMMA FinishKeeps ==
  ASSUME MonitorInv, Finish
  PROVE  MonitorInv'
<1>1. /\ TypeOK /\ mon.pc = "done" /\ stop' = stop /\ clock' = clock
      /\ mon.code \in {"none", "5", "6"} /\ (mon.code = "5" => mon.frames < FrameCount)
      /\ mon' = [mon EXCEPT !.pc = "exited", !.code = ResultCode]
  BY DEF Finish, Exits, MonitorInv, LoopCode, At
<1>2. mon.frames \in 0..FrameCount
  BY <1>1 DEF TypeOK
<1>3. /\ ResultCode \in {"0", "5", "6", "130"}
      /\ ResultCode = "0" => mon.frames = FrameCount
      /\ ResultCode = "5" => mon.frames < FrameCount
      /\ ResultCode = "130" => stop
  BY <1>1, <1>2, MonitorNumbers DEF ResultCode
<1> DEFINE code == ResultCode
<1>4. mon' = [mon EXCEPT !.pc = "exited", !.code = code] /\ code \in ExitCode
  BY <1>1, <1>3 DEF ExitCode
<1> HIDE DEF code
<1>5. TypeOK' /\ mon'.pc = "exited" /\ mon'.code = code /\ mon'.frames = mon.frames
  BY <1>1, <1>4 DEF TypeOK
<1> QED BY <1>1, <1>3, <1>5 DEF MonitorInv, LoopCode, LoopTime, ExitCodeTellsTruth, At, code

LEMMA MonitorIdles ==
  ASSUME MonitorInv, UNCHANGED vars
  PROVE  MonitorInv'
BY DEF vars, MonitorInv, TypeOK, LoopCode, LoopTime, ExitCodeTellsTruth, At

\* Every step of the monitor keeps its invariant.
THEOREM MonitorInvariant == Spec => []MonitorInv
<1>1. Init => MonitorInv
  BY MonitorStarts
<1>2. MonitorInv /\ [Next]_vars => MonitorInv'
  BY SignalKeeps, OpenLineKeeps, StartSessionKeeps, LoopEndsKeeps, LoopTurnsKeeps,
     ReadLineKeeps, CountFramesKeeps, FinishKeeps, MonitorIdles DEF Next, Process
<1> QED BY <1>1, <1>2, PTL DEF Spec

\* For every --frames and --timeout-ms and every scheduling delay: the exit
\* code of the monitor's main() is true of its count and of the signal.
THEOREM ExitCodeIsTrue == Spec => []ExitCodeTellsTruth
<1>1. MonitorInv => ExitCodeTellsTruth
  BY DEF MonitorInv
<1> QED BY <1>1, MonitorInvariant, PTL

\* And no read outlasts the session's deadline by more than the scheduler's
\* delays, though each has only a slice of it.
THEOREM SessionKeepsItsDeadline == Spec => []SessionIsBounded
<1>1. MonitorInv => SessionIsBounded
  <2> SUFFICES ASSUME MonitorInv, At("count") \/ At("done") PROVE SessionIsBounded
    BY DEF SessionIsBounded
  <2>1. clock \in Int /\ clock <= Int64Max /\ mon.deadline \in Int
    BY MonitorNumbers DEF MonitorInv, TypeOK, Time
  <2>2. clock <= mon.deadline + MaxOverrun + MaxDelay
    BY <2>1, MonitorNumbers DEF MonitorInv, LoopTime
  <2> QED BY <2>1, <2>2, MonitorNumbers DEF SessionIsBounded, Smaller
<1> QED BY <1>1, MonitorInvariant, PTL

=============================================================================
