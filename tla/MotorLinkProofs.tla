--------------------------- MODULE MotorLinkProofs ---------------------------
(***************************************************************************)
(* That a command puts on the line what it says or nothing whole, and that *)
(* byte2msg makes of every string of bytes what it means or nothing: for   *)
(* all channels, numbers and bytes.                                        *)
(***************************************************************************)
EXTENDS MotorLink, Induction, SequenceTheorems

\* The least of a set of integers is its lower bound in it.
LEMMA MinIs ==
    ASSUME NEW S \in SUBSET Int, NEW x \in S, \A y \in S : x <= y
    PROVE  Min(S) = x
<1>1. \A z \in S : (\A y \in S : z =< y) => z = x
  OBVIOUS
<1>2. QED BY <1>1 DEF Min

\* The greatest of a set of integers is its upper bound in it.
LEMMA MaxIs ==
    ASSUME NEW S \in SUBSET Int, NEW x \in S, \A y \in S : x >= y
    PROVE  Max(S) = x
<1>1. \A z \in S : (\A y \in S : z >= y) => z = x
  OBVIOUS
<1>2. QED BY <1>1 DEF Max

\* Every set of naturals that is not empty has its Min in it.
LEMMA MinNat ==
    ASSUME NEW S \in SUBSET Nat, S # {}
    PROVE  Min(S) \in S /\ \A y \in S : Min(S) <= y
<1>1. PICK x \in S : \A y \in S : x <= y
  BY LeastNat
<1>2. QED BY <1>1 DEF Min

\* What Number adds up.
LEMMA NumberUnfolds ==
    ASSUME NEW bits
    PROVE  \E r : /\ r \in [0..31 -> Nat] /\ r[0] = 0
                 /\ \A k \in 1..31 : r[k] = 2 * r[k - 1] + (IF 31 - k \in bits THEN 1 ELSE 0)
                 /\ Number(bits) = r[31]
<1> DEFINE Unfold(f) == [k \in 0..31 |->
               IF k = 0 THEN 0 ELSE 2 * f[k - 1] + (IF 31 - k \in bits THEN 1 ELSE 0)]
           r == CHOOSE f : f = Unfold(f)
           step == [k \in 1..31 |-> [x \in Nat |-> 2 * x + (IF 31 - k \in bits THEN 1 ELSE 0)]]
<1>1. Number(bits) = r[31]
  BY DEF Number
<1>2. step \in Steps(31, Nat)
  BY DEF Steps
<1>3. PICK f : Follows(f, 31, Nat, 0, step)
  <2> HIDE DEF step
  <2>1. QED BY <1>2, RecursionUpTo
<1>4. f \in [0..31 -> Nat] /\ f[0] = 0
  BY <1>3 DEF Follows
<1>5. \A k \in 1..31 : f[k] = 2 * f[k - 1] + (IF 31 - k \in bits THEN 1 ELSE 0)
  <2>1. \A k \in 1..31 : k - 1 \in 0..31 /\ f[k] = step[k][f[k - 1]]
    <3> HIDE DEF step
    <3>1. QED BY <1>3 DEF Follows
  <2>2. QED BY <1>4, <2>1
<1>6. f = Unfold(f)
  <2>1. \A k \in 0..31 : k = 0 \/ k \in 1..31
    OBVIOUS
  <2>2. QED BY <1>4, <1>5, <2>1
<1>7. r = Unfold(r)
  BY <1>6
<1> HIDE DEF r
<1>8. \A g : g = Unfold(g) => g = f
  <2>1. SUFFICES ASSUME NEW g, g = Unfold(g) PROVE g = f
    OBVIOUS
  <2>2. g = [k \in 0..31 |-> g[k]] /\ g[0] = 0
    BY <2>1
  <2>3. \A k \in 1..31 : g[k] = 2 * g[k - 1] + (IF 31 - k \in bits THEN 1 ELSE 0)
    BY <2>1
  <2> DEFINE T == {k \in 0..31 : g[k] = f[k]}
  <2>4. 0 \in T
    BY <1>4, <2>2
  <2>5. ASSUME NEW n \in 0..31, n \in T, n < 31 PROVE n + 1 \in T
    <3>1. n + 1 \in 1..31 /\ (n + 1) - 1 = n
      BY <2>5
    <3>2. QED BY <1>5, <2>3, <2>5, <3>1
  <2>6. 0..31 \subseteq T
    <3> HIDE DEF T
    <3>1. QED BY <2>4, <2>5, InductionUpTo
  <2>7. QED BY <1>4, <2>2, <2>6
<1>9. r = f
  BY <1>7, <1>8
<1>10. QED BY <1>1, <1>4, <1>5, <1>9

\* Bits come to a natural number.
LEMMA NumberNat == ASSUME NEW bits PROVE Number(bits) \in Nat
BY NumberUnfolds

\* Numbers of five bits.
LEMMA NumberSmall ==
    ASSUME NEW bits, bits \cap 5..30 = {}
    PROVE  Number(bits) = (IF 0 \in bits THEN 1 ELSE 0) + (IF 1 \in bits THEN 2 ELSE 0)
               + (IF 2 \in bits THEN 4 ELSE 0) + (IF 3 \in bits THEN 8 ELSE 0)
               + (IF 4 \in bits THEN 16 ELSE 0)
<1>1. PICK r : /\ r \in [0..31 -> Nat] /\ r[0] = 0
               /\ \A k \in 1..31 : r[k] = 2 * r[k - 1] + (IF 31 - k \in bits THEN 1 ELSE 0)
               /\ Number(bits) = r[31]
  BY NumberUnfolds
<1>2. r[26] = 0
  <2> DEFINE T == {k \in 0..26 : r[k] = 0}
  <2>1. 0 \in T
    BY <1>1
  <2>2. ASSUME NEW n \in 0..26, n \in T, n < 26 PROVE n + 1 \in T
    <3>1. n + 1 \in 1..31 /\ (n + 1) - 1 = n /\ 31 - (n + 1) \notin bits
      BY <2>2
    <3>2. QED BY <1>1, <2>2, <3>1
  <2> HIDE DEF T
  <2>3. 0..26 \subseteq T
    BY <2>1, <2>2, InductionUpTo
  <2>4. QED BY <2>3 DEF T
<1>3. \A k \in 1..31 : r[k] = 2 * r[k - 1] + (IF 31 - k \in bits THEN 1 ELSE 0)
  BY <1>1
<1>4. /\ r[27] = (IF 4 \in bits THEN 1 ELSE 0)
      /\ r[28] = 2 * r[27] + (IF 3 \in bits THEN 1 ELSE 0)
      /\ r[29] = 2 * r[28] + (IF 2 \in bits THEN 1 ELSE 0)
      /\ r[30] = 2 * r[29] + (IF 1 \in bits THEN 1 ELSE 0)
      /\ r[31] = 2 * r[30] + (IF 0 \in bits THEN 1 ELSE 0)
  BY <1>2, <1>3
<1>5. Number(bits) = r[31]
  BY <1>1
<1>6. QED BY <1>4, <1>5

\* A number of five bits has these bits and stands for itself.
LEMMA BitsSmall ==
    ASSUME NEW n \in 0..31
    PROVE  /\ BitsOf(n) \subseteq 0..4
           /\ Number(BitsOf(n)) = n
<1>1. 2^0 = 1 /\ 2^1 = 2 /\ 2^2 = 4 /\ 2^3 = 8 /\ 2^4 = 16
  OBVIOUS
<1>2. /\ 0 \in BitsOf(n) <=> n % 2 = 1
      /\ 1 \in BitsOf(n) <=> (n \div 2) % 2 = 1
      /\ 2 \in BitsOf(n) <=> (n \div 4) % 2 = 1
      /\ 3 \in BitsOf(n) <=> (n \div 8) % 2 = 1
      /\ 4 \in BitsOf(n) <=> (n \div 16) % 2 = 1
  BY <1>1 DEF BitsOf
<1>3. ASSUME NEW i \in 5..30 PROVE i \notin BitsOf(n)
  <2>1. \/ i = 5 \/ i = 6 \/ i = 7 \/ i = 8 \/ i = 9 \/ i = 10 \/ i = 11 \/ i = 12 \/ i
          = 13 \/ i = 14 \/ i = 15 \/ i = 16 \/ i = 17 \/ i = 18 \/ i = 19 \/ i = 20
          \/ i = 21 \/ i = 22 \/ i = 23 \/ i = 24 \/ i = 25 \/ i = 26 \/ i = 27 \/ i =
          28 \/ i = 29 \/ i = 30
    OBVIOUS
  <2> DEFINE P(k) == 2^k
  <2>2. /\ P(5) = 32 /\ P(6) = 64 /\ P(7) = 128 /\ P(8) = 256 /\ P(9) = 512
        /\ P(10) = 1024 /\ P(11) = 2048 /\ P(12) = 4096 /\ P(13) = 8192 /\ P(14) = 16384
        /\ P(15) = 32768 /\ P(16) = 65536 /\ P(17) = 131072 /\ P(18) = 262144 /\ P(19) = 524288
        /\ P(20) = 1048576 /\ P(21) = 2097152 /\ P(22) = 4194304 /\ P(23) = 8388608 /\ P(24) = 16777216
        /\ P(25) = 33554432 /\ P(26) = 67108864 /\ P(27) = 134217728 /\ P(28) = 268435456 /\ P(29) = 536870912
        /\ P(30) = 1073741824
    OBVIOUS
  <2>3. P(i) \in Nat /\ P(i) > 31
    <3> HIDE DEF P
    <3>1. QED BY <2>1, <2>2
  <2>4. \A p \in Nat : p > 31 => n \div p = 0
    OBVIOUS
  <2>5. QED BY <2>3, <2>4 DEF BitsOf
<1>4. BitsOf(n) \subseteq 0..4
  <2>1. BitsOf(n) \subseteq 0..30
    BY DEF BitsOf
  <2>2. QED BY <1>3, <2>1
<1>5. QED
  <2>1. BitsOf(n) \cap 5..30 = {}
    BY <1>4
  <2>2. /\ n % 2 \in {0, 1} /\ (n \div 2) % 2 \in {0, 1} /\ (n \div 4) % 2 \in {0, 1}
        /\ (n \div 8) % 2 \in {0, 1} /\ (n \div 16) % 2 \in {0, 1}
        /\ n = (n % 2) + 2 * ((n \div 2) % 2) + 4 * ((n \div 4) % 2)
                 + 8 * ((n \div 8) % 2) + 16 * ((n \div 16) % 2)
    OBVIOUS
  <2>3. QED BY <1>2, <1>4, <2>1, <2>2, NumberSmall
-----------------------------------------------------------------------------
(* Streams.                                                                *)

\* The stream in has before it the bytes of s from the i-th on.
AtByte(in, s, i) ==
    /\ s \in Seq(Byte) /\ i \in 1..(Len(s) + 1)
    /\ in \in [buf : Seq(Byte), pos : Nat, left : Nat]
    /\ in.left = Len(s) + 1 - i
    /\ in.pos + in.left <= Len(in.buf)
    /\ \A k \in 1..in.left : Ahead(in, k) = s[i + k - 1]

\* After n bytes the stream has before it what follows them.
LEMMA Advances ==
    ASSUME NEW in, NEW s, NEW i, AtByte(in, s, i), NEW n \in 0..in.left
    PROVE  AtByte(Advance(in, n), s, i + n)
<1>1. /\ s \in Seq(Byte) /\ i \in 1..(Len(s) + 1) /\ Len(s) \in Nat
      /\ in \in [buf : Seq(Byte), pos : Nat, left : Nat]
      /\ in.left = Len(s) + 1 - i
      /\ in.pos + in.left <= Len(in.buf)
  BY LenProperties DEF AtByte
<1>2. Advance(in, n) = [buf |-> in.buf, pos |-> in.pos + n, left |-> in.left - n]
  BY DEF Advance
<1>3. ASSUME NEW k \in 1..(in.left - n)
      PROVE  Ahead(Advance(in, n), k) = s[i + n + k - 1]
  <2>1. n + k \in 1..in.left
    BY <1>1
  <2>2. Ahead(in, n + k) = s[i + (n + k) - 1]
    BY <2>1 DEF AtByte
  <2>3. in.pos + n + k = in.pos + (n + k) /\ i + n + k - 1 = i + (n + k) - 1
    BY <1>1
  <2>4. QED BY <1>2, <2>2, <2>3 DEF Ahead
<1>4. i + n \in 1..(Len(s) + 1) /\ in.left - n \in Nat /\ in.pos + n \in Nat
  BY <1>1
<1>5. Advance(in, n) \in [buf : Seq(Byte), pos : Nat, left : Nat]
  BY <1>1, <1>2, <1>4
<1> DEFINE a == Advance(in, n)
<1>6. /\ a.left = Len(s) + 1 - (i + n) /\ a.pos + a.left <= Len(a.buf)
      /\ \A k \in 1..a.left : Ahead(a, k) = s[i + n + k - 1]
  BY <1>1, <1>2, <1>3, <1>4
<1>7. a \in [buf : Seq(Byte), pos : Nat, left : Nat] /\ s \in Seq(Byte) /\ i + n \in 1..(Len(s) + 1)
  BY <1>1, <1>4, <1>5
<1> HIDE DEF a
<1>8. AtByte(a, s, i + n)
  BY <1>6, <1>7 DEF AtByte
<1>9. QED BY <1>8 DEF a

\* A buffer is read from its first byte on.
LEMMA FromBuffer ==
    ASSUME NEW b \in Seq(Byte)
    PROVE  AtByte(IstreamFromBuffer(b), b, 1)
<1>1. Len(b) \in Nat
  BY LenProperties
<1>2. IstreamFromBuffer(b) \in [buf : Seq(Byte), pos : Nat, left : Nat]
  BY <1>1 DEF IstreamFromBuffer
<1>3. \A k \in 1..Len(b) : Ahead(IstreamFromBuffer(b), k) = b[1 + k - 1]
  BY <1>1 DEF IstreamFromBuffer, Ahead
<1>4. QED BY <1>1, <1>2, <1>3 DEF AtByte, IstreamFromBuffer

\* The elements of a sequence of bytes are sets of bits 0..7.
LEMMA BytesOf ==
    ASSUME NEW s \in Seq(Byte)
    PROVE  Len(s) \in Nat /\ \A k \in 1..Len(s) : s[k] \subseteq 0..7
BY LenProperties, ElementOfSeq DEF Byte

\* A part of a sequence of bytes.
LEMMA PartOf ==
    ASSUME NEW s \in Seq(Byte), NEW i \in 1..(Len(s) + 1), NEW n \in 0..(Len(s) + 1 - i)
    PROVE  /\ SubSeq(s, i, i + n - 1) \in Seq(Byte)
           /\ Len(SubSeq(s, i, i + n - 1)) = n
           /\ \A k \in 1..n : SubSeq(s, i, i + n - 1)[k] = s[i + k - 1]
<1>1. Len(s) \in Nat /\ i \in Nat /\ n \in Nat
  BY LenProperties
<1>2. \A k \in i..(i + n - 1) : k \in 1..Len(s)
  BY <1>1
<1>3. \A k \in i..(i + n - 1) : s[k] \in Byte
  BY <1>2, ElementOfSeq
<1>4. i \in Int /\ i + n - 1 \in Int
  BY <1>1
<1>5. /\ SubSeq(s, i, i + n - 1) \in Seq(Byte)
      /\ Len(SubSeq(s, i, i + n - 1)) = IF i <= i + n - 1 THEN (i + n - 1) - i + 1 ELSE 0
      /\ \A k \in 1..((i + n - 1) - i + 1) : SubSeq(s, i, i + n - 1)[k] = s[i + k - 1]
  BY <1>1, <1>2, <1>3, <1>4, SubSeqProperties
<1>6. QED BY <1>1, <1>5

\* Read takes the bytes that are there, or fails.
LEMMA Reads ==
    ASSUME NEW in, NEW s, NEW i, AtByte(in, s, i), NEW n \in Nat
    PROVE  /\ Read(in, n).ok <=> i + n - 1 <= Len(s)
           /\ Read(in, n).ok => /\ AtByte(Read(in, n).in, s, i + n)
                                /\ Read(in, n).val = SubSeq(s, i, i + n - 1)
           /\ ~ Read(in, n).ok => Read(in, n).in = in
           /\ Read(in, n).ok \in BOOLEAN
<1>1. /\ s \in Seq(Byte) /\ i \in 1..(Len(s) + 1) /\ Len(s) \in Nat
      /\ in \in [buf : Seq(Byte), pos : Nat, left : Nat]
      /\ in.left = Len(s) + 1 - i
      /\ in.pos + in.left <= Len(in.buf)
      /\ \A k \in 1..in.left : in.buf[in.pos + k] = s[i + k - 1]
  BY LenProperties DEF AtByte, Ahead
<1>2. CASE in.left < n
  BY <1>1, <1>2 DEF Read, Fail
<1>3. CASE n <= in.left
  <2>1. Read(in, n) = [ok |-> TRUE, in |-> Advance(in, n), val |-> SubSeq(in.buf, in.pos + 1, in.pos + n)]
    BY <1>1, <1>3 DEF Read, Done
  <2>2. AtByte(Advance(in, n), s, i + n)
    <3>1. n \in 0..in.left
      BY <1>1, <1>3
    <3>2. QED BY <3>1, Advances
  <2>3. /\ in.buf \in Seq(Byte) /\ Len(in.buf) \in Nat
        /\ in.pos + 1 \in 1..(Len(in.buf) + 1) /\ n \in 0..(Len(in.buf) + 1 - (in.pos + 1))
        /\ n \in 0..(Len(s) + 1 - i) /\ (in.pos + 1) + n - 1 = in.pos + n
    BY <1>1, <1>3, LenProperties
  <2> DEFINE u == SubSeq(in.buf, in.pos + 1, in.pos + n)
             v == SubSeq(s, i, i + n - 1)
  <2>4. u \in Seq(Byte) /\ Len(u) = n /\ \A k \in 1..n : u[k] = in.buf[in.pos + 1 + k - 1]
    <3> DEFINE c == in.buf
               j == in.pos + 1
    <3>1. c \in Seq(Byte) /\ j \in 1..(Len(c) + 1) /\ n \in 0..(Len(c) + 1 - j) /\ j + n - 1 = in.pos + n
      BY <2>3
    <3> HIDE DEF c, j
    <3>2. /\ SubSeq(c, j, j + n - 1) \in Seq(Byte) /\ Len(SubSeq(c, j, j + n - 1)) = n
          /\ \A k \in 1..n : SubSeq(c, j, j + n - 1)[k] = c[j + k - 1]
      BY <3>1, PartOf
    <3>3. QED BY <3>1, <3>2 DEF c, j
  <2>5. v \in Seq(Byte) /\ Len(v) = n /\ \A k \in 1..n : v[k] = s[i + k - 1]
    BY <1>1, <2>3, PartOf
  <2>6. \A k \in 1..n : u[k] = v[k]
    <3> HIDE DEF u, v
    <3>1. ASSUME NEW k \in 1..n PROVE u[k] = v[k]
      <4>1. in.pos + 1 + k - 1 = in.pos + k /\ k \in 1..in.left
        BY <1>1, <1>3
      <4>2. u[k] = in.buf[in.pos + k] /\ v[k] = s[i + k - 1]
        BY <2>4, <2>5, <4>1
      <4>3. QED BY <1>1, <4>1, <4>2
    <3>2. QED BY <3>1
  <2>7. u = v
    <3> HIDE DEF u, v
    <3>1. QED BY <2>4, <2>5, <2>6, SeqEqual
  <2>8. QED BY <1>1, <1>3, <2>1, <2>2, <2>7
<1>4. QED BY <1>1, <1>2, <1>3
-----------------------------------------------------------------------------
(* Integers of variable length.                                            *)

\* Where the reading of an integer ends, if it refuses the bytes of R, and what
\* it returns.
EndsAt(in, R) == {k \in 1..in.left : 7 \notin Ahead(in, k) \/ k \in R}
ReadUpTo(in, w, R) ==
    IF EndsAt(in, R) = {} THEN Fail(Advance(in, in.left))
    ELSE IF Min(EndsAt(in, R)) \in R THEN Fail(Advance(in, Min(EndsAt(in, R))))
    ELSE Done(Advance(in, Min(EndsAt(in, R))), Gathered(in, Min(EndsAt(in, R)), w))

\* Where an integer of variable length ends, if it ends.
LEMMA VarintEndIs ==
    ASSUME NEW s \in Seq(Byte), NEW i \in Nat \ {0}, VarintEnds(s, i) # {}
    PROVE  /\ VarintEnd(s, i) \in i..Len(s)
           /\ 7 \notin s[VarintEnd(s, i)]
           /\ \A k \in i..(VarintEnd(s, i) - 1) : 7 \in s[k]
<1>1. VarintEnds(s, i) \in SUBSET Nat /\ Len(s) \in Nat
  BY LenProperties DEF VarintEnds
<1>2. VarintEnd(s, i) \in VarintEnds(s, i) /\ \A y \in VarintEnds(s, i) : VarintEnd(s, i) <= y
  BY <1>1, MinNat DEF VarintEnd
<1>3. ASSUME NEW k \in i..(VarintEnd(s, i) - 1), 7 \notin s[k] PROVE FALSE
  <2>1. k \in VarintEnds(s, i)
    BY <1>1, <1>2, <1>3 DEF VarintEnds
  <2>2. QED BY <1>1, <1>2, <1>3, <2>1
<1>4. QED BY <1>2, <1>3 DEF VarintEnds

\* The bytes of an integer, gathered from a stream and in their sequence.
LEMMA GatheredIs ==
    ASSUME NEW in, NEW s, NEW i, AtByte(in, s, i), VarintEnds(s, i) # {}, NEW w \in Nat
    PROVE  Gathered(in, VarintEnd(s, i) - i + 1, w) = VarintAt(s, i) \cap 0..(w - 1)
<1>1. /\ s \in Seq(Byte) /\ i \in Nat \ {0} /\ i \in 1..(Len(s) + 1)
      /\ in.left = Len(s) + 1 - i /\ Len(s) \in Nat
  BY LenProperties DEF AtByte
<1> DEFINE e == VarintEnd(s, i)
<1>2. e \in i..Len(s)
  BY <1>1, VarintEndIs
<1> DEFINE g(k) == Shift(s[k] \cap 0..6, 7 * (k - i))
<1> HIDE DEF e
<1>3. ASSUME NEW j \in 1..(e - i + 1)
      PROVE  Shift(Ahead(in, j) \cap 0..6, 7 * (j - 1)) = g(i + j - 1)
  <2>1. j \in 1..in.left /\ (i + j - 1) - i = j - 1
    BY <1>1, <1>2
  <2>2. Ahead(in, j) = s[i + j - 1]
    BY <2>1 DEF AtByte
  <2>3. QED BY <2>1, <2>2
<1>4. ASSUME NEW k \in i..e
      PROVE  k - i + 1 \in 1..(e - i + 1) /\ i + (k - i + 1) - 1 = k
  BY <1>1, <1>2
<1>5. \A j \in 1..(e - i + 1) : i + j - 1 \in i..e
  BY <1>1, <1>2
<1> HIDE DEF g
<1>6. Gathered(in, e - i + 1, w) = UNION {g(i + j - 1) \cap 0..(w - 1) : j \in 1..(e - i + 1)}
  BY <1>3 DEF Gathered
<1>7. VarintAt(s, i) = UNION {g(k) : k \in i..e}
  BY DEF VarintAt, g, e
<1>8. ASSUME NEW x PROVE x \in Gathered(in, e - i + 1, w) <=> x \in VarintAt(s, i) \cap 0..(w - 1)
  <2>1. ASSUME x \in Gathered(in, e - i + 1, w) PROVE x \in VarintAt(s, i) \cap 0..(w - 1)
    BY <1>5, <1>6, <1>7, <2>1
  <2>2. ASSUME x \in VarintAt(s, i) \cap 0..(w - 1) PROVE x \in Gathered(in, e - i + 1, w)
    <3>1. PICK k \in i..e : x \in g(k)
      BY <1>7, <2>2
    <3>2. k - i + 1 \in 1..(e - i + 1) /\ x \in g(i + (k - i + 1) - 1)
      BY <1>4, <3>1
    <3>3. QED BY <1>6, <2>2, <3>2
  <2>3. QED BY <2>1, <2>2
<1>9. QED BY <1>8 DEF e

\* What a loop over the bytes of an integer returns, and where it stops.
LEMMA ReadsUpTo ==
    ASSUME NEW in, NEW s, NEW i, AtByte(in, s, i), NEW w \in Nat, NEW R
    PROVE  LET r == ReadUpTo(in, w, R)
               whole == /\ VarintEnds(s, i) # {}
                        /\ \A k \in 1..(VarintEnd(s, i) - i + 1) : k \notin R
           IN  /\ r.ok \in BOOLEAN /\ (r.ok <=> whole)
               /\ r.ok => /\ AtByte(r.in, s, VarintEnd(s, i) + 1)
                          /\ r.val = VarintAt(s, i) \cap 0..(w - 1)
               /\ \E j \in i..(Len(s) + 1) : AtByte(r.in, s, j) /\ (i <= Len(s) => j > i)
<1> DEFINE r == ReadUpTo(in, w, R)
           E == EndsAt(in, R)
           e == VarintEnd(s, i)
           whole == VarintEnds(s, i) # {} /\ \A k \in 1..(e - i + 1) : k \notin R
<1>1. /\ s \in Seq(Byte) /\ i \in Nat \ {0} /\ i \in 1..(Len(s) + 1)
      /\ in.left = Len(s) + 1 - i /\ Len(s) \in Nat
  BY LenProperties DEF AtByte
<1>2. E \in SUBSET Nat /\ \A k \in E : k \in 1..in.left
  BY <1>1 DEF EndsAt
<1>3. E # {} => Min(E) \in E /\ \A k \in E : Min(E) <= k
  <2> HIDE DEF E
  <2>1. QED BY <1>2, MinNat
<1>4. \A k \in 1..in.left : Ahead(in, k) = s[i + k - 1] /\ i + k - 1 \in i..Len(s)
  BY <1>1 DEF AtByte
<1>5. \A n \in 0..in.left : AtByte(Advance(in, n), s, i + n)
  BY Advances
<1>6. CASE whole
  <2>1. e \in i..Len(s) /\ 7 \notin s[e] /\ \A k \in i..(e - 1) : 7 \in s[k]
    BY <1>1, <1>6, VarintEndIs
  <2> HIDE DEF e
  <2>2. e - i + 1 \in 1..in.left /\ i + (e - i + 1) - 1 = e
    BY <1>1, <2>1
  <2>3. e - i + 1 \in E
    BY <1>4, <2>1, <2>2 DEF EndsAt
  <2>4. ASSUME NEW k \in E, k < e - i + 1 PROVE FALSE
    <3>1. k \in 1..in.left /\ i + k - 1 \in i..(e - 1) /\ k \in 1..(e - i + 1)
      BY <1>1, <1>2, <2>1, <2>4
    <3>2. 7 \in Ahead(in, k) /\ k \notin R
      BY <1>4, <1>6, <2>1, <3>1
    <3>3. QED BY <2>4, <3>2 DEF EndsAt
  <2>5. Min(E) = e - i + 1
    <3>1. \A k \in E : e - i + 1 <= k
      BY <1>1, <1>2, <2>1, <2>4
    <3>2. E \in SUBSET Int
      BY <1>2
    <3> HIDE DEF E
    <3>3. QED BY <2>3, <3>1, <3>2, MinIs
  <2>6. e - i + 1 \notin R /\ E # {}
    BY <1>6, <2>1, <2>3, <2>2
  <2>7. r = Done(Advance(in, e - i + 1), Gathered(in, e - i + 1, w))
    BY <2>5, <2>6 DEF ReadUpTo
  <2>8. AtByte(Advance(in, e - i + 1), s, e + 1)
    <3>1. AtByte(Advance(in, e - i + 1), s, i + (e - i + 1))
      BY <1>5, <2>2
    <3>2. i + (e - i + 1) = e + 1
      BY <1>1, <2>1
    <3>3. QED BY <3>1, <3>2
  <2>9. Gathered(in, e - i + 1, w) = VarintAt(s, i) \cap 0..(w - 1)
    BY <1>6, GatheredIs DEF e
  <2>10. /\ r.ok = TRUE /\ AtByte(r.in, s, e + 1) /\ r.val = VarintAt(s, i) \cap 0..(w - 1)
         /\ e + 1 \in i..(Len(s) + 1) /\ e + 1 > i
    BY <1>1, <2>1, <2>7, <2>8, <2>9 DEF Done
  <2> HIDE DEF r
  <2>11. QED BY <1>6, <2>10 DEF e, r
<1>7. CASE ~ whole
  <2>1. E # {} => Min(E) \in R
    <3>1. SUFFICES ASSUME E # {}, Min(E) \notin R PROVE FALSE
      OBVIOUS
    <3> DEFINE m == Min(E)
    <3>2. m \in 1..in.left /\ 7 \notin Ahead(in, m)
      BY <1>2, <1>3, <3>1 DEF EndsAt
    <3>3. i + m - 1 \in VarintEnds(s, i) /\ VarintEnds(s, i) # {}
      BY <1>4, <3>2 DEF VarintEnds
    <3>4. e \in i..Len(s) /\ 7 \notin s[e] /\ \A k \in i..(e - 1) : 7 \in s[k]
      BY <1>1, <3>3, VarintEndIs
    <3>5. e <= i + m - 1
      <4> HIDE DEF e, m
      <4>1. ~ (i + m - 1 \in i..(e - 1))
        BY <1>4, <3>2, <3>4
      <4>2. QED BY <1>1, <3>2, <3>4, <4>1
    <3>6. ASSUME NEW k \in 1..(e - i + 1) PROVE k \notin R
      <4> HIDE DEF e, m
      <4>1. k \in 1..in.left /\ k <= m
        BY <1>1, <3>2, <3>4, <3>5
      <4>2. k < m => k \notin E
        BY <1>2, <1>3, <3>1, <3>2 DEF m
      <4>3. k < m => k \notin R
        BY <4>1, <4>2 DEF EndsAt
      <4>4. QED BY <3>1, <4>1, <4>3, <3>2 DEF m
    <3>7. QED BY <1>7, <3>3, <3>6
  <2> DEFINE n == IF E = {} THEN in.left ELSE Min(E)
  <2>2. r = Fail(Advance(in, n))
    BY <2>1 DEF ReadUpTo
  <2>3. n \in 0..in.left /\ (in.left > 0 => n > 0)
    BY <1>1, <1>2, <1>3
  <2> HIDE DEF n
  <2>4. AtByte(Advance(in, n), s, i + n)
    BY <1>5, <2>3
  <2>5. i + n \in i..(Len(s) + 1) /\ (i <= Len(s) => i + n > i)
    BY <1>1, <2>3
  <2>6. r.ok = FALSE /\ r.in = Advance(in, n)
    BY <2>2 DEF Fail
  <2> HIDE DEF r
  <2>7. QED BY <1>7, <2>4, <2>5, <2>6 DEF r
<1>8. QED BY <1>6, <1>7

\* The library reads the integers of 32 bits that there are.
LEMMA Varint32Reads ==
    ASSUME NEW in, NEW s, NEW i, AtByte(in, s, i)
    PROVE  LET r == Varint32(in)
           IN  /\ r.ok \in BOOLEAN /\ (r.ok <=> Int32In(s, i))
               /\ r.ok => AtByte(r.in, s, VarintEnd(s, i) + 1) /\ r.val = Int32At(s, i)
               /\ \E j \in i..(Len(s) + 1) : AtByte(r.in, s, j) /\ (i <= Len(s) => j > i)
<1> DEFINE Refused(k) == Overflow32(Ahead(in, k), 7 * (k - 1), Gathered(in, k - 1, 32))
           R == {k \in 1..in.left : Refused(k)}
           r == Varint32(in)
           e == VarintEnd(s, i)
<1>1. /\ s \in Seq(Byte) /\ i \in Nat \ {0} /\ i \in 1..(Len(s) + 1)
      /\ in.left = Len(s) + 1 - i /\ Len(s) \in Nat
  BY LenProperties DEF AtByte
<1>2. r = ReadUpTo(in, 32, R)
  <2> DEFINE ends == {k \in 1..in.left : 7 \notin Ahead(in, k) \/ Refused(k)}
  <2>1. r = IF ends = {} THEN Fail(Advance(in, in.left))
            ELSE IF Refused(Min(ends)) THEN Fail(Advance(in, Min(ends)))
            ELSE Done(Advance(in, Min(ends)), Gathered(in, Min(ends), 32))
    BY DEF Varint32, VarintUpTo
  <2> HIDE DEF Refused, r
  <2>2. ends = EndsAt(in, R)
    BY DEF EndsAt
  <2>3. ends # {} => Min(ends) \in 1..in.left
    <3>1. ends \in SUBSET Nat /\ \A k \in ends : k \in 1..in.left
      BY <1>1
    <3> HIDE DEF ends
    <3>2. QED BY <3>1, MinNat
  <2>4. ends # {} => (Refused(Min(ends)) <=> Min(ends) \in R)
    BY <2>3
  <2> HIDE DEF ends, R
  <2>5. QED BY <2>1, <2>2, <2>4 DEF ReadUpTo
<1>3. \A k \in 1..in.left : Ahead(in, k) = s[i + k - 1]
  BY DEF AtByte
<1>4. ASSUME NEW k \in 1..in.left
      PROVE  k \in R <=> \/ k > 10
                         \/ k = 5 /\ s[i + 4] \cap 4..6 # {} /\ ~ (3..6 \subseteq s[i + 4])
                         \/ /\ k \in 6..10
                            /\ s[i + k - 1] \cap 0..6 # {}
                            /\ ~ (3 \in s[i + 4] /\ s[i + k - 1] = IF k = 10 THEN {0} ELSE 0..7)
  <2>1. k \in R <=> Refused(k)
    OBVIOUS
  <2>2. k >= 6 => (31 \in Gathered(in, k - 1, 32) <=> 3 \in s[i + 4])
    <3>1. SUFFICES ASSUME k >= 6 PROVE 31 \in Gathered(in, k - 1, 32) <=> 3 \in s[i + 4]
      OBVIOUS
    <3>2. 5 \in 1..(k - 1) /\ 5 \in 1..in.left /\ i + 5 - 1 = i + 4
      BY <1>1, <3>1
    <3>3. Ahead(in, 5) = s[i + 4]
      BY <1>3, <3>2
    <3>4. ASSUME NEW j \in 1..(k - 1)
          PROVE  31 \in Shift(Ahead(in, j) \cap 0..6, 7 * (j - 1)) <=> j = 5 /\ 3 \in Ahead(in, j)
      BY DEF Shift
    <3>5. 31 \in Gathered(in, k - 1, 32)
          <=> \E j \in 1..(k - 1) : 31 \in Shift(Ahead(in, j) \cap 0..6, 7 * (j - 1))
      BY DEF Gathered
    <3>6. QED BY <3>2, <3>3, <3>4, <3>5
  <2>3. Ahead(in, k) = s[i + k - 1] /\ (k = 5 => s[i + k - 1] = s[i + 4])
    BY <1>1, <1>3
  <2> DEFINE G == Gathered(in, k - 1, 32)
             c == s[i + k - 1]
  <2>4. Refused(k) <=> Overflow32(c, 7 * (k - 1), G)
    BY <2>3
  <2> HIDE DEF Refused, R, G, c
  <2>5. /\ 7 * (k - 1) >= 64 <=> k > 10
        /\ 7 * (k - 1) >= 32 <=> k >= 6
        /\ 7 * (k - 1) = 28 <=> k = 5
        /\ k \in 6..10 => (7 * (k - 1) < 63 <=> k # 10)
    OBVIOUS
  <2>6. Overflow32(c, 7 * (k - 1), G) <=>
            \/ k > 10
            \/ k >= 6 /\ c \cap 0..6 # {}
                      /\ ~ (31 \in G /\ c = IF 7 * (k - 1) < 63 THEN 0..7 ELSE {0})
            \/ k = 5 /\ c \cap 4..6 # {} /\ ~ (3..6 \subseteq c)
    BY <2>5 DEF Overflow32
  <2>7. CASE k > 10
    BY <2>1, <2>4, <2>6, <2>7
  <2>8. CASE k \in 6..10
    <3>1. 31 \in G <=> 3 \in s[i + 4]
      BY <2>2, <2>8 DEF G
    <3>2. (IF 7 * (k - 1) < 63 THEN 0..7 ELSE {0}) = (IF k = 10 THEN {0} ELSE 0..7)
      BY <2>5, <2>8
    <3>3. k >= 6 /\ ~ (k > 10) /\ k # 5
      BY <2>8
    <3>4. QED BY <2>1, <2>4, <2>6, <2>8, <3>1, <3>2, <3>3 DEF c
  <2>9. CASE k <= 5
    <3>1. ~ (k >= 6) /\ ~ (k > 10) /\ k \notin 6..10
      BY <2>9
    <3>2. k = 5 => c = s[i + 4]
      BY <2>3 DEF c
    <3>3. QED BY <2>1, <2>4, <2>6, <3>1, <3>2
  <2>10. QED BY <2>7, <2>8, <2>9
<1>5. VarintEnds(s, i) # {} => e \in i..Len(s)
  BY <1>1, VarintEndIs
<1>6. Int32In(s, i) <=> VarintEnds(s, i) # {} /\ \A k \in 1..(e - i + 1) : k \notin R
  <2> HIDE DEF R, e
  <2>1. ASSUME VarintEnds(s, i) # {}, \A k \in 1..(e - i + 1) : k \notin R
        PROVE  Int32In(s, i)
    <3>1. e \in i..Len(s) /\ e - i + 1 \in 1..in.left /\ \A k \in 1..(e - i + 1) : k \in 1..in.left
      BY <1>1, <1>5, <2>1
    <3>2. e <= i + 9
      <4>1. e - i + 1 \notin R
        BY <2>1, <3>1
      <4>2. ~ (e - i + 1 > 10)
        BY <1>4, <3>1, <4>1
      <4>3. QED BY <1>1, <3>1, <4>2
    <3>3. i + 4 <= e => s[i + 4] \cap 4..6 = {} \/ 3..6 \subseteq s[i + 4]
      <4>1. i + 4 <= e => 5 \in 1..(e - i + 1) /\ 5 \in 1..in.left
        BY <1>1, <3>1
      <4>2. QED BY <1>4, <2>1, <4>1
    <3>4. ASSUME NEW k \in (i + 5)..e
          PROVE  s[k] \cap 0..6 = {} \/ (3 \in s[i + 4] /\ s[k] = IF k = i + 9 THEN {0} ELSE 0..7)
      <4> DEFINE j == k - i + 1
      <4>1. j \in 1..(e - i + 1) /\ j \in 1..in.left /\ j \in 6..10 /\ i + j - 1 = k /\ (j = 10 <=> k = i + 9)
        BY <1>1, <3>1, <3>2
      <4> HIDE DEF j
      <4>2. j \notin R
        BY <2>1, <4>1
      <4>3. ~ (/\ s[i + j - 1] \cap 0..6 # {}
               /\ ~ (3 \in s[i + 4] /\ s[i + j - 1] = IF j = 10 THEN {0} ELSE 0..7))
        BY <1>4, <4>1, <4>2
      <4>4. QED BY <4>1, <4>3
    <3>5. QED BY <2>1, <3>2, <3>3, <3>4 DEF Int32In, e
  <2>2. ASSUME Int32In(s, i) PROVE VarintEnds(s, i) # {} /\ \A k \in 1..(e - i + 1) : k \notin R
    <3>1. /\ VarintEnds(s, i) # {} /\ e <= i + 9
          /\ i + 4 <= e => s[i + 4] \cap 4..6 = {} \/ 3..6 \subseteq s[i + 4]
          /\ \A k \in (i + 5)..e :
                s[k] \cap 0..6 = {} \/ (3 \in s[i + 4] /\ s[k] = IF k = i + 9 THEN {0} ELSE 0..7)
      BY <2>2 DEF Int32In, e
    <3>2. e \in i..Len(s)
      BY <1>5, <3>1
    <3>3. ASSUME NEW k \in 1..(e - i + 1), k \in R PROVE FALSE
      <4>1. k \in 1..in.left /\ ~ (k > 10) /\ (k = 5 => i + 4 <= e)
        BY <1>1, <3>1, <3>2
      <4>2. CASE k = 5
        BY <1>4, <3>1, <3>3, <4>1, <4>2
      <4>3. CASE k \in 6..10
        <5> DEFINE j == i + k - 1
        <5>1. j \in (i + 5)..e /\ (j = i + 9 <=> k = 10)
          BY <1>1, <3>2, <4>3
        <5>2. s[j] \cap 0..6 # {} /\ ~ (3 \in s[i + 4] /\ s[j] = IF k = 10 THEN {0} ELSE 0..7)
          BY <1>4, <3>3, <4>1, <4>3
        <5> HIDE DEF j
        <5>3. QED BY <3>1, <5>1, <5>2
      <4>4. CASE k < 5
        BY <1>4, <3>3, <4>1, <4>4
      <4>5. QED BY <4>1, <4>2, <4>3, <4>4
    <3>4. QED BY <3>1, <3>3
  <2>3. QED BY <2>1, <2>2
<1>7. QED
  <2> DEFINE q == ReadUpTo(in, 32, R)
             whole == VarintEnds(s, i) # {} /\ \A k \in 1..(e - i + 1) : k \notin R
  <2>1. /\ q.ok \in BOOLEAN /\ (q.ok <=> whole)
        /\ q.ok => AtByte(q.in, s, e + 1) /\ q.val = VarintAt(s, i) \cap 0..(32 - 1)
        /\ \E j \in i..(Len(s) + 1) : AtByte(q.in, s, j) /\ (i <= Len(s) => j > i)
    <3> HIDE DEF R
    <3>1. 32 \in Nat
      OBVIOUS
    <3>2. QED BY <3>1, ReadsUpTo
  <2>2. q = r /\ (whole <=> Int32In(s, i)) /\ 32 - 1 = 31
    BY <1>2, <1>6
  <2> HIDE DEF q, whole, r, e, R
  <2>3. QED BY <2>1, <2>2 DEF Int32At, r, e

\* An integer is skipped if it ends.
LEMMA SkipVarintReads ==
    ASSUME NEW in, NEW s, NEW i, AtByte(in, s, i)
    PROVE  LET r == SkipVarint(in)
           IN  /\ r.ok \in BOOLEAN /\ (r.ok <=> VarintEnds(s, i) # {})
               /\ r.ok => AtByte(r.in, s, VarintEnd(s, i) + 1)
               /\ \E j \in i..(Len(s) + 1) : AtByte(r.in, s, j)
<1> DEFINE r == SkipVarint(in)
<1>1. r = ReadUpTo(in, 0, {})
  <2>1. {k \in 1..in.left : 7 \notin Ahead(in, k) \/ FALSE} = EndsAt(in, {})
    BY DEF EndsAt
  <2>2. QED BY <2>1 DEF SkipVarint, VarintUpTo, ReadUpTo
<1> HIDE DEF r
<1>2. QED BY <1>1, ReadsUpTo DEF r
-----------------------------------------------------------------------------
(* Fields.                                                                 *)

\* What Varint32 returns is a result with its three fields.
LEMMA VarintShape ==
    ASSUME NEW in
    PROVE  \E ok, t, v : Varint32(in) = [ok |-> ok, in |-> t, val |-> v]
<1> DEFINE Refused(k) == Overflow32(Ahead(in, k), 7 * (k - 1), Gathered(in, k - 1, 32))
           ends == {k \in 1..in.left : 7 \notin Ahead(in, k) \/ Refused(k)}
<1>1. Varint32(in) = IF ends = {} THEN Fail(Advance(in, in.left))
                     ELSE IF Refused(Min(ends)) THEN Fail(Advance(in, Min(ends)))
                     ELSE Done(Advance(in, Min(ends)), Gathered(in, Min(ends), 32))
  BY DEF Varint32, VarintUpTo
<1> HIDE DEF ends, Refused
<1>2. QED BY <1>1 DEF Fail, Done

\* A length is a natural number.
LEMMA LengthNat == ASSUME NEW bits PROVE Length(bits) \in Nat
<1>1. Number(bits) \in Nat
  BY NumberNat
<1>2. 2^24 \in Nat
  OBVIOUS
<1>3. QED BY <1>1, <1>2 DEF Length

\* A payload is a pair of places, of which the first is not before the field's.
LEMMA PayloadIs ==
    ASSUME NEW s \in Seq(Byte), NEW i \in 1..(Len(s) + 1), NEW wt
    PROVE  LET p == Payload(s, i, wt)
           IN  /\ p = <<p[1], p[2]>> /\ p[1] \in Nat \ {0} /\ p[1] >= i
               /\ p[2] \in Int /\ p[2] >= i /\ p[2] >= p[1] - 1
<1>1. Len(s) \in Nat /\ i \in Nat \ {0}
  BY LenProperties
<1>2. VarintEnds(s, i) # {} => VarintEnd(s, i) \in i..Len(s)
  BY <1>1, VarintEndIs
<1>3. Length(Int32At(s, i)) \in Nat
  BY LengthNat
<1>4. Int32In(s, i) => VarintEnds(s, i) # {}
  BY DEF Int32In
<1> DEFINE e == VarintEnd(s, i)
           n == Length(Int32At(s, i))
<1>5. \/ Payload(s, i, wt) = <<i, e>> /\ VarintEnds(s, i) # {}
      \/ Payload(s, i, wt) = <<i, i + 7>>
      \/ Payload(s, i, wt) = <<i, i + 3>>
      \/ Payload(s, i, wt) = <<e + 1, e + n>> /\ VarintEnds(s, i) # {}
      \/ Payload(s, i, wt) = <<i, Len(s) + 1>>
  BY <1>4 DEF Payload
<1>6. n \in Nat /\ (VarintEnds(s, i) # {} => e \in i..Len(s))
  BY <1>2, <1>3
<1> HIDE DEF e, n
<1> DEFINE P == Payload(s, i, wt)
<1> HIDE DEF P
<1>7. \/ P = <<i, e>> /\ e \in i..Len(s)
      \/ P = <<i, i + 7>>
      \/ P = <<i, i + 3>>
      \/ P = <<e + 1, e + n>> /\ e \in i..Len(s)
      \/ P = <<i, Len(s) + 1>>
  BY <1>5, <1>6 DEF P
<1>8. QED BY <1>1, <1>6, <1>7 DEF P

\* The fields of the record that FieldAt returns.
LEMMA FieldIs ==
    ASSUME NEW s, NEW i
    PROVE  LET f == FieldAt(s, i)
               p == Payload(s, VarintEnd(s, i) + 1, f.wt)
           IN  /\ f.tag = Number(Shift(Int32At(s, i) \cap 3..31, -3)) /\ f.tag \in Nat
               /\ f.wt = Number(Int32At(s, i) \cap 0..2) /\ f.wt \in Nat
               /\ f.first = p[1] /\ f.last = p[2]
BY NumberNat DEF FieldAt

\* The library reads the keys that there are.
LEMMA TagReads ==
    ASSUME NEW in, NEW s, NEW i, AtByte(in, s, i)
    PROVE  LET r == DecodeTag(in)
           IN  /\ r.ok \in BOOLEAN /\ (r.ok <=> Int32In(s, i))
               /\ r.ok => /\ AtByte(r.in, s, VarintEnd(s, i) + 1)
                          /\ r.val = <<FieldAt(s, i).wt, FieldAt(s, i).tag>>
               /\ \E j \in i..(Len(s) + 1) : AtByte(r.in, s, j) /\ (i <= Len(s) => j > i)
<1> DEFINE v == Varint32(in)
           r == DecodeTag(in)
<1>1. PICK ok, t, x : v = [ok |-> ok, in |-> t, val |-> x]
  BY VarintShape
<1>2. r = [v EXCEPT !.val = <<Number(v.val \cap 0..2), Number(Shift(v.val \cap 3..31, -3))>>]
  BY DEF DecodeTag
<1>3. /\ v.ok \in BOOLEAN /\ (v.ok <=> Int32In(s, i))
      /\ v.ok => AtByte(v.in, s, VarintEnd(s, i) + 1) /\ v.val = Int32At(s, i)
      /\ \E j \in i..(Len(s) + 1) : AtByte(v.in, s, j) /\ (i <= Len(s) => j > i)
  BY Varint32Reads
<1> HIDE DEF v, r
<1>4. r.ok = v.ok /\ r.in = v.in
      /\ r.val = <<Number(v.val \cap 0..2), Number(Shift(v.val \cap 3..31, -3))>>
  BY <1>1, <1>2
<1>5. FieldAt(s, i).wt = Number(Int32At(s, i) \cap 0..2)
      /\ FieldAt(s, i).tag = Number(Shift(Int32At(s, i) \cap 3..31, -3))
  BY FieldIs
<1>6. QED BY <1>3, <1>4, <1>5 DEF r

\* Bytes with their length are skipped if they are all there.
LEMMA StringSkips ==
    ASSUME NEW in, NEW s, NEW i, AtByte(in, s, i)
    PROVE  LET r == SkipString(in)
               p == Payload(s, i, 2)
           IN  /\ r.ok \in BOOLEAN /\ (r.ok <=> p[2] <= Len(s))
               /\ r.ok => AtByte(r.in, s, p[2] + 1)
               /\ \E j \in i..(Len(s) + 1) : AtByte(r.in, s, j)
<1> DEFINE v == Varint32(in)
           r == SkipString(in)
           e == VarintEnd(s, i)
           n == Length(Int32At(s, i))
<1>1. /\ v.ok \in BOOLEAN /\ (v.ok <=> Int32In(s, i))
      /\ v.ok => AtByte(v.in, s, e + 1) /\ v.val = Int32At(s, i)
      /\ \E j \in i..(Len(s) + 1) : AtByte(v.in, s, j) /\ (i <= Len(s) => j > i)
  BY Varint32Reads
<1>2. r = IF v.ok THEN Read(v.in, Length(v.val)) ELSE v
  BY DEF SkipString, Then
<1>3. s \in Seq(Byte) /\ Len(s) \in Nat /\ i \in Nat \ {0} /\ i \in 1..(Len(s) + 1)
  BY LenProperties DEF AtByte
<1>4. n \in Nat
  BY LengthNat
<1>5. Payload(s, i, 2) = IF Int32In(s, i) THEN <<e + 1, e + n>> ELSE <<i, Len(s) + 1>>
  BY DEF Payload
<1>6. Int32In(s, i) => e \in i..Len(s)
  BY <1>3, VarintEndIs DEF Int32In
<1> HIDE DEF v, r, e, n
<1>7. CASE Int32In(s, i)
  <2>1. r = Read(v.in, n)
    BY <1>1, <1>2, <1>7 DEF n
  <2> DEFINE w == v.in
             q == Read(w, n)
  <2>2. AtByte(w, s, e + 1)
    BY <1>1, <1>7
  <2> HIDE DEF w
  <2>3. /\ q.ok <=> (e + 1) + n - 1 <= Len(s)
        /\ q.ok => AtByte(q.in, s, (e + 1) + n)
        /\ ~ q.ok => q.in = w
        /\ q.ok \in BOOLEAN
    BY <1>4, <2>2, Reads
  <2> HIDE DEF q
  <2>4. e \in Int /\ (e + 1) + n - 1 = e + n /\ (e + 1) + n = (e + n) + 1 /\ e + 1 \in i..(Len(s) + 1)
    BY <1>3, <1>4, <1>6, <1>7
  <2>5. Payload(s, i, 2)[2] = e + n
    BY <1>5, <1>7
  <2>6. r = q
    BY <2>1 DEF q, w
  <2>7. q.ok => (e + n) + 1 \in i..(Len(s) + 1)
    BY <1>3, <1>4, <1>6, <1>7, <2>3, <2>4
  <2>8. /\ q.ok \in BOOLEAN /\ (q.ok <=> e + n <= Len(s))
        /\ q.ok => AtByte(q.in, s, (e + n) + 1)
        /\ \E j \in i..(Len(s) + 1) : AtByte(q.in, s, j)
    <3>1. q.ok \/ ~ q.ok
      OBVIOUS
    <3>2. QED BY <2>2, <2>3, <2>4, <2>7, <3>1
  <2>9. QED BY <2>5, <2>6, <2>8 DEF r
<1>8. CASE ~ Int32In(s, i)
  <2>1. r = v /\ ~ v.ok
    BY <1>1, <1>2, <1>8
  <2>2. Payload(s, i, 2)[2] = Len(s) + 1 /\ ~ (Len(s) + 1 <= Len(s))
    BY <1>3, <1>5, <1>8
  <2>3. \E j \in i..(Len(s) + 1) : AtByte(r.in, s, j)
    BY <1>1, <2>1
  <2>4. r.ok \in BOOLEAN /\ ~ r.ok
    BY <1>1, <2>1
  <2>5. QED BY <2>2, <2>3, <2>4 DEF r
<1>9. QED BY <1>7, <1>8

\* A field is skipped if it has a payload.
LEMMA FieldSkips ==
    ASSUME NEW in, NEW s, NEW i, AtByte(in, s, i), NEW wt
    PROVE  LET r == SkipField(in, wt)
               p == Payload(s, i, wt)
           IN  /\ r.ok \in BOOLEAN /\ (r.ok <=> p[2] <= Len(s))
               /\ r.ok => AtByte(r.in, s, p[2] + 1)
               /\ \E j \in i..(Len(s) + 1) : AtByte(r.in, s, j)
<1>1. s \in Seq(Byte) /\ Len(s) \in Nat /\ i \in Nat \ {0} /\ i \in 1..(Len(s) + 1)
  BY LenProperties DEF AtByte
<1>2. CASE wt = 0
  <2> DEFINE r == SkipVarint(in)
             e == VarintEnd(s, i)
  <2>1. /\ r.ok \in BOOLEAN /\ (r.ok <=> VarintEnds(s, i) # {})
        /\ r.ok => AtByte(r.in, s, e + 1)
        /\ \E j \in i..(Len(s) + 1) : AtByte(r.in, s, j)
    BY SkipVarintReads
  <2>2. SkipField(in, wt) = r
    BY <1>2 DEF SkipField
  <2>3. Payload(s, i, wt) = IF VarintEnds(s, i) # {} THEN <<i, e>> ELSE <<i, Len(s) + 1>>
    BY <1>2 DEF Payload
  <2>4. VarintEnds(s, i) # {} => e \in i..Len(s)
    BY <1>1, VarintEndIs
  <2> HIDE DEF r, e
  <2>5. CASE VarintEnds(s, i) # {}
    <3>1. Payload(s, i, wt)[2] = e /\ e <= Len(s)
      BY <1>1, <2>3, <2>4, <2>5
    <3>2. QED BY <2>1, <2>2, <2>5, <3>1
  <2>6. CASE VarintEnds(s, i) = {}
    <3>1. Payload(s, i, wt)[2] = Len(s) + 1 /\ ~ (Len(s) + 1 <= Len(s))
      BY <1>1, <2>3, <2>6
    <3>2. QED BY <2>1, <2>2, <2>6, <3>1
  <2>7. QED BY <2>5, <2>6
<1>3. ASSUME NEW n \in Nat, SkipField(in, wt) = Read(in, n), Payload(s, i, wt)[2] = i + n - 1
      PROVE  LET r == SkipField(in, wt)
                 p == Payload(s, i, wt)
             IN  /\ r.ok \in BOOLEAN /\ (r.ok <=> p[2] <= Len(s))
                 /\ r.ok => AtByte(r.in, s, p[2] + 1)
                 /\ \E j \in i..(Len(s) + 1) : AtByte(r.in, s, j)
  <2> DEFINE r == Read(in, n)
             l == Payload(s, i, wt)[2]
  <2>1. /\ r.ok <=> i + n - 1 <= Len(s)
        /\ r.ok => AtByte(r.in, s, i + n)
        /\ ~ r.ok => r.in = in
        /\ r.ok \in BOOLEAN
    BY Reads
  <2>2. SkipField(in, wt) = r /\ l = i + n - 1
    BY <1>3
  <2> HIDE DEF r, l
  <2>3. i + n = l + 1 /\ i \in i..(Len(s) + 1) /\ (l <= Len(s) => l + 1 \in i..(Len(s) + 1))
    BY <1>1, <2>2
  <2>4. /\ r.ok \in BOOLEAN /\ (r.ok <=> l <= Len(s))
        /\ r.ok => AtByte(r.in, s, l + 1)
        /\ \E j \in i..(Len(s) + 1) : AtByte(r.in, s, j)
    BY <2>1, <2>2, <2>3
  <2>5. QED BY <2>2, <2>4 DEF l
<1>4. CASE wt = 1
  <2>1. SkipField(in, wt) = Read(in, 8) /\ Payload(s, i, wt) = <<i, i + 7>> /\ i + 7 = i + 8 - 1
    BY <1>1, <1>4 DEF SkipField, Payload
  <2>2. QED BY <1>3, <2>1
<1>5. CASE wt = 5
  <2>1. SkipField(in, wt) = Read(in, 4) /\ Payload(s, i, wt) = <<i, i + 3>> /\ i + 3 = i + 4 - 1
    BY <1>1, <1>5 DEF SkipField, Payload
  <2>2. QED BY <1>3, <2>1
<1>6. CASE wt = 2
  <2>1. SkipField(in, wt) = SkipString(in)
    BY <1>6 DEF SkipField
  <2>2. QED BY <1>6, <2>1, StringSkips
<1>7. CASE wt \notin {0, 1, 2, 5}
  <2>1. SkipField(in, wt) = Fail(in) /\ Payload(s, i, wt) = <<i, Len(s) + 1>>
    BY <1>7 DEF SkipField, Payload
  <2>2. ~ (Len(s) + 1 <= Len(s)) /\ i \in i..(Len(s) + 1)
    BY <1>1
  <2>3. QED BY <2>1, <2>2 DEF Fail
<1>8. QED BY <1>2, <1>4, <1>5, <1>6, <1>7

\* A part of a sequence, read for itself, is read in its place.
LEMMA WithinIs ==
    ASSUME NEW in, NEW s, NEW i, AtByte(in, s, i), NEW n \in 0..in.left
    PROVE  AtByte([in EXCEPT !.left = n], SubSeq(s, i, i + n - 1), 1)
<1> DEFINE a == [in EXCEPT !.left = n]
           u == SubSeq(s, i, i + n - 1)
<1>1. /\ s \in Seq(Byte) /\ i \in 1..(Len(s) + 1) /\ Len(s) \in Nat
      /\ in \in [buf : Seq(Byte), pos : Nat, left : Nat]
      /\ in.left = Len(s) + 1 - i
      /\ in.pos + in.left <= Len(in.buf)
      /\ \A k \in 1..in.left : Ahead(in, k) = s[i + k - 1]
  BY LenProperties DEF AtByte
<1>2. n \in 0..(Len(s) + 1 - i) /\ n \in Nat
  BY <1>1
<1>3. u \in Seq(Byte) /\ Len(u) = n /\ \A k \in 1..n : u[k] = s[i + k - 1]
  BY <1>1, <1>2, PartOf
<1>4. a \in [buf : Seq(Byte), pos : Nat, left : Nat] /\ a.left = n /\ a.buf = in.buf /\ a.pos = in.pos
  BY <1>1, <1>2
<1>5. in.buf \in Seq(Byte) /\ Len(in.buf) \in Nat /\ in.pos \in Nat
  BY <1>1, LenProperties
<1> HIDE DEF a, u
<1>6. ASSUME NEW k \in 1..n PROVE Ahead(a, k) = u[1 + k - 1]
  <2>1. k \in 1..in.left /\ 1 + k - 1 = k
    BY <1>1, <1>2
  <2>2. Ahead(a, k) = Ahead(in, k)
    BY <1>4 DEF Ahead
  <2>3. QED BY <1>1, <1>3, <2>1, <2>2
<1>7. a.pos + a.left <= Len(a.buf) /\ 1 \in 1..(Len(u) + 1) /\ a.left = Len(u) + 1 - 1
  BY <1>1, <1>2, <1>3, <1>4, <1>5
<1>8. AtByte(a, u, 1)
  BY <1>3, <1>4, <1>6, <1>7 DEF AtByte
<1>9. QED BY <1>8 DEF a, u

\* A substream holds the payload of wire type 2, if all of it is there.
LEMMA SubstreamReads ==
    ASSUME NEW in, NEW s, NEW i, AtByte(in, s, i)
    PROVE  LET r == Substream(in)
               p == Payload(s, i, 2)
           IN  /\ r.ok \in BOOLEAN /\ (r.ok <=> p[2] <= Len(s))
               /\ r.ok => /\ AtByte(r.in, s, p[2] + 1) /\ Int32In(s, i)
                          /\ AtByte(r.val, SubSeq(s, p[1], p[2]), 1)
<1> DEFINE v == Varint32(in)
           r == Substream(in)
           e == VarintEnd(s, i)
           n == Length(Int32At(s, i))
           p == Payload(s, i, 2)
<1>1. /\ v.ok \in BOOLEAN /\ (v.ok <=> Int32In(s, i))
      /\ v.ok => AtByte(v.in, s, e + 1) /\ v.val = Int32At(s, i)
  BY Varint32Reads
<1>2. r = IF v.ok THEN IF v.in.left < Length(v.val) THEN Fail(v.in)
                       ELSE Done(Advance(v.in, Length(v.val)), [v.in EXCEPT !.left = Length(v.val)])
          ELSE v
  BY DEF Substream, Then
<1>3. s \in Seq(Byte) /\ Len(s) \in Nat /\ i \in Nat \ {0} /\ i \in 1..(Len(s) + 1)
  BY LenProperties DEF AtByte
<1>4. n \in Nat
  BY LengthNat
<1>5. p = IF Int32In(s, i) THEN <<e + 1, e + n>> ELSE <<i, Len(s) + 1>>
  BY DEF Payload
<1>6. Int32In(s, i) => e \in i..Len(s)
  BY <1>3, VarintEndIs DEF Int32In
<1> DEFINE w == v.in
<1> HIDE DEF p, w
<1>7. CASE Int32In(s, i)
  <2>1. AtByte(w, s, e + 1) /\ r = IF w.left < n THEN Fail(w) ELSE Done(Advance(w, n), [w EXCEPT !.left = n])
    BY <1>1, <1>2, <1>7 DEF w
  <2> HIDE DEF v, r, e, n
  <2>2. w.left = Len(s) - e /\ w.left \in Nat /\ e \in Nat
    <3>1. w.left = Len(s) + 1 - (e + 1)
      BY <2>1 DEF AtByte
    <3>2. QED BY <1>3, <1>6, <1>7, <3>1
  <2>3. CASE w.left < n
    <3>1. ~ r.ok /\ r.ok \in BOOLEAN
      BY <2>1, <2>3 DEF Fail
    <3>2. p[2] = e + n /\ ~ (e + n <= Len(s))
      BY <1>3, <1>4, <1>5, <1>7, <2>2, <2>3
    <3>3. QED BY <3>1, <3>2 DEF r, p
  <2>4. CASE ~ (w.left < n)
    <3>1. n \in 0..w.left
      BY <1>4, <2>2, <2>4
    <3>2. r.ok = TRUE /\ r.in = Advance(w, n) /\ r.val = [w EXCEPT !.left = n]
      BY <2>1, <2>4 DEF Done
    <3>3. AtByte(Advance(w, n), s, (e + 1) + n)
      BY <2>1, <3>1, Advances
    <3>4. AtByte([w EXCEPT !.left = n], SubSeq(s, e + 1, (e + 1) + n - 1), 1)
      BY <2>1, <3>1, WithinIs
    <3>5. p[1] = e + 1 /\ p[2] = e + n /\ (e + 1) + n = p[2] + 1 /\ (e + 1) + n - 1 = p[2] /\ p[2] <= Len(s)
      BY <1>3, <1>4, <1>5, <1>7, <2>2, <3>1
    <3>6. AtByte(r.in, s, p[2] + 1) /\ AtByte(r.val, SubSeq(s, p[1], p[2]), 1)
      BY <3>2, <3>3, <3>4, <3>5
    <3>7. QED BY <1>7, <3>2, <3>5, <3>6 DEF r, p
  <2>5. QED BY <2>3, <2>4
<1>8. CASE ~ Int32In(s, i)
  <2>1. r = v /\ ~ v.ok
    BY <1>1, <1>2, <1>8
  <2>2. p[2] = Len(s) + 1 /\ ~ (Len(s) + 1 <= Len(s))
    BY <1>3, <1>5, <1>8
  <2> HIDE DEF v, r
  <2>3. r.ok \in BOOLEAN /\ ~ r.ok
    BY <1>1, <2>1
  <2>4. QED BY <2>2, <2>3 DEF r, p
<1>9. QED BY <1>7, <1>8
-----------------------------------------------------------------------------
(* Where fields start.                                                     *)

\* p leads from one start to the next.
Leads(p, b) ==
    /\ p \in [0..Len(b) -> 1..(Len(b) + 1)]
    /\ p[0] = 1
    /\ \A k \in 1..Len(b) : p[k] = NextStart(b, p[k - 1])

\* Where a field stands, its payload lies between its start and the end.
LEMMA StandsIs ==
    ASSUME NEW b \in Seq(Byte), NEW i \in 1..(Len(b) + 1), StandsAt(b, i)
    PROVE  LET e == VarintEnd(b, i)
               f == FieldAt(b, i)
           IN  /\ e \in i..Len(b) /\ e + 1 \in 1..(Len(b) + 1)
               /\ f.first \in Nat \ {0} /\ f.first > i /\ f.first <= f.last + 1
               /\ f.last \in i..Len(b) /\ f.last > i
               /\ BytesAt(b, i) \in Seq(Byte) /\ Len(BytesAt(b, i)) = f.last + 1 - f.first
<1> DEFINE e == VarintEnd(b, i)
           f == FieldAt(b, i)
           p == Payload(b, e + 1, f.wt)
<1>1. Len(b) \in Nat /\ i \in Nat \ {0}
  BY LenProperties
<1>2. Int32In(b, i) /\ f.last <= Len(b)
  BY DEF StandsAt
<1>3. e \in i..Len(b)
  BY <1>1, <1>2, VarintEndIs DEF Int32In
<1> HIDE DEF e
<1>4. e + 1 \in 1..(Len(b) + 1)
  BY <1>1, <1>3
<1>5. f.first = p[1] /\ f.last = p[2]
  BY FieldIs DEF e
<1>6. p[1] \in Nat \ {0} /\ p[1] >= e + 1 /\ p[2] \in Int /\ p[2] >= e + 1 /\ p[2] >= p[1] - 1
  BY <1>4, PayloadIs
<1> HIDE DEF p
<1> DEFINE x == f.first
           y == f.last
<1>7. /\ x \in Nat \ {0} /\ x > i /\ x <= y + 1
      /\ y \in i..Len(b) /\ y > i
  BY <1>1, <1>2, <1>3, <1>5, <1>6
<1>8. SubSeq(b, x, y) \in Seq(Byte) /\ Len(SubSeq(b, x, y)) = y + 1 - x
  <2> HIDE DEF f, x, y
  <2>1. x \in 1..(Len(b) + 1) /\ y + 1 - x \in 0..(Len(b) + 1 - x) /\ x + (y + 1 - x) - 1 = y
    BY <1>1, <1>7
  <2> DEFINE n == y + 1 - x
  <2>2. x \in 1..(Len(b) + 1) /\ n \in 0..(Len(b) + 1 - x) /\ x + n - 1 = y
    BY <2>1
  <2> HIDE DEF n
  <2>3. SubSeq(b, x, x + n - 1) \in Seq(Byte) /\ Len(SubSeq(b, x, x + n - 1)) = n
    BY <2>2, PartOf
  <2>4. QED BY <2>2, <2>3 DEF n
<1>9. QED BY <1>3, <1>4, <1>7, <1>8 DEF e, BytesAt

\* The next start is behind the field that stands at a place, or the place itself.
LEMMA NextIs ==
    ASSUME NEW b \in Seq(Byte), NEW i \in 1..(Len(b) + 1)
    PROVE  /\ NextStart(b, i) \in i..(Len(b) + 1)
           /\ NextStart(b, i) = i <=> ~ (i <= Len(b) /\ StandsAt(b, i))
<1>1. Len(b) \in Nat
  BY LenProperties
<1>2. CASE i <= Len(b) /\ StandsAt(b, i)
  <2>1. FieldAt(b, i).last \in i..Len(b) /\ FieldAt(b, i).last > i
    BY <1>2, StandsIs
  <2> DEFINE y == FieldAt(b, i).last
  <2>2. NextStart(b, i) = y + 1
    BY <1>2 DEF NextStart
  <2> HIDE DEF y
  <2>3. y \in i..Len(b)
    BY <2>1 DEF y
  <2>4. QED BY <1>1, <1>2, <2>2, <2>3
<1>3. CASE ~ (i <= Len(b) /\ StandsAt(b, i))
  BY <1>1, <1>3 DEF NextStart
<1>4. QED BY <1>2, <1>3

\* The starts, one after the other, are a sequence of places.
LEMMA SomeLeads ==
    ASSUME NEW b \in Seq(Byte)
    PROVE  \E p : Leads(p, b)
<1> DEFINE X == 1..(Len(b) + 1)
           step == [k \in 1..Len(b) |-> [i \in X |-> NextStart(b, i)]]
<1>1. Len(b) \in Nat /\ 1 \in X
  BY LenProperties
<1>2. \A i \in X : NextStart(b, i) \in X
  BY <1>1, NextIs
<1> HIDE DEF X
<1>3. step \in Steps(Len(b), X)
  BY <1>2 DEF Steps
<1>4. PICK p : Follows(p, Len(b), X, 1, step)
  <2> HIDE DEF step
  <2>1. QED BY <1>1, <1>3, RecursionUpTo
<1>5. p \in [0..Len(b) -> X] /\ p[0] = 1 /\ \A k \in 1..Len(b) : p[k] = step[k][p[k - 1]]
  <2> HIDE DEF step
  <2>1. QED BY <1>4 DEF Follows
<1>6. \A k \in 1..Len(b) : k - 1 \in 0..Len(b) /\ p[k - 1] \in X
  BY <1>1, <1>5
<1>7. \A k \in 1..Len(b) : p[k] = NextStart(b, p[k - 1])
  BY <1>5, <1>6
<1>8. QED BY <1>5, <1>7 DEF Leads, X

\* The starts grow until they stop.
LEMMA LeadsOn ==
    ASSUME NEW b \in Seq(Byte), NEW p, Leads(p, b), NEW k \in 0..Len(b)
    PROVE  \A j \in k..Len(b) : p[k] <= p[j] /\ (NextStart(b, p[k]) = p[k] => p[j] = p[k])
<1>1. Len(b) \in Nat
  BY LenProperties
<1> DEFINE S == {n \in 0..(Len(b) - k) : p[k] <= p[k + n] /\ (NextStart(b, p[k]) = p[k] => p[k + n] = p[k])}
<1>2. p \in [0..Len(b) -> 1..(Len(b) + 1)] /\ \A j \in 1..Len(b) : p[j] = NextStart(b, p[j - 1])
  BY DEF Leads
<1>3. 0 \in S
  BY <1>1, <1>2
<1>4. ASSUME NEW n \in 0..(Len(b) - k), n \in S, n < Len(b) - k PROVE n + 1 \in S
  <2>1. k + (n + 1) \in 1..Len(b) /\ (k + (n + 1)) - 1 = k + n /\ k + n \in 0..Len(b)
    BY <1>1, <1>4
  <2> DEFINE x == p[k + n]
             y == p[k + (n + 1)]
  <2>2. y = NextStart(b, x) /\ x \in 1..(Len(b) + 1) /\ p[k] \in 1..(Len(b) + 1)
    BY <1>2, <2>1
  <2>3. NextStart(b, x) \in x..(Len(b) + 1)
    <3> HIDE DEF x
    <3>1. QED BY <2>2, NextIs
  <2>4. p[k] <= x /\ (NextStart(b, p[k]) = p[k] => x = p[k])
    BY <1>4
  <2> HIDE DEF x, y
  <2>5. p[k] <= y /\ (NextStart(b, p[k]) = p[k] => y = p[k])
    BY <1>1, <2>2, <2>3, <2>4
  <2>6. n + 1 \in 0..(Len(b) - k)
    BY <1>1, <1>4
  <2>7. QED BY <2>5, <2>6 DEF y
<1>5. Len(b) - k \in Nat
  BY <1>1
<1>6. 0..(Len(b) - k) \subseteq S
  <2> HIDE DEF S
  <2>1. QED BY <1>3, <1>4, <1>5, InductionUpTo
<1>7. ASSUME NEW j \in k..Len(b)
      PROVE  p[k] <= p[j] /\ (NextStart(b, p[k]) = p[k] => p[j] = p[k])
  <2>1. j - k \in 0..(Len(b) - k) /\ k + (j - k) = j
    BY <1>1
  <2>2. j - k \in S
    <3> HIDE DEF S
    <3>1. QED BY <1>6, <2>1
  <2>3. QED BY <2>1, <2>2
<1>8. QED BY <1>7

\* At the end of the bytes no field follows.
LEMMA LeadsEnd ==
    ASSUME NEW b \in Seq(Byte), NEW p, Leads(p, b)
    PROVE  LET e == p[Len(b)]
           IN  /\ e \in 1..(Len(b) + 1) /\ NextStart(b, e) = e
               /\ \A k \in 0..Len(b) : p[k] >= k + 1 \/ NextStart(b, p[k]) = p[k]
<1>1. Len(b) \in Nat
  BY LenProperties
<1>2. p \in [0..Len(b) -> 1..(Len(b) + 1)] /\ p[0] = 1
      /\ \A j \in 1..Len(b) : p[j] = NextStart(b, p[j - 1])
  BY DEF Leads
<1> DEFINE S == {k \in 0..Len(b) : p[k] >= k + 1 \/ NextStart(b, p[k]) = p[k]}
<1>3. 0 \in S
  BY <1>1, <1>2
<1>4. ASSUME NEW k \in 0..Len(b), k \in S, k < Len(b) PROVE k + 1 \in S
  <2>1. k + 1 \in 1..Len(b) /\ (k + 1) - 1 = k /\ k + 1 \in 0..Len(b)
    BY <1>1, <1>4
  <2> DEFINE x == p[k]
             y == p[k + 1]
  <2>2. y = NextStart(b, x) /\ x \in 1..(Len(b) + 1) /\ y \in 1..(Len(b) + 1)
    BY <1>2, <2>1
  <2>3. NextStart(b, x) \in x..(Len(b) + 1)
    <3> HIDE DEF x
    <3>1. QED BY <2>2, NextIs
  <2>4. x >= k + 1 \/ NextStart(b, x) = x
    BY <1>4
  <2> HIDE DEF x, y
  <2>5. y >= (k + 1) + 1 \/ NextStart(b, y) = y
    <3>1. CASE NextStart(b, x) = x
      BY <2>2, <3>1
    <3>2. CASE NextStart(b, x) # x
      BY <1>1, <2>2, <2>3, <2>4, <3>2
    <3>3. QED BY <3>1, <3>2
  <2>6. QED BY <2>1, <2>5 DEF y
<1>5. 0..Len(b) \subseteq S
  <2> HIDE DEF S
  <2>1. QED BY <1>1, <1>3, <1>4, InductionUpTo
<1> DEFINE e == p[Len(b)]
<1>6. Len(b) \in S /\ e \in 1..(Len(b) + 1)
  <2> HIDE DEF S
  <2>1. QED BY <1>1, <1>2, <1>5
<1>7. e >= Len(b) + 1 \/ NextStart(b, e) = e
  BY <1>6
<1> HIDE DEF e
<1>8. e = Len(b) + 1 => NextStart(b, e) = e
  BY <1>1 DEF NextStart
<1>9. \A k \in 0..Len(b) : p[k] >= k + 1 \/ NextStart(b, p[k]) = p[k]
  BY <1>5
<1>10. QED BY <1>1, <1>6, <1>7, <1>8, <1>9 DEF e

\* Starts has the places of that sequence.
LEMMA StartsAre ==
    ASSUME NEW b \in Seq(Byte), NEW p, Leads(p, b)
    PROVE  Starts(b) = {p[k] : k \in 0..Len(b)}
<1> DEFINE With(S) == S \cup {NextStart(b, Max(S))}
           Unfold(f) == [k \in 0..Len(b) |-> IF k = 0 THEN {1} ELSE With(f[k - 1])]
           r == CHOOSE f : f = Unfold(f)
           f == [k \in 0..Len(b) |-> {p[j] : j \in 0..k}]
<1>1. Starts(b) = r[Len(b)]
  BY DEF Starts, NextStart
<1>2. Len(b) \in Nat
  BY LenProperties
<1>3. p \in [0..Len(b) -> 1..(Len(b) + 1)] /\ p[0] = 1
      /\ \A j \in 1..Len(b) : p[j] = NextStart(b, p[j - 1])
  BY DEF Leads
<1>4. ASSUME NEW k \in 0..Len(b) PROVE Max(f[k]) = p[k]
  <2>1. ASSUME NEW j \in 0..k PROVE p[k] >= p[j] /\ p[j] \in Int
    <3>1. j \in 0..Len(b) /\ k \in j..Len(b)
      BY <1>2
    <3>2. p[j] <= p[k]
      BY <3>1, LeadsOn
    <3>3. p[j] \in 1..(Len(b) + 1) /\ p[k] \in 1..(Len(b) + 1)
      BY <1>3, <3>1
    <3>4. QED BY <1>2, <3>2, <3>3
  <2>2. f[k] = {p[j] : j \in 0..k} /\ p[k] \in {p[j] : j \in 0..k}
    BY <1>2
  <2> DEFINE T == {p[j] : j \in 0..k}
  <2>3. T \in SUBSET Int /\ p[k] \in T /\ \A y \in T : p[k] >= y
    BY <2>1, <2>2
  <2> HIDE DEF T
  <2>4. Max(T) = p[k]
    BY <2>3, MaxIs
  <2>5. QED BY <2>2, <2>4 DEF T
<1>5. ASSUME NEW k \in 1..Len(b) PROVE f[k] = With(f[k - 1])
  <2>1. k - 1 \in 0..Len(b) /\ k \in 0..Len(b)
    BY <1>2
  <2>2. Max(f[k - 1]) = p[k - 1]
    BY <1>4, <2>1
  <2>3. \A j \in 0..k : j \in 0..(k - 1) \/ j = k
    OBVIOUS
  <2>4. 0..(k - 1) \subseteq 0..k /\ k \in 0..k
    OBVIOUS
  <2>5. f[k] = {p[j] : j \in 0..k} /\ f[k - 1] = {p[j] : j \in 0..(k - 1)}
    BY <2>1
  <2>6. f[k] = f[k - 1] \cup {p[k]}
    <3> HIDE DEF f
    <3>1. QED BY <2>3, <2>4, <2>5
  <2>7. QED BY <1>3, <2>2, <2>6
<1>6. f[0] = {1}
  <2>1. 0 \in 0..Len(b) /\ \A j \in 0..0 : j = 0
    BY <1>2
  <2>2. QED BY <1>3, <2>1
<1>7. f = Unfold(f)
  <2>1. \A k \in 0..Len(b) : k = 0 \/ k \in 1..Len(b)
    BY <1>2
  <2> HIDE DEF With
  <2>2. \A k \in 0..Len(b) : f[k] = IF k = 0 THEN {1} ELSE With(f[k - 1])
    <3> HIDE DEF f
    <3>1. QED BY <1>5, <1>6, <2>1
  <2>3. f = [k \in 0..Len(b) |-> f[k]]
    OBVIOUS
  <2> HIDE DEF f
  <2>4. QED BY <2>2, <2>3
<1>8. r = Unfold(r)
  <2> HIDE DEF f, With
  <2>1. QED BY <1>7
<1> HIDE DEF r
<1>9. r[Len(b)] = f[Len(b)]
  <2> DEFINE T == {k \in 0..Len(b) : r[k] = f[k]}
  <2> HIDE DEF f, With
  <2>1. r[0] = {1} /\ \A k \in 1..Len(b) : r[k] = With(r[k - 1])
    <3>1. \A k \in 1..Len(b) : k \in 0..Len(b) /\ k # 0
      BY <1>2
    <3>2. 0 \in 0..Len(b)
      BY <1>2
    <3>3. \A k \in 0..Len(b) : r[k] = IF k = 0 THEN {1} ELSE With(r[k - 1])
      BY <1>8
    <3>4. QED BY <3>1, <3>2, <3>3
  <2>2. 0 \in T
    <3>1. r[0] = f[0]
      BY <1>6, <2>1
    <3>2. 0 \in 0..Len(b)
      BY <1>2
    <3>3. QED BY <3>1, <3>2
  <2>3. ASSUME NEW k \in 0..Len(b), k \in T, k < Len(b) PROVE k + 1 \in T
    <3>1. k + 1 \in 1..Len(b) /\ (k + 1) - 1 = k /\ k + 1 \in 0..Len(b)
      BY <1>2, <2>3
    <3>2. QED BY <1>5, <2>1, <2>3, <3>1
  <2>4. 0..Len(b) \subseteq T
    <3> HIDE DEF T
    <3>1. QED BY <1>2, <2>2, <2>3, InductionUpTo
  <2>5. QED BY <1>2, <2>4
<1>10. Len(b) \in 0..Len(b)
  BY <1>2
<1>11. QED BY <1>1, <1>9, <1>10

\* Bytes are whole if the starts lead to their end.
LEMMA WholeIs ==
    ASSUME NEW b \in Seq(Byte), NEW p, Leads(p, b)
    PROVE  /\ Whole(b) <=> p[Len(b)] = Len(b) + 1
           /\ Whole(b) <=> \A k \in 0..Len(b) : p[k] <= Len(b) => StandsAt(b, p[k])
           /\ Fields(b) = {p[k] : k \in {j \in 0..Len(b) : p[j] <= Len(b)}}
<1>1. Len(b) \in Nat
  BY LenProperties
<1>2. p \in [0..Len(b) -> 1..(Len(b) + 1)]
  BY DEF Leads
<1>3. \A k \in 0..Len(b) : p[k] \in 1..(Len(b) + 1)
  BY <1>2
<1>4. Starts(b) = {p[k] : k \in 0..Len(b)}
  BY StartsAre
<1>5. Fields(b) = {p[k] : k \in {j \in 0..Len(b) : p[j] <= Len(b)}}
  BY <1>1, <1>3, <1>4 DEF Fields
<1>6. \A k \in 0..Len(b) : p[k] <= p[Len(b)]
  <2>1. \A k \in 0..Len(b) : Len(b) \in k..Len(b)
    BY <1>1
  <2>2. QED BY <2>1, LeadsOn
<1>7. Whole(b) <=> p[Len(b)] = Len(b) + 1
  <2>1. Len(b) \in 0..Len(b)
    BY <1>1
  <2>2. \A k \in 0..Len(b) : p[k] = Len(b) + 1 => p[Len(b)] = Len(b) + 1
    BY <1>1, <1>3, <1>6, <2>1
  <2>3. QED BY <1>4, <2>1, <2>2 DEF Whole
<1>8. ASSUME p[Len(b)] = Len(b) + 1, NEW k \in 0..Len(b), p[k] <= Len(b) PROVE StandsAt(b, p[k])
  <2> DEFINE x == p[k]
  <2>1. x \in 1..(Len(b) + 1)
    BY <1>3
  <2>2. NextStart(b, x) # x
    <3>1. Len(b) \in k..Len(b)
      BY <1>1
    <3>2. NextStart(b, p[k]) = p[k] => p[Len(b)] = p[k]
      BY <3>1, LeadsOn
    <3>3. QED BY <1>1, <1>8, <2>1, <3>2
  <2> HIDE DEF x
  <2>3. QED BY <2>1, <2>2, NextIs DEF x
<1>9. ASSUME \A k \in 0..Len(b) : p[k] <= Len(b) => StandsAt(b, p[k]) PROVE p[Len(b)] = Len(b) + 1
  <2> DEFINE e == p[Len(b)]
  <2>1. e \in 1..(Len(b) + 1) /\ NextStart(b, e) = e
    BY LeadsEnd
  <2>2. e <= Len(b) => StandsAt(b, e)
    BY <1>1, <1>9
  <2> HIDE DEF e
  <2>3. ~ (e <= Len(b) /\ StandsAt(b, e))
    BY <2>1, NextIs
  <2>4. QED BY <1>1, <2>1, <2>2, <2>3 DEF e
<1>10. QED BY <1>5, <1>7, <1>8, <1>9

\* The fields that start before the k-th place.
Before(p, b, k) == {p[j] : j \in {l \in 0..(k - 1) : p[l] <= Len(b)}}

\* In whole bytes every start but the end is a field, and they are Fields.
LEMMA WholeRead ==
    ASSUME NEW b \in Seq(Byte), NEW p, Leads(p, b)
    PROVE  /\ Whole(b) <=> \A i \in Before(p, b, Len(b)) : StandsAt(b, i)
           /\ Whole(b) => Fields(b) = Before(p, b, Len(b))
<1> DEFINE n == Len(b)
<1>1. n \in Nat
  BY LenProperties
<1>2. /\ Whole(b) <=> p[n] = n + 1
      /\ Whole(b) => \A k \in 0..n : p[k] <= n => StandsAt(b, p[k])
      /\ Fields(b) = {p[k] : k \in {j \in 0..n : p[j] <= n}}
  BY WholeIs
<1>3. \A k \in 0..n : p[k] \in 1..(n + 1)
  BY DEF Leads
<1> HIDE DEF n
<1>4. Before(p, b, n) = {p[j] : j \in {l \in 0..(n - 1) : p[l] <= n}}
  BY DEF Before, n
<1>5. ASSUME Whole(b) PROVE Fields(b) = Before(p, b, n) /\ \A i \in Before(p, b, n) : StandsAt(b, i)
  <2>1. {j \in 0..n : p[j] <= n} = {l \in 0..(n - 1) : p[l] <= n}
    <3>1. \A j \in 0..n : j = n \/ j \in 0..(n - 1)
      BY <1>1
    <3>2. ~ (p[n] <= n) /\ 0..(n - 1) \subseteq 0..n
      BY <1>1, <1>2, <1>5
    <3>3. QED BY <3>1, <3>2
  <2>2. Fields(b) = Before(p, b, n)
    BY <1>2, <1>4, <2>1
  <2>3. \A i \in Fields(b) : StandsAt(b, i)
    BY <1>2, <1>5
  <2>4. QED BY <2>2, <2>3
<1>6. ASSUME \A i \in Before(p, b, n) : StandsAt(b, i), p[n] <= n PROVE FALSE
  <2>1. n > 0
    <3>1. p[0] = 1
      BY DEF Leads
    <3>2. QED BY <1>1, <1>6, <3>1
  <2> DEFINE m == n - 1
  <2>2. m \in 0..n /\ m + 1 = n /\ n \in m..n /\ n \in 1..n
    BY <1>1, <2>1
  <2>3. p[n] = NextStart(b, p[m])
    <3>1. p[n] = NextStart(b, p[n - 1])
      BY <2>2 DEF Leads, n
    <3>2. QED BY <3>1
  <2> HIDE DEF m
  <2> DEFINE x == p[m]
  <2>4. x \in 1..(n + 1) /\ x <= p[n] /\ x <= n
    <3>1. p[m] <= p[n]
      BY <2>2, LeadsOn DEF n
    <3>2. QED BY <1>1, <1>3, <1>6, <2>2, <3>1
  <2>5. StandsAt(b, x)
    <3>1. m \in {l \in 0..(n - 1) : p[l] <= n}
      BY <2>4 , <2>2, <1>1 DEF m
    <3>2. QED BY <1>4, <1>6, <3>1
  <2>6. x >= m + 1 \/ NextStart(b, x) = x
    BY <2>2, LeadsEnd DEF n
  <2> HIDE DEF x
  <2>7. NextStart(b, x) \in x..(n + 1) /\ NextStart(b, x) # x
    BY <2>4, <2>5, NextIs DEF n
  <2>8. NextStart(b, x) = n + 1
    BY <1>1, <2>2, <2>4, <2>6, <2>7
  <2>9. QED BY <1>1, <1>6, <2>3, <2>8 DEF x
<1>7. n \in 0..n /\ p[n] \in 1..(n + 1)
  BY <1>1, <1>3
<1>8. (\A i \in Before(p, b, n) : StandsAt(b, i)) => Whole(b)
  BY <1>1, <1>2, <1>6, <1>7
<1>9. QED BY <1>5, <1>8 DEF n
-----------------------------------------------------------------------------
(* The library's instance for messages without messages in them.           *)

\* The instance reads integers as PbWire does,
LEMMA FlatVarint32 == ASSUME NEW in PROVE Flat!Varint32(in) = Varint32(in)
<1>1. \A S : Flat!Min(S) = Min(S)
  BY DEF Flat!Min, Min
<1>2. \A t, k, w : Flat!Gathered(t, k, w) = Gathered(t, k, w)
  BY DEF Flat!Gathered, Flat!Ahead, Flat!Shift, Gathered, Ahead, Shift
<1>3. \A t, k : Flat!Ahead(t, k) = Ahead(t, k)
  BY DEF Flat!Ahead, Ahead
<1>4. \A x, y, z : Flat!Overflow32(x, y, z) <=> Overflow32(x, y, z)
  BY DEF Flat!Overflow32, Overflow32
<1>5. \A t, n : Flat!Advance(t, n) = Advance(t, n)
  BY DEF Flat!Advance, Advance
<1> DEFINE Refused(k) == Overflow32(Ahead(in, k), 7 * (k - 1), Gathered(in, k - 1, 32))
           ends == {k \in 1..in.left : 7 \notin Ahead(in, k) \/ Refused(k)}
           FRefused(k) == Flat!Overflow32(Flat!Ahead(in, k), 7 * (k - 1), Flat!Gathered(in, k - 1, 32))
           fends == {k \in 1..in.left : 7 \notin Flat!Ahead(in, k) \/ FRefused(k)}
<1>6. Varint32(in) = IF ends = {} THEN Fail(Advance(in, in.left))
                     ELSE IF Refused(Min(ends)) THEN Fail(Advance(in, Min(ends)))
                     ELSE Done(Advance(in, Min(ends)), Gathered(in, Min(ends), 32))
  BY DEF Varint32, VarintUpTo
<1>7. Flat!Varint32(in) = IF fends = {} THEN Fail(Advance(in, in.left))
                     ELSE IF FRefused(Min(fends)) THEN Fail(Advance(in, Min(fends)))
                     ELSE Done(Advance(in, Min(fends)), Gathered(in, Min(fends), 32))
  <2>1. Flat!Varint32(in) = IF fends = {} THEN Flat!Fail(Flat!Advance(in, in.left))
                     ELSE IF FRefused(Flat!Min(fends)) THEN Flat!Fail(Flat!Advance(in, Flat!Min(fends)))
                     ELSE Flat!Done(Flat!Advance(in, Flat!Min(fends)), Flat!Gathered(in, Flat!Min(fends), 32))
    BY DEF Flat!Varint32, Flat!VarintUpTo
  <2> HIDE DEF FRefused, fends
  <2>2. QED BY <1>1, <1>2, <1>5, <2>1 DEF Flat!Fail, Fail, Flat!Done, Done
<1>8. \A k : FRefused(k) <=> Refused(k)
  BY <1>2, <1>3, <1>4
<1> HIDE DEF FRefused, Refused
<1>9. fends = ends
  BY <1>3, <1>8
<1> HIDE DEF fends, ends
<1>10. QED BY <1>6, <1>7, <1>8, <1>9

\* keys,
LEMMA FlatTag == ASSUME NEW in PROVE Flat!DecodeTag(in) = DecodeTag(in)
BY FlatVarint32 DEF Flat!DecodeTag, Flat!Shift, Flat!Number, DecodeTag, Shift, Number

\* bytes,
LEMMA FlatRead == ASSUME NEW in, NEW n PROVE Flat!Read(in, n) = Read(in, n)
BY DEF Flat!Read, Flat!Fail, Flat!Done, Flat!Advance, Read, Fail, Done, Advance

\* and what is skipped.
LEMMA FlatSkip == ASSUME NEW in, NEW wt PROVE Flat!SkipField(in, wt) = SkipField(in, wt)
<1>1. Flat!SkipVarint(in) = SkipVarint(in)
  <2> DEFINE ends == {k \in 1..in.left : 7 \notin Ahead(in, k) \/ FALSE}
             fends == {k \in 1..in.left : 7 \notin Flat!Ahead(in, k) \/ FALSE}
  <2>1. SkipVarint(in) = IF ends = {} THEN Fail(Advance(in, in.left))
                         ELSE Done(Advance(in, Min(ends)), Gathered(in, Min(ends), 0))
    BY DEF SkipVarint, VarintUpTo
  <2>2. Flat!SkipVarint(in) = IF fends = {} THEN Flat!Fail(Flat!Advance(in, in.left))
                         ELSE Flat!Done(Flat!Advance(in, Flat!Min(fends)),
                                        Flat!Gathered(in, Flat!Min(fends), 0))
    BY DEF Flat!SkipVarint, Flat!VarintUpTo
  <2>3. fends = ends
    BY DEF Flat!Ahead, Ahead
  <2> HIDE DEF ends, fends
  <2>4. Flat!Min(ends) = Min(ends)
    BY DEF Flat!Min, Min
  <2>5. \A k : Flat!Gathered(in, k, 0) = Gathered(in, k, 0)
    BY DEF Flat!Gathered, Flat!Ahead, Flat!Shift, Gathered, Ahead, Shift
  <2>6. Flat!SkipVarint(in) = IF fends = {} THEN Fail(Advance(in, in.left))
                         ELSE Done(Advance(in, Flat!Min(fends)), Flat!Gathered(in, Flat!Min(fends), 0))
    BY <2>2 DEF Flat!Fail, Fail, Flat!Done, Done, Flat!Advance, Advance
  <2>7. Flat!SkipVarint(in) = IF ends = {} THEN Fail(Advance(in, in.left))
                         ELSE Done(Advance(in, Min(ends)), Gathered(in, Min(ends), 0))
    BY <2>3, <2>4, <2>5, <2>6
  <2>8. QED BY <2>1, <2>7
<1>2. \A t, n : Flat!Read(t, n) = Read(t, n)
  BY FlatRead
<1>3. Flat!Varint32(in) = Varint32(in)
  BY FlatVarint32
<1>4. \A bits : Flat!Length(bits) = Length(bits)
  BY DEF Flat!Length, Flat!Number, Length, Number
<1>5. Flat!SkipString(in) = SkipString(in)
  BY <1>2, <1>3, <1>4 DEF Flat!SkipString, Flat!Then, SkipString, Then
<1>6. Flat!Fail(in) = Fail(in)
  BY DEF Flat!Fail, Fail
<1>7. QED BY <1>1, <1>2, <1>5, <1>6 DEF Flat!SkipField, SkipField
-----------------------------------------------------------------------------
(* Messages of required fields of four bytes.                              *)

Fixed(n) == Scalars("REQUIRED", "FIXED32", 4, n)

\* Wire types have three bits.
LEMMA WireTypeSmall == ASSUME NEW b, NEW i PROVE FieldAt(b, i).wt \in 0..7
<1> DEFINE bits == Int32At(b, i) \cap 0..2
<1>1. FieldAt(b, i).wt = Number(bits)
  BY FieldIs
<1>2. bits \cap 5..30 = {} /\ 3 \notin bits /\ 4 \notin bits
  OBVIOUS
<1> HIDE DEF bits
<1>3. Number(bits) = (IF 0 \in bits THEN 1 ELSE 0) + (IF 1 \in bits THEN 2 ELSE 0)
               + (IF 2 \in bits THEN 4 ELSE 0) + (IF 3 \in bits THEN 8 ELSE 0)
               + (IF 4 \in bits THEN 16 ELSE 0)
  BY <1>2, NumberSmall
<1>4. QED BY <1>1, <1>2, <1>3

\* What the decoder of such a message has after some fields.
Decoded(d, n) ==
    /\ d = [ok |-> d.ok, in |-> d.in, m |-> d.m, seen |-> d.seen, fixed |-> 0, size |-> 0, ended |-> FALSE]
    /\ d.ok \in BOOLEAN
    /\ d.m = [t \in 1..n |-> d.m[t]]
    /\ d.seen \subseteq 1..n

\* A record of this form is a state of the decoder.
LEMMA DecodedIs ==
    ASSUME NEW n, NEW ok \in BOOLEAN, NEW in, NEW m, NEW seen \in SUBSET (1..n),
           m = [t \in 1..n |-> m[t]]
    PROVE  Decoded([ok |-> ok, in |-> in, m |-> m, seen |-> seen, fixed |-> 0, size |-> 0,
                    ended |-> FALSE], n)
BY DEF Decoded

\* A decoder that has failed changes nothing any more.
LEMMA Refused ==
    ASSUME NEW in, NEW m, NEW seen
    PROVE  [[ok |-> TRUE, in |-> in, m |-> m, seen |-> seen, fixed |-> 0, size |-> 0, ended |-> FALSE]
               EXCEPT !.ok = FALSE]
           = [ok |-> FALSE, in |-> in, m |-> m, seen |-> seen, fixed |-> 0, size |-> 0, ended |-> FALSE]
<1> DEFINE d == [ok |-> TRUE, in |-> in, m |-> m, seen |-> seen, fixed |-> 0, size |-> 0, ended |-> FALSE]
           e == [d EXCEPT !.ok = FALSE]
<1>1. e = [d EXCEPT !.ok = FALSE]
  OBVIOUS
<1>2. d = [ok |-> TRUE, in |-> in, m |-> m, seen |-> seen, fixed |-> 0, size |-> 0, ended |-> FALSE]
  OBVIOUS
<1> HIDE DEF d, e
<1>3. e = [ok |-> FALSE, in |-> in, m |-> m, seen |-> seen, fixed |-> 0, size |-> 0, ended |-> FALSE]
  BY <1>1, <1>2
<1>4. QED BY <1>3 DEF d, e

\* The field table of such a message.
LEMMA FixedFields ==
    ASSUME NEW n \in Nat
    PROVE  /\ Len(Fixed(n)) = n
           /\ \A t \in 1..n : Fixed(n)[t] = [tag |-> t, htype |-> "REQUIRED", ltype |-> "FIXED32",
                                             size |-> 4, array |-> 1, sub |-> <<>>]
           /\ \A t \in Nat : Flat!FieldWith(Fixed(n), t) = IF t \in 1..n THEN {t} ELSE {}
<1>1. /\ Fixed(n) = [i \in 1..n |-> [tag |-> i, htype |-> "REQUIRED", ltype |-> "FIXED32",
                                     size |-> 4, array |-> 1, sub |-> <<>>]]
  BY DEF Fixed, Scalars
<1>2. Len(Fixed(n)) = n
  BY <1>1
<1>3. \A t \in 1..n : Fixed(n)[t].tag = t
  BY <1>1
<1> DEFINE F == Fixed(n)
<1> HIDE DEF F
<1>4. \A t \in Nat : Flat!FieldWith(F, t) = {i \in 1..n : F[i].tag = t}
  BY <1>2 DEF Flat!FieldWith, F
<1>5. \A t \in Nat : Flat!FieldWith(F, t) = IF t \in 1..n THEN {t} ELSE {}
  BY <1>3, <1>4 DEF F
<1>6. QED BY <1>1, <1>2, <1>5 DEF F

\* One field of the message, from its payload on.
LEMMA FixedValue ==
    ASSUME NEW n \in Nat, NEW d, Decoded(d, n), d.ok, NEW in, NEW t \in 1..n, NEW wt \in 0..7
    PROVE  LET N == Flat!DecodeField(d, in, wt, Fixed(n)[t], Fixed(n))
               r == Read(in, 4)
           IN  /\ Decoded(N, n)
               /\ N.ok <=> wt = 5 /\ r.ok
               /\ N.ok => /\ N.in = r.in /\ N.seen = d.seen \cup {t}
                          /\ N.m = [j \in 1..n |-> IF j = t THEN r.val ELSE d.m[j]]
<1> DEFINE f == Fixed(n)[t]
           F == Fixed(n)
           r == Read(in, 4)
           N == Flat!DecodeField(d, in, wt, f, F)
           q == Flat!DecodeSingle(in, wt, f, F, d.m)
<1>1. f = [tag |-> t, htype |-> "REQUIRED", ltype |-> "FIXED32", size |-> 4, array |-> 1, sub |-> <<>>]
  BY FixedFields
<1>2. Len(F) = n
  BY FixedFields
<1> HIDE DEF f, F
<1> DEFINE tin == d.in
           m == d.m
           seen == d.seen
<1> HIDE DEF tin, m, seen
<1>3. /\ d = [ok |-> TRUE, in |-> tin, m |-> m, seen |-> seen, fixed |-> 0, size |-> 0, ended |-> FALSE]
      /\ m = [j \in 1..n |-> m[j]] /\ seen \subseteq 1..n
  BY DEF Decoded, tin, m, seen
<1>4. d.ok = TRUE /\ d.in = tin /\ d.m = m /\ d.seen = seen /\ DOMAIN m = 1..n
  BY <1>3
<1>5. r.ok \in BOOLEAN /\ \E ok, s, v : r = [ok |-> ok, in |-> s, val |-> v]
  BY DEF Read, Fail, Done
<1>6. Flat!DecodeBasicField(in, wt, f, d.m[t]) = IF wt = 5 THEN r ELSE Fail(in)
  <2>1. Flat!WireType["FIXED32"] = 5
    BY DEF Flat!WireType
  <2>2. wt # Flat!PACKED
    BY DEF Flat!PACKED
  <2>3. Flat!Read(in, 4) = r /\ Flat!Fail(in) = Fail(in)
    BY FlatRead DEF Flat!Fail, Fail
  <2> HIDE DEF r
  <2>4. QED BY <1>1, <2>1, <2>2, <2>3 DEF Flat!DecodeBasicField
<1>7. {F[i].tag : i \in {j \in 1..Len(F) : F[j].htype = "ONEOF" /\ f.htype = "ONEOF"}} = {}
  BY <1>1
<1> HIDE DEF r
<1>8. q = [(IF wt = 5 THEN r ELSE Fail(in)) EXCEPT !.val = [j \in 1..n |-> IF j = t THEN @ ELSE m[j]]]
  <2> DEFINE dropped == {F[i].tag : i \in {j \in 1..Len(F) :
                             F[j].htype = "ONEOF" /\ f.htype = "ONEOF"}} \ {f.tag}
             With(v) == [tag \in DOMAIN d.m |->
                IF tag = f.tag THEN v
                ELSE IF tag \in dropped
                     THEN Flat!DefaultField(F[CHOOSE i \in Flat!FieldWith(F, tag) : TRUE])
                ELSE d.m[tag]]
  <2>1. q = [Flat!DecodeBasicField(in, wt, f, d.m[t]) EXCEPT !.val = With(@)]
    BY <1>1 DEF Flat!DecodeSingle
  <2>2. \A v : With(v) = [j \in 1..n |-> IF j = t THEN v ELSE m[j]]
    BY <1>1, <1>4, <1>7
  <2> HIDE DEF With
  <2>3. QED BY <1>6, <2>1, <2>2
<1> HIDE DEF q
<1>9. N = IF ~ q.ok THEN [d EXCEPT !.ok = FALSE]
          ELSE [d EXCEPT !.in = q.in, !.m = q.val, !.seen = @ \cup {t}]
  BY <1>1 DEF Flat!DecodeField, q
<1>10. CASE wt = 5 /\ r.ok
  <2>1. q.ok = TRUE /\ q.in = r.in /\ q.val = [j \in 1..n |-> IF j = t THEN r.val ELSE m[j]]
    BY <1>5, <1>8, <1>10
  <2>2. N = [ok |-> TRUE, in |-> r.in, m |-> q.val, seen |-> seen \cup {t}, fixed |-> 0, size |-> 0,
             ended |-> FALSE]
    BY <1>3, <1>9, <2>1
  <2>3. q.val = [j \in 1..n |-> IF j = t THEN r.val ELSE d.m[j]] /\ q.val = [j \in 1..n |-> q.val[j]]
    BY <1>3, <1>4, <2>1
  <2> HIDE DEF N
  <2>4. Decoded(N, n)
    BY <1>3, <2>2, <2>3, DecodedIs
  <2>5. /\ N.ok = TRUE /\ N.in = r.in /\ N.seen = d.seen \cup {t}
        /\ N.m = [j \in 1..n |-> IF j = t THEN r.val ELSE d.m[j]]
    BY <1>4, <2>2, <2>3
  <2>6. QED BY <1>10, <2>4, <2>5 DEF N, r, f, F
<1>11. CASE ~ (wt = 5 /\ r.ok)
  <2>1. ~ q.ok
    BY <1>5, <1>8, <1>11 DEF Fail
  <2>2. N = [ok |-> FALSE, in |-> tin, m |-> m, seen |-> seen, fixed |-> 0, size |-> 0, ended |-> FALSE]
    BY <1>3, <1>9, <2>1
  <2> HIDE DEF N
  <2>3. Decoded(N, n) /\ N.ok = FALSE
    BY <1>3, <2>2, DecodedIs
  <2>4. QED BY <1>11, <2>3 DEF N, r, f, F
<1>12. QED BY <1>10, <1>11

\* One turn of the decoder.
LEMMA FixedTurn ==
    ASSUME NEW n \in Nat, NEW d, Decoded(d, n), d.ok,
           NEW s, NEW i, AtByte(d.in, s, i), i <= Len(s)
    PROVE  LET N == Flat!DecodeNext(d, Fixed(n), {})
               f == FieldAt(s, i)
           IN  /\ Decoded(N, n)
               /\ N.ok <=> StandsAt(s, i) /\ (f.tag \in 1..n => f.wt = 5)
               /\ N.ok => /\ AtByte(N.in, s, f.last + 1)
                          /\ N.seen = d.seen \cup ({f.tag} \cap 1..n)
                          /\ N.m = [j \in 1..n |-> IF j = f.tag THEN BytesAt(s, i) ELSE d.m[j]]
<1> DEFINE f == FieldAt(s, i)
           e == VarintEnd(s, i)
           F == Fixed(n)
           t == DecodeTag(d.in)
           N == Flat!DecodeNext(d, F, {})
           p == Payload(s, e + 1, f.wt)
<1>1. /\ s \in Seq(Byte) /\ Len(s) \in Nat /\ i \in 1..(Len(s) + 1) /\ i \in Nat \ {0}
      /\ d.in.left = Len(s) + 1 - i
  BY LenProperties DEF AtByte
<1>2. /\ t.ok \in BOOLEAN /\ (t.ok <=> Int32In(s, i))
      /\ t.ok => /\ AtByte(t.in, s, e + 1)
                 /\ t.val = <<f.wt, f.tag>>
  BY TagReads
<1> DEFINE tin == d.in
           m == d.m
           seen == d.seen
<1> HIDE DEF tin, m, seen
<1>3. /\ d = [ok |-> TRUE, in |-> tin, m |-> m, seen |-> seen, fixed |-> 0, size |-> 0, ended |-> FALSE]
      /\ m = [j \in 1..n |-> m[j]] /\ seen \subseteq 1..n
  BY DEF Decoded, tin, m, seen
<1>4. f.tag \in Nat /\ f.wt \in 0..7 /\ f.first = p[1] /\ f.last = p[2]
  BY FieldIs, WireTypeSmall
<1>5. \A tag \in Nat : Flat!FieldWith(F, tag) = IF tag \in 1..n THEN {tag} ELSE {}
  BY FixedFields
<1> HIDE DEF F
<1>6. N = IF ~ t.ok \/ t.val[2] = 0 THEN [d EXCEPT !.ok = FALSE]
          ELSE Flat!AfterTag(d, t.in, t.val[1], t.val[2], F)
  <2>1. Flat!DecodeTag(d.in) = t
    BY FlatTag
  <2>2. ~ (d.in.left = 0) /\ d.ok /\ d.ended = FALSE
    BY <1>1, <1>3
  <2> HIDE DEF t
  <2>3. QED BY <2>1, <2>2 DEF Flat!DecodeNext, Flat!DecodeTagged
<1> DEFINE failed == [ok |-> FALSE, in |-> tin, m |-> m, seen |-> seen, fixed |-> 0, size |-> 0,
                      ended |-> FALSE]
<1>7. [d EXCEPT !.ok = FALSE] = failed
  <2>1. [[ok |-> TRUE, in |-> tin, m |-> m, seen |-> seen, fixed |-> 0, size |-> 0, ended |-> FALSE]
            EXCEPT !.ok = FALSE] = failed
    BY Refused
  <2>2. QED BY <1>3, <2>1, Zenon
<1>8. Decoded(failed, n) /\ ~ failed.ok
  BY <1>3, DecodedIs
<1>9. StandsAt(s, i) <=> Int32In(s, i) /\ f.tag # 0 /\ f.last <= Len(s)
  BY DEF StandsAt
<1> HIDE DEF t, N
<1>10. CASE ~ t.ok \/ f.tag = 0
  <2>1. N = failed
    BY <1>2, <1>6, <1>7, <1>10
  <2>2. ~ StandsAt(s, i)
    BY <1>2, <1>9, <1>10
  <2>3. QED BY <1>8, <2>1, <2>2 DEF N, F
<1>11. CASE t.ok /\ f.tag # 0
  <2>1. N = Flat!AfterTag(d, t.in, f.wt, f.tag, F)
    BY <1>2, <1>6, <1>11
  <2>2. AtByte(t.in, s, e + 1) /\ Int32In(s, i)
    BY <1>2, <1>11
  <2>3. StandsAt(s, i) <=> p[2] <= Len(s)
    BY <1>4, <1>9, <1>11, <2>2
  <2>4. CASE f.tag \notin 1..n
    <3> DEFINE k == SkipField(t.in, f.wt)
    <3>1. N = [d EXCEPT !.ok = k.ok, !.in = k.in]
      <4>1. Flat!FieldWith(F, f.tag) = {}
        BY <1>4, <1>5, <2>4
      <4>2. Flat!SkipField(t.in, f.wt) = k
        BY FlatSkip
      <4> HIDE DEF k
      <4>3. QED BY <2>1, <4>1, <4>2 DEF Flat!AfterTag
    <3>2. /\ k.ok \in BOOLEAN /\ (k.ok <=> p[2] <= Len(s))
          /\ k.ok => AtByte(k.in, s, p[2] + 1)
      BY <2>2, FieldSkips
    <3> HIDE DEF k, p
    <3>3. N = [ok |-> k.ok, in |-> k.in, m |-> m, seen |-> seen, fixed |-> 0, size |-> 0, ended |-> FALSE]
      BY <1>3, <3>1
    <3>4. Decoded(N, n)
      BY <1>3, <3>2, <3>3, DecodedIs
    <3>5. N.ok = k.ok /\ N.in = k.in /\ N.m = m /\ N.seen = d.seen /\ {f.tag} \cap 1..n = {}
      BY <1>3, <2>4, <3>3
    <3>9. N.m = [j \in 1..n |-> IF j = f.tag THEN BytesAt(s, i) ELSE d.m[j]]
      <4> DEFINE g == f.tag
                 y == BytesAt(s, i)
      <4>1. d.m = m /\ m = [j \in 1..n |-> m[j]] /\ g \notin 1..n
        BY <1>3, <2>4 DEF m
      <4> HIDE DEF g, y
      <4>2. [j \in 1..n |-> IF j = g THEN y ELSE d.m[j]] = [j \in 1..n |-> m[j]]
        BY <4>1
      <4>3. QED BY <3>5, <4>1, <4>2 DEF g, y
    <3>6. N.seen = d.seen \cup ({f.tag} \cap 1..n)
      BY <3>5
    <3>7. (N.ok <=> StandsAt(s, i)) /\ (N.ok => AtByte(N.in, s, f.last + 1))
      BY <1>4, <2>3, <3>2, <3>5
    <3> HIDE DEF f
    <3>8. QED BY <2>4, <3>4, <3>5, <3>6, <3>7, <3>9 DEF N, f, F
  <2>5. CASE f.tag \in 1..n
    <3> DEFINE r == Read(t.in, 4)
    <3>1. N = Flat!DecodeField(d, t.in, f.wt, F[f.tag], F)
      <4>1. Flat!FieldWith(F, f.tag) = {f.tag}
        BY <1>4, <1>5, <2>5
      <4> DEFINE g == f.tag
      <4> HIDE DEF g
      <4>2. (CHOOSE j \in {g} : TRUE) = g
        OBVIOUS
      <4>3. QED BY <2>1, <4>1, <4>2 DEF Flat!AfterTag, g
    <3>2. /\ Decoded(N, n)
          /\ N.ok <=> f.wt = 5 /\ r.ok
          /\ N.ok => /\ N.in = r.in /\ N.seen = d.seen \cup {f.tag}
                     /\ N.m = [j \in 1..n |-> IF j = f.tag THEN r.val ELSE d.m[j]]
      <4> DEFINE g == f.tag
                 w == f.wt
                 y == t.in
                 M == Flat!DecodeField(d, y, w, Fixed(n)[g], Fixed(n))
      <4>1. g \in 1..n /\ w \in 0..7 /\ N = M
        BY <1>4, <2>5, <3>1 DEF F
      <4>2. /\ Decoded(M, n)
            /\ M.ok <=> w = 5 /\ Read(y, 4).ok
            /\ M.ok => /\ M.in = Read(y, 4).in /\ M.seen = d.seen \cup {g}
                       /\ M.m = [j \in 1..n |-> IF j = g THEN Read(y, 4).val ELSE d.m[j]]
        <5>1. g \in 1..n /\ w \in 0..7
          BY <4>1
        <5> HIDE DEF g, w, y
        <5>2. QED BY <5>1, FixedValue
      <4> HIDE DEF M
      <4>3. QED BY <4>1, <4>2
    <3>3. /\ r.ok <=> (e + 1) + 4 - 1 <= Len(s)
          /\ r.ok => /\ AtByte(r.in, s, (e + 1) + 4)
                     /\ r.val = SubSeq(s, e + 1, (e + 1) + 4 - 1)
      <4> DEFINE y == t.in
      <4> HIDE DEF y
      <4>1. AtByte(y, s, e + 1) /\ 4 \in Nat
        BY <2>2 DEF y
      <4>2. /\ Read(y, 4).ok <=> (e + 1) + 4 - 1 <= Len(s)
            /\ Read(y, 4).ok => /\ AtByte(Read(y, 4).in, s, (e + 1) + 4)
                                /\ Read(y, 4).val = SubSeq(s, e + 1, (e + 1) + 4 - 1)
        BY <4>1, Reads
      <4>3. QED BY <4>2 DEF y
    <3>4. e \in Int
      BY <1>1, <2>2, VarintEndIs DEF Int32In
    <3>5. f.wt = 5 => p = <<e + 1, e + 4>>
      BY <3>4 DEF Payload
    <3>6. (e + 1) + 4 - 1 = e + 4 /\ (e + 1) + 4 = (e + 4) + 1
      BY <3>4
    <3>7. f.wt = 5 => f.first = e + 1 /\ f.last = e + 4
      BY <1>4, <3>5
    <3>8. f.wt = 5 /\ r.ok <=> StandsAt(s, i) /\ f.wt = 5
      BY <1>4, <2>3, <3>3, <3>6, <3>7
    <3>9. f.wt = 5 => BytesAt(s, i) = SubSeq(s, e + 1, e + 4)
      BY <3>7 DEF BytesAt
    <3>10. {f.tag} \cap 1..n = {f.tag}
      BY <2>5
    <3> HIDE DEF f, r, e
    <3>11. N.ok <=> StandsAt(s, i) /\ f.wt = 5
      BY <3>2, <3>8
    <3>12. ASSUME N.ok
           PROVE  /\ AtByte(N.in, s, f.last + 1)
                  /\ N.seen = d.seen \cup ({f.tag} \cap 1..n)
                  /\ N.m = [j \in 1..n |-> IF j = f.tag THEN BytesAt(s, i) ELSE d.m[j]]
      <4>1. f.wt = 5 /\ r.ok
        BY <3>2, <3>12
      <4>2. AtByte(r.in, s, (e + 4) + 1) /\ r.val = SubSeq(s, e + 1, e + 4)
        BY <3>3, <3>6, <4>1
      <4>3. f.last = e + 4 /\ BytesAt(s, i) = r.val
        BY <3>7, <3>9, <4>1, <4>2
      <4>4. QED BY <3>2, <3>10, <3>12, <4>2, <4>3
    <3>13. QED BY <2>5, <3>2, <3>11, <3>12 DEF N, f, F
  <2>6. QED BY <2>4, <2>5
<1>12. QED BY <1>10, <1>11, <1>2
\* What the decoder of such a message has before the k-th place.
Tags(s, fields) == {FieldAt(s, i).tag : i \in fields}
Tagged(s, fields, t) == {i \in fields : FieldAt(s, i).tag = t}
Good(n, s, i) == StandsAt(s, i) /\ (FieldAt(s, i).tag \in 1..n => FieldAt(s, i).wt = 5)

Reads4(d, n, s, p, k) ==
    /\ Decoded(d, n)
    /\ d.ok <=> \A i \in Before(p, s, k) : Good(n, s, i)
    /\ d.ok => /\ AtByte(d.in, s, p[k])
               /\ d.seen = Tags(s, Before(p, s, k)) \cap 1..n
               /\ \A t \in d.seen : d.m[t] = BytesAt(s, Max(Tagged(s, Before(p, s, k), t)))

\* The fields before a place that the starts lead to, and after one more.
LEMMA BeforeIs ==
    ASSUME NEW s \in Seq(Byte), NEW p, Leads(p, s), NEW k \in 0..Len(s), k < Len(s)
    PROVE  /\ p[k] \in 1..(Len(s) + 1) /\ p[k + 1] = NextStart(s, p[k])
           /\ Before(p, s, k + 1) = Before(p, s, k) \cup (IF p[k] <= Len(s) THEN {p[k]} ELSE {})
           /\ \A i \in Before(p, s, k) : i \in Nat /\ i <= p[k] /\ i <= Len(s)
<1>1. Len(s) \in Nat
  BY LenProperties
<1>2. /\ p \in [0..Len(s) -> 1..(Len(s) + 1)]
      /\ \A j \in 1..Len(s) : p[j] = NextStart(s, p[j - 1])
  BY DEF Leads
<1>3. k + 1 \in 1..Len(s) /\ (k + 1) - 1 = k
  BY <1>1
<1>4. 0..((k + 1) - 1) = 0..(k - 1) \cup {k}
  BY <1>1
<1>5. Before(p, s, k + 1) = Before(p, s, k) \cup (IF p[k] <= Len(s) THEN {p[k]} ELSE {})
  <2>1. \A j : j \in 0..((k + 1) - 1) <=> j \in 0..(k - 1) \/ j = k
    BY <1>4
  <2>2. QED BY <2>1 DEF Before
<1>6. ASSUME NEW j \in 0..(k - 1) PROVE p[j] \in Nat /\ p[j] <= p[k]
  <2>1. j \in 0..Len(s) /\ k \in j..Len(s)
    BY <1>1
  <2>2. p[j] <= p[k]
    BY <2>1, LeadsOn
  <2>3. QED BY <1>1, <1>2, <2>1, <2>2
<1>7. \A i \in Before(p, s, k) : i \in Nat /\ i <= p[k] /\ i <= Len(s)
  BY <1>6 DEF Before
<1>8. QED BY <1>2, <1>3, <1>5, <1>7

\* One turn of the decoder reads one more field.
LEMMA Reads4On ==
    ASSUME NEW n \in Nat, NEW s \in Seq(Byte), NEW p, Leads(p, s), NEW k \in 0..Len(s), k < Len(s),
           NEW d, Reads4(d, n, s, p, k)
    PROVE  Reads4(Flat!DecodeNext(d, Fixed(n), {}), n, s, p, k + 1)
<1> DEFINE N == Flat!DecodeNext(d, Fixed(n), {})
           B == Before(p, s, k)
           C == Before(p, s, k + 1)
           i == p[k]
<1>1. Len(s) \in Nat
  BY LenProperties
<1>2. /\ i \in 1..(Len(s) + 1) /\ p[k + 1] = NextStart(s, i)
      /\ C = B \cup (IF i <= Len(s) THEN {i} ELSE {})
      /\ \A j \in B : j \in Nat /\ j <= i /\ j <= Len(s)
  BY BeforeIs
<1>3. /\ Decoded(d, n)
      /\ d.ok <=> \A j \in B : Good(n, s, j)
      /\ d.ok => /\ AtByte(d.in, s, i)
                 /\ d.seen = Tags(s, B) \cap 1..n
                 /\ \A t \in d.seen : d.m[t] = BytesAt(s, Max(Tagged(s, B, t)))
  BY DEF Reads4
<1>4. ASSUME N = d, C = B \/ ~ d.ok, d.ok => p[k + 1] = i
      PROVE  Reads4(N, n, s, p, k + 1)
  <2> HIDE DEF N, B, C, i
  <2>1. d.ok <=> \A j \in C : Good(n, s, j)
    BY <1>2, <1>3, <1>4
  <2>2. d.ok => AtByte(d.in, s, p[k + 1]) /\ C = B
    BY <1>3, <1>4
  <2>3. QED BY <1>3, <1>4, <2>1, <2>2 DEF Reads4, C
<1>5. CASE ~ d.ok
  <2>1. N = d
    BY <1>5 DEF Flat!DecodeNext, Flat!DecodeTagged
  <2>2. QED BY <1>4, <1>5, <2>1
<1>6. CASE d.ok /\ i > Len(s)
  <2>1. d.in.left = 0
    <3>1. d.in.left = Len(s) + 1 - i
      BY <1>3, <1>6 DEF AtByte
    <3> HIDE DEF i
    <3>2. QED BY <1>1, <1>2, <1>6, <3>1
  <2>2. N = d
    BY <2>1 DEF Flat!DecodeNext, Flat!DecodeTagged
  <2>3. C = B /\ p[k + 1] = i
    <3> HIDE DEF i, C, B
    <3>1. ~ (i <= Len(s))
      BY <1>1, <1>2, <1>6
    <3>2. QED BY <1>2, <3>1 DEF NextStart
  <2>4. QED BY <1>4, <2>2, <2>3
<1>7. CASE d.ok /\ i <= Len(s)
  <2> DEFINE f == FieldAt(s, i)
             g == f.tag
             v == BytesAt(s, i)
  <2>1. /\ Decoded(N, n)
        /\ N.ok <=> Good(n, s, i)
        /\ N.ok => /\ AtByte(N.in, s, f.last + 1)
                   /\ N.seen = d.seen \cup ({g} \cap 1..n)
                   /\ N.m = [j \in 1..n |-> IF j = g THEN v ELSE d.m[j]]
    <3>1. d.ok /\ AtByte(d.in, s, i) /\ Decoded(d, n) /\ i <= Len(s)
      BY <1>3, <1>7
    <3> HIDE DEF i
    <3>2. QED BY <3>1, FixedTurn DEF Good
  <2>2. C = B \cup {i}
    BY <1>2, <1>7
  <2>3. N.ok => p[k + 1] = f.last + 1
    BY <1>2, <1>7, <2>1 DEF Good, NextStart
  <2> HIDE DEF N, B, C, i, f
  <2>4. N.ok <=> \A j \in C : Good(n, s, j)
    BY <1>3, <1>7, <2>1, <2>2
  <2>5. Tags(s, C) = Tags(s, B) \cup {g}
    BY <2>2 DEF Tags, f
  <2>6. ASSUME N.ok PROVE N.seen = Tags(s, C) \cap 1..n
    <3> HIDE DEF g
    <3>1. QED BY <1>3, <1>7, <2>1, <2>5, <2>6
  <2>7. ASSUME N.ok, NEW t \in N.seen PROVE N.m[t] = BytesAt(s, Max(Tagged(s, C, t)))
    <3>1. t \in 1..n /\ (t # g => t \in d.seen)
      BY <2>1, <2>7, <1>3, <1>7
    <3>2. N.m[t] = IF t = g THEN v ELSE d.m[t]
      <4> HIDE DEF g, v
      <4>1. QED BY <2>1, <2>7, <3>1
    <3>3. CASE t = g
      <4> DEFINE T == Tagged(s, C, t)
      <4>1. i \in T /\ \A j \in T : i >= j /\ j \in Nat
        BY <1>1, <1>2, <2>2, <3>3 DEF Tagged, f
      <4> HIDE DEF T
      <4>2. Max(T) = i
        <5>1. T \in SUBSET Int
          BY <4>1
        <5>2. QED BY <4>1, <5>1, MaxIs
      <4>3. QED BY <3>2, <3>3, <4>2 DEF T
    <3>4. CASE t # g
      <4>1. Tagged(s, C, t) = Tagged(s, B, t)
        BY <2>2, <3>4 DEF Tagged, f
      <4>2. d.m[t] = BytesAt(s, Max(Tagged(s, B, t)))
        BY <1>3, <1>7, <3>1, <3>4
      <4>3. QED BY <3>2, <3>4, <4>1, <4>2
    <3>5. QED BY <3>3, <3>4
  <2>8. N.ok => AtByte(N.in, s, p[k + 1])
    BY <2>1, <2>3
  <2>9. QED BY <2>1, <2>4, <2>6, <2>7, <2>8 DEF Reads4, C, N
<1>8. QED
  <2> HIDE DEF N, i
  <2>1. i <= Len(s) \/ i > Len(s)
    BY <1>1, <1>2
  <2>2. QED BY <1>5, <1>6, <1>7, <2>1 DEF N

\* The decoder's loop, from the first byte to the last.
LEMMA FixedLoop ==
    ASSUME NEW n \in Nat, NEW s \in Seq(Byte), NEW p, Leads(p, s), NEW d, d.in.left = Len(s),
           Reads4(d, n, s, p, 0)
    PROVE  Reads4(Flat!DecodeFields(d, Fixed(n), {}), n, s, p, Len(s))
<1> DEFINE G(x) == Flat!DecodeNext(x, Fixed(n), {})
           Unfold(m, f) == [k \in 0..m |-> IF k = 0 THEN d ELSE G(f[k - 1])]
           S == {m \in 0..Len(s) : \E f : f = Unfold(m, f)}
           r == CHOOSE f : f = Unfold(Len(s), f)
<1>1. Len(s) \in Nat
  BY LenProperties
<1>2. Flat!DecodeFields(d, Fixed(n), {}) = r[Len(s)]
  BY DEF Flat!DecodeFields
<1> HIDE DEF G
<1>3. 0 \in S
  <2> DEFINE f == [k \in 0..0 |-> d]
  <2>1. f = Unfold(0, f)
    OBVIOUS
  <2> HIDE DEF f
  <2>2. QED BY <1>1, <2>1
<1>4. ASSUME NEW m \in 0..Len(s), m \in S, m < Len(s) PROVE m + 1 \in S
  <2>1. PICK f : f = Unfold(m, f)
    BY <1>4
  <2> DEFINE g == [k \in 0..(m + 1) |-> IF k = m + 1 THEN G(f[m]) ELSE f[k]]
  <2>2. m \in Nat /\ \A k \in 0..(m + 1) : k = m + 1 \/ (k \in 0..m /\ k # m + 1)
    BY <1>4
  <2>3. \A k \in 0..m : f[k] = IF k = 0 THEN d ELSE G(f[k - 1])
    BY <2>1
  <2>4. \A k \in 0..(m + 1) : g[k] = IF k = m + 1 THEN G(f[m]) ELSE f[k]
    OBVIOUS
  <2>5. g = [k \in 0..(m + 1) |-> g[k]]
    OBVIOUS
  <2> HIDE DEF g
  <2>6. ASSUME NEW k \in 0..(m + 1) PROVE g[k] = IF k = 0 THEN d ELSE G(g[k - 1])
    <3>1. CASE k = m + 1
      <4>1. k # 0 /\ k - 1 = m /\ m \in 0..(m + 1) /\ m # m + 1
        BY <2>2, <3>1
      <4>2. g[k] = G(f[m]) /\ g[m] = f[m]
        BY <2>4, <3>1, <4>1
      <4>3. QED BY <4>1, <4>2
    <3>2. CASE k # m + 1
      <4>1. k \in 0..m /\ (k # 0 => k - 1 \in 0..(m + 1) /\ k - 1 # m + 1)
        BY <2>2, <3>2
      <4>2. g[k] = f[k] /\ (k # 0 => g[k - 1] = f[k - 1])
        BY <2>4, <3>2, <4>1
      <4>3. QED BY <2>3, <4>1, <4>2
    <3>3. QED BY <3>1, <3>2
  <2>7. g = Unfold(m + 1, g)
    BY <2>5, <2>6
  <2>8. m + 1 \in 0..Len(s)
    BY <1>1, <1>4
  <2> HIDE DEF Unfold
  <2>9. QED BY <2>7, <2>8
<1>5. 0..Len(s) \subseteq S
  <2> HIDE DEF S
  <2>1. QED BY <1>1, <1>3, <1>4, InductionUpTo
<1>6. \E f : f = Unfold(Len(s), f)
  <2> HIDE DEF Unfold
  <2>1. Len(s) \in 0..Len(s)
    BY <1>1
  <2>2. QED BY <1>5, <2>1
<1>7. r = Unfold(Len(s), r)
  <2> HIDE DEF Unfold
  <2>1. QED BY <1>6
<1> HIDE DEF r
<1>8. r[0] = d /\ \A k \in 1..Len(s) : r[k] = G(r[k - 1])
  <2>1. 0 \in 0..Len(s) /\ \A k \in 1..Len(s) : k \in 0..Len(s) /\ k # 0
    BY <1>1
  <2>2. \A k \in 0..Len(s) : r[k] = IF k = 0 THEN d ELSE G(r[k - 1])
    BY <1>7
  <2>3. QED BY <2>1, <2>2
<1> DEFINE T == {k \in 0..Len(s) : Reads4(r[k], n, s, p, k)}
<1>9. 0 \in T
  BY <1>1, <1>8
<1>10. ASSUME NEW k \in 0..Len(s), k \in T, k < Len(s) PROVE k + 1 \in T
  <2>1. k + 1 \in 1..Len(s) /\ (k + 1) - 1 = k /\ k + 1 \in 0..Len(s)
    BY <1>1, <1>10
  <2>2. r[k + 1] = G(r[k])
    BY <1>8, <2>1
  <2>3. Reads4(r[k], n, s, p, k)
    BY <1>10
  <2> DEFINE x == r[k]
  <2> HIDE DEF x
  <2>4. Reads4(G(x), n, s, p, k + 1)
    BY <1>10, <2>3, Reads4On DEF G, x
  <2>5. QED BY <2>1, <2>2, <2>4 DEF x
<1>11. 0..Len(s) \subseteq T
  <2> HIDE DEF T
  <2>1. QED BY <1>1, <1>9, <1>10, InductionUpTo
<1>12. Len(s) \in 0..Len(s)
  BY <1>1
<1>13. QED BY <1>2, <1>11, <1>12

\* A message of required fields of four bytes is decoded as it is meant.
THEOREM FixedDecodes ==
    ASSUME NEW n \in Nat, NEW in, NEW s, AtByte(in, s, 1)
    PROVE  LET D == Flat!Decode(in, Fixed(n))
               M == MeaningWith(FlatMeaning, Fixed(n), s)
           IN  /\ D.ok \in BOOLEAN /\ (D.ok <=> M.ok)
               /\ D.ok => D.val = M.val
<1> DEFINE F == Fixed(n)
           D == Flat!Decode(in, F)
           M == MeaningWith(FlatMeaning, F, s)
           m == Flat!Default(F)
           start == Flat!Decoding(in, m)
           d == Flat!DecodeFields(start, F, {})
           B == Fields(s)
<1>1. s \in Seq(Byte) /\ Len(s) \in Nat /\ in.left = Len(s)
  <2>1. in.left = Len(s) + 1 - 1
    BY DEF AtByte
  <2>2. s \in Seq(Byte) /\ Len(s) \in Nat
    BY LenProperties DEF AtByte
  <2>3. QED BY <2>1, <2>2
<1>2. PICK p : Leads(p, s)
  BY <1>1, SomeLeads
<1>3. /\ Len(F) = n
      /\ \A t \in 1..n : F[t] = [tag |-> t, htype |-> "REQUIRED", ltype |-> "FIXED32",
                                size |-> 4, array |-> 1, sub |-> <<>>]
  BY FixedFields
<1>4. m = [t \in 1..n |-> m[t]]
  <2>1. {F[i].tag : i \in 1..Len(F)} = 1..n
    <3>1. \A i \in 1..n : F[i].tag = i
      BY <1>3
    <3> HIDE DEF F
    <3>2. QED BY <1>3, <3>1
  <2> HIDE DEF F
  <2>2. m = [tag \in 1..n |-> Flat!DefaultField(F[CHOOSE i \in Flat!FieldWith(F, tag) : TRUE])]
    BY <2>1 DEF Flat!Default
  <2>3. QED BY <2>2
<1> HIDE DEF F, m
<1>5. start = [ok |-> TRUE, in |-> in, m |-> m, seen |-> {}, fixed |-> 0, size |-> 0, ended |-> FALSE]
  BY DEF Flat!Decoding
<1> HIDE DEF start
<1>6. Reads4(start, n, s, p, 0)
  <2>1. Decoded(start, n)
    BY <1>4, <1>5, DecodedIs
  <2>2. Before(p, s, 0) = {}
    <3>1. 0..(0 - 1) = {}
      OBVIOUS
    <3>2. QED BY <3>1 DEF Before
  <2>3. start.ok = TRUE /\ start.in = in /\ start.seen = {} /\ p[0] = 1
    BY <1>2, <1>5 DEF Leads
  <2>4. Tags(s, Before(p, s, 0)) \cap 1..n = {}
    BY <2>2 DEF Tags
  <2>5. QED BY <2>1, <2>2, <2>3, <2>4 DEF Reads4
<1>7. Reads4(d, n, s, p, Len(s))
  <2>1. start.in.left = Len(s)
    BY <1>1, <1>5
  <2>2. QED BY <1>1, <1>2, <1>6, <2>1, FixedLoop DEF F
<1> DEFINE A == Before(p, s, Len(s))
<1>8. /\ Decoded(d, n)
      /\ d.ok <=> \A i \in A : Good(n, s, i)
      /\ d.ok => /\ d.seen = Tags(s, A) \cap 1..n
                 /\ \A t \in d.seen : d.m[t] = BytesAt(s, Max(Tagged(s, A, t)))
  BY <1>7 DEF Reads4
<1>9. /\ Whole(s) <=> \A i \in A : StandsAt(s, i)
      /\ Whole(s) => B = A
  BY <1>1, <1>2, WholeRead
<1> HIDE DEF A, B
<1>10. /\ D.ok <=> d.ok /\ 1..n \subseteq d.seen
       /\ D.ok \in BOOLEAN /\ D.val = d.m
  <2> DEFINE required == {F[i].tag : i \in {j \in 1..Len(F) : F[j].htype = "REQUIRED"}}
  <2>1. required = 1..n
    <3>1. \A i \in 1..n : F[i].tag = i /\ F[i].htype = "REQUIRED"
      BY <1>3
    <3>2. QED BY <1>3, <3>1
  <2>2. D = [ok |-> d.ok /\ Flat!FixedComplete(d, F) /\ required \subseteq d.seen, in |-> d.in, val |-> d.m]
    BY DEF Flat!Decode, Flat!DecodeInner, start, m
  <2> HIDE DEF d
  <2>3. Flat!FixedComplete(d, F)
    <3>1. d.fixed = 0
      BY <1>8 DEF Decoded
    <3>2. QED BY <3>1 DEF Flat!FixedComplete
  <2> HIDE DEF required, D
  <2>4. D.ok = (d.ok /\ Flat!FixedComplete(d, F) /\ required \subseteq d.seen) /\ D.val = d.m
    BY <2>2
  <2>5. QED BY <2>1, <2>3, <2>4
<1> DEFINE Of(f) == {i \in B : FieldAt(s, i).tag = f.tag}
           Right(f) == Of(f) # {} /\ \A i \in Of(f) : FieldAt(s, i).wt = 5
<1>11. /\ M.ok <=> Whole(s) /\ \A t \in 1..n : Right(F[t])
       /\ M.ok => M.val = [t \in 1..n |->
              IF Of(F[t]) = {} THEN Unset(F[t]) ELSE BytesAt(s, Max(Of(F[t])))]
  <2> DEFINE starts == B
             joined(of) ==
               LET upto[k \in 0..Len(s)] ==
                    IF k = 0 THEN <<>> ELSE upto[k - 1] \o (IF k \in of THEN BytesAt(s, k) ELSE <<>>)
               IN  upto[Len(s)]
             MRight(f) ==
               /\ f.htype = "REQUIRED" => Of(f) # {}
               /\ \A i \in Of(f) :
                  /\ FieldAt(s, i).wt = WireType[f.ltype]
                  /\ f.ltype = "UVARINT" => VarintIn(BytesAt(s, i), 1, 32)
                  /\ f.ltype = "SUBMESSAGE" => FlatMeaning(f.sub, BytesAt(s, i)).ok
             Val(f, of) ==
               CASE of = {} -> Unset(f)
                 [] f.ltype = "SUBMESSAGE" /\ of # {} -> FlatMeaning(f.sub, joined(of)).val
                 [] f.ltype = "UVARINT" /\ of # {} -> VarintAt(BytesAt(s, Max(of)), 1)
                 [] f.ltype = "FIXED32" /\ of # {} -> BytesAt(s, Max(of))
             Member(f) == IF f.htype = "REQUIRED" THEN Val(f, Of(f))
                          ELSE [has |-> Of(f) # {}, val |-> Val(f, Of(f))]
  <2>1. M = IF Whole(s) /\ \A i \in 1..Len(F) : MRight(F[i])
            THEN [ok |-> TRUE, val |-> [i \in 1..Len(F) |-> Member(F[i])]]
            ELSE [ok |-> FALSE, val |-> <<>>]
    BY DEF MeaningWith, MeaningOf, B
  <2>2. WireType["FIXED32"] = 5
    BY DEF WireType
  <2> HIDE DEF Of, joined
  <2>3. ASSUME NEW t \in 1..n PROVE MRight(F[t]) <=> Right(F[t])
    <3>1. F[t].htype = "REQUIRED" /\ F[t].ltype = "FIXED32"
      BY <1>3
    <3>2. QED BY <2>2, <3>1
  <2>4. ASSUME NEW t \in 1..n
        PROVE  Member(F[t]) = IF Of(F[t]) = {} THEN Unset(F[t]) ELSE BytesAt(s, Max(Of(F[t])))
    <3>1. F[t].htype = "REQUIRED" /\ F[t].ltype = "FIXED32"
      BY <1>3
    <3>2. QED BY <3>1
  <2> HIDE DEF MRight, Member, Right, M
  <2>5. M = IF Whole(s) /\ \A i \in 1..n : Right(F[i])
            THEN [ok |-> TRUE, val |-> [i \in 1..n |-> Member(F[i])]]
            ELSE [ok |-> FALSE, val |-> <<>>]
    BY <1>3, <2>1, <2>3
  <2>6. [t \in 1..n |-> Member(F[t])]
            = [t \in 1..n |-> IF Of(F[t]) = {} THEN Unset(F[t]) ELSE BytesAt(s, Max(Of(F[t])))]
    BY <2>4
  <2>7. QED BY <2>5, <2>6
<1>12. \A t \in 1..n : Of(F[t]) = Tagged(s, B, t)
  <2>1. \A t \in 1..n : F[t].tag = t
    BY <1>3
  <2>2. QED BY <2>1 DEF Tagged
<1> HIDE DEF D, M, d, Of
<1>13. D.ok <=> M.ok
  <2>1. ASSUME D.ok PROVE M.ok
    <3>1. d.ok /\ 1..n \subseteq d.seen /\ \A i \in A : Good(n, s, i)
      BY <1>8, <1>10, <2>1
    <3>2. Whole(s) /\ B = A
      BY <1>9, <3>1 DEF Good
    <3>3. ASSUME NEW t \in 1..n PROVE Right(F[t])
      <4>1. t \in Tags(s, A)
        BY <1>8, <3>1
      <4>2. Tagged(s, B, t) # {}
        BY <3>2, <4>1 DEF Tags, Tagged
      <4>3. \A i \in Tagged(s, B, t) : FieldAt(s, i).wt = 5
        BY <3>1, <3>2 DEF Tagged, Good
      <4>4. QED BY <1>12, <4>2, <4>3
    <3>4. QED BY <1>11, <3>2, <3>3
  <2>2. ASSUME M.ok PROVE D.ok
    <3>1. Whole(s) /\ \A t \in 1..n : Right(F[t])
      BY <1>11, <2>2
    <3>2. B = A /\ \A i \in A : StandsAt(s, i)
      BY <1>9, <3>1
    <3>3. \A t \in 1..n : Tagged(s, A, t) # {} /\ \A i \in Tagged(s, A, t) : FieldAt(s, i).wt = 5
      BY <1>12, <3>1, <3>2
    <3>4. \A i \in A : Good(n, s, i)
      BY <3>2, <3>3 DEF Good, Tagged
    <3>5. 1..n \subseteq Tags(s, A)
      BY <3>3 DEF Tags, Tagged
    <3>6. d.ok /\ d.seen = Tags(s, A) \cap 1..n
      BY <1>8, <3>4
    <3>7. QED BY <1>10, <3>5, <3>6
  <2>3. QED BY <2>1, <2>2
<1>14. ASSUME D.ok PROVE D.val = M.val
  <2>1. M.ok /\ d.ok /\ 1..n \subseteq d.seen /\ Whole(s) /\ B = A
    BY <1>8, <1>9, <1>10, <1>11, <1>13, <1>14
  <2>2. d.m = [t \in 1..n |-> d.m[t]] /\ d.seen \subseteq 1..n
    BY <1>8 DEF Decoded
  <2>3. ASSUME NEW t \in 1..n
        PROVE  d.m[t] = IF Of(F[t]) = {} THEN Unset(F[t]) ELSE BytesAt(s, Max(Of(F[t])))
    <3>1. d.m[t] = BytesAt(s, Max(Tagged(s, A, t)))
      BY <1>8, <2>1
    <3>2. Right(F[t])
      BY <1>11, <2>1
    <3>3. QED BY <1>12, <2>1, <3>1, <3>2
  <2>4. QED BY <1>10, <1>11, <2>1, <2>2, <2>3
<1>15. QED BY <1>10, <1>13, <1>14 DEF D, M, F
-----------------------------------------------------------------------------
(* The search for an answer.                                               *)

\* The field table of the answers.
LEMMA ResponsesAre ==
    /\ Len(Responses) = 2
    /\ \A q \in {1, 2} : Responses[q].tag = q
    /\ Responses[1].sub = Fixed(2) /\ Responses[2].sub = Fixed(3)
    /\ \A q \in {1, 2} : Responses[q].sub # <<>>
    /\ DepthSensorResponse = Fixed(2) /\ MotionSensorResponse = Fixed(3)
<1>1. DepthSensorResponse = Fixed(2) /\ MotionSensorResponse = Fixed(3)
  BY DEF DepthSensorResponse, MotionSensorResponse, Fixed
<1>2. Responses = [i \in 1..2 |-> [tag |-> i, htype |-> "OPTIONAL", ltype |-> "SUBMESSAGE",
                             size |-> 0, array |-> 1,
                             sub |-> <<DepthSensorResponse, MotionSensorResponse>>[i]]]
  BY DEF Responses, Union
<1>3. /\ Len(Responses) = 2
      /\ \A q \in {1, 2} :
            /\ Responses[q].tag = q
            /\ Responses[q].sub = <<DepthSensorResponse, MotionSensorResponse>>[q]
  BY <1>2
<1>4. Fixed(2) # <<>> /\ Fixed(3) # <<>>
  <2>1. Len(Fixed(2)) = 2 /\ Len(Fixed(3)) = 3
    BY FixedFields
  <2>2. QED BY <2>1
<1>5. QED BY <1>1, <1>3, <1>4

\* One turn of decode_response_unionmessage_type.
KnownIn(t) == {i \in 1..Len(Responses) : t.val = <<2, Responses[i].tag>>}
LookAt(t) == IF ~ t.ok THEN Fail(t.in)
             ELSE IF KnownIn(t) # {} THEN Done(t.in, Responses[CHOOSE i \in KnownIn(t) : TRUE].sub)
             ELSE Done(SkipField(t.in, t.val[1]).in, <<>>)
SearchTurn(r) == IF r.ok /\ r.val = <<>> THEN LookAt(DecodeTag(r.in)) ELSE r

IsAnswer(b, i) == FieldAt(b, i).tag \in {1, 2} /\ FieldAt(b, i).wt = 2

\* One turn of the search.
LEMMA TurnIs ==
    ASSUME NEW r, r.ok, r.val = <<>>, NEW b, NEW j, AtByte(r.in, b, j)
    PROVE  LET N == SearchTurn(r)
               f == FieldAt(b, j)
               e == VarintEnd(b, j)
           IN  /\ N.ok \in BOOLEAN /\ (N.ok <=> Int32In(b, j))
               /\ N.ok => j <= Len(b)
               /\ N.ok /\ IsAnswer(b, j) => AtByte(N.in, b, e + 1) /\ N.val = Responses[f.tag].sub
               /\ N.ok /\ ~ IsAnswer(b, j) =>
                      /\ N.val = <<>>
                      /\ \E k \in (j + 1)..(Len(b) + 1) : AtByte(N.in, b, k)
                      /\ f.last <= Len(b) => AtByte(N.in, b, f.last + 1)
<1> DEFINE N == SearchTurn(r)
           f == FieldAt(b, j)
           e == VarintEnd(b, j)
           t == DecodeTag(r.in)
           p == Payload(b, e + 1, f.wt)
           k == SkipField(t.in, f.wt)
<1>1. b \in Seq(Byte) /\ Len(b) \in Nat /\ j \in 1..(Len(b) + 1) /\ j \in Nat \ {0}
  BY LenProperties DEF AtByte
<1>2. /\ t.ok \in BOOLEAN /\ (t.ok <=> Int32In(b, j))
      /\ t.ok => /\ AtByte(t.in, b, e + 1)
                 /\ t.val = <<f.wt, f.tag>>
  BY TagReads
<1>3. N = LookAt(t)
  BY DEF SearchTurn
<1>4. Int32In(b, j) => e \in j..Len(b)
  BY <1>1, VarintEndIs DEF Int32In
<1>5. f.tag \in Nat /\ f.wt \in Nat /\ f.last = p[2]
  BY FieldIs
<1> HIDE DEF t, N
<1>6. CASE ~ t.ok
  <2>1. N.ok = FALSE
    BY <1>3, <1>6 DEF LookAt, Fail
  <2>2. QED BY <1>2, <1>6, <2>1 DEF N
<1>7. CASE t.ok /\ IsAnswer(b, j)
  <2>1. KnownIn(t) = {f.tag}
    <3>1. \A i \in 1..Len(Responses) : Responses[i].tag = i
      BY ResponsesAre
    <3>2. f.tag \in 1..Len(Responses) /\ f.wt = 2
      BY <1>7, ResponsesAre DEF IsAnswer
    <3>3. t.val = <<f.wt, f.tag>>
      BY <1>2, <1>7
    <3> HIDE DEF f
    <3>4. QED BY <3>1, <3>2, <3>3 DEF KnownIn
  <2>2. N = Done(t.in, Responses[f.tag].sub)
    <3> DEFINE g == f.tag
    <3> HIDE DEF g
    <3>1. (CHOOSE i \in {g} : TRUE) = g
      OBVIOUS
    <3>2. KnownIn(t) = {g}
      BY <2>1 DEF g
    <3>3. N = Done(t.in, Responses[g].sub)
      BY <1>3, <1>7, <3>1, <3>2 DEF LookAt
    <3>4. QED BY <3>3 DEF g
  <2>3. N.ok = TRUE /\ N.in = t.in /\ N.val = Responses[f.tag].sub
    BY <2>2 DEF Done
  <2>4. j <= Len(b)
    BY <1>1, <1>2, <1>4, <1>7
  <2> HIDE DEF f, e
  <2>5. QED BY <1>2, <1>7, <2>3, <2>4 DEF N, f, e
<1>8. CASE t.ok /\ ~ IsAnswer(b, j)
  <2>1. KnownIn(t) = {}
    <3>1. \A i \in 1..Len(Responses) : Responses[i].tag = i /\ i \in {1, 2}
      BY ResponsesAre
    <3>2. t.val = <<f.wt, f.tag>>
      BY <1>2, <1>8
    <3>3. ~ (f.tag \in {1, 2} /\ f.wt = 2)
      BY <1>8 DEF IsAnswer
    <3> HIDE DEF f
    <3>4. QED BY <3>1, <3>2, <3>3 DEF KnownIn
  <2>2. N = Done(k.in, <<>>)
    <3>1. t.val[1] = f.wt
      BY <1>2, <1>8
    <3>2. QED BY <1>3, <1>8, <2>1, <3>1 DEF LookAt
  <2>3. N.ok = TRUE /\ N.in = k.in /\ N.val = <<>>
    BY <2>2 DEF Done
  <2>4. /\ k.ok <=> p[2] <= Len(b)
        /\ k.ok => AtByte(k.in, b, p[2] + 1)
        /\ \E i \in (e + 1)..(Len(b) + 1) : AtByte(k.in, b, i)
    BY <1>2, <1>8, FieldSkips
  <2>5. e \in j..Len(b) /\ j <= Len(b)
    BY <1>1, <1>2, <1>4, <1>8
  <2> HIDE DEF k, p, e, f
  <2>6. \E i \in (j + 1)..(Len(b) + 1) : AtByte(k.in, b, i)
    <3>1. PICK i \in (e + 1)..(Len(b) + 1) : AtByte(k.in, b, i)
      BY <2>4
    <3>2. i \in (j + 1)..(Len(b) + 1)
      BY <1>1, <2>5, <3>1
    <3>3. QED BY <3>1, <3>2
  <2>7. f.last <= Len(b) => AtByte(k.in, b, f.last + 1)
    BY <1>5, <2>4
  <2>8. QED BY <1>2, <1>8, <2>3, <2>5, <2>6, <2>7 DEF N, f, e
<1>9. QED BY <1>2, <1>6, <1>7, <1>8

\* What the search has after k turns: of any bytes, and of undamaged ones.
Searching(r, b, k) ==
    /\ r.ok \in BOOLEAN
    /\ r.ok /\ r.val = <<>> => \E j \in (k + 1)..(Len(b) + 1) : AtByte(r.in, b, j)
    /\ r.ok /\ r.val # <<>> =>
          \E i \in 2..(Len(b) + 1), q \in {1, 2} : AtByte(r.in, b, i) /\ r.val = Responses[q].sub

Answering(b) == {i \in Fields(b) : IsAnswer(b, i)}

SearchingWhole(r, b, p, k) ==
    IF Before(p, b, k) \cap Answering(b) = {}
    THEN \/ r.ok /\ r.val = <<>> /\ AtByte(r.in, b, p[k])
         \/ ~ r.ok /\ p[k] = Len(b) + 1
    ELSE \E x \in Answering(b) :
            /\ \A y \in Answering(b) : x <= y
            /\ r.ok /\ r.val = Responses[FieldAt(b, x).tag].sub
            /\ AtByte(r.in, b, VarintEnd(b, x) + 1)

\* The search moves on, in any bytes,
LEMMA SearchingOn ==
    ASSUME NEW b \in Seq(Byte), NEW k \in 0..Len(b), NEW r, Searching(r, b, k)
    PROVE  Searching(SearchTurn(r), b, k + 1)
<1> DEFINE N == SearchTurn(r)
<1>1. Len(b) \in Nat
  BY LenProperties
<1>2. CASE ~ (r.ok /\ r.val = <<>>)
  <2>1. N = r
    BY <1>2 DEF SearchTurn
  <2>2. QED BY <1>2, <2>1 DEF Searching
<1>3. CASE r.ok /\ r.val = <<>>
  <2>1. PICK j \in (k + 1)..(Len(b) + 1) : AtByte(r.in, b, j)
    BY <1>3 DEF Searching
  <2> DEFINE f == FieldAt(b, j)
             e == VarintEnd(b, j)
  <2>2. /\ N.ok \in BOOLEAN /\ (N.ok <=> Int32In(b, j))
        /\ N.ok => j <= Len(b)
        /\ N.ok /\ IsAnswer(b, j) => AtByte(N.in, b, e + 1) /\ N.val = Responses[f.tag].sub
        /\ N.ok /\ ~ IsAnswer(b, j) =>
               /\ N.val = <<>>
               /\ \E i \in (j + 1)..(Len(b) + 1) : AtByte(N.in, b, i)
    BY <1>3, <2>1, TurnIs
  <2>3. j \in Nat \ {0} /\ (Int32In(b, j) => e \in j..Len(b))
    <3>1. j \in Nat \ {0}
      BY <1>1, <2>1
    <3>2. QED BY <3>1, VarintEndIs DEF Int32In
  <2> HIDE DEF N, e
  <2>4. CASE ~ N.ok
    BY <2>2, <2>4 DEF Searching, N
  <2>5. CASE N.ok /\ IsAnswer(b, j)
    <3>1. f.tag \in {1, 2} /\ Responses[f.tag].sub # <<>>
      BY <2>5, ResponsesAre DEF IsAnswer
    <3>2. e + 1 \in 2..(Len(b) + 1)
      BY <1>1, <2>2, <2>3, <2>5
    <3> HIDE DEF f
    <3>3. QED BY <2>2, <2>5, <3>1, <3>2 DEF Searching, N
  <2>6. CASE N.ok /\ ~ IsAnswer(b, j)
    <3>1. PICK i \in (j + 1)..(Len(b) + 1) : AtByte(N.in, b, i)
      BY <2>2, <2>6
    <3>2. i \in ((k + 1) + 1)..(Len(b) + 1)
      BY <1>1, <2>1, <3>1
    <3>3. QED BY <2>2, <2>6, <3>1, <3>2 DEF Searching, N
  <2>7. QED BY <2>4, <2>5, <2>6
<1>4. QED BY <1>2, <1>3

\* and in whole ones from field to field.
LEMMA SearchingWholeOn ==
    ASSUME NEW b \in Seq(Byte), Whole(b), NEW p, Leads(p, b), NEW k \in 0..Len(b), k < Len(b),
           NEW r, r.ok \in BOOLEAN, SearchingWhole(r, b, p, k)
    PROVE  SearchingWhole(SearchTurn(r), b, p, k + 1)
<1> DEFINE N == SearchTurn(r)
           B == Before(p, b, k)
           C == Before(p, b, k + 1)
           K == Answering(b)
           j == p[k]
<1>1. Len(b) \in Nat
  BY LenProperties
<1>2. /\ j \in 1..(Len(b) + 1) /\ p[k + 1] = NextStart(b, j)
      /\ C = B \cup (IF j <= Len(b) THEN {j} ELSE {})
  BY BeforeIs
<1>3. /\ \A i \in 0..Len(b) : p[i] <= Len(b) => StandsAt(b, p[i])
      /\ Fields(b) = {p[i] : i \in {l \in 0..Len(b) : p[l] <= Len(b)}}
  BY WholeIs
<1>4. CASE B \cap K # {}
  <2>1. C \cap K # {}
    BY <1>2, <1>4
  <2>2. PICK x \in K : /\ \A y \in K : x <= y
                       /\ r.ok /\ r.val = Responses[FieldAt(b, x).tag].sub
                       /\ AtByte(r.in, b, VarintEnd(b, x) + 1)
    BY <1>4 DEF SearchingWhole
  <2>3. r.val # <<>>
    <3>1. FieldAt(b, x).tag \in {1, 2}
      BY <2>2 DEF Answering, IsAnswer
    <3>2. QED BY <2>2, <3>1, ResponsesAre
  <2>4. N = r
    BY <2>3 DEF SearchTurn
  <2>5. QED BY <2>1, <2>2, <2>4 DEF SearchingWhole
<1>5. CASE B \cap K = {} /\ ~ r.ok
  <2>1. N = r
    BY <1>5 DEF SearchTurn
  <2>2. j = Len(b) + 1
    BY <1>5 DEF SearchingWhole
  <2> HIDE DEF j, B, C, K, N
  <2>3. C = B /\ p[k + 1] = Len(b) + 1
    BY <1>1, <1>2, <2>2 DEF NextStart
  <2>4. QED BY <1>5, <2>1, <2>3 DEF SearchingWhole, C, K, N
<1>6. CASE B \cap K = {} /\ r.ok
  <2>1. r.val = <<>> /\ AtByte(r.in, b, j)
    BY <1>6 DEF SearchingWhole
  <2> DEFINE f == FieldAt(b, j)
             e == VarintEnd(b, j)
  <2>2. /\ N.ok \in BOOLEAN /\ (N.ok <=> Int32In(b, j))
        /\ N.ok => j <= Len(b)
        /\ N.ok /\ IsAnswer(b, j) => AtByte(N.in, b, e + 1) /\ N.val = Responses[f.tag].sub
        /\ N.ok /\ ~ IsAnswer(b, j) =>
               /\ N.val = <<>>
               /\ f.last <= Len(b) => AtByte(N.in, b, f.last + 1)
    <3> HIDE DEF j
    <3>1. QED BY <1>6, <2>1, TurnIs
  <2>3. CASE j > Len(b)
    <3> HIDE DEF j, B, C, K, N
    <3>1. ~ N.ok /\ j = Len(b) + 1 /\ C = B
      BY <1>1, <1>2, <2>2, <2>3
    <3>2. p[k + 1] = Len(b) + 1
      BY <1>1, <1>2, <3>1 DEF NextStart
    <3>3. QED BY <1>6, <3>1, <3>2 DEF SearchingWhole, C, K, N
  <2>4. CASE j <= Len(b)
    <3>1. StandsAt(b, j) /\ j \in Fields(b)
      BY <1>3, <2>4
    <3>2. C = B \cup {j} /\ p[k + 1] = f.last + 1
      BY <1>2, <2>4, <3>1 DEF NextStart
    <3>3. N.ok /\ f.last <= Len(b)
      BY <2>2, <3>1 DEF StandsAt
    <3>4. CASE IsAnswer(b, j)
      <4>1. j \in K /\ C \cap K # {}
        BY <3>1, <3>2, <3>4 DEF Answering
      <4>2. ASSUME NEW y \in K PROVE j <= y
        <5>1. PICK l \in 0..Len(b) : y = p[l] /\ p[l] <= Len(b)
          BY <1>3 DEF Answering
        <5>2. l \notin 0..(k - 1)
          BY <1>6, <4>2, <5>1 DEF Before
        <5>3. l \in k..Len(b)
          BY <1>1, <5>2
        <5>4. QED BY <5>1, <5>3, LeadsOn
      <4> HIDE DEF j, C, K, N
      <4>3. QED BY <2>2, <3>3, <3>4, <4>1, <4>2 DEF SearchingWhole, C, K, N
    <3>5. CASE ~ IsAnswer(b, j)
      <4>1. C \cap K = {}
        BY <1>6, <3>2, <3>5 DEF Answering
      <4> HIDE DEF j, C, K, N
      <4>2. QED BY <2>2, <3>2, <3>3, <3>5, <4>1 DEF SearchingWhole, C, K, N
    <3>6. QED BY <3>4, <3>5
  <2>5. QED
    <3> HIDE DEF j
    <3>1. j <= Len(b) \/ j > Len(b)
      BY <1>1, <1>2
    <3>2. QED BY <2>3, <2>4, <3>1
<1>7. QED BY <1>4, <1>5, <1>6

\* The loop of the search is its turns, one after the other.
LEMMA SearchLoop ==
    ASSUME NEW in, in.left \in Nat
    PROVE  \E r : /\ r[0] = Done(in, <<>>)
                  /\ \A k \in 1..(in.left + 1) : r[k] = SearchTurn(r[k - 1])
                  /\ ResponseType(in) = r[in.left + 1]
<1> DEFINE d == Done(in, <<>>)
           n == in.left + 1
           Unfold(m, f) == [k \in 0..m |-> IF k = 0 THEN d ELSE SearchTurn(f[k - 1])]
           S == {m \in 0..n : \E f : f = Unfold(m, f)}
           r == CHOOSE f : f = Unfold(n, f)
<1>1. n \in Nat
  OBVIOUS
<1>2. ResponseType(in) = r[n]
  BY DEF ResponseType, SearchTurn, LookAt, KnownIn
<1> HIDE DEF d, n
<1>3. 0 \in S
  <2> DEFINE f == [k \in 0..0 |-> d]
  <2>1. f = Unfold(0, f)
    OBVIOUS
  <2> HIDE DEF f
  <2>2. QED BY <1>1, <2>1
<1>4. ASSUME NEW m \in 0..n, m \in S, m < n PROVE m + 1 \in S
  <2>1. PICK f : f = Unfold(m, f)
    BY <1>4
  <2> DEFINE g == [k \in 0..(m + 1) |-> IF k = m + 1 THEN SearchTurn(f[m]) ELSE f[k]]
  <2>2. m \in Nat /\ \A k \in 0..(m + 1) : k = m + 1 \/ (k \in 0..m /\ k # m + 1)
    BY <1>4
  <2>3. \A k \in 0..m : f[k] = IF k = 0 THEN d ELSE SearchTurn(f[k - 1])
    BY <2>1
  <2>4. \A k \in 0..(m + 1) : g[k] = IF k = m + 1 THEN SearchTurn(f[m]) ELSE f[k]
    OBVIOUS
  <2>5. g = [k \in 0..(m + 1) |-> g[k]]
    OBVIOUS
  <2> HIDE DEF g
  <2>6. ASSUME NEW k \in 0..(m + 1) PROVE g[k] = IF k = 0 THEN d ELSE SearchTurn(g[k - 1])
    <3>1. CASE k = m + 1
      <4>1. k # 0 /\ k - 1 = m /\ m \in 0..(m + 1) /\ m # m + 1
        BY <2>2, <3>1
      <4>2. g[k] = SearchTurn(f[m]) /\ g[m] = f[m]
        BY <2>4, <3>1, <4>1
      <4>3. QED BY <4>1, <4>2
    <3>2. CASE k # m + 1
      <4>1. k \in 0..m /\ (k # 0 => k - 1 \in 0..(m + 1) /\ k - 1 # m + 1)
        BY <2>2, <3>2
      <4>2. g[k] = f[k] /\ (k # 0 => g[k - 1] = f[k - 1])
        BY <2>4, <3>2, <4>1
      <4>3. QED BY <2>3, <4>1, <4>2
    <3>3. QED BY <3>1, <3>2
  <2>7. g = Unfold(m + 1, g)
    BY <2>5, <2>6
  <2>8. m + 1 \in 0..n
    BY <1>1, <1>4
  <2> HIDE DEF Unfold
  <2>9. QED BY <2>7, <2>8
<1>5. 0..n \subseteq S
  <2> HIDE DEF S
  <2>1. QED BY <1>1, <1>3, <1>4, InductionUpTo
<1>6. \E f : f = Unfold(n, f)
  <2> HIDE DEF Unfold
  <2>1. n \in 0..n
    BY <1>1
  <2>2. QED BY <1>5, <2>1
<1>7. r = Unfold(n, r)
  <2> HIDE DEF Unfold
  <2>1. QED BY <1>6
<1> HIDE DEF r
<1>8. r[0] = d /\ \A k \in 1..n : r[k] = SearchTurn(r[k - 1])
  <2>1. 0 \in 0..n /\ \A k \in 1..n : k \in 0..n /\ k # 0
    BY <1>1
  <2>2. \A k \in 0..n : r[k] = IF k = 0 THEN d ELSE SearchTurn(r[k - 1])
    BY <1>7
  <2>3. QED BY <2>1, <2>2
<1>9. QED BY <1>2, <1>8 DEF d, n

\* What byte2msg goes on with.
LEMMA Searched ==
    ASSUME NEW b \in Seq(Byte)
    PROVE  LET r == ResponseType(IstreamFromBuffer(b))
               K == Answering(b)
               x == Min(K)
           IN  /\ r.ok \in BOOLEAN
               /\ r.ok => \E i \in 2..(Len(b) + 1), q \in {1, 2} :
                              AtByte(r.in, b, i) /\ r.val = Responses[q].sub
               /\ Whole(b) /\ K = {} => ~ r.ok
               /\ Whole(b) /\ K # {} =>
                      /\ x \in K
                      /\ r.ok /\ r.val = Responses[FieldAt(b, x).tag].sub
                      /\ AtByte(r.in, b, VarintEnd(b, x) + 1)
<1> DEFINE in == IstreamFromBuffer(b)
           n == Len(b)
           K == Answering(b)
<1>1. n \in Nat /\ in.left = n
  BY LenProperties DEF IstreamFromBuffer
<1>2. AtByte(in, b, 1)
  BY FromBuffer
<1> HIDE DEF in, n
<1>3. PICK f : /\ f[0] = Done(in, <<>>)
               /\ \A k \in 1..(n + 1) : f[k] = SearchTurn(f[k - 1])
               /\ ResponseType(in) = f[n + 1]
  BY <1>1, SearchLoop
<1>4. f[0].ok = TRUE /\ f[0].in = in /\ f[0].val = <<>>
  BY <1>3 DEF Done
<1> DEFINE r == ResponseType(in)
<1>5. /\ r.ok \in BOOLEAN
      /\ r.ok => \E i \in 2..(n + 1), q \in {1, 2} : AtByte(r.in, b, i) /\ r.val = Responses[q].sub
      /\ \A k \in 0..(n + 1) : f[k].ok \in BOOLEAN
  <2> DEFINE T == {k \in 0..(n + 1) : Searching(f[k], b, k)}
  <2>1. 0 \in T
    <3>1. 1 \in (0 + 1)..(n + 1)
      BY <1>1
    <3>2. Searching(f[0], b, 0)
      BY <1>2, <1>4, <3>1 DEF Searching, n
    <3>3. QED BY <1>1, <3>2
  <2>2. ASSUME NEW k \in 0..(n + 1), k \in T, k < n + 1 PROVE k + 1 \in T
    <3>1. k + 1 \in 1..(n + 1) /\ (k + 1) - 1 = k /\ k + 1 \in 0..(n + 1) /\ k \in 0..n
      BY <1>1, <2>2
    <3>2. f[k + 1] = SearchTurn(f[k])
      BY <1>3, <3>1
    <3>3. Searching(f[k], b, k)
      BY <2>2
    <3>4. Searching(SearchTurn(f[k]), b, k + 1)
      BY <3>1, <3>3, SearchingOn DEF n
    <3>5. QED BY <3>1, <3>2, <3>4
  <2>3. 0..(n + 1) \subseteq T
    <3> HIDE DEF T
    <3>1. n + 1 \in Nat
      BY <1>1
    <3>2. QED BY <2>1, <2>2, <3>1, InductionUpTo
  <2>4. \A k \in 0..(n + 1) : Searching(f[k], b, k)
    BY <2>3
  <2>5. Searching(r, b, n + 1)
    BY <1>1, <1>3, <2>4
  <2> HIDE DEF r
  <2>6. r.ok => r.val # <<>>
    <3>1. ((n + 1) + 1)..(n + 1) = {}
      BY <1>1
    <3>2. QED BY <2>5, <3>1 DEF Searching, n
  <2>7. QED BY <2>4, <2>5, <2>6 DEF Searching, n
<1>6. ASSUME Whole(b)
      PROVE  IF K = {} THEN ~ r.ok
             ELSE \E x \in K : /\ \A y \in K : x <= y
                               /\ r.ok /\ r.val = Responses[FieldAt(b, x).tag].sub
                               /\ AtByte(r.in, b, VarintEnd(b, x) + 1)
  <2>1. PICK p : Leads(p, b)
    BY SomeLeads
  <2> DEFINE T == {k \in 0..n : SearchingWhole(f[k], b, p, k)}
  <2>2. 0 \in T
    <3>1. Before(p, b, 0) = {}
      <4>1. 0..(0 - 1) = {}
        OBVIOUS
      <4>2. QED BY <4>1 DEF Before
    <3>2. p[0] = 1
      BY <2>1 DEF Leads
    <3>3. SearchingWhole(f[0], b, p, 0)
      BY <1>2, <1>4, <3>1, <3>2 DEF SearchingWhole
    <3>4. QED BY <1>1, <3>3
  <2>3. ASSUME NEW k \in 0..n, k \in T, k < n PROVE k + 1 \in T
    <3>1. k + 1 \in 1..(n + 1) /\ (k + 1) - 1 = k /\ k + 1 \in 0..n /\ k \in 0..(n + 1)
      BY <1>1, <2>3
    <3>2. f[k + 1] = SearchTurn(f[k])
      BY <1>3, <3>1
    <3>3. SearchingWhole(f[k], b, p, k) /\ f[k].ok \in BOOLEAN
      BY <1>5, <2>3, <3>1
    <3> DEFINE y == f[k]
    <3> HIDE DEF y
    <3>4. SearchingWhole(SearchTurn(y), b, p, k + 1)
      BY <1>6, <2>1, <2>3, <3>3, SearchingWholeOn DEF n, y
    <3>5. QED BY <3>1, <3>2, <3>4 DEF y
  <2>4. 0..n \subseteq T
    <3> HIDE DEF T
    <3>1. QED BY <1>1, <2>2, <2>3, InductionUpTo
  <2>5. SearchingWhole(f[n], b, p, n)
    BY <1>1, <2>4
  <2>6. Fields(b) = Before(p, b, n) /\ p[n] = n + 1
    BY <1>6, <2>1, WholeRead, WholeIs DEF n
  <2>7. K \cap Before(p, b, n) = K
    BY <2>6 DEF Answering
  <2> DEFINE y == f[n]
  <2>8. r = SearchTurn(y)
    <3>1. n + 1 \in 1..(n + 1) /\ (n + 1) - 1 = n
      BY <1>1
    <3>2. QED BY <1>3, <3>1
  <2> HIDE DEF y, r, K
  <2>9. CASE K = {}
    <3>1. \/ y.ok /\ y.val = <<>> /\ AtByte(y.in, b, n + 1)
          \/ ~ y.ok
      BY <2>5, <2>6, <2>7, <2>9 DEF SearchingWhole, K, y
    <3>2. ASSUME y.ok, y.val = <<>>, AtByte(y.in, b, n + 1) PROVE ~ r.ok
      <4> DEFINE j == n + 1
      <4> HIDE DEF j
      <4>1. SearchTurn(y).ok => j <= Len(b)
        BY <3>2, TurnIs DEF j
      <4>2. ~ (j <= Len(b))
        BY <1>1 DEF n, j
      <4>3. QED BY <2>8, <4>1, <4>2
    <3>3. ~ y.ok => ~ r.ok
      BY <2>8 DEF SearchTurn
    <3>4. QED BY <2>9, <3>1, <3>2, <3>3
  <2>10. CASE K # {}
    <3>1. PICK x \in K : /\ \A z \in K : x <= z
                         /\ y.ok /\ y.val = Responses[FieldAt(b, x).tag].sub
                         /\ AtByte(y.in, b, VarintEnd(b, x) + 1)
      BY <2>5, <2>7, <2>10 DEF SearchingWhole, K, y
    <3>2. y.val # <<>>
      <4>1. FieldAt(b, x).tag \in {1, 2}
        BY DEF K, Answering, IsAnswer
      <4>2. QED BY <3>1, <4>1, ResponsesAre
    <3>3. r = y
      BY <2>8, <3>2 DEF SearchTurn
    <3>4. QED BY <2>10, <3>1, <3>3
  <2>11. QED BY <2>9, <2>10
<1>7. ASSUME Whole(b), K # {}
      PROVE  /\ Min(K) \in K
             /\ r.ok /\ r.val = Responses[FieldAt(b, Min(K)).tag].sub
             /\ AtByte(r.in, b, VarintEnd(b, Min(K)) + 1)
  <2>1. PICK x \in K : /\ \A y \in K : x <= y
                       /\ r.ok /\ r.val = Responses[FieldAt(b, x).tag].sub
                       /\ AtByte(r.in, b, VarintEnd(b, x) + 1)
    BY <1>6, <1>7
  <2>2. K \in SUBSET Int
    <3>1. PICK p : Leads(p, b)
      BY SomeLeads
    <3>2. Fields(b) = {p[k] : k \in {j \in 0..Len(b) : p[j] <= Len(b)}}
      BY <3>1, WholeIs
    <3>3. \A k \in 0..Len(b) : p[k] \in Int
      BY <1>1, <3>1 DEF Leads, n
    <3>4. QED BY <3>2, <3>3 DEF Answering
  <2> HIDE DEF K, r
  <2>3. Min(K) = x
    BY <2>1, <2>2, MinIs
  <2>4. QED BY <2>1, <2>3
<1>8. Whole(b) /\ K = {} => ~ r.ok
  BY <1>6
<1> HIDE DEF K, r
<1>9. QED BY <1>5, <1>7, <1>8 DEF K, r, in, n

\* Contents of a known type are decoded as they are meant.
LEMMA ContentsRead ==
    ASSUME NEW in, NEW b, NEW i, AtByte(in, b, i), NEW q \in {1, 2}
    PROVE  LET C == DecodeUnionmessageContents(in, Responses[q].sub)
               p == Payload(b, i, 2)
               M == Meaning(Responses[q].sub, SubSeq(b, p[1], p[2]))
           IN  /\ C.ok \in BOOLEAN /\ (C.ok <=> p[2] <= Len(b) /\ M.ok)
               /\ C.ok => C.val = M.val /\ Int32In(b, i)
<1> DEFINE type_ == Responses[q].sub
           C == DecodeUnionmessageContents(in, type_)
           p == Payload(b, i, 2)
           u == SubSeq(b, p[1], p[2])
           M == Meaning(type_, u)
           s == Substream(in)
           D == Flat!Decode(s.val, type_)
<1>1. /\ s.ok \in BOOLEAN /\ (s.ok <=> p[2] <= Len(b))
      /\ s.ok => Int32In(b, i) /\ AtByte(s.val, u, 1)
  BY SubstreamReads
<1>2. s.ok => D.ok \in BOOLEAN /\ (D.ok <=> M.ok) /\ (D.ok => D.val = M.val)
  <2>1. PICK n \in Nat : type_ = Fixed(n)
    <3>1. Responses[1].sub = Fixed(2) /\ Responses[2].sub = Fixed(3)
      BY ResponsesAre
    <3>2. QED BY <3>1
  <2>2. D = Flat!Decode(s.val, Fixed(n)) /\ M = MeaningWith(FlatMeaning, Fixed(n), u)
    BY <2>1 DEF Meaning
  <2> DEFINE w == s.val
  <2> HIDE DEF w, u, D, M, type_
  <2>3. AtByte(w, u, 1) => LET E == Flat!Decode(w, Fixed(n))
                               N == MeaningWith(FlatMeaning, Fixed(n), u)
                           IN E.ok \in BOOLEAN /\ (E.ok <=> N.ok) /\ (E.ok => E.val = N.val)
    BY FixedDecodes
  <2>4. QED BY <1>1, <2>2, <2>3 DEF u, w
<1>3. C = IF s.ok THEN [D EXCEPT !.in = s.in] ELSE s
  BY DEF DecodeUnionmessageContents, Then
<1>4. \E ok, t, v : D = [ok |-> ok, in |-> t, val |-> v]
  BY DEF Flat!Decode, Flat!DecodeInner
<1> HIDE DEF C, s, D, M, u
<1>5. CASE s.ok
  <2>1. C.ok = D.ok /\ C.val = D.val
    BY <1>3, <1>4, <1>5
  <2>2. QED BY <1>1, <1>2, <1>5, <2>1 DEF C, M, u
<1>6. CASE ~ s.ok
  <2>1. C = s
    BY <1>3, <1>6
  <2>2. QED BY <1>1, <1>6, <2>1 DEF C, M, u
<1>7. QED BY <1>1, <1>5, <1>6

\* byte2msg, of any bytes.
THEOREM Byte2msgIs ==
    ASSUME NEW b \in Seq(Byte)
    PROVE  LET G == Byte2msg(b)
               K == Answering(b)
               f == FieldAt(b, Min(K))
               M == Meaning(Responses[f.tag].sub, BytesAt(b, Min(K)))
           IN  /\ G.ok \in BOOLEAN
               /\ G.ok => \E i \in 2..Len(b), q \in {1, 2} :
                     LET p == Payload(b, i, 2)
                         m == Meaning(Responses[q].sub, SubSeq(b, p[1], p[2]))
                     IN  /\ Int32In(b, i) /\ p[2] <= Len(b) /\ m.ok
                         /\ G.msg = <<Responses[q].sub, m.val>>
               /\ b # <<>> /\ Whole(b) =>
                     IF K = {} THEN ~ G.ok
                     ELSE (G.ok <=> M.ok) /\ (G.ok => G.msg = <<Responses[f.tag].sub, M.val>>)
<1> DEFINE G == Byte2msg(b)
           K == Answering(b)
           x == Min(K)
           f == FieldAt(b, x)
           M == Meaning(Responses[f.tag].sub, BytesAt(b, x))
           r == ResponseType(IstreamFromBuffer(b))
           C == DecodeUnionmessageContents(r.in, r.val)
<1>1. Len(b) \in Nat
  BY LenProperties
<1>2. /\ r.ok \in BOOLEAN
      /\ r.ok => \E i \in 2..(Len(b) + 1), q \in {1, 2} :
                     AtByte(r.in, b, i) /\ r.val = Responses[q].sub
      /\ Whole(b) /\ K = {} => ~ r.ok
      /\ Whole(b) /\ K # {} =>
             /\ x \in K
             /\ r.ok /\ r.val = Responses[f.tag].sub
             /\ AtByte(r.in, b, VarintEnd(b, x) + 1)
  BY Searched
<1>3. b = <<>> => G.ok = FALSE
  BY DEF Byte2msg, Fail
<1>4. b # <<>> => /\ G.ok \in BOOLEAN /\ (G.ok <=> r.ok /\ C.ok)
                  /\ G.ok => G.msg = <<r.val, C.val>>
  <2> DEFINE Told == [ok |-> TRUE, msg |-> <<r.val, C.val>>]
             R == IF r.ok THEN IF C.ok THEN Told ELSE C ELSE r
  <2> HIDE DEF r
  <2>1. b # <<>> => G = IF R.ok THEN R ELSE [ok |-> FALSE, msg |-> <<>>]
    BY DEF Byte2msg, Then, r
  <2>2. C.ok \in BOOLEAN \/ ~ r.ok
    <3>1. ASSUME NEW i, NEW q \in {1, 2}, AtByte(r.in, b, i), r.val = Responses[q].sub
          PROVE  C.ok \in BOOLEAN
      BY <3>1, ContentsRead
    <3> HIDE DEF C
    <3>2. QED BY <1>2, <3>1 DEF r
  <2>3. Told.ok = TRUE /\ Told.msg = <<r.val, C.val>>
    OBVIOUS
  <2> HIDE DEF C, G, Told
  <2>4. r.ok \in BOOLEAN
    BY <1>2 DEF r
  <2>5. CASE r.ok /\ C.ok
    <3>1. R = Told
      BY <2>5
    <3>2. b # <<>> => G = Told
      BY <2>1, <2>3, <3>1
    <3>3. QED BY <2>3, <2>5, <3>2
  <2>6. CASE ~ (r.ok /\ C.ok)
    <3>1. ~ R.ok
      BY <2>6
    <3>2. b # <<>> => G = [ok |-> FALSE, msg |-> <<>>]
      BY <2>1, <3>1
    <3>3. b # <<>> => G.ok = FALSE
      BY <3>2
    <3>4. QED BY <2>6, <3>3
  <2>7. QED BY <2>5, <2>6
<1>5. ASSUME NEW i, NEW q \in {1, 2}, AtByte(r.in, b, i), r.val = Responses[q].sub
      PROVE  LET p == Payload(b, i, 2)
                 m == Meaning(Responses[q].sub, SubSeq(b, p[1], p[2]))
             IN  /\ C.ok \in BOOLEAN /\ (C.ok <=> p[2] <= Len(b) /\ m.ok)
                 /\ C.ok => C.val = m.val /\ Int32In(b, i)
  <2> HIDE DEF r
  <2>1. C = DecodeUnionmessageContents(r.in, Responses[q].sub)
    BY <1>5
  <2> HIDE DEF C
  <2>2. QED BY <1>5, <2>1, ContentsRead
<1> HIDE DEF G, C, r
<1>6. G.ok \in BOOLEAN
  <2>1. b # <<>> => G.ok \in BOOLEAN
    BY <1>4
  <2>2. QED BY <1>3, <2>1
<1>7. ASSUME G.ok
      PROVE  \E i \in 2..Len(b), q \in {1, 2} :
                     LET p == Payload(b, i, 2)
                         m == Meaning(Responses[q].sub, SubSeq(b, p[1], p[2]))
                     IN  /\ Int32In(b, i) /\ p[2] <= Len(b) /\ m.ok
                         /\ G.msg = <<Responses[q].sub, m.val>>
  <2>1. b # <<>> /\ r.ok /\ C.ok /\ G.msg = <<r.val, C.val>>
    BY <1>3, <1>4, <1>7
  <2>2. PICK i \in 2..(Len(b) + 1), q \in {1, 2} : AtByte(r.in, b, i) /\ r.val = Responses[q].sub
    BY <1>2, <2>1
  <2> DEFINE p == Payload(b, i, 2)
             m == Meaning(Responses[q].sub, SubSeq(b, p[1], p[2]))
  <2>3. Int32In(b, i) /\ p[2] <= Len(b) /\ m.ok /\ C.val = m.val
    BY <1>5, <2>1, <2>2
  <2>4. i \in 2..Len(b)
    <3>1. i \in Nat \ {0}
      BY <1>1, <2>2
    <3>2. VarintEnd(b, i) \in i..Len(b)
      BY <2>3, <3>1, VarintEndIs DEF Int32In
    <3>3. QED BY <1>1, <2>2, <3>2
  <2>5. G.msg = <<Responses[q].sub, m.val>>
    BY <2>1, <2>2, <2>3
  <2>6. QED BY <2>3, <2>4, <2>5
<1>8. ASSUME b # <<>>, Whole(b)
      PROVE  IF K = {} THEN ~ G.ok
             ELSE (G.ok <=> M.ok) /\ (G.ok => G.msg = <<Responses[f.tag].sub, M.val>>)
  <2>1. CASE K = {}
    BY <1>2, <1>4, <1>8, <2>1
  <2>2. CASE K # {}
    <3>1. /\ x \in K /\ r.ok /\ r.val = Responses[f.tag].sub
          /\ AtByte(r.in, b, VarintEnd(b, x) + 1)
      BY <1>2, <1>8, <2>2
    <3>2. x \in Fields(b) /\ f.tag \in {1, 2} /\ f.wt = 2
      BY <3>1 DEF Answering, IsAnswer
    <3>3. f.last <= Len(b)
      <4>1. PICK p : Leads(p, b)
        BY SomeLeads
      <4>2. PICK k \in 0..Len(b) : x = p[k] /\ p[k] <= Len(b)
        BY <3>2, <4>1, WholeIs
      <4>3. StandsAt(b, x)
        BY <1>8, <4>1, <4>2, WholeIs
      <4>4. QED BY <4>3 DEF StandsAt
    <3> DEFINE i == VarintEnd(b, x) + 1
               p == Payload(b, i, 2)
               q == f.tag
               u == BytesAt(b, x)
    <3>4. f.first = p[1] /\ f.last = p[2]
      BY <3>2, FieldIs
    <3>5. u = SubSeq(b, p[1], p[2])
      BY <3>4 DEF BytesAt
    <3>6. q \in {1, 2} /\ r.val = Responses[q].sub /\ AtByte(r.in, b, i)
      BY <3>1, <3>2
    <3>7. p[2] <= Len(b)
      BY <3>3, <3>4
    <3> HIDE DEF i, q, p, u
    <3>8. /\ C.ok \in BOOLEAN
          /\ C.ok <=> /\ Payload(b, i, 2)[2] <= Len(b)
                      /\ Meaning(Responses[q].sub,
                                 SubSeq(b, Payload(b, i, 2)[1], Payload(b, i, 2)[2])).ok
          /\ C.ok => C.val = Meaning(Responses[q].sub,
                                     SubSeq(b, Payload(b, i, 2)[1], Payload(b, i, 2)[2])).val
      BY <1>5, <3>6
    <3>9. (C.ok <=> Meaning(Responses[q].sub, u).ok) /\ (C.ok => C.val = Meaning(Responses[q].sub, u).val)
      BY <3>5, <3>7, <3>8 DEF p
    <3>10. (G.ok <=> C.ok) /\ (G.ok => G.msg = <<Responses[q].sub, C.val>>)
      BY <1>4, <1>8, <3>1, <3>6
    <3>11. M = Meaning(Responses[q].sub, u)
      BY DEF q, u
    <3> HIDE DEF M
    <3>12. (G.ok <=> M.ok) /\ (G.ok => G.msg = <<Responses[q].sub, M.val>>)
      BY <3>9, <3>10, <3>11
    <3>13. QED BY <2>2, <3>12 DEF q
  <2>3. QED BY <2>1, <2>2
<1>9. QED BY <1>6, <1>7, <1>8 DEF G
-----------------------------------------------------------------------------
(* The answers.                                                            *)

\* What was received, and what byte2msg makes of it.
Replied == reply.from \in Seq(Byte) /\ reply.got = Byte2msg(reply.from)

\* Of no bytes byte2msg makes nothing.
LEMMA NothingOfNothing == Byte2msg(<<>>) = Nothing
<1>1. Byte2msg(<<>>) = LET F == Fail(IstreamFromBuffer(<<>>))
                       IN IF F.ok THEN F ELSE Nothing
  BY DEF Byte2msg, Nothing
<1>2. Fail(IstreamFromBuffer(<<>>)).ok = FALSE
  BY DEF Fail
<1>3. QED BY <1>1, <1>2

\* What was received is bytes, and the reply is what byte2msg makes of them.
LEMMA RepliedAlways == Spec => []Replied
<1>1. Init => Replied
  <2>1. Init => reply.from = <<>> /\ reply.got = Nothing
    <3>1. Init => reply = [from |-> <<>>, got |-> Nothing]
      BY DEF Init
    <3> DEFINE none == <<>>
    <3> HIDE DEF none
    <3>2. [from |-> none, got |-> Nothing].from = none /\ [from |-> none, got |-> Nothing].got = Nothing
      OBVIOUS
    <3>3. QED BY <3>1, <3>2 DEF none
  <2>2. <<>> \in Seq(Byte)
    OBVIOUS
  <2>3. QED BY <2>1, <2>2, NothingOfNothing DEF Replied
<1>2. Replied /\ [Next]_vars => Replied'
  <2> SUFFICES ASSUME Replied, [Next]_vars
               PROVE  Replied'
    OBVIOUS
  <2>1. ASSUME NEW bytes \in Answers, Receive(bytes)
        PROVE  Replied'
    <3>1. reply'.from = bytes /\ reply'.got = Byte2msg(bytes) /\ bytes \in Seq(Byte)
      BY <2>1, LineAssumption DEF Receive
    <3>2. QED BY <3>1 DEF Replied
  <2>2. ASSUME reply' = reply
        PROVE  Replied'
    BY <2>2 DEF Replied
  <2>3. QED BY <2>1, <2>2 DEF Next, vars, Parse, Convert, SerialOpen, WriteOut, Carry
<1>3. QED BY <1>1, <1>2, PTL DEF Spec

\* AnswersRead: of every string of bytes, damaged or not, byte2msg makes what
\* they mean, or nothing.
THEOREM AnswersTrue == Spec => []AnswersRead
<1>1. Replied => AnswersRead
  <2> SUFFICES ASSUME Replied
               PROVE  AnswersRead
    OBVIOUS
  <2> DEFINE b == reply.from
             G == reply.got
             K == Answering(b)
             f == FieldAt(b, Min(K))
             M == Meaning(Responses[f.tag].sub, BytesAt(b, Min(K)))
  <2>1. b \in Seq(Byte) /\ G = Byte2msg(b)
    BY DEF Replied
  <2> HIDE DEF b, G
  <2>2. /\ G.ok => \E i \in 2..Len(b), q \in {1, 2} :
                     LET p == Payload(b, i, 2)
                         m == Meaning(Responses[q].sub, SubSeq(b, p[1], p[2]))
                     IN  /\ Int32In(b, i) /\ p[2] <= Len(b) /\ m.ok
                         /\ G.msg = <<Responses[q].sub, m.val>>
        /\ b # <<>> /\ Whole(b) =>
               IF K = {} THEN ~ G.ok
               ELSE (G.ok <=> M.ok) /\ (G.ok => G.msg = <<Responses[f.tag].sub, M.val>>)
    BY <2>1, Byte2msgIs
  <2>3. G.ok => \E i \in 2..Len(b), r \in {1, 2} : Int32In(b, i) /\ Stands(b, r, Payload(b, i, 2))
    BY <2>2 DEF Stands, G
  <2>4. K = {i \in Fields(b) : FieldAt(b, i).tag \in {1, 2} /\ FieldAt(b, i).wt = 2}
    BY DEF Answering, IsAnswer
  <2> HIDE DEF K
  <2>5. QED BY <2>2, <2>3, <2>4 DEF AnswersRead, b, G
<1>2. QED BY <1>1, RepliedAlways, PTL
-----------------------------------------------------------------------------
(* Integers as they are written.                                           *)

\* From the i-th byte on s holds the integer of these bits.
Holds(s, i, bits) ==
    /\ i + Len(Groups(bits)) - 1 <= Len(s)
    /\ \A j \in 1..Len(Groups(bits)) : s[i + j - 1] = Groups(bits)[j]

\* The highest bit of a number that is not zero.
LEMMA MaxBit ==
    ASSUME NEW bits \in SUBSET (0..31), bits # {}
    PROVE  Max(bits) \in bits /\ \A x \in bits : x <= Max(bits)
<1> DEFINE T == {y \in 0..31 : 31 - y \in bits}
<1>1. T \in SUBSET Nat /\ T # {}
  <2>1. PICK x \in bits : x \in 0..31
    OBVIOUS
  <2>2. 31 - x \in T
    <3>1. 31 - x \in 0..31 /\ 31 - (31 - x) = x
      BY <2>1
    <3>2. QED BY <3>1
  <2>3. T \in SUBSET Nat
    OBVIOUS
  <2> HIDE DEF T
  <2>4. QED BY <2>2, <2>3
<1>2. PICK t \in T : \A y \in T : t <= y
  <2> HIDE DEF T
  <2>1. QED BY <1>1, LeastNat
<1>3. 31 - t \in bits /\ \A x \in bits : 31 - t >= x
  <2>1. \A x \in bits : x \in 0..31 /\ 31 - x \in T
    <3>1. \A x \in bits : x \in 0..31
      OBVIOUS
    <3>2. \A x \in 0..31 : 31 - x \in 0..31 /\ 31 - (31 - x) = x
      OBVIOUS
    <3>3. \A x \in bits : 31 - x \in 0..31 /\ 31 - (31 - x) \in bits
      BY <3>1, <3>2
    <3>4. QED BY <3>1, <3>3
  <2>2. t \in 0..31 /\ 31 - t \in bits
    OBVIOUS
  <2> HIDE DEF T
  <2>3. \A x \in bits : t <= 31 - x
    BY <1>2, <2>1
  <2>4. QED BY <2>1, <2>2, <2>3
<1>4. bits \in SUBSET Int
  OBVIOUS
<1>5. Max(bits) = 31 - t
  BY <1>3, <1>4, MaxIs
<1>6. QED BY <1>3, <1>5

\* The groups, seven bits each.
LEMMA GroupsAre ==
    ASSUME NEW bits \in SUBSET (0..31)
    PROVE  LET g == Groups(bits)
           IN  /\ g \in Seq(Byte) /\ Len(g) \in 1..5
               /\ \A x \in bits : x < 7 * Len(g)
               /\ (\A x \in bits : x < 7) => Len(g) = 1
               /\ \A j \in 1..Len(g) :
                     /\ j < Len(g) <=> 7 \in g[j]
                     /\ g[j] \cap 0..6 = {x - (7 * j - 7) : x \in bits \cap (7 * j - 7)..(7 * j - 1)}
<1> DEFINE n == IF bits = {} THEN 1 ELSE Max(bits) \div 7 + 1
           G(i) == Shift(bits \cap (7 * i - 7)..(7 * i - 1), 7 - 7 * i)
           g == [i \in 1..n |-> G(i) \cup (IF i < n THEN {7} ELSE {})]
<1>1. Groups(bits) = g
  BY DEF Groups
<1>2. /\ n \in 1..5 /\ \A x \in bits : x < 7 * n
      /\ (\A x \in bits : x < 7) => n = 1
  <2>1. CASE bits = {}
    BY <2>1
  <2>2. CASE bits # {}
    <3> DEFINE m == Max(bits)
    <3>1. m \in 0..31 /\ m \in bits /\ \A x \in bits : x <= m
      BY <2>2, MaxBit
    <3> HIDE DEF m
    <3>2. n = m \div 7 + 1
      BY <2>2 DEF m
    <3>3. m \div 7 + 1 \in 1..5 /\ m < 7 * (m \div 7 + 1) /\ (m < 7 => m \div 7 + 1 = 1)
      BY <3>1
    <3>4. bits \subseteq Int
      OBVIOUS
    <3> HIDE DEF n
    <3>5. \A x \in bits : x < 7 * n
      BY <3>1, <3>2, <3>3, <3>4
    <3>6. QED BY <3>1, <3>2, <3>3, <3>5
  <2>3. QED BY <2>1, <2>2
<1> HIDE DEF n
<1>3. \A i \in 1..n :
         /\ G(i) = {x - (7 * i - 7) : x \in bits \cap (7 * i - 7)..(7 * i - 1)}
         /\ G(i) \subseteq 0..6
  <2>1. \A i \in 1..n : \A x \in bits \cap (7 * i - 7)..(7 * i - 1) :
           x + (7 - 7 * i) = x - (7 * i - 7) /\ x + (7 - 7 * i) \in 0..6
    BY <1>2
  <2>2. QED BY <2>1 DEF Shift
<1>4. Len(g) = n /\ \A i \in 1..n : g[i] = G(i) \cup (IF i < n THEN {7} ELSE {})
  BY <1>2
<1>5. g \in Seq(Byte)
  <2>1. \A i \in 1..n : G(i) \cup (IF i < n THEN {7} ELSE {}) \in Byte
    BY <1>3 DEF Byte
  <2> HIDE DEF G
  <2>2. n \in Nat
    BY <1>2
  <2>3. QED BY <2>1, <2>2
<1> HIDE DEF g, G
<1>6. \A j \in 1..n : (j < n <=> 7 \in g[j]) /\ g[j] \cap 0..6 = G(j)
  BY <1>3, <1>4
<1>7. QED BY <1>1, <1>2, <1>3, <1>4, <1>5, <1>6

\* What EncodeVarint writes is read as the bits that it was given.
LEMMA GroupsRead ==
    ASSUME NEW s \in Seq(Byte), NEW i \in Nat \ {0}, NEW bits \in SUBSET (0..31), Holds(s, i, bits)
    PROVE  /\ VarintEnds(s, i) # {} /\ VarintEnd(s, i) = i + Len(Groups(bits)) - 1
           /\ VarintAt(s, i) = bits /\ Int32At(s, i) = bits /\ Int32In(s, i)
<1> DEFINE g == Groups(bits)
           n == Len(g)
           e == i + n - 1
<1>1. /\ n \in 1..5 /\ \A x \in bits : x < 7 * n
      /\ \A j \in 1..n : /\ j < n <=> 7 \in g[j]
                         /\ g[j] \cap 0..6 = {x - (7 * j - 7) : x \in bits \cap (7 * j - 7)..(7 * j - 1)}
  BY GroupsAre
<1>2. /\ Len(s) \in Nat /\ e <= Len(s) /\ \A j \in 1..n : s[i + j - 1] = g[j]
  BY BytesOf DEF Holds
<1> HIDE DEF g, n
<1>3. e \in i..Len(s) /\ \A k \in i..e : k - i + 1 \in 1..n /\ i + (k - i + 1) - 1 = k
  BY <1>1, <1>2
<1>4. \A k \in i..e : s[k] = g[k - i + 1]
  BY <1>2, <1>3
<1> DEFINE P(k) == {x - 7 * (k - i) : x \in bits \cap (7 * (k - i))..(7 * (k - i) + 6)}
<1>5. \A k \in i..e : s[k] \cap 0..6 = P(k)
  <2>1. \A k \in i..e : 7 * (k - i + 1) - 7 = 7 * (k - i) /\ 7 * (k - i + 1) - 1 = 7 * (k - i) + 6
    BY <1>1
  <2>2. SUFFICES ASSUME NEW k \in i..e PROVE s[k] \cap 0..6 = P(k)
    OBVIOUS
  <2> DEFINE j == k - i + 1
  <2>3. j \in 1..n /\ s[k] = g[j] /\ 7 * j - 7 = 7 * (k - i) /\ 7 * j - 1 = 7 * (k - i) + 6
    BY <1>3, <1>4, <2>1
  <2> HIDE DEF j
  <2>4. g[j] \cap 0..6 = {x - (7 * j - 7) : x \in bits \cap (7 * j - 7)..(7 * j - 1)}
    BY <1>1, <2>3
  <2>5. QED BY <2>3, <2>4
<1>6. VarintEnds(s, i) # {} /\ VarintEnd(s, i) = e
  <2> DEFINE E == VarintEnds(s, i)
  <2>1. E = {k \in i..Len(s) : 7 \notin s[k]}
    BY DEF VarintEnds
  <2>2. \A k \in i..e : k < e <=> 7 \in s[k]
    <3>1. \A k \in i..e : (k - i + 1 < n <=> 7 \in g[k - i + 1]) /\ (k < e <=> k - i + 1 < n)
      BY <1>1, <1>3
    <3>2. QED BY <1>4, <3>1
  <2> HIDE DEF E, e
  <2>3. e \in E
    BY <1>3, <2>1, <2>2
  <2>4. \A k \in E : e <= k
    BY <1>3, <2>1, <2>2
  <2>5. E \in SUBSET Int
    BY <1>2, <2>1
  <2>6. QED BY <2>3, <2>4, <2>5, MinIs DEF VarintEnd, E
<1>7. VarintAt(s, i) = bits
  <2>1. VarintAt(s, i) = UNION {Shift(P(k), 7 * (k - i)) : k \in i..e}
    <3>1. VarintAt(s, i) = UNION {Shift(s[k] \cap 0..6, 7 * (k - i)) : k \in i..e}
      BY <1>6 DEF VarintAt
    <3>2. \A k \in i..e : Shift(s[k] \cap 0..6, 7 * (k - i)) = Shift(P(k), 7 * (k - i))
      BY <1>5
    <3> HIDE DEF P, e
    <3>3. QED BY <3>1, <3>2
  <2>2. ASSUME NEW k \in i..e
        PROVE  Shift(P(k), 7 * (k - i)) = bits \cap (7 * (k - i))..(7 * (k - i) + 6)
    <3> DEFINE q == 7 * (k - i)
    <3>1. q \in Int
      BY <1>3
    <3> HIDE DEF q
    <3>2. \A x \in bits : (x - q) + q = x
      BY <3>1
    <3>3. Shift({x - q : x \in bits \cap q..(q + 6)}, q) = bits \cap q..(q + 6)
      BY <3>2 DEF Shift
    <3>4. QED BY <3>3 DEF q
  <2>3. \A x \in bits : \E k \in i..e : x \in (7 * (k - i))..(7 * (k - i) + 6)
    <3>1. SUFFICES ASSUME NEW x \in bits PROVE \E k \in i..e : x \in (7 * (k - i))..(7 * (k - i) + 6)
      OBVIOUS
    <3>2. x \in 0..31 /\ x < 7 * n
      BY <1>1
    <3> DEFINE j == x \div 7
    <3>3. j \in Nat /\ 7 * j <= x /\ x <= 7 * j + 6 /\ j < n
      BY <1>1, <3>2
    <3> HIDE DEF j
    <3>4. i + j \in i..e /\ (i + j) - i = j
      BY <1>1, <3>3
    <3>5. x \in (7 * ((i + j) - i))..(7 * ((i + j) - i) + 6)
      BY <3>2, <3>3, <3>4
    <3>6. QED BY <3>4, <3>5
  <2> HIDE DEF P
  <2>4. VarintAt(s, i) = UNION {bits \cap (7 * (k - i))..(7 * (k - i) + 6) : k \in i..e}
    BY <2>1, <2>2
  <2> DEFINE Q(k) == (7 * (k - i))..(7 * (k - i) + 6)
  <2>5. VarintAt(s, i) = UNION {bits \cap Q(k) : k \in i..e}
    BY <2>4
  <2>6. \A x \in bits : \E k \in i..e : x \in Q(k)
    BY <2>3
  <2> DEFINE K == i..e
             U == UNION {bits \cap Q(k) : k \in K}
  <2> HIDE DEF Q, e
  <2>7. VarintAt(s, i) = U
    BY <2>5
  <2>8. \A x \in bits : \E k \in K : x \in Q(k)
    BY <2>6
  <2> HIDE DEF K
  <2>9. \A x : x \in U <=> x \in bits
    <3>1. ASSUME NEW x \in U PROVE x \in bits
      <4>1. PICK y \in {bits \cap Q(k) : k \in K} : x \in y
        OBVIOUS
      <4>2. QED BY <4>1
    <3>2. ASSUME NEW x \in bits PROVE x \in U
      <4>1. PICK k \in K : x \in Q(k)
        BY <2>8
      <4>2. x \in bits \cap Q(k) /\ bits \cap Q(k) \in {bits \cap Q(l) : l \in K}
        BY <4>1
      <4>3. QED BY <4>2
    <3>3. QED BY <3>1, <3>2
  <2> HIDE DEF U
  <2>10. U = bits
    BY <2>9
  <2>11. QED BY <2>7, <2>10
<1>8. Int32At(s, i) = bits
  BY <1>7 DEF Int32At
<1>9. Int32In(s, i)
  <2>1. e <= i + 9 /\ (i + 5)..e = {}
    BY <1>1
  <2>2. ASSUME i + 4 <= e PROVE s[i + 4] \cap 4..6 = {}
    <3>1. n = 5 /\ i + 4 \in i..e
      BY <1>1, <2>2
    <3>2. s[i + 4] \cap 0..6 = P(i + 4)
      BY <1>5, <3>1
    <3>3. P(i + 4) = {x - 28 : x \in bits \cap 28..34}
      <4>1. 7 * ((i + 4) - i) = 28 /\ 7 * ((i + 4) - i) + 6 = 34
        OBVIOUS
      <4>2. QED BY <4>1
    <3>4. \A x \in bits \cap 28..34 : x - 28 \in 0..3
      OBVIOUS
    <3>5. QED BY <3>2, <3>3, <3>4
  <2> HIDE DEF e
  <2>3. QED BY <1>6, <2>1, <2>2 DEF Int32In
<1>10. QED BY <1>6, <1>7, <1>8, <1>9 DEF g, n
-----------------------------------------------------------------------------
(* Bytes that are one field, and what they mean.                           *)

\* Bytes that one field fills are whole, and it is their only field.
LEMMA OneField ==
    ASSUME NEW b \in Seq(Byte), b # <<>>, StandsAt(b, 1), FieldAt(b, 1).last = Len(b)
    PROVE  Whole(b) /\ Fields(b) = {1}
<1>1. Len(b) \in Nat \ {0}
  BY EmptySeq, LenProperties
<1>2. PICK p : Leads(p, b)
  BY SomeLeads
<1>3. p[0] = 1 /\ p[1] = Len(b) + 1
  <2>1. 1 \in 1..Len(b) /\ 1 - 1 = 0 /\ 1 <= Len(b)
    BY <1>1
  <2>2. p[0] = 1 /\ p[1] = NextStart(b, p[0])
    BY <1>2, <2>1 DEF Leads
  <2>3. NextStart(b, 1) = FieldAt(b, 1).last + 1
    BY <2>1 DEF NextStart
  <2>4. QED BY <2>2, <2>3
<1>4. \A j \in 1..Len(b) : p[j] = Len(b) + 1
  <2>1. 1 \in 0..Len(b) /\ Len(b) + 1 \in 1..(Len(b) + 1) /\ ~ (Len(b) + 1 <= Len(b))
    BY <1>1
  <2>2. NextStart(b, p[1]) = p[1]
    BY <1>3, <2>1, NextIs
  <2>3. \A j \in 1..Len(b) : NextStart(b, p[1]) = p[1] => p[j] = p[1]
    BY <1>2, <2>1, LeadsOn
  <2>4. QED BY <1>3, <2>2, <2>3
<1>5. Whole(b)
  <2>1. Len(b) \in 1..Len(b)
    BY <1>1
  <2>2. QED BY <1>2, <1>4, <2>1, WholeIs
<1>6. Fields(b) = {1}
  <2>1. Fields(b) = {p[k] : k \in {j \in 0..Len(b) : p[j] <= Len(b)}}
    BY <1>2, WholeIs
  <2>2. {j \in 0..Len(b) : p[j] <= Len(b)} = {0}
    <3>1. 0 \in 0..Len(b) /\ p[0] <= Len(b)
      BY <1>1, <1>3
    <3>2. ASSUME NEW j \in 0..Len(b), p[j] <= Len(b) PROVE j = 0
      <4>1. CASE j \in 1..Len(b)
        BY <1>1, <1>4, <3>2, <4>1
      <4>2. QED BY <1>1, <4>1
    <3>3. QED BY <3>1, <3>2
  <2>3. QED BY <1>3, <2>1, <2>2
<1>7. QED BY <1>5, <1>6

\* Bytes in which the first field is cut off are not whole.
LEMMA NoField ==
    ASSUME NEW b \in Seq(Byte), b # <<>>, ~ StandsAt(b, 1)
    PROVE  ~ Whole(b)
<1>1. Len(b) \in Nat \ {0}
  BY EmptySeq, LenProperties
<1>2. PICK p : Leads(p, b)
  BY SomeLeads
<1>3. p[0] = 1 /\ 0 \in 0..Len(b) /\ p[0] <= Len(b)
  BY <1>1, <1>2 DEF Leads
<1>4. Whole(b) => StandsAt(b, p[0])
  BY <1>2, <1>3, WholeIs
<1>5. QED BY <1>3, <1>4

\* The payloads of one field, one after the other.
LEMMA JoinedOne ==
    ASSUME NEW b \in Seq(Byte), b # <<>>, BytesAt(b, 1) \in Seq(Byte)
    PROVE  LET upto[k \in 0..Len(b)] ==
                   IF k = 0 THEN <<>> ELSE upto[k - 1] \o (IF k \in {1} THEN BytesAt(b, k) ELSE <<>>)
           IN  upto[Len(b)] = BytesAt(b, 1)
<1> DEFINE v == BytesAt(b, 1)
           N == Len(b)
           Unfold(f) == [k \in 0..N |-> IF k = 0 THEN <<>>
                             ELSE f[k - 1] \o (IF k \in {1} THEN BytesAt(b, k) ELSE <<>>)]
           r == CHOOSE f : f = Unfold(f)
           g == [k \in 0..N |-> IF k = 0 THEN <<>> ELSE v]
<1>1. N \in Nat \ {0}
  BY EmptySeq, LenProperties
<1>2. <<>> \o v = v /\ v \o <<>> = v
  OBVIOUS
<1> HIDE DEF N, v
<1>3. g = Unfold(g)
  <2>1. \A k \in 0..N : g[k] = IF k = 0 THEN <<>> ELSE v
    OBVIOUS
  <2>2. ASSUME NEW k \in 1..N
        PROVE  g[k] = g[k - 1] \o (IF k \in {1} THEN BytesAt(b, k) ELSE <<>>)
    <3>1. k \in 0..N /\ k - 1 \in 0..N /\ k # 0 /\ (k - 1 = 0 <=> k = 1)
      BY <1>1
    <3>2. g[k] = v /\ g[k - 1] = IF k = 1 THEN <<>> ELSE v
      BY <2>1, <3>1
    <3> HIDE DEF g
    <3>3. CASE k = 1
      BY <1>2, <3>2, <3>3 DEF v
    <3>4. CASE k # 1
      BY <1>2, <3>2, <3>4
    <3>5. QED BY <3>3, <3>4
  <2>3. \A k \in 0..N : k = 0 \/ k \in 1..N
    BY <1>1
  <2>4. g = [k \in 0..N |-> g[k]]
    OBVIOUS
  <2> HIDE DEF g
  <2>5. \A k \in 0..N : g[k] = IF k = 0 THEN <<>> ELSE g[k - 1] \o (IF k \in {1} THEN BytesAt(b, k) ELSE <<>>)
    BY <2>1, <2>2, <2>3
  <2>6. QED BY <2>4, <2>5
<1>4. r = Unfold(r)
  <2> HIDE DEF Unfold, g
  <2>1. QED BY <1>3
<1> HIDE DEF r
<1>5. \A k \in 0..N : r[k] = IF k = 0 THEN <<>> ELSE r[k - 1] \o (IF k \in {1} THEN BytesAt(b, k) ELSE <<>>)
  BY <1>4
<1> DEFINE S == {k \in 0..N : r[k] = IF k = 0 THEN <<>> ELSE v}
<1>6. 0 \in S
  BY <1>1, <1>5
<1>7. ASSUME NEW k \in 0..N, k \in S, k < N PROVE k + 1 \in S
  <2>1. k + 1 \in 0..N /\ k + 1 # 0 /\ (k + 1) - 1 = k /\ (k + 1 = 1 <=> k = 0)
    BY <1>1, <1>7
  <2>2. r[k + 1] = r[k] \o (IF k + 1 \in {1} THEN BytesAt(b, k + 1) ELSE <<>>)
    BY <1>5, <2>1
  <2>3. r[k] = IF k = 0 THEN <<>> ELSE v
    BY <1>7
  <2>4. CASE k = 0
    <3>1. r[k + 1] = <<>> \o v
      BY <2>1, <2>2, <2>3, <2>4 DEF v
    <3>2. QED BY <1>2, <2>1, <3>1
  <2>5. CASE k # 0
    <3>1. r[k + 1] = v \o <<>>
      BY <2>1, <2>2, <2>3, <2>5
    <3>2. QED BY <1>2, <2>1, <3>1
  <2>6. QED BY <2>4, <2>5
<1>8. 0..N \subseteq S
  <2> HIDE DEF S
  <2>1. QED BY <1>1, <1>6, <1>7, InductionUpTo
<1>9. r[N] = v
  BY <1>1, <1>8
<1>10. QED BY <1>9 DEF r, N, v

\* The only field is the last one.
LEMMA MaxOne == Max({1}) = 1
<1> DEFINE S == {1}
<1>1. S \in SUBSET Int /\ 1 \in S /\ \A y \in S : 1 >= y
  OBVIOUS
<1> HIDE DEF S
<1>2. Max(S) = 1
  BY <1>1, MaxIs
<1>3. QED BY <1>2 DEF S

\* A message of optional numbers of which one is set.
LEMMA ScalarMeans ==
    ASSUME NEW b \in Seq(Byte), b # <<>>, StandsAt(b, 1), FieldAt(b, 1).last = Len(b),
           NEW n \in Nat, NEW l \in {"UVARINT", "FIXED32"}, NEW t \in 1..n,
           FieldAt(b, 1).tag = t, FieldAt(b, 1).wt = WireType[l],
           l = "UVARINT" => VarintIn(BytesAt(b, 1), 1, 32)
    PROVE  LET M == FlatMeaning(Scalars("OPTIONAL", l, 4, n), b)
           IN  /\ M.ok /\ DOMAIN M.val = 1..n
               /\ \A i \in 1..n : M.val[i].has = (i = t)
               /\ l = "UVARINT" => M.val[t].val = VarintAt(BytesAt(b, 1), 1)
               /\ l = "FIXED32" => M.val[t].val = BytesAt(b, 1)
<1> DEFINE type_ == Scalars("OPTIONAL", l, 4, n)
           starts == Fields(b)
           Of(f) == {i \in starts : FieldAt(b, i).tag = f.tag}
           joined(of) ==
             LET upto[k \in 0..Len(b)] ==
                     IF k = 0 THEN <<>> ELSE upto[k - 1] \o (IF k \in of THEN BytesAt(b, k) ELSE <<>>)
             IN  upto[Len(b)]
           Right(f) ==
             /\ f.htype = "REQUIRED" => Of(f) # {}
             /\ \A i \in Of(f) :
                   /\ FieldAt(b, i).wt = WireType[f.ltype]
                   /\ f.ltype = "UVARINT" => VarintIn(BytesAt(b, i), 1, 32)
                   /\ f.ltype = "SUBMESSAGE" => NoMeaning(f.sub, BytesAt(b, i)).ok
           Val(f, of) ==
             CASE of = {} -> Unset(f)
               [] f.ltype = "SUBMESSAGE" /\ of # {} -> NoMeaning(f.sub, joined(of)).val
               [] f.ltype = "UVARINT" /\ of # {} -> VarintAt(BytesAt(b, Max(of)), 1)
               [] f.ltype = "FIXED32" /\ of # {} -> BytesAt(b, Max(of))
           Member(f) == IF f.htype = "REQUIRED" THEN Val(f, Of(f))
                        ELSE [has |-> Of(f) # {}, val |-> Val(f, Of(f))]
           value == [i \in 1..Len(type_) |-> Member(type_[i])]
           M == FlatMeaning(type_, b)
<1>1. M = IF Whole(b) /\ \A i \in 1..Len(type_) : Right(type_[i])
          THEN [ok |-> TRUE, val |-> value]
          ELSE [ok |-> FALSE, val |-> <<>>]
  BY DEF FlatMeaning, MeaningWith, MeaningOf
<1>2. /\ Len(type_) = n
      /\ \A i \in 1..n : type_[i] = [tag |-> i, htype |-> "OPTIONAL", ltype |-> l,
                                    size |-> 4, array |-> 1, sub |-> <<>>]
  BY DEF Scalars
<1>3. \A i \in 1..n : type_[i].tag = i /\ type_[i].htype = "OPTIONAL" /\ type_[i].ltype = l
  <2> HIDE DEF type_
  <2>1. QED BY <1>2
<1>4. Whole(b) /\ Fields(b) = {1}
  BY OneField
<1> HIDE DEF type_
<1>5. \A i \in 1..n : Of(type_[i]) = IF i = t THEN {1} ELSE {}
  BY <1>3, <1>4
<1>6. Max({1}) = 1
  BY MaxOne
<1>7. ASSUME NEW i \in 1..n PROVE Right(type_[i])
  <2> DEFINE f == type_[i]
  <2>1. f.htype = "OPTIONAL" /\ f.ltype = l /\ Of(f) = IF i = t THEN {1} ELSE {}
    BY <1>3, <1>5
  <2> HIDE DEF f
  <2>2. QED BY <2>1 DEF f
<1>8. ASSUME NEW i \in 1..n
      PROVE  Member(type_[i]).has = (i = t) /\ Member(type_[i]).val = Val(type_[i], Of(type_[i]))
  <2> DEFINE f == type_[i]
  <2>1. f.htype = "OPTIONAL" /\ f.ltype = l /\ Of(f) = IF i = t THEN {1} ELSE {}
    BY <1>3, <1>5
  <2> HIDE DEF f, Of, Val
  <2>2. Member(f) = [has |-> Of(f) # {}, val |-> Val(f, Of(f))]
    BY <2>1
  <2>3. (Of(f) # {}) = (i = t)
    BY <2>1
  <2>4. QED BY <2>2, <2>3 DEF f
<1>9. /\ l = "UVARINT" => Val(type_[t], {1}) = VarintAt(BytesAt(b, 1), 1)
      /\ l = "FIXED32" => Val(type_[t], {1}) = BytesAt(b, 1)
  <2>1. type_[t].ltype = l
    BY <1>3
  <2> DEFINE f == type_[t]
             of == {1}
             x == joined(of)
  <2> HIDE DEF f, x
  <2>2. of # {}
    OBVIOUS
  <2>3. Max(of) = 1
    BY <1>6
  <2>4. Val(f, of) =
             CASE of = {} -> Unset(f)
               [] f.ltype = "SUBMESSAGE" /\ of # {} -> NoMeaning(f.sub, x).val
               [] f.ltype = "UVARINT" /\ of # {} -> VarintAt(BytesAt(b, Max(of)), 1)
               [] f.ltype = "FIXED32" /\ of # {} -> BytesAt(b, Max(of))
    BY DEF x
  <2> HIDE DEF of, Val
  <2>5. CASE l = "UVARINT"
    BY <2>1, <2>2, <2>3, <2>4, <2>5 DEF f, of
  <2>6. CASE l = "FIXED32"
    BY <2>1, <2>2, <2>3, <2>4, <2>6 DEF f, of
  <2>7. QED BY <2>5, <2>6
<1> HIDE DEF Right, Val, Of, joined
<1>10. M = [ok |-> TRUE, val |-> value]
  BY <1>1, <1>2, <1>4, <1>7
<1>11. \A i \in 1..n : value[i] = Member(type_[i])
  BY <1>2
<1>12. DOMAIN value = 1..n
  BY <1>2
<1>13. Val(type_[t], Of(type_[t])) = Val(type_[t], {1})
  BY <1>5
<1> HIDE DEF Member, value, M
<1>14. M.ok /\ M.val = value
  BY <1>10
<1>15. \A i \in 1..n : M.val[i].has = (i = t)
  BY <1>8, <1>11, <1>14
<1>16. M.val[t].val = Val(type_[t], {1})
  BY <1>8, <1>11, <1>13, <1>14
<1>17. QED BY <1>9, <1>12, <1>14, <1>15, <1>16 DEF M, type_

\* A command: a message around another.
LEMMA UnionMeans ==
    ASSUME NEW b \in Seq(Byte), b # <<>>, StandsAt(b, 1), FieldAt(b, 1).last = Len(b),
           NEW t \in {1, 2}, FieldAt(b, 1).tag = t, FieldAt(b, 1).wt = 2,
           FlatMeaning(Commands[t].sub, BytesAt(b, 1)).ok
    PROVE  LET M == Meaning(Commands, b)
           IN  /\ M.ok
               /\ \A i \in 1..2 : M.val[i].has = (i = t)
               /\ M.val[t].val = FlatMeaning(Commands[t].sub, BytesAt(b, 1)).val
<1> DEFINE type_ == Commands
           starts == Fields(b)
           Of(f) == {i \in starts : FieldAt(b, i).tag = f.tag}
           joined(of) ==
             LET upto[k \in 0..Len(b)] ==
                     IF k = 0 THEN <<>> ELSE upto[k - 1] \o (IF k \in of THEN BytesAt(b, k) ELSE <<>>)
             IN  upto[Len(b)]
           Right(f) ==
             /\ f.htype = "REQUIRED" => Of(f) # {}
             /\ \A i \in Of(f) :
                   /\ FieldAt(b, i).wt = WireType[f.ltype]
                   /\ f.ltype = "UVARINT" => VarintIn(BytesAt(b, i), 1, 32)
                   /\ f.ltype = "SUBMESSAGE" => FlatMeaning(f.sub, BytesAt(b, i)).ok
           Val(f, of) ==
             CASE of = {} -> Unset(f)
               [] f.ltype = "SUBMESSAGE" /\ of # {} -> FlatMeaning(f.sub, joined(of)).val
               [] f.ltype = "UVARINT" /\ of # {} -> VarintAt(BytesAt(b, Max(of)), 1)
               [] f.ltype = "FIXED32" /\ of # {} -> BytesAt(b, Max(of))
           Member(f) == IF f.htype = "REQUIRED" THEN Val(f, Of(f))
                        ELSE [has |-> Of(f) # {}, val |-> Val(f, Of(f))]
           value == [i \in 1..Len(type_) |-> Member(type_[i])]
           M == Meaning(type_, b)
<1>1. M = IF Whole(b) /\ \A i \in 1..Len(type_) : Right(type_[i])
          THEN [ok |-> TRUE, val |-> value]
          ELSE [ok |-> FALSE, val |-> <<>>]
  BY DEF Meaning, MeaningWith, MeaningOf
<1>2. /\ Len(type_) = 2
      /\ \A i \in 1..2 : /\ type_[i].tag = i
                         /\ type_[i].htype = "OPTIONAL" /\ type_[i].ltype = "SUBMESSAGE"
  BY DEF Commands, Union
<1>3. WireType["SUBMESSAGE"] = 2
  BY DEF WireType
<1>4. Whole(b) /\ Fields(b) = {1}
  BY OneField
<1> HIDE DEF type_
<1>5. \A i \in 1..2 : Of(type_[i]) = IF i = t THEN {1} ELSE {}
  BY <1>2, <1>4
<1>6. joined({1}) = BytesAt(b, 1)
  <2>1. BytesAt(b, 1) \in Seq(Byte)
    <3>1. 1 \in 1..(Len(b) + 1)
      BY LenProperties
    <3>2. QED BY <3>1, StandsIs
  <2>2. QED BY <2>1, JoinedOne
<1> HIDE DEF joined
<1>7. ASSUME NEW i \in 1..2 PROVE Right(type_[i])
  <2> DEFINE f == type_[i]
  <2>1. f.htype = "OPTIONAL" /\ f.ltype = "SUBMESSAGE" /\ Of(f) = IF i = t THEN {1} ELSE {}
    BY <1>2, <1>5
  <2>2. i = t => f.sub = Commands[t].sub
    BY DEF type_
  <2> HIDE DEF f
  <2>3. QED BY <1>3, <2>1, <2>2 DEF f
<1>8. ASSUME NEW i \in 1..2
      PROVE  Member(type_[i]).has = (i = t) /\ Member(type_[i]).val = Val(type_[i], Of(type_[i]))
  <2> DEFINE f == type_[i]
  <2>1. f.htype = "OPTIONAL" /\ Of(f) = IF i = t THEN {1} ELSE {}
    BY <1>2, <1>5
  <2> HIDE DEF f, Of, Val
  <2>2. Member(f) = [has |-> Of(f) # {}, val |-> Val(f, Of(f))]
    BY <2>1
  <2>3. (Of(f) # {}) = (i = t)
    BY <2>1
  <2>4. QED BY <2>2, <2>3 DEF f
<1>9. Val(type_[t], {1}) = FlatMeaning(Commands[t].sub, BytesAt(b, 1)).val
  <2>1. type_[t].ltype = "SUBMESSAGE" /\ type_[t].sub = Commands[t].sub
    BY <1>2 DEF type_
  <2> DEFINE f == type_[t]
             of == {1}
  <2> HIDE DEF f
  <2>2. of # {}
    OBVIOUS
  <2>3. Val(f, of) =
             CASE of = {} -> Unset(f)
               [] f.ltype = "SUBMESSAGE" /\ of # {} -> FlatMeaning(f.sub, BytesAt(b, 1)).val
               [] f.ltype = "UVARINT" /\ of # {} -> VarintAt(BytesAt(b, Max(of)), 1)
               [] f.ltype = "FIXED32" /\ of # {} -> BytesAt(b, Max(of))
    BY <1>6
  <2> HIDE DEF of, Val
  <2>4. QED BY <2>1, <2>2, <2>3 DEF f, of
<1> HIDE DEF Right, Val, Of
<1>10. M = [ok |-> TRUE, val |-> value]
  BY <1>1, <1>2, <1>4, <1>7
<1>11. \A i \in 1..2 : value[i] = Member(type_[i])
  BY <1>2
<1>12. Val(type_[t], Of(type_[t])) = Val(type_[t], {1})
  BY <1>5
<1> HIDE DEF Member, value, M
<1>13. M.ok /\ M.val = value
  BY <1>10
<1>14. \A i \in 1..2 : M.val[i].has = (i = t)
  BY <1>8, <1>11, <1>13
<1>15. M.val[t].val = Val(type_[t], {1})
  BY <1>8, <1>11, <1>12, <1>13
<1>16. QED BY <1>9, <1>13, <1>14, <1>15 DEF M, type_

\* Bytes in which the first field is cut off are no message.
LEMMA NoMessage ==
    ASSUME NEW b \in Seq(Byte), b # <<>>, ~ StandsAt(b, 1)
    PROVE  ~ Meaning(Commands, b).ok
<1>1. ~ Whole(b)
  BY NoField
<1>2. Meaning(Commands, b) = [ok |-> FALSE, val |-> <<>>]
  BY <1>1 DEF Meaning, MeaningWith, MeaningOf
<1>3. QED BY <1>2
-----------------------------------------------------------------------------
(* How a field is written.                                                 *)

Key(wt, tag) == BitsOf(wt) \cup Shift(BitsOf(tag), 3)

\* The key of a field, and what it is read as.
LEMMA KeyBits ==
    ASSUME NEW wt \in 0..7, NEW tag \in 1..16
    PROVE  LET k == Key(wt, tag)
           IN  /\ k \in SUBSET (0..31)
               /\ tag < 16 => \A x \in k : x < 7
               /\ Number(k \cap 0..2) = wt
               /\ Number(Shift(k \cap 3..31, -3)) = tag
<1> DEFINE B == BitsOf(wt)
           T == BitsOf(tag)
           k == B \cup Shift(T, 3)
<1>1. 2^3 = 8 /\ 2^4 = 16
  OBVIOUS
<1>2. wt \in 0..31 /\ tag \in 0..31
  OBVIOUS
<1>3. B \subseteq 0..4 /\ Number(B) = wt /\ T \subseteq 0..4 /\ Number(T) = tag
  BY <1>2, BitsSmall
<1>4. B \subseteq 0..2
  <2>1. (3 \in B => (wt \div 8) % 2 = 1) /\ (4 \in B => (wt \div 16) % 2 = 1)
    BY <1>1 DEF BitsOf
  <2>2. wt \div 8 = 0 /\ wt \div 16 = 0 /\ 0 % 2 = 0
    OBVIOUS
  <2> HIDE DEF B
  <2>3. QED BY <1>3, <2>1, <2>2
<1>5. tag < 16 => 4 \notin T
  <2>1. 4 \in T => (tag \div 16) % 2 = 1
    BY <1>1 DEF BitsOf
  <2>2. tag < 16 => tag \div 16 = 0 /\ 0 % 2 = 0
    OBVIOUS
  <2> HIDE DEF T
  <2>3. QED BY <2>1, <2>2
<1> HIDE DEF B, T
<1>6. \A x \in T : x \in 0..4 /\ x + 3 \in 3..7 /\ (x + 3) + (-3) = x /\ (x + 3 < 7 \/ x = 4)
  BY <1>3
<1> DEFINE S == Shift(T, 3)
<1>7. S = {x + 3 : x \in T}
  BY DEF Shift
<1>8. S \subseteq 3..7
  BY <1>6, <1>7
<1>9. Shift(S, -3) = T
  <2>1. Shift(S, -3) = {(x + 3) + (-3) : x \in T}
    BY <1>7 DEF Shift
  <2> HIDE DEF S
  <2>2. QED BY <1>6, <2>1
<1>10. tag < 16 => \A x \in S : x < 7
  BY <1>5, <1>6, <1>7
<1> HIDE DEF S
<1>11. k = B \cup S
  BY DEF S
<1> HIDE DEF k
<1>12. k \in SUBSET (0..31) /\ k \cap 0..2 = B /\ k \cap 3..31 = S
  <2>1. \A x \in B : x \in 0..2 /\ x \in 0..31 /\ x \notin 3..31
    BY <1>4
  <2>2. \A x \in S : x \notin 0..2 /\ x \in 0..31 /\ x \in 3..31
    BY <1>8
  <2>3. QED BY <1>11, <2>1, <2>2
<1>13. tag < 16 => \A x \in k : x < 7
  BY <1>4, <1>10, <1>11
<1>14. k = Key(wt, tag)
  BY DEF k, B, T, Key
<1>15. QED BY <1>3, <1>9, <1>12, <1>13, <1>14

\* What goes onto a stream with room for it.
LEMMA Writes ==
    ASSUME NEW max \in Nat, NEW out \in Seq(Byte), NEW w \in Seq(Byte), Len(out) + Len(w) <= max
    PROVE  Write([ok |-> TRUE, max |-> max, out |-> out], w) = [ok |-> TRUE, max |-> max, out |-> out \o w]
<1> DEFINE o == [ok |-> TRUE, max |-> max, out |-> out]
<1>1. o.ok = TRUE /\ o.max = max /\ o.out = out /\ o = [ok |-> TRUE, max |-> max, out |-> out]
  OBVIOUS
<1> HIDE DEF o
<1>2. ~ (~ o.ok \/ Len(o.out) + Len(w) > o.max)
  <2>1. Len(out) \in Nat /\ Len(w) \in Nat
    BY LenProperties
  <2>2. QED BY <1>1, <2>1
<1>3. Write(o, w) = [o EXCEPT !.out = o.out \o w]
  BY <1>2 DEF Write
<1>4. [o EXCEPT !.out = o.out \o w] = [ok |-> TRUE, max |-> max, out |-> out \o w]
  <2> DEFINE x == out \o w
             e == [o EXCEPT !.out = x]
  <2>1. e = [o EXCEPT !.out = x]
    OBVIOUS
  <2> HIDE DEF x, e
  <2>2. e = [ok |-> TRUE, max |-> max, out |-> x]
    BY <1>1, <2>1
  <2>3. QED BY <1>1, <2>2 DEF x, e
<1>5. QED BY <1>1, <1>3, <1>4 DEF o

\* The library's instances write as PbWire does.
LEMMA FlatWrites ==
    /\ \A o, w : Flat!Write(o, w) = Write(o, w)
    /\ \A bits : Flat!Groups(bits) = Groups(bits)
    /\ \A wt, tag : Flat!BitsOf(wt) \cup Flat!Shift(Flat!BitsOf(tag), 3) = Key(wt, tag)
    /\ Flat!WireType = WireType
<1>1. \A S : Flat!Max(S) = Max(S)
  BY DEF Flat!Max, Max
<1>2. \A S, n : Flat!Shift(S, n) = Shift(S, n)
  BY DEF Flat!Shift, Shift
<1>3. \A o, w : Flat!Write(o, w) = Write(o, w)
  BY DEF Flat!Write, Write
<1>4. \A bits : Flat!Groups(bits) = Groups(bits)
  BY <1>1, <1>2 DEF Flat!Groups, Groups
<1>5. \A n : Flat!BitsOf(n) = BitsOf(n)
  BY DEF Flat!BitsOf, BitsOf
<1>6. Flat!WireType = WireType
  BY DEF Flat!WireType, WireType
<1>7. QED BY <1>2, <1>3, <1>4, <1>5, <1>6 DEF Key

\* The other instance writes as PbWire does, too.
LEMMA NestedWrites ==
    /\ \A o, w : Nested!Write(o, w) = Write(o, w)
    /\ \A bits : Nested!Groups(bits) = Groups(bits)
    /\ \A n : Nested!BitsOf(n) = BitsOf(n)
<1>1. \A S : Nested!Max(S) = Max(S)
  BY DEF Nested!Max, Max
<1>2. \A S, n : Nested!Shift(S, n) = Shift(S, n)
  BY DEF Nested!Shift, Shift
<1>3. \A o, w : Nested!Write(o, w) = Write(o, w)
  BY DEF Nested!Write, Write
<1>4. \A bits : Nested!Groups(bits) = Groups(bits)
  BY <1>1, <1>2 DEF Nested!Groups, Groups
<1>5. \A n : Nested!BitsOf(n) = BitsOf(n)
  BY DEF Nested!BitsOf, BitsOf
<1>6. QED BY <1>3, <1>4, <1>5

\* The bytes of a number, and of a message in which one number is set.
Sendable(l, v) == \/ l = "UVARINT" /\ v \in SUBSET (0..31)
                  \/ l = "FIXED32" /\ v \in Seq(Byte) /\ Len(v) = 4
Value(l, v) == IF l = "UVARINT" THEN Groups(v) ELSE v
Inner(l, t, v) == Groups(Key(WireType[l], t)) \o Value(l, v)

\* A value that can be sent is at least one byte and at most five.
LEMMA ValueIs ==
    ASSUME NEW l, NEW v, Sendable(l, v)
    PROVE  Value(l, v) \in Seq(Byte) /\ Len(Value(l, v)) \in 1..5
<1>1. CASE l = "UVARINT" /\ v \in SUBSET (0..31)
  <2>1. Groups(v) \in Seq(Byte) /\ Len(Groups(v)) \in 1..5
    BY <1>1, GroupsAre
  <2>2. QED BY <1>1, <2>1 DEF Value
<1>2. CASE l = "FIXED32" /\ v \in Seq(Byte) /\ Len(v) = 4
  BY <1>2 DEF Value
<1>3. QED BY <1>1, <1>2 DEF Sendable

\* A field with its value is two to ten bytes.
LEMMA InnerIs ==
    ASSUME NEW l, NEW v, Sendable(l, v), NEW t \in 1..16
    PROVE  LET k == Groups(Key(WireType[l], t))
               b == Inner(l, t, v)
           IN  /\ k \in Seq(Byte) /\ Len(k) \in 1..5
               /\ b \in Seq(Byte) /\ Len(b) = Len(k) + Len(Value(l, v)) /\ Len(b) \in 2..10
               /\ Key(WireType[l], t) \in SUBSET (0..31)
<1> DEFINE k == Groups(Key(WireType[l], t))
           x == Value(l, v)
<1>1. WireType[l] \in 0..7
  BY DEF Sendable, WireType
<1>2. Key(WireType[l], t) \in SUBSET (0..31)
  BY <1>1, KeyBits
<1>3. k \in Seq(Byte) /\ Len(k) \in 1..5
  BY <1>2, GroupsAre
<1>4. x \in Seq(Byte) /\ Len(x) \in 1..5
  BY ValueIs
<1>5. Inner(l, t, v) = k \o x
  BY DEF Inner
<1> HIDE DEF k, x
<1>6. k \o x \in Seq(Byte) /\ Len(k \o x) = Len(k) + Len(x) /\ Len(k) + Len(x) \in 2..10
  <2>1. k \o x \in Seq(Byte) /\ Len(k \o x) = Len(k) + Len(x)
    BY <1>3, <1>4, ConcatProperties
  <2>2. \A i, j \in 1..5 : i + j \in 2..10
    OBVIOUS
  <2>3. QED BY <1>3, <1>4, <2>1, <2>2
<1>7. QED BY <1>2, <1>3, <1>5, <1>6 DEF k, x

\* A set number is written as its key and its value.
LEMMA FieldWritten ==
    ASSUME NEW l, NEW v, Sendable(l, v), NEW t \in 1..16, NEW f,
           f.tag = t, f.ltype = l, NEW max \in Nat, max >= 10
    PROVE  Flat!EncodeBasicField([ok |-> TRUE, max |-> max, out |-> <<>>], f, v)
           = [ok |-> TRUE, max |-> max, out |-> Inner(l, t, v)]
<1> DEFINE o == [ok |-> TRUE, max |-> max, out |-> <<>>]
           k == Groups(Key(WireType[l], t))
           x == Value(l, v)
           e == Flat!EncodeTagForField(o, f)
<1>1. /\ k \in Seq(Byte) /\ Len(k) \in 1..5
      /\ x \in Seq(Byte) /\ Len(x) \in 1..5
  BY InnerIs, ValueIs
<1>2. e = Write(o, k)
  BY FlatWrites DEF Flat!EncodeTagForField, Flat!EncodeTag, Flat!EncodeVarint
<1>3. Flat!EncodeBasicField(o, f, v) = Write(e, x)
  <2>1. Flat!EncodeBasicField(o, f, v) = Flat!EncodeValue(e, f, v)
    BY DEF Flat!EncodeBasicField
  <2> HIDE DEF e
  <2>2. CASE l = "UVARINT"
    <3>1. Flat!EncodeValue(e, f, v) = Flat!EncVarint(e, f, v)
      BY <2>2 DEF Flat!EncodeValue
    <3>2. Flat!EncVarint(e, f, v) = Flat!EncodeVarint(e, v)
      BY <2>2 DEF Flat!EncVarint
    <3>3. Flat!EncodeVarint(e, v) = Write(e, Groups(v))
      BY FlatWrites DEF Flat!EncodeVarint
    <3>4. QED BY <2>1, <2>2, <3>1, <3>2, <3>3 DEF Value
  <2>3. CASE l = "FIXED32"
    <3>1. Flat!EncodeValue(e, f, v) = Flat!Write(e, v)
      BY <2>3 DEF Flat!EncodeValue
    <3>2. QED BY <2>1, <2>3, <3>1, FlatWrites DEF Value
  <2>4. QED BY <2>2, <2>3 DEF Sendable
<1> HIDE DEF k, x, e
<1>4. <<>> \in Seq(Byte) /\ Len(<<>>) = 0 /\ <<>> \o k = k
  BY <1>1
<1>5. Write(o, k) = [ok |-> TRUE, max |-> max, out |-> k]
  <2> DEFINE z == <<>>
  <2>1. z \in Seq(Byte) /\ Len(z) + Len(k) <= max /\ z \o k = k
    <3>1. \A i \in 1..5 : 0 + i <= max
      OBVIOUS
    <3>2. QED BY <1>1, <1>4, <3>1
  <2> HIDE DEF z
  <2>2. Write([ok |-> TRUE, max |-> max, out |-> z], k) = [ok |-> TRUE, max |-> max, out |-> k]
    BY <1>1, <2>1, Writes
  <2>3. QED BY <2>2 DEF z
<1>6. Write([ok |-> TRUE, max |-> max, out |-> k], x) = [ok |-> TRUE, max |-> max, out |-> k \o x]
  <2>1. Len(k) + Len(x) <= max
    <3>1. \A i, j \in 1..5 : i + j <= max
      OBVIOUS
    <3>2. QED BY <1>1, <3>1
  <2>2. QED BY <1>1, <2>1, Writes
<1>7. QED BY <1>2, <1>3, <1>5, <1>6 DEF Inner, k, x

\* A message in which one field is set is the bytes of this field.
LEMMA MessageWritten ==
    ASSUME NEW l, NEW v, Sendable(l, v), NEW n \in 1..16, NEW t \in 1..n, NEW m,
           \A i \in 1..n : m[i].has <=> i = t, m[t].val = v
    PROVE  Flat!Encode(Nested!Sizing, Scalars("OPTIONAL", l, 4, n), m)
           = [ok |-> TRUE, max |-> 2^24, out |-> Inner(l, t, v)]
<1> DEFINE desc == Scalars("OPTIONAL", l, 4, n)
           max == 2^24
           o == [ok |-> TRUE, max |-> max, out |-> <<>>]
           R == [ok |-> TRUE, max |-> max, out |-> Inner(l, t, v)]
           E(x, k) == Flat!EncodeField(x, desc[k], m[desc[k].tag])
           Unfold(f) == [k \in 0..n |-> IF k = 0 THEN o ELSE E(f[k - 1], k)]
           r == CHOOSE f : f = Unfold(f)
           g == [k \in 0..n |-> IF k < t THEN o ELSE R]
<1>1. max \in Nat /\ max >= 10
  OBVIOUS
<1>2. Nested!Sizing = o
  BY DEF Nested!Sizing, Nested!OstreamFromBuffer
<1>3. Len(desc) = n /\ \A i \in 1..n : /\ desc[i].tag = i /\ desc[i].htype = "OPTIONAL"
                                       /\ desc[i].ltype = l
  <2>1. desc = [i \in 1..n |-> [tag |-> i, htype |-> "OPTIONAL", ltype |-> l,
                                size |-> 4, array |-> 1, sub |-> <<>>]]
    BY DEF Scalars
  <2> HIDE DEF desc
  <2>2. QED BY <2>1
<1>4. Flat!Encode(o, desc, m) = r[n]
  <2>1. Flat!Encode(o, desc, m) =
          LET after[k \in 0..Len(desc)] == IF k = 0 THEN o ELSE E(after[k - 1], k)
          IN  after[Len(desc)]
    BY DEF Flat!Encode
  <2> HIDE DEF desc, E, o
  <2>2. QED BY <1>3, <2>1
<1> HIDE DEF max, desc
<1>5. \A x, k : k \in 1..n /\ k # t => E(x, k) = x
  <2> SUFFICES ASSUME NEW x, NEW k \in 1..n, k # t PROVE E(x, k) = x
    OBVIOUS
  <2> DEFINE f == desc[k]
             c == m[k]
  <2>1. f.htype = "OPTIONAL" /\ f.tag = k /\ ~ c.has
    BY <1>3
  <2>2. E(x, k) = Flat!EncodeField(x, f, c)
    BY <2>1
  <2> HIDE DEF f, c, E
  <2>3. QED BY <2>1, <2>2 DEF Flat!EncodeField
<1>6. E(o, t) = R
  <2> DEFINE f == desc[t]
             c == m[t]
  <2>1. f.htype = "OPTIONAL" /\ f.tag = t /\ f.ltype = l /\ c.has /\ c.val = v
    BY <1>3
  <2>2. E(o, t) = Flat!EncodeField(o, f, c)
    BY <2>1
  <2> HIDE DEF f, c, E, o, R
  <2>3. Flat!EncodeField(o, f, c) = Flat!EncodeBasicField(o, f, v)
    BY <2>1 DEF Flat!EncodeField
  <2>4. t \in 1..16
    OBVIOUS
  <2>5. Flat!EncodeBasicField(o, f, v) = R
    BY <1>1, <2>1, <2>4, FieldWritten DEF o, R
  <2>6. QED BY <2>2, <2>3, <2>5
<1> HIDE DEF E, o, R
<1>7. g = Unfold(g)
  <2>1. \A k \in 0..n : g[k] = IF k < t THEN o ELSE R
    OBVIOUS
  <2>2. g = [k \in 0..n |-> g[k]]
    OBVIOUS
  <2> HIDE DEF g
  <2>3. g[0] = o
    BY <2>1
  <2>4. ASSUME NEW k \in 1..n PROVE g[k] = E(g[k - 1], k)
    <3>1. /\ k \in 0..n /\ k - 1 \in 0..n
          /\ (k < t => k - 1 < t) /\ (k = t => k - 1 < t) /\ (k > t => ~ (k - 1 < t))
      OBVIOUS
    <3>2. CASE k < t
      <4>1. g[k] = o /\ g[k - 1] = o
        BY <2>1, <3>1, <3>2
      <4>2. QED BY <1>5, <3>2, <4>1
    <3>3. CASE k = t
      <4>1. g[k] = R /\ g[k - 1] = o
        BY <2>1, <3>1, <3>3
      <4>2. QED BY <1>6, <3>3, <4>1
    <3>4. CASE k > t
      <4>1. g[k] = R /\ g[k - 1] = R
        BY <2>1, <3>1, <3>4
      <4>2. QED BY <1>5, <3>4, <4>1
    <3>5. QED BY <3>2, <3>3, <3>4
  <2>5. \A k \in 0..n : k = 0 \/ k \in 1..n
    OBVIOUS
  <2>6. \A k \in 0..n : g[k] = IF k = 0 THEN o ELSE E(g[k - 1], k)
    BY <2>3, <2>4, <2>5
  <2>7. QED BY <2>2, <2>6
<1>8. r = Unfold(r)
  <2> HIDE DEF Unfold, g
  <2>1. QED BY <1>7
<1> HIDE DEF r
<1>9. /\ \A k \in 0..n : r[k] = IF k = 0 THEN o ELSE E(r[k - 1], k)
      /\ \A k \in 0..n : g[k] = IF k = 0 THEN o ELSE E(g[k - 1], k)
  <2>1. \A k \in 0..n : r[k] = IF k = 0 THEN o ELSE E(r[k - 1], k)
    BY <1>8
  <2> HIDE DEF g
  <2>2. \A k \in 0..n : g[k] = IF k = 0 THEN o ELSE E(g[k - 1], k)
    BY <1>7
  <2>3. QED BY <2>1, <2>2
<1> DEFINE S == {k \in 0..n : r[k] = g[k]}
<1>10. g[n] = R
  OBVIOUS
<1> HIDE DEF g
<1>11. 0 \in S
  BY <1>9
<1>12. ASSUME NEW k \in 0..n, k \in S, k < n PROVE k + 1 \in S
  <2>1. k + 1 \in 0..n /\ k + 1 # 0 /\ (k + 1) - 1 = k
    BY <1>12
  <2>2. r[k + 1] = E(r[k], k + 1) /\ g[k + 1] = E(g[k], k + 1) /\ r[k] = g[k]
    BY <1>9, <1>12, <2>1
  <2>3. QED BY <2>1, <2>2
<1>13. 0..n \subseteq S
  <2> HIDE DEF S
  <2>1. n \in Nat
    OBVIOUS
  <2>2. QED BY <1>11, <1>12, <2>1, InductionUpTo
<1>14. r[n] = R
  BY <1>10, <1>13
<1>15. QED BY <1>2, <1>4, <1>14 DEF desc, R, max, r

\* The bytes of two sequences, one behind the other.
LEMMA Joins ==
    ASSUME NEW a \in Seq(Byte), NEW b \in Seq(Byte)
    PROVE  /\ a \o b \in Seq(Byte) /\ Len(a) \in Nat /\ Len(b) \in Nat /\ Len(a \o b) = Len(a) + Len(b)
           /\ \A i \in 1..Len(a) : (a \o b)[i] = a[i]
           /\ \A i \in 1..Len(b) : (a \o b)[Len(a) + i] = b[i]
<1>1. Len(a) \in Nat /\ Len(b) \in Nat
  BY LenProperties
<1>2. a \o b \in Seq(Byte) /\ Len(a \o b) = Len(a) + Len(b)
  OBVIOUS
<1>3. \A i \in 1..Len(a) : (a \o b)[i] = a[i]
  BY <1>1
<1>4. \A i \in 1..Len(b) : (a \o b)[Len(a) + i] = b[i]
  BY <1>1
<1>5. QED BY <1>1, <1>2, <1>3, <1>4

\* The commands of the program: which field of the union, what its numbers
\* are, how many.
Command(q, l, n) == \/ q = 1 /\ l = "FIXED32" /\ n = 8
                    \/ q = 2 /\ l = "UVARINT" /\ n = 16

\* The field tables of the commands, and what room they need.
LEMMA CommandsAre ==
    /\ Len(Commands) = 2
    /\ Commands[1].tag = 1 /\ Commands[1].ltype = "SUBMESSAGE" /\ Commands[1].sub = ThrusterCommand
    /\ Commands[2].tag = 2 /\ Commands[2].ltype = "SUBMESSAGE" /\ Commands[2].sub = PWMDevCommand
    /\ ThrusterCommand # PWMDevCommand
    /\ ThrusterCommand # <<>> /\ PWMDevCommand # <<>>
    /\ ThrusterCommand = Scalars("OPTIONAL", "FIXED32", 4, 8)
    /\ PWMDevCommand = Scalars("OPTIONAL", "UVARINT", 4, 16)
    /\ FieldOf(ThrusterCommand) = 1 /\ FieldOf(PWMDevCommand) = 2
<1>1. Len(ThrusterCommand) = 8 /\ Len(PWMDevCommand) = 16 /\ Len(<<>>) = 0
  BY DEF ThrusterCommand, PWMDevCommand, Scalars
<1>2. ThrusterCommand # PWMDevCommand /\ ThrusterCommand # <<>> /\ PWMDevCommand # <<>>
  <2> DEFINE a == ThrusterCommand
             b == PWMDevCommand
             z == <<>>
  <2>1. Len(a) = 8 /\ Len(b) = 16 /\ Len(z) = 0
    BY <1>1
  <2> HIDE DEF a, b, z
  <2>2. (a = b => Len(a) = Len(b)) /\ (a = z => Len(a) = Len(z)) /\ (b = z => Len(b) = Len(z))
    OBVIOUS
  <2>3. a # b /\ a # z /\ b # z
    <3> DEFINE i == Len(a)
               j == Len(b)
               k == Len(z)
    <3>1. i = 8 /\ j = 16 /\ k = 0
      BY <2>1
    <3>2. (a = b => i = j) /\ (a = z => i = k) /\ (b = z => j = k)
      BY <2>2
    <3> HIDE DEF i, j, k
    <3>3. i # j /\ i # k /\ j # k
      BY <3>1
    <3>4. QED BY <3>2, <3>3
  <2>4. QED BY <2>3 DEF a, b, z
<1>3. /\ Len(Commands) = 2
      /\ Commands[1].tag = 1 /\ Commands[1].ltype = "SUBMESSAGE" /\ Commands[1].sub = ThrusterCommand
      /\ Commands[2].tag = 2 /\ Commands[2].ltype = "SUBMESSAGE" /\ Commands[2].sub = PWMDevCommand
  <2> DEFINE a == ThrusterCommand
             b == PWMDevCommand
             s == <<a, b>>
  <2>1. Commands = Union(s)
    BY DEF Commands
  <2> HIDE DEF a, b
  <2>2. Len(s) = 2 /\ s[1] = a /\ s[2] = b
    OBVIOUS
  <2> HIDE DEF s
  <2>3. Union(s) = [i \in 1..2 |-> [tag |-> i, htype |-> "OPTIONAL", ltype |-> "SUBMESSAGE",
                                    size |-> 0, array |-> 1, sub |-> s[i]]]
    BY <2>2 DEF Union
  <2>4. QED BY <2>1, <2>2, <2>3 DEF a, b
<1>4. FieldOf(ThrusterCommand) = 1 /\ FieldOf(PWMDevCommand) = 2
  <2>1. \A i \in 1..2 : i = 1 \/ i = 2
    OBVIOUS
  <2>2. \A i \in 1..2 : /\ Commands[i].sub = ThrusterCommand <=> i = 1
                        /\ Commands[i].sub = PWMDevCommand <=> i = 2
    BY <1>2, <1>3, <2>1
  <2>3. QED BY <1>3, <2>2 DEF FieldOf
<1>5. /\ ThrusterCommand = Scalars("OPTIONAL", "FIXED32", 4, 8)
      /\ PWMDevCommand = Scalars("OPTIONAL", "UVARINT", 4, 16)
  BY DEF ThrusterCommand, PWMDevCommand
<1>6. QED BY <1>2, <1>3, <1>4, <1>5

\* What is sent for it.
Sent(q, l, t, v) ==
    (Groups(Key(2, q)) \o Groups(BitsOf(Len(Inner(l, t, v))))) \o Inner(l, t, v)

\* The three parts that are sent, and their lengths.
LEMMA SentIs ==
    ASSUME NEW q, NEW l, NEW n, Command(q, l, n), NEW v, Sendable(l, v), NEW t \in 1..n
    PROVE  LET a == Groups(Key(2, q))
               c == Inner(l, t, v)
               b == Groups(BitsOf(Len(c)))
           IN  /\ a \in Seq(Byte) /\ Len(a) = 1 /\ b \in Seq(Byte) /\ Len(b) = 1
               /\ c \in Seq(Byte) /\ Len(c) \in 2..10
               /\ Key(2, q) \in SUBSET (0..31) /\ BitsOf(Len(c)) \in SUBSET (0..31)
               /\ Number(BitsOf(Len(c))) = Len(c) /\ BitsOf(Len(c)) \cap 24..31 = {}
               /\ Sent(q, l, t, v) = (a \o b) \o c
<1> DEFINE a == Groups(Key(2, q))
           c == Inner(l, t, v)
           b == Groups(BitsOf(Len(c)))
<1>1. q \in 1..16 /\ q < 16 /\ 2 \in 0..7 /\ t \in 1..16
  BY DEF Command
<1>2. Key(2, q) \in SUBSET (0..31) /\ \A x \in Key(2, q) : x < 7
  BY <1>1, KeyBits
<1>3. a \in Seq(Byte) /\ Len(a) = 1
  BY <1>2, GroupsAre
<1>4. c \in Seq(Byte) /\ Len(c) \in 2..10
  BY <1>1, InnerIs
<1>5. BitsOf(Len(c)) \subseteq 0..4 /\ Number(BitsOf(Len(c))) = Len(c)
  <2>1. Len(c) \in 0..31
    BY <1>4
  <2> HIDE DEF c
  <2>2. QED BY <2>1, BitsSmall
<1> DEFINE B == BitsOf(Len(c))
<1> HIDE DEF c, a, B
<1>6. B \in SUBSET (0..31) /\ (\A x \in B : x < 7) /\ B \cap 24..31 = {}
  <2>1. \A x \in B : x \in 0..4
    BY <1>5 DEF B
  <2>2. QED BY <2>1
<1>7. Groups(B) \in Seq(Byte) /\ Len(Groups(B)) = 1
  BY <1>6, GroupsAre
<1>8. QED BY <1>2, <1>3, <1>4, <1>5, <1>6, <1>7 DEF Sent, a, b, c, B

\* msg2byte writes the message, its key and its length in front, in the room
\* that the header gives.
LEMMA Msg2byteIs ==
    ASSUME NEW q, NEW l, NEW n, Command(q, l, n), NEW v, Sendable(l, v), NEW t \in 1..n, NEW m,
           \A i \in 1..n : m[i].has <=> i = t, m[t].val = v
    PROVE  Msg2byte(Commands[q].sub, m, Commands_size) = Sent(q, l, t, v)
<1> DEFINE desc == Commands[q].sub
           a == Groups(Key(2, q))
           c == Inner(l, t, v)
           b == Groups(BitsOf(Len(c)))
           room == 141
           O(w) == [ok |-> TRUE, max |-> room, out |-> w]
           z == <<>>
<1>1. desc = Scalars("OPTIONAL", l, 4, n) /\ FieldOf(desc) = q /\ n \in 1..16
      /\ Commands[q].tag = q /\ Commands[q].ltype = "SUBMESSAGE"
  BY CommandsAre DEF Command
<1>2. /\ a \in Seq(Byte) /\ Len(a) = 1 /\ b \in Seq(Byte) /\ Len(b) = 1
      /\ c \in Seq(Byte) /\ Len(c) \in 2..10
      /\ Sent(q, l, t, v) = (a \o b) \o c
  BY SentIs
<1>3. Flat!Encode(Nested!Sizing, desc, m) = [ok |-> TRUE, max |-> 2^24, out |-> c]
  <2> DEFINE d == Scalars("OPTIONAL", l, 4, n)
  <2> HIDE DEF desc, c
  <2>1. n \in 1..16
    BY <1>1
  <2>2. Flat!Encode(Nested!Sizing, d, m) = [ok |-> TRUE, max |-> 2^24, out |-> Inner(l, t, v)]
    BY <2>1, MessageWritten
  <2> HIDE DEF d
  <2>3. QED BY <1>1, <2>2 DEF d, c
<1> DEFINE o == OstreamFromBuffer(Commands_size)
           e == EncodeTagForField(o, Commands[FieldOf(desc)])
<1>4. o = O(z)
  BY DEF OstreamFromBuffer, Commands_size
<1>5. e = Write(o, a)
  <2>1. WireType["SUBMESSAGE"] = 2
    BY DEF WireType
  <2>2. e = EncodeTag(o, 2, q)
    BY <1>1, <2>1 DEF EncodeTagForField
  <2>3. QED BY <2>2 DEF EncodeTag, EncodeVarint, Key
<1>6. Nested!EncodeSubmessage(e, desc, m) = Write(Write(e, b), c)
  <2> DEFINE pass == [ok |-> TRUE, max |-> 2^24, out |-> c]
  <2>1. pass.ok = TRUE /\ pass.out = c
    OBVIOUS
  <2>2. Nested!EncodeSubmessage(e, desc, m) = Nested!Enclosed(e, Flat!Encode(Nested!Sizing, desc, m))
    BY DEF Nested!EncodeSubmessage
  <2>3. Nested!EncodeSubmessage(e, desc, m) = Nested!Enclosed(e, pass)
    BY <1>3, <2>2
  <2> HIDE DEF pass, e, c
  <2>4. Nested!Enclosed(e, pass) = Nested!EncodeString(e, c)
    BY <2>1 DEF Nested!Enclosed
  <2>5. QED BY <2>3, <2>4, NestedWrites DEF Nested!EncodeString, Nested!EncodeVarint
<1> HIDE DEF o, e, a, b, c, desc
<1>7. z \in Seq(Byte) /\ z \o a = a /\ Len(z) = 0 /\ room \in Nat /\ \A i \in 0..20 : i <= room
  BY <1>2
<1> DEFINE d == a \o b
<1>8. d \in Seq(Byte) /\ Len(d) = 2
  <2>1. d \in Seq(Byte) /\ Len(d) = Len(a) + Len(b)
    BY <1>2, Joins
  <2> HIDE DEF d
  <2>2. QED BY <1>2, <2>1
<1> HIDE DEF d, z, room
<1>9. Len(z) + Len(a) <= room /\ Len(a) + Len(b) <= room /\ Len(d) + Len(c) <= room
  <2>1. 0 + 1 \in 0..20 /\ 1 + 1 \in 0..20 /\ \A i \in 2..10 : 2 + i \in 0..20
    OBVIOUS
  <2>2. QED BY <1>2, <1>7, <1>8, <2>1
<1>10. Write(O(z), a) = O(a)
  BY <1>2, <1>7, <1>9, Writes
<1>11. Write(O(a), b) = O(d)
  BY <1>2, <1>7, <1>9, Writes DEF d
<1>12. Write(O(d), c) = O(d \o c)
  BY <1>2, <1>7, <1>8, <1>9, Writes
<1> DEFINE x == d \o c
           W == EncodeCommandUnionmessage(o, desc, m)
<1>13. W = O(x)
  <2>1. W = Nested!EncodeSubmessage(e, desc, m)
    BY DEF EncodeCommandUnionmessage, e
  <2>2. e = O(a)
    BY <1>4, <1>5, <1>10
  <2> HIDE DEF O, x, W
  <2>3. W = Write(Write(O(a), b), c)
    BY <1>6, <2>1, <2>2
  <2>4. QED BY <1>11, <1>12, <2>3 DEF x
<1>14. Msg2byte(desc, m, Commands_size) = IF W.ok THEN W.out ELSE <<>>
  BY DEF Msg2byte, o
<1> HIDE DEF x, W
<1>15. W.ok = TRUE /\ W.out = x
  BY <1>13
<1>16. x = Sent(q, l, t, v)
  BY <1>2 DEF x, d
<1>17. QED BY <1>14, <1>15, <1>16 DEF desc
-----------------------------------------------------------------------------
(* What is sent is what is meant.                                          *)

\* Groups that stand in a sequence hold their bits.
LEMMA HoldsIs ==
    ASSUME NEW s \in Seq(Byte), NEW i \in Nat \ {0}, NEW bits \in SUBSET (0..31), NEW g,
           g = Groups(bits), i + Len(g) - 1 <= Len(s),
           \A j \in 1..Len(g) : s[i + j - 1] = g[j]
    PROVE  Holds(s, i, bits)
BY DEF Holds

\* Bytes that have a field are bytes.
LEMMA NotEmpty ==
    ASSUME NEW b \in Seq(Byte), Len(b) > 0
    PROVE  b # <<>>
<1> DEFINE z == <<>>
<1>1. Len(z) = 0 /\ (b = z => Len(b) = Len(z))
  OBVIOUS
<1> HIDE DEF z
<1>2. b # z
  BY <1>1
<1>3. QED BY <1>2 DEF z

\* The one field of such a message.
LEMMA InnerField ==
    ASSUME NEW l, NEW v, Sendable(l, v), NEW t \in 1..16
    PROVE  LET c == Inner(l, t, v)
           IN  /\ c \in Seq(Byte) /\ c # <<>> /\ StandsAt(c, 1) /\ FieldAt(c, 1).last = Len(c)
               /\ FieldAt(c, 1).tag = t /\ FieldAt(c, 1).wt = WireType[l]
               /\ BytesAt(c, 1) = Value(l, v)
<1> DEFINE c == Inner(l, t, v)
           K == Key(WireType[l], t)
           k == Groups(K)
           x == Value(l, v)
           m == Len(k)
           f == FieldAt(c, 1)
<1>1. /\ k \in Seq(Byte) /\ m \in 1..5 /\ x \in Seq(Byte) /\ Len(x) \in 1..5
      /\ K \in SUBSET (0..31)
      /\ c = k \o x
  BY InnerIs, ValueIs DEF Inner
<1>2. WireType[l] \in 0..7 /\ (l = "UVARINT" => WireType[l] = 0) /\ (l = "FIXED32" => WireType[l] = 5)
  BY DEF Sendable, WireType
<1>3. Number(K \cap 0..2) = WireType[l] /\ Number(Shift(K \cap 3..31, -3)) = t
  BY <1>2, KeyBits
<1> HIDE DEF c, k, x, K
<1>4. /\ c \in Seq(Byte) /\ Len(c) = m + Len(x)
      /\ \A i \in 1..m : c[i] = k[i]
      /\ \A i \in 1..Len(x) : c[m + i] = x[i]
  BY <1>1, Joins
<1> HIDE DEF m
<1>5. Holds(c, 1, K)
  <2>1. 1 + m - 1 <= Len(c) /\ 1 \in Nat \ {0}
    BY <1>1, <1>4
  <2>2. \A j \in 1..m : c[1 + j - 1] = k[j]
    <3>1. \A j \in 1..m : 1 + j - 1 = j
      BY <1>1
    <3>2. QED BY <1>4, <3>1
  <2>3. QED BY <1>1, <1>4, <2>1, <2>2, HoldsIs DEF k, m
<1>6. Int32In(c, 1) /\ VarintEnd(c, 1) = m /\ Int32At(c, 1) = K
  <2>1. 1 \in Nat \ {0} /\ 1 + m - 1 = m
    BY <1>1
  <2>2. Int32In(c, 1) /\ VarintEnd(c, 1) = 1 + Len(Groups(K)) - 1 /\ Int32At(c, 1) = K
    BY <1>1, <1>4, <1>5, <2>1, GroupsRead
  <2>3. QED BY <2>1, <2>2 DEF m, k
<1> DEFINE p == Payload(c, m + 1, f.wt)
<1>7. f.tag = t /\ f.wt = WireType[l] /\ f.first = p[1] /\ f.last = p[2]
  BY <1>3, <1>6, FieldIs
<1>8. p[1] = m + 1 /\ p[2] = Len(c)
  <2> DEFINE i == m + 1
  <2>1. i \in Nat \ {0}
    BY <1>1
  <2>2. CASE l = "UVARINT"
    <3>1. v \in SUBSET (0..31) /\ x = Groups(v)
      BY <2>2 DEF Sendable, x, Value
    <3>2. Holds(c, i, v)
      <4>1. i + Len(x) - 1 <= Len(c) /\ \A j \in 1..Len(x) : i + j - 1 = m + j
        BY <1>1, <1>4
      <4>2. \A j \in 1..Len(x) : c[i + j - 1] = x[j]
        BY <1>4, <4>1
      <4> HIDE DEF i
      <4>3. QED BY <1>4, <2>1, <3>1, <4>1, <4>2, HoldsIs
    <3>3. VarintEnds(c, i) # {} /\ VarintEnd(c, i) = i + Len(x) - 1
      <4> HIDE DEF i
      <4>1. QED BY <1>4, <2>1, <3>1, <3>2, GroupsRead
    <3>4. p = <<i, VarintEnd(c, i)>>
      <4>1. f.wt = 0
        BY <1>2, <1>7, <2>2
      <4> DEFINE w == f.wt
      <4> HIDE DEF i, w
      <4>2. Payload(c, i, w) = <<i, VarintEnd(c, i)>>
        BY <3>3, <4>1 DEF Payload, w
      <4>3. QED BY <4>2 DEF w, i
    <3>5. QED BY <1>1, <1>4, <3>3, <3>4
  <2>3. CASE l = "FIXED32"
    <3>1. Len(x) = 4
      BY <2>3 DEF Sendable, x, Value
    <3>2. p = <<i, i + 3>>
      <4>1. f.wt = 5
        BY <1>2, <1>7, <2>3
      <4> DEFINE w == f.wt
      <4> HIDE DEF i, w
      <4>2. Payload(c, i, w) = <<i, i + 3>>
        BY <4>1 DEF Payload, w
      <4>3. QED BY <4>2 DEF w, i
    <3>3. QED BY <1>1, <1>4, <3>1, <3>2
  <2>4. QED BY <2>2, <2>3 DEF Sendable
<1> HIDE DEF p, f
<1>9. StandsAt(c, 1) /\ f.last = Len(c)
  <2>1. t # 0 /\ Len(c) \in Nat
    BY <1>1, <1>4
  <2>2. QED BY <1>6, <1>7, <1>8, <2>1 DEF StandsAt, f
<1>10. BytesAt(c, 1) = x
  <2> DEFINE i == m + 1
             n == Len(x)
             u == SubSeq(c, i, i + n - 1)
  <2>1. BytesAt(c, 1) = SubSeq(c, m + 1, Len(c))
    BY <1>7, <1>8 DEF BytesAt, f
  <2>2. i \in 1..(Len(c) + 1) /\ n \in 0..(Len(c) + 1 - i) /\ i + n - 1 = Len(c)
    BY <1>1, <1>4
  <2>3. \A j \in 1..n : i + j - 1 = m + j
    BY <1>1
  <2>4. u = BytesAt(c, 1)
    BY <2>1, <2>2
  <2>5. n \in Nat /\ \A j \in 1..n : c[m + j] = x[j]
    BY <1>1, <1>4
  <2> HIDE DEF i, n
  <2>6. u \in Seq(Byte) /\ Len(u) = n /\ \A j \in 1..n : u[j] = c[i + j - 1]
    BY <1>4, <2>2, PartOf
  <2> HIDE DEF u
  <2>7. \A j \in 1..n : u[j] = x[j]
    BY <2>3, <2>5, <2>6
  <2>8. u = x
    <3>1. u = [j \in 1..n |-> u[j]]
      BY <2>6
    <3>2. x = [j \in 1..n |-> x[j]]
      BY <1>1 DEF n
    <3>3. QED BY <2>7, <3>1, <3>2
  <2>9. QED BY <2>4, <2>8
<1>11. c # <<>>
  <2>1. Len(c) > 0
    BY <1>1, <1>4
  <2>2. QED BY <1>4, <2>1, NotEmpty
<1>12. QED BY <1>4, <1>7, <1>9, <1>10, <1>11 DEF c, x, f

\* In a message of n numbers the t-th is set, to v, and no other is.
OneSet(board, n, t, v) ==
    /\ DOMAIN board = 1..n
    /\ \A i \in 1..n : board[i].has = (i = t)
    /\ board[t].val = v

\* The message inside means that one number is set, and no other.
LEMMA InnerMeans ==
    ASSUME NEW l, NEW v, Sendable(l, v), NEW n \in 1..16, NEW t \in 1..n
    PROVE  LET M == FlatMeaning(Scalars("OPTIONAL", l, 4, n), Inner(l, t, v))
           IN  M.ok /\ OneSet(M.val, n, t, v)
<1> DEFINE c == Inner(l, t, v)
           M == FlatMeaning(Scalars("OPTIONAL", l, 4, n), c)
           x == Value(l, v)
<1>1. t \in 1..16 /\ n \in Nat
  OBVIOUS
<1>2. /\ c \in Seq(Byte) /\ c # <<>> /\ StandsAt(c, 1) /\ FieldAt(c, 1).last = Len(c)
      /\ FieldAt(c, 1).tag = t /\ FieldAt(c, 1).wt = WireType[l]
      /\ BytesAt(c, 1) = x
  BY <1>1, InnerField
<1>3. l \in {"UVARINT", "FIXED32"} /\ x \in Seq(Byte) /\ Len(x) \in 1..5
  BY ValueIs DEF Sendable
<1>4. l = "FIXED32" => x = v
  BY DEF Value
<1>5. l = "UVARINT" => VarintIn(x, 1, 32) /\ VarintAt(x, 1) = v
  <2> SUFFICES ASSUME l = "UVARINT" PROVE VarintIn(x, 1, 32) /\ VarintAt(x, 1) = v
    OBVIOUS
  <2>1. v \in SUBSET (0..31) /\ x = Groups(v)
    BY DEF Sendable, Value
  <2> HIDE DEF x
  <2>2. Holds(x, 1, v)
    <3>1. 1 + Len(x) - 1 <= Len(x) /\ 1 \in Nat \ {0} /\ \A j \in 1..Len(x) : 1 + j - 1 = j
      BY <1>3
    <3>2. QED BY <1>3, <2>1, <3>1, HoldsIs
  <2>3. VarintEnds(x, 1) # {} /\ VarintAt(x, 1) = v
    <3>1. 1 \in Nat \ {0}
      OBVIOUS
    <3>2. QED BY <1>3, <2>1, <2>2, <3>1, GroupsRead
  <2>4. v \subseteq 0..(32 - 1)
    BY <2>1
  <2>5. QED BY <2>3, <2>4 DEF VarintIn
<1> HIDE DEF c, x
<1> DEFINE y == BytesAt(c, 1)
<1>6. l = "UVARINT" => VarintIn(y, 1, 32)
  BY <1>2, <1>5
<1>7. /\ c \in Seq(Byte) /\ c # <<>> /\ StandsAt(c, 1) /\ FieldAt(c, 1).last = Len(c)
      /\ FieldAt(c, 1).tag = t /\ FieldAt(c, 1).wt = WireType[l]
  BY <1>2
<1>8. l \in {"UVARINT", "FIXED32"}
  BY <1>3
<1>9. /\ M.ok /\ DOMAIN M.val = 1..n
      /\ \A i \in 1..n : M.val[i].has = (i = t)
      /\ l = "UVARINT" => M.val[t].val = VarintAt(BytesAt(c, 1), 1)
      /\ l = "FIXED32" => M.val[t].val = BytesAt(c, 1)
  BY <1>1, <1>6, <1>7, <1>8, ScalarMeans
<1> HIDE DEF M, y
<1>10. M.val[t].val = v
  BY <1>2, <1>3, <1>4, <1>5, <1>9 DEF y
<1>11. QED BY <1>9, <1>10 DEF M, c, OneSet

\* A length below 2^24 is the number itself.
LEMMA LengthOf ==
    ASSUME NEW bits, bits \cap 24..31 = {}
    PROVE  Length(bits) = Number(bits)
BY DEF Length

\* Only all of what is sent is a message.
LEMMA SentField ==
    ASSUME NEW q, NEW l, NEW n, Command(q, l, n), NEW v, Sendable(l, v), NEW t \in 1..n
    PROVE  LET b == Sent(q, l, t, v)
           IN  /\ b \in Seq(Byte) /\ Len(b) \in 4..12
               /\ StandsAt(b, 1) /\ FieldAt(b, 1).last = Len(b)
               /\ FieldAt(b, 1).tag = q /\ FieldAt(b, 1).wt = 2
               /\ BytesAt(b, 1) = Inner(l, t, v)
               /\ \A k \in 1..(Len(b) - 1) : ~ StandsAt(SubSeq(b, 1, k), 1)
<1> DEFINE K == Key(2, q)
           a == Groups(K)
           c == Inner(l, t, v)
           B == BitsOf(Len(c))
           g == Groups(B)
           d == a \o g
           b == Sent(q, l, t, v)
           N == Len(c)
<1>1. /\ a \in Seq(Byte) /\ Len(a) = 1 /\ g \in Seq(Byte) /\ Len(g) = 1
      /\ c \in Seq(Byte) /\ N \in 2..10
      /\ K \in SUBSET (0..31) /\ B \in SUBSET (0..31)
      /\ Number(B) = N /\ B \cap 24..31 = {}
      /\ b = d \o c
  <2>1. /\ a \in Seq(Byte) /\ Len(a) = 1 /\ g \in Seq(Byte) /\ Len(g) = 1
    BY SentIs
  <2>2. c \in Seq(Byte) /\ Len(c) \in 2..10
    BY SentIs
  <2>3. /\ Key(2, q) \in SUBSET (0..31) /\ BitsOf(Len(c)) \in SUBSET (0..31)
        /\ Number(BitsOf(Len(c))) = Len(c) /\ BitsOf(Len(c)) \cap 24..31 = {}
    BY SentIs
  <2>4. b = d \o c
    BY DEF Sent
  <2>5. QED BY <2>1, <2>2, <2>3, <2>4
<1>2. q \in {1, 2} /\ Number(K \cap 0..2) = 2 /\ Number(Shift(K \cap 3..31, -3)) = q
  <2>1. q \in {1, 2} /\ q \in 1..16 /\ 2 \in 0..7
    BY DEF Command
  <2>2. QED BY <2>1, KeyBits
<1> HIDE DEF K, a, c, B, g, b
<1>3. /\ d \in Seq(Byte) /\ Len(d) = 2 /\ d[1] = a[1] /\ d[2] = g[1]
  <2>1. /\ d \in Seq(Byte) /\ Len(d) = Len(a) + Len(g)
        /\ \A i \in 1..Len(a) : d[i] = a[i]
        /\ \A i \in 1..Len(g) : d[Len(a) + i] = g[i]
    BY <1>1, Joins
  <2> HIDE DEF d
  <2>2. 1 \in 1..Len(a) /\ 1 \in 1..Len(g) /\ Len(a) + 1 = 2
    BY <1>1
  <2>3. QED BY <1>1, <2>1, <2>2
<1> HIDE DEF d, N
<1>4. /\ b \in Seq(Byte) /\ Len(b) = N + 2 /\ b[1] = a[1] /\ b[2] = g[1]
      /\ \A i \in 1..N : b[2 + i] = c[i]
  <2>1. /\ b \in Seq(Byte) /\ Len(b) = Len(d) + Len(c)
        /\ \A i \in 1..Len(d) : b[i] = d[i]
        /\ \A i \in 1..Len(c) : b[Len(d) + i] = c[i]
    <3> DEFINE z == d \o c
    <3>1. b = z /\ c \in Seq(Byte) /\ d \in Seq(Byte)
      BY <1>1, <1>3
    <3>2. /\ z \in Seq(Byte) /\ Len(z) = Len(d) + Len(c)
          /\ \A i \in 1..Len(d) : z[i] = d[i]
          /\ \A i \in 1..Len(c) : z[Len(d) + i] = c[i]
      BY <3>1, Joins
    <3> HIDE DEF z
    <3>3. QED BY <3>1, <3>2
  <2>2. 1 \in 1..Len(d) /\ 2 \in 1..Len(d)
    BY <1>3
  <2>3. QED BY <1>1, <1>3, <2>1, <2>2 DEF N
\* What the first bytes are taken for, however many follow.
<1>5. ASSUME NEW s \in Seq(Byte), Len(s) >= 1, s[1] = b[1]
      PROVE  /\ Int32In(s, 1) /\ VarintEnd(s, 1) = 1 /\ Int32At(s, 1) = K
             /\ FieldAt(s, 1).tag = q /\ FieldAt(s, 1).wt = 2
  <2>1. Holds(s, 1, K)
    <3>1. 1 + Len(a) - 1 <= Len(s) /\ 1 \in Nat \ {0} /\ \A j \in 1..Len(a) : j = 1 /\ 1 + j - 1 = 1
      BY <1>1, <1>5, BytesOf
    <3>2. \A j \in 1..Len(a) : s[1 + j - 1] = a[j]
      BY <1>4, <1>5, <3>1
    <3>3. QED BY <1>1, <3>1, <3>2, HoldsIs DEF a
  <2>2. Int32In(s, 1) /\ VarintEnd(s, 1) = 1 /\ Int32At(s, 1) = K
    <3>1. 1 \in Nat \ {0} /\ 1 + Len(a) - 1 = 1
      BY <1>1
    <3>2. Int32In(s, 1) /\ VarintEnd(s, 1) = 1 + Len(Groups(K)) - 1 /\ Int32At(s, 1) = K
      BY <1>1, <2>1, <3>1, GroupsRead
    <3>3. QED BY <3>1, <3>2 DEF a
  <2>3. QED BY <1>2, <2>2, FieldIs
<1>6. ASSUME NEW s \in Seq(Byte), Len(s) >= 2, s[1] = b[1], s[2] = b[2]
      PROVE  FieldAt(s, 1).first = 3 /\ FieldAt(s, 1).last = N + 2
  <2>1. VarintEnd(s, 1) = 1 /\ FieldAt(s, 1).wt = 2
    <3>1. Len(s) >= 1
      BY <1>6, BytesOf
    <3>2. QED BY <1>5, <1>6, <3>1
  <2>2. Int32In(s, 2) /\ VarintEnd(s, 2) = 2 /\ Int32At(s, 2) = B
    <3>1. Holds(s, 2, B)
      <4>1. 2 + Len(g) - 1 <= Len(s) /\ 2 \in Nat \ {0} /\ \A j \in 1..Len(g) : j = 1 /\ 2 + j - 1 = 2
        BY <1>1, <1>6, BytesOf
      <4>2. \A j \in 1..Len(g) : s[2 + j - 1] = g[j]
        BY <1>4, <1>6, <4>1
      <4>3. QED BY <1>1, <4>1, <4>2, HoldsIs DEF g
    <3>2. 2 \in Nat \ {0} /\ 2 + Len(g) - 1 = 2
      BY <1>1
    <3>3. Int32In(s, 2) /\ VarintEnd(s, 2) = 2 + Len(Groups(B)) - 1 /\ Int32At(s, 2) = B
      BY <1>1, <3>1, <3>2, GroupsRead
    <3>4. QED BY <3>2, <3>3 DEF g
  <2>3. Length(B) = N
    BY <1>1, LengthOf
  <2>4. Payload(s, 2, 2) = <<3, N + 2>>
    <3>1. Payload(s, 2, 2) = <<VarintEnd(s, 2) + 1, VarintEnd(s, 2) + Length(Int32At(s, 2))>>
      BY <2>2 DEF Payload
    <3>2. 2 + 1 = 3 /\ 2 + N = N + 2
      BY <1>1
    <3>3. QED BY <2>2, <2>3, <3>1, <3>2
  <2>5. FieldAt(s, 1).first = Payload(s, 2, 2)[1] /\ FieldAt(s, 1).last = Payload(s, 2, 2)[2]
    <3> DEFINE e == VarintEnd(s, 1) + 1
               w == FieldAt(s, 1).wt
    <3>1. FieldAt(s, 1).first = Payload(s, e, w)[1] /\ FieldAt(s, 1).last = Payload(s, e, w)[2]
      BY FieldIs
    <3>2. e = 2 /\ w = 2
      BY <2>1
    <3> HIDE DEF e, w
    <3>3. QED BY <3>1, <3>2
  <2>6. QED BY <2>4, <2>5
<1>7. /\ StandsAt(b, 1) /\ FieldAt(b, 1).last = Len(b) /\ FieldAt(b, 1).first = 3
      /\ FieldAt(b, 1).tag = q /\ FieldAt(b, 1).wt = 2
  <2>1. Len(b) >= 1 /\ Len(b) >= 2 /\ Len(b) <= Len(b)
    BY <1>1, <1>4
  <2>2. FieldAt(b, 1).first = 3 /\ FieldAt(b, 1).last = N + 2
    BY <1>4, <1>6, <2>1
  <2>3. Int32In(b, 1) /\ FieldAt(b, 1).tag = q /\ FieldAt(b, 1).wt = 2
    BY <1>4, <1>5, <2>1
  <2>4. QED BY <1>2, <1>4, <2>1, <2>2, <2>3 DEF StandsAt
<1>8. BytesAt(b, 1) = c
  <2> DEFINE u == SubSeq(b, 3, 3 + N - 1)
  <2>1. 3 + N - 1 = Len(b) /\ 3 \in 1..(Len(b) + 1) /\ N \in 0..(Len(b) + 1 - 3) /\ N \in Nat
    <3>1. N \in 2..10 /\ Len(b) = N + 2
      BY <1>1, <1>4
    <3>2. \A i \in 2..10 : 3 + i - 1 = i + 2 /\ 3 \in 1..(i + 2 + 1) /\ i \in 0..(i + 2 + 1 - 3) /\ i \in Nat
      OBVIOUS
    <3>3. QED BY <3>1, <3>2
  <2>2. BytesAt(b, 1) = u
    BY <1>7, <2>1 DEF BytesAt
  <2>3. u \in Seq(Byte) /\ Len(u) = N /\ \A j \in 1..N : u[j] = b[3 + j - 1]
    BY <1>4, <2>1, PartOf
  <2> HIDE DEF u
  <2>4. \A j \in 1..N : 3 + j - 1 = 2 + j
    BY <2>1
  <2>5. \A j \in 1..N : u[j] = c[j]
    BY <1>4, <2>3, <2>4
  <2>6. u = c
    <3>1. u = [j \in 1..N |-> u[j]]
      BY <2>3
    <3>2. c = [j \in 1..N |-> c[j]]
      BY <1>1 DEF N
    <3>3. QED BY <2>5, <3>1, <3>2
  <2>7. QED BY <2>2, <2>6
<1>9. ASSUME NEW k \in 1..(Len(b) - 1) PROVE ~ StandsAt(SubSeq(b, 1, k), 1)
  <2> DEFINE s == SubSeq(b, 1, 1 + k - 1)
  <2>1. /\ 1 \in 1..(Len(b) + 1) /\ k \in 0..(Len(b) + 1 - 1) /\ 1 + k - 1 = k
        /\ k \in Nat /\ k >= 1 /\ k < N + 2
    BY <1>1, <1>4, <1>9
  <2>2. s \in Seq(Byte) /\ Len(s) = k /\ \A j \in 1..k : s[j] = b[1 + j - 1]
    BY <1>4, <2>1, PartOf
  <2>3. SubSeq(b, 1, k) = s
    BY <2>1
  <2> HIDE DEF s
  <2>4. s[1] = b[1] /\ (k >= 2 => s[2] = b[2])
    <3>1. 1 \in 1..k /\ (k >= 2 => 2 \in 1..k) /\ 1 + 1 - 1 = 1 /\ 1 + 2 - 1 = 2
      BY <2>1
    <3>2. QED BY <2>2, <3>1
  <2>5. CASE k >= 2
    <3>1. FieldAt(s, 1).last = N + 2
      BY <1>6, <2>2, <2>4, <2>5
    <3>2. ~ (N + 2 <= Len(s))
      BY <1>1, <2>1, <2>2
    <3>3. QED BY <2>3, <3>1, <3>2 DEF StandsAt
  <2>6. CASE k = 1
    <3>1. VarintEnd(s, 1) = 1 /\ FieldAt(s, 1).wt = 2
      BY <1>5, <2>1, <2>2, <2>4
    <3>2. VarintEnds(s, 2) = {}
      BY <2>2, <2>6 DEF VarintEnds
    <3>3. Payload(s, 2, 2) = <<2, Len(s) + 1>>
      BY <3>2 DEF Payload, Int32In
    <3>4. FieldAt(s, 1).last = Payload(s, 2, 2)[2]
      <4> DEFINE e == VarintEnd(s, 1) + 1
                 w == FieldAt(s, 1).wt
      <4>1. FieldAt(s, 1).last = Payload(s, e, w)[2]
        BY FieldIs
      <4>2. e = 2 /\ w = 2
        BY <3>1
      <4> HIDE DEF e, w
      <4>3. QED BY <4>1, <4>2
    <3>5. FieldAt(s, 1).last = 2
      BY <2>2, <2>6, <3>3, <3>4
    <3>6. ~ (2 <= Len(s))
      BY <2>2, <2>6
    <3>7. QED BY <2>3, <3>5, <3>6 DEF StandsAt
  <2>7. QED BY <2>1, <2>5, <2>6
<1>10. Len(b) \in 4..12
  BY <1>1, <1>4
<1>11. QED BY <1>4, <1>7, <1>8, <1>9, <1>10 DEF b, c

\* What is sent means what was to be sent, and no beginning of it anything.
THEOREM SentMeans ==
    ASSUME NEW q, NEW l, NEW n, Command(q, l, n), NEW v, Sendable(l, v), NEW t \in 1..n
    PROVE  LET b == Sent(q, l, t, v)
               M == Meaning(Commands, b)
           IN  /\ M.ok
               /\ \A i \in 1..2 : M.val[i].has = (i = q)
               /\ OneSet(M.val[q].val, n, t, v)
               /\ \A k \in 1..(Len(b) - 1) : ~ Meaning(Commands, SubSeq(b, 1, k)).ok
<1> DEFINE b == Sent(q, l, t, v)
           c == Inner(l, t, v)
           F == FlatMeaning(Commands[q].sub, c)
           M == Meaning(Commands, b)
<1>1. /\ b \in Seq(Byte) /\ Len(b) \in 4..12
      /\ StandsAt(b, 1) /\ FieldAt(b, 1).last = Len(b)
      /\ FieldAt(b, 1).tag = q /\ FieldAt(b, 1).wt = 2
      /\ BytesAt(b, 1) = c
      /\ \A k \in 1..(Len(b) - 1) : ~ StandsAt(SubSeq(b, 1, k), 1)
  BY SentField
<1>2. /\ q \in {1, 2} /\ n \in 1..16 /\ Commands[q].sub = Scalars("OPTIONAL", l, 4, n)
  BY CommandsAre DEF Command
<1>3. F.ok /\ OneSet(F.val, n, t, v)
  <2> DEFINE H == FlatMeaning(Scalars("OPTIONAL", l, 4, n), c)
  <2>1. F = H
    BY <1>2
  <2>2. n \in 1..16
    BY <1>2
  <2>3. H.ok /\ OneSet(H.val, n, t, v)
    BY <2>2, InnerMeans
  <2> HIDE DEF H, F
  <2>4. QED BY <2>1, <2>3
<1> HIDE DEF b, c
<1>4. b # <<>>
  <2>1. Len(b) > 0
    <3>1. Len(b) \in 4..12
      BY <1>1
    <3>2. \A i \in 4..12 : i > 0
      OBVIOUS
    <3>3. QED BY <3>1, <3>2
  <2>2. QED BY <1>1, <2>1, NotEmpty
<1>5. /\ M.ok
      /\ \A i \in 1..2 : M.val[i].has = (i = q)
      /\ M.val[q].val = F.val
  <2>1. FlatMeaning(Commands[q].sub, BytesAt(b, 1)).ok
    BY <1>1, <1>3
  <2>2. /\ M.ok
        /\ \A i \in 1..2 : M.val[i].has = (i = q)
        /\ M.val[q].val = FlatMeaning(Commands[q].sub, BytesAt(b, 1)).val
    BY <1>1, <1>2, <1>4, <2>1, UnionMeans
  <2>3. QED BY <1>1, <2>2
<1>6. ASSUME NEW k \in 1..(Len(b) - 1) PROVE ~ Meaning(Commands, SubSeq(b, 1, k)).ok
  <2> DEFINE s == SubSeq(b, 1, 1 + k - 1)
  <2>1. 1 \in 1..(Len(b) + 1) /\ k \in 0..(Len(b) + 1 - 1) /\ 1 + k - 1 = k /\ k > 0
    BY <1>1, <1>6
  <2>2. s \in Seq(Byte) /\ Len(s) = k
    BY <1>1, <2>1, PartOf
  <2>3. s = SubSeq(b, 1, k)
    BY <2>1
  <2> HIDE DEF s
  <2>4. s # <<>>
    BY <2>1, <2>2, NotEmpty
  <2>5. ~ StandsAt(s, 1)
    BY <1>1, <2>3
  <2>6. ~ Meaning(Commands, s).ok
    BY <2>2, <2>4, <2>5, NoMessage
  <2>7. QED BY <2>3, <2>6
<1> HIDE DEF M, F
<1>7. QED BY <1>3, <1>5, <1>6 DEF M, b
-----------------------------------------------------------------------------
(* The commands.                                                           *)

\* In a message of n numbers the t-th is set, to v, and no other is.
SetIn(m, n, t, v) == (\A i \in 1..n : m[i].has <=> i = t) /\ m[t].val = v

\* The message of a command before its one number is put into it.
LEMMA DefaultIs ==
    ASSUME NEW l, NEW n \in 1..16, NEW t \in 1..n, NEW v
    PROVE  LET m == [Flat!Default(Scalars("OPTIONAL", l, 4, n)) EXCEPT ![t] = [has |-> TRUE, val |-> v]]
           IN  SetIn(m, n, t, v)
<1> DEFINE desc == Scalars("OPTIONAL", l, 4, n)
           D == Flat!Default(desc)
           c == [has |-> TRUE, val |-> v]
           m == [D EXCEPT ![t] = c]
<1>1. Len(desc) = n /\ \A i \in 1..n : desc[i].tag = i /\ desc[i].htype = "OPTIONAL"
  <2>1. desc = [i \in 1..n |-> [tag |-> i, htype |-> "OPTIONAL", ltype |-> l,
                                size |-> 4, array |-> 1, sub |-> <<>>]]
    BY DEF Scalars
  <2> HIDE DEF desc
  <2>2. QED BY <2>1
<1> HIDE DEF desc
<1>2. {desc[i].tag : i \in 1..Len(desc)} = 1..n
  BY <1>1
<1>3. \A i \in 1..n : Flat!FieldWith(desc, i) = {i}
  BY <1>1 DEF Flat!FieldWith
<1>4. D = [i \in 1..n |-> Flat!DefaultField(desc[CHOOSE j \in Flat!FieldWith(desc, i) : TRUE])]
  BY <1>2 DEF Flat!Default
<1>5. \A i \in 1..n : (CHOOSE j \in Flat!FieldWith(desc, i) : TRUE) = i
  <2>1. \A x : (CHOOSE y \in {x} : TRUE) = x
    OBVIOUS
  <2>2. QED BY <1>3, <2>1
<1>6. ASSUME NEW i \in 1..n PROVE D[i].has = FALSE
  <2> DEFINE f == desc[i]
  <2>1. D[i] = Flat!DefaultField(f) /\ f.htype = "OPTIONAL"
    BY <1>1, <1>4, <1>5
  <2> HIDE DEF f, D
  <2>2. Flat!DefaultField(f) = [has |-> FALSE, val |-> Flat!Zero(f)]
    BY <2>1 DEF Flat!DefaultField
  <2>3. QED BY <2>1, <2>2
<1>7. DOMAIN D = 1..n
  BY <1>4
<1> HIDE DEF D
<1>8. c.has = TRUE /\ c.val = v
  OBVIOUS
<1> HIDE DEF c
<1>9. m[t] = c /\ \A i \in 1..n : i # t => m[i] = D[i]
  BY <1>7
<1> HIDE DEF m
<1>10. \A i \in 1..n : m[i].has <=> i = t
  BY <1>6, <1>8, <1>9
<1>11. m[t].val = v
  BY <1>8, <1>9
<1>12. QED BY <1>10, <1>11 DEF m, D, desc, c, SetIn

\* A float can be sent,
LEMMA FloatIs == ASSUME NEW v PROVE Sendable("FIXED32", Float(v))
<1>1. PICK word_ : Float(v) = [i \in 1..4 |-> Shift(word_ \cap (8 * i - 8)..(8 * i - 1), 8 - 8 * i)]
  BY DEF Float
<1>2. ASSUME NEW i \in 1..4 PROVE Shift(word_ \cap (8 * i - 8)..(8 * i - 1), 8 - 8 * i) \in Byte
  <2>1. \A x \in (8 * i - 8)..(8 * i - 1) : x + (8 - 8 * i) \in 0..7
    OBVIOUS
  <2>2. QED BY <2>1 DEF Shift, Byte
<1> DEFINE s == [i \in 1..4 |-> Shift(word_ \cap (8 * i - 8)..(8 * i - 1), 8 - 8 * i)]
<1>3. s \in Seq(Byte) /\ Len(s) = 4
  BY <1>2
<1>4. QED BY <1>1, <1>3 DEF Sendable

\* and an unsigned number.
LEMMA Uint32Is == ASSUME NEW v PROVE Sendable("UVARINT", Uint32(v))
<1>1. Uint32(v) \in SUBSET (0..31)
  BY DEF Uint32, BitsOf
<1>2. QED BY <1>1 DEF Sendable

\* Which message a word fills, of which numbers and how many, and the number.
Kind(w) == IF Prefix[w] = "pwm" THEN 2 ELSE 1
Number_(w) == IF Prefix[w] = "pwm" THEN "UVARINT" ELSE "FIXED32"
Channels_(w) == IF Prefix[w] = "pwm" THEN 16 ELSE 8
Wanted(w, n) == IF Prefix[w] = "pwm" THEN Uint32(n) ELSE Float(n)

\* Every word has a kind of command, and every number can be sent with it.
LEMMA KindIs ==
    ASSUME NEW w, NEW x
    PROVE  Command(Kind(w), Number_(w), Channels_(w)) /\ Sendable(Number_(w), Wanted(w, x))
<1>1. CASE Prefix[w] = "pwm"
  BY <1>1, Uint32Is DEF Command, Kind, Number_, Channels_, Wanted
<1>2. CASE Prefix[w] # "pwm"
  BY <1>2, FloatIs DEF Command, Kind, Number_, Channels_, Wanted
<1>3. QED BY <1>1, <1>2

\* The channel that was named is one, and the message is filled.
Channel == Atoi(args[1]) + 1
Filled ==
    /\ Channel \in 1..Channels_(word)
    /\ type = Commands[Kind(word)].sub
    /\ SetIn(msg, Channels_(word), Channel, Wanted(word, Atoi(args[2])))

\* What is sent then.
ToSend == Sent(Kind(word), Number_(word), Channel, Wanted(word, Atoi(args[2])))

Commanding ==
    /\ pc = "idle" => word = ""
    /\ pc \in {"idle", "convert"} => data = <<>>
    /\ pc # "end" => line = <<>> /\ ret = ""
    /\ pc \in {"convert", "open", "write"} => Filled
    /\ pc \in {"open", "write"} => data = ToSend
    /\ pc = "end" =>
          \/ line = <<>> /\ ret # "SUCCESS" /\ (data = <<>> \/ (Filled /\ data = ToSend))
          \/ /\ Filled /\ data = ToSend
             /\ \E n \in 1..Len(data) : /\ line = SubSeq(data, 1, n)
                                        /\ ret = IF n = Len(data) THEN "SUCCESS" ELSE "FAIL"

\* What is to be sent is four to twelve bytes.
LEMMA ToSendIs == ASSUME Filled PROVE ToSend \in Seq(Byte) /\ Len(ToSend) \in 4..12
<1>1. Command(Kind(word), Number_(word), Channels_(word))
      /\ Sendable(Number_(word), Wanted(word, Atoi(args[2])))
  BY KindIs
<1>2. Channel \in 1..Channels_(word)
  BY DEF Filled
<1>3. QED BY <1>1, <1>2, SentField DEF ToSend

\* A command line that is taken fills one field of the message,
LEMMA ParseFills ==
    ASSUME Commanding, NEW w \in Words, NEW a \in Args, Parse(w, a)
    PROVE  Commanding'
<1>1. /\ pc = "idle" /\ data = <<>> /\ line = <<>> /\ ret = ""
      /\ data' = data /\ line' = line /\ word' = w /\ args' = a
  BY DEF Parse, Commanding
<1>2. CASE pc' = "end" /\ ret' \in {"FAIL", "ARG_ERROR"}
  BY <1>1, <1>2 DEF Commanding
<1>3. CASE /\ Prefix[w] = "pwm" /\ Len(a) = 2 /\ Atoi(a[1]) \in 0..15
           /\ type' = PWMDevCommand /\ pc' = "convert" /\ ret' = ret
           /\ msg' = [Flat!Default(PWMDevCommand) EXCEPT ![Atoi(a[1]) + 1] =
                         [has |-> TRUE, val |-> Uint32(Atoi(a[2]))]]
  <2> DEFINE t == Atoi(a[1]) + 1
             v == Uint32(Atoi(a[2]))
             m == [Flat!Default(Scalars("OPTIONAL", "UVARINT", 4, 16))
                      EXCEPT ![t] = [has |-> TRUE, val |-> v]]
  <2>1. t \in 1..16 /\ 16 \in 1..16
    BY <1>3
  <2>2. msg' = m
    BY <1>3, CommandsAre
  <2> HIDE DEF t, v
  <2>3. SetIn(m, 16, t, v)
    BY <2>1, DefaultIs
  <2> HIDE DEF m
  <2>4. Kind(w) = 2 /\ Channels_(w) = 16 /\ Wanted(w, Atoi(a[2])) = v
    BY <1>3 DEF Kind, Channels_, Wanted, v
  <2>5. Channel' = t
    BY <1>1 DEF Channel, t
  <2>6. type' = Commands[2].sub
    BY <1>3, CommandsAre
  <2>7. Filled'
    BY <1>1, <2>1, <2>2, <2>3, <2>4, <2>5, <2>6 DEF Filled
  <2>8. QED BY <1>1, <1>3, <2>7 DEF Commanding
<1>4. CASE /\ Prefix[w] = "shot" /\ Len(a) = 2 /\ Atoi(a[1]) \in 0..7
           /\ type' = ThrusterCommand /\ pc' = "convert" /\ ret' = ret
           /\ msg' = [Flat!Default(ThrusterCommand) EXCEPT ![Atoi(a[1]) + 1] =
                         [has |-> TRUE, val |-> Float(Atoi(a[2]))]]
  <2> DEFINE t == Atoi(a[1]) + 1
             v == Float(Atoi(a[2]))
             m == [Flat!Default(Scalars("OPTIONAL", "FIXED32", 4, 8)) EXCEPT ![t] = [has |-> TRUE, val |-> v]]
  <2>1. t \in 1..8 /\ 8 \in 1..16
    BY <1>4
  <2>2. msg' = m
    BY <1>4, CommandsAre
  <2> HIDE DEF t, v
  <2>3. SetIn(m, 8, t, v)
    BY <2>1, DefaultIs
  <2> HIDE DEF m
  <2>4. Kind(w) = 1 /\ Channels_(w) = 8 /\ Wanted(w, Atoi(a[2])) = v
    BY <1>4 DEF Kind, Channels_, Wanted, v
  <2>5. Channel' = t
    BY <1>1 DEF Channel, t
  <2>6. type' = Commands[1].sub
    BY <1>4, CommandsAre
  <2>7. Filled'
    BY <1>1, <2>1, <2>2, <2>3, <2>4, <2>5, <2>6 DEF Filled
  <2>8. QED BY <1>1, <1>4, <2>7 DEF Commanding
<1>5. QED BY <1>2, <1>3, <1>4 DEF Parse, Fails

\* and from then on the message and its bytes are those of the command.
LEMMA CommandingOn ==
    ASSUME Commanding, [Next]_vars
    PROVE  Commanding'
<1>1. ASSUME NEW w \in Words, NEW a \in Args, Parse(w, a) PROVE Commanding'
  BY <1>1, ParseFills
<1>2. CASE Convert
  <2>1. Filled /\ line = <<>> /\ ret = "" /\ pc = "convert"
        /\ type' = type /\ msg' = msg /\ word' = word /\ args' = args /\ line' = line
    BY <1>2 DEF Convert, Commanding
  <2>2. data' = ToSend
    <3> DEFINE q == Kind(word)
               l == Number_(word)
               n == Channels_(word)
               v == Wanted(word, Atoi(args[2]))
               t == Channel
    <3>1. Command(q, l, n) /\ Sendable(l, v)
      BY KindIs
    <3>2. /\ t \in 1..n /\ (\A i \in 1..n : msg[i].has <=> i = t) /\ msg[t].val = v
          /\ type = Commands[q].sub
      BY <2>1 DEF Filled, SetIn
    <3>3. data' = Msg2byte(Commands[q].sub, msg, Commands_size)
      BY <1>2, <3>2 DEF Convert
    <3> DEFINE s == Sent(q, l, t, v)
    <3> HIDE DEF q, l, n, v, t
    <3>4. Msg2byte(Commands[q].sub, msg, Commands_size) = s
      BY <3>1, <3>2, Msg2byteIs
    <3>5. QED BY <3>3, <3>4 DEF q, l, v, t, ToSend
  <2>3. data' # <<>>
    <3>1. ToSend \in Seq(Byte) /\ Len(ToSend) \in 4..12
      BY <2>1, ToSendIs
    <3>2. \A i \in 4..12 : i > 0
      OBVIOUS
    <3>3. Len(ToSend) > 0
      BY <3>1, <3>2
    <3>4. QED BY <2>2, <3>1, <3>3, NotEmpty
  <2>4. pc' = "open" /\ ret' = ret
    BY <1>2, <2>3 DEF Convert
  <2>5. Filled' /\ ToSend' = ToSend
    BY <2>1 DEF Filled, ToSend, Channel
  <2>6. QED BY <2>1, <2>2, <2>4, <2>5 DEF Commanding
<1>3. ASSUME NEW there \in BOOLEAN, SerialOpen(there) PROVE Commanding'
  <2>1. /\ Filled /\ data = ToSend /\ line = <<>> /\ ret = "" /\ pc = "open"
        /\ type' = type /\ msg' = msg /\ word' = word /\ args' = args /\ line' = line /\ data' = data
    BY <1>3 DEF SerialOpen, Commanding
  <2>2. Filled' /\ ToSend' = ToSend
    BY <2>1 DEF Filled, ToSend, Channel
  <2>3. (pc' = "write" /\ ret' = ret) \/ (pc' = "end" /\ ret' = "FAIL")
    BY <1>3 DEF SerialOpen, Fails
  <2>4. QED BY <2>1, <2>2, <2>3 DEF Commanding
<1>4. ASSUME NEW n \in -1..Len(data), WriteOut(n) PROVE Commanding'
  <2>1. /\ Filled /\ data = ToSend /\ pc = "write"
        /\ type' = type /\ msg' = msg /\ word' = word /\ args' = args /\ data' = data
    BY <1>4 DEF WriteOut, Commanding
  <2>2. Filled' /\ ToSend' = ToSend
    BY <2>1 DEF Filled, ToSend, Channel
  <2>3. Len(data) \in 4..12
    BY <2>1, ToSendIs
  <2>4. pc' = "end" /\ ret' = (IF n = Len(data) THEN "SUCCESS" ELSE "FAIL")
    BY <1>4 DEF WriteOut, Fails
  <2>5. CASE n > 0
    <3>1. n \in 1..Len(data)
      BY <2>3, <2>5
    <3>2. line' = SubSeq(data, 1, n)
      BY <1>4, <2>5 DEF WriteOut
    <3>3. QED BY <2>1, <2>2, <2>4, <3>1, <3>2 DEF Commanding
  <2>6. CASE ~ (n > 0)
    <3>1. n # Len(data)
      <4>1. \A i \in 4..12 : i > 0
        OBVIOUS
      <4>2. Len(data) > 0
        BY <2>3, <4>1
      <4>3. QED BY <2>6, <4>2
    <3>2. line' = <<>> /\ ret' = "FAIL"
      BY <1>4, <2>4, <2>6, <3>1 DEF WriteOut
    <3>3. QED BY <2>1, <2>2, <2>4, <3>2 DEF Commanding
  <2>7. QED BY <2>5, <2>6
<1>5. ASSUME pc = "idle", pc' = "end", UNCHANGED <<word, args, type, msg, data, line, ret>>
      PROVE  Commanding'
  <2>1. data = <<>> /\ line = <<>> /\ ret = ""
    BY <1>5 DEF Commanding
  <2>2. QED BY <1>5, <2>1 DEF Commanding
<1>6. ASSUME NEW bytes \in Answers, Receive(bytes) PROVE Commanding'
  BY <1>5, <1>6 DEF Receive
<1>7. ASSUME NEW c \in Carried, Carry(c[1], c[2], c[3], c[4]) PROVE Commanding'
  BY <1>5, <1>7 DEF Carry
<1>8. CASE UNCHANGED vars
  BY <1>8 DEF vars, Commanding, Filled, ToSend, Channel
<1>9. QED BY <1>1, <1>2, <1>3, <1>4, <1>6, <1>7, <1>8 DEF Next

\* Commanding is an invariant.
LEMMA CommandingAlways == Spec => []Commanding
<1>1. Init => Commanding
  BY DEF Init, Commanding
<1>2. QED BY <1>1, CommandingOn, PTL DEF Spec

\* What the command that was given says: the line carries it or nothing.
LEMMA Arrives ==
    ASSUME Commanding, pc = "end"
    PROVE  IF ret = "SUCCESS"
           THEN LET M == Meaning(Commands, line)
                IN  /\ M.ok
                    /\ \A i \in 1..2 : M.val[i].has = (i = Kind(word))
                    /\ OneSet(M.val[Kind(word)].val, Channels_(word), Channel, Wanted(word, Atoi(args[2])))
                    /\ Channel \in 1..Channels_(word)
           ELSE line = <<>> \/ ~ Meaning(Commands, line).ok
<1>1. CASE line = <<>> /\ ret # "SUCCESS"
  BY <1>1
<1>2. ASSUME Filled, data = ToSend, NEW n \in 1..Len(data), line = SubSeq(data, 1, n),
             ret = IF n = Len(data) THEN "SUCCESS" ELSE "FAIL"
      PROVE  IF ret = "SUCCESS"
           THEN LET M == Meaning(Commands, line)
                IN  /\ M.ok
                    /\ \A i \in 1..2 : M.val[i].has = (i = Kind(word))
                    /\ OneSet(M.val[Kind(word)].val, Channels_(word), Channel, Wanted(word, Atoi(args[2])))
                    /\ Channel \in 1..Channels_(word)
           ELSE line = <<>> \/ ~ Meaning(Commands, line).ok
  <2> DEFINE q == Kind(word)
             l == Number_(word)
             N == Channels_(word)
             v == Wanted(word, Atoi(args[2]))
             t == Channel
             b == Sent(q, l, t, v)
             M == Meaning(Commands, b)
  <2>1. Command(q, l, N) /\ Sendable(l, v)
    BY KindIs
  <2>2. t \in 1..N /\ data = b
    BY <1>2 DEF Filled, ToSend
  <2> HIDE DEF q, l, N, v, t
  <2>3. b \in Seq(Byte) /\ Len(b) \in 4..12
    BY <2>1, <2>2, SentField
  <2>4. /\ M.ok
        /\ \A i \in 1..2 : M.val[i].has = (i = q)
        /\ OneSet(M.val[q].val, N, t, v)
        /\ \A k \in 1..(Len(b) - 1) : ~ Meaning(Commands, SubSeq(b, 1, k)).ok
    BY <2>1, <2>2, SentMeans
  <2> HIDE DEF b, M
  <2>5. CASE n = Len(data)
    <3>1. ret = "SUCCESS"
      BY <1>2, <2>5
    <3>2. line = b
      <4>1. line = SubSeq(b, 1, Len(b))
        BY <1>2, <2>2, <2>5
      <4>2. SubSeq(b, 1, Len(b)) = b
        BY <2>3
      <4>3. QED BY <4>1, <4>2
    <3>3. Meaning(Commands, line) = M
      BY <3>2 DEF M
    <3>4. QED BY <2>2, <2>4, <3>1, <3>3 DEF q, N, t, v
  <2>6. CASE n # Len(data)
    <3>1. ret # "SUCCESS"
      BY <1>2, <2>6
    <3>2. n \in 1..(Len(b) - 1)
      <4>1. \A i \in 4..12 : \A j \in 1..i : j # i => j \in 1..(i - 1)
        OBVIOUS
      <4>2. n \in 1..Len(b) /\ n # Len(b)
        BY <1>2, <2>2, <2>6
      <4>3. QED BY <2>3, <4>1, <4>2
    <3>3. ~ Meaning(Commands, line).ok
      BY <1>2, <2>2, <2>4, <3>2
    <3>4. QED BY <3>1, <3>3
  <2>7. QED BY <2>5, <2>6
<1>3. QED BY <1>1, <1>2 DEF Commanding

\* CommandArrives: of every command and every way its writing may end.
THEOREM CommandsArrive == Spec => []CommandArrives
<1>1. Commanding => CommandArrives
  <2> SUFFICES ASSUME Commanding, pc = "end"
               PROVE  CommandArrives
    BY DEF CommandArrives
  <2> DEFINE M == Meaning(Commands, line)
             q == Kind(word)
             board == M.val[q].val
             v == Wanted(word, Atoi(args[2]))
  <2>1. IF ret = "SUCCESS"
        THEN /\ M.ok
             /\ \A i \in 1..2 : M.val[i].has = (i = q)
             /\ OneSet(board, Channels_(word), Channel, v)
             /\ Channel \in 1..Channels_(word)
        ELSE line = <<>> \/ ~ M.ok
    BY Arrives
  <2>2. q = (IF Prefix[word] = "pwm" THEN 2 ELSE 1) /\ q \in 1..2
    BY DEF Kind
  <2>3. v = IF Prefix[word] = "pwm" THEN Uint32(Atoi(args[2])) ELSE Float(Atoi(args[2]))
    BY DEF Wanted
  <2> HIDE DEF M, q, v
  <2>4. CASE ret = "SUCCESS"
    <3>1. {k \in 1..2 : M.val[k].has} = {q}
      BY <2>1, <2>2, <2>4
    <3>2. {c \in DOMAIN board : board[c].has} = {Channel} /\ board[Channel].val = v
      BY <2>1, <2>4 DEF OneSet
    <3> DEFINE d == M.val[q].val
    <3>3. {c \in DOMAIN d : d[c].has} = {Atoi(args[1]) + 1} /\ d[Atoi(args[1]) + 1].val = v
      BY <3>2 DEF Channel
    <3> HIDE DEF d
    <3>4. M.ok
      BY <2>1, <2>4
    <3>5. QED BY <2>2, <2>3, <2>4, <3>1, <3>3, <3>4 DEF CommandArrives, M, d
  <2>5. CASE ret # "SUCCESS"
    <3>1. line = <<>> \/ ~ M.ok
      BY <2>1, <2>5
    <3>2. QED BY <2>5, <3>1 DEF CommandArrives, M
  <2>6. QED BY <2>4, <2>5
<1>2. QED BY <1>1, CommandingAlways, PTL

-----------------------------------------------------------------------------
(* Types.                                                                  *)

\* What the invariants above leave out of the types.
Typed ==
    /\ pc \in {"idle", "convert", "open", "write", "end"}
    /\ word \in Words \cup {""}
    /\ type \in {<<>>, ThrusterCommand, PWMDevCommand}
    /\ fd = (pc = "write")
    /\ ret \in {"", "SUCCESS", "FAIL", "ARG_ERROR"}
    /\ Len(carry) <= 1

\* Typed is an invariant.
LEMMA TypedAlways == Spec => []Typed
<1>1. Init => Typed
  <2>1. Len(<<>>) = 0
    OBVIOUS
  <2>2. Init => Len(carry) <= 1
    <3> DEFINE z == <<>>
    <3>1. Init => carry = z
      BY DEF Init
    <3>2. Len(z) <= 1
      BY <2>1
    <3> HIDE DEF z
    <3>3. QED BY <3>1, <3>2
  <2>3. QED BY <2>2 DEF Init, Typed
<1>2. Typed /\ [Next]_vars => Typed'
  <2> SUFFICES ASSUME Typed, [Next]_vars PROVE Typed'
    OBVIOUS
  <2>1. ASSUME NEW w \in Words, NEW a \in Args, Parse(w, a) PROVE Typed'
    <3>1. /\ pc' \in {"convert", "end"} /\ word' = w /\ fd' = fd /\ carry' = carry
          /\ type' \in {type, ThrusterCommand, PWMDevCommand} /\ ret' \in {ret, "FAIL", "ARG_ERROR"}
          /\ pc = "idle"
      BY <2>1 DEF Parse, Fails
    <3>2. QED BY <3>1 DEF Typed
  <2>2. CASE Convert
    <3>1. /\ pc' \in {"open", "end"} /\ ret' \in {ret, "FAIL"} /\ pc = "convert"
          /\ UNCHANGED <<word, type, fd, carry>>
      BY <2>2 DEF Convert, Fails
    <3>2. QED BY <3>1 DEF Typed
  <2>3. ASSUME NEW there \in BOOLEAN, SerialOpen(there) PROVE Typed'
    <3>1. /\ fd' = there /\ UNCHANGED <<word, type, carry>>
          /\ (there /\ pc' = "write" /\ ret' = ret) \/ (~ there /\ pc' = "end" /\ ret' = "FAIL")
      BY <2>3 DEF SerialOpen, Fails
    <3>2. QED BY <3>1 DEF Typed
  <2>4. ASSUME NEW n \in -1..Len(data), WriteOut(n) PROVE Typed'
    <3>1. fd' = FALSE /\ UNCHANGED <<word, type, carry>> /\ pc' = "end" /\ ret' \in {"FAIL", "SUCCESS"}
      BY <2>4 DEF WriteOut, Fails
    <3>2. QED BY <3>1 DEF Typed
  <2>5. ASSUME NEW bytes \in Answers, Receive(bytes) PROVE Typed'
    <3>1. pc = "idle" /\ pc' = "end" /\ UNCHANGED <<word, type, fd, ret, carry>>
      BY <2>5 DEF Receive
    <3>2. QED BY <3>1 DEF Typed
  <2>6. ASSUME NEW c \in Carried, Carry(c[1], c[2], c[3], c[4]) PROVE Typed'
    <3>1. pc = "idle" /\ pc' = "end" /\ UNCHANGED <<word, type, fd, ret>>
      BY <2>6 DEF Carry
    <3>2. \E x : carry' = <<x>>
      BY <2>6 DEF Carry, RoundTrip
    <3>3. \A x : Len(<<x>>) = 1
      OBVIOUS
    <3>4. Len(carry') <= 1
      BY <3>2, <3>3
    <3>5. QED BY <3>1, <3>4 DEF Typed
  <2>7. CASE UNCHANGED vars
    BY <2>7 DEF vars, Typed
  <2>8. QED BY <2>1, <2>2, <2>3, <2>4, <2>5, <2>6, <2>7 DEF Next
<1>3. QED BY <1>1, <1>2, PTL DEF Spec

\* The bytes of a command are bytes, and those on the line begin them.
LEMMA BytesTyped ==
    ASSUME Commanding, Typed
    PROVE  data \in Seq(Byte) /\ line \in Seq(Byte) /\ IsPrefix(line, data)
<1> DEFINE z == <<>>
<1>1. /\ z \in Seq(Byte) /\ Len(z) = 0 /\ \A s \in Seq(Byte) : SubSeq(s, 1, 0) = z
  OBVIOUS
<1> HIDE DEF z
<1>2. \A s \in Seq(Byte) : IsPrefix(z, s)
  <2> SUFFICES ASSUME NEW s \in Seq(Byte) PROVE IsPrefix(z, s)
    OBVIOUS
  <2>1. Len(s) \in Nat
    BY LenProperties
  <2>2. 0 <= Len(s)
    BY <2>1
  <2>3. SubSeq(z, 1, 0) = SubSeq(s, 1, 0)
    BY <1>1
  <2>4. QED BY <1>1, <2>2, <2>3 DEF IsPrefix
<1>3. data = z \/ (Filled /\ data = ToSend)
  BY DEF Commanding, Typed, z
<1>4. data \in Seq(Byte)
  BY <1>1, <1>3, ToSendIs
<1>5. line = z \/ \E n \in 1..Len(data) : line = SubSeq(data, 1, n)
  BY DEF Commanding, z
<1>6. CASE line = z
  BY <1>1, <1>2, <1>4, <1>6
<1>7. ASSUME NEW n \in 1..Len(data), line = SubSeq(data, 1, n)
      PROVE  line \in Seq(Byte) /\ IsPrefix(line, data)
  <2>1. Len(data) \in Nat
    BY <1>4, LenProperties
  <2>2. 1 \in 1..(Len(data) + 1) /\ n \in 0..(Len(data) + 1 - 1) /\ 1 + n - 1 = n /\ n <= Len(data)
    BY <1>7, <2>1
  <2>3. SubSeq(data, 1, 1 + n - 1) \in Seq(Byte) /\ Len(SubSeq(data, 1, 1 + n - 1)) = n
    BY <1>4, <2>2, PartOf
  <2>4. line \in Seq(Byte) /\ Len(line) = n
    BY <1>7, <2>2, <2>3
  <2>5. SubSeq(line, 1, n) = line
    BY <2>4
  <2>6. QED BY <1>7, <2>2, <2>4, <2>5 DEF IsPrefix
<1>8. QED BY <1>4, <1>5, <1>6, <1>7

\* TypeOK: the types, the line a beginning of the message, and open only
\* between serialOpen and close.
THEOREM TypeCorrect == Spec => []TypeOK
<1>1. Commanding /\ Typed /\ Replied => TypeOK
  <2> SUFFICES ASSUME Commanding, Typed, Replied PROVE TypeOK
    OBVIOUS
  <2>1. reply.got.ok \in BOOLEAN
    BY Byte2msgIs DEF Replied
  <2>2. data \in Seq(Byte) /\ line \in Seq(Byte) /\ IsPrefix(line, data)
    BY BytesTyped
  <2>3. QED BY <2>1, <2>2 DEF TypeOK, Typed, Streams
<1>2. QED BY <1>1, CommandingAlways, TypedAlways, RepliedAlways, PTL
=============================================================================
