-------------------------------- MODULE PbWire --------------------------------
(***************************************************************************)
(* The bytes of 3rd/nanopb: its streams, its integers of variable length,  *)
(* its tags and strings, and the values of single fields, as the library   *)
(* is built here: no malloc, 64 bit integers.  NanoPb makes messages of    *)
(* them.                                                                   *)
(*                                                                         *)
(* A byte is the set of its bits, a subset of 0..7, and an integer of w    *)
(* bits a subset of 0..w-1 in two's complement: every width is the real    *)
(* one.  A float or double is the sequence of its bytes.                   *)
(*                                                                         *)
(* Error texts and the end-of-file flag (only set where the decoder fails  *)
(* anyway) are left out.                                                   *)
(***************************************************************************)
EXTENDS Integers, Sequences, FiniteSets, SequencesExt, FiniteSetsExt

Byte == SUBSET (0..7)

Shift(bits, n) == {i + n : i \in bits}
BitsOf(n) == {i \in 0..30 : (n \div 2^i) % 2 = 1}

\* At most 2^31 - 1, from the highest bit on.
Number(bits) ==
    LET from[k \in 0..31] ==
            IF k = 0 THEN 0 ELSE 2 * from[k - 1] + (IF 31 - k \in bits THEN 1 ELSE 0)
    IN  from[31]

\* The bits of a number of w bits, extended by its sign to 64.
Signed(bits, w) == (bits \cap 0..(w - 1)) \cup (IF w - 1 \in bits THEN (w - 1)..63 ELSE {})

WireType == [BOOL |-> 0, VARINT |-> 0, UVARINT |-> 0, SVARINT |-> 0,
             FIXED32 |-> 5, FIXED64 |-> 1,
             BYTES |-> 2, STRING |-> 2, SUBMESSAGE |-> 2, FIXED_LENGTH_BYTES |-> 2]
PACKED == 255          \* PB_WT_PACKED, an element of a packed array
Packable == {"BOOL", "VARINT", "UVARINT", "SVARINT", "FIXED32", "FIXED64"}

-----------------------------------------------------------------------------
(* Input streams: the buffer, the place in it, the bytes left.             *)

IstreamFromBuffer(buf) == [buf |-> buf, pos |-> 0, left |-> Len(buf)]

\* What a decoder returns: whether it succeeded, the stream after it, the value.
Done(in, v) == [ok |-> TRUE, in |-> in, val |-> v]
Fail(in) == [ok |-> FALSE, in |-> in, val |-> {}]

\* What comes next is done with what succeeded.
Then(r, F(_)) == IF r.ok THEN F(r) ELSE r

Advance(in, n) == [buf |-> in.buf, pos |-> in.pos + n, left |-> in.left - n]

Read(in, n) ==
    IF in.left < n THEN Fail(in)
    ELSE Done(Advance(in, n), SubSeq(in.buf, in.pos + 1, in.pos + n))

-----------------------------------------------------------------------------
(* Integers of variable length: seven bits a byte, the lowest first.       *)

\* Ten bytes hold 64 bits: of 32 the last may only extend the sign.
Overflow32(byte, bitpos, result) ==
    \/ bitpos >= 64
    \/ /\ bitpos >= 32
       /\ byte \cap 0..6 # {}
       /\ ~ (31 \in result /\ byte = IF bitpos < 63 THEN 0..7 ELSE {0})
    \/ bitpos = 28 /\ byte \cap 4..6 # {} /\ ~ (3..6 \subseteq byte)

\* The k-th byte ahead, and what the first k of them come to in w bits.
Ahead(in, k) == in.buf[in.pos + k]
Gathered(in, k, w) == UNION {Shift(Ahead(in, j) \cap 0..6, 7 * (j - 1)) \cap 0..(w - 1) : j \in 1..k}

\* The loops over the bytes of an integer end with a byte that is refused or
\* is the last, or with the stream.
VarintUpTo(in, w, Refused(_)) ==
    LET ends == {k \in 1..in.left : 7 \notin Ahead(in, k) \/ Refused(k)}
        At(k) == IF Refused(k) THEN Fail(Advance(in, k))
                 ELSE Done(Advance(in, k), Gathered(in, k, w))
    IN  IF ends = {} THEN Fail(Advance(in, in.left)) ELSE At(Min(ends))

Varint32(in) ==
    VarintUpTo(in, 32, LAMBDA k : Overflow32(Ahead(in, k), 7 * (k - 1), Gathered(in, k - 1, 32)))

\* The tenth byte has one bit left.
Varint(in) == VarintUpTo(in, 64, LAMBDA k : k >= 10 /\ Ahead(in, k) \cap 1..7 # {})

SkipVarint(in) == VarintUpTo(in, 0, LAMBDA k : FALSE)

\* A length, cut at 2^24: no buffer comes near it.
Length(bits) == IF bits \cap 24..31 # {} THEN 2^24 ELSE Number(bits)

SkipString(in) ==
    Then(Varint32(in), LAMBDA r : Read(r.in, Length(r.val)))

\* pb_decode_tag: the value is <<wire type, tag>>.
DecodeTag(in) ==
    [Varint32(in) EXCEPT !.val = <<Number(@ \cap 0..2), Number(Shift(@ \cap 3..31, -3))>>]

SkipField(in, wt) ==
    CASE wt = 0 -> SkipVarint(in)
      [] wt = 1 -> Read(in, 8)
      [] wt = 2 -> SkipString(in)
      [] wt = 5 -> Read(in, 4)
      [] OTHER -> Fail(in)

\* pb_make_string_substream with its close: the value is the substream, and
\* the stream is the one after pb_close_string_substream, which skips what
\* the reader of the substream has left.
Substream(in) ==
    LET Of(rest, n) == IF rest.left < n THEN Fail(rest)
                       ELSE Done(Advance(rest, n), [rest EXCEPT !.left = n])
    IN  Then(Varint32(in), LAMBDA r : Of(r.in, Length(r.val)))

-----------------------------------------------------------------------------
(* Values of single fields.                                                *)

\* The integer that pData holds, if the value fits it.
FixedSize(r, size) ==
    IF r.ok /\ Signed(r.val, 8 * size) = r.val THEN Done(r.in, r.val \cap 0..(8 * size - 1))
    ELSE Fail(r.in)

UnsignedSize(r, size) ==
    IF r.ok /\ r.val \subseteq 0..(8 * size - 1) THEN r ELSE Fail(r.in)

\* Zigzag: the sign is bit 0.
Svarint(in) ==
    LET Half(bits) == Shift(bits \ {0}, -1)
    IN  [Varint(in) EXCEPT !.val = IF 0 \in @ THEN (0..63) \ Half(@) ELSE Half(@)]

\* Negative numbers of 32 bits and less may have been sent as 32 bits.
PlainVarint(in, size) ==
    [Varint(in) EXCEPT !.val = IF size = 8 THEN @ ELSE Signed(@, 32)]

DecBool(in) ==
    [Varint32(in) EXCEPT !.val = IF @ = {} THEN {} ELSE {0}]

DecVarint(in, f) ==
    CASE f.ltype = "UVARINT" -> UnsignedSize(Varint(in), f.size)
      [] f.ltype = "SVARINT" -> FixedSize(Svarint(in), f.size)
      [] f.ltype = "VARINT" -> FixedSize(PlainVarint(in, f.size), f.size)

\* pb_dec_bytes and pb_dec_string: both need room for something beside the
\* bytes, a count of two bytes or a terminating zero.
DecCounted(in, f, beside) ==
    Then(Varint32(in), LAMBDA r : IF Length(r.val) + beside > f.size THEN Fail(r.in)
                                  ELSE Read(r.in, Length(r.val)))

Zeros(n) == [i \in 1..n |-> {}]

DecFixedLengthBytes(in, f) ==
    Then(Varint32(in), LAMBDA r : IF r.val = {} THEN Done(r.in, Zeros(f.size))
                                  ELSE IF Length(r.val) # f.size THEN Fail(r.in)
                                  ELSE Read(r.in, f.size))

-----------------------------------------------------------------------------
(* Output streams: what was written, and room for how much.  Nothing is    *)
(* written after a failure.  A sizing stream has room for anything.        *)

OstreamFromBuffer(n) == [ok |-> TRUE, max |-> n, out |-> <<>>]
Sizing == OstreamFromBuffer(2^24)

Write(o, bytes) ==
    IF ~ o.ok \/ Len(o.out) + Len(bytes) > o.max THEN [o EXCEPT !.ok = FALSE]
    ELSE [o EXCEPT !.out = @ \o bytes]

\* Seven bits a byte, and a bit that says that more come.
Groups(bits) ==
    LET n == IF bits = {} THEN 1 ELSE Max(bits) \div 7 + 1
    IN  [i \in 1..n |-> Shift(bits \cap (7 * i - 7)..(7 * i - 1), 7 - 7 * i)
                        \cup (IF i < n THEN {7} ELSE {})]

EncodeVarint(o, bits) == Write(o, Groups(bits))

EncodeTag(o, wt, tag) == EncodeVarint(o, BitsOf(wt) \cup Shift(BitsOf(tag), 3))
EncodeTagForField(o, f) == EncodeTag(o, WireType[f.ltype], f.tag)

EncodeString(o, bytes) == Write(EncodeVarint(o, BitsOf(Len(bytes))), bytes)

\* The mutant: the bits of a negative number are not turned over.
ZigzagPlain(bits) == Shift(bits \ {63}, 1)

Zigzag(bits) ==
    IF 63 \in bits THEN (0..63) \ Shift(bits \cap 0..62, 1) ELSE Shift(bits, 1)

EncVarint(o, f, v) ==
    CASE f.ltype = "UVARINT" -> EncodeVarint(o, v)
      [] f.ltype = "SVARINT" -> EncodeVarint(o, Zigzag(Signed(v, 8 * f.size)))
      [] f.ltype \in {"VARINT", "BOOL"} -> EncodeVarint(o, Signed(v, 8 * f.size))

EncBytes(o, f, v) == IF Len(v) > f.size - 2 THEN [o EXCEPT !.ok = FALSE] ELSE EncodeString(o, v)

\* Up to the first zero byte, which must come.
EncString(o, f, v) ==
    LET ends == {i \in 1..Len(v) : v[i] = {}}
        size == IF ends = {} THEN Len(v) ELSE Min(ends) - 1
    IN  IF size > f.size - 1 THEN [o EXCEPT !.ok = FALSE]
        ELSE EncodeString(o, SubSeq(v, 1, size))
=============================================================================
