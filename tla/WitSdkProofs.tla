------------------------------ MODULE WitSdkProofs ------------------------------
(***************************************************************************)
(* The sensor's driver, for any protocols, reads and settings, whatever    *)
(* the line loses or changes: the data the program reads is that of the    *)
(* registers, no frame is missed, whole MODBUS answers are taken, and the  *)
(* types are kept; while the line changes nothing, the registers are true. *)
(***************************************************************************)
EXTENDS WitSdk, Induction, SequenceTheorems, TLAPS

\* Of what is filed, the callback copies all that the program shows, and what
\* is not filed stays in both places.
LEMMA FileKeeps ==
    ASSUME DataUpToDate, NEW parts, File(parts)
    PROVE  DataUpToDate'
<1> DEFINE filed == UNION {p[1]..(p[1] + Len(p[2]) - 1) : p \in ToSet(parts)}
<1>1. /\ DOMAIN sReg' = DOMAIN sReg \cup filed
      /\ \A r \in DOMAIN sReg : r \notin filed => sReg'[r] = sReg[r]
  <2>1. \A r : r \notin filed =>
            {p \in ToSet(parts) : r \in p[1]..(p[1] + Len(p[2]) - 1)} = {}
    OBVIOUS
  <2>2. QED BY <2>1 DEF File, Written
<1>2. /\ DOMAIN data' = DOMAIN data \cup (Shown \cap filed)
      /\ \A r \in Shown \cap filed : data'[r] = sReg'[r]
      /\ \A r \in DOMAIN data : r \notin filed => data'[r] = data[r]
  BY DEF File, Updated
<1> HIDE DEF filed
<1>3. ASSUME NEW r \in Shown, r \in DOMAIN sReg'
      PROVE  r \in DOMAIN data' /\ data'[r] = sReg'[r]
  <2>1. CASE r \in filed
    BY <1>2, <2>1
  <2>2. CASE r \notin filed
    <3>1. r \in DOMAIN sReg /\ sReg'[r] = sReg[r]
      BY <1>1, <1>3, <2>2
    <3>2. r \in DOMAIN data /\ data[r] = sReg[r]
      BY <3>1 DEF DataUpToDate
    <3>3. QED BY <1>2, <2>2, <3>1, <3>2
  <2>3. QED BY <2>1, <2>2
<1>4. QED BY <1>3 DEF DataUpToDate

LEMMA SameKeeps ==
    ASSUME DataUpToDate, sReg' = sReg, data' = data PROVE DataUpToDate'
BY DEF DataUpToDate

LEMMA DeliverKeeps == ASSUME DataUpToDate, Deliver PROVE DataUpToDate'
<1>1. CASE protocol \in Can
  <2>1. WitCanDataIn(Head(line))
    BY <1>1 DEF Deliver
  <2>2. (sReg' = sReg /\ data' = data) \/ (\E parts : File(parts))
    BY <2>1 DEF WitCanDataIn
  <2>3. QED BY <2>2, FileKeeps, SameKeeps
<1>2. CASE protocol \notin Can
  <2>1. WitSerialDataIn(Head(line))
    BY <1>2 DEF Deliver
  <2>2. (sReg' = sReg /\ data' = data) \/ (\E parts : File(parts))
    BY <2>1 DEF WitSerialDataIn
  <2>3. QED BY <2>2, FileKeeps, SameKeeps
<1>3. QED BY <1>1, <1>2

LEMMA ReadKeeps ==
    ASSUME DataUpToDate, NEW reg, NEW n, NEW bus, WitReadReg(reg, n, bus)
    PROVE  DataUpToDate'
<1>1. (sReg' = sReg /\ data' = data) \/ File(<<<<reg, I2cWords(reg, n)>>>>)
  BY DEF WitReadReg
<1>2. QED BY <1>1, FileKeeps, SameKeeps

\* Of the calls only a read over I2C files anything.
LEMMA CallKeeps == ASSUME DataUpToDate, Call PROVE DataUpToDate'
<1>1. CASE \E reg \in {1, REGSIZE}, bus \in BusResults : WitWriteReg(reg, 0, bus)
  BY <1>1, SameKeeps DEF WitWriteReg, driver
<1>2. CASE \E s \in Settings, bus \in BusResults : WitSet(s[1], s[2], bus)
  <2>1. UNCHANGED driver
    BY <1>2 DEF WitSet
  <2>2. QED BY <2>1, SameKeeps DEF driver
<1>3. CASE \E cb \in Registered, null \in BOOLEAN : Register(cb, null)
  BY <1>3, SameKeeps DEF Register
<1>4. CASE \E p \in Protocols : WitInit(p)
  BY <1>4, SameKeeps DEF WitInit, Restarted
<1>5. CASE WitDeInit
  BY <1>5, SameKeeps DEF WitDeInit, Restarted
<1>6. CASE \E iic, opened \in BOOLEAN : navi_jy901_init(iic, opened)
  BY <1>6, SameKeeps DEF navi_jy901_init, Restarted, driver
<1>7. CASE \E r \in Reads, bus \in BusResults : WitReadReg(r[1], r[2], bus)
  BY <1>7, ReadKeeps
<1>8. QED BY <1>1, <1>2, <1>3, <1>4, <1>5, <1>6, <1>7 DEF Call

\* g_jy901_data is never behind the registers: jy901_data_update is told of all
\* that the driver writes, in each protocol.
THEOREM NeverBehind == Spec => []DataUpToDate
<1>1. Init => DataUpToDate
  BY DEF Init, DataUpToDate
<1>2. DataUpToDate /\ [Next]_vars => DataUpToDate'
  <2> SUFFICES ASSUME DataUpToDate, [Next]_vars PROVE DataUpToDate'
    OBVIOUS
  <2>1. CASE Call
    BY <2>1, CallKeeps
  <2>2. CASE Deliver
    BY <2>2, DeliverKeeps
  <2>3. CASE SendOutput \/ Disturb \/ UNCHANGED vars
    <3>1. sReg' = sReg /\ data' = data
      BY <2>3 DEF SendOutput, Disturb, vars, driver
    <3>2. QED BY <3>1, SameKeeps
  <2>4. QED BY <2>1, <2>2, <2>3 DEF Next
<1>3. QED BY <1>1, <1>2, PTL DEF Spec

-----------------------------------------------------------------------------
(* Checksums and words are made of bytes.                                  *)

\* The recursion of CaliSum has a value.
LEMMA SumUnfolds ==
    ASSUME NEW s \in Seq(Int)
    PROVE  \E r : /\ r \in [0..Len(s) -> Int] /\ r[0] = 0
                 /\ \A n \in 1..Len(s) : r[n] = (r[n - 1] + s[n])
                 /\ CaliSum(s) = r[Len(s)] % 256
<1> DEFINE Unfold(f) == [n \in 0..Len(s) |-> IF n = 0 THEN 0 ELSE f[n - 1] + s[n]]
           r == CHOOSE f : f = Unfold(f)
           step == [n \in 1..Len(s) |-> [v \in Int |-> v + s[n]]]
<1>1. Len(s) \in Nat /\ 0 \in Int /\ \A n \in 1..Len(s), v \in Int : v + s[n] \in Int
  <2>1. \A n \in 1..Len(s) : s[n] \in Int
    BY ElementOfSeq
  <2>2. QED BY <2>1, LenProperties
<1>2. CaliSum(s) = r[Len(s)] % 256
  BY DEF CaliSum
<1>3. r = Unfold(r)
  <2>1. step \in Steps(Len(s), Int)
    BY <1>1 DEF Steps
  <2>2. PICK f : Follows(f, Len(s), Int, 0, step)
    <3> HIDE DEF step
    <3>1. QED BY <1>1, <2>1, RecursionUpTo
  <2>3. ASSUME NEW n \in 0..Len(s)
        PROVE  f[n] = IF n = 0 THEN 0 ELSE f[n - 1] + s[n]
    <3>1. CASE n = 0
      BY <2>2, <3>1 DEF Follows
    <3>2. CASE n # 0
      <4>a. n \in 1..Len(s) /\ n - 1 \in 0..Len(s)
        BY <1>1, <3>2
      <4>b. f \in [0..Len(s) -> Int]
        BY <2>2 DEF Follows
      <4>1. n \in 1..Len(s) /\ n - 1 \in 0..Len(s) /\ f[n - 1] \in Int
        BY <4>a, <4>b
      <4>2. f[n] = step[n][f[n - 1]]
        BY <2>2, <4>1 DEF Follows
      <4>3. QED BY <3>2, <4>1, <4>2
    <3>3. QED BY <3>1, <3>2
  <2>4. f = Unfold(f)
    BY <2>2, <2>3 DEF Follows
  <2> HIDE DEF Unfold
  <2>5. QED BY <2>4
<1> HIDE DEF r, step
<1>4. /\ r[0] = 0
      /\ \A n \in 1..Len(s) : r[n] = r[n - 1] + s[n]
  <2>1. \A n \in 0..Len(s) : Unfold(r)[n] = IF n = 0 THEN 0 ELSE r[n - 1] + s[n]
    OBVIOUS
  <2> HIDE DEF Unfold
  <2>2. \A n \in 0..Len(s) : r[n] = IF n = 0 THEN 0 ELSE r[n - 1] + s[n]
    BY <1>3, <2>1
  <2>3. 0 \in 0..Len(s) /\ \A n \in 1..Len(s) : n \in 0..Len(s) /\ n # 0
    BY <1>1
  <2>4. QED BY <2>2, <2>3
<1>5. r \in [0..Len(s) -> Int]
  <2> DEFINE S == {n \in 0..Len(s) : r[n] \in Int}
  <2>4. DOMAIN r = 0..Len(s) /\ r = [n \in 0..Len(s) |-> r[n]]
    <3>1. DOMAIN Unfold(r) = 0..Len(s) /\ Unfold(r) = [n \in 0..Len(s) |-> Unfold(r)[n]]
      OBVIOUS
    <3> HIDE DEF Unfold
    <3>2. QED BY <1>3, <3>1
  <2> HIDE DEF Unfold
  <2>1. 0 \in S
    <3>1. 0 \in 0..Len(s) /\ 0 \in Int
      BY <1>1
    <3>2. QED BY <1>4, <3>1
  <2>2. ASSUME NEW n \in 0..Len(s), n \in S, n < Len(s) PROVE n + 1 \in S
    <3>1. PICK m \in 1..Len(s) : m = n + 1 /\ m - 1 = n /\ m \in 0..Len(s)
      BY <1>1, <2>2
    <3>2. r[m - 1] \in Int
      BY <2>2, <3>1
    <3>3. r[m] = (r[m - 1] + s[m])
      BY <1>4
    <3>4. r[m] \in Int
      BY <1>1, <3>2, <3>3
    <3>5. QED BY <3>1, <3>4
  <2>3. 0..Len(s) \subseteq S
    <3>1. Len(s) \in Nat
      BY <1>1
    <3> HIDE DEF S, Unfold
    <3>2. QED BY <2>1, <2>2, <3>1, InductionUpTo
  <2>5. QED BY <2>3, <2>4
<1>6. QED BY <1>2, <1>4, <1>5

LEMMA CaliSumByte == ASSUME NEW s \in Seq(Int) PROVE CaliSum(s) \in Byte
<1>1. PICK r : r \in [0..Len(s) -> Int] /\ CaliSum(s) = r[Len(s)] % 256
  BY SumUnfolds
<1>2. r[Len(s)] \in Int
  BY <1>1, LenProperties
<1>3. PICK v \in Int : CaliSum(s) = v % 256
  BY <1>1, <1>2
<1>4. v % 256 \in 0..255
  OBVIOUS
<1>5. QED BY <1>3, <1>4 DEF Byte

\* The numbers of 16 bits.
Bits16 == {v \in Nat : v <= 65535}

LEMMA XorWord == ASSUME NEW a \in Int, NEW b \in Int PROVE Xor(a, b) \in Bits16
<1>1. \A x, y \in Int : (x + y) % 2 \in {0, 1}
  OBVIOUS
<1> DEFINE Bit(p) == ((a \div p + b \div p) % 2) * p
<1>2. \A p \in Nat \ {0} : Bit(p) \in {0, p}
  <2>1. \A p \in Nat \ {0} : a \div p \in Int /\ b \div p \in Int
    OBVIOUS
  <2>2. \A p \in Nat : 0 * p = 0 /\ 1 * p = p
    OBVIOUS
  <2>3. QED BY <1>1, <2>1, <2>2
<1> HIDE DEF Bit
<1>3. \A p \in Nat \ {0} : Bit(p) \in Int /\ 0 <= Bit(p) /\ Bit(p) <= p
  BY <1>2
<1>4. Xor(a, b) = Bit(1) + Bit(2) + Bit(4) + Bit(8) + Bit(16) + Bit(32) + Bit(64) + Bit(128)
                  + Bit(256) + Bit(512) + Bit(1024) + Bit(2048)
                  + Bit(4096) + Bit(8192) + Bit(16384) + Bit(32768)
  BY DEF Xor, Bit
<1>5. PICK x0 \in Int : x0 = Bit(1) + Bit(2) + Bit(4) + Bit(8) /\ 0 <= x0 /\ x0 <= 15
  <2>1. /\ Bit(1) \in Int /\ 0 <= Bit(1) /\ Bit(1) <= 1
        /\ Bit(2) \in Int /\ 0 <= Bit(2) /\ Bit(2) <= 2
        /\ Bit(4) \in Int /\ 0 <= Bit(4) /\ Bit(4) <= 4
        /\ Bit(8) \in Int /\ 0 <= Bit(8) /\ Bit(8) <= 8
    BY <1>3
  <2>2. QED BY <2>1
<1>6. PICK x1 \in Int : x1 = Bit(16) + Bit(32) + Bit(64) + Bit(128) /\ 0 <= x1 /\ x1 <= 240
  <2>1. /\ Bit(16) \in Int /\ 0 <= Bit(16) /\ Bit(16) <= 16
        /\ Bit(32) \in Int /\ 0 <= Bit(32) /\ Bit(32) <= 32
        /\ Bit(64) \in Int /\ 0 <= Bit(64) /\ Bit(64) <= 64
        /\ Bit(128) \in Int /\ 0 <= Bit(128) /\ Bit(128) <= 128
    BY <1>3
  <2>2. QED BY <2>1
<1>7. PICK x2 \in Int : x2 = Bit(256) + Bit(512) + Bit(1024) + Bit(2048) /\ 0 <= x2 /\ x2 <= 3840
  <2>1. /\ Bit(256) \in Int /\ 0 <= Bit(256) /\ Bit(256) <= 256
        /\ Bit(512) \in Int /\ 0 <= Bit(512) /\ Bit(512) <= 512
        /\ Bit(1024) \in Int /\ 0 <= Bit(1024) /\ Bit(1024) <= 1024
        /\ Bit(2048) \in Int /\ 0 <= Bit(2048) /\ Bit(2048) <= 2048
    BY <1>3
  <2>2. QED BY <2>1
<1>8. PICK x3 \in Int : x3 = Bit(4096) + Bit(8192) + Bit(16384) + Bit(32768) /\ 0 <= x3 /\ x3 <= 61440
  <2>1. /\ Bit(4096) \in Int /\ 0 <= Bit(4096) /\ Bit(4096) <= 4096
        /\ Bit(8192) \in Int /\ 0 <= Bit(8192) /\ Bit(8192) <= 8192
        /\ Bit(16384) \in Int /\ 0 <= Bit(16384) /\ Bit(16384) <= 16384
        /\ Bit(32768) \in Int /\ 0 <= Bit(32768) /\ Bit(32768) <= 32768
    BY <1>3
  <2>2. QED BY <2>1
<1>9. Xor(a, b) = x0 + x1 + x2 + x3
  <2>1. Xor(a, b) = (Bit(1) + Bit(2) + Bit(4) + Bit(8)) + (Bit(16) + Bit(32) + Bit(64) + Bit(128))
                   + (Bit(256) + Bit(512) + Bit(1024) + Bit(2048))
                   + (Bit(4096) + Bit(8192) + Bit(16384) + Bit(32768))
    BY <1>3, <1>4
  <2>2. QED BY <2>1, <1>5, <1>6, <1>7, <1>8
<1>10. x0 + x1 + x2 + x3 \in Nat /\ x0 + x1 + x2 + x3 <= 65535
  BY <1>5, <1>6, <1>7, <1>8
<1>11. QED BY <1>9, <1>10 DEF Bits16

\* The recursion of CrcTable's entry i has a value, and that of Crc16.
LEMMA XorByte == ASSUME NEW a \in Byte, NEW b \in Byte PROVE Xor(a, b) \in Byte
<1>1. a \in Int /\ 0 <= a /\ a < 256 /\ b \in Int /\ 0 <= b /\ b < 256
  BY DEF Byte
<1> DEFINE Bit(p) == ((a \div p + b \div p) % 2) * p
<1>2. \A p \in Nat \ {0} : Bit(p) \in {0, p}
  <2>1. \A x, y \in Int : (x + y) % 2 \in {0, 1}
    OBVIOUS
  <2>2. \A p \in Nat \ {0} : a \div p \in Int /\ b \div p \in Int
    BY <1>1
  <2>3. \A p \in Nat : 0 * p = 0 /\ 1 * p = p
    OBVIOUS
  <2>4. QED BY <2>1, <2>2, <2>3
<1>3. /\ Bit(256) = 0 /\ Bit(512) = 0 /\ Bit(1024) = 0 /\ Bit(2048) = 0
      /\ Bit(4096) = 0 /\ Bit(8192) = 0 /\ Bit(16384) = 0 /\ Bit(32768) = 0
  BY <1>1
<1>4. Xor(a, b) = Bit(1) + Bit(2) + Bit(4) + Bit(8) + Bit(16) + Bit(32) + Bit(64) + Bit(128)
                  + Bit(256) + Bit(512) + Bit(1024) + Bit(2048)
                  + Bit(4096) + Bit(8192) + Bit(16384) + Bit(32768)
  BY DEF Xor
<1> HIDE DEF Bit
<1>5. \A p \in Nat \ {0} : Bit(p) \in Int /\ 0 <= Bit(p) /\ Bit(p) <= p
  BY <1>2
<1>6. /\ Bit(1) \in Int /\ 0 <= Bit(1) /\ Bit(1) <= 1
      /\ Bit(2) \in Int /\ 0 <= Bit(2) /\ Bit(2) <= 2
      /\ Bit(4) \in Int /\ 0 <= Bit(4) /\ Bit(4) <= 4
      /\ Bit(8) \in Int /\ 0 <= Bit(8) /\ Bit(8) <= 8
  BY <1>5
<1>7. /\ Bit(16) \in Int /\ 0 <= Bit(16) /\ Bit(16) <= 16
      /\ Bit(32) \in Int /\ 0 <= Bit(32) /\ Bit(32) <= 32
      /\ Bit(64) \in Int /\ 0 <= Bit(64) /\ Bit(64) <= 64
      /\ Bit(128) \in Int /\ 0 <= Bit(128) /\ Bit(128) <= 128
  BY <1>5
<1>8. Xor(a, b) = (Bit(1) + Bit(2) + Bit(4) + Bit(8)) + (Bit(16) + Bit(32) + Bit(64) + Bit(128))
  BY <1>3, <1>4, <1>6, <1>7
<1>9. Xor(a, b) \in Int /\ 0 <= Xor(a, b) /\ Xor(a, b) <= 255
  BY <1>6, <1>7, <1>8
<1>10. QED BY <1>9 DEF Byte

\* The recursion of an entry of CrcTable has a value.
LEMMA ShiftsUnfold ==
    ASSUME NEW i \in Byte
    PROVE  \E r : /\ r \in [0..8 -> Bits16] /\ r[0] = i
                 /\ \A n \in 1..8 : r[n] = (IF r[n - 1] % 2 = 1 THEN Xor(r[n - 1] \div 2, 40961) ELSE r[n - 1] \div 2)
                 /\ CrcTable[i] = r[8]
<1> DEFINE Unfold(f) == [n \in 0..8 |-> IF n = 0 THEN i ELSE IF f[n - 1] % 2 = 1 THEN Xor(f[n - 1] \div 2, 40961) ELSE f[n - 1] \div 2]
           r == CHOOSE f : f = Unfold(f)
           step == [n \in 1..8 |-> [v \in Bits16 |-> IF v % 2 = 1 THEN Xor(v \div 2, 40961) ELSE v \div 2]]
<1>1. /\ i \in Bits16 /\ 8 \in Nat
      /\ \A n \in 1..8, v \in Bits16 : (IF v % 2 = 1 THEN Xor(v \div 2, 40961) ELSE v \div 2) \in Bits16
  <2>1. i \in Bits16
    BY DEF Byte, Bits16
  <2>2. ASSUME NEW v \in Bits16
        PROVE  (IF v % 2 = 1 THEN Xor(v \div 2, 40961) ELSE v \div 2) \in Bits16
    <3>1. v \div 2 \in Bits16 /\ v \div 2 \in Int
      BY DEF Bits16
    <3>2. QED BY <3>1, XorWord
  <2>3. QED BY <2>1, <2>2
<1>2. CrcTable[i] = r[8]
  BY DEF CrcTable
<1>3. r = Unfold(r)
  <2>1. step \in Steps(8, Bits16)
    BY <1>1 DEF Steps
  <2>2. PICK f : Follows(f, 8, Bits16, i, step)
    <3> HIDE DEF step
    <3>1. QED BY <1>1, <2>1, RecursionUpTo
  <2>3. ASSUME NEW n \in 0..8
        PROVE  f[n] = IF n = 0 THEN i ELSE IF f[n - 1] % 2 = 1 THEN Xor(f[n - 1] \div 2, 40961) ELSE f[n - 1] \div 2
    <3>1. CASE n = 0
      BY <2>2, <3>1 DEF Follows
    <3>2. CASE n # 0
      <4>a. n \in 1..8 /\ n - 1 \in 0..8
        BY <1>1, <3>2
      <4>b. f \in [0..8 -> Bits16]
        BY <2>2 DEF Follows
      <4>1. n \in 1..8 /\ n - 1 \in 0..8 /\ f[n - 1] \in Bits16
        BY <4>a, <4>b
      <4>2. f[n] = step[n][f[n - 1]]
        BY <2>2, <4>1 DEF Follows
      <4>3. QED BY <3>2, <4>1, <4>2
    <3>3. QED BY <3>1, <3>2
  <2>4. f = Unfold(f)
    BY <2>2, <2>3 DEF Follows
  <2> HIDE DEF Unfold
  <2>5. QED BY <2>4
<1> HIDE DEF r, step
<1>4. /\ r[0] = i
      /\ \A n \in 1..8 : r[n] = IF r[n - 1] % 2 = 1 THEN Xor(r[n - 1] \div 2, 40961) ELSE r[n - 1] \div 2
  <2>1. \A n \in 0..8 : Unfold(r)[n] = IF n = 0 THEN i ELSE IF r[n - 1] % 2 = 1 THEN Xor(r[n - 1] \div 2, 40961) ELSE r[n - 1] \div 2
    OBVIOUS
  <2> HIDE DEF Unfold
  <2>2. \A n \in 0..8 : r[n] = IF n = 0 THEN i ELSE IF r[n - 1] % 2 = 1 THEN Xor(r[n - 1] \div 2, 40961) ELSE r[n - 1] \div 2
    BY <1>3, <2>1
  <2>3. 0 \in 0..8 /\ \A n \in 1..8 : n \in 0..8 /\ n # 0
    BY <1>1
  <2>4. QED BY <2>2, <2>3
<1>5. r \in [0..8 -> Bits16]
  <2> DEFINE S == {n \in 0..8 : r[n] \in Bits16}
  <2>4. DOMAIN r = 0..8 /\ r = [n \in 0..8 |-> r[n]]
    <3>1. DOMAIN Unfold(r) = 0..8 /\ Unfold(r) = [n \in 0..8 |-> Unfold(r)[n]]
      OBVIOUS
    <3> HIDE DEF Unfold
    <3>2. QED BY <1>3, <3>1
  <2> HIDE DEF Unfold
  <2>1. 0 \in S
    <3>1. 0 \in 0..8 /\ i \in Bits16
      BY <1>1
    <3>2. QED BY <1>4, <3>1
  <2>2. ASSUME NEW n \in 0..8, n \in S, n < 8 PROVE n + 1 \in S
    <3>1. PICK m \in 1..8 : m = n + 1 /\ m - 1 = n /\ m \in 0..8
      BY <1>1, <2>2
    <3>2. r[m - 1] \in Bits16
      BY <2>2, <3>1
    <3>3. r[m] = (IF r[m - 1] % 2 = 1 THEN Xor(r[m - 1] \div 2, 40961) ELSE r[m - 1] \div 2)
      BY <1>4
    <3>4. r[m] \in Bits16
      BY <1>1, <3>2, <3>3
    <3>5. QED BY <3>1, <3>4
  <2>3. 0..8 \subseteq S
    <3>1. 8 \in Nat
      BY <1>1
    <3> HIDE DEF S, Unfold
    <3>2. QED BY <2>1, <2>2, <3>1, InductionUpTo
  <2>5. QED BY <2>3, <2>4
<1>6. QED BY <1>2, <1>4, <1>5

LEMMA CrcTableWord == ASSUME NEW i \in Byte PROVE CrcTable[i] \in Bits16
<1>1. PICK r : r \in [0..8 -> Bits16] /\ CrcTable[i] = r[8]
  BY ShiftsUnfold
<1>2. 8 \in 0..8
  OBVIOUS
<1>3. QED BY <1>1, <1>2

\* The recursion of Crc16 has a value.
LEMMA CrcUnfolds ==
    ASSUME NEW s \in Seq(Byte)
    PROVE  \E r : /\ r \in [0..Len(s) -> Bits16] /\ r[0] = 65535
                 /\ \A n \in 1..Len(s) : r[n] = (Xor(r[n - 1] \div 256, CrcTable[Xor(r[n - 1] % 256, s[n])]))
                 /\ Crc16(s) = <<r[Len(s)] % 256, r[Len(s)] \div 256>>
<1> DEFINE Unfold(f) == [n \in 0..Len(s) |-> IF n = 0 THEN 65535 ELSE Xor(f[n - 1] \div 256, CrcTable[Xor(f[n - 1] % 256, s[n])])]
           r == CHOOSE f : f = Unfold(f)
           step == [n \in 1..Len(s) |-> [v \in Bits16 |-> Xor(v \div 256, CrcTable[Xor(v % 256, s[n])])]]
<1>1. /\ Len(s) \in Nat /\ 65535 \in Bits16
      /\ \A n \in 1..Len(s), v \in Bits16 : Xor(v \div 256, CrcTable[Xor(v % 256, s[n])]) \in Bits16
  <2>1. ASSUME NEW n \in 1..Len(s), NEW v \in Bits16
        PROVE  Xor(v \div 256, CrcTable[Xor(v % 256, s[n])]) \in Bits16
    <3>1. s[n] \in Byte /\ v % 256 \in Byte /\ v \div 256 \in Int
      <4>1. s[n] \in Byte
        BY ElementOfSeq
      <4>2. v \in Nat
        BY DEF Bits16
      <4>3. v % 256 \in 0..255 /\ v \div 256 \in Int
        BY <4>2
      <4>4. QED BY <4>1, <4>3 DEF Byte
    <3>2. CrcTable[Xor(v % 256, s[n])] \in Bits16
      BY <3>1, XorByte, CrcTableWord
    <3>3. CrcTable[Xor(v % 256, s[n])] \in Int
      BY <3>2 DEF Bits16
    <3>4. QED BY <3>1, <3>3, XorWord
  <2>2. QED BY <2>1, LenProperties DEF Bits16
<1>2. Crc16(s) = <<r[Len(s)] % 256, r[Len(s)] \div 256>>
  BY DEF Crc16
<1>3. r = Unfold(r)
  <2>1. step \in Steps(Len(s), Bits16)
    BY <1>1 DEF Steps
  <2>2. PICK f : Follows(f, Len(s), Bits16, 65535, step)
    <3> HIDE DEF step
    <3>1. QED BY <1>1, <2>1, RecursionUpTo
  <2>3. ASSUME NEW n \in 0..Len(s)
        PROVE  f[n] = IF n = 0 THEN 65535 ELSE Xor(f[n - 1] \div 256, CrcTable[Xor(f[n - 1] % 256, s[n])])
    <3>1. CASE n = 0
      BY <2>2, <3>1 DEF Follows
    <3>2. CASE n # 0
      <4>a. n \in 1..Len(s) /\ n - 1 \in 0..Len(s)
        BY <1>1, <3>2
      <4>b. f \in [0..Len(s) -> Bits16]
        BY <2>2 DEF Follows
      <4>1. n \in 1..Len(s) /\ n - 1 \in 0..Len(s) /\ f[n - 1] \in Bits16
        BY <4>a, <4>b
      <4>2. f[n] = step[n][f[n - 1]]
        BY <2>2, <4>1 DEF Follows
      <4>3. QED BY <3>2, <4>1, <4>2
    <3>3. QED BY <3>1, <3>2
  <2>4. f = Unfold(f)
    BY <2>2, <2>3 DEF Follows
  <2> HIDE DEF Unfold
  <2>5. QED BY <2>4
<1> HIDE DEF r, step
<1>4. /\ r[0] = 65535
      /\ \A n \in 1..Len(s) : r[n] = Xor(r[n - 1] \div 256, CrcTable[Xor(r[n - 1] % 256, s[n])])
  <2>1. \A n \in 0..Len(s) : Unfold(r)[n] = IF n = 0 THEN 65535 ELSE Xor(r[n - 1] \div 256, CrcTable[Xor(r[n - 1] % 256, s[n])])
    OBVIOUS
  <2> HIDE DEF Unfold
  <2>2. \A n \in 0..Len(s) : r[n] = IF n = 0 THEN 65535 ELSE Xor(r[n - 1] \div 256, CrcTable[Xor(r[n - 1] % 256, s[n])])
    BY <1>3, <2>1
  <2>3. 0 \in 0..Len(s) /\ \A n \in 1..Len(s) : n \in 0..Len(s) /\ n # 0
    BY <1>1
  <2>4. QED BY <2>2, <2>3
<1>5. r \in [0..Len(s) -> Bits16]
  <2> DEFINE S == {n \in 0..Len(s) : r[n] \in Bits16}
  <2>4. DOMAIN r = 0..Len(s) /\ r = [n \in 0..Len(s) |-> r[n]]
    <3>1. DOMAIN Unfold(r) = 0..Len(s) /\ Unfold(r) = [n \in 0..Len(s) |-> Unfold(r)[n]]
      OBVIOUS
    <3> HIDE DEF Unfold
    <3>2. QED BY <1>3, <3>1
  <2> HIDE DEF Unfold
  <2>1. 0 \in S
    <3>1. 0 \in 0..Len(s) /\ 65535 \in Bits16
      BY <1>1
    <3>2. QED BY <1>4, <3>1
  <2>2. ASSUME NEW n \in 0..Len(s), n \in S, n < Len(s) PROVE n + 1 \in S
    <3>1. PICK m \in 1..Len(s) : m = n + 1 /\ m - 1 = n /\ m \in 0..Len(s)
      BY <1>1, <2>2
    <3>2. r[m - 1] \in Bits16
      BY <2>2, <3>1
    <3>3. r[m] = (Xor(r[m - 1] \div 256, CrcTable[Xor(r[m - 1] % 256, s[m])]))
      BY <1>4
    <3>4. r[m] \in Bits16
      BY <1>1, <3>2, <3>3
    <3>5. QED BY <3>1, <3>4
  <2>3. 0..Len(s) \subseteq S
    <3>1. Len(s) \in Nat
      BY <1>1
    <3> HIDE DEF S, Unfold
    <3>2. QED BY <2>1, <2>2, <3>1, InductionUpTo
  <2>5. QED BY <2>3, <2>4
<1>6. QED BY <1>2, <1>4, <1>5

LEMMA Crc16Bytes ==
    ASSUME NEW s \in Seq(Byte)
    PROVE  Crc16(s) \in Seq(Byte) /\ Len(Crc16(s)) = 2
<1>1. PICK r : /\ r \in [0..Len(s) -> Bits16]
               /\ Crc16(s) = <<r[Len(s)] % 256, r[Len(s)] \div 256>>
  BY CrcUnfolds
<1>2. PICK v \in Bits16 : Crc16(s) = <<v % 256, v \div 256>>
  BY <1>1, LenProperties
<1>3. v % 256 \in Byte /\ v \div 256 \in Byte
  <2>1. v \in Nat /\ v <= 65535
    BY DEF Bits16
  <2>3. v \div 256 \in Int /\ 0 <= v \div 256 /\ v \div 256 <= 255
    BY <2>1
  <2>4. \A x \in Int : 0 <= x /\ x <= 255 => x \in Byte
    BY DEF Byte
  <2>5. v % 256 \in Int /\ 0 <= v % 256 /\ v % 256 <= 255
    BY <2>1
  <2>6. QED BY <2>3, <2>4, <2>5
<1>4. QED BY <1>2, <1>3

-----------------------------------------------------------------------------
(* What is on the line.                                                    *)

ByteFacts == \A x \in Int : 0 <= x /\ x <= 255 <=> x \in Byte

LEMMA ByteRange == ByteFacts /\ Byte \subseteq Nat
BY DEF ByteFacts, Byte

LEMMA BytesOfWords ==
    ASSUME NEW words \in Seq(Word)
    PROVE  /\ LowHigh(words) \in Seq(Byte) /\ Len(LowHigh(words)) = 2 * Len(words)
           /\ HighLow(words) \in Seq(Byte) /\ Len(HighLow(words)) = 2 * Len(words)
<1>1. Len(words) \in Nat /\ 2 * Len(words) \in Nat
  BY LenProperties
<1>2. ASSUME NEW i \in 1..(2 * Len(words))
      PROVE  /\ words[(i + 1) \div 2][1 + (i % 2)] \in Byte
             /\ words[(i + 1) \div 2][2 - (i % 2)] \in Byte
  <2>1. (i + 1) \div 2 \in 1..Len(words)
    BY <1>1
  <2>2. PICK h \in Byte, l \in Byte : words[(i + 1) \div 2] = <<h, l>>
    <3>1. words[(i + 1) \div 2] \in Word
      BY <2>1, ElementOfSeq
    <3>2. QED BY <3>1 DEF Word
  <2>3. i % 2 = 0 \/ i % 2 = 1
    OBVIOUS
  <2>4. 1 + 0 = 1 /\ 1 + 1 = 2 /\ 2 - 0 = 2 /\ 2 - 1 = 1
    OBVIOUS
  <2>5. <<h, l>>[1] \in Byte /\ <<h, l>>[2] \in Byte
    OBVIOUS
  <2>6. QED BY <2>2, <2>3, <2>4, <2>5
<1>3. /\ LowHigh(words) \in [1..(2 * Len(words)) -> Byte]
      /\ HighLow(words) \in [1..(2 * Len(words)) -> Byte]
  BY <1>2 DEF LowHigh, HighLow
<1>4. QED BY <1>1, <1>3

LEMMA DeviceWordsType ==
    ASSUME NEW r \in Nat, NEW n \in Nat, r + n <= 256
    PROVE  DeviceWords(r, n) \in Seq(Word) /\ Len(DeviceWords(r, n)) = n
<1>1. ASSUME NEW k \in 1..n PROVE DeviceWord(r + k - 1) \in Word
  <2>1. r + k - 1 \in Int /\ 0 <= r + k - 1 /\ r + k - 1 <= 255
    OBVIOUS
  <2>2. r + k - 1 \in Byte
    BY <2>1, ByteRange DEF ByteFacts
  <2>3. HEADER \in Byte
    BY ByteRange DEF ByteFacts, HEADER
  <2>4. QED BY <2>2, <2>3 DEF DeviceWord, Word
<1>2. DeviceWords(r, n) \in [1..n -> Word]
  BY <1>1 DEF DeviceWords
<1>3. QED BY <1>2

\* Words come out of the bytes that they were written as.
LEMMA WordsBack ==
    ASSUME NEW f, NEW words \in Seq(Word), NEW i \in Nat, NEW n \in Nat, n <= Len(words)
    PROVE  /\ (\A j \in 1..(2 * n) : f[i + j - 1] = LowHigh(words)[j])
                => \A k \in 1..n : LittleEndian(f, i, n)[k] = words[k]
           /\ (\A j \in 1..(2 * n) : f[i + j - 1] = HighLow(words)[j])
                => \A k \in 1..n : BigEndian(f, i, n)[k] = words[k]
<1>1. Len(words) \in Nat
  BY LenProperties
<1>2. ASSUME NEW k \in 1..n
      PROVE  /\ LowHigh(words)[2*k] = words[k][1] /\ LowHigh(words)[2*k - 1] = words[k][2]
             /\ HighLow(words)[2*k] = words[k][2] /\ HighLow(words)[2*k - 1] = words[k][1]
             /\ words[k] = <<words[k][1], words[k][2]>>
             /\ 2*k \in 1..(2 * n) /\ 2*k - 1 \in 1..(2 * n)
  <2>1. 2*k \in 1..(2 * Len(words)) /\ 2*k - 1 \in 1..(2 * Len(words))
    BY <1>1
  <2>2. (2*k + 1) \div 2 = k /\ (2*k - 1 + 1) \div 2 = k /\ (2*k) % 2 = 0 /\ (2*k - 1) % 2 = 1
    OBVIOUS
  <2>3. 1 + 0 = 1 /\ 1 + 1 = 2 /\ 2 - 0 = 2 /\ 2 - 1 = 1
    OBVIOUS
  <2>4. /\ LowHigh(words)[2*k] = words[(2*k + 1) \div 2][1 + ((2*k) % 2)]
        /\ LowHigh(words)[2*k - 1] = words[(2*k - 1 + 1) \div 2][1 + ((2*k - 1) % 2)]
        /\ HighLow(words)[2*k] = words[(2*k + 1) \div 2][2 - ((2*k) % 2)]
        /\ HighLow(words)[2*k - 1] = words[(2*k - 1 + 1) \div 2][2 - ((2*k - 1) % 2)]
    BY <2>1 DEF LowHigh, HighLow
  <2>5. words[k] \in Word
    BY <1>1, ElementOfSeq
  <2>6. words[k] = <<words[k][1], words[k][2]>>
    BY <2>5 DEF Word
  <2>7. 2*k \in 1..(2 * n) /\ 2*k - 1 \in 1..(2 * n)
    OBVIOUS
  <2>8. QED BY <2>2, <2>3, <2>4, <2>6, <2>7
<1>3. ASSUME NEW k \in 1..n
      PROVE  /\ LittleEndian(f, i, n)[k] = <<f[i + 2*k - 1], f[i + 2*k - 2]>>
             /\ BigEndian(f, i, n)[k] = <<f[i + 2*k - 2], f[i + 2*k - 1]>>
             /\ i + 2*k - 1 = i + (2*k) - 1 /\ i + 2*k - 2 = i + (2*k - 1) - 1
  BY DEF LittleEndian, BigEndian
<1>4. ASSUME \A j \in 1..(2 * n) : f[i + j - 1] = LowHigh(words)[j], NEW k \in 1..n
      PROVE  LittleEndian(f, i, n)[k] = words[k]
  <2>1. f[i + (2*k) - 1] = LowHigh(words)[2*k] /\ f[i + (2*k - 1) - 1] = LowHigh(words)[2*k - 1]
    BY <1>2, <1>4
  <2>2. QED BY <1>2, <1>3, <2>1
<1>5. ASSUME \A j \in 1..(2 * n) : f[i + j - 1] = HighLow(words)[j], NEW k \in 1..n
      PROVE  BigEndian(f, i, n)[k] = words[k]
  <2>1. f[i + (2*k) - 1] = HighLow(words)[2*k] /\ f[i + (2*k - 1) - 1] = HighLow(words)[2*k - 1]
    BY <1>2, <1>5
  <2>2. QED BY <1>2, <1>3, <2>1
<1>6. QED BY <1>4, <1>5

\* What the bus brings of a register is joined to what the register holds.
LEMMA I2cWordsAre ==
    ASSUME NEW r \in Nat, NEW n \in Nat, r + n <= 256
    PROVE  I2cWords(r, n) = DeviceWords(r, n)
<1> DEFINE words == DeviceWords(r, n)
           bytes == LowHigh(words)
<1>1. words \in Seq(Word) /\ Len(words) = n
  BY DeviceWordsType
<1>2. \A k \in 1..n : LittleEndian(bytes, 1, n)[k] = words[k]
  <2> HIDE DEF words
  <2>1. n <= Len(words)
    BY <1>1
  <2>2. \A j \in 1..(2 * n) : bytes[1 + j - 1] = bytes[j]
    <3> HIDE DEF bytes
    <3>1. \A j \in 1..(2 * n) : 1 + j - 1 = j
      OBVIOUS
    <3>2. QED BY <3>1
  <2>3. QED BY <1>1, <2>1, <2>2, WordsBack
<1>3. LittleEndian(bytes, 1, n) = [k \in 1..n |-> LittleEndian(bytes, 1, n)[k]]
  <2> HIDE DEF bytes
  <2>1. QED BY DEF LittleEndian
<1>4. words = [k \in 1..n |-> words[k]]
  BY DEF DeviceWords
<1>5. LittleEndian(bytes, 1, n) = words
  <2> HIDE DEF words, bytes
  <2>1. QED BY <1>2, <1>3, <1>4
<1>6. QED BY <1>5 DEF I2cWords

\* A frame on the CAN bus.
Frame8 == [1..8 -> Byte]

LEMMA OutputFrameType ==
    ASSUME NEW index \in Byte, NEW words \in Seq(Word), Len(words) = 4
    PROVE  OutputFrame(index, words) \in IF protocol \in Can THEN Seq(Frame8) ELSE Seq(Byte)
<1> DEFINE bytes == <<HEADER, index>> \o LowHigh(words)
<1>1. bytes \in Seq(Byte) /\ Len(bytes) = 10
  <2>1. <<HEADER, index>> \in Seq(Byte) /\ Len(<<HEADER, index>>) = 2
    BY ByteRange DEF ByteFacts, HEADER
  <2>2. LowHigh(words) \in Seq(Byte) /\ Len(LowHigh(words)) = 8
    <3>1. LowHigh(words) \in Seq(Byte) /\ Len(LowHigh(words)) = 2 * Len(words)
      BY BytesOfWords
    <3>2. QED BY <3>1
  <2> HIDE DEF HEADER
  <2>3. /\ bytes \in Seq(Byte)
        /\ Len(bytes) = Len(<<HEADER, index>>) + Len(LowHigh(words))
    BY <2>1, <2>2, ConcatProperties
  <2>4. QED BY <2>1, <2>2, <2>3
<1>2. OutputFrame(index, words) =
          IF protocol \in Can THEN <<SubSeq(bytes, 1, 8)>> ELSE bytes \o <<CaliSum(bytes)>>
  BY DEF OutputFrame
<1> HIDE DEF bytes
<1>3. \A i \in 1..10 : bytes[i] \in Byte
  BY <1>1, ElementOfSeq
<1>4. SubSeq(bytes, 1, 8) \in Frame8
  <2>1. \A i \in 1..8 : bytes[i] \in Byte
    BY <1>3
  <2>2. /\ SubSeq(bytes, 1, 8) \in Seq(Byte)
        /\ Len(SubSeq(bytes, 1, 8)) = 8
    BY <2>1, SubSeqProperties
  <2>3. QED BY <2>2, LenProperties DEF Frame8
<1>5. CaliSum(bytes) \in Byte
  <2>1. bytes \in Seq(Int)
    <3>1. \A i \in 1..10 : bytes[i] \in Int
      <4>1. \A v \in Byte : v \in Int
        BY ByteRange
      <4>2. QED BY <1>3, <4>1
    <3>2. bytes = [i \in 1..10 |-> bytes[i]]
      BY <1>1, LenProperties
    <3>3. [i \in 1..10 |-> bytes[i]] \in [1..10 -> Int]
      BY <3>1
    <3>4. QED BY <3>2, <3>3
  <2>2. QED BY <2>1, CaliSumByte
<1>6. bytes \o <<CaliSum(bytes)>> \in Seq(Byte)
  BY <1>1, <1>5, ConcatProperties
<1>7. <<SubSeq(bytes, 1, 8)>> \in Seq(Frame8)
  BY <1>4
<1>8. QED BY <1>2, <1>6, <1>7

LEMMA FrameRegisterType ==
    ASSUME NEW i \in DOMAIN FrameRegister
    PROVE  /\ FrameRegister[i].first \in Nat /\ FrameRegister[i].first <= 85
           /\ FrameRegister[i].n \in {3, 4}
           /\ "fourth" \in DOMAIN FrameRegister[i] =>
                FrameRegister[i].fourth \in Nat /\ FrameRegister[i].fourth <= 64
<1>1. i \in {80, 81, 82, 83, 84, 85, 86, 87, 88, 89, 90}
  BY DEF FrameRegister
<1>2. CASE i \in {81, 83}
  BY <1>2 DEF FrameRegister
<1>3. CASE i \notin {81, 83}
  <2>1. FrameRegister[i] \in [first : {48, 55, 58, 65, 69, 73, 77, 81, 85}, n : {3, 4}]
    BY <1>1, <1>3 DEF FrameRegister
  <2>2. PICK f \in {48, 55, 58, 65, 69, 73, 77, 81, 85}, n \in {3, 4} :
            FrameRegister[i] = [first |-> f, n |-> n]
    BY <2>1
  <2>3. DOMAIN FrameRegister[i] = {"first", "n"} /\ FrameRegister[i].first = f /\ FrameRegister[i].n = n
    BY <2>2
  <2>4. QED BY <2>3
<1>4. QED BY <1>2, <1>3

LEMMA OutputWordsType ==
    ASSUME NEW index
    PROVE  OutputWords(index) \in Seq(Word) /\ Len(OutputWords(index)) = 4
<1> DEFINE where == IF index \in DOMAIN FrameRegister THEN FrameRegister[index]
                    ELSE [first |-> 0, n |-> 4]
<1>1. /\ where.first \in Nat /\ where.first <= 85
      /\ "fourth" \in DOMAIN where => where.fourth \in Nat /\ where.fourth <= 64
  <2>1. CASE index \in DOMAIN FrameRegister
    BY <2>1, FrameRegisterType
  <2>2. CASE index \notin DOMAIN FrameRegister
    <3>1. where = [first |-> 0, n |-> 4]
      BY <2>2
    <3>2. DOMAIN where = {"first", "n"} /\ where.first = 0
      BY <3>1
    <3>3. QED BY <3>2
  <2>3. QED BY <2>1, <2>2
<1>2. OutputWords(index) = IF "fourth" \in DOMAIN where
                           THEN Append(DeviceWords(where.first, 3), DeviceWord(where.fourth))
                           ELSE DeviceWords(where.first, 4)
  BY DEF OutputWords
<1> HIDE DEF where
<1>3. CASE "fourth" \in DOMAIN where
  <2>1. DeviceWords(where.first, 3) \in Seq(Word) /\ Len(DeviceWords(where.first, 3)) = 3
    <3>1. 3 \in Nat /\ where.first + 3 <= 256
      BY <1>1
    <3>2. QED BY <1>1, <3>1, DeviceWordsType
  <2>2. DeviceWord(where.fourth) \in Word
    <3>1. where.fourth \in Byte /\ HEADER \in Byte
      BY <1>1, <1>3, ByteRange DEF ByteFacts, HEADER
    <3>2. QED BY <3>1 DEF DeviceWord, Word
  <2>3. QED BY <1>2, <1>3, <2>1, <2>2, AppendProperties
<1>4. CASE "fourth" \notin DOMAIN where
  <2>1. 4 \in Nat /\ where.first + 4 <= 256
    BY <1>1
  <2>2. QED BY <1>1, <1>2, <1>4, <2>1, DeviceWordsType
<1>5. QED BY <1>3, <1>4

LEMMA AngleFrameType == ASSUME NEW k \in 1..3 PROVE AngleFrame(k) \in Seq(Frame8)
<1> DEFINE low == LowHigh(DeviceWords(59 + 2 * k, 2))
           head == <<HEADER, 83, k, 0>>
<1>1. low \in Seq(Byte) /\ Len(low) = 4
  <2>1. DeviceWords(59 + 2 * k, 2) \in Seq(Word) /\ Len(DeviceWords(59 + 2 * k, 2)) = 2
    <3>1. 59 + 2 * k \in Nat /\ 2 \in Nat /\ (59 + 2 * k) + 2 <= 256
      OBVIOUS
    <3>2. QED BY <3>1, DeviceWordsType
  <2>2. PICK words \in Seq(Word) : words = DeviceWords(59 + 2 * k, 2) /\ Len(words) = 2
    BY <2>1
  <2>3. LowHigh(words) \in Seq(Byte) /\ Len(LowHigh(words)) = 2 * Len(words)
    BY BytesOfWords
  <2>4. low = LowHigh(words)
    BY <2>2
  <2> HIDE DEF low, head
  <2>5. Len(LowHigh(words)) = 4
    <3>1. Len(words) = 2
      BY <2>2
    <3>2. QED BY <2>3, <3>1
  <2>6. QED BY <2>3, <2>4, <2>5
<1>2. head \in Seq(Byte) /\ Len(head) = 4
  <2>1. HEADER \in Byte /\ 83 \in Byte /\ k \in Byte /\ 0 \in Byte
    BY ByteRange DEF ByteFacts, HEADER
  <2>2. QED BY <2>1
<1>3. AngleFrame(k) = <<head \o low>>
  BY DEF AngleFrame
<1> HIDE DEF head, low
<1>4. head \o low \in Seq(Byte) /\ Len(head \o low) = 8
  <2>1. head \o low \in Seq(Byte) /\ Len(head \o low) = Len(head) + Len(low)
    BY <1>1, <1>2, ConcatProperties
  <2>2. QED BY <1>1, <1>2, <2>1
<1>5. head \o low \in Frame8
  BY <1>4, LenProperties DEF Frame8
<1>6. QED BY <1>3, <1>5

\* The answer to a read that was not refused.
LEMMA AnswerType ==
    ASSUME NEW reg \in Nat, NEW n \in Nat, ReadRefusal(reg, n) = "OK", protocol # "I2C"
    PROVE  Answer(reg, n) \in IF protocol \in Can THEN Seq(Frame8) ELSE Seq(Byte)
<1>2. REGSIZE \in Nat /\ REGSIZE <= 253 /\ WIT_DATA_BUFF_SIZE \in Nat /\ WIT_DATA_BUFF_SIZE <= 256
  BY SizeAssumption
<1>1. reg + n < REGSIZE
  <2>1. reg + n >= REGSIZE => ReadRefusal(reg, n) = "INVAL"
    BY DEF ReadRefusal
  <2>2. QED BY <1>2, <2>1
<1>3. CASE protocol \in Modbus
  <2> DEFINE head == <<80, FuncR, 2 * n>>
             body == HighLow(DeviceWords(reg, n))
             bytes == head \o body
  <2>1. 2 * n + 5 <= WIT_DATA_BUFF_SIZE
    <3>1. protocol \notin {"NORMAL", "JY61"} /\ protocol \notin Can
      BY <1>3 DEF Modbus, Can
    <3>2. ~(2 * n + 5 > WIT_DATA_BUFF_SIZE)
      BY <1>3, <3>1 DEF ReadRefusal
    <3>3. QED BY <1>2, <3>2
  <2>2. head \in Seq(Byte)
    <3>1. 80 \in Byte /\ FuncR \in Byte /\ 2 * n \in Byte
      BY <1>2, <2>1, ByteRange DEF ByteFacts, FuncR
    <3>2. QED BY <3>1
  <2>3. body \in Seq(Byte)
    <3>1. DeviceWords(reg, n) \in Seq(Word)
      BY <1>1, <1>2, DeviceWordsType
    <3>2. QED BY <3>1, BytesOfWords
  <2>4. Answer(reg, n) = bytes \o Crc16(bytes)
    BY <1>3 DEF Answer
  <2> HIDE DEF head, body
  <2>5. bytes \in Seq(Byte)
    BY <2>2, <2>3, ConcatProperties
  <2> HIDE DEF bytes
  <2>6. bytes \o Crc16(bytes) \in Seq(Byte)
    BY <2>5, Crc16Bytes, ConcatProperties
  <2>7. protocol \notin Can
    BY <1>3 DEF Modbus, Can
  <2>8. QED BY <2>4, <2>6, <2>7
<1>4. CASE protocol \notin Modbus
  <2>1. Answer(reg, n) = OutputFrame(REGVALUE, DeviceWords(reg, 4))
    BY <1>4 DEF Answer
  <2>2. DeviceWords(reg, 4) \in Seq(Word) /\ Len(DeviceWords(reg, 4)) = 4
    <3>1. 4 \in Nat /\ reg + 4 <= 256
      BY <1>1, <1>2
    <3>2. QED BY <3>1, DeviceWordsType
  <2>3. REGVALUE \in Byte
    BY ByteRange DEF ByteFacts, REGVALUE
  <2>4. QED BY <2>1, <2>2, <2>3, OutputFrameType
<1>5. QED BY <1>3, <1>4

-----------------------------------------------------------------------------
(* The stream: protocol, buffer, line and history are of their types.      *)

StreamOK ==
    /\ protocol \in AllProtocols
    /\ buff \in Seq(Byte)
    /\ seen \in Seq(Byte)
    /\ line \in IF protocol \in Can THEN Seq(Frame8) ELSE Seq(Byte)

\* What a scan leaves, and what it finds, are bytes that it was given.
LEMMA ScanLeaves ==
    ASSUME NEW w \in Seq(Byte), w # <<>>
    PROVE  /\ Scan(w).left \in Seq(Byte)
           /\ Scan(w).frame = <<>> \/ Scan(w).frame = w
<1>1. Tail(w) \in Seq(Byte) /\ <<>> \in Seq(Byte)
  BY HeadTailProperties, EmptySeq
<1>2. \/ Scan(w) = DropFirst(w) \/ Scan(w) = Found(w) \/ Scan(w) = Waiting(w)
      \/ Scan(w) = Waiting(<<>>)
  BY DEF Scan, ScanNormal, ScanModbus
<1>3. /\ DropFirst(w).left = Tail(w) /\ DropFirst(w).frame = <<>>
      /\ Found(w).left = <<>> /\ Found(w).frame = w
      /\ Waiting(w).left = w /\ Waiting(w).frame = <<>>
      /\ Waiting(<<>>).left = <<>> /\ Waiting(<<>>).frame = <<>>
  BY DEF DropFirst, Found, Waiting
<1>4. QED BY <1>1, <1>2, <1>3

\* A call leaves the stream alone or begins a new one.
LEMMA CallStream ==
    ASSUME Call
    PROVE  \/ UNCHANGED <<protocol, buff, seen, taken>>
           \/ protocol' \in AllProtocols /\ buff' = <<>> /\ seen' = <<>> /\ taken' = <<>>
<1>1. CASE \E reg \in {1, REGSIZE}, bus \in BusResults : WitWriteReg(reg, 0, bus)
  BY <1>1 DEF WitWriteReg, driver
<1>2. CASE \E s \in Settings, bus \in BusResults : WitSet(s[1], s[2], bus)
  <2>1. UNCHANGED <<driver, seen, taken>>
    BY <1>2 DEF WitSet
  <2>2. QED BY <2>1 DEF driver
<1>3. CASE \E cb \in Registered, null \in BOOLEAN : Register(cb, null)
  BY <1>3 DEF Register
<1>4. CASE \E p \in Protocols : WitInit(p)
  BY <1>4 DEF WitInit, Restarted
<1>5. CASE WitDeInit
  BY <1>5 DEF WitDeInit, Restarted, AllProtocols, Serial
<1>6. CASE \E iic, opened \in BOOLEAN : navi_jy901_init(iic, opened)
  BY <1>6 DEF navi_jy901_init, Restarted, driver, AllProtocols, Serial
<1>7. CASE \E r \in Reads, bus \in BusResults : WitReadReg(r[1], r[2], bus)
  BY <1>7 DEF WitReadReg
<1>8. QED BY <1>1, <1>2, <1>3, <1>4, <1>5, <1>6, <1>7 DEF Call

LEMMA CallLine ==
    ASSUME StreamOK, Call
    PROVE  line' \in IF protocol' \in Can THEN Seq(Frame8) ELSE Seq(Byte)
<1>1. CASE line' = line /\ protocol' = protocol
  BY <1>1 DEF StreamOK
<1>2. CASE KeepLine
  <2>1. line' = <<>> \/ (line' = line /\ protocol' = protocol)
    BY <1>2 DEF KeepLine
  <2>2. <<>> \in Seq(Frame8) /\ <<>> \in Seq(Byte)
    BY EmptySeq
  <2>3. QED BY <1>1, <2>1, <2>2
<1>3. ASSUME NEW r \in Reads, NEW bus \in BusResults,
             WitReadReg(r[1], r[2], bus),
             line' = IF call'.sent # <<>> THEN line \o Answer(r[1], r[2]) ELSE line
      PROVE  line' \in IF protocol' \in Can THEN Seq(Frame8) ELSE Seq(Byte)
  <2>1. protocol' = protocol
    BY <1>3 DEF WitReadReg
  <2>2. CASE call'.sent = <<>>
    BY <1>1, <1>3, <2>1, <2>2
  <2>3. CASE call'.sent # <<>>
    <3>1. call'.sent = IF ReadRefusal(r[1], r[2]) = "OK" /\ protocol # "I2C"
                       THEN <<[read |-> r[1], number |-> r[2]]>> ELSE <<>>
      BY <1>3 DEF WitReadReg, Returns
    <3>2. ReadRefusal(r[1], r[2]) = "OK" /\ protocol # "I2C"
      BY <2>3, <3>1
    <3>3. r[1] \in Nat /\ r[2] \in Nat
      BY SizeAssumption
    <3>4. Answer(r[1], r[2]) \in IF protocol \in Can THEN Seq(Frame8) ELSE Seq(Byte)
      BY <3>2, <3>3, AnswerType
    <3>5. line' = line \o Answer(r[1], r[2])
      BY <1>3, <2>3
    <3>6. CASE protocol \in Can
      BY <2>1, <3>4, <3>5, <3>6, ConcatProperties DEF StreamOK
    <3>7. CASE protocol \notin Can
      BY <2>1, <3>4, <3>5, <3>7, ConcatProperties DEF StreamOK
    <3>8. QED BY <3>6, <3>7
  <2>4. QED BY <2>2, <2>3
<1>4. CASE \E reg \in {1, REGSIZE}, bus \in BusResults : WitWriteReg(reg, 0, bus)
  <2>1. protocol' = protocol
    BY <1>4 DEF WitWriteReg, driver
  <2>2. QED BY <1>1, <1>2, <1>3, <2>1 DEF Call
<1>5. CASE \E s \in Settings, bus \in BusResults : WitSet(s[1], s[2], bus)
  <2>1. UNCHANGED driver
    BY <1>5 DEF WitSet
  <2>2. QED BY <1>1, <1>2, <1>3, <2>1 DEF Call, driver
<1>6. CASE \E cb \in Registered, null \in BOOLEAN : Register(cb, null)
  <2>1. protocol' = protocol
    BY <1>6 DEF Register
  <2>2. QED BY <1>1, <1>2, <1>3, <2>1 DEF Call
<1>7. QED BY <1>2, <1>3, <1>4, <1>5, <1>6 DEF Call

\* A byte that the line hands over goes to the scan, unless nobody listens.
LEMMA DeliverStream ==
    ASSUME StreamOK, Deliver
    PROVE  /\ protocol' = protocol /\ line # <<>> /\ line' = Tail(line)
           /\ \/ UNCHANGED <<buff, seen, taken>>
              \/ /\ protocol \notin Can
                 /\ \E b \in Byte :
                       LET scan == Scan(Append(buff, b))
                       IN  /\ buff' = scan.left
                           /\ seen' = Append(seen, b)
                           /\ taken' = IF scan.frame = <<>> THEN taken
                                       ELSE Append(taken, Len(seen) + 1)
<1>1. line # <<>> /\ line' = Tail(line)
  BY DEF Deliver
<1>2. CASE protocol \in Can
  <2>1. WitCanDataIn(Head(line))
    BY <1>2 DEF Deliver
  <2>2. QED BY <1>1, <2>1 DEF WitCanDataIn
<1>3. CASE protocol \notin Can
  <2>1. WitSerialDataIn(Head(line))
    BY <1>3 DEF Deliver
  <2>2. line \in Seq(Byte)
    BY <1>3 DEF StreamOK
  <2>3. Head(line) \in Byte
    BY <1>1, <2>2, HeadTailProperties
  <2>4. QED BY <1>1, <1>3, <2>1, <2>3 DEF WitSerialDataIn
<1>4. QED BY <1>2, <1>3

LEMMA NextStream == ASSUME StreamOK, [Next]_vars PROVE StreamOK'
<1>1. CASE Call
  <2>1. protocol' \in AllProtocols /\ buff' \in Seq(Byte) /\ seen' \in Seq(Byte)
    BY <1>1, CallStream, EmptySeq DEF StreamOK
  <2>2. QED BY <1>1, <2>1, CallLine DEF StreamOK
<1>2. CASE SendOutput
  <2>1. UNCHANGED <<protocol, buff, seen>>
    BY <1>2 DEF SendOutput, driver
  <2>2. CASE \E index \in Outputs : line' = OutputFrame(index, OutputWords(index))
    <3>1. PICK index \in Outputs : line' = OutputFrame(index, OutputWords(index))
      BY <2>2
    <3>2. index \in Byte
      BY SizeAssumption DEF Byte
    <3>3. OutputWords(index) \in Seq(Word) /\ Len(OutputWords(index)) = 4
      BY OutputWordsType
    <3>4. line' \in IF protocol \in Can THEN Seq(Frame8) ELSE Seq(Byte)
      BY <3>1, <3>2, <3>3, OutputFrameType
    <3>5. QED BY <2>1, <3>4 DEF StreamOK
  <2>3. CASE protocol = "905x_CAN" /\ \E k \in 1..3 : line' = AngleFrame(k)
    <3>1. line' \in Seq(Frame8)
      BY <2>3, AngleFrameType
    <3>2. protocol \in Can
      BY <2>3 DEF Can
    <3>3. QED BY <2>1, <3>1, <3>2 DEF StreamOK
  <2>4. QED BY <1>2, <2>2, <2>3 DEF SendOutput
<1>3. CASE Deliver
  <2>1. protocol' = protocol /\ line # <<>> /\ line' = Tail(line)
    BY <1>3, DeliverStream
  <2>2. line' \in IF protocol' \in Can THEN Seq(Frame8) ELSE Seq(Byte)
    BY <2>1, HeadTailProperties DEF StreamOK
  <2>3. buff' \in Seq(Byte) /\ seen' \in Seq(Byte)
    <3>1. CASE UNCHANGED <<buff, seen, taken>>
      BY <3>1 DEF StreamOK
    <3>2. ASSUME NEW b \in Byte, buff' = Scan(Append(buff, b)).left, seen' = Append(seen, b)
          PROVE  buff' \in Seq(Byte) /\ seen' \in Seq(Byte)
      <4>1. /\ Append(buff, b) \in Seq(Byte) /\ Append(buff, b) # <<>>
            /\ Append(seen, b) \in Seq(Byte)
        BY AppendProperties DEF StreamOK
      <4>2. QED BY <3>2, <4>1, ScanLeaves
    <3>3. QED BY <1>3, <3>1, <3>2, DeliverStream
  <2>4. QED BY <2>1, <2>2, <2>3 DEF StreamOK
<1>4. CASE Disturb
  <2>1. UNCHANGED <<protocol, buff, seen>> /\ protocol \notin Can /\ line # <<>>
    BY <1>4 DEF Disturb, driver
  <2>2. line \in Seq(Byte) /\ Tail(line) \in Seq(Byte)
    BY <2>1, HeadTailProperties DEF StreamOK
  <2>3. \A b \in Noise : b \in Byte
    BY SizeAssumption DEF Byte
  <2>4. \A b \in Noise : <<b>> \o Tail(line) \in Seq(Byte)
    <3>1. \A b \in Byte : <<b>> \in Seq(Byte)
      OBVIOUS
    <3>2. QED BY <2>2, <2>3, <3>1, ConcatProperties
  <2>5. line' \in Seq(Byte)
    BY <1>4, <2>2, <2>4 DEF Disturb
  <2>6. QED BY <2>1, <2>5 DEF StreamOK
<1>5. CASE UNCHANGED vars
  BY <1>5 DEF vars, driver, environment, StreamOK
<1>6. QED BY <1>1, <1>2, <1>3, <1>4, <1>5 DEF Next

LEMMA InitStream == ASSUME Init PROVE StreamOK
<1>1. <<>> \in Seq(Byte) /\ <<>> \in Seq(Frame8)
  BY EmptySeq
<1>2. QED BY <1>1 DEF Init, StreamOK, AllProtocols, Serial

-----------------------------------------------------------------------------
(* The serial protocols: each frame is found.                              *)

End(e) == IF e = <<>> THEN 0 ELSE Last(e)

LEMMA EndNat == ASSUME NEW e \in Seq(Nat) PROVE End(e) \in Nat
<1>1. CASE e = <<>>
  BY <1>1 DEF End
<1>2. CASE e # <<>>
  <2>1. Len(e) \in 1..Len(e)
    BY <1>2, EmptySeq, LenProperties
  <2>2. e[Len(e)] \in Nat
    BY <2>1, ElementOfSeq
  <2>3. QED BY <1>2, <2>2 DEF End, Last
<1>3. QED BY <1>1, <1>2

\* A piece of a stream is the same when the stream goes on.
LEMMA SamePiece ==
    ASSUME NEW w \in Seq(Byte), NEW b \in Byte, NEW lo \in Nat \ {0}, NEW hi \in Nat, hi <= Len(w)
    PROVE  SubSeq(Append(w, b), lo, hi) = SubSeq(w, lo, hi)
<1>1. Len(w) \in Nat /\ \A i \in 1..Len(w) : w[i] \in Byte /\ Append(w, b)[i] = w[i]
  BY LenProperties, ElementOfSeq, AppendProperties
<1>2. \A i \in lo..hi : i \in 1..Len(w)
  BY <1>1
<1>3. \A i \in lo..hi : w[i] \in Byte /\ Append(w, b)[i] = w[i]
  BY <1>1, <1>2
<1> DEFINE p == SubSeq(Append(w, b), lo, hi)
           q == SubSeq(w, lo, hi)
<1>4. /\ p \in Seq(Byte) /\ Len(p) = (IF lo <= hi THEN hi - lo + 1 ELSE 0)
      /\ \A i \in 1..(hi - lo + 1) : p[i] = Append(w, b)[lo + i - 1]
  <2>1. \A i \in lo..hi : Append(w, b)[i] \in Byte
    BY <1>3
  <2>2. lo \in Int /\ hi \in Int
    OBVIOUS
  <2>3. QED BY <2>1, <2>2, SubSeqProperties
<1>5. /\ q \in Seq(Byte) /\ Len(q) = (IF lo <= hi THEN hi - lo + 1 ELSE 0)
      /\ \A i \in 1..(hi - lo + 1) : q[i] = w[lo + i - 1]
  <2>1. \A i \in lo..hi : w[i] \in Byte
    BY <1>3
  <2>2. lo \in Int /\ hi \in Int
    OBVIOUS
  <2>3. QED BY <2>1, <2>2, SubSeqProperties
<1> HIDE DEF p, q
<1>6. \A i \in 1..Len(p) : p[i] = q[i]
  <2>1. ASSUME NEW i \in 1..Len(p) PROVE p[i] = q[i]
    <3>1. i \in 1..(hi - lo + 1) /\ lo + i - 1 \in lo..hi
      BY <1>4
    <3>2. QED BY <1>3, <1>4, <1>5, <3>1
  <2>2. QED BY <2>1
<1>7. p = q
  <2>1. Len(p) = Len(q)
    BY <1>4, <1>5
  <2>2. p = [i \in 1..Len(p) |-> p[i]] /\ q = [i \in 1..Len(q) |-> q[i]]
    BY <1>4, <1>5, LenProperties
  <2>3. QED BY <1>6, <2>1, <2>2
<1>8. QED BY <1>7 DEF p, q

\* The recursion of FrameEnds has a value.
LEMMA EndsUnfold ==
    ASSUME NEW w \in Seq(Byte)
    PROVE  \E r : /\ r \in [0..Len(w) -> Seq(Nat)] /\ r[0] = <<>>
                 /\ \A n \in 1..Len(w) : r[n] = (IF n - End(r[n - 1]) >= 11 /\ IsFrame(SubSeq(w, n - 10, n)) THEN Append(r[n - 1], n) ELSE r[n - 1])
                 /\ FrameEnds(w) = r[Len(w)]
<1> DEFINE Unfold(f) == [n \in 0..Len(w) |-> IF n = 0 THEN <<>> ELSE IF n - End(f[n - 1]) >= 11 /\ IsFrame(SubSeq(w, n - 10, n)) THEN Append(f[n - 1], n) ELSE f[n - 1]]
           r == CHOOSE f : f = Unfold(f)
           step == [n \in 1..Len(w) |-> [v \in Seq(Nat) |-> IF n - End(v) >= 11 /\ IsFrame(SubSeq(w, n - 10, n)) THEN Append(v, n) ELSE v]]
<1>1. /\ Len(w) \in Nat /\ <<>> \in Seq(Nat)
      /\ \A n \in 1..Len(w), v \in Seq(Nat) :
            (IF n - End(v) >= 11 /\ IsFrame(SubSeq(w, n - 10, n)) THEN Append(v, n) ELSE v) \in Seq(Nat)
  <2>1. \A n \in 1..Len(w), v \in Seq(Nat) : n \in Nat /\ Append(v, n) \in Seq(Nat)
    BY AppendProperties, LenProperties
  <2>2. QED BY <2>1, EmptySeq, LenProperties
<1>2. FrameEnds(w) = r[Len(w)]
  BY DEF FrameEnds, End
<1>3. r = Unfold(r)
  <2>1. step \in Steps(Len(w), Seq(Nat))
    BY <1>1 DEF Steps
  <2>2. PICK f : Follows(f, Len(w), Seq(Nat), <<>>, step)
    <3> HIDE DEF step
    <3>1. QED BY <1>1, <2>1, RecursionUpTo
  <2>3. ASSUME NEW n \in 0..Len(w)
        PROVE  f[n] = IF n = 0 THEN <<>> ELSE IF n - End(f[n - 1]) >= 11 /\ IsFrame(SubSeq(w, n - 10, n)) THEN Append(f[n - 1], n) ELSE f[n - 1]
    <3>1. CASE n = 0
      BY <2>2, <3>1 DEF Follows
    <3>2. CASE n # 0
      <4>a. n \in 1..Len(w) /\ n - 1 \in 0..Len(w)
        BY <1>1, <3>2
      <4>b. f \in [0..Len(w) -> Seq(Nat)]
        BY <2>2 DEF Follows
      <4>1. n \in 1..Len(w) /\ n - 1 \in 0..Len(w) /\ f[n - 1] \in Seq(Nat)
        BY <4>a, <4>b
      <4>2. f[n] = step[n][f[n - 1]]
        BY <2>2, <4>1 DEF Follows
      <4>3. QED BY <3>2, <4>1, <4>2
    <3>3. QED BY <3>1, <3>2
  <2>4. f = Unfold(f)
    BY <2>2, <2>3 DEF Follows
  <2> HIDE DEF Unfold
  <2>5. QED BY <2>4
<1> HIDE DEF r, step
<1>4. /\ r[0] = <<>>
      /\ \A n \in 1..Len(w) : r[n] = IF n - End(r[n - 1]) >= 11 /\ IsFrame(SubSeq(w, n - 10, n)) THEN Append(r[n - 1], n) ELSE r[n - 1]
  <2>1. \A n \in 0..Len(w) : Unfold(r)[n] = IF n = 0 THEN <<>> ELSE IF n - End(r[n - 1]) >= 11 /\ IsFrame(SubSeq(w, n - 10, n)) THEN Append(r[n - 1], n) ELSE r[n - 1]
    OBVIOUS
  <2> HIDE DEF Unfold
  <2>2. \A n \in 0..Len(w) : r[n] = IF n = 0 THEN <<>> ELSE IF n - End(r[n - 1]) >= 11 /\ IsFrame(SubSeq(w, n - 10, n)) THEN Append(r[n - 1], n) ELSE r[n - 1]
    BY <1>3, <2>1
  <2>3. 0 \in 0..Len(w) /\ \A n \in 1..Len(w) : n \in 0..Len(w) /\ n # 0
    BY <1>1
  <2>4. QED BY <2>2, <2>3
<1>5. r \in [0..Len(w) -> Seq(Nat)]
  <2> DEFINE S == {n \in 0..Len(w) : r[n] \in Seq(Nat)}
  <2>4. DOMAIN r = 0..Len(w) /\ r = [n \in 0..Len(w) |-> r[n]]
    <3>1. DOMAIN Unfold(r) = 0..Len(w) /\ Unfold(r) = [n \in 0..Len(w) |-> Unfold(r)[n]]
      OBVIOUS
    <3> HIDE DEF Unfold
    <3>2. QED BY <1>3, <3>1
  <2> HIDE DEF Unfold
  <2>1. 0 \in S
    <3>1. 0 \in 0..Len(w) /\ <<>> \in Seq(Nat)
      BY <1>1
    <3>2. QED BY <1>4, <3>1
  <2>2. ASSUME NEW n \in 0..Len(w), n \in S, n < Len(w) PROVE n + 1 \in S
    <3>1. PICK m \in 1..Len(w) : m = n + 1 /\ m - 1 = n /\ m \in 0..Len(w)
      BY <1>1, <2>2
    <3>2. r[m - 1] \in Seq(Nat)
      BY <2>2, <3>1
    <3>3. r[m] = (IF m - End(r[m - 1]) >= 11 /\ IsFrame(SubSeq(w, (m) - 10, m)) THEN Append(r[m - 1], m) ELSE r[m - 1])
      BY <1>4
    <3>4. r[m] \in Seq(Nat)
      BY <1>1, <3>2, <3>3
    <3>5. QED BY <3>1, <3>4
  <2>3. 0..Len(w) \subseteq S
    <3>1. Len(w) \in Nat
      BY <1>1
    <3> HIDE DEF S, Unfold
    <3>2. QED BY <2>1, <2>2, <3>1, InductionUpTo
  <2>5. QED BY <2>3, <2>4
<1>6. QED BY <1>2, <1>4, <1>5

\* One more byte may end a frame.
LEMMA EndsOfMore ==
    ASSUME NEW w \in Seq(Byte), NEW b \in Byte, NEW n, n = Len(w) + 1, NEW e, e = FrameEnds(w)
    PROVE  /\ e \in Seq(Nat)
           /\ FrameEnds(Append(w, b)) =
                  IF n - End(e) >= 11 /\ IsFrame(SubSeq(Append(w, b), n - 10, n))
                  THEN Append(e, n) ELSE e
<1> DEFINE v == Append(w, b)
           N == Len(w)
<1>1. v \in Seq(Byte) /\ Len(v) = N + 1 /\ N \in Nat
  BY AppendProperties, LenProperties
<1>2. PICK r : /\ r \in [0..N -> Seq(Nat)] /\ r[0] = <<>>
               /\ \A j \in 1..N : r[j] =
                     (IF j - End(r[j - 1]) >= 11 /\ IsFrame(SubSeq(w, j - 10, j))
                      THEN Append(r[j - 1], j) ELSE r[j - 1])
               /\ FrameEnds(w) = r[N]
  BY EndsUnfold
<1>3. PICK q : /\ q \in [0..(N + 1) -> Seq(Nat)] /\ q[0] = <<>>
               /\ \A j \in 1..(N + 1) : q[j] =
                     (IF j - End(q[j - 1]) >= 11 /\ IsFrame(SubSeq(v, j - 10, j))
                      THEN Append(q[j - 1], j) ELSE q[j - 1])
               /\ FrameEnds(v) = q[N + 1]
  <2> HIDE DEF v
  <2>1. \E q : /\ q \in [0..Len(v) -> Seq(Nat)] /\ q[0] = <<>>
               /\ \A j \in 1..Len(v) : q[j] =
                     (IF j - End(q[j - 1]) >= 11 /\ IsFrame(SubSeq(v, j - 10, j))
                      THEN Append(q[j - 1], j) ELSE q[j - 1])
               /\ FrameEnds(v) = q[Len(v)]
    BY <1>1, EndsUnfold
  <2>2. QED BY <1>1, <2>1
<1> HIDE DEF N
<1> DEFINE S == {j \in 0..N : q[j] = r[j]}
<1>4. 0 \in S
  BY <1>1, <1>2, <1>3
<1>5. ASSUME NEW i \in 0..N, i \in S, i < N PROVE i + 1 \in S
  <2> DEFINE m == i + 1
  <2>1. m \in 1..N /\ m \in 1..(N + 1) /\ m - 1 = i /\ m \in 0..N /\ m \in Nat
    BY <1>1, <1>5
  <2>2. PICK d : d = r[i] /\ d = q[i]
    BY <1>5
  <2>3. End(d) \in Nat
    BY <1>2, <2>2, EndNat
  <2> HIDE DEF m
  <2>4. m - End(d) >= 11 => SubSeq(v, m - 10, m) = SubSeq(w, m - 10, m)
    <3>1. ASSUME m - End(d) >= 11 PROVE m - 10 \in Nat \ {0} /\ m <= Len(w)
      BY <2>1, <2>3, <3>1 DEF N
    <3>2. QED BY <2>1, <3>1, SamePiece
  <2> HIDE DEF v
  <2>5. r[m] = (IF m - End(d) >= 11 /\ IsFrame(SubSeq(w, m - 10, m)) THEN Append(d, m) ELSE d)
    BY <1>2, <2>1, <2>2
  <2>6. q[m] = (IF m - End(d) >= 11 /\ IsFrame(SubSeq(v, m - 10, m)) THEN Append(d, m) ELSE d)
    BY <1>3, <2>1, <2>2
  <2>7. q[m] = r[m]
    <3>1. CASE m - End(d) >= 11
      <4>1. PICK p : p = SubSeq(v, m - 10, m) /\ p = SubSeq(w, m - 10, m)
        BY <2>4, <3>1
      <4>2. r[m] = (IF IsFrame(p) THEN Append(d, m) ELSE d)
        BY <2>5, <3>1, <4>1
      <4>3. q[m] = (IF IsFrame(p) THEN Append(d, m) ELSE d)
        BY <2>6, <3>1, <4>1
      <4>4. QED BY <4>2, <4>3
    <3>2. CASE ~(m - End(d) >= 11)
      BY <2>5, <2>6, <3>2
    <3>3. QED BY <3>1, <3>2
  <2>8. QED BY <2>1, <2>7 DEF m
<1>6. 0..N \subseteq S
  <2> HIDE DEF S
  <2>1. QED BY <1>1, <1>4, <1>5, InductionUpTo
<1>7. q[N] = FrameEnds(w) /\ FrameEnds(w) \in Seq(Nat)
  BY <1>1, <1>2, <1>6
<1> HIDE DEF v
<1>8. N + 1 \in 1..(N + 1) /\ (N + 1) - 1 = N
  BY <1>1
<1>9. FrameEnds(v) = (IF (N + 1) - End(q[N]) >= 11 /\ IsFrame(SubSeq(v, (N + 1) - 10, N + 1))
                      THEN Append(q[N], N + 1) ELSE q[N])
  BY <1>3, <1>8
<1>10. QED BY <1>7, <1>9 DEF v, N

\* Behind the last frame that was taken, the buffer holds the end of what was
\* handed over, and no byte before it can begin a frame that is still to end.
SerialInv ==
    protocol \in Serial =>
        /\ taken = FrameEnds(seen)
        /\ Len(buff) <= 10
        /\ End(taken) + Len(buff) <= Len(seen)
        /\ \A i \in 1..Len(buff) : buff[i] = seen[Len(seen) - Len(buff) + i]
        /\ \A p \in (End(taken) + 1)..(Len(seen) - Len(buff)) :
              seen[p] # HEADER \/ p + 10 <= Len(seen)

LEMMA ByteKeepsFrames ==
    ASSUME StreamOK, SerialInv, protocol \in Serial, NEW b \in Byte,
           LET scan == Scan(Append(buff, b))
           IN  /\ buff' = scan.left
               /\ seen' = Append(seen, b)
               /\ taken' = IF scan.frame = <<>> THEN taken ELSE Append(taken, Len(seen) + 1),
           protocol' = protocol
    PROVE  SerialInv'
<1> DEFINE v == Append(seen, b)
           w == Append(buff, b)
<1>n. PICK n \in Nat : n = Len(seen)
  BY LenProperties DEF StreamOK
<1>l. PICK l \in Nat : l = Len(buff)
  BY LenProperties DEF StreamOK
<1>e. PICK e \in Nat : e = End(taken)
  BY EndNat, EndsOfMore DEF StreamOK, SerialInv
<1>1. /\ v \in Seq(Byte) /\ Len(v) = n + 1 /\ \A i \in 1..n : v[i] = seen[i]
      /\ v[n + 1] = b
      /\ w \in Seq(Byte) /\ Len(w) = l + 1 /\ \A i \in 1..l : w[i] = buff[i]
      /\ w[l + 1] = b
  BY <1>n, <1>l, AppendProperties DEF StreamOK
<1>2. /\ e + l <= n /\ l <= 10
      /\ \A i \in 1..l : buff[i] = seen[n - l + i]
      /\ \A p \in (e + 1)..(n - l) : seen[p] # HEADER \/ p + 10 <= n
      /\ taken = FrameEnds(seen)
  BY <1>n, <1>l, <1>e DEF SerialInv
<1>3. /\ taken \in Seq(Nat)
      /\ FrameEnds(v) = IF (n + 1) - e >= 11 /\ IsFrame(SubSeq(v, (n + 1) - 10, n + 1))
                        THEN Append(taken, n + 1) ELSE taken
  BY <1>n, <1>e, <1>2, EndsOfMore DEF StreamOK
<1> DEFINE scan == ScanNormal(w)
<1>4. /\ buff' = scan.left /\ seen' = v
      /\ taken' = IF scan.frame = <<>> THEN taken ELSE Append(taken, n + 1)
  <2>1. Scan(w) = ScanNormal(w)
    <3>1. protocol \notin Modbus
      BY DEF Serial, Modbus
    <3> HIDE DEF w
    <3>2. QED BY <3>1 DEF Scan
  <2>2. /\ buff' = Scan(w).left /\ seen' = v
        /\ taken' = IF Scan(w).frame = <<>> THEN taken ELSE Append(taken, Len(seen) + 1)
    OBVIOUS
  <2> HIDE DEF w, v
  <2>3. QED BY <1>n, <2>1, <2>2
\* The bytes of the buffer are those of the stream.
<1>5. \A i \in 1..(l + 1) : w[i] = v[n - l + i]
  <2>1. ASSUME NEW i \in 1..(l + 1) PROVE w[i] = v[n - l + i]
    <3>1. CASE i = l + 1
      <4>1. n - l + i = n + 1
        BY <3>1
      <4>2. QED BY <1>1, <3>1, <4>1
    <3>2. CASE i # l + 1
      <4>1. i \in 1..l /\ n - l + i \in 1..n
        BY <1>2, <3>2
      <4>2. QED BY <1>1, <1>2, <4>1
    <3>3. QED BY <3>1, <3>2
  <2>2. QED BY <2>1
<1> HIDE DEF v, w
<1> DEFINE f == SubSeq(v, (n + 1) - 10, n + 1)
<1>6. n + 1 >= 11 => /\ f \in Seq(Byte) /\ Len(f) = 11
                     /\ \A i \in 1..11 : f[i] = v[n - 10 + i]
  <2> SUFFICES ASSUME n + 1 >= 11
               PROVE  /\ f \in Seq(Byte) /\ Len(f) = 11
                      /\ \A i \in 1..11 : f[i] = v[n - 10 + i]
    OBVIOUS
  <2> DEFINE lo == (n + 1) - 10
             hi == n + 1
  <2>1. lo \in Int /\ hi \in Int /\ \A i \in lo..hi : i \in 1..Len(v)
    BY <1>1
  <2>2. \A i \in lo..hi : v[i] \in Byte
    BY <1>1, <2>1, ElementOfSeq
  <2>3. lo <= hi /\ hi - lo + 1 = 11 /\ \A i \in 1..11 : lo + i - 1 = n - 10 + i
    OBVIOUS
  <2> HIDE DEF lo, hi
  <2>4. /\ SubSeq(v, lo, hi) \in Seq(Byte)
        /\ Len(SubSeq(v, lo, hi)) = (IF lo <= hi THEN hi - lo + 1 ELSE 0)
        /\ \A i \in 1..(hi - lo + 1) : SubSeq(v, lo, hi)[i] = v[lo + i - 1]
    BY <2>1, <2>2, SubSeqProperties
  <2>5. f = SubSeq(v, lo, hi)
    BY DEF lo, hi
  <2> HIDE DEF f
  <2>6. QED BY <2>3, <2>4, <2>5
<1> HIDE DEF f
\* If the buffer is full, it is the last eleven bytes of the stream.
<1>7. l = 10 => n + 1 >= 11 /\ f = w
  <2> SUFFICES ASSUME l = 10 PROVE n + 1 >= 11 /\ f = w
    OBVIOUS
  <2>1. n + 1 >= 11
    BY <1>2
  <2>2. ASSUME NEW i \in 1..11 PROVE f[i] = w[i]
    <3>1. i \in 1..(l + 1) /\ n - l + i = n - 10 + i
      OBVIOUS
    <3>2. QED BY <1>5, <1>6, <2>1, <3>1
  <2>3. f = [i \in 1..11 |-> f[i]] /\ w = [i \in 1..11 |-> w[i]]
    BY <1>1, <1>6, <2>1, LenProperties
  <2>4. QED BY <2>1, <2>2, <2>3
\* A frame that ends with this byte is what the buffer holds.
<1>8. ASSUME (n + 1) - e >= 11, IsFrame(f) PROVE l = 10
  <2>1. n + 1 >= 11 /\ n - 9 \in 1..n /\ n - 9 >= e + 1
    BY <1>8
  <2>2. f[1] = HEADER /\ f[1] = v[n - 9]
    <3>1. 1 \in 1..11 /\ n - 10 + 1 = n - 9
      OBVIOUS
    <3>2. QED BY <1>6, <1>8, <2>1, <3>1 DEF IsFrame
  <2>3. seen[n - 9] = HEADER
    BY <1>1, <2>1, <2>2
  <2>4. ~(n - 9 <= n - l)
    <3>1. n - 9 <= n - l => n - 9 \in (e + 1)..(n - l)
      BY <2>1
    <3>2. ~((n - 9) + 10 <= n)
      OBVIOUS
    <3>3. QED BY <1>2, <2>3, <3>1, <3>2
  <2>5. QED BY <1>2, <2>4
<1>9. FrameEnds(v) = IF (n + 1) - e >= 11 /\ IsFrame(f) THEN Append(taken, n + 1) ELSE taken
  BY <1>3 DEF f
<1>10. w # <<>>
  BY <1>1, EmptySeq
<1>11. SerialInv' <=>
          /\ taken' = FrameEnds(v)
          /\ Len(buff') <= 10
          /\ End(taken') + Len(buff') <= n + 1
          /\ \A i \in 1..Len(buff') : buff'[i] = v[(n + 1) - Len(buff') + i]
          /\ \A p \in (End(taken') + 1)..((n + 1) - Len(buff')) :
                v[p] # HEADER \/ p + 10 <= n + 1
  BY <1>1, <1>4 DEF SerialInv
\* The three ways a scan can end.
<1>12. CASE w[1] = HEADER /\ Len(w) >= 11 /\ CaliSum(SubSeq(w, 1, 10)) = w[11]
  <2>1. scan = Found(w)
    BY <1>12 DEF ScanNormal
  <2>2. scan.left = <<>> /\ scan.frame = w
    BY <2>1 DEF Found
  <2>3. l = 10
    BY <1>1, <1>2, <1>12
  <2>4. IsFrame(f) /\ (n + 1) - e >= 11
    BY <1>2, <1>7, <1>12, <2>3 DEF IsFrame
  <2> HIDE DEF scan
  <2>5. buff' = <<>> /\ taken' = Append(taken, n + 1) /\ FrameEnds(v) = Append(taken, n + 1)
    BY <1>4, <1>9, <1>10, <2>2, <2>4
  <2>6. End(Append(taken, n + 1)) = n + 1
    <3>1. /\ Len(Append(taken, n + 1)) = Len(taken) + 1 /\ Append(taken, n + 1) # <<>>
          /\ Append(taken, n + 1)[Len(taken) + 1] = n + 1
      BY <1>3, AppendProperties
    <3>2. QED BY <3>1 DEF End, Last
  <2>7. Len(buff') = 0 /\ End(taken') = n + 1
    BY <2>5, <2>6, EmptySeq
  <2>8. \A p : p \notin ((n + 1) + 1)..((n + 1) - 0)
    OBVIOUS
  <2>9. \A i : i \notin 1..0
    OBVIOUS
  <2>10. QED BY <1>11, <2>5, <2>7, <2>8, <2>9
<1>13. CASE w[1] # HEADER \/ (Len(w) >= 11 /\ CaliSum(SubSeq(w, 1, 10)) # w[11])
  <2>1. scan = DropFirst(w)
    BY <1>13 DEF ScanNormal
  <2>2. scan.left = Tail(w) /\ scan.frame = <<>>
    BY <2>1 DEF DropFirst
  <2>3. ~((n + 1) - e >= 11 /\ IsFrame(f))
    <3>1. SUFFICES ASSUME (n + 1) - e >= 11, IsFrame(f) PROVE FALSE
      OBVIOUS
    <3>2. l = 10 /\ f = w
      BY <1>7, <1>8, <3>1
    <3>3. IsFrame(w)
      BY <3>1, <3>2
    <3>4. QED BY <1>13, <3>3 DEF IsFrame
  <2> HIDE DEF scan
  <2>4. buff' = Tail(w) /\ taken' = taken /\ FrameEnds(v) = taken
    BY <1>4, <1>9, <2>2, <2>3
  <2>5. Len(buff') = l /\ \A i \in 1..l : buff'[i] = w[i + 1]
    BY <1>1, <1>10, <2>4, HeadTailProperties
  <2>6. \A i \in 1..l : buff'[i] = v[(n + 1) - l + i]
    <3>1. \A i \in 1..l : i + 1 \in 1..(l + 1) /\ n - l + (i + 1) = (n + 1) - l + i
      OBVIOUS
    <3>2. QED BY <1>5, <2>5, <3>1
  <2>7. ASSUME NEW p \in (e + 1)..((n + 1) - l) PROVE v[p] # HEADER \/ p + 10 <= n + 1
    <3>1. CASE p \in (e + 1)..(n - l)
      <4>1. p \in 1..n
        BY <3>1
      <4>2. QED BY <1>1, <1>2, <3>1, <4>1
    <3>2. CASE p = (n + 1) - l
      <4>1. w[1] = v[p]
        <5>1. 1 \in 1..(l + 1) /\ n - l + 1 = p
          BY <3>2
        <5>2. QED BY <1>5, <5>1
      <4>2. Len(w) >= 11 => p + 10 <= n + 1
        BY <1>1, <1>2, <3>2
      <4>3. QED BY <1>13, <4>1, <4>2
    <3>3. p \in (e + 1)..(n - l) \/ p = (n + 1) - l
      OBVIOUS
    <3>4. QED BY <3>1, <3>2, <3>3
  <2>8. e + l <= n + 1
    BY <1>2
  <2>9. QED BY <1>e, <1>2, <1>11, <2>4, <2>5, <2>6, <2>7, <2>8
<1>14. CASE w[1] = HEADER /\ ~(Len(w) >= 11)
  <2>0. l < 10
    BY <1>1, <1>14
  <2>1. scan = Waiting(w)
    <3>1. Len(w) # WIT_DATA_BUFF_SIZE
      BY <1>1, <1>14, SizeAssumption
    <3>2. QED BY <1>14, <3>1 DEF ScanNormal
  <2>2. scan.left = w /\ scan.frame = <<>>
    BY <2>1 DEF Waiting
  <2>3. ~((n + 1) - e >= 11 /\ IsFrame(f))
    BY <1>8, <2>0
  <2> HIDE DEF scan
  <2>4. buff' = w /\ taken' = taken /\ FrameEnds(v) = taken
    BY <1>4, <1>9, <2>2, <2>3
  <2>5. \A i \in 1..(l + 1) : buff'[i] = v[(n + 1) - (l + 1) + i]
    <3>1. \A i \in 1..(l + 1) : (n + 1) - (l + 1) + i = n - l + i
      OBVIOUS
    <3>2. QED BY <1>5, <2>4, <3>1
  <2>6. ASSUME NEW p \in (e + 1)..((n + 1) - (l + 1)) PROVE v[p] # HEADER \/ p + 10 <= n + 1
    <3>1. p \in 1..n /\ p \in (e + 1)..(n - l)
      OBVIOUS
    <3>2. QED BY <1>1, <1>2, <3>1
  <2>7. e + (l + 1) <= n + 1 /\ l + 1 <= 10
    BY <1>2, <2>0
  <2>8. QED BY <1>e, <1>1, <1>11, <2>4, <2>5, <2>6, <2>7
<1>15. QED BY <1>12, <1>13, <1>14

LEMMA NoEnds == FrameEnds(<<>>) = <<>> /\ Len(<<>>) = 0 /\ End(<<>>) = 0
<1>1. PICK w \in Seq(Byte) : w = <<>> /\ Len(w) = 0
  BY EmptySeq
<1>2. PICK r : /\ r \in [0..Len(w) -> Seq(Nat)] /\ r[0] = <<>>
               /\ \A n \in 1..Len(w) : r[n] =
                     (IF n - End(r[n - 1]) >= 11 /\ IsFrame(SubSeq(w, n - 10, n))
                      THEN Append(r[n - 1], n) ELSE r[n - 1])
               /\ FrameEnds(w) = r[Len(w)]
  BY EndsUnfold
<1>3. FrameEnds(w) = <<>>
  BY <1>1, <1>2
<1>4. QED BY <1>1, <1>3 DEF End

LEMMA NextFrames == ASSUME StreamOK, SerialInv, [Next]_vars PROVE SerialInv'
<1>1. ASSUME UNCHANGED <<protocol, buff, seen, taken>> PROVE SerialInv'
  BY <1>1 DEF SerialInv
<1>2. ASSUME buff' = <<>>, seen' = <<>>, taken' = <<>> PROVE SerialInv'
  <2>1. taken' = FrameEnds(seen') /\ Len(buff') = 0 /\ Len(seen') = 0 /\ End(taken') = 0
    BY <1>2, NoEnds
  <2>2. \A p : p \notin (0 + 1)..(0 - 0) /\ p \notin 1..0
    OBVIOUS
  <2>3. QED BY <2>1, <2>2 DEF SerialInv
<1>3. CASE Call
  BY <1>1, <1>2, <1>3, CallStream
<1>4. CASE SendOutput \/ Disturb \/ UNCHANGED vars
  BY <1>1, <1>4 DEF SendOutput, Disturb, vars, driver
<1>5. CASE Deliver
  <2>1. CASE protocol \notin Serial
    BY <1>5, <2>1, DeliverStream DEF SerialInv
  <2>2. CASE protocol \in Serial
    BY <1>1, <1>5, <2>2, DeliverStream, ByteKeepsFrames
  <2>3. QED BY <2>1, <2>2
<1>6. QED BY <1>3, <1>4, <1>5 DEF Next

\* WitSerialDataIn, 3rd/wit_c_sdk/wit_c_sdk.c: whatever was lost or changed
\* before, every intact frame that overlaps none that was taken is taken, with
\* its last byte, and nothing else is.
THEOREM EveryFrameFound == Spec => []FramesFound
<1>1. Init => StreamOK /\ SerialInv
  <2>1. ASSUME Init PROVE SerialInv
    <3>1. taken = FrameEnds(seen) /\ Len(buff) = 0 /\ Len(seen) = 0 /\ End(taken) = 0
      BY <2>1, NoEnds DEF Init
    <3>2. \A p : p \notin (0 + 1)..(0 - 0) /\ p \notin 1..0
      OBVIOUS
    <3>3. QED BY <3>1, <3>2 DEF SerialInv
  <2>2. QED BY <2>1, InitStream
<1>2. StreamOK /\ SerialInv /\ [Next]_vars => StreamOK' /\ SerialInv'
  BY NextStream, NextFrames
<1>3. SerialInv => FramesFound
  BY DEF SerialInv, FramesFound
<1>4. QED BY <1>1, <1>2, <1>3, PTL DEF Spec

-----------------------------------------------------------------------------
(* MODBUS: each answer of a stream of whole answers is taken.              *)

\* The beginning of an answer, as far as the scan looks at it.
Incomplete(p) == Len(p) <= 2 \/ (p[2] = FuncR /\ Len(p) < p[3] + 5)

LEMMA IncompleteBefore ==
    ASSUME NEW p \in Seq(Byte), NEW x \in Byte
    PROVE  Incomplete(Append(p, x)) \/ IsAnswer(Append(p, x)) => Incomplete(p)
<1> DEFINE q == Append(p, x)
<1>1. Len(p) \in Nat /\ Len(q) = Len(p) + 1 /\ \A i \in 1..Len(p) : q[i] = p[i] /\ p[i] \in Nat
  <2>1. Len(p) \in Nat /\ Len(q) = Len(p) + 1 /\ \A i \in 1..Len(p) : q[i] = p[i]
    BY AppendProperties, LenProperties
  <2>2. \A i \in 1..Len(p) : p[i] \in Byte
    BY ElementOfSeq
  <2>3. \A v \in Byte : v \in Nat
    BY ByteRange
  <2> HIDE DEF q
  <2>4. QED BY <2>1, <2>2, <2>3
<1> HIDE DEF q
<1>2. SUFFICES ASSUME Incomplete(q) \/ IsAnswer(q) PROVE Incomplete(p)
  BY DEF q
<1>3. CASE Len(p) <= 2
  BY <1>3 DEF Incomplete
<1>4. CASE ~(Len(p) <= 2)
  <2>1. 2 \in 1..Len(p) /\ 3 \in 1..Len(p) /\ ~(Len(q) <= 2)
    BY <1>1, <1>4
  <2>2. q[2] = p[2] /\ q[3] = p[3] /\ p[3] \in Nat
    BY <1>1, <2>1
  <2>3. CASE Incomplete(q)
    <3>1. q[2] = FuncR /\ Len(q) < q[3] + 5
      BY <2>1, <2>3 DEF Incomplete
    <3>2. QED BY <1>1, <2>2, <3>1 DEF Incomplete
  <2>4. CASE IsAnswer(q)
    <3>1. q[2] = FuncR /\ Len(q) = q[3] + 5
      BY <2>4 DEF IsAnswer
    <3>2. QED BY <1>1, <2>2, <3>1 DEF Incomplete
  <2>5. QED BY <1>2, <2>3, <2>4
<1>5. QED BY <1>3, <1>4

\* What the scan does with an answer and with the beginning of one.
LEMMA ScanOfAnswer ==
    ASSUME NEW w \in Seq(Byte)
    PROVE  /\ Incomplete(w) => ScanModbus(w).left = w
           /\ IsAnswer(w) => ScanModbus(w).left = <<>>
<1>1. Len(w) \in Nat /\ \A i \in 1..Len(w) : w[i] \in Nat
  BY LenProperties, ElementOfSeq, ByteRange
<1>2. Waiting(w).left = w /\ Found(w).left = <<>>
  BY DEF Waiting, Found
<1>3. CASE Len(w) <= 2
  <2>1. ScanModbus(w) = Waiting(w)
    BY <1>1, <1>3 DEF ScanModbus
  <2>2. ~IsAnswer(w)
    BY <1>1, <1>3 DEF IsAnswer
  <2>3. QED BY <1>2, <2>1, <2>2
<1>4. CASE ~(Len(w) <= 2)
  <2>1. w[3] \in Nat
    <3>1. 3 \in 1..Len(w)
      BY <1>1, <1>4
    <3>2. QED BY <1>1, <3>1
  <2>2. ASSUME Incomplete(w) PROVE ScanModbus(w) = Waiting(w)
    <3>1. w[2] = FuncR /\ Len(w) < w[3] + 5
      BY <1>4, <2>2 DEF Incomplete
    <3>2. ~(Len(w) >= w[3] + 5)
      BY <1>1, <2>1, <3>1
    <3>3. QED BY <1>4, <3>1, <3>2 DEF ScanModbus
  <2>3. ASSUME IsAnswer(w) PROVE ScanModbus(w) = Found(w)
    <3>1. /\ w[2] = FuncR /\ Len(w) = w[3] + 5
          /\ Crc16(SubSeq(w, 1, Len(w) - 2)) = SubSeq(w, Len(w) - 1, Len(w))
      BY <2>3 DEF IsAnswer
    <3>2. Len(w) >= w[3] + 5
      BY <1>1, <2>1, <3>1
    <3>3. QED BY <1>4, <3>1, <3>2 DEF ScanModbus
  <2>4. QED BY <1>2, <2>2, <2>3
<1>5. QED BY <1>3, <1>4

\* The recursion of Boundaries has a value.
LEMMA BoundsUnfold ==
    ASSUME NEW w \in Seq(Byte)
    PROVE  \E r : /\ r \in [0..Len(w) -> SUBSET Nat] /\ r[0] = {0}
                 /\ \A n \in 1..Len(w) : r[n] = (IF \E b \in r[n - 1] : IsAnswer(SubSeq(w, b + 1, n)) THEN r[n - 1] \cup {n} ELSE r[n - 1])
                 /\ Boundaries(w) = r[Len(w)]
<1> DEFINE Unfold(f) == [n \in 0..Len(w) |-> IF n = 0 THEN {0} ELSE IF \E b \in f[n - 1] : IsAnswer(SubSeq(w, b + 1, n)) THEN f[n - 1] \cup {n} ELSE f[n - 1]]
           r == CHOOSE f : f = Unfold(f)
           step == [n \in 1..Len(w) |-> [v \in SUBSET Nat |-> IF \E b \in v : IsAnswer(SubSeq(w, b + 1, n)) THEN v \cup {n} ELSE v]]
<1>1. /\ Len(w) \in Nat /\ {0} \in SUBSET Nat
      /\ \A n \in 1..Len(w), v \in SUBSET Nat :
            (IF \E b \in v : IsAnswer(SubSeq(w, b + 1, n)) THEN v \cup {n} ELSE v) \in SUBSET Nat
  <2>1. \A n \in 1..Len(w), v \in SUBSET Nat : v \cup {n} \in SUBSET Nat
    BY LenProperties
  <2>2. QED BY <2>1, LenProperties
<1>2. Boundaries(w) = r[Len(w)]
  BY DEF Boundaries
<1>3. r = Unfold(r)
  <2>1. step \in Steps(Len(w), SUBSET Nat)
    BY <1>1 DEF Steps
  <2>2. PICK f : Follows(f, Len(w), SUBSET Nat, {0}, step)
    <3> HIDE DEF step
    <3>1. QED BY <1>1, <2>1, RecursionUpTo
  <2>3. ASSUME NEW n \in 0..Len(w)
        PROVE  f[n] = IF n = 0 THEN {0} ELSE IF \E b \in f[n - 1] : IsAnswer(SubSeq(w, b + 1, n)) THEN f[n - 1] \cup {n} ELSE f[n - 1]
    <3>1. CASE n = 0
      BY <2>2, <3>1 DEF Follows
    <3>2. CASE n # 0
      <4>a. n \in 1..Len(w) /\ n - 1 \in 0..Len(w)
        BY <1>1, <3>2
      <4>b. f \in [0..Len(w) -> SUBSET Nat]
        BY <2>2 DEF Follows
      <4>1. n \in 1..Len(w) /\ n - 1 \in 0..Len(w) /\ f[n - 1] \in SUBSET Nat
        BY <4>a, <4>b
      <4>2. f[n] = step[n][f[n - 1]]
        BY <2>2, <4>1 DEF Follows
      <4>3. QED BY <3>2, <4>1, <4>2
    <3>3. QED BY <3>1, <3>2
  <2>4. f = Unfold(f)
    BY <2>2, <2>3 DEF Follows
  <2> HIDE DEF Unfold
  <2>5. QED BY <2>4
<1> HIDE DEF r, step
<1>4. /\ r[0] = {0}
      /\ \A n \in 1..Len(w) : r[n] = IF \E b \in r[n - 1] : IsAnswer(SubSeq(w, b + 1, n)) THEN r[n - 1] \cup {n} ELSE r[n - 1]
  <2>1. \A n \in 0..Len(w) : Unfold(r)[n] = IF n = 0 THEN {0} ELSE IF \E b \in r[n - 1] : IsAnswer(SubSeq(w, b + 1, n)) THEN r[n - 1] \cup {n} ELSE r[n - 1]
    OBVIOUS
  <2> HIDE DEF Unfold
  <2>2. \A n \in 0..Len(w) : r[n] = IF n = 0 THEN {0} ELSE IF \E b \in r[n - 1] : IsAnswer(SubSeq(w, b + 1, n)) THEN r[n - 1] \cup {n} ELSE r[n - 1]
    BY <1>3, <2>1
  <2>3. 0 \in 0..Len(w) /\ \A n \in 1..Len(w) : n \in 0..Len(w) /\ n # 0
    BY <1>1
  <2>4. QED BY <2>2, <2>3
<1>5. r \in [0..Len(w) -> SUBSET Nat]
  <2> DEFINE S == {n \in 0..Len(w) : r[n] \in SUBSET Nat}
  <2>4. DOMAIN r = 0..Len(w) /\ r = [n \in 0..Len(w) |-> r[n]]
    <3>1. DOMAIN Unfold(r) = 0..Len(w) /\ Unfold(r) = [n \in 0..Len(w) |-> Unfold(r)[n]]
      OBVIOUS
    <3> HIDE DEF Unfold
    <3>2. QED BY <1>3, <3>1
  <2> HIDE DEF Unfold
  <2>1. 0 \in S
    <3>1. 0 \in 0..Len(w) /\ {0} \in SUBSET Nat
      BY <1>1
    <3>2. QED BY <1>4, <3>1
  <2>2. ASSUME NEW n \in 0..Len(w), n \in S, n < Len(w) PROVE n + 1 \in S
    <3>1. PICK m \in 1..Len(w) : m = n + 1 /\ m - 1 = n /\ m \in 0..Len(w)
      BY <1>1, <2>2
    <3>2. r[m - 1] \in SUBSET Nat
      BY <2>2, <3>1
    <3>3. r[m] = (IF \E b \in r[m - 1] : IsAnswer(SubSeq(w, b + 1, m)) THEN r[m - 1] \cup {m} ELSE r[m - 1])
      BY <1>4
    <3>4. r[m] \in SUBSET Nat
      BY <1>1, <3>2, <3>3
    <3>5. QED BY <3>1, <3>4
  <2>3. 0..Len(w) \subseteq S
    <3>1. Len(w) \in Nat
      BY <1>1
    <3> HIDE DEF S, Unfold
    <3>2. QED BY <2>1, <2>2, <3>1, InductionUpTo
  <2>5. QED BY <2>3, <2>4
<1>6. QED BY <1>2, <1>4, <1>5

\* One more byte may end an answer.
LEMMA BoundsOfMore ==
    ASSUME NEW w \in Seq(Byte), NEW x \in Byte, NEW n, n = Len(w) + 1, NEW B, B = Boundaries(w)
    PROVE  /\ B \in SUBSET Nat
           /\ Boundaries(Append(w, x)) =
                  IF \E m \in B : IsAnswer(SubSeq(Append(w, x), m + 1, n)) THEN B \cup {n} ELSE B
<1> DEFINE v == Append(w, x)
           N == Len(w)
<1>1. v \in Seq(Byte) /\ Len(v) = N + 1 /\ N \in Nat
  BY AppendProperties, LenProperties
<1>2. PICK r : /\ r \in [0..N -> SUBSET Nat] /\ r[0] = {0}
               /\ \A j \in 1..N : r[j] =
                     (IF \E b \in r[j - 1] : IsAnswer(SubSeq(w, b + 1, j))
                      THEN r[j - 1] \cup {j} ELSE r[j - 1])
               /\ Boundaries(w) = r[N]
  BY BoundsUnfold
<1>3. PICK q : /\ q \in [0..(N + 1) -> SUBSET Nat] /\ q[0] = {0}
               /\ \A j \in 1..(N + 1) : q[j] =
                     (IF \E b \in q[j - 1] : IsAnswer(SubSeq(v, b + 1, j))
                      THEN q[j - 1] \cup {j} ELSE q[j - 1])
               /\ Boundaries(v) = q[N + 1]
  <2> HIDE DEF v
  <2>1. \E q : /\ q \in [0..Len(v) -> SUBSET Nat] /\ q[0] = {0}
               /\ \A j \in 1..Len(v) : q[j] =
                     (IF \E b \in q[j - 1] : IsAnswer(SubSeq(v, b + 1, j))
                      THEN q[j - 1] \cup {j} ELSE q[j - 1])
               /\ Boundaries(v) = q[Len(v)]
    BY <1>1, BoundsUnfold
  <2>2. QED BY <1>1, <2>1
<1> HIDE DEF N
<1> DEFINE S == {j \in 0..N : q[j] = r[j]}
<1>4. 0 \in S
  BY <1>1, <1>2, <1>3
<1>5. ASSUME NEW i \in 0..N, i \in S, i < N PROVE i + 1 \in S
  <2> DEFINE m == i + 1
  <2>1. m \in 1..N /\ m \in 1..(N + 1) /\ m - 1 = i /\ m \in 0..N /\ m \in Nat /\ m <= Len(w)
    BY <1>1, <1>5 DEF N
  <2>2. PICK d : d = r[i] /\ d = q[i]
    BY <1>5
  <2>3. d \in SUBSET Nat
    BY <1>2, <2>2
  <2> HIDE DEF m
  <2>4. \A b \in d : SubSeq(v, b + 1, m) = SubSeq(w, b + 1, m)
    <3>1. \A b \in d : b + 1 \in Nat \ {0}
      BY <2>3
    <3>2. QED BY <2>1, <3>1, SamePiece
  <2> HIDE DEF v
  <2>5. r[m] = (IF \E b \in d : IsAnswer(SubSeq(w, b + 1, m)) THEN d \cup {m} ELSE d)
    BY <1>2, <2>1, <2>2
  <2>6. q[m] = (IF \E b \in d : IsAnswer(SubSeq(v, b + 1, m)) THEN d \cup {m} ELSE d)
    BY <1>3, <2>1, <2>2
  <2>7. (\E b \in d : IsAnswer(SubSeq(v, b + 1, m))) <=> (\E b \in d : IsAnswer(SubSeq(w, b + 1, m)))
    BY <2>4
  <2>8. q[m] = r[m]
    BY <2>5, <2>6, <2>7
  <2>9. QED BY <2>1, <2>8 DEF m
<1>6. 0..N \subseteq S
  <2> HIDE DEF S
  <2>1. QED BY <1>1, <1>4, <1>5, InductionUpTo
<1>7. q[N] = Boundaries(w) /\ Boundaries(w) \in SUBSET Nat
  BY <1>1, <1>2, <1>6
<1> HIDE DEF v
<1>8. N + 1 \in 1..(N + 1) /\ (N + 1) - 1 = N
  BY <1>1
<1>9. Boundaries(v) = (IF \E b \in q[N] : IsAnswer(SubSeq(v, b + 1, N + 1))
                       THEN q[N] \cup {N + 1} ELSE q[N])
  BY <1>3, <1>8
<1>10. QED BY <1>7, <1>9 DEF v, N

\* A piece up to the end of the stream grows with it.
LEMMA PieceGrows ==
    ASSUME NEW s \in Seq(Byte), NEW x \in Byte, NEW n \in Nat, n = Len(s), NEW b \in Nat, b <= n
    PROVE  /\ SubSeq(s, b + 1, n) \in Seq(Byte)
           /\ SubSeq(Append(s, x), b + 1, n + 1) = Append(SubSeq(s, b + 1, n), x)
<1> DEFINE v == Append(s, x)
           p == SubSeq(s, b + 1, n)
           q == SubSeq(v, b + 1, n + 1)
<1>1. /\ v \in Seq(Byte) /\ Len(v) = n + 1 /\ \A i \in 1..n : v[i] = s[i] /\ s[i] \in Byte
      /\ v[n + 1] = x
  BY AppendProperties, ElementOfSeq
<1> HIDE DEF v
<1>2. /\ p \in Seq(Byte) /\ Len(p) = n - b /\ \A i \in 1..(n - b) : p[i] = s[b + i]
  <2>1. \A i \in (b + 1)..n : i \in 1..n
    OBVIOUS
  <2>2. \A i \in (b + 1)..n : s[i] \in Byte
    BY <1>1, <2>1
  <2>3. b + 1 \in Int /\ n \in Int
    OBVIOUS
  <2>4. /\ p \in Seq(Byte) /\ Len(p) = (IF b + 1 <= n THEN n - (b + 1) + 1 ELSE 0)
        /\ \A i \in 1..(n - (b + 1) + 1) : p[i] = s[(b + 1) + i - 1]
    BY <2>2, <2>3, SubSeqProperties
  <2>5. n - (b + 1) + 1 = n - b /\ \A i \in 1..(n - b) : (b + 1) + i - 1 = b + i
    OBVIOUS
  <2>6. (IF b + 1 <= n THEN n - (b + 1) + 1 ELSE 0) = n - b
    OBVIOUS
  <2> HIDE DEF p
  <2>7. QED BY <2>4, <2>5, <2>6
<1>3. /\ q \in Seq(Byte) /\ Len(q) = (n - b) + 1 /\ \A i \in 1..((n - b) + 1) : q[i] = v[b + i]
  <2>1. \A i \in (b + 1)..(n + 1) : i \in 1..(n + 1)
    OBVIOUS
  <2>2. \A i \in (b + 1)..(n + 1) : v[i] \in Byte
    <3>1. \A i \in 1..(n + 1) : v[i] \in Byte
      BY <1>1, ElementOfSeq
    <3>2. QED BY <2>1, <3>1
  <2>3. b + 1 \in Int /\ n + 1 \in Int
    OBVIOUS
  <2>4. /\ q \in Seq(Byte) /\ Len(q) = (IF b + 1 <= n + 1 THEN (n + 1) - (b + 1) + 1 ELSE 0)
        /\ \A i \in 1..((n + 1) - (b + 1) + 1) : q[i] = v[(b + 1) + i - 1]
    BY <2>2, <2>3, SubSeqProperties
  <2>5. (n + 1) - (b + 1) + 1 = (n - b) + 1 /\ \A i \in 1..((n - b) + 1) : (b + 1) + i - 1 = b + i
    OBVIOUS
  <2>6. (IF b + 1 <= n + 1 THEN (n + 1) - (b + 1) + 1 ELSE 0) = (n - b) + 1
    OBVIOUS
  <2> HIDE DEF q
  <2>7. QED BY <2>4, <2>5, <2>6
<1> HIDE DEF p, q
<1>4. PICK l \in Nat : l = n - b
  <2>1. n - b \in Nat
    OBVIOUS
  <2>2. QED BY <2>1
<1>5. /\ Append(p, x) \in Seq(Byte) /\ Len(Append(p, x)) = l + 1
      /\ \A i \in 1..l : Append(p, x)[i] = p[i]
      /\ Append(p, x)[l + 1] = x
  BY <1>2, <1>4, AppendProperties
<1>6. ASSUME NEW i \in 1..(l + 1) PROVE q[i] = Append(p, x)[i]
  <2>1. CASE i = l + 1
    <3>1. b + i = n + 1
      BY <1>4, <2>1
    <3>2. QED BY <1>1, <1>3, <1>4, <1>5, <2>1, <3>1
  <2>2. CASE i # l + 1
    <3>1. i \in 1..l /\ b + i \in 1..n
      BY <1>4, <2>2
    <3>2. QED BY <1>1, <1>2, <1>3, <1>4, <1>5, <3>1
  <2>3. QED BY <2>1, <2>2
<1>7. q = [i \in 1..(l + 1) |-> q[i]] /\ Append(p, x) = [i \in 1..(l + 1) |-> Append(p, x)[i]]
  BY <1>3, <1>4, <1>5, LenProperties
<1>8. q = Append(p, x)
  BY <1>6, <1>7
<1>9. QED BY <1>2, <1>8 DEF p, q, v

\* The buffer holds what follows the last of the whole answers, as long as it
\* can be the beginning of another.
AnswerInv ==
    protocol \in Modbus =>
        \A b \in Boundaries(seen) :
            /\ b <= Len(seen)
            /\ Incomplete(SubSeq(seen, b + 1, Len(seen))) => buff = SubSeq(seen, b + 1, Len(seen))

LEMMA ByteKeepsAnswers ==
    ASSUME StreamOK, AnswerInv, protocol \in Modbus, NEW x \in Byte,
           buff' = Scan(Append(buff, x)).left, seen' = Append(seen, x), protocol' = protocol
    PROVE  AnswerInv'
<1> DEFINE v == Append(seen, x)
           w == Append(buff, x)
<1>n. PICK n \in Nat : n = Len(seen)
  BY LenProperties DEF StreamOK
<1>1. /\ v \in Seq(Byte) /\ Len(v) = n + 1 /\ w \in Seq(Byte)
  BY <1>n, AppendProperties DEF StreamOK
<1> DEFINE B == Boundaries(seen)
           P(b) == SubSeq(seen, b + 1, n)
           Q(b) == SubSeq(v, b + 1, n + 1)
<1>2. /\ B \in SUBSET Nat
      /\ Boundaries(v) = IF \E m \in B : IsAnswer(Q(m)) THEN B \cup {n + 1} ELSE B
  BY <1>n, BoundsOfMore DEF StreamOK
<1>3. \A b \in B : b <= n /\ (Incomplete(P(b)) => buff = P(b))
  BY <1>n DEF AnswerInv
<1>4. \A b \in B : P(b) \in Seq(Byte) /\ Q(b) = Append(P(b), x)
  BY <1>n, <1>2, <1>3, PieceGrows DEF StreamOK
<1>5. buff' = ScanModbus(w).left
  <2>1. protocol \notin Serial
    BY DEF Serial, Modbus
  <2>2. Scan(w) = ScanModbus(w)
    <3> HIDE DEF w
    <3>1. QED BY <2>1 DEF Scan
  <2>3. QED BY <2>2
<1> HIDE DEF B, P, Q
\* The beginning of an answer was all in the buffer.
<1>6. ASSUME NEW b \in B, Incomplete(Q(b)) \/ IsAnswer(Q(b)) PROVE w = Q(b)
  <2>1. Incomplete(P(b))
    BY <1>4, <1>6, IncompleteBefore
  <2>2. buff = P(b)
    BY <1>3, <2>1
  <2>3. QED BY <1>4, <2>2
<1> HIDE DEF w
<1>7. ASSUME NEW b \in Boundaries(v)
      PROVE  b <= n + 1 /\ (Incomplete(Q(b)) => buff' = Q(b))
  <2>1. CASE b \in B
    <3>1. b <= n + 1
      BY <1>2, <1>3, <2>1
    <3>2. Incomplete(Q(b)) => buff' = Q(b)
      BY <1>1, <1>5, <1>6, <2>1, ScanOfAnswer
    <3>3. QED BY <3>1, <3>2
  <2>2. CASE b = n + 1 /\ \E m \in B : IsAnswer(Q(m))
    <3>1. PICK m \in B : IsAnswer(Q(m))
      BY <2>2
    <3>2. buff' = <<>>
      BY <1>1, <1>5, <1>6, <3>1, ScanOfAnswer
    <3>3. Q(b) = <<>>
      BY <2>2, SubSeqEmpty DEF Q
    <3>4. QED BY <2>2, <3>2, <3>3
  <2>3. QED BY <1>2, <2>1, <2>2
<1>8. QED BY <1>1, <1>7 DEF AnswerInv, Q, v

LEMMA NoBounds == Boundaries(<<>>) = {0} /\ Len(<<>>) = 0 /\ SubSeq(<<>>, 0 + 1, 0) = <<>>
<1>1. PICK w \in Seq(Byte) : w = <<>> /\ Len(w) = 0
  BY EmptySeq
<1>2. PICK r : /\ r \in [0..Len(w) -> SUBSET Nat] /\ r[0] = {0}
               /\ \A n \in 1..Len(w) : r[n] =
                     (IF \E b \in r[n - 1] : IsAnswer(SubSeq(w, b + 1, n))
                      THEN r[n - 1] \cup {n} ELSE r[n - 1])
               /\ Boundaries(w) = r[Len(w)]
  BY BoundsUnfold
<1>3. Boundaries(w) = {0}
  BY <1>1, <1>2
<1>4. SubSeq(<<>>, 0 + 1, 0) = <<>>
  BY SubSeqEmpty
<1>5. QED BY <1>1, <1>3, <1>4

LEMMA NextAnswers == ASSUME StreamOK, AnswerInv, [Next]_vars PROVE AnswerInv'
<1>1. ASSUME UNCHANGED <<protocol, buff, seen, taken>> PROVE AnswerInv'
  BY <1>1 DEF AnswerInv
<1>2. ASSUME buff' = <<>>, seen' = <<>> PROVE AnswerInv'
  BY <1>2, NoBounds DEF AnswerInv
<1>3. CASE Call
  BY <1>1, <1>2, <1>3, CallStream
<1>4. CASE SendOutput \/ Disturb \/ UNCHANGED vars
  BY <1>1, <1>4 DEF SendOutput, Disturb, vars, driver
<1>5. CASE Deliver
  <2>1. CASE protocol \notin Modbus
    BY <1>5, <2>1, DeliverStream DEF AnswerInv
  <2>2. CASE protocol \in Modbus
    BY <1>1, <1>5, <2>2, DeliverStream, ByteKeepsAnswers
  <2>3. QED BY <2>1, <2>2
<1>6. QED BY <1>3, <1>4, <1>5 DEF Next

\* WitSerialDataIn, 3rd/wit_c_sdk/wit_c_sdk.c: as long as the line carries whole
\* MODBUS answers, each of them is taken with its last byte, and nothing of it
\* stays in the buffer.
THEOREM EveryAnswerTaken == Spec => []AnswersTaken
<1>1. Init => StreamOK /\ AnswerInv
  <2>1. ASSUME Init PROVE AnswerInv
    BY <2>1, NoBounds DEF Init, AnswerInv
  <2>2. QED BY <2>1, InitStream
<1>2. StreamOK /\ AnswerInv /\ [Next]_vars => StreamOK' /\ AnswerInv'
  BY NextStream, NextAnswers
<1>3. StreamOK /\ AnswerInv => AnswersTaken
  <2> SUFFICES ASSUME StreamOK, AnswerInv, protocol \in Modbus, Len(seen) \in Boundaries(seen)
               PROVE  buff = <<>>
    BY DEF AnswersTaken, WholeAnswers
  <2>1. PICK n \in Nat : n = Len(seen)
    BY LenProperties DEF StreamOK
  <2>2. SubSeq(seen, n + 1, n) = <<>>
    BY SubSeqEmpty
  <2>3. Incomplete(<<>>)
    BY NoBounds DEF Incomplete
  <2>4. QED BY <2>1, <2>2, <2>3 DEF AnswerInv
<1>4. QED BY <1>1, <1>2, <1>3, PTL DEF Spec

-----------------------------------------------------------------------------
(* What the registers, the buffer and a call's result can be.              *)

\* The part of the type invariant that the steps which file words keep.
RegistersOK ==
    /\ readRegIndex \in 0..(REGSIZE - 1)
    /\ \A r \in DOMAIN sReg : r \in Nat /\ sReg[r] \in Word
    /\ DOMAIN data \subseteq Shown

\* Parts of a frame that can be filed.
GoodParts(parts) == \A p \in ToSet(parts) : p[1] \in Nat /\ p[2] \in Seq(Word)

LEMMA FileTypes ==
    ASSUME RegistersOK, NEW parts, GoodParts(parts), File(parts)
    PROVE  /\ \A r \in DOMAIN sReg' : r \in Nat /\ sReg'[r] \in Word
           /\ DOMAIN data' \subseteq Shown
<1> DEFINE new == UNION {p[1]..(p[1] + Len(p[2]) - 1) : p \in ToSet(parts)}
           of(r) == {p \in ToSet(parts) : r \in p[1]..(p[1] + Len(p[2]) - 1)}
           value(r) == IF of(r) = {} THEN sReg[r]
                       ELSE LET p == CHOOSE p \in of(r) : TRUE IN p[2][r - p[1] + 1]
<1>1. sReg' = [r \in DOMAIN sReg \cup new |-> value(r)]
  BY DEF File, Written
<1>2. ASSUME NEW r \in DOMAIN sReg \cup new PROVE r \in Nat /\ value(r) \in Word
  <2>1. CASE of(r) = {}
    <3>1. r \in DOMAIN sReg
      BY <1>2, <2>1
    <3>2. QED BY <2>1, <3>1 DEF RegistersOK
  <2>2. CASE of(r) # {}
    <3>1. PICK p \in of(r) : value(r) = p[2][r - p[1] + 1]
      BY <2>2
    <3>2. p[1] \in Nat /\ p[2] \in Seq(Word) /\ r \in p[1]..(p[1] + Len(p[2]) - 1)
      BY DEF GoodParts
    <3>3. Len(p[2]) \in Nat
      BY <3>2, LenProperties
    <3>4. r \in Nat /\ r - p[1] + 1 \in 1..Len(p[2])
      BY <3>2, <3>3
    <3>5. QED BY <3>1, <3>2, <3>4, ElementOfSeq
  <2>3. QED BY <2>1, <2>2
<1>3. DOMAIN data' \subseteq DOMAIN data \cup Shown
  BY DEF File, Updated
<1> HIDE DEF new, value
<1>4. QED BY <1>1, <1>2, <1>3 DEF RegistersOK

\* Words of a frame are pairs of its bytes.
LEMMA WordsOfBytes ==
    ASSUME NEW f \in Seq(Byte), NEW i \in Nat, NEW n \in Nat, i >= 1, i + 2 * n - 1 <= Len(f)
    PROVE  /\ LittleEndian(f, i, n) \in Seq(Word) /\ Len(LittleEndian(f, i, n)) = n
           /\ BigEndian(f, i, n) \in Seq(Word) /\ Len(BigEndian(f, i, n)) = n
<1>1. ASSUME NEW k \in 1..n PROVE f[i + 2*k - 1] \in Byte /\ f[i + 2*k - 2] \in Byte
  <2>1. Len(f) \in Nat
    BY LenProperties
  <2>2. i + 2*k - 1 \in 1..Len(f) /\ i + 2*k - 2 \in 1..Len(f)
    BY <2>1
  <2>3. QED BY <2>2, ElementOfSeq
<1>2. LittleEndian(f, i, n) \in [1..n -> Word] /\ BigEndian(f, i, n) \in [1..n -> Word]
  BY <1>1 DEF LittleEndian, BigEndian, Word
<1>3. QED BY <1>2

LEMMA OnePart ==
    ASSUME NEW r \in Nat, NEW words \in Seq(Word)
    PROVE  GoodParts(<<<<r, words>>>>)
<1>1. ToSet(<<<<r, words>>>>) = {<<r, words>>}
  BY DEF ToSet
<1>2. QED BY <1>1 DEF GoodParts

LEMMA NoPart == GoodParts(<<>>)
BY DEF GoodParts, ToSet

LEMMA TwoParts == ASSUME NEW a, NEW b PROVE ToSet(<<a>> \o <<b>>) \subseteq {a, b}
<1> DEFINE S == {a, b}
<1>1. <<a>> \in Seq(S) /\ <<b>> \in Seq(S)
  OBVIOUS
<1> HIDE DEF S
<1>2. <<a>> \o <<b>> \in Seq(S)
  BY <1>1, ConcatProperties
<1>3. QED BY <1>2, ElementOfSeq DEF ToSet, S

LEMMA CopeTypes ==
    ASSUME RegistersOK, NEW index, NEW words \in Seq(Word), Len(words) \in {3, 4}
    PROVE  GoodParts(CopeWitData(index, words))
<1> DEFINE whole == Len(words) # 3
           where == IF index = REGVALUE THEN [first |-> readRegIndex, n |-> 4]
                    ELSE FrameRegister[index]
           n == IF whole THEN where.n ELSE 3
<1>1. CASE index # REGVALUE /\ index \notin DOMAIN FrameRegister
  BY <1>1, NoPart DEF CopeWitData
<1>2. CASE ~(index # REGVALUE /\ index \notin DOMAIN FrameRegister)
  <2>1. /\ where.first \in Nat /\ where.n \in {3, 4}
        /\ "fourth" \in DOMAIN where => where.fourth \in Nat
    <3>1. CASE index = REGVALUE
      <4>1. where = [first |-> readRegIndex, n |-> 4]
        BY <3>1
      <4>2. DOMAIN where = {"first", "n"} /\ where.first = readRegIndex /\ where.n = 4
        BY <4>1
      <4>3. readRegIndex \in Nat
        BY SizeAssumption DEF RegistersOK
      <4>4. QED BY <4>2, <4>3
    <3>2. CASE index # REGVALUE
      BY <1>2, <3>2, FrameRegisterType
    <3>3. QED BY <3>1, <3>2
  <2>2. CopeWitData(index, words) =
            <<<<where.first, SubSeq(words, 1, n)>>>>
            \o (IF whole /\ "fourth" \in DOMAIN where
                THEN <<<<where.fourth, <<words[4]>>>>>> ELSE <<>>)
    BY <1>2 DEF CopeWitData
  <2> HIDE DEF where
  <2>3. n \in {3, 4} /\ n <= Len(words)
    <3>1. CASE Len(words) = 3
      BY <3>1
    <3>2. CASE Len(words) = 4
      BY <2>1, <3>2
    <3>3. QED BY <3>1, <3>2
  <2>4. SubSeq(words, 1, n) \in Seq(Word)
    <3>1. 1 \in Int /\ n \in Int /\ \A i \in 1..n : i \in 1..Len(words)
      BY <2>3
    <3>2. \A i \in 1..n : words[i] \in Word
      BY <3>1, ElementOfSeq
    <3> HIDE DEF n
    <3>3. QED BY <3>1, <3>2, SubSeqProperties
  <2> HIDE DEF n
  <2>5. CASE whole /\ "fourth" \in DOMAIN where
    <3>1. words[4] \in Word
      <4>1. 4 \in 1..Len(words)
        BY <2>5
      <4>2. QED BY <4>1, ElementOfSeq
    <3>2. <<words[4]>> \in Seq(Word)
      BY <3>1
    <3> DEFINE a == <<where.first, SubSeq(words, 1, n)>>
               b == <<where.fourth, <<words[4]>>>>
    <3>3. CopeWitData(index, words) = <<a>> \o <<b>>
      BY <2>2, <2>5
    <3>4. /\ a[1] \in Nat /\ a[2] \in Seq(Word)
          /\ b[1] \in Nat /\ b[2] \in Seq(Word)
      BY <2>1, <2>4, <2>5, <3>2
    <3> HIDE DEF a, b
    <3>5. ToSet(<<a>> \o <<b>>) \subseteq {a, b}
      BY TwoParts
    <3>6. QED BY <3>3, <3>4, <3>5 DEF GoodParts
  <2>6. CASE ~(whole /\ "fourth" \in DOMAIN where)
    <3>1. CopeWitData(index, words) = <<<<where.first, SubSeq(words, 1, n)>>>>
      <4> DEFINE a == <<where.first, SubSeq(words, 1, n)>>
      <4>1. CopeWitData(index, words) = <<a>> \o <<>>
        BY <2>2, <2>6
      <4> HIDE DEF a
      <4>2. <<a>> \o <<>> = <<a>>
        OBVIOUS
      <4>3. QED BY <4>1, <4>2 DEF a
    <3>2. QED BY <2>1, <2>4, <3>1, OnePart
  <2>7. QED BY <2>5, <2>6
<1>3. QED BY <1>1, <1>2

\* A frame that the scan finds holds every byte that is filed.
LEMMA FoundTypes ==
    ASSUME StreamOK, RegistersOK, NEW w \in Seq(Byte), w # <<>>
    PROVE  GoodParts(PartsOf(Scan(w).frame))
<1>1. Len(w) \in Nat /\ \A j \in 1..Len(w) : w[j] \in Byte
  BY LenProperties, ElementOfSeq
<1>2. CASE Scan(w).frame = <<>>
  BY <1>2, NoPart DEF PartsOf
<1>3. CASE Scan(w).frame # <<>>
  <2>1. Scan(w).frame = w
    BY <1>3, ScanLeaves
  <2>2. /\ DropFirst(w).frame = <<>> /\ Waiting(w).frame = <<>> /\ Waiting(<<>>).frame = <<>>
    BY DEF DropFirst, Waiting
  <2>3. CASE protocol \in Serial
    <3>1. Scan(w) = ScanNormal(w)
      <4>1. protocol \notin Modbus
        BY <2>3 DEF Serial, Modbus
      <4>2. QED BY <2>3, <4>1 DEF Scan
    <3>2. Len(w) >= 11
      BY <1>3, <2>2, <3>1 DEF ScanNormal
    <3>3. LittleEndian(w, 3, 4) \in Seq(Word) /\ Len(LittleEndian(w, 3, 4)) = 4
      <4>1. 3 \in Nat /\ 4 \in Nat /\ 3 >= 1 /\ 3 + 2 * 4 - 1 <= Len(w)
        BY <1>1, <3>2
      <4>2. QED BY <4>1, WordsOfBytes
    <3>4. PartsOf(w) = CopeWitData(w[2], LittleEndian(w, 3, 4))
      BY <2>3 DEF PartsOf
    <3>5. QED BY <2>1, <3>3, <3>4, CopeTypes
  <2>4. CASE protocol \notin Serial /\ protocol \in Modbus
    <3>1. Scan(w) = ScanModbus(w)
      BY <2>4 DEF Scan
    <3>2. Len(w) > 2 /\ Len(w) >= w[3] + 5
      BY <1>1, <1>3, <2>2, <3>1 DEF ScanModbus
    <3>3. 3 \in 1..Len(w)
      BY <1>1, <3>2
    <3>4. w[3] \in Nat
      BY <1>1, <3>3, ByteRange
    <3>5. PICK n \in Nat : n = w[3] \div 2 /\ 4 + 2 * n - 1 <= Len(w)
      <4>1. w[3] \div 2 \in Nat /\ 2 * (w[3] \div 2) <= w[3]
        BY <3>4
      <4>2. QED BY <1>1, <3>2, <3>4, <4>1
    <3>6. BigEndian(w, 4, n) \in Seq(Word)
      <4>1. 4 \in Nat /\ 4 >= 1
        OBVIOUS
      <4>2. QED BY <3>5, <4>1, WordsOfBytes
    <3>7. PartsOf(w) = <<<<readRegIndex, BigEndian(w, 4, n)>>>>
      BY <2>4, <3>5 DEF PartsOf
    <3>8. readRegIndex \in Nat
      BY SizeAssumption DEF RegistersOK
    <3>9. QED BY <2>1, <3>6, <3>7, <3>8, OnePart
  <2>5. CASE protocol \notin Serial /\ protocol \notin Modbus
    <3>1. Scan(w) = Waiting(<<>>)
      BY <2>5 DEF Scan
    <3>2. QED BY <1>3, <2>2, <3>1
  <2>6. QED BY <2>3, <2>4, <2>5
<1>4. QED BY <1>2, <1>3

LEMMA CanTypes ==
    ASSUME RegistersOK, NEW f \in Frame8, NEW wild \in Byte
    PROVE  GoodParts(CanParts(f, wild))
<1>1. f \in Seq(Byte) /\ Len(f) = 8
  <2>1. PICK n \in Nat : n = 8
    OBVIOUS
  <2>2. f \in [1..n -> Byte]
    BY <2>1 DEF Frame8
  <2>3. f \in Seq(Byte) /\ Len(f) = n
    BY <2>2
  <2>4. QED BY <2>1, <2>3
<1>2. LittleEndian(f, 3, 3) \in Seq(Word) /\ Len(LittleEndian(f, 3, 3)) = 3
  <2>1. 3 \in Nat /\ 3 >= 1 /\ 3 + 2 * 3 - 1 <= Len(f)
    BY <1>1
  <2>2. QED BY <1>1, <2>1, WordsOfBytes
<1>3. LittleEndian(f, 5, 2) \in Seq(Word)
  <2>1. 5 \in Nat /\ 2 \in Nat /\ 5 >= 1 /\ 5 + 2 * 2 - 1 <= Len(f)
    BY <1>1
  <2>2. QED BY <1>1, <2>1, WordsOfBytes
<1> DEFINE reg == IF f[3] \in 1..3 THEN 59 + 2 * f[3] ELSE wild
<1>4. reg \in Nat
  BY ByteRange
<1>5. \/ CanParts(f, wild) = <<>>
      \/ CanParts(f, wild) = <<<<reg, LittleEndian(f, 5, 2)>>>>
      \/ CanParts(f, wild) = CopeWitData(f[2], LittleEndian(f, 3, 3))
  BY DEF CanParts
<1> HIDE DEF reg
<1>6. QED BY <1>2, <1>3, <1>4, <1>5, NoPart, OnePart, CopeTypes

LEMMA ReadTypes ==
    ASSUME RegistersOK, NEW reg \in Nat, NEW n \in Nat, NEW bus, WitReadReg(reg, n, bus)
    PROVE  RegistersOK'
<1>1. ReadRefusal(reg, n) = "OK" => reg + n < REGSIZE
  BY SizeAssumption DEF ReadRefusal
<1>2. readRegIndex' \in 0..(REGSIZE - 1)
  <2>1. \/ readRegIndex' = readRegIndex
        \/ readRegIndex' = reg /\ ReadRefusal(reg, n) = "OK"
    BY DEF WitReadReg, NextReadIndex
  <2>2. QED BY <1>1, <2>1, SizeAssumption DEF RegistersOK
<1>3. CASE UNCHANGED <<sReg, data>>
  BY <1>2, <1>3 DEF RegistersOK
<1>4. CASE ReadRefusal(reg, n) = "OK" /\ File(<<<<reg, I2cWords(reg, n)>>>>)
  <2>1. reg + n <= 256
    BY <1>1, <1>4, SizeAssumption
  <2>2. GoodParts(<<<<reg, I2cWords(reg, n)>>>>)
    BY <2>1, DeviceWordsType, I2cWordsAre, OnePart
  <2>3. QED BY <1>2, <1>4, <2>2, FileTypes DEF RegistersOK
<1>5. QED BY <1>3, <1>4 DEF WitReadReg

LEMMA NextRegisters == ASSUME StreamOK, RegistersOK, [Next]_vars PROVE RegistersOK'
<1>1. CASE UNCHANGED <<readRegIndex, sReg, data>>
  BY <1>1 DEF RegistersOK
<1>2. CASE Call
  <2>1. CASE \E reg \in {1, REGSIZE}, bus \in BusResults : WitWriteReg(reg, 0, bus)
    BY <1>1, <2>1 DEF WitWriteReg, driver
  <2>2. CASE \E s \in Settings, bus \in BusResults : WitSet(s[1], s[2], bus)
    <3>1. UNCHANGED driver
      BY <2>2 DEF WitSet
    <3>2. QED BY <1>1, <3>1 DEF driver
  <2>3. CASE \E cb \in Registered, null \in BOOLEAN : Register(cb, null)
    BY <1>1, <2>3 DEF Register
  <2>4. CASE \E p \in Protocols : WitInit(p)
    BY <1>1, <2>4 DEF WitInit, Restarted
  <2>5. CASE WitDeInit
    BY <1>1, <2>5 DEF WitDeInit, Restarted
  <2>6. CASE \E iic, opened \in BOOLEAN : navi_jy901_init(iic, opened)
    BY <1>1, <2>6 DEF navi_jy901_init, Restarted, driver
  <2>7. CASE \E r \in Reads, bus \in BusResults : WitReadReg(r[1], r[2], bus)
    BY <2>7, ReadTypes, SizeAssumption
  <2>8. QED BY <1>2, <2>1, <2>2, <2>3, <2>4, <2>5, <2>6, <2>7 DEF Call
<1>3. CASE SendOutput
  BY <1>1, <1>3 DEF SendOutput, driver
<1>4. CASE Deliver
  <2>1. CASE protocol \in Can
    <3>1. WitCanDataIn(Head(line))
      BY <1>4, <2>1 DEF Deliver
    <3>2. Head(line) \in Frame8
      <4>1. line \in Seq(Frame8) /\ line # <<>>
        BY <1>4, <2>1 DEF Deliver, StreamOK
      <4>2. QED BY <4>1, HeadTailProperties
    <3>3. readRegIndex' = readRegIndex
      BY <3>1 DEF WitCanDataIn
    <3>4. CASE \E wild \in Byte : File(CanParts(Head(line), wild))
      BY <3>2, <3>3, <3>4, CanTypes, FileTypes DEF RegistersOK
    <3>5. QED
      <4>1. 0 \in Byte
        BY ByteRange DEF ByteFacts
      <4>2. UNCHANGED <<sReg, data>> \/ \E wild \in Byte : File(CanParts(Head(line), wild))
        BY <3>1, <4>1 DEF WitCanDataIn
      <4>3. QED BY <1>1, <3>3, <3>4, <4>2
  <2>2. CASE protocol \notin Can
    <3>1. WitSerialDataIn(Head(line))
      BY <1>4, <2>2 DEF Deliver
    <3>2. Head(line) \in Byte
      <4>1. line \in Seq(Byte) /\ line # <<>>
        BY <1>4, <2>2 DEF Deliver, StreamOK
      <4>2. QED BY <4>1, HeadTailProperties
    <3>3. readRegIndex' = readRegIndex
      BY <3>1 DEF WitSerialDataIn
    <3>4. CASE UNCHANGED <<sReg, data>>
      BY <1>1, <3>3, <3>4
    <3>5. CASE File(PartsOf(Scan(Append(buff, Head(line))).frame))
      <4>1. Append(buff, Head(line)) \in Seq(Byte) /\ Append(buff, Head(line)) # <<>>
        BY <3>2, AppendProperties DEF StreamOK
      <4>2. GoodParts(PartsOf(Scan(Append(buff, Head(line))).frame))
        BY <4>1, FoundTypes
      <4>3. QED BY <3>3, <3>5, <4>2, FileTypes DEF RegistersOK
    <3>6. QED BY <3>1, <3>4, <3>5 DEF WitSerialDataIn
  <2>3. QED BY <2>1, <2>2
<1>5. CASE Disturb
  BY <1>1, <1>5 DEF Disturb, driver
<1>6. CASE UNCHANGED vars
  BY <1>1, <1>6 DEF vars, driver
<1>7. QED BY <1>2, <1>3, <1>4, <1>5, <1>6 DEF Next

\* A buffer that is full waits for an answer that does not fit.
BuffBounded == Len(buff) > WIT_DATA_BUFF_SIZE => protocol \in Modbus /\ buff[3] + 5 > WIT_DATA_BUFF_SIZE

LEMMA NextBounded ==
    ASSUME StreamOK, SerialInv', BuffBounded, [Next]_vars
    PROVE  BuffBounded'
<1>1. CASE UNCHANGED <<protocol, buff>>
  BY <1>1 DEF BuffBounded
<1>2. CASE buff' = <<>>
  BY <1>2, SizeAssumption DEF BuffBounded
<1>3. CASE Call
  BY <1>1, <1>2, <1>3, CallStream
<1>4. CASE Deliver
  <2>1. CASE UNCHANGED <<buff, seen, taken>>
    BY <1>1, <1>4, <2>1, DeliverStream
  <2>2. ASSUME NEW b \in Byte, buff' = Scan(Append(buff, b)).left
        PROVE  BuffBounded'
    <3> DEFINE w == Append(buff, b)
    <3>1. /\ w \in Seq(Byte) /\ w # <<>> /\ Len(w) = Len(buff) + 1
          /\ Len(buff) \in Nat /\ Len(buff) <= WIT_DATA_BUFF_SIZE
      BY <1>4, AppendProperties, LenProperties DEF StreamOK, Deliver, InBounds
    <3> HIDE DEF w
    <3>2. Tail(w) \in Seq(Byte) /\ Len(Tail(w)) = Len(buff)
      BY <3>1, HeadTailProperties
    <3>3. /\ DropFirst(w).left = Tail(w) /\ Found(w).left = <<>>
          /\ Waiting(w).left = w /\ Waiting(<<>>).left = <<>>
      BY DEF DropFirst, Found, Waiting
    <3>4. buff' = Scan(w).left
      BY <2>2 DEF w
    <3>5. protocol' = protocol
      BY <1>4, DeliverStream
    <3>6. CASE protocol \in Serial
      <4>1. Len(buff') <= 10 /\ Len(buff') \in Nat
        <5>1. buff' \in Seq(Byte)
          BY <3>1, <3>4, ScanLeaves
        <5>2. QED BY <3>5, <3>6, <5>1, LenProperties DEF SerialInv
      <4>2. QED BY <4>1, SizeAssumption DEF BuffBounded
    <3>7. CASE protocol \notin Serial /\ protocol \in Modbus
      <4>1. Scan(w) = ScanModbus(w)
        BY <3>7 DEF Scan
      <4>2. CASE Scan(w) = DropFirst(w)
        BY <3>1, <3>2, <3>3, <3>4, <4>2, SizeAssumption DEF BuffBounded
      <4>3. CASE Scan(w) = Found(w)
        BY <1>2, <3>3, <3>4, <4>3
      <4>4. CASE Len(w) <= 2 /\ Scan(w) = Waiting(w)
        BY <3>1, <3>3, <3>4, <4>4, SizeAssumption DEF BuffBounded
      <4>5. CASE ~(Len(w) <= 2) /\ ~(Len(w) >= w[3] + 5) /\ Scan(w) = Waiting(w)
        <5>1. buff' = w
          BY <3>3, <3>4, <4>5
        <5>2. w[3] \in Nat
          <6>1. 3 \in 1..Len(w)
            BY <3>1, <4>5
          <6>2. QED BY <3>1, <6>1, ElementOfSeq, ByteRange
        <5>3. Len(w) > WIT_DATA_BUFF_SIZE => w[3] + 5 > WIT_DATA_BUFF_SIZE
          BY <3>1, <4>5, <5>2, SizeAssumption
        <5>4. QED BY <3>5, <3>7, <5>1, <5>3 DEF BuffBounded
      <4>6. QED BY <4>1, <4>2, <4>3, <4>4, <4>5 DEF ScanModbus
    <3>8. CASE protocol \notin Serial /\ protocol \notin Modbus
      BY <1>2, <3>3, <3>4, <3>8 DEF Scan
    <3>9. QED BY <3>6, <3>7, <3>8
  <2>3. QED BY <1>4, <2>1, <2>2, DeliverStream
<1>5. CASE SendOutput \/ Disturb \/ UNCHANGED vars
  BY <1>1, <1>5 DEF SendOutput, Disturb, vars, driver
<1>6. QED BY <1>3, <1>4, <1>5 DEF Next

\* The rest of the type invariant: it follows from each step alone.
CountersOK ==
    /\ callbacks \subseteq Callback
    /\ call.ret \in {"none", "OK", "ERROR", "NOMEM", "EMPTY", "INVAL"}
    /\ calls \in 0..MaxCalls /\ frames \in 0..MaxFrames /\ faults \in 0..MaxFaults

LEMMA CallCounts == ASSUME CountersOK, Call PROVE CountersOK'
<1> DEFINE Rets == {"none", "OK", "ERROR", "NOMEM", "EMPTY", "INVAL"}
<1>1. calls' \in 0..MaxCalls /\ frames' \in 0..MaxFrames /\ faults' \in 0..MaxFaults
  BY SizeAssumption DEF CountersOK, Call
<1>2. callbacks' \subseteq Callback /\ call'.ret \in Rets
  <2>1. CASE \E reg \in {1, REGSIZE}, bus \in BusResults : WitWriteReg(reg, 0, bus)
    <3>1. \A reg, bus : WriteReg(reg, bus).ret \in Rets
      BY DEF WriteReg
    <3>2. PICK reg \in {1, REGSIZE}, bus \in BusResults : WitWriteReg(reg, 0, bus)
      BY <2>1
    <3>3. call'.ret = WriteReg(reg, bus).ret /\ callbacks' = callbacks
      BY <3>2 DEF WitWriteReg, Returns, driver
    <3>4. QED BY <3>1, <3>3 DEF CountersOK
  <2>2. CASE \E s \in Settings, bus \in BusResults : WitSet(s[1], s[2], bus)
    <3>1. callbacks' = callbacks
      <4>1. UNCHANGED driver
        BY <2>2 DEF WitSet
      <4>2. QED BY <4>1 DEF driver
    <3>2. \A name, ret, sent : Returns(name, ret, sent) => call'.ret = ret
      BY DEF Returns
    <3>3. PICK s \in Settings, bus \in BusResults : WitSet(s[1], s[2], bus)
      BY <2>2
    <3>4. \E sent : \E ret \in Rets : Returns(s[1], ret, sent)
      BY <3>3 DEF WitSet
    <3>5. QED BY <3>1, <3>2, <3>4 DEF CountersOK
  <2>3. CASE \E cb \in Registered, null \in BOOLEAN : Register(cb, null)
    BY <2>3, SizeAssumption DEF Register, Returns, CountersOK, Callback
  <2>4. CASE \E p \in Protocols : WitInit(p)
    BY <2>4 DEF WitInit, Returns, CountersOK
  <2>5. CASE WitDeInit
    BY <2>5 DEF WitDeInit, Returns, CountersOK
  <2>6. CASE \E iic, opened \in BOOLEAN : navi_jy901_init(iic, opened)
    <3>1. PICK iic \in BOOLEAN, opened \in BOOLEAN : navi_jy901_init(iic, opened)
      BY <2>6
    <3>2. callbacks' = callbacks \/ callbacks' = callbacks \cup CallbacksOf(iic)
      BY <3>1 DEF navi_jy901_init, driver
    <3>3. CallbacksOf(iic) \subseteq Callback
      BY DEF CallbacksOf, Callback
    <3>4. call'.ret = "OK" \/ call'.ret = "ERROR"
      BY <3>1 DEF navi_jy901_init, Returns
    <3>5. QED BY <3>2, <3>3, <3>4 DEF CountersOK
  <2>7. CASE \E r \in Reads, bus \in BusResults : WitReadReg(r[1], r[2], bus)
    BY <2>7 DEF WitReadReg, ReadRefusal, Returns, CountersOK
  <2>8. QED BY <2>1, <2>2, <2>3, <2>4, <2>5, <2>6, <2>7 DEF Call
<1>3. QED BY <1>1, <1>2 DEF CountersOK

LEMMA NextCounts == ASSUME CountersOK, [Next]_vars PROVE CountersOK'
<1>1. CASE call' = Idle /\ callbacks' = callbacks
      /\ calls' \in 0..MaxCalls /\ frames' \in 0..MaxFrames /\ faults' \in 0..MaxFaults
  BY <1>1 DEF CountersOK, Idle
<1>2. CASE SendOutput
  BY <1>1, <1>2, SizeAssumption DEF SendOutput, CountersOK, driver
<1>3. CASE Deliver
  <2>1. callbacks' = callbacks
    BY <1>3 DEF Deliver, WitCanDataIn, WitSerialDataIn
  <2>2. QED BY <1>1, <1>3, <2>1 DEF Deliver, CountersOK
<1>4. CASE Disturb
  BY <1>1, <1>4, SizeAssumption DEF Disturb, CountersOK, driver
<1>5. CASE UNCHANGED vars
  BY <1>5 DEF vars, driver, environment, CountersOK
<1>6. QED BY <1>2, <1>3, <1>4, <1>5, CallCounts DEF Next

\* The types of the driver's state: its buffer holds less than a frame, and
\* grows behind its end only for an answer whose length byte says so; the
\* register it would file an answer under is one of the device's.
THEOREM TypeCorrect == Spec => []TypeOK
<1> DEFINE Inv == StreamOK /\ SerialInv /\ RegistersOK /\ BuffBounded /\ CountersOK
<1>1. Init => Inv
  <2> SUFFICES ASSUME Init PROVE Inv
    OBVIOUS
  <2>1. StreamOK
    BY InitStream
  <2>2. SerialInv
    BY NoEnds DEF Init, SerialInv
  <2>3. RegistersOK
    BY SizeAssumption DEF Init, RegistersOK
  <2>4. BuffBounded
    BY SizeAssumption DEF Init, BuffBounded
  <2>5. CountersOK
    BY SizeAssumption DEF Init, CountersOK, Idle, CallbacksOf, Callback
  <2>6. QED BY <2>1, <2>2, <2>3, <2>4, <2>5
<1>2. Inv /\ [Next]_vars => Inv'
  BY NextStream, NextFrames, NextRegisters, NextBounded, NextCounts
<1>3. Inv => TypeOK
  BY DEF StreamOK, SerialInv, RegistersOK, BuffBounded, CountersOK, TypeOK, BuffOK
<1>4. QED BY <1>1, <1>2, <1>3, PTL DEF Spec

-----------------------------------------------------------------------------
(* The registers are true, as long as the line changes nothing and no call *)
(* starts the driver in the middle of a frame.                             *)

\* The rest of a frame and the beginning of the next may look like a frame.
StartsBetweenFrames ==
    call'.name \in {"WitInit", "navi_jy901_init"} /\ call'.ret = "OK" /\ protocol' = protocol
        => line = <<>>

\* Words that are those of the registers from p[1] on.
TruePart(p) ==
    /\ p[1] \in Nat /\ Len(p[2]) \in Nat
    /\ \A k \in 1..Len(p[2]) : p[2][k] = DeviceWord(p[1] + k - 1) /\ p[1] + k - 1 <= REGSIZE + 2
TrueParts(parts) == \A p \in ToSet(parts) : TruePart(p)

LEMMA FileTrue ==
    ASSUME RegistersTrue, NEW parts, TrueParts(parts), File(parts)
    PROVE  RegistersTrue'
<1> DEFINE new == UNION {p[1]..(p[1] + Len(p[2]) - 1) : p \in ToSet(parts)}
           of(r) == {p \in ToSet(parts) : r \in p[1]..(p[1] + Len(p[2]) - 1)}
           value(r) == IF of(r) = {} THEN sReg[r]
                       ELSE LET p == CHOOSE p \in of(r) : TRUE IN p[2][r - p[1] + 1]
<1>1. sReg' = [r \in DOMAIN sReg \cup new |-> value(r)]
  BY DEF File, Written
<1>2. ASSUME NEW r \in DOMAIN sReg \cup new
      PROVE  value(r) = DeviceWord(r) /\ r <= REGSIZE + 2
  <2>1. CASE of(r) = {}
    <3>1. r \in DOMAIN sReg
      BY <1>2, <2>1
    <3>2. QED BY <2>1, <3>1 DEF RegistersTrue
  <2>2. CASE of(r) # {}
    <3>1. PICK p \in of(r) : value(r) = p[2][r - p[1] + 1]
      BY <2>2
    <3>2. TruePart(p) /\ r \in p[1]..(p[1] + Len(p[2]) - 1)
      BY DEF TrueParts
    <3> DEFINE k == r - p[1] + 1
    <3>3. k \in 1..Len(p[2]) /\ p[1] + k - 1 = r
      BY <3>2 DEF TruePart
    <3>4. p[2][k] = DeviceWord(p[1] + k - 1) /\ p[1] + k - 1 <= REGSIZE + 2
      BY <3>2, <3>3 DEF TruePart
    <3>5. QED BY <3>1, <3>3, <3>4
  <2>3. QED BY <2>1, <2>2
<1> HIDE DEF new, value
<1>3. DOMAIN sReg' = DOMAIN sReg \cup new /\ \A r \in DOMAIN sReg \cup new : sReg'[r] = value(r)
  BY <1>1
<1>4. \A r \in DOMAIN sReg' : sReg'[r] = DeviceWord(r) /\ r <= REGSIZE + 2
  BY <1>2, <1>3
<1>5. QED BY <1>4 DEF RegistersTrue, DeviceWord

LEMMA NoneTrue == TrueParts(<<>>)
BY DEF TrueParts, ToSet

LEMMA OneTrue ==
    ASSUME NEW r \in Nat, NEW words, NEW n \in Nat, Len(words) = n, r + n <= REGSIZE + 3,
           \A k \in 1..n : words[k] = DeviceWord(r + k - 1)
    PROVE  TrueParts(<<<<r, words>>>>)
<1>1. ToSet(<<<<r, words>>>>) = {<<r, words>>}
  BY DEF ToSet
<1>2. \A k \in 1..n : r + k - 1 <= REGSIZE + 2
  BY SizeAssumption
<1>3. TruePart(<<r, words>>)
  BY <1>2 DEF TruePart
<1>4. QED BY <1>1, <1>3 DEF TrueParts

LEMMA DeviceWordsAre ==
    ASSUME NEW r, NEW n \in Nat
    PROVE  \A k \in 1..n : DeviceWords(r, n)[k] = DeviceWord(r + k - 1)
BY DEF DeviceWords

-----------------------------------------------------------------------------
\* n words are written in f from position i on, and are read from there.
Holds(f, i, n, bytes) == \A j \in 1..(2 * n) : f[i + j - 1] = bytes[j]
Same(a, b, n) == \A k \in 1..n : a[k] = b[k]

LEMMA WordsSame ==
    ASSUME NEW f, NEW words \in Seq(Word), NEW i \in Nat, NEW n \in Nat, n <= Len(words)
    PROVE  /\ Holds(f, i, n, LowHigh(words)) => Same(LittleEndian(f, i, n), words, n)
           /\ Holds(f, i, n, HighLow(words)) => Same(BigEndian(f, i, n), words, n)
BY WordsBack DEF Holds, Same

-----------------------------------------------------------------------------
(* Frames that say what the registers hold; r is the register asked for.   *)

Source(index, r) == IF index = REGVALUE THEN DeviceWords(r, 4) ELSE OutputWords(index)

TrueSerial(f, r) ==
    /\ Len(f) = 11 /\ f[1] = HEADER /\ CaliSum(SubSeq(f, 1, 10)) = f[11]
    /\ \A k \in 1..4 : LittleEndian(f, 3, 4)[k] = Source(f[2], r)[k]

TrueModbus(f, r) ==
    /\ IsAnswer(f)
    /\ r + (f[3] \div 2) <= REGSIZE
    /\ \A k \in 1..(f[3] \div 2) : BigEndian(f, 4, f[3] \div 2)[k] = DeviceWord(r + k - 1)

TrueFrame(f, p, r) == IF p \in Serial THEN TrueSerial(f, r) ELSE TrueModbus(f, r)

TrueCan(f, p, r) ==
    f[1] = HEADER =>
        IF p = "905x_CAN" /\ f[2] = 83
        THEN /\ f[3] \in 1..3
             /\ \A k \in 1..2 : LittleEndian(f, 5, 2)[k] = DeviceWord(59 + 2 * f[3] + k - 1)
        ELSE \A k \in 1..3 : LittleEndian(f, 3, 3)[k] = Source(f[2], r)[k]

\* Between the driver's buffer and the line there is one frame, or none.
InStep ==
    /\ "reg" \notin callbacks => buff = <<>>
    /\ "reg" \in callbacks /\ protocol \in Serial \cup Modbus =>
          IF line = <<>> THEN buff = <<>> ELSE TrueFrame(buff \o line, protocol, readRegIndex)
    /\ protocol \in Can => \A f \in ToSet(line) : TrueCan(f, protocol, readRegIndex)

TrueInv == faults = 0 => RegistersTrue /\ InStep

-----------------------------------------------------------------------------
(* What such frames are filed as.                                          *)

\* Where the words of a frame go, as CopeWitData has it.
Place(index) == IF index = REGVALUE THEN [first |-> readRegIndex, n |-> 4] ELSE FrameRegister[index]

PlaceOK(where) ==
    /\ where.first \in Nat /\ where.n \in {3, 4} /\ where.first + where.n <= REGSIZE + 3
    /\ "fourth" \in DOMAIN where =>
          where.n = 3 /\ where.fourth \in Nat /\ where.fourth + 1 <= REGSIZE + 3

LEMMA PlaceIs ==
    ASSUME RegistersOK, REGSIZE >= 86,
           NEW index, index = REGVALUE \/ index \in DOMAIN FrameRegister
    PROVE  PlaceOK(Place(index))
<1> USE SizeAssumption
<1>1. CASE index = REGVALUE
  <2>1. Place(index) = [first |-> readRegIndex, n |-> 4]
    BY <1>1 DEF Place
  <2>2. /\ DOMAIN Place(index) = {"first", "n"}
        /\ Place(index).first = readRegIndex /\ Place(index).n = 4
    BY <2>1
  <2>3. readRegIndex \in Nat /\ readRegIndex + 4 <= REGSIZE + 3
    BY DEF RegistersOK
  <2>4. QED BY <2>2, <2>3 DEF PlaceOK
<1>2. CASE index # REGVALUE
  <2>1. Place(index) = FrameRegister[index] /\ index \in DOMAIN FrameRegister
    BY <1>2 DEF Place
  <2>2. /\ FrameRegister[index].first \in Nat /\ FrameRegister[index].first <= 85
        /\ FrameRegister[index].n \in {3, 4}
        /\ "fourth" \in DOMAIN FrameRegister[index] =>
             FrameRegister[index].fourth \in Nat /\ FrameRegister[index].fourth <= 64
    BY <2>1, FrameRegisterType
  <2>3. "fourth" \in DOMAIN FrameRegister[index] => FrameRegister[index].n = 3
    <3>1. index \in {80, 81, 82, 83, 84, 85, 86, 87, 88, 89, 90}
      BY <2>1 DEF FrameRegister
    <3>2. QED BY <3>1 DEF FrameRegister
  <2> DEFINE where == FrameRegister[index]
  <2> HIDE DEF where
  <2>4. where.first + where.n <= REGSIZE + 3 /\ ("fourth" \in DOMAIN where => where.fourth + 1 <= REGSIZE + 3)
    BY <2>2 DEF where
  <2>5. QED BY <2>1, <2>2, <2>3, <2>4 DEF PlaceOK, where
<1>3. QED BY <1>1, <1>2

\* The words of a true frame are those of the registers they go to.
LEMMA SourceIs ==
    ASSUME RegistersOK, REGSIZE >= 86,
           NEW index, index = REGVALUE \/ index \in DOMAIN FrameRegister
    PROVE  LET words == Source(index, readRegIndex)
               where == Place(index)
           IN  /\ \A k \in 1..3 : words[k] = DeviceWord(where.first + k - 1)
               /\ words[4] = DeviceWord(IF "fourth" \in DOMAIN where THEN where.fourth
                                        ELSE where.first + 4 - 1)
<1> DEFINE where == Place(index)
<1>1. PlaceOK(where)
  BY PlaceIs
<1>2. Source(index, readRegIndex) = IF "fourth" \in DOMAIN where
                                    THEN Append(DeviceWords(where.first, 3), DeviceWord(where.fourth))
                                    ELSE DeviceWords(where.first, 4)
  <2>1. CASE index = REGVALUE
    <3>1. where = [first |-> readRegIndex, n |-> 4]
      BY <2>1 DEF Place
    <3>2. DOMAIN where = {"first", "n"} /\ where.first = readRegIndex
      BY <3>1
    <3>3. QED BY <2>1, <3>2 DEF Source
  <2>2. CASE index # REGVALUE
    <3>1. where = FrameRegister[index] /\ index \in DOMAIN FrameRegister
      BY <2>2 DEF Place
    <3>2. QED BY <2>2, <3>1 DEF Source, OutputWords
  <2>3. QED BY <2>1, <2>2
<1> HIDE DEF where
<1>3. \A k \in 1..4 : DeviceWords(where.first, 4)[k] = DeviceWord(where.first + k - 1)
  BY DeviceWordsAre
<1>4. CASE "fourth" \in DOMAIN where
  <2>1. where.first \in Nat /\ 3 \in Nat /\ where.first + 3 <= 256
    BY <1>1, <1>4, SizeAssumption DEF PlaceOK
  <2>2. DeviceWords(where.first, 3) \in Seq(Word) /\ Len(DeviceWords(where.first, 3)) = 3
    BY <2>1, DeviceWordsType
  <2>3. \A k \in 1..3 : DeviceWords(where.first, 3)[k] = DeviceWord(where.first + k - 1)
    BY DeviceWordsAre
  <2> DEFINE S == Word \cup {DeviceWord(where.fourth)}
             words == Append(DeviceWords(where.first, 3), DeviceWord(where.fourth))
  <2>4. /\ \A k \in 1..3 : words[k] = DeviceWords(where.first, 3)[k]
        /\ words[4] = DeviceWord(where.fourth)
    <3>1. DeviceWords(where.first, 3) \in Seq(S) /\ DeviceWord(where.fourth) \in S
      BY <2>2
    <3> HIDE DEF S
    <3>2. QED BY <2>2, <3>1, AppendProperties
  <2>5. Source(index, readRegIndex) = words
    BY <1>2, <1>4
  <2> HIDE DEF words
  <2>6. QED BY <1>4, <2>3, <2>4, <2>5 DEF where
<1>5. CASE "fourth" \notin DOMAIN where
  <2>1. \A k \in 1..3 : k \in 1..4
    OBVIOUS
  <2>2. 4 \in 1..4
    OBVIOUS
  <2>3. QED BY <1>2, <1>3, <1>5, <2>1, <2>2 DEF where
<1>6. QED BY <1>4, <1>5

LEMMA CopeTrue ==
    ASSUME RegistersOK, REGSIZE >= 86,
           NEW index, NEW words \in Seq(Word), Len(words) \in {3, 4},
           \A k \in 1..Len(words) : words[k] = Source(index, readRegIndex)[k]
    PROVE  TrueParts(CopeWitData(index, words))
<1> DEFINE whole == Len(words) # 3
           where == Place(index)
           n == IF whole THEN where.n ELSE 3
<1>1. CASE index # REGVALUE /\ index \notin DOMAIN FrameRegister
  BY <1>1, NoneTrue DEF CopeWitData
<1>2. CASE ~(index # REGVALUE /\ index \notin DOMAIN FrameRegister)
  <2>1. PlaceOK(where)
    BY <1>2, PlaceIs
  <2>2. /\ \A k \in 1..3 : Source(index, readRegIndex)[k] = DeviceWord(where.first + k - 1)
        /\ Source(index, readRegIndex)[4] =
               DeviceWord(IF "fourth" \in DOMAIN where THEN where.fourth ELSE where.first + 4 - 1)
    BY <1>2, SourceIs
  <2>3. CopeWitData(index, words) =
            <<<<where.first, SubSeq(words, 1, n)>>>>
            \o (IF whole /\ "fourth" \in DOMAIN where
                THEN <<<<where.fourth, <<words[4]>>>>>> ELSE <<>>)
    BY <1>2 DEF CopeWitData, Place
  <2> HIDE DEF where
  <2>4. n \in {3, 4} /\ n <= Len(words) /\ where.first + n <= REGSIZE + 3
    <3>1. CASE Len(words) = 3
      BY <2>1, <3>1, SizeAssumption DEF PlaceOK
    <3>2. CASE Len(words) = 4
      BY <2>1, <3>2 DEF PlaceOK
    <3>3. QED BY <3>1, <3>2
  <2>5. n = 4 => whole /\ "fourth" \notin DOMAIN where
    BY <2>1 DEF PlaceOK
  <2> DEFINE piece == SubSeq(words, 1, n)
  <2>6. Len(piece) = n /\ \A k \in 1..n : piece[k] = words[k]
    <3>1. 1 \in Int /\ n \in Int /\ n - 1 + 1 = n /\ 1 <= n
      BY <2>4
    <3>2. \A i \in 1..n : words[i] \in Word
      <4>1. \A i \in 1..n : i \in 1..Len(words)
        BY <2>4
      <4>2. QED BY <4>1, ElementOfSeq
    <3>3. \A k \in 1..n : 1 + k - 1 = k
      BY <3>1
    <3> HIDE DEF n
    <3>4. Len(piece) = n /\ \A k \in 1..n : piece[k] = words[1 + k - 1]
      BY <3>1, <3>2, SubSeqProperties
    <3>5. QED BY <3>3, <3>4
  <2>7. \A k \in 1..n : piece[k] = DeviceWord(where.first + k - 1)
    <3> SUFFICES ASSUME NEW k \in 1..n PROVE piece[k] = DeviceWord(where.first + k - 1)
      OBVIOUS
    <3>1. k \in 1..Len(words) /\ (k \in 1..3 \/ (k = 4 /\ n = 4))
      BY <2>4
    <3>2. piece[k] = Source(index, readRegIndex)[k]
      BY <2>6, <3>1
    <3> HIDE DEF piece, n
    <3>3. QED BY <2>2, <2>5, <3>1, <3>2
  <2> DEFINE a == <<where.first, piece>>
             b == <<where.fourth, <<words[4]>>>>
  <2>8. n \in Nat /\ where.first \in Nat
    BY <2>1, <2>4 DEF PlaceOK
  <2> HIDE DEF n, piece
  <2>9. TrueParts(<<a>>)
    BY <2>4, <2>6, <2>7, <2>8, OneTrue
  <2>10. CASE whole /\ "fourth" \in DOMAIN where
    <3>1. /\ where.fourth \in Nat /\ where.fourth + 1 <= REGSIZE + 3
          /\ where.fourth + 1 - 1 = where.fourth
      BY <2>1, <2>10 DEF PlaceOK
    <3>2. words[4] = DeviceWord(where.fourth)
      <4>1. 4 \in 1..Len(words)
        <5>1. Len(words) = 4
          BY <2>10
        <5>2. QED BY <5>1
      <4>2. QED BY <2>2, <2>10, <4>1
    <3>3. Len(<<words[4]>>) = 1 /\ 1 \in Nat
      OBVIOUS
    <3>4. \A k \in 1..1 : <<words[4]>>[k] = DeviceWord(where.fourth + k - 1)
      <4>1. \A k \in 1..1 : k = 1
        OBVIOUS
      <4>2. <<words[4]>>[1] = words[4]
        OBVIOUS
      <4>3. QED BY <3>1, <3>2, <4>1, <4>2
    <3>5. TrueParts(<<b>>)
      BY <3>1, <3>3, <3>4, OneTrue
    <3>6. CopeWitData(index, words) = <<a>> \o <<b>>
      BY <2>3, <2>10 DEF n, piece
    <3> HIDE DEF a, b
    <3>7. ToSet(<<a>> \o <<b>>) \subseteq {a, b}
      BY TwoParts
    <3>8. a \in ToSet(<<a>>) /\ b \in ToSet(<<b>>)
      BY DEF ToSet
    <3>9. QED BY <2>9, <3>5, <3>6, <3>7, <3>8 DEF TrueParts
  <2>11. CASE ~(whole /\ "fourth" \in DOMAIN where)
    <3>1. CopeWitData(index, words) = <<a>> \o <<>>
      BY <2>3, <2>11 DEF n, piece
    <3> HIDE DEF a
    <3>2. <<a>> \o <<>> = <<a>>
      OBVIOUS
    <3>3. QED BY <2>9, <3>1, <3>2
  <2>12. QED BY <2>10, <2>11
<1>3. QED BY <1>1, <1>2

-----------------------------------------------------------------------------
(* The device's frames are true.                                           *)

\* Where the parts of a sequence of bytes are in it.
LEMMA PartsAre ==
    ASSUME NEW a \in Seq(Byte), NEW b \in Seq(Byte)
    PROVE  /\ a \o b \in Seq(Byte) /\ Len(a \o b) = Len(a) + Len(b)
           /\ Len(a) \in Nat /\ Len(b) \in Nat
           /\ \A i \in 1..Len(a) : (a \o b)[i] = a[i]
           /\ \A i \in 1..Len(b) : (a \o b)[Len(a) + i] = b[i]
<1>1. /\ a \o b \in Seq(Byte) /\ Len(a \o b) = Len(a) + Len(b)
      /\ \A i \in 1..(Len(a) + Len(b)) : (a \o b)[i] = IF i <= Len(a) THEN a[i] ELSE b[i - Len(a)]
  BY ConcatProperties
<1>2. Len(a) \in Nat /\ Len(b) \in Nat
  BY LenProperties
<1>3. \A i \in 1..Len(a) : i \in 1..(Len(a) + Len(b)) /\ i <= Len(a)
  BY <1>2
<1>4. \A i \in 1..Len(b) : /\ Len(a) + i \in 1..(Len(a) + Len(b)) /\ ~(Len(a) + i <= Len(a))
                            /\ Len(a) + i - Len(a) = i
  BY <1>2
<1>5. QED BY <1>1, <1>2, <1>3, <1>4

LEMMA FrontAndBack ==
    ASSUME NEW a \in Seq(Byte), NEW b \in Seq(Byte)
    PROVE  /\ SubSeq(a \o b, 1, Len(a)) = a
           /\ SubSeq(a \o b, Len(a) + 1, Len(a) + Len(b)) = b
<1>1. /\ a \o b \in Seq(Byte) /\ Len(a \o b) = Len(a) + Len(b)
      /\ Len(a) \in Nat /\ Len(b) \in Nat
      /\ \A i \in 1..Len(a) : (a \o b)[i] = a[i]
      /\ \A i \in 1..Len(b) : (a \o b)[Len(a) + i] = b[i]
  BY PartsAre
<1> DEFINE s == a \o b
           front == SubSeq(s, 1, Len(a))
           back == SubSeq(s, Len(a) + 1, Len(a) + Len(b))
<1>2. \A i \in 1..(Len(a) + Len(b)) : s[i] \in Byte
  BY <1>1, ElementOfSeq
<1> HIDE DEF s
<1>3. front \in Seq(Byte) /\ Len(front) = Len(a) /\ \A i \in 1..Len(a) : front[i] = s[i]
  <2>1. /\ 1 \in Int /\ Len(a) \in Int /\ \A i \in 1..Len(a) : i \in 1..(Len(a) + Len(b))
        /\ \A i \in 1..Len(a) : 1 + i - 1 = i
        /\ (IF 1 <= Len(a) THEN Len(a) - 1 + 1 ELSE 0) = Len(a) /\ Len(a) - 1 + 1 = Len(a)
    BY <1>1
  <2>2. \A i \in 1..Len(a) : s[i] \in Byte
    BY <1>2, <2>1
  <2>3. /\ front \in Seq(Byte)
        /\ Len(front) = IF 1 <= Len(a) THEN Len(a) - 1 + 1 ELSE 0
        /\ \A i \in 1..(Len(a) - 1 + 1) : front[i] = s[1 + i - 1]
    BY <2>1, <2>2, SubSeqProperties
  <2> HIDE DEF front
  <2>4. QED BY <2>1, <2>3
<1>4. back \in Seq(Byte) /\ Len(back) = Len(b) /\ \A i \in 1..Len(b) : back[i] = s[Len(a) + i]
  <2> DEFINE m == Len(a) + 1
             n == Len(a) + Len(b)
  <2>1. /\ m \in Int /\ n \in Int /\ \A i \in m..n : i \in 1..(Len(a) + Len(b))
        /\ \A i \in 1..Len(b) : m + i - 1 = Len(a) + i
        /\ (IF m <= n THEN n - m + 1 ELSE 0) = Len(b) /\ n - m + 1 = Len(b)
    BY <1>1
  <2>2. \A i \in m..n : s[i] \in Byte
    BY <1>2, <2>1
  <2> HIDE DEF m, n
  <2>3. /\ SubSeq(s, m, n) \in Seq(Byte)
        /\ Len(SubSeq(s, m, n)) = IF m <= n THEN n - m + 1 ELSE 0
        /\ \A i \in 1..(n - m + 1) : SubSeq(s, m, n)[i] = s[m + i - 1]
    BY <2>1, <2>2, SubSeqProperties
  <2>4. SubSeq(s, m, n) = back
    BY DEF m, n
  <2> HIDE DEF back
  <2>5. QED BY <2>1, <2>3, <2>4
<1>5. front = a
  <2> HIDE DEF front
  <2>1. \A i \in 1..Len(a) : front[i] = a[i]
    BY <1>1, <1>3 DEF s
  <2>2. QED BY <1>3, <2>1, SeqEqual
<1>6. back = b
  <2> HIDE DEF back
  <2>1. \A i \in 1..Len(b) : back[i] = b[i]
    BY <1>1, <1>4 DEF s
  <2>2. QED BY <1>4, <2>1, SeqEqual
<1>7. QED BY <1>5, <1>6 DEF s

\* The first ten bytes of an output frame.
Start(bytes, index, words) ==
    /\ bytes \in Seq(Byte) /\ Len(bytes) = 10
    /\ bytes[1] = HEADER /\ bytes[2] = index
    /\ \A j \in 1..8 : bytes[3 + j - 1] = LowHigh(words)[j]
    /\ CaliSum(bytes) \in Byte

LEMMA OutputBytes ==
    ASSUME NEW index \in Byte, NEW words \in Seq(Word), Len(words) = 4
    PROVE  Start(<<HEADER, index>> \o LowHigh(words), index, words)
<1> DEFINE start == <<HEADER, index>>
           low == LowHigh(words)
           bytes == start \o low
<1>1. start \in Seq(Byte) /\ Len(start) = 2 /\ start[1] = HEADER /\ start[2] = index
  BY ByteRange DEF ByteFacts, HEADER
<1>2. low \in Seq(Byte) /\ Len(low) = 8
  <2>1. LowHigh(words) \in Seq(Byte) /\ Len(LowHigh(words)) = 2 * Len(words)
    BY BytesOfWords
  <2>2. QED BY <2>1
<1> HIDE DEF start, low
<1>3. /\ bytes \in Seq(Byte) /\ Len(bytes) = 10
      /\ bytes[1] = start[1] /\ bytes[2] = start[2]
      /\ \A j \in 1..8 : bytes[2 + j] = low[j]
  <2>1. /\ start \o low \in Seq(Byte) /\ Len(start \o low) = Len(start) + Len(low)
        /\ \A i \in 1..Len(start) : (start \o low)[i] = start[i]
        /\ \A i \in 1..Len(low) : (start \o low)[Len(start) + i] = low[i]
    BY <1>1, <1>2, PartsAre
  <2>2. Len(start) = 2 /\ Len(low) = 8 /\ 2 + 8 = 10 /\ 1 \in 1..2 /\ 2 \in 1..2
    BY <1>1, <1>2
  <2>3. QED BY <2>1, <2>2
<1>4. \A j \in 1..8 : 3 + j - 1 = 2 + j
  OBVIOUS
<1> HIDE DEF bytes
<1>5. CaliSum(bytes) \in Byte
  <2>1. \A i \in 1..10 : bytes[i] \in Byte
    BY <1>3, ElementOfSeq
  <2>2. \A i \in 1..10 : bytes[i] \in Int
    <3>1. \A v \in Byte : v \in Int
      BY ByteRange
    <3>2. QED BY <2>1, <3>1
  <2>3. bytes \in Seq(Int)
    <3>1. bytes = [i \in 1..10 |-> bytes[i]]
      BY <1>3, LenProperties
    <3>2. [i \in 1..10 |-> bytes[i]] \in [1..10 -> Int]
      BY <2>2
    <3>3. QED BY <3>1, <3>2
  <2>4. QED BY <2>3, CaliSumByte
<1>6. Start(bytes, index, words)
  BY <1>1, <1>3, <1>4, <1>5 DEF Start, low
<1>7. QED BY <1>6 DEF bytes, start, low

\* Words that are those of the register the frame says.
Says(words, index, r) == \A k \in 1..4 : words[k] = Source(index, r)[k]

LEMMA SerialTrue ==
    ASSUME protocol \notin Can, NEW r,
           NEW index \in Byte, NEW words \in Seq(Word), Len(words) = 4, Says(words, index, r)
    PROVE  TrueSerial(OutputFrame(index, words), r)
<1> DEFINE bytes == <<HEADER, index>> \o LowHigh(words)
           sum == <<CaliSum(bytes)>>
           f == bytes \o sum
<1>a. Start(bytes, index, words)
  BY OutputBytes
<1> HIDE DEF bytes
<1>1. /\ bytes \in Seq(Byte) /\ Len(bytes) = 10
      /\ bytes[1] = HEADER /\ bytes[2] = index
      /\ \A j \in 1..8 : bytes[3 + j - 1] = LowHigh(words)[j]
      /\ CaliSum(bytes) \in Byte
  BY <1>a DEF Start
<1>2. OutputFrame(index, words) = f
  BY DEF OutputFrame, bytes
<1>3. sum \in Seq(Byte) /\ Len(sum) = 1 /\ sum[1] = CaliSum(bytes)
  BY <1>1
<1> HIDE DEF bytes, sum
<1>4. /\ Len(f) = 11 /\ \A i \in 1..10 : f[i] = bytes[i]
      /\ f[11] = sum[1] /\ SubSeq(f, 1, 10) = bytes
  <2>1. /\ Len(bytes \o sum) = Len(bytes) + Len(sum)
        /\ \A i \in 1..Len(bytes) : (bytes \o sum)[i] = bytes[i]
        /\ \A i \in 1..Len(sum) : (bytes \o sum)[Len(bytes) + i] = sum[i]
    BY <1>1, <1>3, PartsAre
  <2>2. SubSeq(bytes \o sum, 1, Len(bytes)) = bytes
    BY <1>1, <1>3, FrontAndBack
  <2>3. 10 + 1 = 11 /\ 1 \in 1..1
    OBVIOUS
  <2>4. QED BY <1>1, <1>3, <2>1, <2>2, <2>3
<1> HIDE DEF f
<1>5. f[1] = HEADER /\ f[2] = index /\ CaliSum(SubSeq(f, 1, 10)) = f[11]
  <2>1. 1 \in 1..10 /\ 2 \in 1..10
    OBVIOUS
  <2>2. QED BY <1>1, <1>3, <1>4, <2>1
<1>6. Same(LittleEndian(f, 3, 4), words, 4)
  <2>1. 3 \in Nat /\ 4 \in Nat /\ 4 <= Len(words) /\ 8 = 2 * 4 /\ \A j \in 1..8 : 3 + j - 1 \in 1..10
    OBVIOUS
  <2>2. Holds(f, 3, 4, LowHigh(words))
    BY <1>1, <1>4, <2>1 DEF Holds, Start
  <2>3. QED BY <2>1, <2>2, WordsSame
<1>7. \A k \in 1..4 : LittleEndian(f, 3, 4)[k] = Source(f[2], r)[k]
  BY <1>5, <1>6 DEF Says, Same
<1>8. QED BY <1>2, <1>4, <1>5, <1>7 DEF TrueSerial

LEMMA CanFrameTrue ==
    ASSUME protocol \in Can, NEW r, NEW index \in Byte, protocol = "905x_CAN" => index # 83,
           NEW words \in Seq(Word), Len(words) = 4, Says(words, index, r)
    PROVE  \A f \in ToSet(OutputFrame(index, words)) : TrueCan(f, protocol, r)
<1> DEFINE bytes == <<HEADER, index>> \o LowHigh(words)
           f == SubSeq(bytes, 1, 8)
<1>a. Start(bytes, index, words)
  BY OutputBytes
<1> HIDE DEF bytes
<1>1. /\ bytes \in Seq(Byte) /\ Len(bytes) = 10
      /\ bytes[1] = HEADER /\ bytes[2] = index
      /\ \A j \in 1..8 : bytes[3 + j - 1] = LowHigh(words)[j]
  BY <1>a DEF Start
<1>2. OutputFrame(index, words) = <<f>>
  BY DEF OutputFrame, bytes
<1>3. \A i \in 1..8 : f[i] = bytes[i]
  <2>1. \A i \in 1..8 : i \in 1..10 /\ 1 + i - 1 = i
    OBVIOUS
  <2>2. 1 \in Int /\ 8 \in Int /\ 8 - 1 + 1 = 8
    OBVIOUS
  <2>3. \A i \in 1..8 : bytes[i] \in Byte
    BY <1>1, <2>1, ElementOfSeq
  <2>4. \A i \in 1..(8 - 1 + 1) : SubSeq(bytes, 1, 8)[i] = bytes[1 + i - 1]
    BY <2>2, <2>3, SubSeqProperties
  <2>5. QED BY <2>1, <2>2, <2>4
<1> HIDE DEF f
<1>4. f[1] = HEADER /\ f[2] = index
  <2>1. 1 \in 1..8 /\ 2 \in 1..8
    OBVIOUS
  <2>2. QED BY <1>1, <1>3, <2>1
<1>5. Same(LittleEndian(f, 3, 3), words, 3)
  <2>1. /\ 3 \in Nat /\ 3 <= Len(words) /\ 6 = 2 * 3
        /\ \A j \in 1..6 : 3 + j - 1 \in 1..8 /\ j \in 1..8
    OBVIOUS
  <2>2. Holds(f, 3, 3, LowHigh(words))
    BY <1>1, <1>3, <2>1 DEF Holds, Start
  <2>3. QED BY <2>1, <2>2, WordsSame
<1>6. \A k \in 1..3 : LittleEndian(f, 3, 3)[k] = Source(f[2], r)[k]
  <2>1. \A k \in 1..3 : k \in 1..4
    OBVIOUS
  <2>2. QED BY <1>4, <1>5, <2>1 DEF Says, Same
<1>7. TrueCan(f, protocol, r)
  BY <1>4, <1>6 DEF TrueCan
<1>8. ToSet(<<f>>) = {f}
  BY DEF ToSet
<1>9. QED BY <1>2, <1>7, <1>8

LEMMA AngleTrue ==
    ASSUME NEW n \in 1..3, NEW r
    PROVE  \A f \in ToSet(AngleFrame(n)) : TrueCan(f, "905x_CAN", r)
<1> DEFINE words == DeviceWords(59 + 2 * n, 2)
           low == LowHigh(words)
           start == <<HEADER, 83, n, 0>>
           f == start \o low
<1>1. words \in Seq(Word) /\ Len(words) = 2 /\ \A k \in 1..2 : words[k] = DeviceWord(59 + 2 * n + k - 1)
  <2>1. 59 + 2 * n \in Nat /\ 2 \in Nat /\ (59 + 2 * n) + 2 <= 256
    OBVIOUS
  <2>2. QED BY <2>1, DeviceWordsType, DeviceWordsAre
<1> HIDE DEF words
<1>2. low \in Seq(Byte) /\ Len(low) = 4
  <2>1. LowHigh(words) \in Seq(Byte) /\ Len(LowHigh(words)) = 2 * Len(words)
    BY <1>1, BytesOfWords
  <2>2. QED BY <1>1, <2>1
<1>3. start \in Seq(Byte) /\ Len(start) = 4 /\ start[1] = HEADER /\ start[2] = 83 /\ start[3] = n
  <2>1. HEADER \in Byte /\ 83 \in Byte /\ n \in Byte /\ 0 \in Byte
    BY ByteRange DEF ByteFacts, HEADER
  <2> HIDE DEF HEADER
  <2>2. QED BY <2>1
<1>4. AngleFrame(n) = <<f>>
  BY DEF AngleFrame, words
<1> HIDE DEF start, low
<1>5. /\ f[1] = start[1] /\ f[2] = start[2] /\ f[3] = start[3]
      /\ \A j \in 1..4 : f[4 + j] = low[j]
  <2> HIDE DEF f
  <2>1. /\ \A i \in 1..Len(start) : (start \o low)[i] = start[i]
        /\ \A i \in 1..Len(low) : (start \o low)[Len(start) + i] = low[i]
    <3>1. start \in Seq(Byte) /\ low \in Seq(Byte)
      BY <1>2, <1>3
    <3>2. QED BY <3>1, PartsAre
  <2>2. 1 \in 1..4 /\ 2 \in 1..4 /\ 3 \in 1..4
    OBVIOUS
  <2>3. QED BY <1>2, <1>3, <2>1, <2>2 DEF f
<1> HIDE DEF f
<1>6. Same(LittleEndian(f, 5, 2), words, 2)
  <2>1. 5 \in Nat /\ 2 \in Nat /\ 2 <= Len(words) /\ 4 = 2 * 2 /\ \A j \in 1..4 : 5 + j - 1 = 4 + j
    BY <1>1
  <2>2. Holds(f, 5, 2, LowHigh(words))
    BY <1>5, <2>1 DEF Holds, low
  <2>3. QED BY <1>1, <2>1, <2>2, WordsSame
<1>7. TrueCan(f, "905x_CAN", r)
  <2>1. f[2] = 83 /\ f[3] = n
    BY <1>3, <1>5
  <2>2. QED BY <1>1, <1>6, <2>1 DEF TrueCan, Same
<1>8. ToSet(<<f>>) = {f}
  BY DEF ToSet
<1>9. QED BY <1>4, <1>7, <1>8

LEMMA ModbusTrue ==
    ASSUME protocol \in Modbus,
           NEW reg \in Nat, NEW n \in Nat, ReadRefusal(reg, n) = "OK"
    PROVE  TrueModbus(Answer(reg, n), reg)
<1>a. Answer(reg, n) = LET bytes == <<80, FuncR, 2 * n>> \o HighLow(DeviceWords(reg, n))
                       IN  bytes \o Crc16(bytes)
  BY DEF Answer, Modbus
<1>1. REGSIZE \in Nat /\ REGSIZE <= 253 /\ WIT_DATA_BUFF_SIZE \in Nat /\ WIT_DATA_BUFF_SIZE <= 256
  BY SizeAssumption
<1>2. reg + n < REGSIZE
  <2>1. reg + n >= REGSIZE => ReadRefusal(reg, n) = "INVAL"
    BY DEF ReadRefusal
  <2>2. QED BY <1>1, <2>1
<1>3. 2 * n + 5 <= WIT_DATA_BUFF_SIZE
  <2>1. protocol \notin {"NORMAL", "JY61"} /\ protocol \notin Can
    BY DEF Modbus, Can
  <2>2. ~(2 * n + 5 > WIT_DATA_BUFF_SIZE)
    BY <2>1 DEF ReadRefusal
  <2>3. QED BY <1>1, <2>2
<1> DEFINE words == DeviceWords(reg, n)
           start == <<80, FuncR, 2 * n>>
           body == HighLow(words)
           bytes == start \o body
           crc == Crc16(bytes)
           f == bytes \o crc
<1>4. words \in Seq(Word) /\ Len(words) = n /\ \A k \in 1..n : words[k] = DeviceWord(reg + k - 1)
  <2>1. reg + n <= 256
    BY <1>1, <1>2
  <2>2. QED BY <2>1, DeviceWordsType, DeviceWordsAre
<1> HIDE DEF words
<1>5. start \in Seq(Byte) /\ Len(start) = 3 /\ start[2] = FuncR /\ start[3] = 2 * n
  <2>1. 80 \in Byte /\ FuncR \in Byte /\ 2 * n \in Byte
    BY <1>1, <1>3, ByteRange DEF ByteFacts, FuncR
  <2> HIDE DEF FuncR
  <2>2. QED BY <2>1
<1>6. body \in Seq(Byte) /\ Len(body) = 2 * n
  BY <1>4, BytesOfWords
<1>7. Answer(reg, n) = f
  BY <1>a DEF words
<1> HIDE DEF start, body
<1>8. /\ bytes \in Seq(Byte) /\ Len(bytes) = 3 + 2 * n
      /\ bytes[2] = FuncR /\ bytes[3] = 2 * n
      /\ \A j \in 1..(2 * n) : bytes[3 + j] = body[j]
  <2>1. /\ start \o body \in Seq(Byte) /\ Len(start \o body) = Len(start) + Len(body)
        /\ \A i \in 1..Len(start) : (start \o body)[i] = start[i]
        /\ \A i \in 1..Len(body) : (start \o body)[Len(start) + i] = body[i]
    BY <1>5, <1>6, PartsAre
  <2>2. 2 \in 1..3 /\ 3 \in 1..3
    OBVIOUS
  <2>3. QED BY <1>5, <1>6, <2>1, <2>2
<1> HIDE DEF bytes
<1>9. crc \in Seq(Byte) /\ Len(crc) = 2
  <2>1. crc \in Seq(Byte)
    BY <1>8, Crc16Bytes
  <2>2. QED BY <2>1 DEF Crc16
<1> HIDE DEF crc
<1>10. /\ Len(f) = 2 * n + 5
       /\ \A i \in 1..(3 + 2 * n) : f[i] = bytes[i]
       /\ SubSeq(f, 1, 3 + 2 * n) = bytes /\ SubSeq(f, 3 + 2 * n + 1, 3 + 2 * n + 2) = crc
  <2>1. /\ Len(bytes \o crc) = Len(bytes) + Len(crc)
        /\ \A i \in 1..Len(bytes) : (bytes \o crc)[i] = bytes[i]
    BY <1>8, <1>9, PartsAre
  <2>2. /\ SubSeq(bytes \o crc, 1, Len(bytes)) = bytes
        /\ SubSeq(bytes \o crc, Len(bytes) + 1, Len(bytes) + Len(crc)) = crc
    BY <1>8, <1>9, FrontAndBack
  <2>3. Len(bytes \o crc) = 2 * n + 5
    BY <1>8, <1>9, <2>1
  <2>4. QED BY <1>8, <1>9, <2>1, <2>2, <2>3
<1> HIDE DEF f
<1>11. f[2] = FuncR /\ f[3] = 2 * n /\ (2 * n) \div 2 = n
  <2>1. 2 \in 1..(3 + 2 * n) /\ 3 \in 1..(3 + 2 * n) /\ (2 * n) \div 2 = n
    OBVIOUS
  <2>2. QED BY <1>8, <1>10, <2>1
<1>12. IsAnswer(f)
  <2>1. Len(f) >= 5 /\ Len(f) = f[3] + 5 /\ Len(f) - 2 = 3 + 2 * n
        /\ Len(f) - 1 = 3 + 2 * n + 1 /\ Len(f) = 3 + 2 * n + 2
    BY <1>10, <1>11
  <2>2. SubSeq(f, 1, Len(f) - 2) = bytes /\ SubSeq(f, Len(f) - 1, Len(f)) = crc
    BY <1>10, <2>1
  <2>3. QED BY <1>11, <2>1, <2>2 DEF IsAnswer, crc
<1>13. Same(BigEndian(f, 4, n), words, n)
  <2>1. 4 \in Nat /\ n <= Len(words) /\ \A j \in 1..(2 * n) : 4 + j - 1 = 3 + j /\ 3 + j \in 1..(3 + 2 * n)
    BY <1>4
  <2>2. Holds(f, 4, n, HighLow(words))
    BY <1>8, <1>10, <2>1 DEF Holds, body
  <2>3. QED BY <1>4, <2>1, <2>2, WordsSame
<1>14. reg + n <= REGSIZE
  BY <1>1, <1>2
<1>15. QED BY <1>4, <1>7, <1>11, <1>12, <1>13, <1>14 DEF TrueModbus, Same

-----------------------------------------------------------------------------
(* The driver files what is true.                                          *)

LEMMA BufferMoves ==
    ASSUME NEW b \in Seq(Byte), NEW l \in Seq(Byte), l # <<>>
    PROVE  /\ Append(b, Head(l)) \in Seq(Byte) /\ Append(b, Head(l)) # <<>>
           /\ Tail(l) \in Seq(Byte)
           /\ b \o l = Append(b, Head(l)) \o Tail(l)
<1>1. Head(l) \in Byte /\ Tail(l) \in Seq(Byte) /\ Len(Tail(l)) = Len(l) - 1
      /\ \A i \in 1..Len(Tail(l)) : Tail(l)[i] = l[i + 1]
  BY HeadTailProperties
<1> DEFINE w == Append(b, Head(l))
           t == Tail(l)
<1>2. /\ w \in Seq(Byte) /\ w # <<>> /\ Len(w) = Len(b) + 1
      /\ \A i \in 1..Len(b) : w[i] = b[i]
      /\ w[Len(b) + 1] = Head(l)
  BY <1>1, AppendProperties
<1>3. Head(l) = l[1]
  OBVIOUS
<1> HIDE DEF w, t
<1>4. /\ b \o l \in Seq(Byte) /\ Len(b \o l) = Len(b) + Len(l)
      /\ Len(b) \in Nat /\ Len(l) \in Nat
      /\ \A i \in 1..Len(b) : (b \o l)[i] = b[i]
      /\ \A i \in 1..Len(l) : (b \o l)[Len(b) + i] = l[i]
  BY PartsAre
<1>5. t \in Seq(Byte)
  BY <1>1 DEF t
<1>6. /\ w \o t \in Seq(Byte) /\ Len(w \o t) = Len(w) + Len(t)
      /\ \A i \in 1..Len(w) : (w \o t)[i] = w[i]
      /\ \A i \in 1..Len(t) : (w \o t)[Len(w) + i] = t[i]
  BY <1>2, <1>5, PartsAre
<1>7. Len(l) >= 1
  BY <1>4, EmptySeq
<1>8. Len(w \o t) = Len(b \o l)
  BY <1>1, <1>2, <1>4, <1>6 DEF t
<1>9. ASSUME NEW i \in 1..Len(b \o l) PROVE (b \o l)[i] = (w \o t)[i]
  <2>1. CASE i \in 1..Len(b)
    <3>1. i \in 1..Len(w)
      BY <1>2, <1>4, <2>1
    <3>2. QED BY <1>2, <1>4, <1>6, <2>1, <3>1
  <2>2. CASE i = Len(b) + 1
    <3>1. 1 \in 1..Len(l) /\ i \in 1..Len(w)
      BY <1>2, <1>4, <1>7, <2>2
    <3>2. QED BY <1>2, <1>3, <1>4, <1>6, <2>2, <3>1
  <2>3. CASE i \in (Len(b) + 2)..Len(b \o l)
    <3> DEFINE j == i - Len(b) - 1
    <3>1. /\ j \in 1..Len(t) /\ j + 1 \in 1..Len(l)
          /\ Len(w) + j = i /\ Len(b) + (j + 1) = i
      BY <1>1, <1>2, <1>4, <2>3 DEF t
    <3> HIDE DEF j
    <3>2. (w \o t)[i] = t[j] /\ (b \o l)[i] = l[j + 1]
      BY <1>4, <1>6, <3>1
    <3>3. QED BY <1>1, <3>1, <3>2 DEF t
  <2>4. i \in 1..Len(b) \/ i = Len(b) + 1 \/ i \in (Len(b) + 2)..Len(b \o l)
    <3>1. Len(b) \in Nat
      BY <1>4
    <3> HIDE DEF w
    <3>2. PICK m \in Nat : m = Len(b \o l)
      BY <1>4
    <3>3. i \in 1..m
      BY <3>2
    <3>4. i \in 1..Len(b) \/ i = Len(b) + 1 \/ i \in (Len(b) + 2)..m
      BY <3>1, <3>3
    <3>5. QED BY <3>2, <3>4
  <2>5. QED BY <2>1, <2>2, <2>3, <2>4
<1>10. b \o l = w \o t
  BY <1>4, <1>6, <1>8, <1>9, SeqEqual
<1>11. QED BY <1>1, <1>2, <1>10 DEF w, t

\* The scan waits for the last byte of a true frame, and takes it then.
LEMMA ScanOfTrue ==
    ASSUME protocol \in Serial \cup Modbus,
           NEW w \in Seq(Byte), NEW rest \in Seq(Byte), w # <<>>, NEW r,
           TrueFrame(w \o rest, protocol, r)
    PROVE  Scan(w) = IF rest = <<>> THEN Found(w) ELSE Waiting(w)
<1> DEFINE f == w \o rest
<1>1. /\ Len(f) = Len(w) + Len(rest) /\ Len(w) \in Nat /\ Len(rest) \in Nat
      /\ \A i \in 1..Len(w) : f[i] = w[i]
  BY PartsAre
<1>2. Len(w) >= 1 /\ (rest # <<>> => Len(rest) >= 1)
  BY <1>1, EmptySeq
<1>3. rest = <<>> => f = w
  BY ConcatEmptySeq
<1>a. TrueFrame(f, protocol, r)
  OBVIOUS
<1> HIDE DEF f
<1>4. CASE protocol \in Serial
  <2>1. Len(f) = 11 /\ f[1] = HEADER /\ CaliSum(SubSeq(f, 1, 10)) = f[11]
    BY <1>a, <1>4 DEF TrueFrame, TrueSerial
  <2>2. w[1] = HEADER
    <3>1. 1 \in 1..Len(w)
      BY <1>1, <1>2
    <3>2. QED BY <1>1, <2>1, <3>1
  <2>3. Scan(w) = ScanNormal(w)
    <3>1. protocol \notin Modbus
      BY <1>4 DEF Serial, Modbus
    <3>2. QED BY <1>4, <3>1 DEF Scan
  <2>4. CASE rest = <<>>
    <3>1. f = w
      BY <1>3, <2>4
    <3>2. Len(w) = 11 /\ CaliSum(SubSeq(w, 1, 10)) = w[11]
      BY <2>1, <3>1
    <3>3. Len(w) >= 11
      BY <3>2
    <3>4. QED BY <2>2, <2>3, <2>4, <3>2, <3>3 DEF ScanNormal
  <2>5. CASE rest # <<>>
    <3>1. ~(Len(w) >= 11) /\ Len(w) # WIT_DATA_BUFF_SIZE
      <4>1. Len(w) + Len(rest) = 11 /\ Len(rest) >= 1 /\ Len(w) \in Nat /\ Len(rest) \in Nat
        BY <1>1, <1>2, <2>1, <2>5
      <4>2. ~(Len(w) >= 11)
        BY <4>1
      <4>3. WIT_DATA_BUFF_SIZE >= 11
        BY SizeAssumption
      <4>4. QED BY <4>2, <4>3
    <3>2. QED BY <2>2, <2>3, <2>5, <3>1 DEF ScanNormal
  <2>6. QED BY <2>4, <2>5
<1>5. CASE protocol \notin Serial
  <2>1. IsAnswer(f)
    BY <1>a, <1>5 DEF TrueFrame, TrueModbus
  <2>2. Scan(w) = ScanModbus(w)
    BY <1>5 DEF Scan
  <2>3. CASE rest = <<>>
    <3>1. Len(w) >= 5 /\ w[2] = FuncR /\ Len(w) = w[3] + 5
          /\ Crc16(SubSeq(w, 1, Len(w) - 2)) = SubSeq(w, Len(w) - 1, Len(w))
      BY <1>3, <2>1, <2>3 DEF IsAnswer
    <3>2. ~(Len(w) <= 2) /\ Len(w) >= w[3] + 5
      BY <1>1, <3>1
    <3>3. QED BY <2>2, <2>3, <3>1, <3>2 DEF ScanModbus
  <2>4. CASE rest # <<>> /\ Len(w) <= 2
    BY <2>2, <2>4 DEF ScanModbus
  <2>5. CASE rest # <<>> /\ ~(Len(w) <= 2)
    <3>1. f[2] = FuncR /\ Len(f) = f[3] + 5
      BY <2>1 DEF IsAnswer
    <3>2. 2 \in 1..Len(w) /\ 3 \in 1..Len(w)
      BY <1>1, <2>5
    <3>3. w[2] = FuncR /\ w[3] = f[3] /\ w[3] \in Nat
      BY <1>1, <3>1, <3>2, ElementOfSeq, ByteRange
    <3>4. ~(Len(w) >= w[3] + 5)
      BY <1>1, <1>2, <2>5, <3>1, <3>3
    <3>5. QED BY <2>2, <2>5, <3>3, <3>4 DEF ScanModbus
  <2>6. QED BY <2>3, <2>4, <2>5
<1>6. QED BY <1>4, <1>5

LEMMA PartsTrue ==
    ASSUME RegistersOK, REGSIZE >= 86, protocol \in Serial \cup Modbus,
           NEW f \in Seq(Byte), TrueFrame(f, protocol, readRegIndex)
    PROVE  TrueParts(PartsOf(f))
<1>1. Len(f) \in Nat /\ (f = <<>> => Len(f) = 0)
  BY LenProperties
<1>2. CASE protocol \in Serial
  <2>1. /\ Len(f) = 11
        /\ \A k \in 1..4 : LittleEndian(f, 3, 4)[k] = Source(f[2], readRegIndex)[k]
    BY <1>2 DEF TrueFrame, TrueSerial
  <2>2. LittleEndian(f, 3, 4) \in Seq(Word) /\ Len(LittleEndian(f, 3, 4)) = 4
    <3>1. 3 \in Nat /\ 4 \in Nat /\ 3 >= 1 /\ 3 + 2 * 4 - 1 <= Len(f)
      BY <2>1
    <3>2. QED BY <3>1, WordsOfBytes
  <2>3. PartsOf(f) = CopeWitData(f[2], LittleEndian(f, 3, 4))
    BY <1>1, <1>2, <2>1 DEF PartsOf
  <2>4. QED BY <2>1, <2>2, <2>3, CopeTrue
<1>3. CASE protocol \notin Serial
  <2> DEFINE n == f[3] \div 2
             words == BigEndian(f, 4, n)
  <2>1. /\ Len(f) >= 5 /\ Len(f) = f[3] + 5 /\ readRegIndex + n <= REGSIZE
        /\ \A k \in 1..n : words[k] = DeviceWord(readRegIndex + k - 1)
    BY <1>3 DEF TrueFrame, TrueModbus, IsAnswer
  <2>2. f[3] \in Nat
    <3>1. 3 \in 1..Len(f)
      BY <1>1, <2>1
    <3>2. QED BY <3>1, ElementOfSeq, ByteRange
  <2>3. n \in Nat /\ 2 * n <= f[3]
    BY <2>2
  <2>4. PartsOf(f) = <<<<readRegIndex, words>>>>
    BY <1>1, <1>3, <2>1 DEF PartsOf
  <2> HIDE DEF n
  <2>5. Len(words) = n
    <3>1. 4 \in Nat /\ 4 >= 1 /\ 4 + 2 * n - 1 <= Len(f)
      BY <1>1, <2>1, <2>2, <2>3
    <3>2. QED BY <2>3, <3>1, WordsOfBytes
  <2> HIDE DEF words
  <2>6. readRegIndex \in Nat /\ readRegIndex + n <= REGSIZE + 3
    BY <2>1, <2>3, SizeAssumption DEF RegistersOK
  <2>7. QED BY <2>1, <2>3, <2>4, <2>5, <2>6, OneTrue
<1>4. QED BY <1>2, <1>3

LEMMA CanPartsTrue ==
    ASSUME RegistersOK, REGSIZE >= 86, NEW f \in Frame8, NEW wild,
           TrueCan(f, protocol, readRegIndex)
    PROVE  TrueParts(CanParts(f, wild))
<1>1. f \in Seq(Byte) /\ Len(f) = 8
  <2>1. PICK n \in Nat : n = 8
    OBVIOUS
  <2>2. f \in [1..n -> Byte]
    BY <2>1 DEF Frame8
  <2>3. f \in Seq(Byte) /\ Len(f) = n
    BY <2>2
  <2>4. QED BY <2>1, <2>3
<1>2. CASE f[1] # HEADER
  BY <1>2, NoneTrue DEF CanParts
<1>3. CASE f[1] = HEADER /\ protocol = "905x_CAN" /\ f[2] = 83
  <2> DEFINE reg == 59 + 2 * f[3]
             words == LittleEndian(f, 5, 2)
  <2>1. f[3] \in 1..3 /\ \A k \in 1..2 : words[k] = DeviceWord(reg + k - 1)
    BY <1>3 DEF TrueCan
  <2>2. CanParts(f, wild) = <<<<reg, words>>>>
    BY <1>3, <2>1 DEF CanParts
  <2>3. Len(words) = 2
    <3>1. 5 \in Nat /\ 2 \in Nat /\ 5 >= 1 /\ 5 + 2 * 2 - 1 <= Len(f)
      BY <1>1
    <3>2. QED BY <1>1, <3>1, WordsOfBytes
  <2>4. reg \in Nat /\ 2 \in Nat /\ reg + 2 <= REGSIZE + 3
    BY <2>1, SizeAssumption
  <2> HIDE DEF reg, words
  <2>5. QED BY <2>1, <2>2, <2>3, <2>4, OneTrue
<1>4. CASE f[1] = HEADER /\ ~(protocol = "905x_CAN" /\ f[2] = 83)
  <2> DEFINE words == LittleEndian(f, 3, 3)
  <2>1. \A k \in 1..3 : words[k] = Source(f[2], readRegIndex)[k]
    BY <1>4 DEF TrueCan
  <2>2. CanParts(f, wild) = CopeWitData(f[2], words)
    BY <1>4 DEF CanParts
  <2>3. words \in Seq(Word) /\ Len(words) = 3
    <3>1. 3 \in Nat /\ 3 >= 1 /\ 3 + 2 * 3 - 1 <= Len(f)
      BY <1>1
    <3>2. QED BY <1>1, <3>1, WordsOfBytes
  <2> HIDE DEF words
  <2>4. QED BY <2>1, <2>2, <2>3, CopeTrue
<1>5. QED BY <1>2, <1>3, <1>4

-----------------------------------------------------------------------------
(* Each step keeps the registers true.                                     *)

LEMMA DeliverTrue ==
    ASSUME StreamOK, RegistersOK, REGSIZE >= 86, RegistersTrue, InStep, Deliver
    PROVE  RegistersTrue' /\ InStep'
<1>1. line # <<>> /\ line' = Tail(line)
  BY DEF Deliver
<1>2. CASE protocol \in Can
  <2>1. WitCanDataIn(Head(line))
    BY <1>2 DEF Deliver
  <2>2. UNCHANGED <<protocol, callbacks, buff, readRegIndex>>
    BY <2>1 DEF WitCanDataIn
  <2>3. line \in Seq(Frame8)
    BY <1>2 DEF StreamOK
  <2>4. Head(line) \in Frame8 /\ Head(line) \in ToSet(line) /\ ToSet(Tail(line)) \subseteq ToSet(line)
    <3>1. /\ Head(line) \in Frame8 /\ Len(Tail(line)) = Len(line) - 1
          /\ \A i \in 1..Len(Tail(line)) : Tail(line)[i] = line[i + 1]
      BY <1>1, <2>3, HeadTailProperties
    <3>2. Len(line) \in Nat /\ Len(line) >= 1 /\ Head(line) = line[1]
      BY <1>1, <2>3, LenProperties, EmptySeq
    <3>3. 1 \in 1..Len(line) /\ \A i \in 1..Len(Tail(line)) : i + 1 \in 1..Len(line)
      BY <3>1, <3>2
    <3>4. \A i \in 1..Len(line) : line[i] \in ToSet(line)
      BY DEF ToSet
    <3>5. \A v \in ToSet(Tail(line)) : \E i \in 1..Len(Tail(line)) : v = Tail(line)[i]
      BY DEF ToSet
    <3>6. QED BY <3>1, <3>2, <3>3, <3>4, <3>5
  <2>5. InStep'
    <3>1. protocol \notin Serial \cup Modbus
      BY <1>2 DEF Can, Serial, Modbus
    <3>2. QED BY <1>1, <2>2, <2>4, <3>1 DEF InStep
  <2>6. CASE UNCHANGED <<sReg, data>>
    BY <2>5, <2>6 DEF RegistersTrue
  <2>7. CASE \E wild : File(CanParts(Head(line), wild))
    <3>1. TrueCan(Head(line), protocol, readRegIndex)
      BY <1>2, <2>4 DEF InStep
    <3>2. PICK wild : File(CanParts(Head(line), wild))
      BY <2>7
    <3>3. TrueParts(CanParts(Head(line), wild))
      BY <2>4, <3>1, CanPartsTrue
    <3>4. QED BY <2>5, <3>2, <3>3, FileTrue
  <2>8. QED BY <2>1, <2>6, <2>7 DEF WitCanDataIn
<1>3. CASE protocol \notin Can
  <2>1. WitSerialDataIn(Head(line))
    BY <1>3 DEF Deliver
  <2>2. UNCHANGED <<protocol, callbacks, readRegIndex>>
    BY <2>1 DEF WitSerialDataIn
  <2>3. line \in Seq(Byte) /\ buff \in Seq(Byte)
    BY <1>3 DEF StreamOK
  <2>4. CASE "reg" \notin callbacks
    <3>1. UNCHANGED <<buff, sReg>>
      BY <2>1, <2>4 DEF WitSerialDataIn
    <3>2. QED BY <1>3, <2>2, <2>4, <3>1 DEF InStep, RegistersTrue
  <2>5. CASE "reg" \in callbacks /\ protocol \in Serial \cup Modbus
    <3> DEFINE w == Append(buff, Head(line))
               rest == Tail(line)
    <3>1. /\ w \in Seq(Byte) /\ w # <<>> /\ rest \in Seq(Byte)
          /\ buff \o line = w \o rest
      BY <1>1, <2>3, BufferMoves
    <3>2. TrueFrame(w \o rest, protocol, readRegIndex)
      BY <1>1, <2>5, <3>1 DEF InStep
    <3>3. buff' = Scan(w).left /\ File(PartsOf(Scan(w).frame))
      BY <2>1, <2>5 DEF WitSerialDataIn
    <3>4. line' = rest
      BY <1>1
    <3> HIDE DEF w, rest
    <3>5. Scan(w) = IF rest = <<>> THEN Found(w) ELSE Waiting(w)
      BY <2>5, <3>1, <3>2, ScanOfTrue
    <3>6. CASE rest = <<>>
      <4>1. Scan(w).left = <<>> /\ Scan(w).frame = w
        BY <3>5, <3>6 DEF Found
      <4>2. TrueFrame(w, protocol, readRegIndex)
        <5>1. w \o rest = w
          BY <3>1, <3>6, ConcatEmptySeq
        <5>2. QED BY <3>2, <5>1
      <4>3. TrueParts(PartsOf(w))
        BY <2>5, <3>1, <4>2, PartsTrue
      <4>4. RegistersTrue'
        BY <3>3, <4>1, <4>3, FileTrue
      <4>5. InStep'
        BY <1>3, <2>2, <2>5, <3>3, <3>4, <3>6, <4>1 DEF InStep
      <4>6. QED BY <4>4, <4>5
    <3>7. CASE rest # <<>>
      <4>1. Scan(w).left = w /\ Scan(w).frame = <<>>
        BY <3>5, <3>7 DEF Waiting
      <4>2. PartsOf(<<>>) = <<>>
        BY DEF PartsOf
      <4>3. RegistersTrue'
        BY <3>3, <4>1, <4>2, NoneTrue, FileTrue
      <4>4. InStep'
        BY <1>3, <2>2, <2>5, <3>2, <3>3, <3>4, <3>7, <4>1 DEF InStep
      <4>5. QED BY <4>3, <4>4
    <3>8. QED BY <3>6, <3>7
  <2>6. CASE "reg" \in callbacks /\ protocol \notin Serial \cup Modbus
    <3>1. /\ File(PartsOf(Scan(Append(buff, Head(line))).frame))
      BY <2>1, <2>6 DEF WitSerialDataIn
    <3>2. Scan(Append(buff, Head(line))).frame = <<>>
      BY <2>6 DEF Scan, Waiting
    <3>3. PartsOf(<<>>) = <<>>
      BY DEF PartsOf
    <3>4. RegistersTrue'
      BY <3>1, <3>2, <3>3, NoneTrue, FileTrue
    <3>5. InStep'
      BY <1>3, <2>2, <2>6 DEF InStep
    <3>6. QED BY <3>4, <3>5
  <2>7. QED BY <2>4, <2>5, <2>6
<1>4. QED BY <1>2, <1>3

\* A frame that the device begins when nothing is on the line.
LEMMA FrameBegins ==
    ASSUME InStep, line = <<>>, UNCHANGED <<protocol, callbacks, buff>>,
           protocol \in Serial \cup Modbus =>
                line' \in Seq(Byte) /\ TrueFrame(line', protocol, readRegIndex'),
           protocol \in Can => \A f \in ToSet(line') : TrueCan(f, protocol, readRegIndex')
    PROVE  InStep'
<1>1. ASSUME "reg" \in callbacks, protocol \in Serial \cup Modbus
      PROVE  buff' = <<>> /\ TrueFrame(buff' \o line', protocol', readRegIndex')
  <2>1. buff' = <<>>
    BY <1>1 DEF InStep
  <2>2. <<>> \o line' = line'
    BY <1>1, ConcatEmptySeq
  <2>3. QED BY <1>1, <2>1, <2>2
<1>2. "reg" \notin callbacks => buff' = <<>>
  BY DEF InStep
<1>3. QED BY <1>1, <1>2 DEF InStep

LEMMA OutputTrue ==
    ASSUME StreamOK, StreamOK', REGVALUE \notin Outputs, RegistersTrue, InStep, SendOutput
    PROVE  RegistersTrue' /\ InStep'
<1>1. UNCHANGED <<protocol, callbacks, buff, readRegIndex, sReg>> /\ line = <<>> /\ protocol \in Serial \cup Can
  BY DEF SendOutput, driver
<1>2. RegistersTrue'
  BY <1>1 DEF RegistersTrue
<1>3. ASSUME NEW index \in Outputs, protocol = "905x_CAN" => index # 83,
             line' = OutputFrame(index, OutputWords(index))
      PROVE  InStep'
  <2>1. index \in Byte
    BY SizeAssumption DEF Byte
  <2>2. OutputWords(index) \in Seq(Word) /\ Len(OutputWords(index)) = 4
    BY OutputWordsType
  <2>3. Says(OutputWords(index), index, readRegIndex)
    BY <1>3 DEF Says, Source
  <2>4. protocol \in Serial \cup Modbus =>
            line' \in Seq(Byte) /\ TrueFrame(line', protocol, readRegIndex')
    <3> SUFFICES ASSUME protocol \in Serial
                 PROVE  line' \in Seq(Byte) /\ TrueFrame(line', protocol, readRegIndex')
      BY <1>1 DEF Serial, Can, Modbus
    <3>1. protocol \notin Can
      BY DEF Serial, Can
    <3>2. TrueSerial(line', readRegIndex)
      BY <1>3, <2>1, <2>2, <2>3, <3>1, SerialTrue
    <3>3. QED BY <1>1, <3>1, <3>2 DEF TrueFrame, StreamOK
  <2>5. protocol \in Can => \A f \in ToSet(line') : TrueCan(f, protocol, readRegIndex')
    BY <1>1, <1>3, <2>1, <2>2, <2>3, CanFrameTrue
  <2>6. QED BY <1>1, <2>4, <2>5, FrameBegins
<1>4. ASSUME protocol = "905x_CAN", NEW n \in 1..3, line' = AngleFrame(n)
      PROVE  InStep'
  <2>1. \A f \in ToSet(line') : TrueCan(f, protocol, readRegIndex')
    BY <1>4, AngleTrue
  <2>2. protocol \notin Serial \cup Modbus
    BY <1>4 DEF Serial, Modbus
  <2>3. QED BY <1>1, <2>1, <2>2, FrameBegins
<1>5. QED BY <1>2, <1>3, <1>4 DEF SendOutput

LEMMA ReadWithin ==
    ASSUME NEW reg \in Nat, NEW n \in Nat
    PROVE  ReadRefusal(reg, n) = "OK" => reg + n < REGSIZE
BY SizeAssumption DEF ReadRefusal

\* A read: its answer, or over I2C the words at once.
LEMMA ReadTrue ==
    ASSUME StreamOK, StreamOK', RegistersTrue, InStep,
           NEW reg \in Nat, NEW n \in Nat, NEW bus, WitReadReg(reg, n, bus),
           call'.ret = "OK" => line = <<>>,
           line' = IF call'.sent # <<>> THEN line \o Answer(reg, n) ELSE line
    PROVE  RegistersTrue' /\ InStep'
<1> DEFINE refusal == ReadRefusal(reg, n)
           arrived == protocol = "I2C" /\ bus = 1
<1>1. UNCHANGED <<protocol, callbacks, buff>>
  BY DEF WitReadReg
<1>2. /\ call'.ret = IF refusal = "OK" /\ arrived /\ "reg" \notin callbacks THEN "EMPTY" ELSE refusal
      /\ call'.sent = IF refusal = "OK" /\ protocol # "I2C"
                      THEN <<[read |-> reg, number |-> n]>> ELSE <<>>
      /\ readRegIndex' = IF call'.ret = "OK" THEN reg ELSE readRegIndex
  BY DEF WitReadReg, Returns, NextReadIndex
<1>3. ReadRefusal(reg, n) = "OK" => reg + n < REGSIZE
  BY ReadWithin
<1>4. RegistersTrue'
  <2>1. CASE UNCHANGED <<sReg, data>>
    BY <2>1 DEF RegistersTrue
  <2>2. CASE refusal = "OK" /\ File(<<<<reg, I2cWords(reg, n)>>>>)
    <3>1. reg + n <= 256 /\ reg + n <= REGSIZE + 3
      BY <1>3, <2>2, SizeAssumption
    <3>2. TrueParts(<<<<reg, I2cWords(reg, n)>>>>)
      BY <3>1, DeviceWordsType, DeviceWordsAre, I2cWordsAre, OneTrue
    <3>3. QED BY <2>2, <3>2, FileTrue
  <2>3. QED BY <2>1, <2>2 DEF WitReadReg
<1>5. InStep'
  <2>1. CASE line' = line /\ readRegIndex' = readRegIndex
    BY <1>1, <2>1 DEF InStep
  <2>2. CASE refusal = "OK" /\ protocol # "I2C"
    <3>1. call'.ret = "OK" /\ call'.sent # <<>> /\ readRegIndex' = reg
      BY <1>2, <2>2
    <3>2. line = <<>> /\ line' = <<>> \o Answer(reg, n)
      BY <3>1
    <3>3. Answer(reg, n) \in IF protocol \in Can THEN Seq(Frame8) ELSE Seq(Byte)
      BY <2>2, AnswerType
    <3>4. line' = Answer(reg, n)
      BY <3>2, <3>3, ConcatEmptySeq
    <3>5. CASE protocol \in Modbus
      <4>1. TrueFrame(line', protocol, readRegIndex')
        <5>1. protocol \notin Serial
          BY <3>5 DEF Serial, Modbus
        <5>2. QED BY <2>2, <3>1, <3>4, <3>5, <5>1, ModbusTrue DEF TrueFrame
      <4>2. protocol \notin Can
        BY <3>5 DEF Modbus, Can
      <4>3. QED BY <1>1, <3>2, <3>3, <3>4, <4>1, <4>2, FrameBegins
    <3>6. CASE protocol \notin Modbus
      <4>1. Answer(reg, n) = OutputFrame(REGVALUE, DeviceWords(reg, 4))
        BY <2>2, <3>6 DEF Answer
      <4>2. DeviceWords(reg, 4) \in Seq(Word) /\ Len(DeviceWords(reg, 4)) = 4
        <5>1. 4 \in Nat /\ reg + 4 <= 256
          BY <1>3, <2>2, SizeAssumption
        <5>2. QED BY <5>1, DeviceWordsType
      <4>3. REGVALUE \in Byte /\ REGVALUE # 83
        BY ByteRange DEF ByteFacts, REGVALUE
      <4>4. Says(DeviceWords(reg, 4), REGVALUE, reg)
        BY DEF Says, Source
      <4>5. CASE protocol \in Serial
        <5>1. protocol \notin Can
          BY <4>5 DEF Serial, Can
        <5>2. TrueFrame(line', protocol, readRegIndex')
          BY <3>1, <3>4, <4>1, <4>2, <4>3, <4>4, <4>5, <5>1, SerialTrue DEF TrueFrame
        <5>3. QED BY <1>1, <3>2, <3>3, <3>4, <5>1, <5>2, FrameBegins
      <4>6. CASE protocol \in Can
        <5>1. \A f \in ToSet(line') : TrueCan(f, protocol, readRegIndex')
          BY <3>1, <3>4, <4>1, <4>2, <4>3, <4>4, <4>6, CanFrameTrue
        <5>2. protocol \notin Serial \cup Modbus
          BY <4>6 DEF Serial, Can, Modbus
        <5>3. QED BY <1>1, <3>2, <5>1, <5>2, FrameBegins
      <4>7. QED BY <2>2, <3>6, <4>5, <4>6 DEF StreamOK, AllProtocols
    <3>7. QED BY <3>5, <3>6
  <2>3. CASE protocol = "I2C"
    <3>1. protocol \notin Serial \cup Modbus /\ protocol \notin Can
      BY <2>3 DEF Serial, Can, Modbus
    <3>2. QED BY <1>1, <3>1 DEF InStep
  <2>4. CASE refusal # "OK"
    BY <1>2, <2>1, <2>4
  <2>5. QED BY <2>2, <2>3, <2>4
<1>6. QED BY <1>4, <1>5

LEMMA CallTrue ==
    ASSUME StreamOK, StreamOK', RegistersTrue, InStep, Call, StartsBetweenFrames
    PROVE  RegistersTrue' /\ InStep'
<1> DEFINE Same4 == UNCHANGED <<protocol, callbacks, buff, readRegIndex, sReg>>
<1>1. CASE Same4 /\ line' = line
  BY <1>1 DEF RegistersTrue, InStep
\* A new start with nothing in the buffer and nothing on the line.
<1>2. CASE sReg' = sReg /\ buff' = <<>> /\ line' = <<>>
  <2>1. ToSet(<<>>) = {}
    BY DEF ToSet
  <2>2. QED BY <1>2, <2>1 DEF RegistersTrue, InStep
<1>3. CASE line' = line /\ line = <<>> /\ \E reg \in {1, REGSIZE}, bus \in BusResults : WitWriteReg(reg, 0, bus)
  BY <1>1, <1>3 DEF WitWriteReg, driver
<1>4. CASE line' = line /\ line = <<>> /\ \E s \in Settings, bus \in BusResults : WitSet(s[1], s[2], bus)
  <2>1. UNCHANGED driver
    BY <1>4 DEF WitSet
  <2>2. QED BY <1>1, <1>4, <2>1 DEF driver
<1>5. CASE line' = line /\ line = <<>> /\ \E cb \in Registered, null \in BOOLEAN : Register(cb, null)
  <2>1. UNCHANGED <<protocol, buff, readRegIndex, sReg>> /\ callbacks \subseteq callbacks'
    BY <1>5 DEF Register
  <2>2. ToSet(<<>>) = {}
    BY DEF ToSet
  <2>3. QED BY <1>5, <2>1, <2>2 DEF RegistersTrue, InStep
<1>6. ASSUME KeepLine, NEW p \in AllProtocols, Restarted(p), call'.ret = "OK",
             call'.name \in {"WitInit", "navi_jy901_init"}
      PROVE  RegistersTrue' /\ InStep'
  <2>1. sReg' = sReg /\ buff' = <<>>
    BY <1>6 DEF Restarted
  <2>2. line' = <<>>
    BY <1>6 DEF KeepLine, StartsBetweenFrames
  <2>3. QED BY <1>2, <2>1, <2>2
<1>7. ASSUME KeepLine, NEW p \in Protocols, WitInit(p)
      PROVE  RegistersTrue' /\ InStep'
  <2>1. CASE p \in AllProtocols
    <3>1. Restarted(p)
      BY <1>7, <2>1 DEF WitInit
    <3>2. call'.ret = "OK" /\ call'.name = "WitInit"
      BY <1>7, <2>1 DEF WitInit, Returns
    <3>3. QED BY <1>6, <1>7, <2>1, <3>1, <3>2
  <2>2. CASE p \notin AllProtocols
    <3>1. Same4
      BY <1>7, <2>2 DEF WitInit
    <3>2. QED BY <1>1, <1>7, <3>1 DEF KeepLine
  <2>3. QED BY <2>1, <2>2
<1>8. CASE WitDeInit
  <2>1. sReg' = sReg /\ buff' = <<>> /\ callbacks' = {} /\ protocol' = "NORMAL"
    BY <1>8 DEF WitDeInit, Restarted
  <2>2. "NORMAL" \notin Can
    BY DEF Can
  <2>3. QED BY <2>1, <2>2 DEF RegistersTrue, InStep
<1>9. ASSUME KeepLine, NEW iic \in BOOLEAN, NEW opened \in BOOLEAN, navi_jy901_init(iic, opened)
      PROVE  RegistersTrue' /\ InStep'
  <2>1. CASE opened
    <3> DEFINE p == IF iic THEN "I2C" ELSE "NORMAL"
    <3>1. Restarted(p)
      BY <1>9, <2>1 DEF navi_jy901_init
    <3>2. call'.ret = "OK" /\ call'.name = "navi_jy901_init"
      BY <1>9, <2>1 DEF navi_jy901_init, Returns
    <3>3. p \in AllProtocols
      BY DEF AllProtocols, Serial
    <3> HIDE DEF p
    <3>4. QED BY <1>6, <1>9, <3>1, <3>2, <3>3
  <2>2. CASE ~opened
    <3>1. UNCHANGED driver
      BY <1>9, <2>2 DEF navi_jy901_init
    <3>2. QED BY <1>1, <1>9, <3>1 DEF KeepLine, driver
  <2>3. QED BY <2>1, <2>2
<1>10. ASSUME NEW r \in Reads, NEW bus \in BusResults, WitReadReg(r[1], r[2], bus),
              call'.ret = "OK" => line = <<>>,
              line' = IF call'.sent # <<>> THEN line \o Answer(r[1], r[2]) ELSE line
       PROVE  RegistersTrue' /\ InStep'
  <2>1. r[1] \in Nat /\ r[2] \in Nat
    BY SizeAssumption
  <2>2. QED BY <1>10, <2>1, ReadTrue
<1>11. QED BY <1>3, <1>4, <1>5, <1>7, <1>8, <1>9, <1>10 DEF Call

LEMMA NextTrue ==
    ASSUME StreamOK, RegistersOK, CountersOK, REGSIZE >= 86, REGVALUE \notin Outputs,
           TrueInv, [Next]_vars, StartsBetweenFrames
    PROVE  TrueInv'
<1> SUFFICES ASSUME faults' = 0 PROVE RegistersTrue' /\ InStep'
  BY DEF TrueInv
<1>1. StreamOK'
  BY NextStream
<1>2. CASE Disturb
  <2>1. faults' = faults + 1 /\ faults \in Nat
    BY <1>2, SizeAssumption DEF Disturb, CountersOK
  <2>2. QED BY <2>1
<1>3. CASE ~Disturb
  <2>1. faults' = faults
    BY <1>3 DEF Next, Call, SendOutput, Deliver, vars, environment
  <2>2. RegistersTrue /\ InStep
    BY <2>1 DEF TrueInv
  <2>3. CASE UNCHANGED vars
    BY <2>2, <2>3 DEF vars, driver, environment, RegistersTrue, InStep
  <2>4. QED BY <1>1, <1>3, <2>2, <2>3, CallTrue, OutputTrue, DeliverTrue DEF Next
<1>4. QED BY <1>2, <1>3

\* Whatever the program reads and writes, whatever frames the device sends in
\* between, and whichever protocol they speak: as long as no byte is lost or
\* changed on the line, and the driver is not started over in the middle of a
\* frame, each register that it has filled holds the device's register of
\* that number.  The array has room for the frames that the device sends
\* unasked, and none of those looks like an answer.
THEOREM RegistersFiled ==
    ASSUME REGSIZE >= 86, REGVALUE \notin Outputs
    PROVE  Spec /\ [][StartsBetweenFrames]_vars => [](faults = 0 => RegistersTrue)
<1> DEFINE Inv == StreamOK /\ RegistersOK /\ CountersOK /\ TrueInv
<1>1. Init => Inv
  <2> SUFFICES ASSUME Init PROVE Inv
    OBVIOUS
  <2>1. StreamOK
    BY InitStream
  <2>2. RegistersOK
    BY SizeAssumption DEF Init, RegistersOK
  <2>3. CountersOK
    BY SizeAssumption DEF Init, CountersOK, Idle, CallbacksOf, Callback
  <2>4. TrueInv
    <3>1. ToSet(<<>>) = {} /\ DOMAIN <<>> = {}
      BY DEF ToSet
    <3>2. QED BY <3>1 DEF Init, TrueInv, RegistersTrue, InStep
  <2>5. QED BY <2>1, <2>2, <2>3, <2>4
<1>2. Inv /\ [Next]_vars /\ [StartsBetweenFrames]_vars => Inv'
  <2> SUFFICES ASSUME Inv, [Next]_vars, [StartsBetweenFrames]_vars PROVE Inv'
    OBVIOUS
  <2>1. StreamOK' /\ RegistersOK' /\ CountersOK'
    BY NextStream, NextRegisters, NextCounts
  <2>2. CASE StartsBetweenFrames
    BY <2>1, <2>2, NextTrue
  <2>3. CASE UNCHANGED vars
    BY <2>1, <2>3 DEF TrueInv, InStep, RegistersTrue, vars, driver, environment
  <2>4. QED BY <2>2, <2>3
<1>3. Inv => (faults = 0 => RegistersTrue)
  BY DEF TrueInv
<1>4. QED BY <1>1, <1>2, <1>3, PTL DEF Spec
=============================================================================
