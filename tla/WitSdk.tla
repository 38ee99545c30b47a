-------------------------------- MODULE WitSdk --------------------------------
(***************************************************************************)
(* The attitude sensor's driver: 3rd/wit_c_sdk/wit_c_sdk.c and the         *)
(* program's side of it, user/peripheral/wt_jy901.c.  The driver finds     *)
(* frames in a stream of bytes (or is handed CAN frames, or reads over     *)
(* I2C), files their words in the register array sReg and calls            *)
(* jy901_data_update back, which copies some registers to g_jy901_data.    *)
(*                                                                         *)
(* Every call is one step: the program is single threaded, and the loop    *)
(* hands received bytes over one by one, between calls.  A word is a pair  *)
(* of bytes <<high, low>>.  The device and the line, which may lose or     *)
(* change bytes, are the environment.                                      *)
(***************************************************************************)
EXTENDS Integers, Sequences, FiniteSets, SequencesExt

CONSTANTS
    WIT_DATA_BUFF_SIZE,  \* 256 in wit_c_sdk.h
    REGSIZE,             \* 0x90 in REG.h
    Protocols,           \* the protocols that WitInit is called with
    Reads,               \* the <<register, number>> the program reads
    Settings,            \* the configuration calls it makes, see Setting
    Registered,          \* the callbacks it registers besides navi_jy901_init
    Outputs,             \* the frames that the device sends unasked
    Noise,               \* what a damaged byte may turn into
    MaxCalls, MaxFrames, MaxFaults,  \* bounds of a run
    I2cResults           \* what an I2C callback may return, see below

ASSUME SizeAssumption ==
    /\ WIT_DATA_BUFF_SIZE \in 11..256
    /\ REGSIZE \in 1..253         \* a register's number is a byte
    /\ Outputs \subseteq 0..255
    /\ Noise \subseteq 0..255
    /\ I2cResults \subseteq {-1, 0, 1}
    /\ Reads \subseteq Nat \X Nat
    /\ Registered \subseteq {"reg", "serial", "can", "i2c", "delay"}
    /\ MaxCalls \in Nat /\ MaxFrames \in Nat /\ MaxFaults \in Nat

VARIABLES
    protocol,      \* s_uiProtoclo
    callbacks,     \* which of the p_Wit...Func pointers are set
    buff,          \* the first s_uiWitDataCnt bytes of s_ucWitDataBuff
    readRegIndex,  \* s_uiReadRegIndex
    sReg,          \* the registers that were written, and what they hold
    data,          \* g_jy901_data: the words it was computed from
    call,          \* the last call: its name, what it returned and what
                   \* it gave to the write callback
    line,          \* what is on its way from the device, unit by unit
    calls, frames, faults,   \* what the environment has used up
    seen, taken    \* history since WitInit: bytes handed over, and after
                   \* how many of them a frame was taken

driver == <<protocol, callbacks, buff, readRegIndex, sReg, data>>
environment == <<line, calls, frames, faults>>
vars == <<driver, call, environment, seen, taken>>

Byte == 0..255
Word == Byte \X Byte
Callback == {"reg", "serial", "can", "i2c", "delay"}
Serial == {"NORMAL", "JY61"}
Modbus == {"MODBUS", "905x_MODBUS"}
Can == {"CAN", "905x_CAN"}
AllProtocols == Serial \cup Modbus \cup Can \cup {"I2C"}

-----------------------------------------------------------------------------
(* Checksums and words. *)

CaliSum(s) ==
    LET sum[n \in 0..Len(s)] == IF n = 0 THEN 0 ELSE sum[n - 1] + s[n]
    IN  sum[Len(s)] % 256

Xor(a, b) ==      \* of 16 bits
    LET bit(p) == ((a \div p + b \div p) % 2) * p
    IN  bit(1) + bit(2) + bit(4) + bit(8) + bit(16) + bit(32) + bit(64) + bit(128)
        + bit(256) + bit(512) + bit(1024) + bit(2048)
        + bit(4096) + bit(8192) + bit(16384) + bit(32768)

\* The two tables of the CRC, as the one table of words they are halves of:
\* entry i is what eight shifts of i by the polynomial 0xA001 leave.
CrcTable ==
    [i \in Byte |->
        LET shifted[n \in 0..8] ==
                IF n = 0 THEN i
                ELSE LET c == shifted[n - 1]
                     IN  IF c % 2 = 1 THEN Xor(c \div 2, 40961) ELSE c \div 2
        IN  shifted[8]]

\* __CRC16, low byte first as it is sent.
Crc16(s) ==
    LET crc[n \in 0..Len(s)] ==
            IF n = 0 THEN 65535
            ELSE LET c == crc[n - 1]
                 IN  Xor(c \div 256, CrcTable[Xor(c % 256, s[n])])
    IN  <<crc[Len(s)] % 256, crc[Len(s)] \div 256>>

\* n words of s from position i on, low or high byte first.
LittleEndian(s, i, n) == [k \in 1..n |-> <<s[i + 2*k - 1], s[i + 2*k - 2]>>]
BigEndian(s, i, n) == [k \in 1..n |-> <<s[i + 2*k - 2], s[i + 2*k - 1]>>]

-----------------------------------------------------------------------------
(* Finding a frame in the bytes of the serial line. *)

HEADER == 85        \* 0x55
FuncR == 3

\* What is left of the buffer w, and the frame that was found: none, <<>>.
DropFirst(w) == [left |-> Tail(w), frame |-> <<>>]
Found(w) == [left |-> <<>>, frame |-> w]
Waiting(w) == [left |-> w, frame |-> <<>>]

\* Mutants: a mismatch empties the buffer; a mismatch is noticed only when
\* another byte has come; an answer is looked at one byte late.
ScanRestarts(w) ==
    IF w[1] # HEADER \/ (Len(w) >= 11 /\ CaliSum(SubSeq(w, 1, 10)) # w[11])
    THEN Waiting(<<>>)
    ELSE IF Len(w) >= 11 THEN Found(w) ELSE Waiting(w)

ScanLate(w) ==
    IF w[1] # HEADER \/ Len(w) >= 12 THEN DropFirst(w)
    ELSE IF Len(w) = 11 /\ CaliSum(SubSeq(w, 1, 10)) = w[11] THEN Found(w)
    ELSE Waiting(w)

ScanModbusLate(w) ==
    IF Len(w) <= 2 THEN Waiting(w)
    ELSE IF w[2] # FuncR THEN DropFirst(w)
    ELSE IF Len(w) <= w[3] + 5 THEN Waiting(w)
    ELSE IF Crc16(SubSeq(w, 1, Len(w) - 2)) # SubSeq(w, Len(w) - 1, Len(w)) THEN DropFirst(w)
    ELSE Found(w)

ScanNormal(w) ==
    IF w[1] # HEADER \/ (Len(w) >= 11 /\ CaliSum(SubSeq(w, 1, 10)) # w[11])
    THEN DropFirst(w)
    ELSE IF Len(w) >= 11 THEN Found(w)
         ELSE Waiting(IF Len(w) = WIT_DATA_BUFF_SIZE THEN <<>> ELSE w)

\* The early return of an incomplete answer passes the size check by.
ScanModbus(w) ==
    LET complete == Len(w) >= w[3] + 5
        body == SubSeq(w, 1, Len(w) - 2)
    IN  IF Len(w) <= 2 THEN Waiting(w)
        ELSE IF w[2] # FuncR THEN DropFirst(w)
        ELSE IF ~complete THEN Waiting(w)
        ELSE IF Crc16(body) # SubSeq(w, Len(w) - 1, Len(w)) THEN DropFirst(w)
        ELSE Found(w)

Scan(w) ==
    CASE protocol \in Serial -> ScanNormal(w)
      [] protocol \in Modbus -> ScanModbus(w)
      [] OTHER -> Waiting(<<>>)

-----------------------------------------------------------------------------
(* Filing the words of a frame: parts are <<register, words>>. *)

REGVALUE == 95      \* 0x5f

\* Where the words of a frame go: where the first ones start, how many of
\* them there are, and where the fourth goes when it is filed elsewhere.
FrameRegister ==
    [i \in 80..90 |->
        CASE i = 80 -> [first |-> 48, n |-> 4]                   \* TIME: YYMM
          [] i = 81 -> [first |-> 52, n |-> 3, fourth |-> 64]    \* ACC: AX, TEMP
          [] i = 82 -> [first |-> 55, n |-> 3]                   \* GYRO: GX
          [] i = 83 -> [first |-> 61, n |-> 3, fourth |-> 46]    \* ANGLE: Roll, VERSION
          [] i = 84 -> [first |-> 58, n |-> 3]                   \* MAGNETIC: HX
          [] i = 85 -> [first |-> 65, n |-> 4]                   \* DPORT: D0Status
          [] i = 86 -> [first |-> 69, n |-> 4]                   \* PRESS: PressureL
          [] i = 87 -> [first |-> 73, n |-> 4]                   \* GPS: LonL
          [] i = 88 -> [first |-> 77, n |-> 4]                   \* VELOCITY: GPSHeight
          [] i = 89 -> [first |-> 81, n |-> 4]                   \* QUATER: q0
          [] OTHER  -> [first |-> 85, n |-> 4]]                  \* GSA: SVNUM

\* Mutant: the fourth word of an ACC or ANGLE frame follows the others.
CopeInOnePiece(index, words) ==
    LET first == IF index = REGVALUE THEN readRegIndex ELSE FrameRegister[index].first
    IN  IF index # REGVALUE /\ index \notin DOMAIN FrameRegister THEN <<>>
        ELSE <<<<first, words>>>>

CopeWitData(index, words) ==
    LET whole == Len(words) # 3
        where == IF index = REGVALUE THEN [first |-> readRegIndex, n |-> 4]
                 ELSE FrameRegister[index]
        n == IF whole THEN where.n ELSE 3
    IN  IF index # REGVALUE /\ index \notin DOMAIN FrameRegister THEN <<>>
        ELSE <<<<where.first, SubSeq(words, 1, n)>>>>
             \o (IF whole /\ "fourth" \in DOMAIN where
                 THEN <<<<where.fourth, <<words[4]>>>>>>
                 ELSE <<>>)

\* The registers after parts were copied, and what jy901_data_update then
\* shows of them: AX to AZ, GX to GZ, Roll to Yaw.
Written(parts) ==
    [r \in DOMAIN sReg \cup UNION {p[1]..(p[1] + Len(p[2]) - 1) : p \in ToSet(parts)} |->
        LET of == {p \in ToSet(parts) : r \in p[1]..(p[1] + Len(p[2]) - 1)}
        IN  IF of = {} THEN sReg[r] ELSE LET p == CHOOSE p \in of : TRUE IN p[2][r - p[1] + 1]]

Shown == (52..57) \cup (61..63)

\* Mutant: the callback is told of one register, however many there are.
UpdatedFirst(parts) ==
    LET new == Shown \cap {p[1] : p \in ToSet(parts)}
    IN  [r \in DOMAIN data \cup new |-> IF r \in new THEN Written(parts)[r] ELSE data[r]]

Updated(parts) ==
    LET new == Shown \cap UNION {p[1]..(p[1] + Len(p[2]) - 1) : p \in ToSet(parts)}
    IN  [r \in DOMAIN data \cup new |-> IF r \in new THEN Written(parts)[r] ELSE data[r]]

File(parts) ==
    /\ sReg' = Written(parts)
    /\ data' = Updated(parts)

-----------------------------------------------------------------------------
(* Bytes and frames that arrive. *)

Idle == [name |-> "none", ret |-> "none", sent |-> <<>>]

PartsOf(frame) ==
    IF frame = <<>> THEN <<>>
    ELSE IF protocol \in Serial THEN CopeWitData(frame[2], LittleEndian(frame, 3, 4))
    ELSE <<<<readRegIndex, BigEndian(frame, 4, frame[3] \div 2)>>>>

\* uart_read_cb hands one byte over.
WitSerialDataIn(b) ==
    /\ IF "reg" \notin callbacks
       THEN UNCHANGED <<buff, sReg, data, seen, taken>>
       ELSE LET scan == Scan(Append(buff, b))
            IN  /\ buff' = scan.left
                /\ File(PartsOf(scan.frame))
                /\ seen' = Append(seen, b)
                /\ taken' = IF scan.frame = <<>> THEN taken
                            ELSE Append(taken, Len(seen) + 1)
    /\ UNCHANGED <<protocol, callbacks, readRegIndex>>

\* A frame on the CAN bus.  Angles of the 905x series come in frames of
\* their own, filed by a third byte whose other values leave the register
\* uninitialised.
CanParts(f, wild) ==
    IF f[1] # HEADER THEN <<>>
    ELSE IF protocol = "905x_CAN" /\ f[2] = 83
         THEN LET reg == IF f[3] \in 1..3 THEN 59 + 2 * f[3] ELSE wild
              IN  <<<<reg, LittleEndian(f, 5, 2)>>>>
    ELSE CopeWitData(f[2], LittleEndian(f, 3, 3))

WitCanDataIn(f) ==
    /\ \E wild \in IF protocol = "905x_CAN" /\ f[3] \notin 1..3 THEN Byte ELSE {0} :
         IF "reg" \notin callbacks \/ Len(f) < 8 \/ protocol \notin Can
         THEN UNCHANGED <<sReg, data>>
         ELSE File(CanParts(f, wild))
    /\ UNCHANGED <<protocol, callbacks, buff, readRegIndex, seen, taken>>

-----------------------------------------------------------------------------
(* Calls of the program.  What a call gives to a write callback is a       *)
(* sequence of records; bus is what the I2C callback returns: -1 for a     *)
(* failure and, for a transfer, 1 as the driver asks or 0 (WIT_HAL_OK) as  *)
(* those of wt_jy901.c do.                                                 *)

Returns(name, ret, sent) == call' = [name |-> name, ret |-> ret, sent |-> sent]

\* The write callback that a message to the device goes through.
Port == CASE protocol \in Serial \cup Modbus -> "serial"
          [] protocol \in Can -> "can"
          [] OTHER -> "i2c"

\* WitWriteReg: what it returns, and whether the message was sent.
WriteReg(reg, bus) ==
    CASE reg >= REGSIZE \/ protocol = "JY61" -> [ret |-> "INVAL", sent |-> FALSE]
      [] Port \notin callbacks -> [ret |-> "EMPTY", sent |-> FALSE]
      [] protocol = "I2C" -> [ret |-> IF bus = 1 THEN "OK" ELSE "ERROR",
                              sent |-> bus # -1]
      [] OTHER -> [ret |-> "OK", sent |-> TRUE]

WriteMessage(w, reg, v) == IF w.sent THEN <<[write |-> reg, value |-> v]>> ELSE <<>>

WitWriteReg(reg, v, bus) ==
    LET w == WriteReg(reg, bus)
    IN  /\ Returns("WitWriteReg", w.ret, WriteMessage(w, reg, v))
        /\ UNCHANGED <<driver, seen, taken>>

\* WitReadReg: what it returns before anything is sent, or "OK".
ReadRefusal(reg, n) ==
    CASE reg + n >= REGSIZE -> "INVAL"
      [] protocol = "JY61" -> "INVAL"
      [] protocol = "NORMAL" /\ n > 4 -> "INVAL"
      [] protocol \in Can /\ n > 3 -> "INVAL"
      [] Port \notin callbacks -> "EMPTY"
      [] protocol \in Modbus /\ 2 * n + 5 > WIT_DATA_BUFF_SIZE -> "NOMEM"
      [] protocol = "I2C" /\ 2 * n > WIT_DATA_BUFF_SIZE -> "NOMEM"
      [] OTHER -> "OK"

\* What the device's register r holds: a word that tells registers apart
\* and whose low byte looks like the start of a frame.
DeviceWord(r) == <<r, HEADER>>
DeviceWords(r, n) == [k \in 1..n |-> DeviceWord(r + k - 1)]
\* Words as bytes, the low byte of each first or the high one.
LowHigh(words) == [i \in 1..(2 * Len(words)) |-> words[(i + 1) \div 2][1 + (i % 2)]]
HighLow(words) == [i \in 1..(2 * Len(words)) |-> words[(i + 1) \div 2][2 - (i % 2)]]

\* The two bytes that the bus brings of each register, the low one first, joined.
I2cWords(reg, n) == LittleEndian(LowHigh(DeviceWords(reg, n)), 1, n)

\* Mutant: the index is noted before the arguments are looked at.
NotedAtOnce(reg, ret) == reg
\* s_uiReadRegIndex = uiReg: after the request was sent.
NextReadIndex(reg, ret) == IF ret = "OK" THEN reg ELSE readRegIndex

WitReadReg(reg, n, bus) ==
    LET refusal == ReadRefusal(reg, n)
        arrived == protocol = "I2C" /\ bus = 1
        ret == IF refusal = "OK" /\ arrived /\ "reg" \notin callbacks THEN "EMPTY" ELSE refusal
    IN  /\ Returns("WitReadReg", ret,
                   IF refusal = "OK" /\ protocol # "I2C"
                   THEN <<[read |-> reg, number |-> n]>> ELSE <<>>)
        /\ IF refusal = "OK" /\ arrived /\ "reg" \in callbacks
           THEN File(<<<<reg, I2cWords(reg, n)>>>>)
           ELSE UNCHANGED <<sReg, data>>
        /\ readRegIndex' = NextReadIndex(reg, ret)
        /\ UNCHANGED <<protocol, callbacks, buff, seen, taken>>

\* WitStartAccCali to WitCaliRefAngle: which register a call sets, the
\* values it lets pass, and whether it unlocks the device before.
KEY == 105
KEY_UNLOCK == 46472

Setting(name) ==
    CASE name = "StartAccCali" -> [reg |-> 1, values |-> {1}]
      [] name = "StopAccCali" -> [reg |-> 1, values |-> {0}]
      [] name = "StartMagCali" -> [reg |-> 1, values |-> {7}]
      [] name = "StopMagCali" -> [reg |-> 1, values |-> {0}]
      [] name = "CaliRefAngle" -> [reg |-> 1, values |-> {8}]
      [] name = "SetUartBaud" -> [reg |-> 4, values |-> 1..7]
      [] name = "SetCanBaud" -> [reg |-> 4, values |-> 0..14]
      [] name = "SetBandwidth" -> [reg |-> 31, values |-> 0..6]
      [] name = "SetOutputRate" -> [reg |-> 3, values |-> 1..13]
      [] name = "SetContent" -> [reg |-> 2, values |-> 1..4095]
      [] name = "SaveParameter" -> [reg |-> 0, values |-> {0}]
      [] name = "SetForReset" -> [reg |-> 0, values |-> {255}]

\* The JY61 takes two of the settings, each as one byte of its own.
Jy61Code(name, v) ==
    CASE name = "StartAccCali" -> 103
      [] name = "SetUartBaud" /\ v = 6 -> 99
      [] name = "SetUartBaud" /\ v = 2 -> 100
      [] OTHER -> 0

WitSet(name, v, bus) ==
    LET s == Setting(name)
        unlock == IF name = "SetBandwidth" THEN [ret |-> "OK", sent |-> FALSE]
                  ELSE WriteReg(KEY, bus)
        write == WriteReg(s.reg, bus)
        unlocked == WriteMessage(unlock, KEY, KEY_UNLOCK)
    IN  /\ CASE v \notin s.values \/ (name = "SetCanBaud" /\ protocol \notin Can) ->
                    Returns(name, "INVAL", <<>>)
             [] protocol = "JY61" /\ Jy61Code(name, v) = 0 -> Returns(name, "INVAL", <<>>)
             [] protocol = "JY61" /\ "serial" \notin callbacks -> Returns(name, "EMPTY", <<>>)
             [] protocol = "JY61" -> Returns(name, "OK", <<[code |-> Jy61Code(name, v)]>>)
             [] unlock.ret # "OK" -> Returns(name, "ERROR", unlocked)
             [] "delay" \notin callbacks -> Returns(name, "EMPTY", unlocked)
             [] OTHER -> Returns(name, IF write.ret = "OK" THEN "OK" ELSE "ERROR",
                                 unlocked \o WriteMessage(write, s.reg, v))
        /\ UNCHANGED <<driver, seen, taken>>

\* WitSerialWriteRegister, WitCanWriteRegister, WitI2cFuncRegister,
\* WitDelayMsRegister, WitRegisterCallBack: NULL is refused.
Register(cb, null) ==
    /\ callbacks' = IF null THEN callbacks ELSE callbacks \cup {cb}
    /\ Returns("Register", IF null THEN "INVAL" ELSE "OK", <<>>)
    /\ UNCHANGED <<protocol, buff, readRegIndex, sReg, data, seen, taken>>

\* A protocol that the driver does not know is refused; registers and the
\* index of the last read outlive the change of protocol.
Restarted(p) ==
    /\ protocol' = p
    /\ buff' = <<>>
    /\ seen' = <<>>
    /\ taken' = <<>>
    /\ UNCHANGED <<readRegIndex, sReg, data>>

WitInit(p) ==
    /\ IF p \in AllProtocols THEN Restarted(p)
       ELSE UNCHANGED <<protocol, buff, readRegIndex, sReg, data, seen, taken>>
    /\ Returns("WitInit", IF p \in AllProtocols THEN "OK" ELSE "INVAL", <<>>)
    /\ UNCHANGED callbacks

WitDeInit ==
    /\ Restarted("NORMAL")
    /\ callbacks' = {}
    /\ Returns("WitDeInit", "OK", <<>>)

CallbacksOf(iic) == {"delay", "reg", IF iic THEN "i2c" ELSE "serial"}

\* navi_jy901_init, for either setting of SUB_NAVI_CONFIG_JY901_USE_IIC;
\* the device may not open.
navi_jy901_init(iic, opened) ==
    /\ IF opened
       THEN /\ Restarted(IF iic THEN "I2C" ELSE "NORMAL")
            /\ callbacks' = callbacks \cup CallbacksOf(iic)
       ELSE UNCHANGED <<driver, seen, taken>>
    /\ Returns("navi_jy901_init", IF opened THEN "OK" ELSE "ERROR", <<>>)

-----------------------------------------------------------------------------
(* The device and the line. *)

\* A byte behind s_ucWitDataBuff is where the model ends.
InBounds == Len(buff) <= WIT_DATA_BUFF_SIZE

\* An output frame that holds four registers, or three on the CAN bus.
OutputFrame(index, words) ==
    LET bytes == <<HEADER, index>> \o LowHigh(words)
    IN  IF protocol \in Can THEN <<SubSeq(bytes, 1, 8)>> ELSE bytes \o <<CaliSum(bytes)>>

OutputWords(index) ==
    LET where == IF index \in DOMAIN FrameRegister THEN FrameRegister[index]
                 ELSE [first |-> 0, n |-> 4]
    IN  IF "fourth" \in DOMAIN where
        THEN Append(DeviceWords(where.first, 3), DeviceWord(where.fourth))
        ELSE DeviceWords(where.first, 4)

\* An angle of the 905x series on the CAN bus.
AngleFrame(k) == <<<<HEADER, 83, k, 0>> \o LowHigh(DeviceWords(59 + 2 * k, 2))>>

Answer(reg, n) ==
    CASE protocol \in Modbus ->
            LET bytes == <<80, FuncR, 2 * n>> \o HighLow(DeviceWords(reg, n))
            IN  bytes \o Crc16(bytes)
      [] protocol = "I2C" -> <<>>
      [] OTHER -> OutputFrame(REGVALUE, DeviceWords(reg, 4))

\* The next frame follows the one before, with nothing in between: when it
\* is put on the line makes no difference to the driver.
SendOutput ==
    /\ InBounds
    /\ line = <<>>
    /\ frames < MaxFrames
    /\ protocol \in Serial \cup Can
    /\ \/ \E index \in Outputs :
            /\ protocol = "905x_CAN" => index # 83
            /\ line' = OutputFrame(index, OutputWords(index))
       \/ /\ protocol = "905x_CAN"
          /\ \E k \in 1..3 : line' = AngleFrame(k)
    /\ frames' = frames + 1
    /\ call' = Idle
    /\ UNCHANGED <<driver, calls, faults, seen, taken>>

Deliver ==
    /\ InBounds
    /\ line # <<>>
    /\ IF protocol \in Can THEN WitCanDataIn(Head(line)) ELSE WitSerialDataIn(Head(line))
    /\ line' = Tail(line)
    /\ call' = Idle
    /\ UNCHANGED <<calls, frames, faults>>

\* A byte is lost or changed.
Disturb ==
    /\ InBounds
    /\ line # <<>>
    /\ protocol \notin Can
    /\ faults < MaxFaults
    /\ \/ line' = Tail(line)
       \/ \E b \in Noise : line' = <<b>> \o Tail(line)
    /\ faults' = faults + 1
    /\ call' = Idle
    /\ UNCHANGED <<driver, calls, frames, seen, taken>>

-----------------------------------------------------------------------------
(* The program's calls, with the device's answer to them.  It reads again  *)
(* only when nothing is on the line: answers do not say what they answer.  *)
(* Changing the protocol means another device, or another setting of it.   *)

KeepLine == line' = IF protocol = protocol' THEN line ELSE <<>>

\* On the other buses what an I2C callback would return makes no difference.
BusResults == IF Port = "i2c" THEN I2cResults ELSE {1}

Call ==
    /\ InBounds
    /\ calls < MaxCalls
    /\ calls' = calls + 1
    /\ UNCHANGED <<frames, faults>>
    /\ \/ /\ line = <<>>    \* these leave the driver's stream alone
          /\ \/ \E reg \in {1, REGSIZE}, bus \in BusResults : WitWriteReg(reg, 0, bus)
             \/ \E s \in Settings, bus \in BusResults : WitSet(s[1], s[2], bus)
             \/ \E cb \in Registered, null \in BOOLEAN : Register(cb, null)
          /\ UNCHANGED line
       \/ /\ \/ \E p \in Protocols : WitInit(p)
             \/ WitDeInit
             \/ \E iic, opened \in BOOLEAN : navi_jy901_init(iic, opened)
          /\ KeepLine
       \/ \E r \in Reads, bus \in BusResults :
            /\ WitReadReg(r[1], r[2], bus)
            /\ call'.ret = "OK" => line = <<>>
            /\ line' = IF call'.sent # <<>> THEN line \o Answer(r[1], r[2]) ELSE line

\* Before navi_jy901_init, or after it has succeeded.
Init ==
    /\ \/ protocol = "NORMAL" /\ callbacks = {}
       \/ protocol = "NORMAL" /\ callbacks = CallbacksOf(FALSE)
       \/ protocol = "I2C" /\ callbacks = CallbacksOf(TRUE)
    /\ buff = <<>> /\ readRegIndex = 0
    /\ sReg = <<>> /\ data = <<>>
    /\ call = Idle
    /\ line = <<>>
    /\ calls = 0 /\ frames = 0 /\ faults = 0
    /\ seen = <<>> /\ taken = <<>>

Next == Call \/ SendOutput \/ Deliver \/ Disturb

Spec == Init /\ [][Next]_vars

-----------------------------------------------------------------------------
(* Properties. *)

\* The serial buffer never holds a whole frame between two bytes, and grows
\* behind its end only while it waits for a MODBUS answer whose length byte
\* asks for more than there is.
BuffOK ==
    /\ buff \in Seq(Byte)
    /\ protocol \in Serial => Len(buff) <= 10
    /\ Len(buff) > WIT_DATA_BUFF_SIZE => protocol \in Modbus /\ buff[3] + 5 > WIT_DATA_BUFF_SIZE

TypeOK ==
    /\ protocol \in AllProtocols
    /\ callbacks \subseteq Callback
    /\ BuffOK
    /\ readRegIndex \in 0..(REGSIZE - 1)
    /\ \A r \in DOMAIN sReg : r \in Nat /\ sReg[r] \in Word
    /\ DOMAIN data \subseteq Shown
    /\ call.ret \in {"none", "OK", "ERROR", "NOMEM", "EMPTY", "INVAL"}
    /\ calls \in 0..MaxCalls /\ frames \in 0..MaxFrames /\ faults \in 0..MaxFaults

\* The frames in a sequence of bytes, read from the left: where they end.
IsFrame(f) == f[1] = HEADER /\ CaliSum(SubSeq(f, 1, 10)) = f[11]

FrameEnds(w) ==
    LET ends[n \in 0..Len(w)] ==     \* in the first n bytes
            IF n = 0 THEN <<>>
            ELSE LET e == ends[n - 1]
                     free == n - (IF e = <<>> THEN 0 ELSE Last(e))
                 IN  IF free >= 11 /\ IsFrame(SubSeq(w, n - 10, n)) THEN Append(e, n) ELSE e
    IN  ends[Len(w)]

\* One whole MODBUS answer.
IsAnswer(f) ==
    /\ Len(f) >= 5 /\ f[2] = FuncR /\ Len(f) = f[3] + 5
    /\ Crc16(SubSeq(f, 1, Len(f) - 2)) = SubSeq(f, Len(f) - 1, Len(f))

\* Up to where a sequence of bytes consists of whole answers.
Boundaries(w) ==
    LET found[n \in 0..Len(w)] ==    \* in the first n bytes
            IF n = 0 THEN {0}
            ELSE LET b == found[n - 1]
                 IN  IF \E m \in b : IsAnswer(SubSeq(w, m + 1, n)) THEN b \cup {n} ELSE b
    IN  found[Len(w)]

WholeAnswers(w) == Len(w) \in Boundaries(w)

\* WitSerialDataIn finds its frames again: whatever was lost or changed
\* before, it takes each intact frame that does not overlap one it took, and
\* takes it with its last byte.
FramesFound == protocol \in Serial => taken = FrameEnds(seen)

\* As long as the line carries whole MODBUS answers, each of them is taken
\* with its last byte: nothing of it stays in the buffer.
AnswersTaken == protocol \in Modbus /\ WholeAnswers(seen) => buff = <<>>

\* Every register holds what the device's register of that number holds:
\* answers are filed under the register that was asked for, also when a read
\* was refused, or the protocol changed, since.  An answer to a read of the
\* last registers goes at most three registers behind the array.  (Bytes that
\* were changed, or the rest of a frame after a new start, might make a frame
\* by chance; RegistersFiled of WitSdkProofs leaves both out.)
RegistersTrue ==
    \A r \in DOMAIN sReg : sReg[r] = DeviceWord(r) /\ r <= REGSIZE + 2

\* g_jy901_data is never behind the registers: the callback is told of all
\* that the driver writes, in each protocol.
DataUpToDate == \A r \in Shown \cap DOMAIN sReg : r \in DOMAIN data /\ data[r] = sReg[r]
=============================================================================
