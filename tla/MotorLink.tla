------------------------------- MODULE MotorLink -------------------------------
(***************************************************************************)
(* The serial link to the motor board: the two commands of                 *)
(* user/arg_parse.c, the messages of user/protobuf-commu and the library   *)
(* beneath them, modules NanoPb and PbWire.                                *)
(*                                                                         *)
(* A process runs one command: it checks the arguments, fills a message,   *)
(* encodes it, opens the line, writes, closes.  byte2msg takes the board's *)
(* answers apart; nothing calls it yet, and neither is a message with      *)
(* several fields sent yet, so these are steps of their own, from idle.    *)
(***************************************************************************)
EXTENDS PbWire

CONSTANTS
    Words,        \* the first arguments tried, see Prefix
    Args,         \* the others, lists of texts, see Atoi
    Answers,      \* what the board sends back, and what the line makes of it
    Carried,      \* <<descriptor, message, flags, room>>: for the library
    Earlier       \* what a command may be appended to

ASSUME LineAssumption ==
    /\ Words \subseteq {"pwm", "pwm0", "shot", "shots", "sho", "stop"}
    /\ \A a \in Args : \A i \in 1..Len(a) : a[i] = <<>> \/ a[i][1] \in Int
    /\ \A b \in Answers : b \in Seq(Byte) /\ Len(b) < 2^24

\* The messages of the program nest once.  Those in a field have no field for
\* another message.
NoDefault(desc) == <<>>
NoAllDefault(desc, m) == TRUE
NoDecode(in, desc, m, flags) == Fail(in)
NoEncode(o, desc, m) == [o EXCEPT !.ok = FALSE]

Flat == INSTANCE NanoPb WITH
    SubDefault <- NoDefault, SubAllDefault <- NoAllDefault,
    SubDecode <- NoDecode, SubEncode <- NoEncode
Nested == INSTANCE NanoPb WITH
    SubDefault <- Flat!Default, SubAllDefault <- Flat!AllDefault,
    SubDecode <- Flat!DecodeInner, SubEncode <- Flat!Encode

-----------------------------------------------------------------------------
(* navi_master.pb.h.                                                       *)

Scalars(htype, ltype, size, n) ==
    [i \in 1..n |-> [tag |-> i, htype |-> htype, ltype |-> ltype,
                     size |-> size, array |-> 1, sub |-> <<>>]]
Union(subs) ==
    [i \in 1..Len(subs) |-> [tag |-> i, htype |-> "OPTIONAL", ltype |-> "SUBMESSAGE",
                             size |-> 0, array |-> 1, sub |-> subs[i]]]

ThrusterCommand == Scalars("OPTIONAL", "FIXED32", 4, 8)
PWMDevCommand == Scalars("OPTIONAL", "UVARINT", 4, 16)
Commands == Union(<<ThrusterCommand, PWMDevCommand>>)
DepthSensorResponse == Scalars("REQUIRED", "FIXED32", 4, 2)
MotionSensorResponse == Scalars("REQUIRED", "FIXED32", 4, 3)
Responses == Union(<<DepthSensorResponse, MotionSensorResponse>>)

\* The sizes that the header states.
Commands_size == 141
PWMDevCommand_size == 97
ThrusterCommand_size == 40

-----------------------------------------------------------------------------
(* union_msg.c and convert_msg.c.                                          *)

FieldOf(type) == CHOOSE i \in 1..Len(Commands) : Commands[i].sub = type

\* The mutant: the command without the union around it.
EncodeBare(o, type, msg) == Flat!Encode(o, type, msg)

EncodeCommandUnionmessage(o, type, msg) ==
    Nested!EncodeSubmessage(EncodeTagForField(o, Commands[FieldOf(type)]), type, msg)

\* The bytes written, none after a failure.
Msg2byte(type, msg, room) ==
    LET Written(o) == IF o.ok THEN o.out ELSE <<>>
    IN  Written(EncodeCommandUnionmessage(OstreamFromBuffer(room), type, msg))

\* The message type of the first field that is an answer.  What cannot be
\* skipped is not: the search goes on from where the skipping stopped.
ResponseType(in) ==
    LET Known(t) == {i \in 1..Len(Responses) : t.val = <<2, Responses[i].tag>>}
        Look(t) == IF ~ t.ok THEN Fail(t.in)
                   ELSE IF Known(t) # {} THEN Done(t.in, Responses[CHOOSE i \in Known(t) : TRUE].sub)
                   ELSE Done(SkipField(t.in, t.val[1]).in, <<>>)
        Turn(r) == IF r.ok /\ r.val = <<>> THEN Look(DecodeTag(r.in)) ELSE r
        after[k \in 0..(in.left + 1)] == IF k = 0 THEN Done(in, <<>>) ELSE Turn(after[k - 1])
    IN  after[in.left + 1]

\* The mutant: the length is read and not used.
ContentsToTheEnd(in, type) ==
    Then(Varint32(in), LAMBDA r : Flat!Decode(r.in, type))

DecodeUnionmessageContents(in, type) ==
    Then(Substream(in), LAMBDA s : [Flat!Decode(s.val, type) EXCEPT !.in = s.in])

\* NULL is FALSE here, and a message <<its type, its fields>>.
Byte2msg(bytes) ==
    LET Contents(t) == Then(DecodeUnionmessageContents(t.in, t.val),
                            LAMBDA r : [ok |-> TRUE, msg |-> <<t.val, r.val>>])
        Message(r) == IF r.ok THEN r ELSE [ok |-> FALSE, msg |-> <<>>]
    IN  Message(IF bytes = <<>> THEN Fail(IstreamFromBuffer(bytes))
                ELSE Then(ResponseType(IstreamFromBuffer(bytes)), Contents))

-----------------------------------------------------------------------------
(* C's conversions.                                                        *)

\* A text is <<its whole part, its fraction>>, or <<>> when it is no number.
Atoi(text) == IF text = <<>> THEN 0 ELSE text[1]

Uint32(v) == IF v >= 0 THEN BitsOf(v) ELSE (0..31) \ BitsOf(- v - 1)

\* IEEE single precision, the lowest byte first; exact below 2^24.
Float(v) ==
    LET Word(magnitude, k) == Shift(BitsOf(127 + k), 23) \cup Shift(magnitude \ {k}, 23 - k)
                              \cup (IF v < 0 THEN {31} ELSE {})
        Of(magnitude) == IF magnitude = {} THEN {} ELSE Word(magnitude, Max(magnitude))
        Bytes(word) == [i \in 1..4 |-> Shift(word \cap (8 * i - 8)..(8 * i - 1), 8 - 8 * i)]
    IN  Bytes(Of(BitsOf(IF v < 0 THEN - v ELSE v)))

\* strncmp looks at three or four characters only.
Prefix == [w \in {"pwm", "pwm0", "shot", "shots", "sho", "stop"} |->
    CASE w \in {"pwm", "pwm0"} -> "pwm" [] w \in {"shot", "shots"} -> "shot" [] OTHER -> "none"]

-----------------------------------------------------------------------------

VARIABLES
    pc,        \* idle, convert, open, write or end
    word, args,   \* the command line
    type, msg,    \* the message that a command fills
    data,      \* its bytes
    fd,        \* whether the line is open
    line,      \* what was put on it
    ret,       \* NAVI_RET_...
    reply,     \* what byte2msg made of which bytes
    carry      \* what the library made of which message

vars == <<pc, word, args, type, msg, data, fd, line, ret, reply, carry>>

Nothing == [ok |-> FALSE, msg |-> <<>>]

Init ==
    /\ pc = "idle"
    /\ word = "" /\ args = <<>>
    /\ type = <<>> /\ msg = <<>> /\ data = <<>>
    /\ fd = FALSE /\ line = <<>>
    /\ ret = ""
    /\ reply = [from |-> <<>>, got |-> Nothing]
    /\ carry = <<>>

Fails(code) == pc' = "end" /\ ret' = code

\* navi_parse_arguments up to the switch over the channels of a callback.
Parse(w, a) ==
    LET channel == Atoi(a[1])
        value == Atoi(a[2])
        filled(desc, v) == [Flat!Default(desc) EXCEPT ![channel + 1] = [has |-> TRUE, val |-> v]]
    IN  /\ pc = "idle"
        /\ word' = w /\ args' = a
        /\ \/ Prefix[w] = "none" /\ Fails("FAIL") /\ UNCHANGED <<type, msg>>
           \/ Prefix[w] # "none" /\ Len(a) # 2 /\ Fails("ARG_ERROR") /\ UNCHANGED <<type, msg>>
           \/ /\ Prefix[w] = "pwm" /\ Len(a) = 2
              /\ IF channel \in 0..15
                 THEN /\ type' = PWMDevCommand
                      /\ msg' = filled(PWMDevCommand, Uint32(value))
                      /\ pc' = "convert" /\ UNCHANGED ret
                 ELSE Fails("ARG_ERROR") /\ UNCHANGED <<type, msg>>
           \/ /\ Prefix[w] = "shot" /\ Len(a) = 2
              /\ IF channel \in 0..7
                 THEN /\ type' = ThrusterCommand
                      /\ msg' = filled(ThrusterCommand, Float(value))
                      /\ pc' = "convert" /\ UNCHANGED ret
                 ELSE Fails("ARG_ERROR") /\ UNCHANGED <<type, msg>>
        /\ UNCHANGED <<data, fd, line, reply, carry>>

Convert ==
    /\ pc = "convert"
    /\ data' = Msg2byte(type, msg, Commands_size)
    /\ IF data' = <<>> THEN Fails("FAIL") ELSE pc' = "open" /\ UNCHANGED ret
    /\ UNCHANGED <<word, args, type, msg, fd, line, reply, carry>>

\* serialOpen: the configured speed is one it knows, the device may be away.
SerialOpen(there) ==
    /\ pc = "open"
    /\ fd' = there
    /\ IF there THEN pc' = "write" /\ UNCHANGED ret ELSE Fails("FAIL")
    /\ UNCHANGED <<word, args, type, msg, data, line, reply, carry>>

\* The mutant: a short write leaves by the error path, before close.
WriteOutLeaks(n) ==
    /\ pc = "write"
    /\ line' = IF n > 0 THEN SubSeq(data, 1, n) ELSE <<>>
    /\ fd' = (n # Len(data))
    /\ Fails(IF n # Len(data) THEN "FAIL" ELSE "SUCCESS")
    /\ UNCHANGED <<word, args, type, msg, data, reply, carry>>

\* The line does not block: it takes n bytes, or none and an error (-1).
WriteOut(n) ==
    /\ pc = "write"
    /\ line' = IF n > 0 THEN SubSeq(data, 1, n) ELSE <<>>
    /\ fd' = FALSE
    /\ Fails(IF n # Len(data) THEN "FAIL" ELSE "SUCCESS")
    /\ UNCHANGED <<word, args, type, msg, data, reply, carry>>

Receive(bytes) ==
    /\ pc = "idle"
    /\ reply' = [from |-> bytes, got |-> Byte2msg(bytes)]
    /\ pc' = "end"
    /\ UNCHANGED <<word, args, type, msg, data, fd, line, ret, carry>>

\* Encode a message into a buffer and decode what is in it.
RoundTrip(o, desc, m, flags, room) ==
    <<[desc |-> desc, m |-> m, flags |-> flags, room |-> room, ok |-> o.ok, out |-> o.out,
       back |-> Nested!DecodeEx(IstreamFromBuffer(o.out), desc, flags)]>>

Carry(desc, m, flags, room) ==
    /\ pc = "idle"
    /\ carry' = RoundTrip(Nested!EncodeEx(OstreamFromBuffer(room), desc, m, flags),
                          desc, m, flags, room)
    /\ pc' = "end"
    /\ UNCHANGED <<word, args, type, msg, data, fd, line, ret, reply>>

Next ==
    \/ \E w \in Words, a \in Args : Parse(w, a)
    \/ Convert
    \/ \E there \in BOOLEAN : SerialOpen(there)
    \/ \E n \in -1..Len(data) : WriteOut(n)
    \/ \E bytes \in Answers : Receive(bytes)
    \/ \E c \in Carried : Carry(c[1], c[2], c[3], c[4])

Spec == Init /\ [][Next]_vars

-----------------------------------------------------------------------------
(* What a message means, after the encoding's description: fields one after *)
(* the other, each a key and a payload; of a scalar field the last counts, *)
(* and of a message in a field all the payloads, one after the other.      *)

VarintEnds(b, i) == {k \in i..Len(b) : 7 \notin b[k]}
VarintEnd(b, i) == Min(VarintEnds(b, i))
VarintAt(b, i) == UNION {Shift(b[k] \cap 0..6, 7 * (k - i)) : k \in i..VarintEnd(b, i)}
VarintIn(b, i, w) == VarintEnds(b, i) # {} /\ VarintAt(b, i) \subseteq 0..(w - 1)

\* An integer of 32 bits has at most ten bytes; there may be bytes of nothing
\* behind it, and of its sign (pb_decode.c:206).
Int32In(b, i) ==
    LET Sign(k) == IF k = i + 9 THEN {0} ELSE 0..7
    IN  /\ VarintEnds(b, i) # {}
        /\ VarintEnd(b, i) <= i + 9
        /\ i + 4 <= VarintEnd(b, i) => b[i + 4] \cap 4..6 = {} \/ 3..6 \subseteq b[i + 4]
        /\ \A k \in (i + 5)..VarintEnd(b, i) :
              b[k] \cap 0..6 = {} \/ (3 \in b[i + 4] /\ b[k] = Sign(k))
Int32At(b, i) == VarintAt(b, i) \cap 0..31

\* The first and the last byte of the payload of a field of wire type wt
\* that starts at i, if there is one.
Payload(b, i, wt) ==
    CASE wt = 0 /\ VarintEnds(b, i) # {} -> <<i, VarintEnd(b, i)>>
      [] wt = 1 -> <<i, i + 7>>
      [] wt = 5 -> <<i, i + 3>>
      [] wt = 2 /\ Int32In(b, i) ->
            <<VarintEnd(b, i) + 1, VarintEnd(b, i) + Length(Int32At(b, i))>>
      [] OTHER -> <<i, Len(b) + 1>>

\* The field whose key starts at i, and its bytes.
FieldAt(b, i) ==
    LET Keyed(key) == [tag |-> Number(Shift(key \cap 3..31, -3)), wt |-> Number(key \cap 0..2)]
        Held(k, p) == [tag |-> k.tag, wt |-> k.wt, first |-> p[1], last |-> p[2]]
        Of(k) == Held(k, Payload(b, VarintEnd(b, i) + 1, k.wt))
    IN  Of(Keyed(Int32At(b, i)))
StandsAt(b, i) == Int32In(b, i) /\ FieldAt(b, i).tag # 0 /\ FieldAt(b, i).last <= Len(b)
BytesAt(b, i) == SubSeq(b, FieldAt(b, i).first, FieldAt(b, i).last)

\* Where the field after that at i starts, and i itself if none stands there.
NextStart(b, i) == IF i <= Len(b) /\ StandsAt(b, i) THEN FieldAt(b, i).last + 1 ELSE i

\* Where fields start, and where nothing or no field follows any more.
Starts(b) ==
    LET With(S) == S \cup {NextStart(b, Max(S))}
        reached[k \in 0..Len(b)] == IF k = 0 THEN {1} ELSE With(reached[k - 1])
    IN  reached[Len(b)]

Whole(b) == Len(b) + 1 \in Starts(b)
Fields(b) == Starts(b) \ {Len(b) + 1}

\* What a field holds that is not among the bytes.
Unset(f) == IF f.ltype = "SUBMESSAGE" THEN Flat!Default(f.sub) ELSE Flat!Zero(f)

\* The contents that the bytes b, with fields at starts, have for a type, and
\* whether they are right.
MeaningOf(Sub(_, _), type_, b, starts) ==
    LET Of(f) == {i \in starts : FieldAt(b, i).tag = f.tag}
        joined(of) ==
            LET upto[k \in 0..Len(b)] ==
                    IF k = 0 THEN <<>> ELSE upto[k - 1] \o (IF k \in of THEN BytesAt(b, k) ELSE <<>>)
            IN  upto[Len(b)]
        Right(f) ==
            /\ f.htype = "REQUIRED" => Of(f) # {}
            /\ \A i \in Of(f) :
                  /\ FieldAt(b, i).wt = WireType[f.ltype]
                  /\ f.ltype = "UVARINT" => VarintIn(BytesAt(b, i), 1, 32)
                  /\ f.ltype = "SUBMESSAGE" => Sub(f.sub, BytesAt(b, i)).ok
        Val(f, of) ==
            CASE of = {} -> Unset(f)
              [] f.ltype = "SUBMESSAGE" /\ of # {} -> Sub(f.sub, joined(of)).val
              [] f.ltype = "UVARINT" /\ of # {} -> VarintAt(BytesAt(b, Max(of)), 1)
              [] f.ltype = "FIXED32" /\ of # {} -> BytesAt(b, Max(of))
        Member(f) == IF f.htype = "REQUIRED" THEN Val(f, Of(f))
                     ELSE [has |-> Of(f) # {}, val |-> Val(f, Of(f))]
    IN  IF Whole(b) /\ \A i \in 1..Len(type_) : Right(type_[i])
        THEN [ok |-> TRUE, val |-> [i \in 1..Len(type_) |-> Member(type_[i])]]
        ELSE [ok |-> FALSE, val |-> <<>>]

MeaningWith(Sub(_, _), type_, b) == MeaningOf(Sub, type_, b, Fields(b))
NoMeaning(type_, b) == [ok |-> FALSE, val |-> <<>>]
FlatMeaning(type_, b) == MeaningWith(NoMeaning, type_, b)
Meaning(type_, b) == MeaningWith(FlatMeaning, type_, b)

-----------------------------------------------------------------------------
(* Properties.                                                             *)

Streams == Seq(Byte)

\* Types, and the line is open only between serialOpen and close.
TypeOK ==
    /\ pc \in {"idle", "convert", "open", "write", "end"}
    /\ word \in Words \cup {""}
    /\ type \in {<<>>, ThrusterCommand, PWMDevCommand}
    /\ data \in Streams /\ line \in Streams /\ IsPrefix(line, data)
    /\ fd = (pc = "write")
    /\ ret \in {"", "SUCCESS", "FAIL", "ARG_ERROR"}
    /\ reply.got.ok \in BOOLEAN
    /\ Len(carry) <= 1

\* A command that reports success has put on the line exactly one message,
\* which sets the one channel that was named, to the number given, and
\* touches nothing else; one that reports anything else has not put a whole
\* message there.  Switch tables, integer conversions, field tables and the
\* encoder all have to agree for it.
CommandArrives ==
    LET Wanted(n) == IF Prefix[word] = "pwm" THEN Uint32(n) ELSE Float(n)
        Sets(board, channel, n) ==
            /\ {c \in DOMAIN board : board[c].has} = {channel}
            /\ board[channel].val = Wanted(n)
        Commanded(sent, kind) ==
            /\ sent.ok
            /\ {k \in 1..2 : sent.val[k].has} = {kind}
            /\ Sets(sent.val[kind].val, Atoi(args[1]) + 1, Atoi(args[2]))
    IN  pc = "end" /\ word # "" =>
            IF ret = "SUCCESS"
            THEN Commanded(Meaning(Commands, line), IF Prefix[word] = "pwm" THEN 2 ELSE 1)
            ELSE line = <<>> \/ ~ Meaning(Commands, line).ok

\* Whether the bytes from p[1] to p[2] are the r-th answer, that was made of them.
Stands(b, r, p) ==
    LET Is(meant) == meant.ok /\ reply.got.msg = <<Responses[r].sub, meant.val>>
    IN  p[2] <= Len(b) /\ Is(Meaning(Responses[r].sub, SubSeq(b, p[1], p[2])))

\* Of undamaged bytes byte2msg makes the message that they mean, the first of
\* the known ones, or nothing.  Of damaged ones it makes nothing, or a whole
\* answer with all its required fields that stands in them somewhere.
AnswersRead ==
    LET b == reply.from
        As(type_, meant) == /\ reply.got.ok <=> meant.ok
                            /\ reply.got.ok => reply.got.msg = <<type_, meant.val>>
        AsField(i) == LET type_ == Responses[FieldAt(b, i).tag].sub
                      IN  As(type_, Meaning(type_, BytesAt(b, i)))
        Known == {i \in Fields(b) : FieldAt(b, i).tag \in {1, 2} /\ FieldAt(b, i).wt = 2}
    IN  /\ reply.got.ok =>
              \E i \in 2..Len(b), r \in {1, 2} : Int32In(b, i) /\ Stands(b, r, Payload(b, i, 2))
        /\ b # <<>> /\ Whole(b) =>
              IF Known = {} THEN ~ reply.got.ok ELSE AsField(Min(Known))

\* A message of that size, and bytes that hold two commands.
Fits(c, size) ==
    /\ c.ok <=> size <= c.room
    /\ Len(c.out) <= c.room
    /\ c.ok => c.back.ok /\ c.back.val = c.m /\ c.back.in.left = 0
    /\ c.desc = ThrusterCommand /\ c.flags = {} => size <= ThrusterCommand_size
    /\ c.desc = PWMDevCommand /\ c.flags = {} => size <= PWMDevCommand_size
    /\ c.desc = Commands /\ c.flags = {} => size <= Commands_size
Merged(b) == Nested!Decode(IstreamFromBuffer(b), Commands).val = Meaning(Commands, b).val

\* Any message of any field type comes through the library as it went in, if
\* its encoding fits the room; if not, encoding fails and nothing is written
\* behind the room.  The sizes in the header are enough for the commands.
\* A command behind another one in the same bytes is merged into it.
CarriedWhole ==
    \A c \in ToSet(carry) :
        /\ Fits(c, Len(Nested!EncodeEx(Sizing, c.desc, c.m, c.flags).out))
        /\ c.desc = Commands /\ c.flags = {} /\ c.ok =>
             \A m \in Earlier : Merged(Nested!Encode(Sizing, Commands, m).out \o c.out)
=============================================================================
