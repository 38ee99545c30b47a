----------------------------- MODULE MCMotorLink -----------------------------
(***************************************************************************)
(* Instances of MotorLink.                                                 *)
(***************************************************************************)
EXTENDS MotorLink

\* Channels inside and outside both ranges, numbers at the edges of a varint
\* byte, of a short, of a sign; a fraction and a text that is no number.
Channels == {<<c, 0>> : c \in -1..16} \cup {<<>>}
Values == {<<v, 0>> : v \in {-1000000, -1, 0, 1, 127, 128, 16383, 16384, 2147483647}}
          \cup {<<0, 1>>, <<>>}
Small == {<<v, 0>> : v \in {-2, -1, 0, 1, 100}}
MCArgs == {<<c, v>> : c \in Channels, v \in Values} \cup {<<>>, <<<<1, 0>>>>, <<<<1, 0>>, <<1, 0>>, <<1, 0>>>>}

Floats == {Float(v) : v \in {-1, 0, 3}}
Reading(type_, v) == [i \in 1..Len(type_) |-> v[((i - 1) % Len(v)) + 1]]

Answer(r, type_, v) ==
    LET o == EncodeTagForField(OstreamFromBuffer(64), Responses[r])
    IN  Nested!EncodeSubmessage(o, type_, Reading(type_, v)).out

Good == {Answer(1, DepthSensorResponse, <<Float(3), Float(-1)>>),
         Answer(2, MotionSensorResponse, <<Float(1), Float(0), Float(2)>>)}
Foreign == {<<BitsOf(24), BitsOf(127)>>,            \* 3: varint 127
            <<BitsOf(26), BitsOf(1), BitsOf(10)>>,  \* 3: a string
            <<BitsOf(13)>> \o Float(1),             \* 1: four bytes
            <<BitsOf(32 + 3), BitsOf(32 + 4)>>}     \* 4: a group
Noise == {BitsOf(n) : n \in {0, 2, 10, 128, 255}}
Damaged == UNION {
    {RemoveAt(g, i) : i \in 1..Len(g)} \cup {SubSeq(g, 1, i) : i \in 0..Len(g)}
    \cup {[g EXCEPT ![i] = n] : i \in 1..Len(g), n \in Noise}
    \cup {SubSeq(g, 1, i) \o g : i \in 1..Len(g)} : g \in Good}
\* Keys, lengths and numbers with bytes of nothing, of the sign or of too much
\* behind them, in front of an answer, around it and in it.
Stretched(byte) == {<<byte \cup {7}>> \o [i \in 1..k |-> more] \o <<last>> :
    k \in {0, 3, 4, 8, 9}, more \in {{7}, 0..7, {3, 7}}, last \in {{}, {0}, 0..3, 0..6}}
InAnswer(g, s, i) ==
    LET inner == SubSeq(g, 3, i - 1) \o s \o SubSeq(g, i + 1, Len(g))
    IN  <<g[1], BitsOf(Len(inner))>> \o inner
Overlong == UNION {
    {s \o Tail(g) : s \in Stretched(g[1])}
    \cup {<<g[1]>> \o s \o SubSeq(g, 3, Len(g)) : s \in Stretched(g[2])}
    \cup {InAnswer(g, s, 3) : s \in Stretched(g[3])}
    \cup {InAnswer(g, <<BitsOf(24)>> \o s \o <<g[3]>>, 3) : s \in Stretched({3})}
    \cup {<<BitsOf(24)>> \o s \o g : s \in Stretched({3})} : g \in Good}
MCAnswers == Good \cup Damaged \cup Overlong \cup {a \o b : a, b \in Good \cup Foreign}

\* Every field type; numbers at the edges of their widths.
Field(tag, htype, ltype, size, array, sub) ==
    [tag |-> tag, htype |-> htype, ltype |-> ltype, size |-> size, array |-> array, sub |-> sub]
Optional(v) == [has |-> TRUE, val |-> v]
Absent(f) == [has |-> FALSE, val |-> Unset(f)]

Edges(w) == {{}, {0}, 0..6, {7}, 0..(w - 2), {w - 1}, 0..(w - 1), {w - 1, 0}}
Elements(ltype, size) ==
    CASE ltype = "BOOL" -> {{}, {0}}
      [] ltype \in {"VARINT", "UVARINT", "SVARINT"} -> Edges(8 * size)
      [] ltype = "FIXED32" -> {Zeros(4), Float(1)}
      [] ltype = "FIXED64" -> {Zeros(8), Float(1) \o Float(2)}
      [] ltype = "BYTES" -> {<<>>, <<{}>>, <<{1}, {7}>>}
      [] ltype = "STRING" -> {<<>>, <<{0}, {6}>>}
      [] ltype = "FIXED_LENGTH_BYTES" -> {Zeros(size), [i \in 1..size |-> {i}]}

Kinds == {<<l, s>> : l \in {"VARINT", "UVARINT", "SVARINT"}, s \in {1, 2, 4, 8}}
         \cup {<<"BOOL", 1>>, <<"FIXED32", 4>>, <<"FIXED64", 8>>, <<"BYTES", 4>>,
               <<"STRING", 3>>, <<"FIXED_LENGTH_BYTES", 2>>}
HTypes == {"REQUIRED", "SINGULAR", "OPTIONAL", "REPEATED", "FIXARRAY"}
Contents(h, es) ==
    CASE h \in {"REQUIRED", "SINGULAR"} -> es
      [] h = "OPTIONAL" -> {Optional(e) : e \in es}
      [] h = "REPEATED" -> {<<>>} \cup {<<e>> : e \in es} \cup {<<e, e>> : e \in es}
      [] h = "FIXARRAY" -> {<<e, e>> : e \in es}

Single == UNION {
    {<< <<Field(16, h, k[1], k[2], 2, <<>>)>>, 16 :> c>> : c \in Contents(h, Elements(k[1], k[2]))}
    : h \in HTypes, k \in Kinds}

\* Messages in messages, an array of them, one of proto3, a choice of fields.
Inner == <<Field(1, "OPTIONAL", "UVARINT", 4, 1, <<>>), Field(5, "REQUIRED", "FIXED32", 4, 1, <<>>)>>
InnerMsg(bits) == (1 :> Optional(bits)) @@ (5 :> Float(1))
Third == <<Field(1, "SINGULAR", "SVARINT", 4, 1, <<>>), Field(2, "OPTIONAL", "BOOL", 1, 1, <<>>),
           Field(3, "REPEATED", "UVARINT", 2, 1, <<>>)>>
ThirdMsg(n) ==
    (1 :> IF n = 1 THEN {31} ELSE {})
    @@ (2 :> IF n = 2 THEN Optional({}) ELSE Absent(Third[2]))
    @@ (3 :> IF n = 3 THEN <<{15}>> ELSE <<>>)
Outer == <<Field(1, "ONEOF", "SUBMESSAGE", 0, 1, Inner),
           Field(2, "ONEOF", "UVARINT", 4, 1, <<>>),
           Field(3, "REPEATED", "SUBMESSAGE", 0, 2, Inner),
           Field(4, "SINGULAR", "SUBMESSAGE", 0, 1, Third),
           Field(200, "FIXARRAY", "SUBMESSAGE", 0, 2, Inner)>>
OuterMsg(which, n) ==
    (1 :> IF which = 1 THEN Optional(InnerMsg({8})) ELSE Absent(Outer[1]))
    @@ (2 :> IF which = 2 THEN Optional({8}) ELSE Absent(Outer[2]))
    @@ (3 :> [i \in 1..n |-> InnerMsg({i})])
    @@ (4 :> ThirdMsg(which + n))
    @@ (200 :> <<InnerMsg({}), InnerMsg({31})>>)

\* The largest commands, and some with less in them.
Full(type_) == [i \in 1..Len(type_) |-> Optional(IF type_[i].ltype = "UVARINT"
                                                THEN 0..31 ELSE Float(-1))]
One(type_, i) == [Flat!Default(type_) EXCEPT ![i] = Full(type_)[i]]
MCEarlier == {<<Optional(Full(ThrusterCommand)), Optional(Full(PWMDevCommand))>>,
              <<Optional(One(ThrusterCommand, 2)), Absent(Commands[2])>>,
              <<Optional(One(ThrusterCommand, 8)), Optional(Flat!Default(PWMDevCommand))>>}
Big == {<<ThrusterCommand, Full(ThrusterCommand)>>, <<PWMDevCommand, Full(PWMDevCommand)>>}
       \cup {<<Commands, m>> : m \in MCEarlier}
       \cup {<<Outer, OuterMsg(w, n)>> : w \in 0..2, n \in 0..2}

Flags == {{}, {"DELIMITED"}, {"NULLTERMINATED"}}
Tried(cs, flags) == UNION {
    LET n == Len(Nested!EncodeEx(Sizing, c[1], c[2], f).out)
    IN  {<<c[1], c[2], f, n>>} \cup (IF n > 0 THEN {<<c[1], c[2], f, n - 1>>} ELSE {}) :
    c \in cs, f \in flags}
MCCarried == Tried(Single, {{}}) \cup Tried(Big, Flags)
=============================================================================
