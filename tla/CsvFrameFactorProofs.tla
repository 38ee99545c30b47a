------------------------- MODULE CsvFrameFactorProofs -------------------------
(***************************************************************************)
(* The frame factor table of CsvFrameFactor, for any files, any buffer and *)
(* any table.                                                              *)
(***************************************************************************)
EXTENDS CsvFrameFactor, Induction, FiniteSetTheorems, SequenceTheorems, TLAPS

-----------------------------------------------------------------------------
(* Rows and columns, from one character to the next.                       *)

\* A line begins at the first character and behind line ends, and nowhere
\* else.
LEMMA RowNext ==
    ASSUME NEW p \in Nat \ {0}
    PROVE  /\ RowOf(p) \in Int
           /\ RowOf(1) = 0
           /\ RowOf(p + 1) = IF file[p + 1] \notin EndOfLine /\ file[p] \in EndOfLine
                             THEN RowOf(p) + 1 ELSE RowOf(p)
<1>1. \A q \in Nat : IsFiniteSet(LineBegins(q)) /\ Cardinality(LineBegins(q)) \in Nat
  <2> SUFFICES ASSUME NEW q \in Nat
               PROVE  IsFiniteSet(LineBegins(q)) /\ Cardinality(LineBegins(q)) \in Nat
    OBVIOUS
  <2>1. IsFiniteSet(1..q)
    BY FS_Interval
  <2>2. LineBegins(q) \in SUBSET (1..q)
    BY DEF LineBegins
  <2>3. IsFiniteSet(LineBegins(q))
    BY <2>1, <2>2, FS_Subset
  <2>4. QED BY <2>3, FS_CardinalityType
<1>2. RowOf(p) \in Int
  BY <1>1 DEF RowOf
<1>3. RowOf(1) = 0
  <2>1. LineBegins(1) = {1}
    BY DEF LineBegins
  <2>2. Cardinality({1}) = 1
    BY FS_Singleton
  <2>3. QED BY <2>1, <2>2 DEF RowOf
<1>4. RowOf(p + 1) = IF file[p + 1] \notin EndOfLine /\ file[p] \in EndOfLine
                     THEN RowOf(p) + 1 ELSE RowOf(p)
  <2>1. CASE file[p + 1] \notin EndOfLine /\ file[p] \in EndOfLine
    <3>1. LineBegins(p + 1) = LineBegins(p) \union {p + 1} /\ p + 1 \notin LineBegins(p)
      BY <2>1 DEF LineBegins
    <3>2. Cardinality(LineBegins(p + 1)) = Cardinality(LineBegins(p)) + 1
      BY <1>1, <3>1, FS_AddElement
    <3>3. QED BY <1>1, <2>1, <3>2 DEF RowOf
  <2>2. CASE ~ (file[p + 1] \notin EndOfLine /\ file[p] \in EndOfLine)
    <3>1. LineBegins(p + 1) = LineBegins(p)
      BY <2>2 DEF LineBegins
    <3>2. QED BY <2>2, <3>1 DEF RowOf
  <2>3. QED BY <2>1, <2>2
<1>5. QED BY <1>2, <1>3, <1>4

\* A column ends at a comma, and at the end of the line.
LEMMA ColNext ==
    ASSUME NEW p \in Nat \ {0}
    PROVE  /\ ColOf(p) \in Nat
           /\ ColOf(1) = 0
           /\ file[p] \in EndOfLine => ColOf(p + 1) = 0
           /\ file[p] \notin EndOfLine /\ file[p + 1] \notin EndOfLine =>
                 ColOf(p + 1) = IF file[p] = Comma THEN ColOf(p) + 1 ELSE ColOf(p)
<1> DEFINE commas(q) == {k \in 1..(q - 1) : file[k] = Comma /\ \A j \in k..q : file[j] \notin EndOfLine}
<1>1. \A q \in Nat : IsFiniteSet(commas(q)) /\ Cardinality(commas(q)) \in Nat
  <2> SUFFICES ASSUME NEW q \in Nat
               PROVE  IsFiniteSet(commas(q)) /\ Cardinality(commas(q)) \in Nat
    OBVIOUS
  <2>1. IsFiniteSet(1..(q - 1))
    BY FS_Interval
  <2>2. commas(q) \in SUBSET (1..(q - 1))
    OBVIOUS
  <2> HIDE DEF commas
  <2>3. IsFiniteSet(commas(q))
    BY <2>1, <2>2, FS_Subset
  <2>4. QED BY <2>3, FS_CardinalityType
<1>2. \A q : ColOf(q) = Cardinality(commas(q))
  BY DEF ColOf
<1>3. ColOf(1) = 0
  <2>1. commas(1) = {}
    OBVIOUS
  <2>2. QED BY <1>2, <2>1, FS_EmptySet
<1>4. ASSUME file[p] \in EndOfLine PROVE ColOf(p + 1) = 0
  <2>1. commas(p + 1) = {}
    BY <1>4
  <2>2. QED BY <1>2, <2>1, FS_EmptySet
<1>5. ASSUME file[p] \notin EndOfLine, file[p + 1] \notin EndOfLine
      PROVE  ColOf(p + 1) = IF file[p] = Comma THEN ColOf(p) + 1 ELSE ColOf(p)
  <2>1. \A k \in 1..(p - 1) :
            (\A j \in k..(p + 1) : file[j] \notin EndOfLine) <=> (\A j \in k..p : file[j] \notin EndOfLine)
    BY <1>5
  <2>2. CASE file[p] = Comma
    <3>1. commas(p + 1) = commas(p) \union {p} /\ p \notin commas(p)
      BY <1>5, <2>1, <2>2
    <3> HIDE DEF commas
    <3>2. Cardinality(commas(p + 1)) = Cardinality(commas(p)) + 1
      BY <1>1, <3>1, FS_AddElement
    <3>3. QED BY <1>2, <2>2, <3>2
  <2>3. CASE file[p] # Comma
    <3>1. commas(p + 1) = commas(p)
      BY <2>1, <2>3
    <3>2. QED BY <1>2, <2>3, <3>1
  <2>4. QED BY <2>2, <2>3
<1>6. ColOf(p) \in Nat
  BY <1>1, <1>2
<1>7. QED BY <1>3, <1>4, <1>5, <1>6

-----------------------------------------------------------------------------
(* What the variables may hold.                                            *)

\* A run of the buffer has an end, and it is the CHOOSE of RunEnd.
LEMMA RunEndProperties ==
    ASSUME NEW i \in 1..(BufferSize + 1), NEW S
    PROVE  /\ RunEnd(i, S) \in i..(BufferSize + 1)
           /\ \A k \in i..(RunEnd(i, S) - 1) : buffer[k] \in S
           /\ RunEnd(i, S) = BufferSize + 1 \/ buffer[RunEnd(i, S)] \notin S
<1> USE SizeAssumption
<1> DEFINE Stop == {e \in i..(BufferSize + 1) : e = BufferSize + 1 \/ buffer[e] \notin S}
<1>1. PICK e \in Stop : \A k \in Stop : e <= k
  <2>1. Stop \subseteq Nat /\ Stop # {}
    OBVIOUS
  <2> HIDE DEF Stop
  <2>2. QED BY <2>1, LeastNat
<1>2. \A k \in i..(e - 1) : buffer[k] \in S
  BY <1>1
<1>3. \E x \in i..(BufferSize + 1) : /\ \A k \in i..(x - 1) : buffer[k] \in S
                                     /\ x = BufferSize + 1 \/ buffer[x] \notin S
  BY <1>1, <1>2
<1>4. QED BY <1>3 DEF RunEnd

\* What atof returns is written with digits.
LEMMA AtofIsANumber ==
    ASSUME NEW i \in 1..BufferSize
    PROVE  Atof(i) \subseteq Seq(Digit)
<1> USE SizeAssumption
<1> DEFINE s == RunEnd(i, EndOfLine)
           e == RunEnd(s, Digit)
           number == SubSeq(buffer, s, e - 1)
<1>1. s \in 1..(BufferSize + 1)
  BY RunEndProperties
<1>2. e \in s..(BufferSize + 1) /\ \A k \in s..(e - 1) : buffer[k] \in Digit
  <2> HIDE DEF s
  <2>1. QED BY <1>1, RunEndProperties
<1>3. number \in Seq(Digit)
  <2> HIDE DEF s, e
  <2>1. s \in Int /\ e - 1 \in Int
    BY <1>1, <1>2
  <2>2. QED BY <1>2, <2>1, SubSeqProperties
<1>4. \A d \in Digit : Append(number, d) \in Seq(Digit)
  <2> HIDE DEF number
  <2>1. QED BY <1>3, AppendProperties
<1>5. Atof(i) \subseteq {number} \union {Append(number, d) : d \in Digit}
  BY DEF Atof
<1>6. QED
  <2> HIDE DEF number
  <2>1. QED BY <1>3, <1>4, <1>5

\* The places are only -1 before the first line and the first field, and a
\* field under way has one.
KnownPlace ==
    /\ state # "line_start" => row \in Nat
    /\ field_value # 0 \/ state = "field_value" => row \in Nat /\ col \in Nat

TypeInv == TypeOK /\ KnownPlace /\ WritesInTable

LEMMA InitTypeInv == ASSUME Init PROVE TypeInv
<1> USE SizeAssumption
<1>1. file \in Seq(Char) /\ Len(file) \in Nat
  BY DEF Init
<1>2. buffer \in [1..BufferSize -> Char \union {Garbage}]
  BY DEF Init
<1>3. DOMAIN value = Cell /\ value \in [DOMAIN value -> Seq(Digit)]
  BY EmptySeq DEF Init
<1>4. told \in [1..Len(file) -> Seq(Nat \X Nat)]
  BY EmptySeq DEF Init
<1>5. base \in 0..Len(file) /\ data_end \in 0..BufferSize /\ base + data_end <= Len(file)
      /\ cursor \in 1..(BufferSize + 1) /\ field_value \in 0..BufferSize
  BY <1>1 DEF Init
<1>6. file \in Files /\ pc \in {"read", "execute", "done"} /\ state \in States
      /\ row \in Nat \union {-1} /\ col \in Nat \union {-1} /\ KnownPlace
  BY DEF Init, States, KnownPlace
<1>7. QED BY <1>2, <1>3, <1>4, <1>5, <1>6 DEF TypeInv, TypeOK, WritesInTable

\* A callback for a field under way keeps the types and writes in the table.
LEMMA CallbackKeepsTypes ==
    ASSUME TypeInv, row \in Nat, col \in Nat,
           NEW i \in 1..BufferSize, NEW e, field_cb(i, e)
    PROVE  /\ DOMAIN value' = Cell
           /\ value' \in [DOMAIN value' -> Seq(Digit)]
           /\ told' \in [1..Len(file) -> Seq(Nat \X Nat)]
<1> USE SizeAssumption
<1>1. told' \in [1..Len(file) -> Seq(Nat \X Nat)]
  <2>1. <<row, col>> \in Nat \X Nat
    OBVIOUS
  <2>2. \A q \in Seq(Nat \X Nat) : Append(q, <<row, col>>) \in Seq(Nat \X Nat)
    BY <2>1, AppendProperties
  <2>3. told \in [1..Len(file) -> Seq(Nat \X Nat)]
    BY DEF TypeInv, TypeOK
  <2>4. told' = [p \in 1..Len(file) |->
                   IF p \in (base + i)..(base + e - 1)
                   THEN Append(told[p], <<row, col>>) ELSE told[p]]
    BY <2>3 DEF field_cb
  <2>5. QED BY <2>2, <2>3, <2>4
<1>2. DOMAIN value' = Cell /\ value' \in [DOMAIN value' -> Seq(Digit)]
  <2>1. value \in [Cell -> Seq(Digit)]
    BY DEF TypeInv, TypeOK, WritesInTable
  <2>2. CASE InTable(row, col) /\ ~OutOfTable(row, col)
    <3>1. <<row - 1, col - 1>> \in Cell
      BY <2>2 DEF InTable, OutOfTable, Cell
    <3>2. PICK x \in Seq(Digit) :
              value' = [cell \in DOMAIN value \union {<<row - 1, col - 1>>} |->
                           IF cell = <<row - 1, col - 1>> THEN x ELSE value[cell]]
      BY <2>2, AtofIsANumber DEF field_cb
    <3>3. DOMAIN value \union {<<row - 1, col - 1>>} = Cell
      BY <2>1, <3>1
    <3>4. value' = [cell \in Cell |-> IF cell = <<row - 1, col - 1>> THEN x ELSE value[cell]]
      BY <3>2, <3>3
    <3>5. QED BY <2>1, <3>4
  <2>3. CASE ~ (InTable(row, col) /\ ~OutOfTable(row, col))
    <3>1. value' = value
      BY <2>3 DEF field_cb
    <3>2. QED BY <2>1, <3>1
  <2>4. QED BY <2>2, <2>3
<1>3. QED BY <1>1, <1>2

\* So does a report, which is of a field under way or of none.
LEMMA ReportKeepsTypes ==
    ASSUME TypeInv, NEW i \in 0..BufferSize, NEW e, NEW next \in States, Report(i, e, next),
           i # 0 => row \in Nat /\ col \in Nat
    PROVE  /\ DOMAIN value' = Cell
           /\ value' \in [DOMAIN value' -> Seq(Digit)]
           /\ told' \in [1..Len(file) -> Seq(Nat \X Nat)]
           /\ state' \in {next, "error"}
<1> USE SizeAssumption
<1>1. CASE i = 0
  BY <1>1 DEF Report, TypeInv, TypeOK, WritesInTable
<1>2. CASE i # 0
  <2>1. i \in 1..BufferSize /\ field_cb(i, e) /\ state' \in {next, "error"}
    BY <1>2 DEF Report
  <2>2. QED BY <1>2, <2>1, CallbackKeepsTypes
<1>3. QED BY <1>1, <1>2

LEMMA ReadKeepsTypes == ASSUME TypeInv, Read PROVE TypeInv'
<1> USE SizeAssumption
<1> DEFINE from == base + data_end
           n == IF Len(file) - from < BufferSize THEN Len(file) - from ELSE BufferSize
<1>1. /\ file \in Seq(Char) /\ Len(file) \in Nat /\ from \in Nat /\ from <= Len(file)
      /\ \A k \in 1..Len(file) : file[k] \in Char
  BY DEF TypeInv, TypeOK
<1>2. n \in 1..BufferSize /\ from + n <= Len(file)
  BY <1>1 DEF Read
<1>3. buffer' = [k \in 1..BufferSize |-> IF k <= n THEN file[from + k] ELSE buffer[k]]
  BY DEF Read
<1>4. buffer' \in [1..BufferSize -> Char \union {Garbage}]
  <2>1. buffer \in [1..BufferSize -> Char \union {Garbage}]
    BY DEF TypeInv, TypeOK
  <2>2. \A k \in 1..BufferSize : k <= n => from + k \in 1..Len(file)
    BY <1>1, <1>2
  <2> HIDE DEF from, n
  <2>3. QED BY <1>1, <1>3, <2>1, <2>2
<1>5. /\ pc' = "execute" /\ base' = from /\ data_end' = n /\ cursor' = 1 /\ field_value' = 0
      /\ UNCHANGED <<file, state, row, col, value, told>>
  BY DEF Read, PassedOn, parser
<1>6. base' \in 0..Len(file) /\ data_end' \in 0..BufferSize /\ base' + data_end' <= Len(file)
      /\ cursor' \in 1..(BufferSize + 1) /\ field_value' \in 0..BufferSize
  BY <1>1, <1>2, <1>5
<1> HIDE DEF from, n
<1>7. QED BY <1>4, <1>5, <1>6 DEF TypeInv, TypeOK, KnownPlace, WritesInTable

\* The iterations of the parser's loop.
LEMMA ParserKeepsTypes == ASSUME TypeInv, csv_parser_execute PROVE TypeInv'
<1> USE SizeAssumption
<1>1. CASE LineStart
  BY <1>1 DEF LineStart, InState, TypeInv, TypeOK, KnownPlace, WritesInTable, States
<1>2. CASE FieldStart
  BY <1>2 DEF FieldStart, InState, TypeInv, TypeOK, KnownPlace, WritesInTable, States
<1>3. CASE FieldStops
  BY <1>3 DEF FieldStops, InState, TypeInv, TypeOK, KnownPlace, WritesInTable, States
<1>4. CASE FieldGoesOn
  <2>1. /\ cursor \in 1..BufferSize /\ cursor' \in 1..(BufferSize + 1)
        /\ Resumed \in 1..BufferSize /\ field_value' = Resumed
        /\ row \in Nat /\ col \in Nat /\ "field_value" \in States
        /\ UNCHANGED <<file, pc, buffer, base, data_end, row, col>>
    BY <1>4 DEF FieldGoesOn, InState, Resumed, TypeInv, TypeOK, KnownPlace, States
  <2>2. /\ DOMAIN value' = Cell
        /\ value' \in [DOMAIN value' -> Seq(Digit)]
        /\ told' \in [1..Len(file) -> Seq(Nat \X Nat)]
        /\ state' \in {"field_value", "error"}
    <3>1. CASE cursor = data_end
      <4>1. Report(Resumed, cursor + 1, "field_value")
        BY <1>4, <3>1 DEF FieldGoesOn
      <4>2. Resumed \in 0..BufferSize
        BY <2>1
      <4>3. QED BY <2>1, <4>1, <4>2, ReportKeepsTypes
    <3>2. CASE cursor # data_end
      BY <1>4, <3>2 DEF FieldGoesOn, InState, TypeInv, TypeOK, WritesInTable
    <3>3. QED BY <3>1, <3>2
  <2>3. QED BY <2>1, <2>2 DEF TypeInv, TypeOK, KnownPlace, WritesInTable, States
<1>5. CASE FieldEnd
  <2>1. /\ cursor \in 1..BufferSize /\ cursor' \in 1..(BufferSize + 1)
        /\ field_value \in 0..BufferSize
        /\ row \in Nat /\ (field_value # 0 => col \in Nat) /\ "field_start" \in States
        /\ UNCHANGED <<file, pc, buffer, base, data_end, row, col, field_value>>
    BY <1>5 DEF FieldEnd, InState, TypeInv, TypeOK, KnownPlace, States
  <2>2. Report(field_value, cursor, "field_start")
    BY <1>5 DEF FieldEnd
  <2>3. /\ DOMAIN value' = Cell
        /\ value' \in [DOMAIN value' -> Seq(Digit)]
        /\ told' \in [1..Len(file) -> Seq(Nat \X Nat)]
        /\ state' \in {"field_start", "error"}
    BY <2>1, <2>2, ReportKeepsTypes
  <2>4. QED BY <2>1, <2>3 DEF TypeInv, TypeOK, KnownPlace, WritesInTable, States
<1>6. CASE LineEndBegin
  <2>1. /\ field_value \in 0..BufferSize
        /\ row \in Nat /\ (field_value # 0 => col \in Nat) /\ "line_end" \in States
        /\ UNCHANGED <<file, pc, buffer, base, data_end, row, col, cursor, field_value>>
    BY <1>6 DEF LineEndBegin, InState, TypeInv, TypeOK, KnownPlace, States
  <2>2. Report(field_value, cursor, "line_end")
    BY <1>6 DEF LineEndBegin
  <2>3. /\ DOMAIN value' = Cell
        /\ value' \in [DOMAIN value' -> Seq(Digit)]
        /\ told' \in [1..Len(file) -> Seq(Nat \X Nat)]
        /\ state' \in {"line_end", "error"}
    BY <2>1, <2>2, ReportKeepsTypes
  <2>4. QED BY <2>1, <2>3 DEF TypeInv, TypeOK, KnownPlace, WritesInTable, States
<1>7. CASE LineEnd
  BY <1>7 DEF LineEnd, InState, TypeInv, TypeOK, KnownPlace, WritesInTable, States
<1>8. CASE Return
  BY <1>8 DEF Return, parser, TypeInv, TypeOK, KnownPlace, WritesInTable, States
<1>9. QED BY <1>1, <1>2, <1>3, <1>4, <1>5, <1>6, <1>7, <1>8 DEF csv_parser_execute

LEMMA StepKeepsTypes == ASSUME TypeInv, [Next]_vars PROVE TypeInv'
<1>1. CASE Read
  BY <1>1, ReadKeepsTypes
<1>2. CASE csv_parser_execute
  BY <1>2, ParserKeepsTypes
<1>3. CASE ReadsEnd
  BY <1>3 DEF ReadsEnd, parser, TypeInv, TypeOK, KnownPlace, WritesInTable
<1>4. CASE UNCHANGED vars
  BY <1>4 DEF vars, TypeInv, TypeOK, KnownPlace, WritesInTable
<1>5. QED BY <1>1, <1>2, <1>3, <1>4 DEF Next

\* Every variable stays in its type: csv_parser.c's state, places and indexes
\* and the table csv_frame_factor.c fills.
THEOREM TypeCorrect == Spec => []TypeOK
<1>1. Spec => []TypeInv
  BY InitTypeInv, StepKeepsTypes, PTL DEF Spec
<1>2. TypeInv => TypeOK
  BY DEF TypeInv
<1>3. QED BY <1>1, <1>2, PTL

\* csv_frame_factor.c:14-19: whatever the file, only cells of the table are
\* written.
THEOREM TableBounds == Spec => []WritesInTable
<1>1. Spec => []TypeInv
  BY InitTypeInv, StepKeepsTypes, PTL DEF Spec
<1>2. TypeInv => WritesInTable
  BY DEF TypeInv
<1>3. QED BY <1>1, <1>2, PTL

-----------------------------------------------------------------------------
(* What has been told, and where the parser is.                            *)

Here == base + cursor

\* The buffer holds the piece of the file behind base, and the parser has
\* consumed all of it when it returns.
ReaderInv ==
    /\ cursor <= data_end + 1
    /\ \A i \in 1..data_end : buffer[i] = file[base + i]
    /\ pc # "execute" /\ state # "error" => cursor = data_end + 1

\* The row counts the lines, the next one's beginning excepted.
RowInv ==
    \A p \in 1..Len(file) : p = Here =>
        row = IF state = "line_start" \/ (state = "line_end" /\ file[p] \notin EndOfLine)
              THEN RowOf(p) - 1 ELSE RowOf(p)

\* A line begins behind another.
BeginInv ==
    \A p \in 1..Len(file) :
        p = Here /\ p > 1 /\ state \in {"line_start", "line_end"} /\ file[p] \notin EndOfLine
            => file[p - 1] \in EndOfLine

\* The column counts the commas, and is right as long as the line goes on.
ColInv ==
    \A p \in 1..Len(file) : p = Here =>
        /\ state = "field_start" /\ file[p] \notin EndOfLine => col + 1 = ColOf(p)
        /\ state = "field_value" /\ file[p] \notin EndOfLine => col = ColOf(p)
        /\ state = "field_end" => file[p] = Comma /\ col = ColOf(p)
        /\ state = "line_end_begin" => file[p] \in EndOfLine

\* A field of this piece is waiting for its end.
UnderWay ==
    /\ cursor <= data_end
    /\ field_value # 0
    /\ state \in {"field_value", "field_end", "line_end_begin"}

\* Its characters so far have the parser's place and were not reported.
FieldInv ==
    UnderWay =>
        /\ field_value <= cursor
        /\ \A p \in 1..Len(file) :
              base + field_value <= p /\ p < Here =>
                  file[p] \notin Separator /\ Place(p) = <<row, col>> /\ told[p] = <<>>

AheadInv == \A p \in 1..Len(file) : p >= Here => told[p] = <<>>

BehindInv ==
    \A p \in 1..Len(file) : p < Here =>
        IF file[p] \in Separator
        THEN told[p] = <<>>
        ELSE told[p] = <<Place(p)>> \/ (UnderWay /\ base + field_value <= p)

ScanInv == RowInv /\ BeginInv /\ ColInv /\ FieldInv /\ AheadInv /\ BehindInv

\* The inductive invariant.  After a callback that failed the parser stands
\* still, so nothing more is known of its place, nor needed.
IInv ==
    /\ TypeInv
    /\ ReaderInv
    /\ ReportedInPlace
    /\ state # "error" => ScanInv

\* The character at the cursor is the file's.
LEMMA Current ==
    ASSUME IInv, pc = "execute", cursor <= data_end
    PROVE  /\ Len(file) \in Nat /\ Here \in 1..Len(file) /\ Here \in Nat \ {0} /\ ch = file[Here]
           /\ DOMAIN told = 1..Len(file)
<1>1. /\ file \in Seq(Char) /\ Len(file) \in Nat
  BY SizeAssumption DEF IInv, TypeInv, TypeOK
<1>2. cursor \in 1..data_end /\ base \in Nat /\ data_end \in Nat /\ base + data_end <= Len(file)
  BY <1>1, SizeAssumption DEF IInv, TypeInv, TypeOK
<1>3. buffer[cursor] = file[base + cursor]
  BY <1>2 DEF IInv, ReaderInv
<1>4. DOMAIN told = 1..Len(file)
  BY DEF IInv, TypeInv, TypeOK
<1>5. QED BY <1>1, <1>2, <1>3, <1>4 DEF Here, ch

\* The places do not change while the file does not.
LEMMA SamePlaces ==
    ASSUME file' = file
    PROVE  \A p : RowOf(p)' = RowOf(p) /\ ColOf(p)' = ColOf(p) /\ Place(p)' = Place(p)
<1>1. \A p : RowOf(p)' = RowOf(p)
  BY DEF RowOf, LineBegins
<1>2. \A p : ColOf(p)' = ColOf(p)
  BY DEF ColOf
<1>3. QED BY <1>1, <1>2 DEF Place

\* A report appends the parser's place for the bytes of its range.
LEMMA ReportTells ==
    ASSUME TypeInv, NEW i \in 0..BufferSize, NEW e \in Nat, NEW next, Report(i, e, next)
    PROVE  /\ state' \in {next, "error"}
           /\ \A p \in 1..Len(file) :
                 told'[p] = IF i # 0 /\ base + i <= p /\ p < base + e
                            THEN Append(told[p], <<row, col>>) ELSE told[p]
<1>1. told \in [1..Len(file) -> Seq(Nat \X Nat)] /\ base \in Nat /\ Len(file) \in Nat
  BY SizeAssumption DEF TypeInv, TypeOK
<1>2. CASE i = 0
  BY <1>2 DEF Report
<1>3. CASE i # 0
  <2>1. told' = [p \in 1..Len(file) |->
                   IF p \in (base + i)..(base + e - 1)
                   THEN Append(told[p], <<row, col>>) ELSE told[p]]
    BY <1>1, <1>3 DEF Report, field_cb
  <2>2. \A p \in 1..Len(file) : p \in (base + i)..(base + e - 1) <=> base + i <= p /\ p < base + e
    BY <1>1
  <2>3. QED BY <1>3, <2>1, <2>2 DEF Report
<1>4. QED BY <1>2, <1>3

LEMMA InitIInv == ASSUME Init PROVE IInv
<1> USE SizeAssumption
<1>1. Len(file) \in Nat /\ TypeInv
  BY InitTypeInv DEF Init
<1>2. ReaderInv
  BY DEF Init, ReaderInv
<1>3. ReportedInPlace
  BY DEF Init, ReportedInPlace
<1>4. Here = 1
  BY DEF Init, Here
<1>5. RowInv
  BY <1>4, RowNext DEF Init, RowInv
<1>6. BeginInv /\ ColInv /\ FieldInv /\ AheadInv /\ BehindInv
  BY <1>1, <1>4 DEF Init, BeginInv, ColInv, FieldInv, UnderWay, AheadInv, BehindInv
<1>7. QED BY <1>1, <1>2, <1>3, <1>5, <1>6 DEF IInv, ScanInv

\* A read goes on where the last one stopped.
LEMMA ReadKeeps == ASSUME IInv, Read PROVE (ReaderInv /\ ReportedInPlace /\ (state # "error" => ScanInv))'
<1> USE SizeAssumption
<1> DEFINE from == base + data_end
           n == IF Len(file) - from < BufferSize THEN Len(file) - from ELSE BufferSize
<1>1. /\ file \in Seq(Char) /\ Len(file) \in Nat /\ base \in Nat /\ data_end \in Nat
      /\ from <= Len(file)
  BY DEF IInv, TypeInv, TypeOK
<1>2. n \in 1..BufferSize
  BY <1>1 DEF Read
<1>3. buffer' = [k \in 1..BufferSize |-> IF k <= n THEN file[from + k] ELSE buffer[k]]
  BY DEF Read
<1>4. /\ pc' = "execute" /\ base' = from /\ data_end' = n /\ cursor' = 1 /\ field_value' = 0
      /\ file' = file /\ state' = state /\ row' = row /\ col' = col /\ told' = told
  BY DEF Read, PassedOn, parser
<1>5. ReaderInv'
  <2> HIDE DEF n, from
  <2>1. QED BY <1>2, <1>3, <1>4 DEF ReaderInv
<1>6. ReportedInPlace'
  BY <1>4, SamePlaces DEF ReportedInPlace, IInv
<1>7. ASSUME state # "error" PROVE ScanInv'
  <2>1. cursor = data_end + 1 /\ ScanInv
    BY <1>7 DEF IInv, ReaderInv, Read
  <2>2. Here' = Here
    BY <1>1, <1>4, <2>1 DEF Here
  <2>3. ~ UnderWay /\ ~ UnderWay'
    BY <1>1, <1>4, <2>1 DEF UnderWay
  <2> HIDE DEF n, from
  <2>4. RowInv' /\ BeginInv' /\ ColInv'
    BY <1>4, <2>1, <2>2, SamePlaces DEF ScanInv, RowInv, BeginInv, ColInv
  <2>5. FieldInv' /\ AheadInv' /\ BehindInv'
    BY <1>4, <2>1, <2>2, <2>3, SamePlaces DEF ScanInv, FieldInv, AheadInv, BehindInv
  <2>6. QED BY <2>4, <2>5 DEF ScanInv
<1>8. QED BY <1>4, <1>5, <1>6, <1>7

\* The iterations that consume nothing and report nothing.
LEMMA StayingKeeps ==
    ASSUME IInv, LineStart \/ FieldStart \/ FieldStops
    PROVE  ReaderInv' /\ ReportedInPlace' /\ ScanInv'
<1>1. /\ pc = "execute" /\ cursor <= data_end /\ state # "error"
      /\ UNCHANGED <<file, pc, buffer, base, data_end, cursor, told>>
  BY DEF LineStart, FieldStart, FieldStops, InState
<1>2. /\ Len(file) \in Nat /\ Here \in 1..Len(file) /\ ch = file[Here] /\ Here' = Here
      /\ base \in Nat /\ cursor \in Nat \ {0}
  BY <1>1, Current, SizeAssumption DEF Here, IInv, TypeInv, TypeOK
<1>3. ScanInv /\ state' # "error"
  BY <1>1 DEF IInv, LineStart, FieldStart, FieldStops
<1>4. ReaderInv' /\ ReportedInPlace'
  BY <1>1, SamePlaces DEF IInv, ReaderInv, ReportedInPlace
<1>5. AheadInv'
  BY <1>1, <1>2, <1>3 DEF ScanInv, AheadInv
<1>6. CASE LineStart
  <2>1. /\ row' = row + 1 /\ col' = -1 /\ state = "line_start"
        /\ state' = IF file[Here] \in EndOfLine THEN "line_end_begin" ELSE "field_start"
        /\ ~ UnderWay /\ ~ UnderWay'
    BY <1>2, <1>6 DEF LineStart, InState, UnderWay
  <2>2. row = RowOf(Here) - 1 /\ RowOf(Here) \in Int
    BY <1>2, <1>3, <2>1, RowNext DEF ScanInv, RowInv
  <2>3. RowInv'
    BY <1>1, <1>2, <2>1, <2>2, SamePlaces DEF RowInv
  <2>4. ASSUME file[Here] \notin EndOfLine PROVE ColOf(Here) = 0
    <3>1. CASE Here = 1
      BY <3>1, ColNext
    <3>2. CASE Here > 1
      <4>1. file[Here - 1] \in EndOfLine
        BY <1>2, <1>3, <2>1, <2>4, <3>2 DEF ScanInv, BeginInv
      <4>2. Here - 1 \in Nat \ {0} /\ (Here - 1) + 1 = Here
        BY <1>2, <3>2
      <4>3. QED BY <4>1, <4>2, ColNext
    <3>3. QED BY <1>2, <3>1, <3>2
  <2>5. ColInv' /\ BeginInv'
    BY <1>1, <1>2, <2>1, <2>4, SamePlaces DEF ColInv, BeginInv
  <2>6. FieldInv' /\ BehindInv'
    BY <1>1, <1>2, <1>3, <2>1, SamePlaces DEF ScanInv, FieldInv, BehindInv
  <2>7. QED BY <1>4, <1>5, <2>3, <2>5, <2>6 DEF ScanInv
<1>7. CASE FieldStart
  <2>1. /\ row' = row /\ col' = col + 1 /\ state = "field_start" /\ state' = "field_value"
        /\ field_value' = cursor /\ ~ UnderWay /\ UnderWay'
    BY <1>1, <1>2, <1>7 DEF FieldStart, InState, UnderWay
  <2>2. RowInv'
    BY <1>1, <1>2, <1>3, <2>1, SamePlaces DEF ScanInv, RowInv
  <2>3. ColInv' /\ BeginInv'
    BY <1>1, <1>2, <1>3, <2>1, SamePlaces DEF ScanInv, ColInv, BeginInv
  <2>4. FieldInv'
    BY <1>1, <1>2, <2>1 DEF FieldInv, Here
  <2>5. BehindInv'
    BY <1>1, <1>2, <1>3, <2>1, SamePlaces DEF ScanInv, BehindInv
  <2>6. QED BY <1>4, <1>5, <2>2, <2>3, <2>4, <2>5 DEF ScanInv
<1>8. CASE FieldStops
  <2>1. /\ row' = row /\ col' = col /\ field_value' = field_value /\ state = "field_value"
        /\ file[Here] \in Separator
        /\ state' = IF file[Here] = Comma THEN "field_end" ELSE "line_end_begin"
        /\ UnderWay' = UnderWay
    BY <1>1, <1>2, <1>8 DEF FieldStops, InState, UnderWay
  <2>2. RowInv'
    BY <1>1, <1>2, <1>3, <2>1, SamePlaces DEF ScanInv, RowInv
  <2>3. file[Here] = Comma => col = ColOf(Here)
    BY <1>2, <1>3, <2>1, CharAssumption DEF ScanInv, ColInv
  <2>4. ColInv' /\ BeginInv'
    BY <1>1, <1>2, <2>1, <2>3, SamePlaces DEF ColInv, BeginInv, Separator
  <2>5. FieldInv'
    BY <1>1, <1>2, <1>3, <2>1, SamePlaces DEF ScanInv, FieldInv
  <2>6. BehindInv'
    BY <1>1, <1>2, <1>3, <2>1, SamePlaces DEF ScanInv, BehindInv
  <2>7. QED BY <1>4, <1>5, <2>2, <2>4, <2>5, <2>6 DEF ScanInv
<1>9. QED BY <1>6, <1>7, <1>8

\* A character of a field is the field's, and has the field's place.
LEMMA GoingOnKeeps ==
    ASSUME IInv, FieldGoesOn
    PROVE  ReaderInv' /\ ReportedInPlace' /\ (state # "error" => ScanInv)'
<1>1. /\ pc = "execute" /\ cursor <= data_end /\ state = "field_value" /\ ch \notin Separator
      /\ cursor' = cursor + 1 /\ field_value' = Resumed
      /\ UNCHANGED <<file, pc, buffer, base, data_end, row, col>>
  BY DEF FieldGoesOn, InState
<1>2. /\ Len(file) \in Nat /\ Here \in 1..Len(file) /\ ch = file[Here] /\ Here' = Here + 1
      /\ base \in Nat /\ data_end \in Nat /\ cursor \in 1..BufferSize /\ field_value \in 0..BufferSize
  <2>1. Len(file) \in Nat /\ Here \in 1..Len(file) /\ ch = file[Here]
    BY <1>1, Current
  <2>2. base \in Nat /\ data_end \in Nat /\ cursor \in 1..BufferSize /\ field_value \in 0..BufferSize
    BY <1>1, <2>1, SizeAssumption DEF IInv, TypeInv, TypeOK
  <2>3. QED BY <1>1, <2>1, <2>2 DEF Here
<1>3. ScanInv /\ ReportedInPlace /\ ReaderInv /\ TypeInv
  BY <1>1 DEF IInv
<1>4. Place(Here) = <<row, col>> /\ file[Here] \notin Separator /\ told[Here] = <<>>
  <2>1. row = RowOf(Here)
    BY <1>1, <1>2, <1>3 DEF ScanInv, RowInv
  <2>2. col = ColOf(Here)
    BY <1>1, <1>2, <1>3 DEF ScanInv, ColInv, Separator
  <2>3. told[Here] = <<>>
    BY <1>2, <1>3 DEF ScanInv, AheadInv
  <2>4. QED BY <1>1, <1>2, <2>1, <2>2, <2>3 DEF Place
<1>5. /\ Resumed \in 1..BufferSize /\ Resumed <= cursor
      /\ \A p \in 1..Len(file) : base + Resumed <= p /\ p < Here + 1 =>
            file[p] \notin Separator /\ Place(p) = <<row, col>> /\ told[p] = <<>>
  <2>1. CASE field_value = 0
    BY <1>2, <1>4, <2>1 DEF Resumed, Here
  <2>2. CASE field_value # 0
    <3>1. UnderWay
      BY <1>1, <2>2 DEF UnderWay
    <3>2. /\ field_value <= cursor
          /\ \A p \in 1..Len(file) : base + field_value <= p /\ p < Here =>
                file[p] \notin Separator /\ Place(p) = <<row, col>> /\ told[p] = <<>>
      BY <1>3, <3>1 DEF ScanInv, FieldInv
    <3>3. QED BY <1>2, <1>4, <2>2, <3>2 DEF Resumed
  <2>3. QED BY <2>1, <2>2
<1>6. \A p \in 1..Len(file) : p < Here + 1 =>
         IF file[p] \in Separator
         THEN told[p] = <<>>
         ELSE told[p] = <<Place(p)>> \/ base + Resumed <= p
  <2>1. \A p \in 1..Len(file) : p < Here + 1 => p < Here \/ p = Here
    BY <1>2
  <2>2. UnderWay => base + Resumed = base + field_value
    BY DEF UnderWay, Resumed
  <2>3. base + Resumed <= Here
    BY <1>2, <1>5 DEF Here
  <2>4. QED BY <1>3, <1>4, <2>1, <2>2, <2>3 DEF ScanInv, BehindInv
<1>7. ReaderInv'
  BY <1>1, <1>2, <1>3 DEF ReaderInv
<1>8. (RowInv' /\ ColInv' /\ BeginInv') \/ state' = "error"
  <2> SUFFICES ASSUME state' # "error" PROVE RowInv' /\ ColInv' /\ BeginInv'
    OBVIOUS
  <2>1. state' = "field_value"
    BY <1>1 DEF FieldGoesOn, Report
  <2>2. RowOf(Here + 1) = RowOf(Here)
    BY <1>2, <1>4, RowNext DEF Separator
  <2>3. file[Here + 1] \notin EndOfLine => ColOf(Here + 1) = ColOf(Here)
    BY <1>2, <1>4, ColNext DEF Separator
  <2>4. row = RowOf(Here) /\ col = ColOf(Here)
    BY <1>4 DEF Place
  <2>5. QED BY <1>1, <1>2, <2>1, <2>2, <2>3, <2>4, SamePlaces DEF RowInv, ColInv, BeginInv
<1>9. CASE cursor # data_end
  <2>1. told' = told /\ state' = "field_value"
    BY <1>1, <1>9 DEF FieldGoesOn
  <2>2. UnderWay'
    BY <1>1, <1>2, <1>5, <1>9, <2>1 DEF UnderWay
  <2>3. ReportedInPlace'
    BY <1>1, <1>3, <2>1, SamePlaces DEF ReportedInPlace
  <2>4. FieldInv'
    BY <1>1, <1>2, <1>5, <2>1, SamePlaces DEF FieldInv
  <2>5. AheadInv'
    BY <1>1, <1>2, <1>3, <2>1 DEF ScanInv, AheadInv
  <2>6. BehindInv'
    BY <1>1, <1>2, <1>6, <2>1, <2>2, SamePlaces DEF BehindInv
  <2>7. QED BY <1>7, <1>8, <2>1, <2>3, <2>4, <2>5, <2>6 DEF ScanInv
<1>10. CASE cursor = data_end
  <2>1. Report(Resumed, cursor + 1, "field_value")
    BY <1>10 DEF FieldGoesOn
  <2>2. Resumed \in 0..BufferSize /\ cursor + 1 \in Nat /\ Resumed # 0
    BY <1>2, <1>5, SizeAssumption
  <2>3. \A p \in 1..Len(file) :
           told'[p] = IF base + Resumed <= p /\ p < base + (cursor + 1)
                      THEN Append(told[p], <<row, col>>) ELSE told[p]
    BY <1>3, <2>1, <2>2, ReportTells
  <2>4. base + (cursor + 1) = Here + 1
    BY <1>2 DEF Here
  <2>5. \A p \in 1..Len(file) :
           told'[p] = IF base + Resumed <= p /\ p < Here + 1 THEN <<Place(p)>> ELSE told[p]
    <3>1. Append(<<>>, <<row, col>>) = << <<row, col>> >>
      OBVIOUS
    <3>2. QED BY <1>5, <2>3, <2>4, <3>1
  <2>6. ~ UnderWay'
    BY <1>1, <1>2, <1>10 DEF UnderWay
  <2>7. DOMAIN told = 1..Len(file) /\ DOMAIN told' = 1..Len(file)
    BY <1>1, <1>3, StepKeepsTypes DEF TypeInv, TypeOK, Next, csv_parser_execute
  <2>8. ReportedInPlace'
    BY <1>1, <1>3, <2>5, <2>7, SamePlaces DEF ReportedInPlace
  <2>9. FieldInv'
    BY <2>6 DEF FieldInv
  <2>10. AheadInv'
    <3>1. \A p \in 1..Len(file) : p >= Here + 1 => ~ (p < Here + 1) /\ p >= Here
      BY <1>2
    <3>2. \A p \in 1..Len(file) : p >= Here + 1 => told'[p] = told[p]
      BY <2>5, <3>1
    <3>3. QED BY <1>1, <1>2, <1>3, <3>1, <3>2 DEF ScanInv, AheadInv
  <2>11. BehindInv'
    BY <1>1, <1>2, <1>5, <1>6, <2>5, SamePlaces DEF BehindInv
  <2>12. QED BY <1>7, <1>8, <2>8, <2>9, <2>10, <2>11 DEF ScanInv
<1>11. QED BY <1>9, <1>10

\* What FieldEnd and LineEndBegin report is the field under way, and after
\* it every character so far is told.
LEMMA ReportCompletes ==
    ASSUME IInv, pc = "execute", cursor <= data_end, state \in {"field_end", "line_end_begin"},
           NEW next, Report(field_value, cursor, next), file' = file
    PROVE  /\ state' \in {next, "error"}
           /\ ReportedInPlace'
           /\ \A p \in 1..Len(file) : p >= Here => told'[p] = <<>>
           /\ \A p \in 1..Len(file) : p < Here =>
                 told'[p] = IF file[p] \in Separator THEN <<>> ELSE <<Place(p)>>
<1>1. /\ Len(file) \in Nat /\ Here \in 1..Len(file) /\ Here \in Nat \ {0}
  BY Current
<1>2. base \in Nat /\ data_end \in Nat /\ cursor \in Nat /\ field_value \in 0..BufferSize
  BY <1>1, SizeAssumption DEF IInv, TypeInv, TypeOK
<1>3. ScanInv /\ ReportedInPlace /\ TypeInv
  BY DEF IInv
<1>4. /\ state' \in {next, "error"}
      /\ \A p \in 1..Len(file) :
            told'[p] = IF field_value # 0 /\ base + field_value <= p /\ p < Here
                       THEN Append(told[p], <<row, col>>) ELSE told[p]
  BY <1>2, <1>3, ReportTells DEF Here
<1>5. UnderWay <=> field_value # 0
  BY DEF UnderWay
<1>6. \A p \in 1..Len(file) :
         field_value # 0 /\ base + field_value <= p /\ p < Here =>
             file[p] \notin Separator /\ Place(p) = <<row, col>> /\ told[p] = <<>>
  BY <1>3, <1>5 DEF ScanInv, FieldInv
<1>7. \A p \in 1..Len(file) :
         told'[p] = IF field_value # 0 /\ base + field_value <= p /\ p < Here
                    THEN <<Place(p)>> ELSE told[p]
  <2>1. Append(<<>>, <<row, col>>) = << <<row, col>> >>
    OBVIOUS
  <2>2. QED BY <1>4, <1>6, <2>1
<1>8. \A p \in 1..Len(file) : p >= Here => told'[p] = <<>>
  <2>1. \A p \in 1..Len(file) : p >= Here => ~ (p < Here)
    BY <1>1
  <2>2. \A p \in 1..Len(file) : p >= Here => told'[p] = told[p]
    BY <1>7, <2>1
  <2>3. QED BY <1>3, <2>2 DEF ScanInv, AheadInv
<1>9. ASSUME NEW p \in 1..Len(file), p < Here
      PROVE  told'[p] = IF file[p] \in Separator THEN <<>> ELSE <<Place(p)>>
  <2>1. IF file[p] \in Separator
        THEN told[p] = <<>>
        ELSE told[p] = <<Place(p)>> \/ (UnderWay /\ base + field_value <= p)
    BY <1>3, <1>9 DEF ScanInv, BehindInv
  <2>2. CASE field_value # 0 /\ base + field_value <= p
    BY <1>6, <1>7, <1>9, <2>2
  <2>3. CASE ~ (field_value # 0 /\ base + field_value <= p)
    BY <1>5, <1>7, <2>1, <2>3
  <2>4. QED BY <2>2, <2>3
<1>10. ReportedInPlace'
  <2>1. DOMAIN told' = 1..Len(file)
    BY <1>3 DEF TypeInv, TypeOK, Report, field_cb
  <2>2. \A p \in 1..Len(file) : told'[p] \in {<<>>, <<Place(p)>>}
    <3>1. \A p \in 1..Len(file) : p >= Here \/ p < Here
      BY <1>1
    <3>2. QED BY <1>8, <1>9, <3>1
  <2>3. QED BY <2>1, <2>2, SamePlaces DEF ReportedInPlace
<1>11. QED BY <1>4, <1>8, <1>9, <1>10

\* The comma is not the field's: the next one begins behind it, one column on.
LEMMA FieldEndKeeps ==
    ASSUME IInv, FieldEnd
    PROVE  ReaderInv' /\ ReportedInPlace' /\ (state # "error" => ScanInv)'
<1>1. /\ pc = "execute" /\ cursor <= data_end /\ state = "field_end"
      /\ Report(field_value, cursor, "field_start")
      /\ cursor' = IF state' = "error" THEN cursor ELSE cursor + 1
      /\ UNCHANGED <<file, pc, buffer, base, data_end, row, col, field_value>>
  BY DEF FieldEnd, InState
<1>2. /\ Len(file) \in Nat /\ Here \in 1..Len(file) /\ Here \in Nat \ {0}
      /\ base \in Nat /\ data_end \in Nat /\ cursor \in Nat
  <2>1. Len(file) \in Nat /\ Here \in 1..Len(file) /\ Here \in Nat \ {0}
    BY <1>1, Current
  <2>2. QED BY <2>1, SizeAssumption DEF IInv, TypeInv, TypeOK
<1>3. /\ state' \in {"field_start", "error"}
      /\ ReportedInPlace'
      /\ \A p \in 1..Len(file) : p >= Here => told'[p] = <<>>
      /\ \A p \in 1..Len(file) : p < Here =>
            told'[p] = IF file[p] \in Separator THEN <<>> ELSE <<Place(p)>>
  BY <1>1, ReportCompletes
<1>4. ReaderInv'
  BY <1>1, <1>2 DEF IInv, ReaderInv
<1>5. ASSUME state' # "error" PROVE ScanInv'
  <2>1. Here' = Here + 1 /\ state' = "field_start"
    BY <1>1, <1>2, <1>3, <1>5 DEF Here
  <2>2. ScanInv /\ ~ UnderWay'
    BY <1>1, <2>1 DEF IInv, UnderWay
  <2>3. file[Here] = Comma /\ file[Here] \notin EndOfLine /\ file[Here] \in Separator
    BY <1>1, <1>2, <2>2, CharAssumption DEF ScanInv, ColInv, Separator
  <2>4. row = RowOf(Here)
    BY <1>1, <1>2, <2>2 DEF ScanInv, RowInv
  <2>5. RowInv'
    <3>1. RowOf(Here + 1) = RowOf(Here)
      BY <1>2, <2>3, RowNext
    <3>2. QED BY <1>1, <1>2, <2>1, <2>4, <3>1, SamePlaces DEF RowInv
  <2>6. ColInv' /\ BeginInv'
    <3>1. col = ColOf(Here)
      BY <1>1, <1>2, <2>2 DEF ScanInv, ColInv
    <3>2. file[Here + 1] \notin EndOfLine => ColOf(Here + 1) = col + 1
      BY <1>2, <2>3, <3>1, ColNext
    <3>3. QED BY <1>1, <1>2, <2>1, <3>2, SamePlaces DEF ColInv, BeginInv
  <2>7. FieldInv'
    BY <2>2 DEF FieldInv
  <2>8. AheadInv'
    BY <1>1, <1>2, <1>3, <2>1 DEF AheadInv
  <2>9. BehindInv'
    <3>1. \A p \in 1..Len(file) : p < Here + 1 => p < Here \/ p = Here
      BY <1>2
    <3>2. told'[Here] = <<>>
      BY <1>2, <1>3
    <3>3. QED BY <1>1, <1>2, <1>3, <2>1, <2>3, <3>1, <3>2, SamePlaces DEF BehindInv
  <2>10. QED BY <2>5, <2>6, <2>7, <2>8, <2>9 DEF ScanInv
<1>6. QED BY <1>3, <1>4, <1>5

LEMMA LineEndBeginKeeps ==
    ASSUME IInv, LineEndBegin
    PROVE  ReaderInv' /\ ReportedInPlace' /\ (state # "error" => ScanInv)'
<1>1. /\ pc = "execute" /\ cursor <= data_end /\ state = "line_end_begin"
      /\ Report(field_value, cursor, "line_end")
      /\ UNCHANGED <<file, pc, buffer, base, data_end, row, col, cursor, field_value>>
  BY DEF LineEndBegin, InState
<1>2. /\ Len(file) \in Nat /\ Here \in 1..Len(file) /\ Here' = Here
  BY <1>1, Current DEF Here
<1>3. /\ state' \in {"line_end", "error"}
      /\ ReportedInPlace'
      /\ \A p \in 1..Len(file) : p >= Here => told'[p] = <<>>
      /\ \A p \in 1..Len(file) : p < Here =>
            told'[p] = IF file[p] \in Separator THEN <<>> ELSE <<Place(p)>>
  BY <1>1, ReportCompletes
<1>4. ReaderInv'
  BY <1>1 DEF IInv, ReaderInv
<1>5. ASSUME state' # "error" PROVE ScanInv'
  <2>1. state' = "line_end"
    BY <1>3, <1>5
  <2>2. ScanInv /\ ~ UnderWay'
    BY <1>1, <2>1 DEF IInv, UnderWay
  <2>3. file[Here] \in EndOfLine /\ row = RowOf(Here)
    BY <1>1, <1>2, <2>2 DEF ScanInv, ColInv, RowInv
  <2>4. RowInv' /\ ColInv' /\ BeginInv'
    BY <1>1, <1>2, <2>1, <2>3, SamePlaces DEF RowInv, ColInv, BeginInv
  <2>5. FieldInv'
    BY <2>2 DEF FieldInv
  <2>6. AheadInv' /\ BehindInv'
    BY <1>1, <1>2, <1>3, SamePlaces DEF AheadInv, BehindInv
  <2>7. QED BY <2>4, <2>5, <2>6 DEF ScanInv
<1>6. QED BY <1>3, <1>4, <1>5

\* Line ends are counted once for the run of them.
LEMMA LineEndKeeps ==
    ASSUME IInv, LineEnd
    PROVE  ReaderInv' /\ ReportedInPlace' /\ ScanInv'
<1>1. /\ pc = "execute" /\ cursor <= data_end /\ state = "line_end"
      /\ UNCHANGED <<file, pc, buffer, base, data_end, row, col, field_value, told>>
  BY DEF LineEnd, InState
<1>2. /\ Len(file) \in Nat /\ Here \in 1..Len(file) /\ Here \in Nat \ {0} /\ ch = file[Here]
      /\ base \in Nat /\ data_end \in Nat /\ cursor \in Nat
  <2>1. Len(file) \in Nat /\ Here \in 1..Len(file) /\ Here \in Nat \ {0} /\ ch = file[Here]
    BY <1>1, Current
  <2>2. QED BY <2>1, SizeAssumption DEF IInv, TypeInv, TypeOK
<1>3. ScanInv /\ ReaderInv /\ ~ UnderWay
  BY <1>1 DEF IInv, UnderWay
<1>4. ReportedInPlace'
  BY <1>1, SamePlaces DEF IInv, ReportedInPlace
<1>5. CASE file[Here] \in EndOfLine
  <2>1. cursor' = cursor + 1 /\ state' = "line_end" /\ Here' = Here + 1
    BY <1>1, <1>2, <1>5 DEF LineEnd, Here
  <2>2. ~ UnderWay'
    BY <2>1 DEF UnderWay
  <2>3. ReaderInv'
    BY <1>1, <1>2, <1>3, <2>1 DEF ReaderInv
  <2>4. RowInv'
    <3>1. row = RowOf(Here) /\ RowOf(Here) \in Int
      BY <1>1, <1>2, <1>3, <1>5, RowNext DEF ScanInv, RowInv
    <3>2. RowOf(Here + 1) = IF file[Here + 1] \notin EndOfLine THEN RowOf(Here) + 1 ELSE RowOf(Here)
      BY <1>2, <1>5, RowNext
    <3>3. QED BY <1>1, <1>2, <2>1, <3>1, <3>2, SamePlaces DEF RowInv
  <2>5. ColInv' /\ BeginInv'
    BY <1>1, <1>2, <1>5, <2>1 DEF ColInv, BeginInv
  <2>6. FieldInv' /\ AheadInv'
    BY <1>1, <1>2, <1>3, <2>1, <2>2 DEF ScanInv, FieldInv, AheadInv
  <2>7. BehindInv'
    <3>1. \A p \in 1..Len(file) : p < Here + 1 => p < Here \/ p = Here
      BY <1>2
    <3>2. told[Here] = <<>> /\ file[Here] \in Separator
      BY <1>2, <1>3, <1>5 DEF ScanInv, AheadInv, Separator
    <3>3. QED BY <1>1, <1>2, <1>3, <2>1, <3>1, <3>2, SamePlaces DEF ScanInv, BehindInv
  <2>8. QED BY <1>4, <2>3, <2>4, <2>5, <2>6, <2>7 DEF ScanInv
<1>6. CASE file[Here] \notin EndOfLine
  <2>1. cursor' = cursor /\ state' = "line_start" /\ Here' = Here
    BY <1>1, <1>2, <1>6 DEF LineEnd, Here
  <2>2. ~ UnderWay'
    BY <2>1 DEF UnderWay
  <2>3. ReaderInv'
    BY <1>1, <1>3, <2>1 DEF ReaderInv
  <2>4. RowInv' /\ ColInv' /\ BeginInv'
    BY <1>1, <1>2, <1>3, <1>6, <2>1, SamePlaces DEF ScanInv, RowInv, ColInv, BeginInv
  <2>5. FieldInv' /\ AheadInv'
    BY <1>1, <1>3, <2>1, <2>2 DEF ScanInv, FieldInv, AheadInv
  <2>6. BehindInv'
    BY <1>1, <1>3, <2>1, SamePlaces DEF ScanInv, BehindInv
  <2>7. QED BY <1>4, <2>3, <2>4, <2>5, <2>6 DEF ScanInv
<1>7. QED BY <1>5, <1>6

LEMMA StepKeeps == ASSUME IInv, [Next]_vars PROVE IInv'
<1>1. TypeInv'
  BY StepKeepsTypes DEF IInv
<1>2. ReaderInv' /\ ReportedInPlace' /\ (state # "error" => ScanInv)'
  <2>1. CASE Read
    BY <2>1, ReadKeeps
  <2>2. CASE LineStart \/ FieldStart \/ FieldStops
    BY <2>2, StayingKeeps
  <2>3. CASE FieldGoesOn
    BY <2>3, GoingOnKeeps
  <2>4. CASE FieldEnd
    BY <2>4, FieldEndKeeps
  <2>5. CASE LineEndBegin
    BY <2>5, LineEndBeginKeeps
  <2>6. CASE LineEnd
    BY <2>6, LineEndKeeps
  <2>7. CASE Return \/ ReadsEnd \/ UNCHANGED vars
    <3>1. UNCHANGED <<file, buffer, base, data_end, state, row, col, cursor, field_value, told>>
      BY <2>7 DEF Return, ReadsEnd, vars, parser
    <3>2. ReaderInv'
      <4>1. base \in Nat /\ data_end \in Nat /\ cursor \in Nat
        BY SizeAssumption DEF IInv, TypeInv, TypeOK
      <4>2. QED BY <2>7, <3>1, <4>1 DEF IInv, ReaderInv, Return, ReadsEnd, vars
    <3>3. Here' = Here /\ UnderWay' = UnderWay
      BY <3>1 DEF Here, UnderWay
    <3>4. ReportedInPlace'
      BY <3>1, SamePlaces DEF IInv, ReportedInPlace
    <3>5. ASSUME ScanInv PROVE ScanInv'
      <4>1. RowInv' /\ ColInv' /\ BeginInv'
        BY <3>1, <3>3, <3>5, SamePlaces DEF ScanInv, RowInv, ColInv, BeginInv
      <4>2. FieldInv' /\ AheadInv' /\ BehindInv'
        BY <3>1, <3>3, <3>5, SamePlaces DEF ScanInv, FieldInv, AheadInv, BehindInv
      <4>3. QED BY <4>1, <4>2 DEF ScanInv
    <3>6. QED BY <3>1, <3>2, <3>4, <3>5 DEF IInv
  <2>8. QED BY <2>1, <2>2, <2>3, <2>4, <2>5, <2>6, <2>7 DEF Next, csv_parser_execute
<1>3. QED BY <1>1, <1>2 DEF IInv

\* The parser's row and column are those of the character it is at, whatever
\* the pieces: csv_parser.c:58-157.
THEOREM ScanInvariance == Spec => []IInv
<1>1. QED BY InitIInv, StepKeeps, PTL DEF Spec

\* However the file is cut into pieces, each character of a field is reported
\* at most once and at the place it has in the file.
THEOREM InPlace == Spec => []ReportedInPlace
<1>1. IInv => ReportedInPlace
  BY DEF IInv
<1>2. QED BY <1>1, ScanInvariance, PTL

\* csv_parser.c:82-136: unless a callback failed, none that was read is left out
\* and no separator is reported, even if a read failed.
THEOREM NoneLeftOut == Spec => []AllReported
<1>1. IInv => AllReported
  <2> SUFFICES ASSUME IInv, pc = "done", state # "error",
                      NEW p \in DOMAIN told
               PROVE  told[p] = IF p > Got \/ file[p] \in Separator THEN <<>> ELSE <<Place(p)>>
    BY DEF AllReported
  <2>1. /\ p \in 1..Len(file) /\ base \in Nat /\ data_end \in Nat
        /\ Len(file) \in Nat
    BY SizeAssumption DEF IInv, TypeInv, TypeOK
  <2>2. cursor = data_end + 1
    BY DEF IInv, ReaderInv
  <2>3. ~ UnderWay /\ (p > Got <=> p >= Here) /\ (p < Here \/ p >= Here)
    BY <2>1, <2>2 DEF Here, UnderWay, Got
  <2>4. QED BY <2>1, <2>3 DEF IInv, ScanInv, BehindInv, AheadInv
<1>2. QED BY <1>1, ScanInvariance, PTL

-----------------------------------------------------------------------------
(* The numbers in the table.                                               *)

\* A field in this piece began behind a separator or where the piece begins.
StartInv ==
    /\ UnderWay => field_value = 1 \/ file[base + field_value - 1] \in Separator
    /\ state = "field_value" /\ field_value = 0 /\ cursor <= data_end => cursor = 1
    /\ \A p \in 1..Len(file) :
          p = Here /\ p > 1 /\ state = "field_start" => file[p - 1] \in Separator

\* At a line end the column is that of the character before it, or the next
\* one if that is a comma.
EndColInv ==
    \A p \in 1..Len(file) :
        /\ p = Here /\ file[p] \in EndOfLine
        /\ state \in {"field_start", "field_value"} \/ (state = "line_end_begin" /\ field_value # 0)
        => /\ p > 1 /\ file[p - 1] \notin EndOfLine
           /\ (IF state = "field_start" THEN col + 1 ELSE col)
                 = IF file[p - 1] = Comma THEN ColOf(p - 1) + 1 ELSE ColOf(p - 1)

\* Every piece but the last fills the buffer.
PieceInv ==
    /\ \E m \in Nat : base = m * BufferSize
    /\ data_end = BufferSize \/ base + data_end = Len(file) \/ (base = 0 /\ data_end = 0)

\* A field that was read in one piece with the separator behind it, and that
\* has a cell.
Whole(p, q) ==
    /\ p <= q /\ q < Len(file)
    /\ IsField(p, q)
    /\ SamePiece(p, q + 1)
    /\ InTable(RowOf(p), ColOf(p))

\* What has been told is in its cell.
LoadedInv ==
    \A p \in 1..Len(file) : told[p] # <<>> =>
        /\ ~ OutOfTable(RowOf(p), ColOf(p))
        /\ \A q \in 1..Len(file) : Whole(p, q) =>
              value[<<RowOf(p) - 1, ColOf(p) - 1>>] = SubSeq(file, p, q)

\* What the proof of the table adds to IInv.
TableInv ==
    /\ PieceInv
    /\ state # "error" => StartInv /\ EndColInv /\ LoadedInv

\* Two characters of the file have the same place only if no separator is
\* between them: rows never decrease, and columns never decrease in a row.
LEMMA SamePlaceSameField ==
    ASSUME NEW p \in Nat \ {0}, NEW n \in Nat, p <= n, file[p] \notin EndOfLine,
           file[n] \notin EndOfLine, RowOf(n) = RowOf(p)
    PROVE  /\ \A k \in p..n : file[k] \notin EndOfLine
           /\ ColOf(p) <= ColOf(n)
           /\ (\E k \in p..(n - 1) : file[k] = Comma) => ColOf(p) < ColOf(n)
<1> DEFINE Later(k) ==
               /\ RowOf(p) <= RowOf(k)
               /\ RowOf(p) = RowOf(k) /\ file[k] \notin EndOfLine =>
                     /\ \A j \in p..k : file[j] \notin EndOfLine
                     /\ ColOf(p) <= ColOf(k)
                     /\ (\E j \in p..(k - 1) : file[j] = Comma) => ColOf(p) < ColOf(k)
           S == {i \in 0..(n - p) : Later(p + i)}
<1>1. 0 \in S
  <2>1. RowOf(p) \in Int /\ ColOf(p) \in Nat
    BY RowNext, ColNext
  <2>2. QED BY <2>1
<1>2. ASSUME NEW i \in 0..(n - p), i < n - p, i \in S PROVE i + 1 \in S
  <2> DEFINE k == p + i
  <2>1. k \in Nat \ {0} /\ Later(k) /\ p <= k /\ p + (i + 1) = k + 1
    BY <1>2
  <2> HIDE DEF k
  <2>2. /\ RowOf(p) \in Int /\ RowOf(k) \in Int /\ ColOf(p) \in Nat /\ ColOf(k) \in Nat
        /\ ColOf(k + 1) \in Nat
        /\ RowOf(k + 1) = IF file[k + 1] \notin EndOfLine /\ file[k] \in EndOfLine
                          THEN RowOf(k) + 1 ELSE RowOf(k)
        /\ file[k] \notin EndOfLine /\ file[k + 1] \notin EndOfLine =>
              ColOf(k + 1) = IF file[k] = Comma THEN ColOf(k) + 1 ELSE ColOf(k)
    BY <2>1, RowNext, ColNext
  <2>3. RowOf(p) <= RowOf(k + 1)
    BY <2>1, <2>2
  <2>4. ASSUME RowOf(p) = RowOf(k + 1), file[k + 1] \notin EndOfLine
        PROVE  /\ \A j \in p..(k + 1) : file[j] \notin EndOfLine
               /\ ColOf(p) <= ColOf(k + 1)
               /\ (\E j \in p..k : file[j] = Comma) => ColOf(p) < ColOf(k + 1)
    <3>1. file[k] \notin EndOfLine /\ RowOf(k) = RowOf(p)
      BY <2>1, <2>2, <2>4
    <3>2. /\ \A j \in p..k : file[j] \notin EndOfLine
          /\ ColOf(p) <= ColOf(k)
          /\ (\E j \in p..(k - 1) : file[j] = Comma) => ColOf(p) < ColOf(k)
      BY <2>1, <3>1
    <3>3. \A j \in p..(k + 1) : file[j] \notin EndOfLine
      BY <2>1, <2>4, <3>2
    <3>4. \A j \in p..k : j \in p..(k - 1) \/ j = k
      BY <2>1
    <3>5. QED BY <2>2, <2>4, <3>1, <3>2, <3>3, <3>4
  <2>5. Later(k + 1)
    <3>1. (k + 1) - 1 = k
      BY <2>1
    <3>2. QED BY <2>3, <2>4, <3>1
  <2>6. i + 1 \in 0..(n - p)
    BY <1>2
  <2>7. QED BY <2>1, <2>5, <2>6
<1>3. 0..(n - p) \subseteq S
  <2> HIDE DEF S
  <2>1. n - p \in Nat
    OBVIOUS
  <2>2. QED BY <1>1, <1>2, <2>1, InductionUpTo
<1>4. Later(n)
  <2>1. n - p \in 0..(n - p) /\ p + (n - p) = n
    OBVIOUS
  <2>2. QED BY <1>3, <2>1
<1>5. QED BY <1>4

\* atof reads the whole field when the separator behind it is in the buffer.
LEMMA AtofReadsField ==
    ASSUME IInv, NEW i \in 1..BufferSize, NEW c \in 1..data_end, i < c,
           \A k \in i..(c - 1) : file[base + k] \notin Separator,
           file[base + c] \in Separator
    PROVE  Atof(i) = {SubSeq(file, base + i, base + c - 1)}
<1> USE SizeAssumption
<1>1. /\ file \in Seq(Char) /\ Len(file) \in Nat /\ base \in Nat /\ data_end \in 0..BufferSize
      /\ base + data_end <= Len(file)
      /\ \A k \in 1..data_end : buffer[k] = file[base + k]
      /\ \A k \in 1..Len(file) : file[k] \in Char
  <2>1. file \in Seq(Char) /\ Len(file) \in Nat
    BY DEF IInv, TypeInv, TypeOK
  <2>2. \A k \in 1..Len(file) : file[k] \in Char
    BY <2>1
  <2>3. base \in Nat /\ data_end \in 0..BufferSize /\ base + data_end <= Len(file)
    BY <2>1 DEF IInv, TypeInv, TypeOK
  <2>4. QED BY <2>1, <2>2, <2>3 DEF IInv, ReaderInv
<1>2. ASSUME NEW k \in i..(c - 1)
      PROVE  buffer[k] = file[base + k] /\ file[base + k] \in Digit
  <2>1. k \in 1..data_end /\ base + k \in 1..Len(file)
    BY <1>1
  <2>2. buffer[k] = file[base + k] /\ file[base + k] \in Char
    BY <1>1, <2>1
  <2>3. file[base + k] \notin Separator
    OBVIOUS
  <2>4. QED BY <2>2, <2>3 DEF Char, Separator
<1>3. buffer[c] \in Separator /\ buffer[c] # Garbage /\ buffer[c] \notin Digit
  BY <1>1, CharAssumption DEF Char, Separator
<1>4. buffer[i] \notin EndOfLine
  BY <1>2, CharAssumption
<1>5. RunEnd(i, EndOfLine) = i
  <2>1. /\ RunEnd(i, EndOfLine) \in i..(BufferSize + 1)
        /\ \A k \in i..(RunEnd(i, EndOfLine) - 1) : buffer[k] \in EndOfLine
    BY RunEndProperties
  <2>2. QED BY <1>4, <2>1
<1>6. RunEnd(i, Digit) = c
  <2>1. /\ RunEnd(i, Digit) \in i..(BufferSize + 1)
        /\ \A k \in i..(RunEnd(i, Digit) - 1) : buffer[k] \in Digit
        /\ RunEnd(i, Digit) = BufferSize + 1 \/ buffer[RunEnd(i, Digit)] \notin Digit
    BY RunEndProperties
  <2>2. ~ (c < RunEnd(i, Digit))
    BY <1>1, <1>3, <2>1
  <2>3. ~ (RunEnd(i, Digit) < c)
    BY <1>1, <1>2, <2>1
  <2>4. QED BY <1>1, <2>1, <2>2, <2>3
<1>7. SubSeq(buffer, i, c - 1) = SubSeq(file, base + i, base + c - 1)
  BY <1>1, <1>2
<1>8. Atof(i) = {SubSeq(buffer, i, c - 1)}
  BY <1>1, <1>3, <1>5, <1>6 DEF Atof
<1>9. QED BY <1>7, <1>8

\* A field read before has another place than the one that is reported:
\* characters behind which a separator came are not in the parser's column.
LEMMA SamePlaceNoSeparator ==
    ASSUME IInv, TableInv, pc = "execute", cursor <= data_end,
           \/ state = "field_value" /\ file[Here] \notin Separator
           \/ state = "field_end"
           \/ state = "line_end_begin" /\ field_value # 0,
           NEW p \in 1..Len(file), p < Here, file[p] \notin Separator,
           Place(p) = <<row, col>>
    PROVE  \A k \in p..(Here - 1) : file[k] \notin Separator
<1>1. /\ Len(file) \in Nat /\ Here \in 1..Len(file) /\ Here \in Nat \ {0}
      /\ p \in Nat \ {0} /\ file[p] \notin EndOfLine
      /\ RowOf(p) = row /\ ColOf(p) = col
  BY Current DEF Separator, Place
<1>2. RowInv /\ ColInv /\ EndColInv
  BY DEF IInv, ScanInv, TableInv
<1>3. RowOf(Here) = row
  BY <1>1, <1>2 DEF RowInv
<1>4. CASE state # "line_end_begin"
  <2>1. file[Here] \notin EndOfLine /\ ColOf(Here) = col
    BY <1>1, <1>2, <1>4, CharAssumption DEF ColInv, Separator
  <2>2. /\ \A k \in p..Here : file[k] \notin EndOfLine
        /\ ~ \E k \in p..(Here - 1) : file[k] = Comma
    <3>1. ColOf(p) \in Nat
      BY <1>1, ColNext
    <3>2. QED BY <1>1, <1>3, <2>1, <3>1, SamePlaceSameField
  <2>3. QED BY <1>1, <2>2 DEF Separator
<1>5. CASE state = "line_end_begin"
  <2> DEFINE h == Here - 1
  <2>1. /\ h \in Nat \ {0} /\ p <= h /\ h + 1 = Here
        /\ file[Here] \in EndOfLine /\ file[h] \notin EndOfLine
        /\ col = IF file[h] = Comma THEN ColOf(h) + 1 ELSE ColOf(h)
    BY <1>1, <1>2, <1>5 DEF ColInv, EndColInv
  <2> HIDE DEF h
  <2>2. RowOf(h) = RowOf(p)
    BY <1>1, <1>3, <2>1, RowNext
  <2>3. /\ \A k \in p..h : file[k] \notin EndOfLine
        /\ ColOf(p) <= ColOf(h)
        /\ (\E k \in p..(h - 1) : file[k] = Comma) => ColOf(p) < ColOf(h)
    BY <1>1, <2>1, <2>2, SamePlaceSameField
  <2>4. ColOf(h) \in Nat /\ ColOf(p) \in Nat
    BY <1>1, <2>1, ColNext
  <2>5. file[h] # Comma /\ ~ \E k \in p..(h - 1) : file[k] = Comma
    BY <1>1, <2>1, <2>3, <2>4
  <2>6. \A k \in p..h : k \in p..(h - 1) \/ k = h
    BY <2>1
  <2>7. QED BY <2>3, <2>5, <2>6 DEF Separator, h
<1>6. QED BY <1>4, <1>5

\* The piece a position of the file is in.
LEMMA PieceOf ==
    ASSUME NEW m \in Nat, NEW k \in Nat
    PROVE  /\ k < m * BufferSize => k \div BufferSize < m
           /\ m * BufferSize <= k => m <= k \div BufferSize
<1> USE SizeAssumption
<1> DEFINE d == k \div BufferSize
           r == k % BufferSize
<1>1. d \in Nat /\ r \in 0..(BufferSize - 1) /\ k = d * BufferSize + r
  BY SMTT(30)
<1> HIDE DEF d, r
<1>2. ASSUME NEW a \in Nat, NEW b \in Nat, a < b PROVE a * BufferSize + BufferSize <= b * BufferSize
  <2>1. \E x \in Nat : b = a + 1 + x
    BY <1>2
  <2>2. PICK x \in Nat : b = a + 1 + x
    BY <2>1
  <2>3. b * BufferSize = a * BufferSize + BufferSize + x * BufferSize /\ x * BufferSize >= 0
    BY <2>2
  <2>4. a * BufferSize \in Nat /\ b * BufferSize \in Nat /\ x * BufferSize \in Nat
    OBVIOUS
  <2>5. QED BY <2>3, <2>4
<1>3. ASSUME k < m * BufferSize PROVE d < m
  <2>1. m * BufferSize \in Nat /\ d * BufferSize \in Nat
    BY <1>1
  <2>2. CASE m < d
    BY <1>1, <1>2, <1>3, <2>1, <2>2
  <2>3. CASE m = d
    BY <1>1, <1>3, <2>1, <2>3
  <2>4. QED BY <1>1, <2>2, <2>3
<1>4. ASSUME m * BufferSize <= k PROVE m <= d
  <2>1. m * BufferSize \in Nat /\ d * BufferSize \in Nat
    BY <1>1
  <2>2. CASE d < m
    <3>1. d * BufferSize + BufferSize <= m * BufferSize
      BY <1>1, <1>2, <2>2
    <3>2. QED BY <1>1, <1>4, <2>1, <3>1
  <2>3. QED BY <1>1, <2>2
<1>5. QED BY <1>3, <1>4 DEF d

\* A field that ends at the cursor and was read in one piece begins in it.
LEMMA WholeBegins ==
    ASSUME IInv, TableInv, pc = "execute", cursor <= data_end,
           NEW p \in 1..Len(file), NEW q \in 1..Len(file), Whole(p, q)
    PROVE  /\ q + 1 = Here => base < p
           /\ ~ (p <= Here /\ Here = base + data_end /\ Here <= q)
<1> USE SizeAssumption
<1>1. /\ Len(file) \in Nat /\ base \in Nat /\ data_end \in Nat /\ cursor \in 1..data_end
      /\ data_end <= BufferSize /\ base + data_end <= Len(file)
  <2>1. Len(file) \in Nat
    BY Current
  <2>2. QED BY <2>1 DEF IInv, TypeInv, TypeOK
<1>2. PICK m \in Nat : base = m * BufferSize
  BY DEF TableInv, PieceInv
<1>3. (p - 1) \div BufferSize = q \div BufferSize /\ p <= q /\ q < Len(file) /\ p - 1 \in Nat /\ q \in Nat
  <2>1. (q + 1) - 1 = q
    OBVIOUS
  <2>2. QED BY <2>1 DEF Whole, SamePiece
<1>4. (p - 1) \div BufferSize \in Int
  BY <1>3
<1>5. ASSUME q + 1 = Here PROVE base < p
  <2>1. m * BufferSize <= q
    BY <1>1, <1>2, <1>5 DEF Here
  <2>2. m <= (p - 1) \div BufferSize
    BY <1>3, <2>1, PieceOf
  <2>3. ~ (p - 1 < m * BufferSize)
    BY <1>3, <1>4, <2>2, PieceOf
  <2>4. QED BY <1>1, <1>2, <1>3, <2>3
<1>6. ASSUME p <= Here, Here = base + data_end, Here <= q PROVE FALSE
  <2>1. data_end = BufferSize
    BY <1>1, <1>3, <1>6 DEF TableInv, PieceInv, Here
  <2>2. m + 1 \in Nat /\ (m + 1) * BufferSize = base + BufferSize
    BY <1>2
  <2>3. p - 1 < (m + 1) * BufferSize /\ (m + 1) * BufferSize <= q
    BY <1>1, <1>3, <1>6, <2>1, <2>2
  <2>4. (p - 1) \div BufferSize < m + 1
    BY <1>3, <2>2, <2>3, PieceOf
  <2>5. m + 1 <= q \div BufferSize
    BY <1>3, <2>2, <2>3, PieceOf
  <2>6. QED BY <1>3, <1>4, <2>4, <2>5
<1>7. QED BY <1>5, <1>6

\* What a callback that succeeds changes in the table: the parser's cell.
LEMMA CallbackStores ==
    ASSUME TypeInv, NEW i \in 1..BufferSize, NEW e, field_cb(i, e), row \in Nat, col \in Nat,
           ~ OutOfTable(row, col)
    PROVE  /\ \A r, c \in Int : <<r, c>> # <<row, col>> => value'[<<r - 1, c - 1>>] = value[<<r - 1, c - 1>>]
              \/ ~ (InTable(r, c) /\ ~ OutOfTable(r, c))
           /\ InTable(row, col) => value'[<<row - 1, col - 1>>] \in Atof(i)
<1> USE SizeAssumption
<1>1. CASE ~ InTable(row, col)
  <2>1. value' = value
    BY <1>1 DEF field_cb
  <2>2. QED BY <1>1, <2>1
<1>2. CASE InTable(row, col)
  <2>1. PICK x \in Atof(i) :
            value' = [cell \in DOMAIN value \union {<<row - 1, col - 1>>} |->
                         IF cell = <<row - 1, col - 1>> THEN x ELSE value[cell]]
    BY <1>2 DEF field_cb
  <2>2. value'[<<row - 1, col - 1>>] = x
    BY <2>1
  <2>3. ASSUME NEW r \in Int, NEW c \in Int, <<r, c>> # <<row, col>>, InTable(r, c), ~ OutOfTable(r, c)
        PROVE  value'[<<r - 1, c - 1>>] = value[<<r - 1, c - 1>>]
    <3>1. <<r - 1, c - 1>> # <<row - 1, col - 1>>
      BY <2>3
    <3>2. <<r - 1, c - 1>> \in Cell
      BY <2>3 DEF InTable, OutOfTable, Cell
    <3>3. <<r - 1, c - 1>> \in DOMAIN value
      BY <3>2 DEF TypeInv, WritesInTable
    <3>4. QED BY <2>1, <3>1, <3>3
  <2>4. QED BY <2>1, <2>2, <2>3
<1>3. QED BY <1>1, <1>2

\* So a report keeps the table of the fields with another place, and what it
\* tells has the parser's.
LEMMA ReportKeepsOthers ==
    ASSUME IInv, TableInv, pc = "execute", cursor <= data_end, state # "error",
           NEW i \in 1..BufferSize, NEW e \in Nat, NEW next, Report(i, e, next), file' = file,
           state' # "error", row \in Nat, col \in Nat,
           \A p \in 1..Len(file) : base + i <= p /\ p < base + e => Place(p) = <<row, col>>,
           NEW p \in 1..Len(file), told'[p] # <<>>, Place(p) # <<row, col>>
    PROVE  /\ ~ OutOfTable(RowOf(p), ColOf(p))
           /\ \A q \in 1..Len(file) : Whole(p, q) =>
                 value'[<<RowOf(p) - 1, ColOf(p) - 1>>] = SubSeq(file, p, q)
<1>1. told[p] # <<>>
  BY SizeAssumption, ReportTells DEF IInv
<1>2. /\ ~ OutOfTable(RowOf(p), ColOf(p))
      /\ \A q \in 1..Len(file) : Whole(p, q) =>
            value[<<RowOf(p) - 1, ColOf(p) - 1>>] = SubSeq(file, p, q)
  BY <1>1 DEF TableInv, LoadedInv
<1>3. field_cb(i, e) /\ ~ OutOfTable(row, col)
  BY SizeAssumption DEF Report
<1>4. RowOf(p) \in Int /\ ColOf(p) \in Int
  <2>1. p \in Nat \ {0}
    BY Current
  <2>2. QED BY <2>1, RowNext, ColNext
<1>5. ASSUME NEW q \in 1..Len(file), Whole(p, q)
      PROVE  value'[<<RowOf(p) - 1, ColOf(p) - 1>>] = value[<<RowOf(p) - 1, ColOf(p) - 1>>]
  <2>1. InTable(RowOf(p), ColOf(p))
    BY <1>5 DEF Whole
  <2>2. <<RowOf(p), ColOf(p)>> # <<row, col>>
    BY DEF Place
  <2>3. QED BY <1>2, <1>3, <1>4, <2>1, <2>2, CallbackStores DEF IInv
<1>6. QED BY <1>2, <1>5

\* The places, fields and pieces do not change while the file does not.
LEMMA SameFields ==
    ASSUME file' = file
    PROVE  \A p, q : Whole(p, q)' <=> Whole(p, q)
BY SamePlaces DEF Whole, IsField, SamePiece, InTable

\* The report of a field that ends stores the field, if it was read whole.
LEMMA EndLoads ==
    ASSUME IInv, TableInv, pc = "execute", cursor <= data_end,
           state \in {"field_end", "line_end_begin"},
           NEW next, Report(field_value, cursor, next), file' = file, state' # "error"
    PROVE  LoadedInv'
<1> USE SizeAssumption
<1>1. /\ Len(file) \in Nat /\ Here \in 1..Len(file)
      /\ base \in Nat /\ data_end \in Nat /\ cursor \in 1..data_end
      /\ data_end <= BufferSize /\ base + data_end <= Len(file)
      /\ field_value \in 0..BufferSize
      /\ (field_value # 0 => row \in Nat /\ col \in Nat)
      /\ base + cursor = Here
  <2>1. Len(file) \in Nat /\ Here \in 1..Len(file)
    BY Current
  <2>2. QED BY <2>1 DEF IInv, TypeInv, TypeOK, KnownPlace, Here
<1>2. LoadedInv
  BY DEF TableInv
<1>3. CASE field_value = 0
  <2>1. told' = told /\ value' = value
    BY <1>3 DEF Report
  <2>2. QED BY <1>2, <2>1, SamePlaces, SameFields DEF LoadedInv, OutOfTable
<1>4. CASE field_value # 0
  <2>1. /\ field_value \in 1..BufferSize /\ UnderWay /\ row \in Nat /\ col \in Nat
        /\ field_value <= cursor
        /\ \A p \in 1..Len(file) : base + field_value <= p /\ p < base + cursor =>
              file[p] \notin Separator /\ Place(p) = <<row, col>>
    BY <1>1, <1>4 DEF UnderWay, IInv, ScanInv, FieldInv
  <2>2. field_cb(field_value, cursor) /\ ~ OutOfTable(row, col)
    BY <1>4 DEF Report
  <2>3. ASSUME NEW p \in 1..Len(file), told'[p] # <<>>
        PROVE  /\ ~ OutOfTable(RowOf(p), ColOf(p))
               /\ \A q \in 1..Len(file) : Whole(p, q) =>
                     value'[<<RowOf(p) - 1, ColOf(p) - 1>>] = SubSeq(file, p, q)
    <3>1. CASE Place(p) # <<row, col>>
      <4>1. cursor \in Nat
        BY <1>1
      <4> HIDE DEF LoadedInv
      <4>2. QED BY <2>1, <2>3, <3>1, <4>1, ReportKeepsOthers
    <3>2. CASE Place(p) = <<row, col>>
      <4>1. RowOf(p) = row /\ ColOf(p) = col
        BY <3>2 DEF Place
      <4>2. ASSUME NEW q \in 1..Len(file), Whole(p, q)
            PROVE  value'[<<row - 1, col - 1>>] = SubSeq(file, p, q)
        <5>1. /\ p <= q /\ q < Len(file) /\ InTable(row, col)
              /\ \A k \in p..q : file[k] \notin Separator
              /\ p = 1 \/ file[p - 1] \in Separator
              /\ file[q + 1] \in Separator
          BY <4>1, <4>2 DEF Whole, IsField
        <5>2. p < Here
          <6>1. told'[p] = IF base + field_value <= p /\ p < base + cursor
                           THEN Append(told[p], <<row, col>>) ELSE told[p]
            BY <1>1, <1>4, ReportTells DEF IInv
          <6>2. Here <= p => told[p] = <<>>
            BY <1>1 DEF IInv, ScanInv, AheadInv
          <6>3. QED BY <1>1, <2>3, <6>1, <6>2
        <5>3. \A k \in p..(Here - 1) : file[k] \notin Separator
          BY <1>4, <3>2, <5>1, <5>2, SamePlaceNoSeparator
        <5>4. file[Here] \in Separator
          BY <1>1 DEF IInv, ScanInv, ColInv, Separator
        <5>5. q + 1 = Here
          <6>1. ~ (q + 1 < Here)
            BY <1>1, <5>1, <5>3
          <6>2. ~ (Here < q + 1)
            BY <1>1, <5>1, <5>2, <5>4
          <6>3. QED BY <1>1, <6>1, <6>2
        <5>6. base < p
          BY <4>2, <5>5, WholeBegins
        <5>7. p = base + field_value
          <6>1. field_value = 1 \/ file[base + field_value - 1] \in Separator
            BY <2>1 DEF TableInv, StartInv
          <6>2. ~ (p < base + field_value)
            <7> SUFFICES ASSUME p < base + field_value PROVE FALSE
              OBVIOUS
            <7>1. base + field_value - 1 \in p..(Here - 1) /\ field_value # 1
              BY <1>1, <2>1, <5>6
            <7>2. QED BY <5>3, <6>1, <7>1
          <6>3. ~ (base + field_value < p)
            <7> SUFFICES ASSUME base + field_value < p PROVE FALSE
              OBVIOUS
            <7>1. p - 1 \in 1..Len(file) /\ base + field_value <= p - 1 /\ p - 1 < base + cursor /\ p # 1
              BY <1>1, <2>1, <5>2
            <7>2. QED BY <2>1, <5>1, <7>1
          <6>4. QED BY <1>1, <2>1, <6>2, <6>3
        <5>8. Atof(field_value) = {SubSeq(file, base + field_value, base + cursor - 1)}
          <6>1. cursor \in 1..data_end /\ field_value < cursor
            BY <1>1, <5>2, <5>7, <2>1
          <6>2. \A k \in field_value..(cursor - 1) : file[base + k] \notin Separator
            <7>1. \A k \in field_value..(cursor - 1) :
                     base + k \in 1..Len(file) /\ base + field_value <= base + k /\ base + k < base + cursor
              BY <1>1, <2>1
            <7>2. QED BY <2>1, <7>1
          <6>3. file[base + cursor] \in Separator
            BY <1>1, <5>4
          <6>4. QED BY <2>1, <6>1, <6>2, <6>3, AtofReadsField
        <5>9. base + cursor - 1 = q
          BY <1>1, <5>5
        <5>10. QED BY <2>1, <2>2, <5>1, <5>7, <5>8, <5>9, CallbackStores DEF IInv
      <4>3. QED BY <2>2, <4>1, <4>2
    <3>3. QED BY <3>1, <3>2
  <2>4. QED BY <2>3, SamePlaces, SameFields DEF LoadedInv, OutOfTable
<1>5. QED BY <1>3, <1>4

\* The report of what a piece holds of a field stores no whole field.
LEMMA PartLoads ==
    ASSUME IInv, TableInv, FieldGoesOn, state' # "error"
    PROVE  LoadedInv'
<1> USE SizeAssumption
<1>1. /\ pc = "execute" /\ cursor <= data_end /\ state = "field_value" /\ ch \notin Separator
      /\ file' = file
  BY DEF FieldGoesOn, InState
<1>2. /\ Len(file) \in Nat /\ Here \in 1..Len(file) /\ ch = file[Here]
      /\ base \in Nat /\ data_end \in Nat /\ cursor \in 1..BufferSize
      /\ field_value \in 0..BufferSize
      /\ row \in Nat /\ col \in Nat
      /\ base + cursor = Here
  <2>1. Len(file) \in Nat /\ Here \in 1..Len(file) /\ ch = file[Here]
    BY <1>1, Current
  <2>2. QED BY <1>1, <2>1 DEF IInv, TypeInv, TypeOK, KnownPlace, Here
<1>3. LoadedInv /\ StartInv
  BY <1>1 DEF TableInv
<1>4. CASE cursor # data_end
  <2>1. told' = told /\ value' = value
    BY <1>4 DEF FieldGoesOn
  <2>2. QED BY <1>1, <1>3, <2>1, SamePlaces, SameFields DEF LoadedInv, OutOfTable
<1>5. CASE cursor = data_end
  <2>1. Report(Resumed, cursor + 1, "field_value")
    BY <1>5 DEF FieldGoesOn
  <2>2. /\ Resumed \in 1..BufferSize
        /\ \A p \in 1..Len(file) : base + Resumed <= p /\ p < base + (cursor + 1) =>
              file[p] \notin Separator /\ Place(p) = <<row, col>>
    <3>1. Place(Here) = <<row, col>>
      BY <1>1, <1>2 DEF Place, IInv, ScanInv, RowInv, ColInv, Separator
    <3>2. \A p \in 1..Len(file) : p < base + (cursor + 1) => p < Here \/ p = Here
      BY <1>2
    <3>3. CASE field_value = 0
      BY <1>1, <1>2, <3>1, <3>2, <3>3 DEF Resumed
    <3>4. CASE field_value # 0
      <4>1. UnderWay /\ FieldInv
        BY <1>1, <3>4 DEF UnderWay, IInv, ScanInv
      <4>2. QED BY <1>1, <1>2, <3>1, <3>2, <3>4, <4>1 DEF Resumed, FieldInv
    <3>5. QED BY <3>3, <3>4
  <2>3. field_cb(Resumed, cursor + 1) /\ ~ OutOfTable(row, col)
    BY <2>1, <2>2 DEF Report
  <2>4. ASSUME NEW p \in 1..Len(file), told'[p] # <<>>
        PROVE  /\ ~ OutOfTable(RowOf(p), ColOf(p))
               /\ \A q \in 1..Len(file) : Whole(p, q) =>
                     value'[<<RowOf(p) - 1, ColOf(p) - 1>>] = SubSeq(file, p, q)
    <3>1. CASE Place(p) # <<row, col>>
      <4>1. cursor + 1 \in Nat
        BY <1>2
      <4>2. QED BY <1>1, <1>2, <2>1, <2>2, <2>4, <3>1, <4>1, ReportKeepsOthers
    <3>2. CASE Place(p) = <<row, col>>
      <4>1. RowOf(p) = row /\ ColOf(p) = col
        BY <3>2 DEF Place
      <4>2. ASSUME NEW q \in 1..Len(file), Whole(p, q)
            PROVE  FALSE
        <5>1. /\ p <= q /\ q < Len(file)
              /\ \A k \in p..q : file[k] \notin Separator
              /\ file[q + 1] \in Separator
          BY <4>2 DEF Whole, IsField
        <5>2. p <= Here
          <6>1. told'[p] = IF base + Resumed <= p /\ p < base + (cursor + 1)
                           THEN Append(told[p], <<row, col>>) ELSE told[p]
            <7>1. cursor + 1 \in Nat /\ Resumed \in 0..BufferSize /\ Resumed # 0
              BY <1>2, <2>2
            <7>2. QED BY <2>1, <7>1, ReportTells DEF IInv
          <6>2. Here <= p => told[p] = <<>>
            BY <1>1, <1>2 DEF IInv, ScanInv, AheadInv
          <6>3. QED BY <1>2, <2>4, <6>1, <6>2
        <5>3. \A k \in p..Here : file[k] \notin Separator
          <6>1. CASE p = Here
            BY <1>1, <1>2, <6>1
          <6>2. CASE p < Here
            <7>1. file[p] \notin Separator
              BY <5>1
            <7>2. \A k \in p..(Here - 1) : file[k] \notin Separator
              BY <1>1, <1>2, <3>2, <6>2, <7>1, SamePlaceNoSeparator
            <7>3. \A k \in p..Here : k \in p..(Here - 1) \/ k = Here
              BY <1>2
            <7>4. QED BY <1>1, <1>2, <7>2, <7>3
          <6>3. QED BY <1>2, <5>2, <6>1, <6>2
        <5>4. Here <= q
          BY <1>2, <5>1, <5>3
        <5>5. QED BY <1>1, <1>2, <1>5, <4>2, <5>2, <5>4, WholeBegins
      <4>3. QED BY <2>3, <4>1, <4>2
    <3>3. QED BY <3>1, <3>2
  <2>5. QED BY <1>1, <2>4, SamePlaces, SameFields DEF LoadedInv, OutOfTable
<1>6. QED BY <1>4, <1>5

LEMMA InitTableInv == ASSUME Init PROVE TableInv
<1> USE SizeAssumption
<1>1. Len(file) \in Nat /\ told = [p \in 1..Len(file) |-> <<>>]
  BY DEF Init
<1>2. PieceInv
  <2>1. 0 = 0 * BufferSize
    OBVIOUS
  <2>2. QED BY <2>1 DEF Init, PieceInv
<1>3. StartInv /\ EndColInv /\ LoadedInv
  BY <1>1 DEF Init, StartInv, UnderWay, EndColInv, LoadedInv
<1>4. QED BY <1>2, <1>3 DEF TableInv

\* A read that is followed by another filled the buffer.
LEMMA ReadKeepsTable == ASSUME IInv, TableInv, Read PROVE TableInv'
<1> USE SizeAssumption
<1> DEFINE from == base + data_end
           n == IF Len(file) - from < BufferSize THEN Len(file) - from ELSE BufferSize
<1>1. /\ Len(file) \in Nat /\ base \in Nat /\ data_end \in 0..BufferSize /\ from <= Len(file)
      /\ cursor \in Nat
  BY DEF IInv, TypeInv, TypeOK
<1>2. /\ pc # "execute" /\ n > 0 /\ base' = from /\ data_end' = n /\ cursor' = 1 /\ field_value' = 0
      /\ UNCHANGED <<file, state, row, col, value, told>>
  BY DEF Read, PassedOn, parser
<1>3. PieceInv'
  <2>1. data_end = BufferSize \/ (base = 0 /\ data_end = 0)
    BY <1>1, <1>2 DEF TableInv, PieceInv
  <2>2. PICK m \in Nat : base = m * BufferSize
    BY DEF TableInv, PieceInv
  <2>3. \E k \in Nat : from = k * BufferSize
    <3>1. CASE data_end = BufferSize
      <4>1. m + 1 \in Nat /\ from = (m + 1) * BufferSize
        BY <2>2, <3>1
      <4>2. QED BY <4>1
    <3>2. CASE base = 0 /\ data_end = 0
      <4>1. from = 0 * BufferSize
        BY <3>2
      <4>2. QED BY <4>1
    <3>3. QED BY <2>1, <3>1, <3>2
  <2>4. n = BufferSize \/ from + n = Len(file)
    <3>1. n # BufferSize => n = Len(file) - from
      OBVIOUS
    <3>2. from \in Int /\ Len(file) \in Int
      BY <1>1
    <3> HIDE DEF n, from
    <3>3. QED BY <3>1, <3>2
  <2> HIDE DEF n, from
  <2>5. QED BY <1>2, <2>3, <2>4 DEF PieceInv
<1>4. ASSUME state # "error" PROVE StartInv' /\ EndColInv' /\ LoadedInv'
  <2>1. Here' = Here
    BY <1>1, <1>2, <1>4 DEF Here, IInv, ReaderInv
  <2>2. StartInv'
    BY <1>2, <1>4, <2>1 DEF TableInv, StartInv, UnderWay
  <2>3. EndColInv'
    BY <1>2, <1>4, <2>1, SamePlaces DEF TableInv, EndColInv
  <2>4. LoadedInv'
    BY <1>2, <1>4, SamePlaces, SameFields DEF TableInv, LoadedInv, OutOfTable
  <2>5. QED BY <2>2, <2>3, <2>4
<1>5. QED BY <1>2, <1>3, <1>4 DEF TableInv

\* The other steps, which leave the piece.
LEMMA ParserKeepsTable ==
    ASSUME IInv, TableInv, csv_parser_execute \/ ReadsEnd \/ UNCHANGED vars
    PROVE  TableInv'
<1> USE SizeAssumption
<1>1. UNCHANGED <<file, base, data_end>>
  BY DEF csv_parser_execute, LineStart, FieldStart, FieldStops, FieldGoesOn, FieldEnd,
         LineEndBegin, LineEnd, Return, ReadsEnd, vars
<1>2. PieceInv'
  BY <1>1 DEF TableInv, PieceInv
<1>3. SUFFICES ASSUME state' # "error" PROVE StartInv' /\ EndColInv' /\ LoadedInv'
  BY <1>2 DEF TableInv
<1>4. /\ Len(file) \in Nat /\ base \in Nat /\ data_end \in Nat /\ cursor \in Nat \ {0}
      /\ Here \in Nat \ {0} /\ field_value \in Nat
  <2>1. file \in Seq(Char) /\ Len(file) \in Nat
    BY DEF IInv, TypeInv, TypeOK
  <2>2. QED BY <2>1 DEF IInv, TypeInv, TypeOK, Here
<1>5. pc = "execute" /\ cursor <= data_end => Here \in 1..Len(file) /\ ch = file[Here]
  BY Current
<1>6. ASSUME state # "error", told' = told, value' = value PROVE LoadedInv'
  BY <1>1, <1>6, SamePlaces, SameFields DEF TableInv, LoadedInv, OutOfTable
<1>7. CASE LineStart
  <2>1. /\ state = "line_start" /\ field_value' = 0 /\ cursor' = cursor /\ Here' = Here
        /\ state' = IF ch \in EndOfLine THEN "line_end_begin" ELSE "field_start"
        /\ told' = told /\ value' = value
        /\ Here \in 1..Len(file) /\ ch = file[Here]
    BY <1>1, <1>5, <1>7 DEF LineStart, InState, Here
  <2>2. StartInv'
    <3>1. state' = "field_start" /\ Here > 1 => file[Here - 1] \in Separator
      BY <2>1 DEF IInv, ScanInv, BeginInv, Separator
    <3>2. QED BY <1>1, <2>1, <3>1 DEF StartInv, UnderWay
  <2>3. EndColInv'
    BY <1>1, <2>1 DEF EndColInv
  <2>4. QED BY <1>6, <2>1, <2>2, <2>3
<1>8. CASE FieldStart
  <2>1. /\ state = "field_start" /\ state' = "field_value" /\ col' = col + 1
        /\ field_value' = cursor /\ cursor' = cursor /\ Here' = Here
        /\ told' = told /\ value' = value
        /\ Here \in 1..Len(file)
    BY <1>1, <1>5, <1>8 DEF FieldStart, InState, Here
  <2>2. StartInv'
    <3>1. Here > 1 => file[Here - 1] \in Separator
      BY <2>1 DEF TableInv, StartInv
    <3>2. cursor # 1 => Here > 1 /\ Here - 1 = base + cursor - 1
      BY <1>4 DEF Here
    <3>3. QED BY <1>1, <1>4, <2>1, <3>1, <3>2 DEF StartInv
  <2>3. EndColInv'
    BY <1>1, <2>1, SamePlaces DEF TableInv, EndColInv
  <2>4. QED BY <1>6, <2>1, <2>2, <2>3
<1>9. CASE FieldStops
  <2>1. /\ state = "field_value" /\ field_value' = field_value /\ col' = col
        /\ state' = IF ch = Comma THEN "field_end" ELSE "line_end_begin"
        /\ cursor' = cursor /\ Here' = Here /\ told' = told /\ value' = value
        /\ UnderWay' = UnderWay
    BY <1>1, <1>9 DEF FieldStops, InState, Here, UnderWay
  <2>2. StartInv'
    BY <1>1, <2>1 DEF TableInv, StartInv
  <2>3. EndColInv'
    BY <1>1, <2>1, SamePlaces DEF TableInv, EndColInv
  <2>4. QED BY <1>6, <2>1, <2>2, <2>3
<1>10. CASE FieldGoesOn
  <2>1. /\ pc = "execute" /\ cursor <= data_end
        /\ state = "field_value" /\ ch \notin Separator /\ state' = "field_value"
        /\ field_value' = Resumed /\ cursor' = cursor + 1 /\ Here' = Here + 1
        /\ row' = row /\ col' = col
    BY <1>1, <1>3, <1>4, <1>10 DEF FieldGoesOn, InState, Report, Here
  <2>2. StartInv'
    <3>1. Resumed # 0
      BY <1>4 DEF Resumed
    <3>2. Resumed = 1 \/ file[base + Resumed - 1] \in Separator
      BY <2>1 DEF TableInv, StartInv, Resumed, UnderWay
    <3>3. QED BY <1>1, <2>1, <3>1, <3>2 DEF StartInv
  <2>3. EndColInv'
    <3>1. /\ Here \in 1..Len(file) /\ file[Here] \notin EndOfLine /\ file[Here] # Comma
          /\ col = ColOf(Here)
      BY <1>5, <2>1 DEF Separator, IInv, ScanInv, ColInv
    <3>2. (Here + 1) - 1 = Here /\ Here + 1 > 1
      BY <1>4
    <3>3. QED BY <1>1, <2>1, <3>1, <3>2, SamePlaces DEF EndColInv
  <2>4. QED BY <1>3, <1>10, <2>2, <2>3, PartLoads
<1>11. CASE FieldEnd
  <2>1. /\ pc = "execute" /\ cursor <= data_end /\ state = "field_end"
        /\ Report(field_value, cursor, "field_start") /\ state' = "field_start"
        /\ field_value' = field_value /\ cursor' = cursor + 1 /\ Here' = Here + 1
        /\ col' = col
    BY <1>1, <1>3, <1>4, <1>11 DEF FieldEnd, InState, Report, Here
  <2>2. file[Here] = Comma /\ col = ColOf(Here) /\ file[Here] \notin EndOfLine
    BY <1>5, <2>1, CharAssumption DEF IInv, ScanInv, ColInv
  <2>3. (Here + 1) - 1 = Here /\ Here + 1 > 1
    BY <1>4
  <2>4. StartInv'
    BY <1>1, <2>1, <2>2, <2>3 DEF StartInv, UnderWay, Separator
  <2>5. EndColInv'
    BY <1>1, <2>1, <2>2, <2>3, SamePlaces DEF EndColInv
  <2>6. QED BY <1>1, <1>3, <2>1, <2>4, <2>5, EndLoads
<1>12. CASE LineEndBegin
  <2>1. /\ pc = "execute" /\ cursor <= data_end /\ state = "line_end_begin"
        /\ Report(field_value, cursor, "line_end") /\ state' = "line_end"
    BY <1>3, <1>12 DEF LineEndBegin, InState, Report
  <2>2. StartInv' /\ EndColInv'
    BY <2>1 DEF StartInv, UnderWay, EndColInv
  <2>3. QED BY <1>1, <1>3, <2>1, <2>2, EndLoads
<1>13. CASE LineEnd
  <2>1. /\ state = "line_end" /\ state' \in {"line_end", "line_start"}
        /\ told' = told /\ value' = value
    BY <1>13 DEF LineEnd, InState
  <2>2. StartInv' /\ EndColInv'
    BY <2>1 DEF StartInv, UnderWay, EndColInv
  <2>3. QED BY <1>6, <2>1, <2>2
<1>14. CASE Return \/ ReadsEnd \/ UNCHANGED vars
  <2>1. /\ UNCHANGED <<state, row, col, cursor, field_value, value, told>>
        /\ Here' = Here /\ UnderWay' = UnderWay
    BY <1>1, <1>14 DEF Return, ReadsEnd, vars, parser, Here, UnderWay
  <2>2. StartInv'
    BY <1>1, <1>3, <2>1 DEF TableInv, StartInv
  <2>3. EndColInv'
    BY <1>1, <1>3, <2>1, SamePlaces DEF TableInv, EndColInv
  <2>4. QED BY <1>3, <1>6, <2>1, <2>2, <2>3
<1>15. QED
  BY <1>7, <1>8, <1>9, <1>10, <1>11, <1>12, <1>13, <1>14 DEF csv_parser_execute

\* csv_frame_factor.c:18-19: a field that was read in one piece, together
\* with the separator behind it, is the number stored in its cell.
THEOREM FieldsLoad == Spec => []WholeFieldsLoad
<1>1. Spec => [](IInv /\ TableInv)
  <2>1. Init => IInv /\ TableInv
    BY InitIInv, InitTableInv
  <2>2. IInv /\ TableInv /\ [Next]_vars => (IInv /\ TableInv)'
    BY StepKeeps, ReadKeepsTable, ParserKeepsTable DEF Next
  <2>3. QED BY <2>1, <2>2, PTL DEF Spec
<1>2. IInv /\ AllReported /\ TableInv => WholeFieldsLoad
  <2> SUFFICES ASSUME IInv, AllReported, TableInv, pc = "done", state # "error",
                      NEW p \in DOMAIN told, NEW q \in DOMAIN told, p <= q, q < Got,
                      IsField(p, q), SamePiece(p, q + 1), InTable(RowOf(p), ColOf(p))
               PROVE  value[<<RowOf(p) - 1, ColOf(p) - 1>>] = SubSeq(file, p, q)
    BY DEF WholeFieldsLoad
  <2>1. DOMAIN told = 1..Len(file) /\ p \in 1..Len(file) /\ q \in 1..Len(file)
    BY DEF IInv, TypeInv, TypeOK
  <2>2. Len(file) \in Nat /\ Got \in Nat /\ Got <= Len(file)
    BY SizeAssumption DEF IInv, TypeInv, TypeOK, Got
  <2>3. Whole(p, q) /\ ~ (p > Got)
    BY <2>1, <2>2 DEF Whole
  <2>4. file[p] \notin Separator
    BY <2>1, <2>2 DEF IsField
  <2>5. told[p] # <<>>
    <3>1. told[p] = <<Place(p)>>
      BY <2>3, <2>4 DEF AllReported
    <3>2. QED BY <3>1
  <2>6. QED BY <2>1, <2>3, <2>5 DEF TableInv, LoadedInv
<1>3. QED BY <1>1, <1>2, NoneLeftOut, PTL
=============================================================================
