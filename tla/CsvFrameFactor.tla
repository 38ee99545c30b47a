---------------------------- MODULE CsvFrameFactor ----------------------------
(***************************************************************************)
(* The frame factor table: frame_factor_get_from_file reads a CSV file in  *)
(* pieces of BufferSize bytes and gives each piece to the push parser of   *)
(* 3rd/csv_parser, which calls field_cb back for every field, or for every *)
(* part of a field that a piece holds.                                     *)
(*                                                                         *)
(* A step is one iteration of the parser's loop or one read.  A number is  *)
(* the digits it is written with, which is all that atof makes of it here. *)
(***************************************************************************)
EXTENDS Integers, Sequences, FiniteSets

CONSTANTS
    Comma,         \* settings.delimiter
    EndOfLine,     \* '\r' and '\n'
    Digit,         \* the characters numbers are made of
    Files,         \* the files a user may have written
    BufferSize,    \* bytes per read (64 in the code)
    ROW_MAX,       \* FRAME_FACTOR_ROW_MAX, the motors (8)
    COL_MAX,       \* FRAME_FACTOR_COL_MAX, the directions (6)
    Garbage        \* a byte of the buffer that nothing has written

Char == Digit \union EndOfLine \union {Comma}

ASSUME CharAssumption ==
    /\ Comma \notin Digit \union EndOfLine
    /\ Digit \intersect EndOfLine = {}
    /\ Garbage \notin Char

ASSUME SizeAssumption ==
    /\ Files \subseteq Seq(Char)
    /\ BufferSize \in Nat \ {0}
    /\ ROW_MAX \in Nat \ {0}
    /\ COL_MAX \in Nat \ {0}

VARIABLES
    file,          \* what the file holds
    pc,            \* "read", "execute" (in csv_parser_execute) or "done"
    buffer,        \* the reader's buffer
    base,          \* how many bytes of the file came before those in buffer
    data_end,      \* how many bytes the last read put in buffer
    \* csv_parser_t and the locals of csv_parser_execute (0 for NULL)
    state, row, col, cursor, field_value,
    value,         \* frame_factor_t: the number in each cell
    told           \* history: for each byte, the places it was reported at

parser == <<state, row, col>>
vars == <<file, pc, buffer, base, data_end, state, row, col, cursor,
          field_value, value, told>>

Separator == EndOfLine \union {Comma}
Cell == (0..(ROW_MAX - 1)) \X (0..(COL_MAX - 1))
States == {"line_start", "field_start", "field_value", "field_end",
           "line_end_begin", "line_end", "error"}

-----------------------------------------------------------------------------
Init ==
    /\ file \in Files
    /\ pc = "read"
    /\ buffer = [i \in 1..BufferSize |-> Garbage]
    /\ base = 0
    /\ data_end = 0
    /\ state = "line_start" /\ row = -1 /\ col = -1
    /\ cursor = 1
    /\ field_value = 0
    /\ value = [cell \in Cell |-> <<>>]         \* calloc: zeros
    /\ told = [p \in 1..Len(file) |-> <<>>]

PassedOnAll(n) == BufferSize
\* The length that csv_parser_execute is given.
PassedOn(n) == n

\* read fills the buffer or stops at the end of the file; what it does not
\* overwrite stays.  The parser's state is not looked at.
Read ==
    LET from == base + data_end
        n == IF Len(file) - from < BufferSize THEN Len(file) - from ELSE BufferSize
    IN  /\ pc = "read"
        /\ n > 0
        /\ pc' = "execute"
        /\ buffer' = [i \in 1..BufferSize |-> IF i <= n THEN file[from + i] ELSE buffer[i]]
        /\ base' = from
        /\ data_end' = PassedOn(n)
        /\ cursor' = 1
        /\ field_value' = 0
        /\ UNCHANGED <<file, parser, value, told>>

\* How much of the file was read.
Got == base + data_end

\* read returns 0, at the end of the file, or -1, wherever it failed: either
\* way the table is given to the caller.
ReadsEnd ==
    /\ pc = "read"
    /\ pc' = "done"
    /\ UNCHANGED <<file, buffer, base, data_end, parser, cursor, field_value,
                   value, told>>

-----------------------------------------------------------------------------
\* Where a run that starts at index i ends: behind the last consecutive
\* character of the buffer in S.
RunEnd(i, S) ==
    CHOOSE e \in i..(BufferSize + 1) :
        /\ \A k \in i..(e - 1) : buffer[k] \in S
        /\ e = BufferSize + 1 \/ buffer[e] \notin S

\* atof skips white space, line ends included, and reads digits until the
\* first other character of the buffer, whether the last read wrote it or
\* not.  Behind the buffer, or where nothing was written, there may be a digit.
Atof(i) ==
    LET s == RunEnd(i, EndOfLine)
        e == RunEnd(s, Digit)
        number == SubSeq(buffer, s, e - 1)
    IN  IF e <= BufferSize /\ buffer[e] # Garbage
        THEN {number}
        ELSE {number} \union {Append(number, d) : d \in Digit}

OutOfTableLate(r, c) == c > COL_MAX + 1 \/ r > ROW_MAX + 1
OutOfTable(r, c) == c > COL_MAX \/ r > ROW_MAX

\* The first row and the first column are headings.
InTable(r, c) == r >= 1 /\ c >= 1

\* field_cb for the bytes from index i up to, not including, index e.  A write
\* past the table would add a cell.
field_cb(i, e) ==
    /\ told' = [p \in DOMAIN told |->
                  IF p \in (base + i)..(base + e - 1)
                  THEN Append(told[p], <<row, col>>) ELSE told[p]]
    /\ IF InTable(row, col) /\ ~OutOfTable(row, col)
       THEN \E x \in Atof(i) :
              value' = [cell \in DOMAIN value \union {<<row - 1, col - 1>>} |->
                           IF cell = <<row - 1, col - 1>> THEN x ELSE value[cell]]
       ELSE UNCHANGED value

\* The callback, if a field is under way, then the given state, or the error
\* state if the callback failed.
Report(i, e, next) ==
    IF i = 0
    THEN state' = next /\ UNCHANGED <<value, told>>
    ELSE /\ field_cb(i, e)
         /\ state' = IF OutOfTable(row, col) THEN "error" ELSE next

-----------------------------------------------------------------------------
(* csv_parser_execute: one iteration of its loop in each state.            *)

ch == buffer[cursor]

InState(s) ==
    /\ pc = "execute"
    /\ cursor <= data_end
    /\ state = s

LineStartKeepsCol ==
    /\ InState("line_start")
    /\ field_value' = 0
    /\ row' = row + 1
    /\ state' = IF ch \in EndOfLine THEN "line_end_begin" ELSE "field_start"
    /\ UNCHANGED <<file, pc, buffer, base, data_end, col, cursor, value, told>>

LineStart ==
    /\ InState("line_start")
    /\ field_value' = 0
    /\ row' = row + 1
    /\ col' = -1
    /\ state' = IF ch \in EndOfLine THEN "line_end_begin" ELSE "field_start"
    /\ UNCHANGED <<file, pc, buffer, base, data_end, cursor, value, told>>

FieldStart ==
    /\ InState("field_start")
    /\ col' = col + 1
    /\ state' = "field_value"
    /\ field_value' = cursor
    /\ UNCHANGED <<file, pc, buffer, base, data_end, row, cursor, value, told>>

FieldStops ==
    /\ InState("field_value")
    /\ ch \in Separator
    /\ state' = IF ch = Comma THEN "field_end" ELSE "line_end_begin"
    /\ UNCHANGED <<file, pc, buffer, base, data_end, row, col, cursor,
                   field_value, value, told>>

ResumedNever == field_value
ResumedAlways == cursor
\* A field that began in an earlier piece goes on where this one starts.
Resumed == IF field_value = 0 THEN cursor ELSE field_value

\* A character of the field; if it ends the piece, what there is is reported.
FieldGoesOn ==
    /\ InState("field_value")
    /\ ch \notin Separator
    /\ cursor' = cursor + 1
    /\ field_value' = Resumed
    /\ IF cursor = data_end
       THEN Report(Resumed, cursor + 1, "field_value")
       ELSE UNCHANGED <<state, value, told>>
    /\ UNCHANGED <<file, pc, buffer, base, data_end, row, col>>

FieldEnd ==
    /\ InState("field_end")
    /\ Report(field_value, cursor, "field_start")
    /\ cursor' = IF state' = "error" THEN cursor ELSE cursor + 1
    /\ UNCHANGED <<file, pc, buffer, base, data_end, row, col, field_value>>

LineEndBegin ==
    /\ InState("line_end_begin")
    /\ Report(field_value, cursor, "line_end")
    /\ UNCHANGED <<file, pc, buffer, base, data_end, row, col, cursor, field_value>>

LineEndStuck ==
    /\ InState("line_end")
    /\ state' = IF ch \in EndOfLine THEN "line_end" ELSE "line_start"
    /\ UNCHANGED <<file, pc, buffer, base, data_end, row, col, cursor,
                   field_value, value, told>>

\* Line ends are skipped, those of empty lines too.
LineEnd ==
    /\ InState("line_end")
    /\ IF ch \in EndOfLine
       THEN cursor' = cursor + 1 /\ UNCHANGED state
       ELSE state' = "line_start" /\ UNCHANGED cursor
    /\ UNCHANGED <<file, pc, buffer, base, data_end, row, col, field_value,
                   value, told>>

Return ==
    /\ pc = "execute"
    /\ cursor > data_end \/ state = "error"
    /\ pc' = "read"
    /\ UNCHANGED <<file, buffer, base, data_end, parser, cursor, field_value,
                   value, told>>

csv_parser_execute ==
    \/ LineStart \/ FieldStart \/ FieldStops \/ FieldGoesOn
    \/ FieldEnd \/ LineEndBegin \/ LineEnd \/ Return

Next == Read \/ csv_parser_execute \/ ReadsEnd

Spec == Init /\ [][Next]_vars

\* Nothing else runs while the program starts.
FairSpec == Spec /\ WF_vars(Next)

-----------------------------------------------------------------------------
(* The places of the file's characters, without a parser.  A line begins   *)
(* at the first byte and wherever a line end is followed by something else;*)
(* so empty lines do not count, but one that opens the file does.          *)

LineBegins(p) ==
    {q \in 1..p : q = 1 \/ (file[q] \notin EndOfLine /\ file[q - 1] \in EndOfLine)}

RowOf(p) == Cardinality(LineBegins(p)) - 1

ColOf(p) ==
    Cardinality({q \in 1..(p - 1) :
                    file[q] = Comma /\ \A k \in q..p : file[k] \notin EndOfLine})

Place(p) == <<RowOf(p), ColOf(p)>>

\* The bytes from p to q are a field: what is between two separators, or
\* between one and an end of the file.
IsField(p, q) ==
    /\ \A k \in p..q : file[k] \notin Separator
    /\ p = 1 \/ file[p - 1] \in Separator
    /\ q = Len(file) \/ file[q + 1] \in Separator

\* The bytes from p to q were in the reader's buffer at the same time.
SamePiece(p, q) == (p - 1) \div BufferSize = (q - 1) \div BufferSize

-----------------------------------------------------------------------------
TypeOK ==
    /\ file \in Files
    /\ pc \in {"read", "execute", "done"}
    /\ buffer \in [1..BufferSize -> Char \union {Garbage}]
    /\ base \in 0..Len(file) /\ data_end \in 0..BufferSize
    /\ base + data_end <= Len(file)
    /\ state \in States
    /\ row \in Nat \union {-1} /\ col \in Nat \union {-1}
    /\ cursor \in 1..(BufferSize + 1)
    /\ field_value \in 0..BufferSize
    /\ value \in [DOMAIN value -> Seq(Digit)]
    /\ told \in [1..Len(file) -> Seq(Nat \X Nat)]

\* csv_frame_factor.c:14-19: whatever the file, only cells of the table are
\* written, though nothing in the file says how many rows and columns it has.
WritesInTable == DOMAIN value = Cell

\* csv_parser.c:58-155: however the file is cut into pieces, each character
\* of a field is reported at most once and at the place it has in the file.
ReportedInPlace ==
    \A p \in DOMAIN told : told[p] \in {<<>>, <<Place(p)>>}

\* csv_parser.c:82-136: and unless a callback failed, none that was read is left
\* out and no separator is reported.
AllReported ==
    pc = "done" /\ state # "error" =>
        \A p \in DOMAIN told :
            told[p] = IF p > Got \/ file[p] \in Separator THEN <<>> ELSE <<Place(p)>>

\* csv_frame_factor.c:18-19: a field that was read in one piece, together
\* with the separator behind it, is the number stored in its cell.
WholeFieldsLoad ==
    pc = "done" /\ state # "error" =>
        \A p, q \in DOMAIN told :
            /\ p <= q /\ q < Got
            /\ IsField(p, q)
            /\ SamePiece(p, q + 1)
            /\ InTable(RowOf(p), ColOf(p))
            => value[<<RowOf(p) - 1, ColOf(p) - 1>>] = SubSeq(file, p, q)

\* csv_parser.c:58-157, csv_frame_factor.c:40-46: the loop has iterations
\* that consume nothing, yet every file comes to its end.
LoadEnds == <>(pc = "done")
=============================================================================
