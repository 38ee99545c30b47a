------------------------------- MODULE CjsonText -------------------------------
(***************************************************************************)
(* The parser and the printer of cJSON.c.  A text is a sequence of tokens: *)
(* punctuation, literals, one for every white character, numbers by their  *)
(* spelling, and strings with the bytes between their quotes, escapes and  *)
(* all.  A parse works on the heap of CjsonTree, and cleans up behind a    *)
(* failure; a print works on a buffer with the offset that the functions   *)
(* keep, each its part of it.                                              *)
(*                                                                         *)
(* The sizes of the print buffer are left out: a buffer that cannot grow   *)
(* is a print that fails.                                                  *)
(***************************************************************************)
EXTENDS CjsonTree

CONSTANTS NestingLimit,      \* CJSON_NESTING_LIMIT
          ExponentFrom       \* from this double on, %1.15g writes an exponent

Tok(t) == [t |-> t]
\* As cJSON_Parse counts the final '\0' in, so does a text that is parsed.
Ended(text) == Append(text, Tok("nul"))
NoText == <<Tok("none")>>                                \* a NULL char *

-----------------------------------------------------------------------------
(* Strings.                                                                *)

Quote == 34     Backslash == 92     Solidus == 47
\* The bytes with an escape of their own, and its letter.
ShortEscapes == {<<34, 34>>, <<92, 92>>, <<8, 98>>, <<12, 102>>, <<10, 110>>,
                 <<13, 114>>, <<9, 116>>}
LetterOf(c) == (CHOOSE e \in ShortEscapes : e[1] = c)[2]
HexDigit(n) == IF n < 10 THEN 48 + n ELSE 87 + n

EscapeControls(c) ==
    IF c < 32 THEN <<Backslash, 117, 48, 48, HexDigit(c \div 16), HexDigit(c % 16)>>
    ELSE <<c>>
Escape(c) ==
    IF \E e \in ShortEscapes : e[1] = c THEN <<Backslash, LetterOf(c)>>
    ELSE IF c < 32 THEN <<Backslash, 117, 48, 48, HexDigit(c \div 16), HexDigit(c % 16)>>
    ELSE <<c>>

RECURSIVE Escaped(_)
Escaped(s) == IF s = << >> THEN << >> ELSE Escape(Head(s)) \o Escaped(Tail(s))

HexValue(c) == CASE c \in 48..57 -> c - 48
                 [] c \in 65..70 -> c - 55
                 [] c \in 97..102 -> c - 87
                 [] OTHER -> -1
\* The four digits from s[i] on; 0 where one is none.
parse_hex4(s, i) ==
    LET v == [k \in 0..3 |-> HexValue(s[i + k])]
    IN  IF \E k \in 0..3 : v[k] < 0 THEN 0
        ELSE 4096 * v[0] + 256 * v[1] + 16 * v[2] + v[3]

Utf8(c) ==
    CASE c < 128 -> <<c>>
      [] c \in 128..2047 -> <<192 + (c \div 64), 128 + (c % 64)>>
      [] c \in 2048..65535 ->
             <<224 + (c \div 4096), 128 + ((c \div 64) % 64), 128 + (c % 64)>>
      [] OTHER -> <<240 + (c \div 262144), 128 + ((c \div 4096) % 64),
                    128 + ((c \div 64) % 64), 128 + (c % 64)>>

\* The literal at s[i]: its UTF-8 bytes and its length, 0 where it is none.
utf16_literal_to_utf8(s, i) ==
    LET first == parse_hex4(s, i + 2)
        second == parse_hex4(s, i + 8)
        Bad == [bytes |-> << >>, length |-> 0]
    IN  IF Len(s) - i + 1 < 6 \/ first \in 56320..57343 THEN Bad
        ELSE IF first \notin 55296..56319 THEN [bytes |-> Utf8(first), length |-> 6]
        ELSE IF \/ Len(s) - i + 1 < 12 \/ s[i + 6] # Backslash \/ s[i + 7] # 117
                \/ second \notin 56320..57343
        THEN Bad
        ELSE [bytes |-> Utf8(65536 + 1024 * (first - 55296) + (second - 56320)),
              length |-> 12]

RECURSIVE Unescaped(_, _)
\* What parse_string makes of the body s from i on; NoString where it cannot.
Unescaped(s, i) ==
    LET Then(bytes, length) ==
            LET rest == Unescaped(s, i + length)
            IN  IF rest = NoString THEN NoString ELSE bytes \o rest
        utf == utf16_literal_to_utf8(s, i)
    IN  CASE i > Len(s) -> << >>
          [] i <= Len(s) /\ s[i] = Quote -> NoString
          [] i <= Len(s) /\ s[i] \notin {Quote, Backslash} -> Then(<<s[i]>>, 1)
          [] OTHER ->
             IF i = Len(s) THEN NoString
             ELSE IF s[i + 1] = 117
             THEN IF utf.length = 0 THEN NoString ELSE Then(utf.bytes, utf.length)
             ELSE IF s[i + 1] = Solidus THEN Then(<<Solidus>>, 2)
             ELSE IF \E e \in ShortEscapes : e[2] = s[i + 1]
             THEN Then(<<(CHOOSE e \in ShortEscapes : e[2] = s[i + 1])[1]>>, 2)
             ELSE NoString

\* A zero byte ends the C string it is in.
CString(s) ==
    LET zeros == {i \in DOMAIN s : s[i] = 0}
    IN  IF s = NoString \/ zeros = {} THEN s
        ELSE SubSeq(s, 1, (CHOOSE i \in zeros : \A j \in zeros : i <= j) - 1)

-----------------------------------------------------------------------------
(* The parser: s is the text, p the heap, the offset, the depth and whether *)
(* all went well so far.                                                   *)

Here(s, p) == IF p.off < Len(s) THEN s[p.off + 1].t ELSE "end"
Failed(p) == [p EXCEPT !.ok = FALSE]
Move(p, n) == [p EXCEPT !.off = @ + n]

RECURSIVE buffer_skip_whitespace(_, _)
buffer_skip_whitespace(s, p) ==
    IF Here(s, p) \in {"space", "nul"}
    THEN IF p.off + 1 = Len(s) THEN p ELSE buffer_skip_whitespace(s, Move(p, 1))
    ELSE p

skip_utf8_bom(s, p) == IF Here(s, p) = "bom" /\ Len(s) > 2 THEN Move(p, 1) ELSE p

Fill(p, item, leaf) ==
    LET n == p.h.nodes[item]
    IN  [p EXCEPT !.h.nodes[item] = [leaf EXCEPT !.string = n.string, !.next = n.next,
                                                 !.prev = n.prev]]

parse_number(s, p, item) ==
    LET tok == s[p.off + 1]
        leaf == IF tok.form = "int"
                THEN [NumberLeaf(tok.d) EXCEPT !.type = "Int"]
                ELSE NumberLeaf(tok.d)
    IN  Move(Fill(p, item, leaf), 1)

parse_string(s, p, item) ==
    LET bytes == Unescaped(s[p.off + 1].body, 1)
        spent == [p EXCEPT !.h = Spend(@)]
    IN  IF Here(s, p) # "string" THEN Failed(p)
        ELSE IF Fails(p.h) \/ bytes = NoString THEN Failed(spent)
        ELSE Move(Fill(spent, item, StringLeaf(CString(bytes))), 1)

\* The name and the colon of a member.
ParseName(s, p, item) ==
    LET Swapped(q) == [q EXCEPT !.h.nodes[item].string = q.h.nodes[item].valuestring,
                                !.h.nodes[item].valuestring = NoString]
        Colon(q) == IF Here(s, q) # ":" THEN Failed(q) ELSE buffer_skip_whitespace(s, Move(q, 1))
        Read(q) == IF q.ok THEN Colon(Swapped(buffer_skip_whitespace(s, q))) ELSE q
    IN  Read(parse_string(s, p, item))

CloseOf(kind) == IF kind = "Object" THEN "}" ELSE "]"

\* Nothing comes of a list that fails: its items are freed.
GiveUp(p, list) == [p |-> Failed([p EXCEPT !.h = Delete(@, list)]), r |-> NULL]

RECURSIVE parse_value(_, _, _), ParseItems(_, _, _, _, _)

\* What item is to hold, behind its name in an object.
ParseItem(s, p, item, kind) ==
    LET Value(q) == IF q.ok THEN buffer_skip_whitespace(s, parse_value(s, q, item)) ELSE q
    IN  Value(IF kind = "Object" THEN ParseName(s, p, item) ELSE p)

\* The items of an array, or of an object, whose bracket or comma is at the
\* offset: first is the head of the list so far and last its last item.
ParseItems(s, p, first, last, kind) ==
    LET Linked(new) == IF first = NULL THEN new.h ELSE suffix_object(new.h, last, new.r)
        Behind(q, head, item) ==
            IF ~q.ok THEN GiveUp(q, head)
            ELSE IF Here(s, q) = "," THEN ParseItems(s, q, head, item, kind)
            ELSE IF Here(s, q) # CloseOf(kind) THEN GiveUp(q, head)
            ELSE [p |-> [q EXCEPT !.h = Set(@, head, "prev", item)], r |-> head]
        With(new) ==
            IF new.r = NULL THEN GiveUp([p EXCEPT !.h = new.h], first)
            ELSE Behind(ParseItem(s, buffer_skip_whitespace(s, Move([p EXCEPT !.h = Linked(new)], 1)),
                                  new.r, kind),
                        IF first = NULL THEN new.r ELSE first, new.r)
    IN  With(New_Item(p.h))

\* parse_array and parse_object.
ParseList(s, p, item, kind) ==
    LET Closed(list) ==
            IF ~list.p.ok THEN list.p
            ELSE Fill([Move(list.p, 1) EXCEPT !.depth = @ - 1], item,
                      [Leaf(kind) EXCEPT !.child = list.r])
        Inside(q) ==
            IF Here(s, q) = "end" THEN Failed(p)
            ELSE Closed(IF Here(s, q) = CloseOf(kind) THEN [p |-> q, r |-> NULL]
                        ELSE ParseItems(s, Move(q, -1), NULL, NULL, kind))
    IN  IF p.depth >= NestingLimit THEN Failed(p)
        ELSE Inside(buffer_skip_whitespace(s, Move([p EXCEPT !.depth = @ + 1], 1)))

parse_value(s, p, item) ==
    CASE Here(s, p) = "null"   -> Move(Fill(p, item, NullLeaf), 1)
      [] Here(s, p) = "false"  -> Move(Fill(p, item, BoolLeaf(0)), 1)
      [] Here(s, p) = "true"   -> Move(Fill(p, item, BoolLeaf(1)), 1)
      [] Here(s, p) = "string" -> parse_string(s, p, item)
      [] Here(s, p) = "number" -> parse_number(s, p, item)
      [] Here(s, p) = "["      -> ParseList(s, p, item, "Array")
      [] Here(s, p) = "{"      -> ParseList(s, p, item, "Object")
      [] OTHER -> Failed(p)

\* The value at the beginning of s; end is where the next one begins.
ParseValueOf(s, root, require_null_terminated) ==
    LET Start == [h |-> root.h, off |-> 0, depth |-> 0, ok |-> TRUE]
        Ending(p) == IF require_null_terminated /\ p.ok THEN buffer_skip_whitespace(s, p) ELSE p
        Checked(p) ==
            IF ~p.ok \/ (require_null_terminated /\ Here(s, p) # "nul")
            THEN [h |-> Delete(p.h, root.r), r |-> NULL, end |-> p.off]
            ELSE [h |-> p.h, r |-> root.r, end |-> p.off]
    IN  IF root.r = NULL THEN [h |-> root.h, r |-> NULL, end |-> 0]
        ELSE Checked(Ending(parse_value(s, buffer_skip_whitespace(s, skip_utf8_bom(s, Start)), root.r)))

\* The whole text, or with require_null_terminated FALSE its first value.
ParseWithOpts(h, text, require_null_terminated) ==
    IF text = NoText THEN [h |-> h, r |-> NULL, end |-> 0]
    ELSE ParseValueOf(Ended(text), New_Item(h), require_null_terminated)

cJSON_Parse(h, text) == ParseWithOpts(h, text, FALSE)

-----------------------------------------------------------------------------
(* The printer: o is the buffer with its text, the offset, the depth and   *)
(* whether all went well so far.                                           *)

\* Written at the offset and ended with '\0'.
Put(o, toks) == [o EXCEPT !.buf = SubSeq(@, 1, o.off) \o toks]
Skip(o, n) == [o EXCEPT !.off = @ + n]
Written(o, toks) == Skip(Put(o, toks), Len(toks))
update_offset(o) == [o EXCEPT !.off = Len(o.buf)]
Spaces(n) == [i \in 1..n |-> Tok("space")]

print_number(n, o) ==
    LET d == n.valuedouble
        form == IF d >= ExponentFrom \/ d <= -ExponentFrom THEN "exp"
                ELSE IF d % 10 = 0 THEN "int" ELSE "frac"
    IN  IF n.type = "Int"
        THEN Written(o, <<[t |-> "number", form |-> "int", d |-> 10 * n.valueint]>>)
        ELSE IF d \in {Infinity, -Infinity} THEN Written(o, <<Tok("null")>>)
        ELSE Written(o, <<[t |-> "number", form |-> form, d |-> d]>>)

print_string_ptr(s, o) ==
    Put(o, <<[t |-> "string", body |-> IF s = NoString THEN << >> ELSE Escaped(s)]>>)

RECURSIVE print_value(_, _, _), PrintItems(_, _, _, _)

\* The items from item on, up to the bracket that closes them.
PrintItems(h, item, o, kind) ==
    LET Indented == IF o.format THEN Written(o, Spaces(o.depth)) ELSE o
        Named(name) == Written(update_offset(print_string_ptr(name, Indented)),
                               <<Tok(":")>> \o Spaces(IF o.format THEN 1 ELSE 0))
        Value(q) == update_offset(print_value(h, item, q))
        Comma(last) == IF last THEN << >> ELSE <<Tok(",")>>
        Gap(last) == Spaces(IF o.format /\ (kind = "Object" \/ ~last) THEN 1 ELSE 0)
        Behind(n) == PrintItems(h, n.next, Written(Value(IF kind = "Object" THEN Named(n.string) ELSE o),
                                                   Comma(n.next = NULL) \o Gap(n.next = NULL)), kind)
    IN  IF item = NULL \/ ~o.ok THEN o ELSE Behind(h.nodes[item])

print_array(h, n, o) ==
    LET opened == [Written(o, <<Tok("[")>>) EXCEPT !.depth = @ + 1]
        items == PrintItems(h, n.child, opened, "Array")
    IN  [Put(items, <<Tok("]")>>) EXCEPT !.depth = @ - 1]

print_object(h, n, o) ==
    LET Gap == Spaces(IF o.format THEN 1 ELSE 0)
        Opened == [Written(o, <<Tok("{")>> \o Gap) EXCEPT !.depth = @ + 1]
        Closed(q) == [Put(q, Spaces(IF o.format THEN q.depth - 1 ELSE 0) \o <<Tok("}")>>)
                        EXCEPT !.depth = @ - 1]
    IN  Closed(PrintItems(h, n.child, Opened, "Object"))

print_value(h, item, o) ==
    LET n == h.nodes[item]
    IN  CASE n.type = "NULL" -> Put(o, <<Tok("null")>>)
          [] n.type = "Bool" -> Put(o, <<Tok(IF n.valueint # 0 THEN "true" ELSE "false")>>)
          [] n.type \in {"Int", "Number"} -> print_number(n, o)
          [] n.type = "String" -> print_string_ptr(n.valuestring, o)
          [] n.type = "Array" -> print_array(h, n, o)
          [] n.type = "Object" -> print_object(h, n, o)
          [] OTHER -> [o EXCEPT !.ok = FALSE]

\* cJSON_Print and cJSON_PrintUnformatted.  Two allocations are sure, the first
\* buffer and the copy that is as long as the text.
cJSON_Print(h, item, format) ==
    LET Short == h.left \in {0, 1}
        Copied(o) == [h |-> IF Short THEN [h EXCEPT !.left = Never] ELSE Spend(Spend(h)),
                      text |-> IF Short \/ item = NULL THEN NoText
                               ELSE IF o.ok THEN o.buf ELSE NoText]
    IN  Copied(update_offset(print_value(h, item,
            [buf |-> << >>, off |-> 0, depth |-> 0, format |-> format, ok |-> TRUE])))
=============================================================================
