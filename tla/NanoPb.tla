-------------------------------- MODULE NanoPb --------------------------------
(***************************************************************************)
(* The messages of 3rd/nanopb, described by field tables.                  *)
(*                                                                         *)
(* A field of a descriptor is a record [tag, htype, ltype, size, array,    *)
(* sub]: size is data_size, array is array_size, sub the fields of the     *)
(* message in it.  A message maps each of its tags to a field's content:   *)
(* the value (REQUIRED, and SINGULAR of proto3), [has, val] (OPTIONAL), a  *)
(* sequence (REPEATED with a count; FIXARRAY, always full).  A ONEOF       *)
(* holds [has, val] too: at most one of the group, the last set, has it.   *)
(*                                                                         *)
(* The code calls itself for a message in a message.  Here one instance of *)
(* the module stands for one level, and the level below it is a parameter. *)
(*                                                                         *)
(* Pointer, callback and extension fields are left out: the generated      *)
(* tables of the program have none.                                        *)
(***************************************************************************)
EXTENDS PbWire

CONSTANTS             \* the same for the messages that are in the fields of these:
    SubDefault(_),         \* Default
    SubAllDefault(_, _),   \* AllDefault
    SubDecode(_, _, _, _), \* DecodeInner
    SubEncode(_, _, _)     \* Encode

-----------------------------------------------------------------------------
(* Messages.                                                               *)

FieldWith(desc, tag) == {i \in 1..Len(desc) : desc[i].tag = tag}

\* What a cleared field holds; a fixed array lies in memory that is zero.
Zero(f) ==
    CASE f.ltype \in {"BOOL", "VARINT", "UVARINT", "SVARINT"} -> {}
      [] f.ltype = "FIXED32" -> Zeros(4)
      [] f.ltype = "FIXED64" -> Zeros(8)
      [] f.ltype \in {"BYTES", "STRING"} -> <<>>
      [] f.ltype = "FIXED_LENGTH_BYTES" -> Zeros(f.size)
      [] f.ltype = "SUBMESSAGE" -> SubDefault(f.sub)

DefaultField(f) ==
    CASE f.htype \in {"REQUIRED", "SINGULAR"} -> Zero(f)
      [] f.htype \in {"OPTIONAL", "ONEOF"} -> [has |-> FALSE, val |-> Zero(f)]
      [] f.htype = "REPEATED" -> <<>>
      [] f.htype = "FIXARRAY" -> [i \in 1..f.array |-> Zero(f)]

\* pb_message_set_to_defaults, no field having a default of its own.
Default(desc) ==
    [tag \in {desc[i].tag : i \in 1..Len(desc)} |->
        DefaultField(desc[CHOOSE i \in FieldWith(desc, tag) : TRUE])]

\* Only the elements of an array start from cleared memory: another message
\* on the same field is merged into the one that is there.
DecSubmessage(in, f, old) ==
    LET start == IF f.htype \in {"REPEATED", "FIXARRAY"} THEN SubDefault(f.sub) ELSE old
    IN  Then(Substream(in),
             LAMBDA s : [SubDecode(s.val, f.sub, start, {}) EXCEPT !.in = s.in])

DecodeBasicField(in, wt, f, old) ==
    IF wt # WireType[f.ltype] /\ ~ (wt = PACKED /\ f.ltype \in Packable) THEN Fail(in)
    ELSE CASE f.ltype = "BOOL" -> DecBool(in)
           [] f.ltype \in {"VARINT", "UVARINT", "SVARINT"} -> DecVarint(in, f)
           [] f.ltype = "FIXED32" -> Read(in, 4)
           [] f.ltype = "FIXED64" -> Read(in, 8)
           [] f.ltype = "BYTES" -> DecCounted(in, f, 2)
           [] f.ltype = "STRING" -> DecCounted(in, f, 1)
           [] f.ltype = "FIXED_LENGTH_BYTES" -> DecFixedLengthBytes(in, f)
           [] f.ltype = "SUBMESSAGE" -> DecSubmessage(in, f, old)

\* An array that has n elements gets v; a fixed one has all its places.
Put(f, array, n, v) ==
    IF f.htype = "FIXARRAY" THEN [array EXCEPT ![n + 1] = v] ELSE Append(array, v)

\* The elements of a packed array, as long as there are bytes and places.
PackedNext(r, f) ==
    IF ~ r.ok \/ r.in.left = 0 THEN r
    ELSE Then(DecodeBasicField(r.in, PACKED, f, Zero(f)),
              LAMBDA e : Done(e.in, <<Put(f, r.val[1], r.val[2], e.val), r.val[2] + 1>>))

PackedFrom(sub, f, array, n) ==
    LET after[k \in 0..(f.array - n)] ==
            IF k = 0 THEN Done(sub, <<array, n>>) ELSE PackedNext(after[k - 1], f)
        Emptied(r) == IF r.ok /\ r.in.left > 0 THEN Fail(r.in) ELSE r
    IN  Emptied(after[f.array - n])

\* The value is the array and how many elements it has now.
DecodeArray(in, wt, f, array, n) ==
    IF wt = 2 /\ f.ltype \in Packable
    THEN Then(Substream(in),
              LAMBDA s : [PackedFrom(s.val, f, array, n) EXCEPT !.in = s.in])
    ELSE IF n >= f.array THEN Fail(in)
    ELSE Then(DecodeBasicField(in, wt, f, Zero(f)),
              LAMBDA r : [r EXCEPT !.val = <<Put(f, array, n, @), n + 1>>])

\* decode_field for a message m: the value is the message after it.
DecodeSingle(in, wt, f, desc, m) ==
    LET present == f.htype \in {"OPTIONAL", "ONEOF"}
        old == IF f.htype = "ONEOF" /\ ~ m[f.tag].has THEN Zero(f)
               ELSE IF present THEN m[f.tag].val ELSE m[f.tag]
        dropped == {desc[i].tag : i \in {j \in 1..Len(desc) :
                        desc[j].htype = "ONEOF" /\ f.htype = "ONEOF"}} \ {f.tag}
        With(v) == [tag \in DOMAIN m |->
            IF tag = f.tag THEN (IF present THEN [has |-> TRUE, val |-> v] ELSE v)
            ELSE IF tag \in dropped
                 THEN DefaultField(desc[CHOOSE i \in FieldWith(desc, tag) : TRUE])
            ELSE m[tag]]
    IN  [DecodeBasicField(in, wt, f, old) EXCEPT !.val = With(@)]

\* The state of pb_decode_inner: the message so far, the required fields
\* seen, which fixed array was read last (a tag or 0) up to which place, and
\* whether a tag 0 was read.
Decoding(in, m) == [ok |-> TRUE, in |-> in, m |-> m, seen |-> {}, fixed |-> 0, size |-> 0,
                    ended |-> FALSE]

FixedComplete(d, desc) ==
    d.fixed # 0 => \E i \in FieldWith(desc, d.fixed) : desc[i].array = d.size

DecodeField(d, in, wt, f, desc) ==
    LET again == d.fixed = f.tag
        n == IF f.htype = "REPEATED" THEN Len(d.m[f.tag]) ELSE IF again THEN d.size ELSE 0
        WithArray(a) ==
            IF ~ a.ok THEN [d EXCEPT !.ok = FALSE]
            ELSE IF f.htype = "REPEATED" THEN [d EXCEPT !.in = a.in, !.m[f.tag] = a.val[1]]
            ELSE [d EXCEPT !.in = a.in, !.m[f.tag] = a.val[1], !.fixed = f.tag, !.size = a.val[2]]
        WithSingle(r) ==
            IF ~ r.ok THEN [d EXCEPT !.ok = FALSE]
            ELSE [d EXCEPT !.in = r.in, !.m = r.val,
                           !.seen = IF f.htype = "REQUIRED" THEN @ \cup {f.tag} ELSE @]
    IN  IF f.htype \notin {"REPEATED", "FIXARRAY"} THEN WithSingle(DecodeSingle(in, wt, f, desc, d.m))
        ELSE IF f.htype = "FIXARRAY" /\ ~ again /\ ~ FixedComplete(d, desc)
        THEN [d EXCEPT !.ok = FALSE]
        ELSE WithArray(DecodeArray(in, wt, f, d.m[f.tag], n))

\* The field with the tag that was read, or what is skipped for it.
AfterTag(d, in, wt, tag, desc) ==
    LET Skipped(s) == [d EXCEPT !.ok = s.ok, !.in = s.in]
    IN  IF FieldWith(desc, tag) = {} THEN Skipped(SkipField(in, wt))
        ELSE DecodeField(d, in, wt, desc[CHOOSE i \in FieldWith(desc, tag) : TRUE], desc)

\* One turn of the loop, which ends with the bytes, an error or a tag 0.
DecodeTagged(d, t, desc, flags) ==
    IF ~ t.ok \/ (t.val[2] = 0 /\ "NULLTERMINATED" \notin flags)
    THEN [d EXCEPT !.ok = FALSE]
    ELSE IF t.val[2] = 0 THEN [d EXCEPT !.in = t.in, !.ended = TRUE]
    ELSE AfterTag(d, t.in, t.val[1], t.val[2], desc)

DecodeNext(d, desc, flags) ==
    IF d.in.left = 0 \/ ~ d.ok \/ d.ended THEN d
    ELSE DecodeTagged(d, DecodeTag(d.in), desc, flags)

\* Each turn takes a byte or ends the loop.
DecodeFields(d, desc, flags) ==
    LET after[k \in 0..d.in.left] == IF k = 0 THEN d ELSE DecodeNext(after[k - 1], desc, flags)
    IN  after[d.in.left]

DecodeInner(in, desc, m, flags) ==
    LET required == {desc[i].tag : i \in {j \in 1..Len(desc) : desc[j].htype = "REQUIRED"}}
        Finished(d) == [ok |-> d.ok /\ FixedComplete(d, desc) /\ required \subseteq d.seen,
                        in |-> d.in, val |-> d.m]
    IN  Finished(DecodeFields(Decoding(in, m), desc, flags))

\* pb_decode and pb_decode_ex: flags are some of DELIMITED, NULLTERMINATED.
Decode(in, desc) == DecodeInner(in, desc, Default(desc), {})
DecodeEx(in, desc, flags) ==
    IF "DELIMITED" \notin flags THEN DecodeInner(in, desc, Default(desc), flags)
    ELSE Then(Substream(in),
              LAMBDA s : [DecodeInner(s.val, desc, Default(desc), flags) EXCEPT !.in = s.in])

\* Both passes, the one that counts and the one that writes, write the same.
Enclosed(o, pass) == IF pass.ok THEN EncodeString(o, pass.out) ELSE [o EXCEPT !.ok = FALSE]
EncodeSubmessage(o, desc, m) == Enclosed(o, SubEncode(Sizing, desc, m))

EncodeValue(o, f, v) ==
    CASE f.ltype = "BOOL" -> EncodeVarint(o, v)
      [] f.ltype \in {"VARINT", "UVARINT", "SVARINT"} -> EncVarint(o, f, v)
      [] f.ltype \in {"FIXED32", "FIXED64"} -> Write(o, v)
      [] f.ltype = "BYTES" -> EncBytes(o, f, v)
      [] f.ltype = "STRING" -> EncString(o, f, v)
      [] f.ltype = "FIXED_LENGTH_BYTES" -> EncodeString(o, v)
      [] f.ltype = "SUBMESSAGE" -> EncodeSubmessage(o, f.sub, v)

EncodeBasicField(o, f, v) == EncodeValue(EncodeTagForField(o, f), f, v)

EncodeArray(o, f, array) ==
    LET elements(s) == FoldLeft(LAMBDA a, v : IF f.ltype = "BOOL" THEN EncVarint(a, f, v)
                                              ELSE EncodeValue(a, f, v), s, array)
    IN  CASE array = <<>> -> o
          [] Len(array) > f.array -> [o EXCEPT !.ok = FALSE]
          [] array # <<>> /\ Len(array) <= f.array /\ f.ltype \in Packable ->
                EncodeString(EncodeTag(o, 2, f.tag), elements(Sizing).out)
          [] OTHER -> FoldLeft(LAMBDA a, v : EncodeBasicField(a, f, v), o, array)

\* pb_check_proto3_default_value.
IsDefault(f, c) ==
    CASE f.htype = "REQUIRED" -> FALSE
      [] f.htype \in {"REPEATED", "FIXARRAY"} -> c = <<>>
      [] f.htype \in {"OPTIONAL", "ONEOF"} -> ~ c.has
      [] f.htype = "SINGULAR" ->
            IF f.ltype = "SUBMESSAGE"
            THEN SubAllDefault(f.sub, c)
            ELSE IF f.ltype = "FIXED_LENGTH_BYTES" THEN f.size = 0
            ELSE IF f.ltype = "STRING" THEN c = <<>> \/ c[1] = {}
            ELSE c = Zero(f)

AllDefault(desc, m) == \A i \in 1..Len(desc) : IsDefault(desc[i], m[desc[i].tag])

EncodeField(o, f, c) ==
    CASE f.htype = "REQUIRED" -> EncodeBasicField(o, f, c)
      [] f.htype = "SINGULAR" -> IF IsDefault(f, c) THEN o ELSE EncodeBasicField(o, f, c)
      [] f.htype \in {"OPTIONAL", "ONEOF"} -> IF c.has THEN EncodeBasicField(o, f, c.val) ELSE o
      [] f.htype \in {"REPEATED", "FIXARRAY"} -> EncodeArray(o, f, c)

\* The fields in their order.
Encode(o, desc, m) ==
    LET after[k \in 0..Len(desc)] ==
            IF k = 0 THEN o ELSE EncodeField(after[k - 1], desc[k], m[desc[k].tag])
    IN  after[Len(desc)]

EncodeEx(o, desc, m, flags) ==
    CASE "DELIMITED" \in flags -> Enclosed(o, Encode(Sizing, desc, m))
      [] flags = {"NULLTERMINATED"} -> Write(Encode(o, desc, m), <<{}>>)
      [] flags = {} -> Encode(o, desc, m)
=============================================================================
