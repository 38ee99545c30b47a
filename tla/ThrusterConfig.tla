----------------------------- MODULE ThrusterConfig -----------------------------
(***************************************************************************)
(* The thrusters' parameters as a C struct, as a JSON document and as the  *)
(* text of the configuration file (user/csv-json-config-sys/json_thruster, *)
(* with the macros of struct2json), on the trees and texts of cJSON.       *)
(*                                                                         *)
(* A bool is 0 or 1 and a double counts tenths.  The members' names are    *)
(* shortened to bytes that tell them apart.                                *)
(***************************************************************************)
EXTENDS CjsonText

CONSTANTS Thrusters,     \* how many there are: 6, or 8 in the other build
          IntHalf        \* an int is in -IntHalf..IntHalf-1

NoParams == << >>                                          \* a NULL pointer

Thruster == 0..(Thrusters - 1)
ThrusterName(i) == <<116, 48 + i>>
\* The members in the order they are written: name, type, field.
Members == <<[name |-> <<114>>, type |-> "Bool", field |-> "reversed"],
             [name |-> <<101>>, type |-> "Bool", field |-> "enabled"],
             [name |-> <<99>>, type |-> "Int", field |-> "channel"],
             [name |-> <<100, 112>>, type |-> "Number", field |-> "deadzone_p"],
             [name |-> <<100, 110>>, type |-> "Number", field |-> "deadzone_n"],
             [name |-> <<112, 112>>, type |-> "Number", field |-> "power_pLimit"],
             [name |-> <<112, 110>>, type |-> "Number", field |-> "power_nLimit"]>>
Fields == {Members[m].field : m \in DOMAIN Members}
TypeOfField(f) == (CHOOSE m \in {Members[n] : n \in DOMAIN Members} : m.field = f).type

ZeroAttr == [f \in Fields |-> 0]
DefaultAttr(i) == [f \in Fields |->
    CASE f = "channel" -> i
      [] f = "enabled" -> 1
      [] f \in {"power_pLimit", "power_nLimit"} -> 5
      [] OTHER -> 0]
DefaultParams == [i \in Thruster |-> DefaultAttr(i)]

\* What a thrusters_params may hold.
ThrusterParams ==
    [Thruster -> [reversed : {0, 1}, enabled : {0, 1}, channel : -IntHalf..(IntHalf - 1),
                  deadzone_p : Int, deadzone_n : Int, power_pLimit : Int, power_nLimit : Int]]

\* calloc, and the default; NoParams where there is no memory.
thruster_create_with_init_val(h) ==
    [h |-> Spend(h), params |-> IF Fails(h) THEN NoParams ELSE DefaultParams]

-----------------------------------------------------------------------------
(* From the struct to the text.                                            *)

LeafOf(type, v) ==
    CASE type = "Bool" -> BoolLeaf(v) [] type = "Int" -> IntLeaf(v) [] OTHER -> NumberLeaf(v)

\* The members of attr from the m-th on, each added if there is memory for it.
RECURSIVE WithMembers(_, _, _, _)
WithMembers(h, json, attr, m) ==
    IF m > Len(Members) THEN h
    ELSE WithMembers(AddToObject(h, json, Members[m].name,
                                 LeafOf(Members[m].type, attr[Members[m].field])).h,
                     json, attr, m + 1)

struct_to_json_thruster_attr(h, attr) ==
    LET Filled(json) == [h |-> WithMembers(json.h, json.r, attr, 1), r |-> json.r]
    IN  Filled(Create(h, Leaf("Object")))

RECURSIVE WithThrusters(_, _, _, _)
WithThrusters(h, json, params, i) ==
    IF i \notin Thruster THEN h
    ELSE LET Added(attr) == add_item_to_object(attr.h, json, ThrusterName(i), attr.r)
         IN  WithThrusters(Added(struct_to_json_thruster_attr(h, params[i])).h,
                           json, params, i + 1)

thruster_s2j(h, params) ==
    LET Filled(json) == [h |-> WithThrusters(json.h, json.r, params, 0), r |-> json.r]
    IN  IF params = NoParams THEN [h |-> h, r |-> NULL] ELSE Filled(Create(h, Leaf("Object")))

\* The first half of thruster_write_to_file: the text that goes to the file.
TextOf(h, params) ==
    LET Freed(out, json) ==
            [h |-> Delete(out.h, json), text |-> IF params = NoParams THEN NoText ELSE out.text]
        Printed(json) == Freed(cJSON_Print(json.h, json.r, TRUE), json.r)
    IN  Printed(thruster_s2j(h, params))

-----------------------------------------------------------------------------
(* From the text to the struct.                                            *)

\* What an int, a bool and a double take from an item.
AsIntField(n) == ((n.valueint + IntHalf) % (2 * IntHalf)) - IntHalf
AsBoolField(n) == IF n.valueint # 0 THEN 1 ELSE 0
AsItComes(type, n) == IF type = "Number" THEN n.valuedouble ELSE n.valueint
Taken(type, n) ==
    CASE type = "Bool" -> AsBoolField(n) [] type = "Int" -> AsIntField(n)
      [] OTHER -> n.valuedouble

\* A member that is missing stays zero; of whatever type it is, it is taken.
AttrFrom(h, json) == [f \in Fields |->
    LET m == CHOOSE m \in {Members[n] : n \in DOMAIN Members} : m.field = f
        item == GetObjectItem(h, json, m.name)
    IN  IF item = NULL THEN 0 ELSE Taken(m.type, h.nodes[item])]

\* json_to_struct_thruster_attr takes memory, unchecked: without it the members
\* go through a NULL pointer, and so does the copy.
RECURSIVE ThrustersFrom(_, _, _, _)
ThrustersFrom(h, json, i, params) ==
    LET item == GetObjectItem(h, json, ThrusterName(i))
    IN  IF i \notin Thruster THEN [h |-> h, params |-> params, crash |-> FALSE]
        ELSE IF item = NULL THEN ThrustersFrom(h, json, i + 1, params)
        ELSE IF Fails(h) THEN [h |-> h, params |-> params, crash |-> TRUE]
        ELSE ThrustersFrom(Spend(h), json, i + 1, [params EXCEPT ![i] = AttrFrom(h, item)])

thruster_j2s(h, json) ==
    IF json = NULL THEN [h |-> h, params |-> NoParams, crash |-> FALSE]
    ELSE IF Fails(h)
    THEN [h |-> Spend(h), params |-> NoParams,
          crash |-> \E i \in Thruster : GetObjectItem(h, json, ThrusterName(i)) # NULL]
    ELSE ThrustersFrom(Spend(h), json, 0, [i \in Thruster |-> ZeroAttr])

\* navi_read_from_file: an empty file counts as one that cannot be read.
ReadText(h, content) ==
    [h |-> Spend(h), text |-> IF Fails(h) \/ content = << >> THEN NoText ELSE content]

thruster_read_from_file(h, content) ==
    LET Parsed(read) == cJSON_Parse(read.h, read.text)
        Struct(json) == thruster_j2s(json.h, json.r)
    IN  Struct(Parsed(ReadText(h, content)))

-----------------------------------------------------------------------------
(* Both ways when the k-th allocation fails, or none if k is Never.        *)

Heap(k) == [NoHeap EXCEPT !.left = k]
Starved(k, h) == k # Never /\ h.left = Never

ThrustersRead(k, content) ==
    LET Outcome(read) == [params |-> read.params, crash |-> read.crash,
                          starved |-> Starved(k, read.h)]
    IN  Outcome(thruster_read_from_file(Heap(k), content))

DefaultWritten(k) ==
    LET Outcome(out) == [text |-> out.text, starved |-> Starved(k, out.h)]
        Text(init_val) == TextOf(init_val.h, init_val.params)
    IN  Outcome(Text(thruster_create_with_init_val(Heap(k))))
=============================================================================
