------------------------------- MODULE CjsonTree -------------------------------
(***************************************************************************)
(* The trees of cJSON.c: items that the program allocates, links, edits,   *)
(* copies, compares and frees.  Every operator takes the heap and gives    *)
(* the heap back, with a result where the function has one.                *)
(*                                                                         *)
(* The items are linked as in the code: a list runs along next, and the    *)
(* prev of its first item is its last one.  An allocation can fail: left   *)
(* says how many succeed before the next one that does not.                *)
(*                                                                         *)
(* A double is counted in tenths.  Strings are sequences of bytes, copied  *)
(* with the item that owns them.  References, constant keys, raw items and *)
(* user hooks, which the program does not use, are left out.               *)
(***************************************************************************)
EXTENDS Integers, Sequences, FiniteSets, TLC

CONSTANTS LongMax,      \* LLONG_MAX
          Infinity      \* the double, in tenths

NULL == 0
NoString == <<256>>                                        \* a NULL char *
Never == -1

NoHeap == [nodes |-> << >>, left |-> Never, fault |-> FALSE]

Blank == [type |-> "Invalid", valueint |-> 0, valuedouble |-> 0,
          valuestring |-> NoString, string |-> NoString,
          child |-> NULL, next |-> NULL, prev |-> NULL]

Live(h) == DOMAIN h.nodes
Set(h, item, field, value) == [h EXCEPT !.nodes[item][field] = value]

-----------------------------------------------------------------------------
(* Memory.                                                                 *)

Fails(h) == h.left = 0
Spend(h) == [h EXCEPT !.left = IF @ = Never THEN Never ELSE @ - 1]

\* The lowest free place: equal documents look the same.
Place(h) ==
    LET free == (1..(Cardinality(Live(h)) + 1)) \ Live(h)
    IN  CHOOSE i \in free : \A j \in free : i <= j

New_Item(h) ==
    LET new == Place(h)
    IN  IF Fails(h) THEN [h |-> Spend(h), r |-> NULL]
        ELSE [h |-> Spend([h EXCEPT !.nodes = (new :> Blank) @@ @]), r |-> new]

Free(h, item) == [h EXCEPT !.nodes = [i \in Live(h) \ {item} |-> @[i]]]

\* An item that is freed already is undefined behaviour, recorded as a fault.
RECURSIVE Delete(_, _)
Delete(h, item) ==
    CASE item = NULL -> h
      [] item # NULL /\ item \notin Live(h) -> [h EXCEPT !.fault = TRUE]
      [] OTHER -> Delete(Free(Delete(h, h.nodes[item].child), item), h.nodes[item].next)

-----------------------------------------------------------------------------
(* Items.                                                                  *)

\* A double as a long long: truncated, and saturated at both ends.
Whole(d) == IF d < 0 THEN -((-d) \div 10) ELSE d \div 10
Saturated(d) == IF Whole(d) > LongMax THEN LongMax
                ELSE IF Whole(d) < -LongMax - 1 THEN -LongMax - 1 ELSE Whole(d)

Leaf(type) == [Blank EXCEPT !.type = type]
NullLeaf == Leaf("NULL")
BoolWithoutInt(b) == Leaf("Bool")
BoolLeaf(b) == [Leaf("Bool") EXCEPT !.valueint = b]
IntLeaf(i) == [Leaf("Int") EXCEPT !.valueint = i, !.valuedouble = 10 * i]
NumberLeaf(d) == [Leaf("Number") EXCEPT !.valuedouble = d, !.valueint = Saturated(d)]
StringLeaf(s) == [Leaf("String") EXCEPT !.valuestring = s]

Create(h, leaf) ==
    LET new == New_Item(h)
        filled == [new.h EXCEPT !.nodes[new.r] = leaf]
    IN  IF new.r = NULL THEN new
        ELSE IF leaf.type # "String" THEN [h |-> filled, r |-> new.r]
        ELSE IF Fails(filled) THEN [h |-> Delete(Spend(new.h), new.r), r |-> NULL]
        ELSE [h |-> Spend(filled), r |-> new.r]

-----------------------------------------------------------------------------
(* Looking up.                                                             *)

RECURSIVE Chain(_, _)
\* The items from item on, along next.
Chain(h, item) ==
    IF item = NULL THEN << >> ELSE <<item>> \o Chain(h, h.nodes[item].next)

Children(h, parent) == Chain(h, h.nodes[parent].child)

GetArraySize(h, array) == IF array = NULL THEN 0 ELSE Len(Children(h, array))

get_array_item(h, array, index) ==
    IF array = NULL THEN NULL
    ELSE LET c == Children(h, array)
         IN  IF index >= 0 /\ index < Len(c) THEN c[index + 1] ELSE NULL

tolower(c) == IF c \in 65..90 THEN c + 32 ELSE c
Lowered(s) == [i \in DOMAIN s |-> tolower(s[i])]

\* Two NULL strings are not equal.
SameName(s, t, case_sensitive) ==
    /\ s # NoString /\ t # NoString
    /\ IF case_sensitive THEN s = t ELSE Lowered(s) = Lowered(t)

\* With regard to case the search ends at the first item without a name.
get_object_item(h, object, name, case_sensitive) ==
    IF object = NULL \/ name = NoString THEN NULL
    ELSE LET c == Children(h, object)
             Stops(i) == \/ SameName(name, h.nodes[c[i]].string, case_sensitive)
                         \/ case_sensitive /\ h.nodes[c[i]].string = NoString
             hits == {i \in DOMAIN c : Stops(i)}
             first == c[CHOOSE i \in hits : \A j \in hits : i <= j]
         IN  IF hits = {} \/ h.nodes[first].string = NoString THEN NULL ELSE first

GetObjectItem(h, object, name) == get_object_item(h, object, name, FALSE)

-----------------------------------------------------------------------------
(* Adding.                                                                 *)

suffix_object(h, prev, item) == Set(Set(h, prev, "next", item), item, "prev", prev)

add_item_to_array(h, array, item) ==
    LET child == h.nodes[array].child
        last == h.nodes[child].prev
    IN  IF item = NULL \/ array = NULL \/ array = item THEN [h |-> h, ok |-> FALSE]
        ELSE IF child = NULL
        THEN [h |-> Set(Set(Set(h, array, "child", item), item, "prev", item),
                        item, "next", NULL), ok |-> TRUE]
        ELSE IF last = NULL THEN [h |-> h, ok |-> TRUE]
        ELSE [h |-> Set(suffix_object(h, last, item), child, "prev", item), ok |-> TRUE]

add_item_to_object(h, object, name, item) ==
    IF object = NULL \/ name = NoString \/ item = NULL \/ object = item
    THEN [h |-> h, ok |-> FALSE]
    ELSE IF Fails(h) THEN [h |-> Spend(h), ok |-> FALSE]         \* cJSON_strdup
    ELSE add_item_to_array(Set(Spend(h), item, "string", name), object, item)

\* cJSON_AddNullToObject and its kind: what could not be added is deleted.
AddToObject(h, object, name, leaf) ==
    LET new == Create(h, leaf)
        added == add_item_to_object(new.h, object, name, new.r)
    IN  IF added.ok THEN [h |-> added.h, r |-> new.r]
        ELSE [h |-> Delete(added.h, new.r), r |-> NULL]

RECURSIVE Appended(_, _, _, _)
\* The loop of cJSON_CreateIntArray and its kind: last is NULL at first.
Appended(h, array, last, leaves) ==
    LET new == Create(h, Head(leaves))
        linked == IF last = NULL THEN Set(new.h, array, "child", new.r)
                  ELSE suffix_object(new.h, last, new.r)
    IN  IF leaves = << >>
        THEN [h |-> IF last = NULL THEN h ELSE Set(h, h.nodes[array].child, "prev", last),
              r |-> array]
        ELSE IF new.r = NULL THEN [h |-> Delete(new.h, array), r |-> NULL]
        ELSE Appended(linked, array, new.r, Tail(leaves))

CreateArrayOf(h, leaves) ==
    LET a == Create(h, Leaf("Array"))
    IN  IF a.r = NULL THEN a ELSE Appended(a.h, a.r, NULL, leaves)

-----------------------------------------------------------------------------
(* Taking out, inserting, replacing.                                       *)

DetachItemViaPointer(h, parent, item) ==
    IF parent = NULL \/ item = NULL THEN [h |-> h, r |-> NULL]
    ELSE LET n == h.nodes[item]
             first == item = h.nodes[parent].child
             h1 == IF first THEN h ELSE Set(h, n.prev, "next", n.next)
             h2 == IF n.next = NULL THEN h1 ELSE Set(h1, n.next, "prev", n.prev)
             h3 == IF first THEN Set(h2, parent, "child", n.next)
                   ELSE IF n.next = NULL
                   THEN Set(h2, h2.nodes[parent].child, "prev", n.prev)
                   ELSE h2
         IN  [h |-> Set(Set(h3, item, "prev", NULL), item, "next", NULL), r |-> item]

DetachItemFromArray(h, array, which) ==
    DetachItemViaPointer(h, array, get_array_item(h, array, which))

DetachItemFromObject(h, object, name, case_sensitive) ==
    DetachItemViaPointer(h, object, get_object_item(h, object, name, case_sensitive))

DeleteItemFromArray(h, array, which) ==
    LET d == DetachItemFromArray(h, array, which) IN Delete(d.h, d.r)

DeleteItemFromObject(h, object, name, case_sensitive) ==
    LET d == DetachItemFromObject(h, object, name, case_sensitive) IN Delete(d.h, d.r)

InsertItemInArray(h, array, which, new) ==
    LET after == get_array_item(h, array, which)
        before == h.nodes[after].prev
        h1 == Set(Set(Set(h, new, "next", after), new, "prev", before), after, "prev", new)
    IN  IF which < 0 THEN [h |-> h, ok |-> FALSE]
        ELSE IF after = NULL THEN add_item_to_array(h, array, new)
        ELSE [h |-> IF after = h.nodes[array].child THEN Set(h1, array, "child", new)
                    ELSE Set(h1, before, "next", new),
              ok |-> TRUE]

\* As below, but the head goes on leading to the item that was the last.
ReplaceForgetsTail(h, parent, item, new) ==
    LET n == h.nodes[item]
        head == h.nodes[parent].child
        h1 == Set(Set(h, new, "next", n.next), new, "prev", n.prev)
        h2 == IF n.next = NULL THEN h1 ELSE Set(h1, n.next, "prev", new)
        h3 == IF h2.nodes[head].prev = head THEN Set(h2, new, "prev", new) ELSE h2
        h4 == IF n.prev = NULL THEN h2 ELSE Set(h2, n.prev, "next", new)
        h5 == IF head = item THEN Set(h3, parent, "child", new) ELSE h4
        out == Set(Set(h5, item, "next", NULL), item, "prev", NULL)
    IN  IF parent = NULL \/ new = NULL \/ item = NULL THEN [h |-> h, ok |-> FALSE]
        ELSE IF new = item THEN [h |-> h, ok |-> TRUE]
        ELSE [h |-> Delete(out, item), ok |-> TRUE]

\* The last item has no next that leads back: the head's prev is kept in step.
ReplaceItemViaPointer(h, parent, item, new) ==
    LET n == h.nodes[item]
        head == h.nodes[parent].child
        h1 == Set(Set(h, new, "next", n.next), new, "prev", n.prev)
        h2 == IF n.next = NULL THEN h1 ELSE Set(h1, n.next, "prev", new)
        h3 == IF h2.nodes[head].prev = head THEN Set(h2, new, "prev", new) ELSE h2
        h4 == IF n.prev = NULL THEN h2 ELSE Set(h2, n.prev, "next", new)
        h5 == IF head = item THEN Set(h3, parent, "child", new)
              ELSE IF n.next = NULL THEN Set(h4, head, "prev", new) ELSE h4
        out == Set(Set(h5, item, "next", NULL), item, "prev", NULL)
    IN  IF parent = NULL \/ new = NULL \/ item = NULL THEN [h |-> h, ok |-> FALSE]
        ELSE IF new = item THEN [h |-> h, ok |-> TRUE]
        ELSE [h |-> Delete(out, item), ok |-> TRUE]

ReplaceItemInArray(h, array, which, new) ==
    IF which < 0 THEN [h |-> h, ok |-> FALSE]
    ELSE ReplaceItemViaPointer(h, array, get_array_item(h, array, which), new)

\* The new item is renamed first, found or not; a name that could not be copied
\* leaves it without one.
replace_item_in_object(h, object, name, new, case_sensitive) ==
    LET copy == IF Fails(h) THEN NoString ELSE name
        named == Set(Spend(h), new, "string", copy)
    IN  IF new = NULL \/ name = NoString THEN [h |-> h, ok |-> FALSE]
        ELSE ReplaceItemViaPointer(named, object,
                 get_object_item(named, object, name, case_sensitive), new)

-----------------------------------------------------------------------------
(* Copying and comparing.                                                  *)

RECURSIVE Duplicate(_, _, _), DuplicateChain(_, _, _, _)
Duplicate(h, item, recurse) ==
    LET n == h.nodes[item]
        new == New_Item(h)
        copy == [n EXCEPT !.child = NULL, !.next = NULL, !.prev = NULL]
        strings == {f \in {"valuestring", "string"} : n[f] # NoString}
        h1 == [new.h EXCEPT !.nodes[new.r] = copy]
        Short == h1.left # Never /\ h1.left < Cardinality(strings)
        h2 == IF Cardinality(strings) = 2 THEN Spend(Spend(h1))
              ELSE IF strings = {} THEN h1 ELSE Spend(h1)
    IN  IF item = NULL THEN [h |-> h, r |-> NULL]
        ELSE IF new.r = NULL THEN new
        ELSE IF Short THEN [h |-> Delete([h1 EXCEPT !.left = Never], new.r), r |-> NULL]
        ELSE IF recurse THEN DuplicateChain(h2, new.r, NULL, n.child)
        ELSE [h |-> h2, r |-> new.r]

DuplicateChain(h, new, last, child) ==
    IF child = NULL
    THEN [h |-> IF last = NULL THEN h ELSE Set(h, h.nodes[new].child, "prev", last),
          r |-> new]
    ELSE LET c == Duplicate(h, child, TRUE)
             linked == IF last = NULL THEN Set(c.h, new, "child", c.r)
                       ELSE suffix_object(c.h, last, c.r)
         IN  IF c.r = NULL THEN [h |-> Delete(c.h, new), r |-> NULL]
             ELSE DuplicateChain(linked, new, c.r, h.nodes[child].next)

\* Two infinities differ, and one is as good as any finite number.
compare_double(a, b) ==
    IF a \in {Infinity, -Infinity} \/ b \in {Infinity, -Infinity} THEN a # b ELSE a = b

RECURSIVE Compare(_, _, _, _)
\* Every child of a has its equal among those of b.
Covers(h, a, b, case_sensitive) ==
    LET c == Children(h, a)
    IN  \A i \in DOMAIN c :
            LET twin == get_object_item(h, b, h.nodes[c[i]].string, case_sensitive)
            IN  twin # NULL /\ Compare(h, c[i], twin, case_sensitive)

SameMembersInTurn(h, a, b, case_sensitive) ==
    LET c == Children(h, a)
        d == Children(h, b)
        Twins(i) == /\ SameName(h.nodes[c[i]].string, h.nodes[d[i]].string, case_sensitive)
                    /\ Compare(h, c[i], d[i], case_sensitive)
    IN  Len(c) = Len(d) /\ \A i \in DOMAIN c : Twins(i)
SameMembers(h, a, b, case_sensitive) ==
    Covers(h, a, b, case_sensitive) /\ Covers(h, b, a, case_sensitive)

Compare(h, a, b, case_sensitive) ==
    LET m == h.nodes[a]
        n == h.nodes[b]
        as == Children(h, a)
        bs == Children(h, b)
        Numbers == {m.type, n.type} = {"Int", "Number"}
        type == IF Numbers THEN "Number" ELSE m.type
    IN  IF a = NULL \/ b = NULL THEN FALSE
        ELSE /\ m.type # "Invalid"
             /\ m.type = n.type \/ Numbers
             /\ \/ a = b
                \/ type = "NULL"
                \/ type \in {"Bool", "Int"} /\ m.valueint = n.valueint
                \/ type = "Number" /\ compare_double(m.valuedouble, n.valuedouble)
                \/ /\ type = "String"
                   /\ m.valuestring # NoString /\ m.valuestring = n.valuestring
                \/ /\ type = "Array" /\ Len(as) = Len(bs)
                   /\ \A i \in DOMAIN as : Compare(h, as[i], bs[i], case_sensitive)
                \/ type = "Object" /\ SameMembers(h, a, b, case_sensitive)
=============================================================================
