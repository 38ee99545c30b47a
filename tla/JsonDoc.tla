-------------------------------- MODULE JsonDoc --------------------------------
(***************************************************************************)
(* A program that keeps JSON documents with cJSON, and what it may rely    *)
(* on.  It holds the roots of the documents and calls the functions of     *)
(* CjsonTree and CjsonText on them, one at a time, as their header allows: *)
(* an item is added to one place only, and not below itself.  In every     *)
(* call one allocation may fail.                                           *)
(***************************************************************************)
EXTENDS CjsonText

CONSTANTS
    Leaves,           \* the leaves it makes
    Names,            \* the names it gives
    Lookups,          \* the names it looks for
    IntArrays,        \* the arrays of numbers it makes
    Room(_),          \* bound: the heaps of a run
    MaxDocuments,     \* bound: documents held
    MaxAllocations    \* bound: which allocation of a call can fail

VARIABLES
    heap,     \* every item there is
    held,     \* the roots
    call      \* history: the last call, its name and its arguments

vars == <<heap, held, call>>

\* The allocations that can fail in a call that makes n of them at most.
FailAt(n) == {Never} \union {k \in 0..(MaxAllocations - 1) : k < n}
\* An item, and the copy of its string.
Allocations(leaf) == IF leaf.type = "String" THEN 2 ELSE 1
Calls(c) == call' = c
Trying(k) == [heap EXCEPT !.left = k]
\* The heap after a call in which the allocation that was to fail did.
Becomes(h) == h.left = Never /\ Room(h) /\ heap' = h
Holds(roots) == held' = roots \ {NULL} /\ Cardinality(held') <= MaxDocuments
RoomForOne == Cardinality(held) < MaxDocuments

RECURSIVE Within(_, _)
\* item and all below it.
Within(h, item) ==
    LET c == Children(h, item)
    IN  {item} \union UNION {Within(h, c[i]) : i \in DOMAIN c}

Items == UNION {Within(heap, r) : r \in held}
OfType(type) == {t \in Items : heap.nodes[t].type = type}
Apart(t, r) == t \notin Within(heap, r)
\* The places of an array's items, and the one behind them.
Indexes(array) == 0..GetArraySize(heap, array)

Init == heap = NoHeap /\ held = {} /\ call = <<"none">>

-----------------------------------------------------------------------------
MakeLeaf(leaf, k) ==
    LET made == Create(Trying(k), leaf)
    IN  /\ RoomForOne
        /\ Calls(<<"MakeLeaf", leaf, k>>)
        /\ Becomes(made.h)
        /\ Holds(held \union {made.r})

MakeArray(numbers, k) ==
    LET made == CreateArrayOf(Trying(k), [i \in DOMAIN numbers |-> IntLeaf(numbers[i])])
    IN  /\ RoomForOne
        /\ Calls(<<"MakeArray", numbers, k>>)
        /\ Becomes(made.h)
        /\ Holds(held \union {made.r})

AddItemToArray(t, r) ==
    LET added == add_item_to_array(heap, t, r)
    IN  /\ Apart(t, r)
        /\ Calls(<<"AddItemToArray", t, r>>)
        /\ Becomes(added.h)
        /\ held' = held \ {r}

AddItemToObject(t, name, r, k) ==
    LET added == add_item_to_object(Trying(k), t, name, r)
    IN  /\ Apart(t, r)
        /\ Calls(<<"AddItemToObject", t, name, r, k>>)
        /\ Becomes(added.h)
        /\ held' = IF added.ok THEN held \ {r} ELSE held

AddLeafToObject(t, name, leaf, k) ==
    /\ Calls(<<"AddLeafToObject", t, name, leaf, k>>)
    /\ Becomes(AddToObject(Trying(k), t, name, leaf).h)
    /\ UNCHANGED held

InsertItem(t, which, r) ==
    LET inserted == InsertItemInArray(heap, t, which, r)
    IN  /\ Apart(t, r)
        /\ Calls(<<"InsertItem", t, which, r>>)
        /\ Becomes(inserted.h)
        /\ held' = held \ {r}

ReplaceItem(t, which, r) ==
    LET replaced == ReplaceItemInArray(heap, t, which, r)
    IN  /\ Apart(t, r)
        /\ Calls(<<"ReplaceItem", t, which, r>>)
        /\ Becomes(replaced.h)
        /\ held' = IF replaced.ok THEN held \ {r} ELSE held

ReplaceMember(t, name, r, case_sensitive, k) ==
    LET replaced == replace_item_in_object(Trying(k), t, name, r, case_sensitive)
    IN  /\ Apart(t, r)
        /\ Calls(<<"ReplaceMember", t, name, r, case_sensitive, k>>)
        /\ Becomes(replaced.h)
        /\ held' = IF replaced.ok THEN held \ {r} ELSE held

DetachItem(t, which) ==
    LET out == DetachItemFromArray(heap, t, which)
    IN  /\ out.r # NULL
        /\ Calls(<<"DetachItem", t, which>>)
        /\ Becomes(out.h)
        /\ Holds(held \union {out.r})

DetachMember(t, name, case_sensitive) ==
    LET out == DetachItemFromObject(heap, t, name, case_sensitive)
    IN  /\ out.r # NULL
        /\ Calls(<<"DetachMember", t, name, case_sensitive>>)
        /\ Becomes(out.h)
        /\ Holds(held \union {out.r})

DeleteItem(t, which) ==
    /\ Calls(<<"DeleteItem", t, which>>)
    /\ Becomes(DeleteItemFromArray(heap, t, which))
    /\ UNCHANGED held

DeleteMember(t, name, case_sensitive) ==
    /\ Calls(<<"DeleteMember", t, name, case_sensitive>>)
    /\ Becomes(DeleteItemFromObject(heap, t, name, case_sensitive))
    /\ UNCHANGED held

DeleteDocument(r) ==
    /\ Calls(<<"DeleteDocument", r>>)
    /\ Becomes(Delete(heap, r))
    /\ held' = held \ {r}

CopyItem(item, recurse, k) ==
    LET copy == Duplicate(Trying(k), item, recurse)
    IN  /\ RoomForOne
        /\ Calls(<<"CopyItem", item, recurse, k>>)
        /\ Becomes(copy.h)
        /\ Holds(held \union {copy.r})

\* Printed, and parsed from the text.
CopyThroughText(item, format, k) ==
    LET out == cJSON_Print(Trying(k), item, format)
        back == ParseWithOpts(out.h, out.text, TRUE)
    IN  /\ RoomForOne
        /\ Calls(<<"CopyThroughText", item, format, k>>)
        /\ Becomes(back.h)
        /\ Holds(held \union {back.r})

Make ==
    \/ \E leaf \in Leaves : \E k \in FailAt(Allocations(leaf)) : MakeLeaf(leaf, k)
    \/ \E numbers \in IntArrays : \E k \in FailAt(Len(numbers) + 1) : MakeArray(numbers, k)

Add ==
    \/ \E t \in OfType("Array"), r \in held : AddItemToArray(t, r)
    \/ \E t \in OfType("Object"), name \in Names, r \in held, k \in FailAt(1) :
           AddItemToObject(t, name, r, k)
    \/ \E t \in OfType("Object"), name \in Names, leaf \in Leaves :
           \E k \in FailAt(Allocations(leaf) + 1) : AddLeafToObject(t, name, leaf, k)

Change ==
    \/ \E t \in OfType("Array") : \E which \in Indexes(t), r \in held : InsertItem(t, which, r)
    \/ \E t \in OfType("Array") : \E which \in Indexes(t), r \in held : ReplaceItem(t, which, r)
    \/ \E t \in OfType("Object"), name \in Names, r \in held, c \in BOOLEAN, k \in FailAt(1) :
           ReplaceMember(t, name, r, c, k)

Lose ==
    \/ \E t \in OfType("Array") : \E which \in Indexes(t) : DetachItem(t, which)
    \/ \E t \in OfType("Object"), name \in Lookups, c \in BOOLEAN : DetachMember(t, name, c)
    \/ \E t \in OfType("Array") : \E which \in Indexes(t) : DeleteItem(t, which)
    \/ \E t \in OfType("Object"), name \in Lookups, c \in BOOLEAN : DeleteMember(t, name, c)
    \/ \E r \in held : DeleteDocument(r)

CopyIt ==
    \/ \E item \in Items, recurse \in BOOLEAN, k \in FailAt(MaxAllocations) : CopyItem(item, recurse, k)
    \/ \E item \in Items, format \in BOOLEAN, k \in FailAt(MaxAllocations) : CopyThroughText(item, format, k)

Next == Make \/ Add \/ Change \/ Lose \/ CopyIt

Spec == Init /\ [][Next]_vars

-----------------------------------------------------------------------------
(* Documents as values.                                                    *)

RECURSIVE Value(_, _)
Value(h, item) ==
    LET n == h.nodes[item]
        c == Children(h, item)
    IN  [type |-> n.type, i |-> n.valueint, d |-> n.valuedouble, s |-> n.valuestring,
         name |-> n.string, kids |-> [j \in DOMAIN c |-> Value(h, c[j])]]

RECURSIVE ValueWith(_, _, _, _)
\* The value of item if the children of t were kids.
ValueWith(h, item, t, kids) ==
    LET c == Children(h, item)
    IN  [Value(h, item) EXCEPT !.kids =
            IF item = t THEN kids ELSE [j \in DOMAIN c |-> ValueWith(h, c[j], t, kids)]]

Docs == [r \in held |-> Value(heap, r)]
Kids(t) == Value(heap, t).kids
WithKids(t, kids) == [r \in held |-> ValueWith(heap, r, t, kids)]
Without(docs, r) == [s \in DOMAIN docs \ {r} |-> docs[s]]
Named(r, name) == [Value(heap, r) EXCEPT !.name = name]
InsertedAt(s, i, v) == SubSeq(s, 1, i - 1) \o <<v>> \o SubSeq(s, i, Len(s))
CutAt(s, i) == SubSeq(s, 1, i - 1) \o SubSeq(s, i + 1, Len(s))

\* The member that goes by a name, 0 if none does: the first one.  A search with
\* regard to case does not get past a member without a name.
Member(t, name, case_sensitive) ==
    LET kids == Kids(t)
        hits == {i \in DOMAIN kids :
                     /\ SameName(kids[i].name, name, case_sensitive)
                     /\ case_sensitive => \A j \in 1..i : kids[j].name # NoString}
    IN  IF hits = {} THEN 0 ELSE CHOOSE i \in hits : \A j \in hits : i <= j

RECURSIVE Reread(_, _)
\* What a value is after a trip through a text.  inObject: as a member.
Reread(v, inObject) ==
    LET w == [v EXCEPT !.kids = [j \in DOMAIN @ |-> Reread(@[j], v.type = "Object")],
                       !.name = IF ~inObject THEN NoString
                                ELSE IF @ = NoString THEN << >> ELSE @]
        spelled == v.d % 10 = 0 /\ v.d < ExponentFrom /\ v.d > -ExponentFrom
    IN  IF v.type # "Number" THEN w
        ELSE IF v.d \in {Infinity, -Infinity}
        THEN [w EXCEPT !.type = "NULL", !.d = 0, !.i = 0]
        ELSE IF spelled THEN [w EXCEPT !.type = "Int"] ELSE w

RECURSIVE Distinct(_, _), Equal(_, _, _)
\* No two members of an object go by the same name, and all have one.
Distinct(v, case_sensitive) ==
    /\ \A i \in DOMAIN v.kids : Distinct(v.kids[i], case_sensitive)
    /\ v.type = "Object" =>
           \A i, j \in DOMAIN v.kids :
               SameName(v.kids[i].name, v.kids[j].name, case_sensitive) <=> i = j

Equal(v, w, case_sensitive) ==
    \/ v.type = w.type /\ v.type = "NULL"
    \/ v.type = w.type /\ v.type \in {"Bool", "Int"} /\ v.i = w.i
    \/ v.type = w.type /\ v.type = "String" /\ v.s = w.s
    \/ /\ {v.type, w.type} \in {{"Number"}, {"Int", "Number"}}
       /\ v.d = w.d
    \/ /\ v.type = w.type /\ v.type \in {"Array", "Object"}
       /\ Len(v.kids) = Len(w.kids)
       /\ \A i \in DOMAIN v.kids :
              IF v.type = "Array" THEN Equal(v.kids[i], w.kids[i], case_sensitive)
              ELSE \E j \in DOMAIN w.kids :
                       /\ SameName(v.kids[i].name, w.kids[j].name, case_sensitive)
                       /\ Equal(v.kids[i], w.kids[j], case_sensitive)

RECURSIVE Nesting(_)
\* How deep arrays and objects go.
Nesting(v) ==
    LET below == {Nesting(v.kids[i]) : i \in DOMAIN v.kids}
        deepest == CHOOSE n \in below \union {0} : \A m \in below : m <= n
    IN  IF v.type \in {"Array", "Object"} THEN deepest + 1 ELSE 0

RECURSIVE AllFinite(_)
AllFinite(v) ==
    v.d \notin {Infinity, -Infinity} /\ \A i \in DOMAIN v.kids : AllFinite(v.kids[i])

-----------------------------------------------------------------------------
(* Properties.                                                             *)

Types == {"NULL", "Bool", "Int", "Number", "String", "Array", "Object"}

\* Types, and the shape of the heap (cJSON.c:264-286, 1957-2025, 2228-2417): the
\* prev of a list leads back, the head's to the tail, a root is on no list, and
\* every live item is in exactly one document, at one place.
WellFormed ==
    /\ held \subseteq Live(heap)
    /\ ~heap.fault /\ heap.left = Never
    /\ \A i \in Live(heap) :
           LET n == heap.nodes[i]
           IN  /\ n.type \in Types
               /\ n.child # NULL => n.type \in {"Array", "Object"}
               /\ {n.child, n.next, n.prev} \subseteq Live(heap) \union {NULL}
    /\ \A i \in Live(heap) : LET n == heap.nodes[i] IN
           /\ n.next # NULL => heap.nodes[n.next].prev = i
           /\ n.child # NULL => LET tail == heap.nodes[n.child].prev
                                IN  tail # NULL /\ heap.nodes[tail].next = NULL
    /\ \A r \in held : heap.nodes[r].next = NULL /\ heap.nodes[r].prev = NULL
    /\ Items = Live(heap)
    /\ \A i, j \in Live(heap) : \A c \in Live(heap) :
           /\ heap.nodes[i].child = c /\ heap.nodes[j].child = c => i = j
           /\ heap.nodes[i].next = c => heap.nodes[j].child # c

\* cJSON.c:3048-3192: two items compare equal if they are the same value, with
\* the members of an object in any order, as long as no two go by the same name.
ComparesValues ==
    \A a, b \in Items, c \in BOOLEAN :
        LET v == Value(heap, a)
            w == Value(heap, b)
        IN  a # b /\ Distinct(v, c) /\ Distinct(w, c) /\ AllFinite(v) /\ AllFinite(w)
                => (Compare(heap, a, b, c) <=> Equal(v, w, c))

\* Every item is where and what it was.
NothingHappened == UNCHANGED <<heap, held>>

\* A new document, or none where an allocation failed.
Gains(v, k) ==
    \/ k # Never /\ NothingHappened
    \/ \E r \in held' \ held : Docs' = Docs @@ (r :> v)

End(t) == Len(Kids(t)) + 1
Adds(t, i, r, name) ==
    Docs' = Without(WithKids(t, InsertedAt(Kids(t), i, Named(r, name))), r)
Swaps(t, i, r, name) ==
    Docs' = Without(WithKids(t, [Kids(t) EXCEPT ![i] = Named(r, name)]), r)
Cuts(t, i) == IF i \in DOMAIN Kids(t) THEN WithKids(t, CutAt(Kids(t), i)) ELSE Docs
Name(r) == heap.nodes[r].string
LeafValue(leaf, name) ==
    [type |-> leaf.type, i |-> leaf.valueint, d |-> leaf.valuedouble,
     s |-> leaf.valuestring, name |-> name, kids |-> << >>]

\* What a call promises of the documents after it.
Promise(c) ==
    CASE c[1] = "MakeLeaf" -> Gains(LeafValue(c[2], NoString), c[3])
      [] c[1] = "MakeArray" ->
             Gains([LeafValue(Leaf("Array"), NoString) EXCEPT
                        !.kids = [i \in DOMAIN c[2] |-> LeafValue(IntLeaf(c[2][i]), NoString)]],
                   c[3])
      [] c[1] = "AddItemToArray" -> Adds(c[2], End(c[2]), c[3], Name(c[3]))
      [] c[1] = "AddItemToObject" ->
             \/ c[5] # Never /\ NothingHappened
             \/ Adds(c[2], End(c[2]), c[4], c[3])
      [] c[1] = "AddLeafToObject" ->
             \/ c[5] # Never /\ NothingHappened
             \/ Docs' = WithKids(c[2], Append(Kids(c[2]), LeafValue(c[4], c[3])))
      [] c[1] = "InsertItem" ->
             Adds(c[2], IF c[3] < End(c[2]) THEN c[3] + 1 ELSE End(c[2]), c[4], Name(c[4]))
      [] c[1] = "ReplaceItem" ->
             IF c[3] + 1 < End(c[2]) THEN Swaps(c[2], c[3] + 1, c[4], Name(c[4]))
             ELSE Docs' = Docs
      [] c[1] = "ReplaceMember" ->
             LET i == Member(c[2], c[3], c[5])
             IN  \E name \in {c[3]} \union IF c[6] = Never THEN {} ELSE {NoString} :
                     IF i # 0 THEN Swaps(c[2], i, c[4], name)
                     ELSE Docs' = [Docs EXCEPT ![c[4]] = Named(c[4], name)]
      [] c[1] = "DetachItem" ->
             \E s \in held' : Docs' = Cuts(c[2], c[3] + 1) @@ (s :> Kids(c[2])[c[3] + 1])
      [] c[1] = "DetachMember" ->
             LET i == Member(c[2], c[3], c[4])
             IN  \E s \in held' : Docs' = Cuts(c[2], i) @@ (s :> Kids(c[2])[i])
      [] c[1] = "DeleteItem" -> Docs' = Cuts(c[2], c[3] + 1)
      [] c[1] = "DeleteMember" -> Docs' = Cuts(c[2], Member(c[2], c[3], c[4]))
      [] c[1] = "DeleteDocument" -> Docs' = Without(Docs, c[2])
      [] c[1] = "CopyItem" ->
             LET v == Value(heap, c[2])
             IN  Gains(IF c[3] THEN v ELSE [v EXCEPT !.kids = << >>], c[4])
      [] c[1] = "CopyThroughText" ->
             LET v == Value(heap, c[2])
             IN  IF Nesting(v) > NestingLimit THEN Docs' = Docs
                 ELSE Gains(Reread(v, FALSE), c[4])

\* Every call does to one document what an edit of a sequence does to the list
\* of children at one place, and nothing to the others; a text that is printed
\* reads back as the value it was printed from, unless it is nested deeper than
\* the parser goes; and a call in which an allocation fails changes no value, but
\* for the name of a replacement (cJSON.c:1107-3192).
ActsOnValues == [][Promise(call')]_vars
=============================================================================
