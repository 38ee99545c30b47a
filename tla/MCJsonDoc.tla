------------------------------- MODULE MCJsonDoc -------------------------------
(* Documents of a few items for model checking JsonDoc.                    *)
EXTENDS JsonDoc

RECURSIVE Preorder(_)
\* An item and all below it.
Preorder(item) ==
    LET RECURSIVE All(_)
        All(items) == IF items = << >> THEN << >>
                      ELSE Preorder(Head(items)) \o All(Tail(items))
    IN  <<item>> \o All(Children(heap, item))

RECURSIVE InTurn(_)
\* Small documents first.
InTurn(roots) ==
    IF roots = {} THEN << >>
    ELSE LET Before(r, q) == \/ Len(Preorder(r)) < Len(Preorder(q))
                             \/ Len(Preorder(r)) = Len(Preorder(q)) /\ r <= q
             r == CHOOSE r \in roots : \A q \in roots : Before(r, q)
         IN  Preorder(r) \o InTurn(roots \ {r})

\* A view of the documents in which an item's address is its place among them:
\* neither the addresses nor the call before make a difference to what follows.
documents ==
    LET order == InTurn(held)
        places == {<<order[k], k>> : k \in DOMAIN order}
        At(i) == IF \E p \in places : p[1] = i
                     THEN (CHOOSE p \in places : p[1] = i)[2] ELSE -i
    IN  <<[k \in DOMAIN order |->
               LET n == heap.nodes[order[k]]
               IN  [n EXCEPT !.child = At(@), !.next = At(@), !.prev = At(@)]],
          {At(r) : r \in held}, heap.fault, Cardinality(Live(heap))>>

\* A quote, a control character and a letter: both kinds of escape.
Plain == <<34, 1, 97>>
Other == <<98>>
MCNames == {Plain, Other}
\* A third name, that only case tells from the first.
MCLookups == MCNames \union {<<34, 1, 65>>}

\* Two values of every type that has any, and of the numbers one that reads back
\* as an integer (2.0) and one that does not (1.5).
MCLeaves == {Leaf("Object"), NullLeaf, BoolLeaf(0), BoolLeaf(1), NumberLeaf(15), NumberLeaf(20),
             StringLeaf(<< >>), StringLeaf(<<10, 92>>)}
MCIntArrays == {<<1, 2>>}

Present(h) == {h.nodes[i] : i \in Live(h)}
TypesIn(h) == {n.type : n \in Present(h)}

\* What nests: four items, arrays among them.
Shapes(h) ==
    /\ TypesIn(h) \subseteq {"Object", "Array", "Int"}
    /\ \A n \in Present(h) : n.string # Other
    /\ \/ Cardinality(Live(h)) <= 3
       \/ /\ Cardinality(Live(h)) = 4
          /\ Cardinality({i \in Live(h) : h.nodes[i].string # NoString}) <= 1

\* Values of all types: three items.
Mixed(h) == Cardinality(Live(h)) <= 3 /\ "Array" \notin TypesIn(h)

\* Members in any order: two objects of two members, of one type of value.
Flat(h) ==
    /\ Cardinality(Live(h)) <= 6
    /\ \E kind \in {{"Bool"}, {"Int", "Number"}, {"String"}} :
           TypesIn(h) \subseteq kind \union {"Object"}
    /\ \A i \in Live(h) : h.nodes[i].type = "Object" =>
           LET c == Children(h, i)
           IN  /\ h.nodes[i].string = NoString
               /\ Len(c) <= 2 /\ \A k \in DOMAIN c : h.nodes[c[k]].string \in MCNames

MCRoom(h) == Shapes(h) \/ Mixed(h) \/ Flat(h)
=============================================================================
