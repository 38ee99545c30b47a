----------------------------- MODULE MjsonRpcProofs -----------------------------
(***************************************************************************)
(* The method table of MjsonRpc, for any names, functions, arguments and   *)
(* batches, through any number of additions.                               *)
(***************************************************************************)
EXTENDS MjsonRpc, Induction, SequenceTheorems, TLAPS

TableOK ==
    /\ cb_count \in Nat
    /\ cb_array \in Seq(Slot \union {Wild})
    /\ Len(cb_array) <= cb_count
    /\ queue \in [Name -> Seq(Registration)]
    /\ adds \in Seq([arg : Arg \union {NoArg}, ok : BOOLEAN])
    /\ freed \in [Arg -> Nat]

\* g leads from the registrations of n to their slots, in the same order.
Leads(n, g) ==
    /\ g \in [DOMAIN queue[n] -> 1..cb_count]
    /\ \A k, l \in DOMAIN queue[n] : k < l => g[k] < g[l]
    /\ \A i \in SlotsOf(n) : \E k \in DOMAIN queue[n] : g[k] = i
    /\ \A k \in DOMAIN queue[n] :
          /\ g[k] \in SlotsOf(n)
          /\ cb_array[g[k]].function = queue[n][k].function
          /\ cb_array[g[k]].arg = queue[n][k].arg

InOrder == \A n \in Name : \E g : Leads(n, g)

Live(a) == \E n \in Name : \E k \in DOMAIN queue[n] : queue[n][k].arg = a
Given(a) == \E k \in DOMAIN adds : adds[k] = [arg |-> a, ok |-> TRUE]

\* An argument that is live was given, and has one registration; one that
\* was given and is not was freed.
ArgsInv ==
    /\ \A a \in Arg : Live(a) => Given(a)
    /\ \A n, m \in Name : \A k \in DOMAIN queue[n], l \in DOMAIN queue[m] :
          queue[n][k].arg = queue[m][l].arg /\ queue[n][k].arg # NoArg => n = m /\ k = l
    /\ \A a \in Arg : freed[a] = IF Given(a) /\ ~Live(a) THEN 1 ELSE 0

IInv == TableOK /\ (~faulted => InOrder /\ ArgsInv)

-----------------------------------------------------------------------------
(* Additions.                                                              *)

\* A slot of the array is wild or a method's.
LEMMA SlotTypes ==
    ASSUME TableOK, NEW i \in 1..cb_count, ~IsWild(i)
    PROVE  i \in 1..Len(cb_array) /\ cb_array[i] \in Slot
<1>1. cb_array \in [1..Len(cb_array) -> Slot \union {Wild}] /\ DOMAIN cb_array = 1..Len(cb_array)
  BY DEF TableOK
<1>2. QED BY <1>1 DEF IsWild

\* Growing the array leaves its slots as they are, and the new one wild.
LEMMA GrownProperties ==
    ASSUME TableOK
    PROVE  /\ Grown \in Seq(Slot \union {Wild})
           /\ Len(Grown) = cb_count + 1 /\ DOMAIN Grown = 1..(cb_count + 1)
           /\ \A i \in 1..cb_count : Grown[i] = IF IsWild(i) THEN Wild ELSE cb_array[i]
           /\ Grown[cb_count + 1] = Wild
<1>1. \A i \in 1..(cb_count + 1) :
          (IF i > cb_count \/ IsWild(i) THEN Wild ELSE cb_array[i]) \in Slot \union {Wild}
  BY SlotTypes DEF TableOK
<1>2. Grown \in [1..(cb_count + 1) -> Slot \union {Wild}]
  BY <1>1 DEF Grown
<1>3. cb_count + 1 \in Nat /\ cb_count \in Nat
  BY DEF TableOK
<1>4. Grown \in Seq(Slot \union {Wild}) /\ Len(Grown) = cb_count + 1
  BY <1>2, <1>3
<1>5. /\ \A i \in 1..cb_count : Grown[i] = IF IsWild(i) THEN Wild ELSE cb_array[i]
      /\ Grown[cb_count + 1] = Wild
  BY <1>3 DEF Grown
<1>6. QED BY <1>2, <1>4, <1>5

LEMMA AddKeepsTable ==
    ASSUME TableOK, NEW n \in Name, NEW f \in Function, NEW a \in Arg \union {NoArg}, AddMethod(n, f, a)
    PROVE  /\ TableOK'
           /\ cb_count' = cb_count + 1
           /\ \A i \in 1..cb_count :
                 IsWild(i)' = IsWild(i) /\ (~IsWild(i) => cb_array'[i] = cb_array[i])
           /\ \A c : c = cb_count + 1 =>
                 ~IsWild(c)' /\ cb_array'[c] = [name |-> n, function |-> f, arg |-> a]
<1> DEFINE slot == [name |-> n, function |-> f, arg |-> a]
<1>c. PICK c : c = cb_count + 1
  OBVIOUS
<1>1. /\ cb_array' = [Grown EXCEPT ![c] = slot] /\ cb_count' = c
      /\ queue' = [queue EXCEPT ![n] = Append(@, [function |-> f, arg |-> a])]
      /\ adds' = Append(adds, [arg |-> a, ok |-> TRUE]) /\ freed' = freed
  BY <1>c DEF AddMethod, Called
<1>2. slot \in Slot /\ slot # Wild /\ c \in Nat /\ c \in 1..c /\ cb_count \in Nat
  BY <1>c, TokenAssumption DEF Slot, TableOK
<1> HIDE DEF slot
<1>3. /\ cb_array' \in Seq(Slot \union {Wild}) /\ Len(cb_array') = c /\ DOMAIN cb_array' = 1..c
      /\ \A i \in 1..c : cb_array'[i] = IF i = c THEN slot ELSE Grown[i]
  <2>1. /\ Grown \in Seq(Slot \union {Wild}) /\ Len(Grown) = c
    BY <1>c, GrownProperties
  <2>2. QED BY <1>1, <1>2, <2>1, ExceptSeq
<1>4. \A i \in 1..cb_count : i \in 1..c /\ i # c
  BY <1>c, <1>2
<1>5. ASSUME NEW i \in 1..cb_count
      PROVE  IsWild(i)' = IsWild(i) /\ (~IsWild(i) => cb_array'[i] = cb_array[i])
  <2>1. cb_array'[i] = IF IsWild(i) THEN Wild ELSE cb_array[i]
    BY <1>3, <1>4, GrownProperties
  <2>2. IsWild(i)' = (cb_array'[i] = Wild)
    BY <1>3, <1>4 DEF IsWild
  <2>3. QED BY <2>1, <2>2 DEF IsWild
<1>6. ~IsWild(c)' /\ cb_array'[c] = slot
  BY <1>2, <1>3 DEF IsWild
<1>7. TableOK'
  <2>1. [function |-> f, arg |-> a] \in Registration
    BY DEF Registration
  <2>2. queue' \in [Name -> Seq(Registration)]
    <3>1. Append(queue[n], [function |-> f, arg |-> a]) \in Seq(Registration)
      BY <2>1, AppendProperties DEF TableOK
    <3>2. QED BY <1>1, <3>1 DEF TableOK
  <2>3. adds' \in Seq([arg : Arg \union {NoArg}, ok : BOOLEAN])
    <3>1. [arg |-> a, ok |-> TRUE] \in [arg : Arg \union {NoArg}, ok : BOOLEAN]
      OBVIOUS
    <3>2. QED BY <1>1, <3>1, AppendProperties DEF TableOK
  <2>4. QED BY <1>1, <1>2, <1>3, <2>2, <2>3 DEF TableOK
<1>8. QED BY <1>c, <1>1, <1>5, <1>6, <1>7 DEF slot

\* The new registration is the last of its name, and so is its slot.
LEMMA AddKeepsOrder ==
    ASSUME TableOK, InOrder, NEW n \in Name, NEW f \in Function, NEW a \in Arg \union {NoArg},
           AddMethod(n, f, a)
    PROVE  InOrder'
<1>c. PICK c : c = cb_count + 1
  OBVIOUS
<1>1. /\ cb_count' = c /\ cb_count \in Nat
      /\ \A i \in 1..cb_count :
            IsWild(i)' = IsWild(i) /\ (~IsWild(i) => cb_array'[i] = cb_array[i])
      /\ ~IsWild(c)'
      /\ cb_array'[c] = [name |-> n, function |-> f, arg |-> a]
  BY <1>c, AddKeepsTable DEF TableOK
<1>3. \A i \in 1..c : i \in 1..cb_count \/ i = c
  BY <1>1, <1>c
<1>4. \A m : SlotsOf(m)' = {i \in 1..c : ~IsWild(i)' /\ cb_array'[i].name = m}
  BY <1>1 DEF SlotsOf
<1>5. /\ \A m : m # n => SlotsOf(m)' = SlotsOf(m)
      /\ SlotsOf(n)' = SlotsOf(n) \union {c}
  <2>1. \A m : \A i \in 1..cb_count : i \in SlotsOf(m)' <=> i \in SlotsOf(m)
    BY <1>1, <1>c, <1>4 DEF SlotsOf
  <2>2. \A m : c \in SlotsOf(m)' <=> m = n
    BY <1>1, <1>c, <1>4
  <2>3. \A m : SlotsOf(m) \subseteq 1..cb_count /\ SlotsOf(m)' \subseteq 1..c
    BY <1>4 DEF SlotsOf
  <2>4. c \notin 1..cb_count
    BY <1>1, <1>c
  <2>5. QED BY <1>3, <2>1, <2>2, <2>3, <2>4
<1>6. \A m : \A i \in SlotsOf(m) : cb_array'[i] = cb_array[i] /\ i \in 1..cb_count
  BY <1>1 DEF SlotsOf
<1>7. \A m \in Name : m # n => queue'[m] = queue[m]
  BY DEF AddMethod, TableOK
<1>8. ASSUME NEW m \in Name, m # n PROVE \E g : Leads(m, g)'
  <2>1. PICK g : Leads(m, g)
    BY DEF InOrder
  <2>2. \A i \in 1..cb_count : i \in 1..c
    BY <1>1, <1>c
  <2>3. Leads(m, g)'
    BY <1>1, <1>5, <1>6, <1>7, <1>8, <2>1, <2>2 DEF Leads
  <2>4. QED BY <2>3
<1>9. \E g : Leads(n, g)'
  <2>1. PICK g : Leads(n, g)
    BY DEF InOrder
  <2> DEFINE q == queue[n]
  <2>2. q \in Seq(Registration) /\ Len(q) \in Nat /\ DOMAIN q = 1..Len(q)
    BY DEF TableOK
  <2>3. queue'[n] = Append(q, [function |-> f, arg |-> a])
    BY DEF AddMethod, TableOK
  <2>4. [function |-> f, arg |-> a] \in Registration
    BY DEF Registration
  <2> HIDE DEF q
  <2>5. /\ DOMAIN queue'[n] = 1..(Len(q) + 1)
        /\ \A k \in 1..Len(q) : queue'[n][k] = q[k]
        /\ queue'[n][Len(q) + 1] = [function |-> f, arg |-> a]
    BY <2>2, <2>3, <2>4, AppendProperties
  <2>h. PICK h : h = [k \in 1..(Len(q) + 1) |-> IF k <= Len(q) THEN g[k] ELSE c]
    OBVIOUS
  <2>6. /\ \A k \in 1..Len(q) : h[k] = g[k]
        /\ h[Len(q) + 1] = c
        /\ \A k \in 1..(Len(q) + 1) : k \in 1..Len(q) \/ k = Len(q) + 1
    BY <2>h, <2>2
  <2>7. /\ \A k \in 1..Len(q) : g[k] \in 1..cb_count
        /\ \A k, l \in 1..Len(q) : k < l => g[k] < g[l]
        /\ \A i \in SlotsOf(n) : \E k \in 1..Len(q) : g[k] = i
        /\ \A k \in 1..Len(q) : /\ g[k] \in SlotsOf(n)
                                /\ cb_array[g[k]].function = q[k].function
                                /\ cb_array[g[k]].arg = q[k].arg
    BY <2>1, <2>2 DEF Leads, q
  <2>8. h \in [1..(Len(q) + 1) -> 1..c]
    BY <1>1, <1>c, <2>h, <2>2, <2>7
  <2>9. \A k, l \in 1..(Len(q) + 1) : k < l => h[k] < h[l]
    <3> SUFFICES ASSUME NEW k \in 1..(Len(q) + 1), NEW l \in 1..(Len(q) + 1), k < l
                 PROVE  h[k] < h[l]
      OBVIOUS
    <3>1. k \in 1..Len(q)
      BY <2>2
    <3>2. CASE l \in 1..Len(q)
      BY <2>6, <2>7, <3>1, <3>2
    <3>3. CASE l = Len(q) + 1
      <4>1. g[k] \in 1..cb_count /\ h[k] = g[k] /\ h[l] = c
        BY <2>6, <2>7, <3>1, <3>3
      <4>2. QED BY <1>1, <1>c, <4>1
    <3>4. QED BY <2>6, <3>2, <3>3
  <2>10. \A i \in SlotsOf(n)' : \E k \in 1..(Len(q) + 1) : h[k] = i
    <3>1. \A k \in 1..Len(q) : k \in 1..(Len(q) + 1)
      BY <2>2
    <3>2. Len(q) + 1 \in 1..(Len(q) + 1)
      BY <2>2
    <3>3. QED BY <1>5, <2>6, <2>7, <3>1, <3>2
  <2>11. ASSUME NEW k \in 1..(Len(q) + 1)
         PROVE  /\ h[k] \in SlotsOf(n)'
                /\ cb_array'[h[k]].function = queue'[n][k].function
                /\ cb_array'[h[k]].arg = queue'[n][k].arg
    <3>1. CASE k \in 1..Len(q)
      BY <1>5, <1>6, <2>5, <2>6, <2>7, <3>1
    <3>2. CASE k = Len(q) + 1
      BY <1>1, <1>5, <2>5, <2>6, <3>2
    <3>3. QED BY <2>6, <3>1, <3>2
  <2>12. Leads(n, h)'
    BY <1>1, <2>5, <2>8, <2>9, <2>10, <2>11 DEF Leads
  <2>13. QED BY <2>12
<1>10. QED BY <1>8, <1>9 DEF InOrder

\* An addition that failed counts a slot and leaves it wild.
LEMMA FailedAddKeeps ==
    ASSUME TableOK, InOrder, NEW a \in Arg \union {NoArg}, AddWithoutMemory(a)
    PROVE  TableOK' /\ InOrder'
<1>1. /\ cb_count' = cb_count + 1 /\ queue' = queue /\ freed' = freed
      /\ adds' = Append(adds, [arg |-> a, ok |-> FALSE])
      /\ cb_array' = cb_array \/ cb_array' = Grown
      /\ cb_count \in Nat
  BY DEF AddWithoutMemory, Called, TableOK
<1>2. TableOK'
  <2>1. [arg |-> a, ok |-> FALSE] \in [arg : Arg \union {NoArg}, ok : BOOLEAN]
    OBVIOUS
  <2>2. adds' \in Seq([arg : Arg \union {NoArg}, ok : BOOLEAN])
    BY <1>1, <2>1, AppendProperties DEF TableOK
  <2>3. cb_array' \in Seq(Slot \union {Wild}) /\ Len(cb_array') <= cb_count'
    BY <1>1, GrownProperties DEF TableOK
  <2>4. QED BY <1>1, <2>2, <2>3 DEF TableOK
<1>3. \A i \in 1..cb_count : IsWild(i)' = IsWild(i) /\ (~IsWild(i) => cb_array'[i] = cb_array[i])
  <2>1. CASE cb_array' = cb_array
    BY <2>1 DEF IsWild
  <2>2. CASE cb_array' = Grown
    <3>1. \A i \in 1..cb_count : i \in DOMAIN Grown /\ Grown[i] = IF IsWild(i) THEN Wild ELSE cb_array[i]
      BY <1>1, GrownProperties
    <3>2. QED BY <2>2, <3>1 DEF IsWild
  <2>3. QED BY <1>1, <2>1, <2>2
<1>4. \A i : i = cb_count + 1 => IsWild(i)'
  <2>1. CASE cb_array' = cb_array
    <3>1. DOMAIN cb_array = 1..Len(cb_array) /\ Len(cb_array) \in Nat /\ Len(cb_array) <= cb_count
      BY LenProperties DEF TableOK
    <3>2. cb_count + 1 \notin DOMAIN cb_array
      BY <1>1, <3>1
    <3>3. QED BY <2>1, <3>2 DEF IsWild
  <2>2. CASE cb_array' = Grown
    BY <2>2, GrownProperties DEF IsWild
  <2>3. QED BY <1>1, <2>1, <2>2
<1>5. \A m : SlotsOf(m)' = SlotsOf(m)
  <2>1. \A m : SlotsOf(m)' = {i \in 1..(cb_count + 1) : ~IsWild(i)' /\ cb_array'[i].name = m}
    BY <1>1 DEF SlotsOf
  <2>2. \A i \in 1..(cb_count + 1) : i \in 1..cb_count \/ i = cb_count + 1
    BY <1>1
  <2>3. \A i \in 1..cb_count : i \in 1..(cb_count + 1)
    BY <1>1
  <2>4. \A m : \A i \in SlotsOf(m)' : i \in SlotsOf(m)
    BY <1>3, <1>4, <2>1, <2>2 DEF SlotsOf
  <2>5. \A m : \A i \in SlotsOf(m) : i \in SlotsOf(m)'
    BY <1>3, <2>1, <2>3 DEF SlotsOf
  <2>6. QED BY <2>4, <2>5
<1>6. \A m : \A i \in SlotsOf(m) : cb_array'[i] = cb_array[i]
  BY <1>3 DEF SlotsOf
<1>7. ASSUME NEW m \in Name PROVE \E g : Leads(m, g)'
  <2>1. PICK g : Leads(m, g)
    BY DEF InOrder
  <2>2. \A i \in 1..cb_count : i \in 1..(cb_count + 1)
    BY <1>1
  <2>3. Leads(m, g)'
    BY <1>1, <1>5, <1>6, <2>1, <2>2 DEF Leads
  <2>4. QED BY <2>3
<1>8. QED BY <1>2, <1>7 DEF InOrder

-----------------------------------------------------------------------------
(* Deletions.                                                              *)

\* The slot of a deletion goes, and those behind it move down.
LEMMA DelKeepsTable ==
    ASSUME TableOK, NEW n \in Name, NEW i \in 1..cb_count, IsMatch(i, n), ~DeletionFaults(n),
           cb_array' = SubSeq(cb_array, 1, i - 1) \o SubSeq(cb_array, i + 1, cb_count),
           cb_count' = cb_count - 1
    PROVE  /\ cb_array' \in Seq(Slot \union {Wild}) /\ Len(cb_array') = cb_count - 1
           /\ cb_count' \in Nat
           /\ \A m : \A j \in 1..(cb_count - 1) :
                 j \in SlotsOf(m)' <=> (IF j < i THEN j ELSE j + 1) \in SlotsOf(m)
           /\ \A j \in 1..(cb_count - 1) : cb_array'[j] = cb_array[IF j < i THEN j ELSE j + 1]
           /\ \A m : SlotsOf(m)' \subseteq 1..(cb_count - 1)
<1>1. cb_count \in Nat /\ Len(cb_array) \in Nat /\ DOMAIN cb_array = 1..Len(cb_array)
      /\ Len(cb_array) <= cb_count
  BY LenProperties DEF TableOK
<1>2. Len(cb_array) = cb_count
  <2>1. ASSUME Len(cb_array) < cb_count PROVE FALSE
    <3>1. cb_count \in 1..cb_count /\ cb_count \notin 1..Len(cb_array) /\ cb_count > Len(cb_array)
      BY <1>1, <2>1
    <3>2. IsWild(cb_count)
      BY <1>1, <3>1 DEF IsWild
    <3>3. QED BY <3>1, <3>2 DEF DeletionFaults
  <2>2. \A k, l \in Nat : k <= l /\ ~ (k < l) => k = l
    OBVIOUS
  <2>3. QED BY <1>1, <2>1, <2>2
<1>3. \A j \in 1..cb_count : cb_array[j] \in Slot \union {Wild}
  BY <1>2, ElementOfSeq DEF TableOK
<1> DEFINE low == SubSeq(cb_array, 1, i - 1)
           high == SubSeq(cb_array, i + 1, cb_count)
<1>4. /\ low \in Seq(Slot \union {Wild}) /\ Len(low) = i - 1
      /\ \A j \in 1..(i - 1) : low[j] = cb_array[j]
  <2>1. \A j \in 1..(i - 1) : cb_array[j] \in Slot \union {Wild}
    BY <1>1, <1>3
  <2>2. 1 \in Int /\ i - 1 \in Int /\ (i - 1) - 1 + 1 = i - 1
        /\ (IF 1 <= i - 1 THEN (i - 1) - 1 + 1 ELSE 0) = i - 1
        /\ \A j \in 1..(i - 1) : 1 + j - 1 = j
    BY <1>1
  <2>3. QED BY <2>1, <2>2, SubSeqProperties
<1>5. /\ high \in Seq(Slot \union {Wild}) /\ Len(high) = cb_count - i
      /\ \A j \in 1..(cb_count - i) : high[j] = cb_array[i + j]
  <2>1. \A j \in (i + 1)..cb_count : cb_array[j] \in Slot \union {Wild}
    BY <1>1, <1>3
  <2>2. i + 1 \in Int /\ cb_count \in Int /\ cb_count - (i + 1) + 1 = cb_count - i
        /\ (IF i + 1 <= cb_count THEN cb_count - (i + 1) + 1 ELSE 0) = cb_count - i
        /\ \A j \in 1..(cb_count - i) : (i + 1) + j - 1 = i + j
    BY <1>1
  <2>3. QED BY <2>1, <2>2, SubSeqProperties
<1> HIDE DEF low, high
<1>6. cb_array' = low \o high
  BY DEF low, high
<1>7. /\ cb_array' \in Seq(Slot \union {Wild}) /\ Len(cb_array') = cb_count - 1
      /\ DOMAIN cb_array' = 1..(cb_count - 1)
      /\ \A j \in 1..(cb_count - 1) : cb_array'[j] = cb_array[IF j < i THEN j ELSE j + 1]
  <2>1. /\ low \o high \in Seq(Slot \union {Wild})
        /\ Len(low \o high) = Len(low) + Len(high)
        /\ \A j \in 1..(Len(low) + Len(high)) :
              (low \o high)[j] = IF j <= Len(low) THEN low[j] ELSE high[j - Len(low)]
    BY <1>4, <1>5, ConcatProperties
  <2>2. Len(low) + Len(high) = cb_count - 1
    BY <1>1, <1>4, <1>5
  <2>3. ASSUME NEW j \in 1..(cb_count - 1)
        PROVE  cb_array'[j] = cb_array[IF j < i THEN j ELSE j + 1]
    <3>1. cb_array'[j] = IF j <= i - 1 THEN low[j] ELSE high[j - (i - 1)]
      BY <1>4, <1>6, <2>1, <2>2
    <3>2. CASE j < i
      BY <1>1, <1>4, <3>1, <3>2
    <3>3. CASE ~ (j < i)
      <4>1. j - (i - 1) \in 1..(cb_count - i) /\ i + (j - (i - 1)) = j + 1 /\ ~ (j <= i - 1)
        BY <1>1, <3>3
      <4>2. QED BY <1>5, <3>1, <3>3, <4>1
    <3>4. QED BY <3>2, <3>3
  <2>4. DOMAIN cb_array' = 1..Len(cb_array')
    BY <1>6, <2>1, LenProperties
  <2>5. QED BY <1>6, <2>1, <2>2, <2>3, <2>4
<1>8. cb_count' \in Nat
  BY <1>1
<1>9. \A m : SlotsOf(m)' = {j \in 1..(cb_count - 1) : cb_array'[j] # Wild /\ cb_array'[j].name = m}
  BY <1>7 DEF SlotsOf, IsWild
<1>10. \A m : SlotsOf(m) = {j \in 1..cb_count : cb_array[j] # Wild /\ cb_array[j].name = m}
  BY <1>1, <1>2 DEF SlotsOf, IsWild
<1>11. \A j \in 1..(cb_count - 1) : (IF j < i THEN j ELSE j + 1) \in 1..cb_count
  BY <1>1
<1>12. QED BY <1>7, <1>8, <1>9, <1>10, <1>11

\* A registration moves with its slot, and the one that goes is its name's
\* oldest.
LEMMA DelKeepsOrder ==
    ASSUME TableOK, InOrder, NEW n \in Name, NEW i \in 1..cb_count, IsMatch(i, n), ~DeletionFaults(n),
           cb_array' = SubSeq(cb_array, 1, i - 1) \o SubSeq(cb_array, i + 1, cb_count),
           cb_count' = cb_count - 1,
           queue' = [queue EXCEPT ![n] = Tail(@)]
    PROVE  /\ InOrder'
           /\ queue[n] # <<>> /\ queue[n][1].arg = cb_array[i].arg
<1> DEFINE Moved(j) == IF j < i THEN j ELSE j - 1
<1>1. cb_count \in Nat /\ i \in Nat /\ queue \in [Name -> Seq(Registration)]
  BY DEF TableOK
<1>2. /\ \A m : \A j \in 1..(cb_count - 1) :
            j \in SlotsOf(m)' <=> (IF j < i THEN j ELSE j + 1) \in SlotsOf(m)
      /\ \A j \in 1..(cb_count - 1) : cb_array'[j] = cb_array[IF j < i THEN j ELSE j + 1]
      /\ \A m : SlotsOf(m)' \subseteq 1..(cb_count - 1)
  BY DelKeepsTable
<1>3. \A j \in 1..cb_count : j # i =>
          Moved(j) \in 1..(cb_count - 1) /\ (IF Moved(j) < i THEN Moved(j) ELSE Moved(j) + 1) = j
  BY <1>1
<1>4. \A j, k \in 1..cb_count : j # i /\ k # i /\ j < k => Moved(j) < Moved(k)
  BY <1>1
<1>5. \A j \in 1..(cb_count - 1) :
          /\ (IF j < i THEN j ELSE j + 1) \in 1..cb_count
          /\ (IF j < i THEN j ELSE j + 1) # i
          /\ Moved(IF j < i THEN j ELSE j + 1) = j
  BY <1>1
<1>6. \A m : \A j \in SlotsOf(m) : j # i =>
          Moved(j) \in SlotsOf(m)' /\ cb_array'[Moved(j)] = cb_array[j]
  <2>1. \A m : SlotsOf(m) \subseteq 1..cb_count
    BY DEF SlotsOf
  <2> HIDE DEF Moved
  <2>2. QED BY <1>2, <1>3, <2>1
<1>7. \A m : \A j \in SlotsOf(m)' : \E k \in SlotsOf(m) : k # i /\ Moved(k) = j
  <2> HIDE DEF Moved
  <2>1. QED BY <1>2, <1>5
<1> HIDE DEF Moved
<1>8. i \in SlotsOf(n) /\ \A j \in SlotsOf(n) : i <= j
  <2>1. i \in SlotsOf(n) /\ \A j \in 1..(i - 1) : j \notin SlotsOf(n)
    BY DEF IsMatch
  <2>2. \A j \in 1..cb_count : j \in 1..(i - 1) \/ i <= j
    BY <1>1
  <2>3. SlotsOf(n) \subseteq 1..cb_count
    BY DEF SlotsOf
  <2>4. QED BY <2>1, <2>2, <2>3
<1>9. ASSUME NEW m \in Name, m # n PROVE \E h : Leads(m, h)'
  <2>1. PICK g : Leads(m, g)
    BY DEF InOrder
  <2>2. queue'[m] = queue[m]
    BY <1>1, <1>9
  <2>3. i \notin SlotsOf(m)
    BY <1>8, <1>9 DEF SlotsOf
  <2>4. PICK h : h = [k \in DOMAIN queue[m] |-> Moved(g[k])]
    OBVIOUS
  <2>5. \A k \in DOMAIN queue[m] : g[k] \in SlotsOf(m) /\ g[k] # i /\ g[k] \in 1..cb_count
    BY <2>1, <2>3 DEF Leads
  <2>6. h \in [DOMAIN queue'[m] -> 1..cb_count']
    BY <1>3, <2>2, <2>4, <2>5
  <2>7. \A k, l \in DOMAIN queue'[m] : k < l => h[k] < h[l]
    BY <1>4, <2>1, <2>2, <2>4, <2>5 DEF Leads
  <2>8. ASSUME NEW j \in SlotsOf(m)' PROVE \E k \in DOMAIN queue[m] : h[k] = j
    <3>1. PICK s \in SlotsOf(m) : s # i /\ Moved(s) = j
      BY <1>7
    <3>2. PICK k \in DOMAIN queue[m] : g[k] = s
      BY <2>1 DEF Leads
    <3>3. h[k] = j
      BY <2>4, <3>1, <3>2
    <3>4. QED BY <3>3
  <2>9. ASSUME NEW k \in DOMAIN queue[m]
        PROVE  /\ h[k] \in SlotsOf(m)'
               /\ cb_array'[h[k]].function = queue[m][k].function
               /\ cb_array'[h[k]].arg = queue[m][k].arg
    <3>1. h[k] = Moved(g[k]) /\ g[k] \in SlotsOf(m) /\ g[k] # i
      BY <2>4, <2>5
    <3>2. h[k] \in SlotsOf(m)' /\ cb_array'[h[k]] = cb_array[g[k]]
      BY <1>6, <3>1
    <3>3. QED BY <2>1, <3>2 DEF Leads
  <2>10. Leads(m, h)'
    BY <2>2, <2>6, <2>7, <2>8, <2>9 DEF Leads
  <2>11. QED BY <2>10
<1>10. (\E h : Leads(n, h)') /\ queue[n] # <<>> /\ queue[n][1].arg = cb_array[i].arg
  <2>1. PICK g : Leads(n, g)
    BY DEF InOrder
  <2> DEFINE q == queue[n]
  <2>2. q \in Seq(Registration) /\ Len(q) \in Nat /\ DOMAIN q = 1..Len(q)
    BY <1>1
  <2>3. queue'[n] = Tail(q)
    BY <1>1
  <2>4. /\ \A k \in 1..Len(q) : g[k] \in 1..cb_count
        /\ \A k, l \in 1..Len(q) : k < l => g[k] < g[l]
        /\ \A j \in SlotsOf(n) : \E k \in 1..Len(q) : g[k] = j
        /\ \A k \in 1..Len(q) : /\ g[k] \in SlotsOf(n)
                                /\ cb_array[g[k]].function = q[k].function
                                /\ cb_array[g[k]].arg = q[k].arg
    BY <2>1, <2>2 DEF Leads
  <2> HIDE DEF q
  <2>5. Len(q) >= 1 /\ g[1] = i
    <3>1. PICK k \in 1..Len(q) : g[k] = i
      BY <1>8, <2>4
    <3>2. 1 \in 1..Len(q) /\ (1 < k \/ k = 1)
      BY <2>2
    <3>3. 1 < k => g[1] < i /\ i <= g[1] /\ g[1] \in 1..cb_count
      BY <1>8, <2>4, <3>1, <3>2
    <3>4. QED BY <1>1, <2>2, <3>1, <3>2, <3>3
  <2>6. q # <<>> /\ q[1].arg = cb_array[i].arg
    <3>1. 1 \in 1..Len(q)
      BY <2>2, <2>5
    <3>2. QED BY <2>2, <2>4, <2>5, <3>1
  <2>7. /\ DOMAIN Tail(q) = 1..(Len(q) - 1)
        /\ \A k \in 1..(Len(q) - 1) : Tail(q)[k] = q[k + 1]
    <3>1. /\ Tail(q) \in Seq(Registration) /\ Len(Tail(q)) = Len(q) - 1
          /\ \A k \in 1..Len(Tail(q)) : Tail(q)[k] = q[k + 1]
      BY <2>2, <2>6, HeadTailProperties
    <3>2. QED BY <3>1, LenProperties
  <2>8. \A k \in 1..(Len(q) - 1) :
           /\ k + 1 \in 1..Len(q) /\ g[k + 1] \in SlotsOf(n)
           /\ g[k + 1] \in 1..cb_count /\ g[k + 1] # i
    <3> SUFFICES ASSUME NEW k \in 1..(Len(q) - 1)
                 PROVE  /\ k + 1 \in 1..Len(q) /\ g[k + 1] \in SlotsOf(n)
                        /\ g[k + 1] \in 1..cb_count /\ g[k + 1] # i
      OBVIOUS
    <3>1. k + 1 \in 1..Len(q) /\ 1 \in 1..Len(q) /\ 1 < k + 1
      BY <2>2
    <3>2. i < g[k + 1]
      BY <2>4, <2>5, <3>1
    <3>3. QED BY <1>1, <2>4, <3>1, <3>2
  <2>9. PICK h : h = [k \in 1..(Len(q) - 1) |-> Moved(g[k + 1])]
    OBVIOUS
  <2>10. h \in [DOMAIN queue'[n] -> 1..cb_count']
    BY <1>3, <2>3, <2>7, <2>8, <2>9
  <2>11. \A k, l \in 1..(Len(q) - 1) : k < l => h[k] < h[l]
    <3>1. \A k, l \in 1..(Len(q) - 1) : k < l => k + 1 < l + 1
      BY <2>2
    <3>2. \A k, l \in 1..(Len(q) - 1) : k < l => g[k + 1] < g[l + 1]
      BY <2>4, <2>8, <3>1
    <3>3. QED BY <1>4, <2>8, <2>9, <3>2
  <2>12. \A j \in SlotsOf(n)' : \E k \in 1..(Len(q) - 1) : h[k] = j
    <3> SUFFICES ASSUME NEW j \in SlotsOf(n)' PROVE \E k \in 1..(Len(q) - 1) : h[k] = j
      OBVIOUS
    <3>1. PICK s \in SlotsOf(n) : s # i /\ Moved(s) = j
      BY <1>7
    <3>2. PICK l \in 1..Len(q) : g[l] = s
      BY <2>4
    <3>3. l # 1
      BY <2>5, <3>1, <3>2
    <3>4. l - 1 \in 1..(Len(q) - 1) /\ (l - 1) + 1 = l
      BY <2>2, <3>3
    <3>5. h[l - 1] = j
      BY <2>9, <3>1, <3>2, <3>4
    <3>6. QED BY <3>4, <3>5
  <2>13. ASSUME NEW k \in 1..(Len(q) - 1)
         PROVE  /\ h[k] \in SlotsOf(n)'
                /\ cb_array'[h[k]].function = queue'[n][k].function
                /\ cb_array'[h[k]].arg = queue'[n][k].arg
    <3>1. h[k] = Moved(g[k + 1]) /\ g[k + 1] \in SlotsOf(n) /\ g[k + 1] # i /\ k + 1 \in 1..Len(q)
      BY <2>8, <2>9
    <3>2. h[k] \in SlotsOf(n)' /\ cb_array'[h[k]] = cb_array[g[k + 1]]
      BY <1>6, <3>1
    <3>3. queue'[n][k] = q[k + 1]
      BY <2>3, <2>7
    <3>4. QED BY <2>4, <3>1, <3>2, <3>3
  <2>14. Leads(n, h)'
    BY <2>3, <2>7, <2>10, <2>11, <2>12, <2>13 DEF Leads
  <2>15. QED BY <2>6, <2>14 DEF q
<1>11. QED BY <1>9, <1>10 DEF InOrder

-----------------------------------------------------------------------------
(* The arguments.                                                          *)

LEMMA InitIInv == ASSUME Init PROVE IInv
<1>1. /\ cb_count = 0 /\ cb_array = <<>> /\ adds = <<>>
      /\ queue = [n \in Name |-> <<>>] /\ freed = [a \in Arg |-> 0]
  BY DEF Init
<1>2. TableOK
  <2>1. cb_array \in Seq(Slot \union {Wild}) /\ Len(cb_array) = 0
    BY <1>1, EmptySeq
  <2>2. adds \in Seq([arg : Arg \union {NoArg}, ok : BOOLEAN])
    BY <1>1, EmptySeq
  <2>3. queue \in [Name -> Seq(Registration)]
    BY <1>1, EmptySeq
  <2>4. QED BY <1>1, <2>1, <2>2, <2>3 DEF TableOK
<1>3. \A n \in Name : DOMAIN queue[n] = {} /\ SlotsOf(n) = {}
  <2>1. DOMAIN <<>> = {} /\ 1..0 = {}
    OBVIOUS
  <2>2. \A n \in Name : DOMAIN queue[n] = {}
    BY <1>1, <2>1
  <2>3. \A n \in Name : SlotsOf(n) = {}
    BY <1>1, <2>1 DEF SlotsOf
  <2>4. QED BY <2>2, <2>3
<1>4. InOrder
  <2>1. ASSUME NEW n \in Name PROVE \E g : Leads(n, g)
    <3>1. PICK g : g = [k \in DOMAIN queue[n] |-> 0]
      OBVIOUS
    <3>2. Leads(n, g)
      BY <1>3, <3>1 DEF Leads
    <3>3. QED BY <3>2
  <2>2. QED BY <2>1 DEF InOrder
<1>5. ArgsInv
  BY <1>1, <1>3 DEF ArgsInv, Live, Given
<1>6. QED BY <1>2, <1>4, <1>5 DEF IInv

\* What an addition does to the history of its argument.
LEMMA GivenNext ==
    ASSUME TableOK, NEW a, NEW ok \in BOOLEAN, a \in Arg \union {NoArg},
           adds' = Append(adds, [arg |-> a, ok |-> ok])
    PROVE  \A b : Given(b)' <=> (Given(b) \/ (b = a /\ ok))
<1>1. /\ adds \in Seq([arg : Arg \union {NoArg}, ok : BOOLEAN])
      /\ [arg |-> a, ok |-> ok] \in [arg : Arg \union {NoArg}, ok : BOOLEAN]
      /\ Len(adds) \in Nat /\ DOMAIN adds = 1..Len(adds)
  BY LenProperties DEF TableOK
<1>2. /\ DOMAIN adds' = 1..(Len(adds) + 1)
      /\ \A k \in 1..Len(adds) : adds'[k] = adds[k]
      /\ adds'[Len(adds) + 1] = [arg |-> a, ok |-> ok]
  <2>1. Append(adds, [arg |-> a, ok |-> ok]) \in Seq([arg : Arg \union {NoArg}, ok : BOOLEAN])
    BY <1>1, AppendProperties
  <2>2. QED BY <1>1, <2>1, AppendProperties, LenProperties
<1>3. \A k \in 1..(Len(adds) + 1) : k \in 1..Len(adds) \/ k = Len(adds) + 1
  BY <1>1
<1>4. (\A k \in 1..Len(adds) : k \in 1..(Len(adds) + 1)) /\ Len(adds) + 1 \in 1..(Len(adds) + 1)
  BY <1>1
<1>5. ASSUME NEW b PROVE Given(b)' <=> (Given(b) \/ (b = a /\ ok))
  <2>1. [arg |-> b, ok |-> TRUE] = [arg |-> a, ok |-> ok] <=> b = a /\ ok
    OBVIOUS
  <2>2. Given(b)' <=> \E k \in 1..(Len(adds) + 1) : adds'[k] = [arg |-> b, ok |-> TRUE]
    BY <1>2 DEF Given
  <2>3. Given(b) <=> \E k \in 1..Len(adds) : adds[k] = [arg |-> b, ok |-> TRUE]
    BY <1>1 DEF Given
  <2>4. QED BY <1>2, <1>3, <1>4, <2>1, <2>2, <2>3
<1>6. QED BY <1>5

\* An owned argument was not given before, so it is not live and was not freed.
LEMMA AddKeepsArgs ==
    ASSUME TableOK, ArgsInv, NEW n \in Name, NEW f \in Function, NEW a \in Arg \union {NoArg},
           AddMethod(n, f, a)
    PROVE  ArgsInv'
<1>1. /\ queue' = [queue EXCEPT ![n] = Append(@, [function |-> f, arg |-> a])]
      /\ adds' = Append(adds, [arg |-> a, ok |-> TRUE]) /\ freed' = freed /\ Owned(a)
  BY DEF AddMethod, Called
<1>2. a # NoArg => ~Given(a)
  BY <1>1 DEF Owned, Given
<1>3. \A b : Given(b)' <=> (Given(b) \/ b = a)
  <2>1. \A b : Given(b)' <=> (Given(b) \/ (b = a /\ TRUE))
    BY <1>1, GivenNext
  <2>2. QED BY <2>1
<1> DEFINE q == queue[n]
<1>4. q \in Seq(Registration) /\ Len(q) \in Nat /\ DOMAIN q = 1..Len(q)
  BY LenProperties DEF TableOK
<1>5. queue'[n] = Append(q, [function |-> f, arg |-> a]) /\ \A m \in Name : m # n => queue'[m] = queue[m]
  BY <1>1 DEF TableOK
<1>6. [function |-> f, arg |-> a] \in Registration
  BY DEF Registration
<1> HIDE DEF q
<1>7. /\ DOMAIN queue'[n] = 1..(Len(q) + 1)
      /\ \A k \in 1..Len(q) : queue'[n][k] = q[k]
      /\ queue'[n][Len(q) + 1] = [function |-> f, arg |-> a]
      /\ \A k \in 1..(Len(q) + 1) : k \in 1..Len(q) \/ k = Len(q) + 1
      /\ \A k \in 1..Len(q) : k \in 1..(Len(q) + 1)
      /\ Len(q) + 1 \in 1..(Len(q) + 1)
  BY <1>4, <1>5, <1>6, AppendProperties
\* A registration of the new queue is an old one or the new one.
<1>8. \A m \in Name : \A k \in DOMAIN queue'[m] :
          \/ k \in DOMAIN queue[m] /\ queue'[m][k] = queue[m][k]
          \/ m = n /\ k = Len(q) + 1 /\ queue'[m][k].arg = a
  BY <1>4, <1>5, <1>7 DEF q
<1>9. \A m \in Name : \A k \in DOMAIN queue[m] :
          k \in DOMAIN queue'[m] /\ queue'[m][k] = queue[m][k]
  BY <1>4, <1>5, <1>7 DEF q
<1>10. \A b : Live(b)' <=> (Live(b) \/ b = a)
  <2>1. Live(a)'
    <3>1. Len(q) + 1 \in DOMAIN queue'[n] /\ queue'[n][Len(q) + 1].arg = a
      BY <1>7
    <3>2. \E k \in DOMAIN queue'[n] : queue'[n][k].arg = a
      BY <3>1
    <3>3. QED BY <3>2 DEF Live
  <2>2. \A b : Live(b)' => Live(b) \/ b = a
    BY <1>8 DEF Live
  <2>3. \A b : Live(b) => Live(b)'
    BY <1>9 DEF Live
  <2>4. \A b : b = a => Live(b)'
    BY <2>1 DEF Live
  <2>5. QED BY <2>2, <2>3, <2>4
<1>11. \A m1, m2 \in Name : \A k \in DOMAIN queue'[m1], l \in DOMAIN queue'[m2] :
          queue'[m1][k].arg = queue'[m2][l].arg /\ queue'[m1][k].arg # NoArg => m1 = m2 /\ k = l
  <2>1. a # NoArg => ~Live(a)
    BY <1>2 DEF ArgsInv
  <2>2. \A m \in Name : \A k \in DOMAIN queue[m] : a # NoArg => queue[m][k].arg # a
    BY <2>1 DEF Live
  <2>3. QED BY <1>8, <2>2 DEF ArgsInv
<1>12. \A b \in Arg : Live(b)' => Given(b)'
  BY <1>3, <1>10 DEF ArgsInv
<1>13. \A b \in Arg : freed'[b] = IF Given(b)' /\ ~Live(b)' THEN 1 ELSE 0
  <2> SUFFICES ASSUME NEW b \in Arg PROVE freed'[b] = IF Given(b)' /\ ~Live(b)' THEN 1 ELSE 0
    OBVIOUS
  <2>1. b # NoArg /\ freed[b] = IF Given(b) /\ ~Live(b) THEN 1 ELSE 0
    BY TokenAssumption DEF ArgsInv
  <2>2. CASE b = a
    BY <1>1, <1>2, <1>10, <2>1, <2>2
  <2>3. CASE b # a
    BY <1>1, <1>3, <1>10, <2>1, <2>3
  <2>4. QED BY <2>2, <2>3
<1>14. QED BY <1>11, <1>12, <1>13 DEF ArgsInv

LEMMA FailedAddKeepsArgs ==
    ASSUME TableOK, ArgsInv, NEW a \in Arg \union {NoArg}, AddWithoutMemory(a)
    PROVE  ArgsInv'
<1>1. queue' = queue /\ freed' = freed /\ adds' = Append(adds, [arg |-> a, ok |-> FALSE])
  BY DEF AddWithoutMemory, Called
<1>2. \A b : Given(b)' <=> Given(b)
  <2>1. \A b : Given(b)' <=> (Given(b) \/ (b = a /\ FALSE))
    BY <1>1, GivenNext
  <2>2. QED BY <2>1
<1>3. \A b : Live(b)' <=> Live(b)
  BY <1>1 DEF Live
<1>4. QED BY <1>1, <1>2, <1>3 DEF ArgsInv

\* The oldest registration of n goes, and its argument is freed.
LEMMA DelKeepsArgs ==
    ASSUME TableOK, ArgsInv, NEW n \in Name, queue[n] # <<>>,
           NEW a, a = queue[n][1].arg,
           queue' = [queue EXCEPT ![n] = Tail(@)], adds' = adds,
           freed' = IF a = NoArg THEN freed ELSE [freed EXCEPT ![a] = @ + 1]
    PROVE  ArgsInv' /\ freed' \in [Arg -> Nat] /\ queue' \in [Name -> Seq(Registration)]
<1> DEFINE q == queue[n]
<1>1. q \in Seq(Registration) /\ q # <<>> /\ queue \in [Name -> Seq(Registration)]
      /\ freed \in [Arg -> Nat]
  BY DEF TableOK
<1>2. queue'[n] = Tail(q) /\ (\A m \in Name : m # n => queue'[m] = queue[m])
  BY <1>1
<1>3. Len(q) \in Nat /\ Len(q) >= 1 /\ DOMAIN q = 1..Len(q)
  BY <1>1, LenProperties, EmptySeq
<1>4. /\ Tail(q) \in Seq(Registration)
      /\ DOMAIN Tail(q) = 1..(Len(q) - 1)
      /\ \A k \in 1..(Len(q) - 1) : Tail(q)[k] = q[k + 1]
  <2>1. /\ Tail(q) \in Seq(Registration) /\ Len(Tail(q)) = Len(q) - 1
        /\ \A k \in 1..Len(Tail(q)) : Tail(q)[k] = q[k + 1]
    BY <1>1, HeadTailProperties
  <2>2. QED BY <2>1, LenProperties
<1>5. queue' \in [Name -> Seq(Registration)]
  BY <1>1, <1>4
<1>6. 1 \in DOMAIN q /\ q[1] \in Registration /\ a \in Arg \union {NoArg}
  <2>1. 1 \in DOMAIN q
    BY <1>3
  <2>2. q[1] \in Registration
    BY <1>1, <1>3, <2>1, ElementOfSeq
  <2>3. QED BY <2>1, <2>2 DEF Registration
<1> HIDE DEF q
<1>7. \A k \in 1..(Len(q) - 1) : k + 1 \in 1..Len(q) /\ k + 1 # 1
  BY <1>3
<1>8. \A k \in 1..Len(q) : k # 1 => k - 1 \in 1..(Len(q) - 1) /\ (k - 1) + 1 = k
  BY <1>3
\* What is left of the queues, and where it was.
<1>9. \A k \in DOMAIN queue'[n] : k + 1 \in DOMAIN queue[n] /\ k + 1 # 1 /\ queue'[n][k] = queue[n][k + 1]
  BY <1>2, <1>3, <1>4, <1>7 DEF q
<1>10. \A k \in DOMAIN queue[n] : k # 1 => \E l \in DOMAIN queue'[n] : queue'[n][l] = queue[n][k]
  <2> SUFFICES ASSUME NEW k \in DOMAIN queue[n], k # 1
               PROVE  \E l \in DOMAIN queue'[n] : queue'[n][l] = queue[n][k]
    OBVIOUS
  <2>1. k \in 1..Len(q)
    BY <1>3 DEF q
  <2>2. k - 1 \in DOMAIN queue'[n] /\ queue'[n][k - 1] = queue[n][k]
    BY <1>2, <1>4, <1>8, <2>1 DEF q
  <2>3. QED BY <2>2
<1>11. \A b \in Arg : Live(b)' <=> (Live(b) /\ b # a)
  <2> SUFFICES ASSUME NEW b \in Arg PROVE Live(b)' <=> (Live(b) /\ b # a)
    OBVIOUS
  <2>0. b # NoArg
    BY TokenAssumption
  <2>1. ASSUME Live(b)' PROVE Live(b) /\ b # a
    <3>1. PICK m \in Name : \E k \in DOMAIN queue'[m] : queue'[m][k].arg = b
      BY <2>1 DEF Live
    <3>2. PICK k \in DOMAIN queue[m] : queue[m][k].arg = b /\ (m = n => k # 1)
      BY <1>2, <1>9, <3>1
    <3>3. Live(b)
      BY <3>2 DEF Live
    <3>4. b # a
      BY <1>6, <2>0, <3>2 DEF ArgsInv, q
    <3>5. QED BY <3>3, <3>4
  <2>2. ASSUME Live(b), b # a PROVE Live(b)'
    <3>1. PICK m \in Name : \E k \in DOMAIN queue[m] : queue[m][k].arg = b
      BY <2>2 DEF Live
    <3>2. PICK k \in DOMAIN queue[m] : queue[m][k].arg = b
      BY <3>1
    <3>3. CASE m = n
      <4>1. k # 1
        BY <2>2, <3>2, <3>3 DEF q
      <4>2. PICK l \in DOMAIN queue'[n] : queue'[n][l] = queue[n][k]
        BY <1>10, <3>2, <3>3, <4>1
      <4>3. \E j \in DOMAIN queue'[n] : queue'[n][j].arg = b
        BY <3>2, <3>3, <4>2
      <4>4. QED BY <4>3 DEF Live
    <3>4. CASE m # n
      <4>1. \E j \in DOMAIN queue'[m] : queue'[m][j].arg = b
        BY <1>2, <3>2, <3>4
      <4>2. QED BY <4>1 DEF Live
    <3>5. QED BY <3>3, <3>4
  <2>3. QED BY <2>1, <2>2
<1>12. \A b : Given(b)' <=> Given(b)
  BY DEF Given
<1>13. \A b \in Arg : Live(b)' => Given(b)'
  BY <1>11, <1>12 DEF ArgsInv
<1>14. freed' \in [Arg -> Nat]
       /\ \A b \in Arg : freed'[b] = IF b = a THEN freed[b] + 1 ELSE freed[b]
  BY <1>1, <1>6, TokenAssumption
<1>15. \A b \in Arg : freed'[b] = IF Given(b)' /\ ~Live(b)' THEN 1 ELSE 0
  <2>1. a \in Arg => Live(a)
    BY <1>6 DEF Live, q
  <2>2. QED BY <1>11, <1>12, <1>14, <2>1 DEF ArgsInv
<1>16. \A m1, m2 \in Name : \A k \in DOMAIN queue'[m1], l \in DOMAIN queue'[m2] :
          queue'[m1][k].arg = queue'[m2][l].arg /\ queue'[m1][k].arg # NoArg => m1 = m2 /\ k = l
  <2> SUFFICES ASSUME NEW m1 \in Name, NEW m2 \in Name,
                      NEW k \in DOMAIN queue'[m1], NEW l \in DOMAIN queue'[m2],
                      queue'[m1][k].arg = queue'[m2][l].arg, queue'[m1][k].arg # NoArg
               PROVE  m1 = m2 /\ k = l
    OBVIOUS
  <2>1. PICK k0 \in DOMAIN queue[m1] : /\ queue'[m1][k] = queue[m1][k0]
                                       /\ k0 = IF m1 = n THEN k + 1 ELSE k
    BY <1>2, <1>9
  <2>2. PICK l0 \in DOMAIN queue[m2] : /\ queue'[m2][l] = queue[m2][l0]
                                       /\ l0 = IF m2 = n THEN l + 1 ELSE l
    BY <1>2, <1>9
  <2>3. m1 = m2 /\ k0 = l0
    BY <2>1, <2>2 DEF ArgsInv
  <2>4. k \in Nat /\ l \in Nat
    <3>1. \A m \in Name : \A j \in DOMAIN queue'[m] : j \in Nat
      BY <1>5
    <3>2. QED BY <3>1
  <2>5. QED BY <2>1, <2>2, <2>3, <2>4
<1>17. QED BY <1>5, <1>13, <1>14, <1>15, <1>16 DEF ArgsInv

LEMMA DelMethodKeeps ==
    ASSUME TableOK, InOrder, ArgsInv, NEW n \in Name, DelMethod(n)
    PROVE  TableOK' /\ InOrder' /\ ArgsInv'
<1>1. CASE SlotsOf(n) = {} /\ UNCHANGED <<cb_count, cb_array, queue, freed>>
  <2>1. UNCHANGED <<cb_count, cb_array, queue, freed, adds>>
    BY <1>1 DEF DelMethod
  <2>2. TableOK'
    BY <2>1 DEF TableOK
  <2>3. \A m : SlotsOf(m)' = SlotsOf(m)
    BY <2>1 DEF SlotsOf, IsWild
  <2>4. InOrder'
    BY <2>1, <2>3 DEF InOrder, Leads
  <2>5. ArgsInv'
    BY <2>1 DEF ArgsInv, Live, Given
  <2>6. QED BY <2>2, <2>4, <2>5
<1>2. CASE \E i \in 1..cb_count :
              /\ IsMatch(i, n)
              /\ cb_info_destroy(i)
              /\ cb_array' = SubSeq(cb_array, 1, i - 1) \o SubSeq(cb_array, i + 1, cb_count)
              /\ cb_count' = cb_count - 1
              /\ queue' = [queue EXCEPT ![n] = Tail(@)]
  <2>1. PICK i \in 1..cb_count :
              /\ IsMatch(i, n)
              /\ cb_info_destroy(i)
              /\ cb_array' = SubSeq(cb_array, 1, i - 1) \o SubSeq(cb_array, i + 1, cb_count)
              /\ cb_count' = cb_count - 1
              /\ queue' = [queue EXCEPT ![n] = Tail(@)]
    BY <1>2
  <2>2. ~DeletionFaults(n) /\ adds' = adds
    BY DEF DelMethod
  <2>3. /\ cb_array' \in Seq(Slot \union {Wild}) /\ Len(cb_array') = cb_count - 1
        /\ cb_count' \in Nat
    BY <2>1, <2>2, DelKeepsTable
  <2>4. InOrder' /\ queue[n] # <<>> /\ queue[n][1].arg = cb_array[i].arg
    BY <2>1, <2>2, DelKeepsOrder
  <2>5. freed' = IF queue[n][1].arg = NoArg THEN freed ELSE [freed EXCEPT ![queue[n][1].arg] = @ + 1]
    BY <2>1, <2>4 DEF cb_info_destroy, Destroyed
  <2>6. ArgsInv' /\ freed' \in [Arg -> Nat] /\ queue' \in [Name -> Seq(Registration)]
    BY <2>1, <2>2, <2>4, <2>5, DelKeepsArgs
  <2>7. Len(cb_array') <= cb_count'
    BY <2>1, <2>3
  <2>8. TableOK'
    BY <2>2, <2>3, <2>6, <2>7 DEF TableOK
  <2>9. QED BY <2>4, <2>6, <2>8
<1>3. QED BY <1>1, <1>2 DEF DelMethod

\* Each argument of the array is a live one's, so all of these are freed and
\* no other is.
LEMMA DelAllKeeps ==
    ASSUME TableOK, InOrder, ArgsInv, DelAll
    PROVE  TableOK' /\ InOrder' /\ ArgsInv'
<1>1. /\ \A i \in 1..cb_count : ~IsWild(i)
      /\ freed' = [a \in Arg |-> IF \E i \in 1..cb_count : cb_array[i].arg = a
                                 THEN freed[a] + 1 ELSE freed[a]]
      /\ cb_count' = 0 /\ cb_array' = <<>> /\ queue' = [n \in Name |-> <<>>]
      /\ adds' = adds
  BY DEF DelAll
<1>2. DOMAIN <<>> = {} /\ 1..0 = {}
  OBVIOUS
<1>3. \A n \in Name : DOMAIN queue'[n] = {} /\ SlotsOf(n)' = {}
  <2>1. \A n \in Name : DOMAIN queue'[n] = {}
    BY <1>1, <1>2
  <2>2. \A n \in Name : SlotsOf(n)' = {}
    BY <1>1, <1>2 DEF SlotsOf
  <2>3. QED BY <2>1, <2>2
<1>4. InOrder'
  <2>1. ASSUME NEW n \in Name PROVE \E g : Leads(n, g)'
    <3>1. PICK g : g = [k \in DOMAIN queue'[n] |-> 0]
      OBVIOUS
    <3>2. Leads(n, g)'
      BY <1>3, <3>1 DEF Leads
    <3>3. QED BY <3>2
  <2>2. QED BY <2>1 DEF InOrder
<1>5. TableOK'
  <2>1. cb_array' \in Seq(Slot \union {Wild}) /\ Len(cb_array') = 0
    BY <1>1, EmptySeq
  <2>2. queue' \in [Name -> Seq(Registration)]
    BY <1>1, EmptySeq
  <2>3. freed' \in [Arg -> Nat]
    BY <1>1 DEF TableOK
  <2>4. QED BY <1>1, <2>1, <2>2, <2>3 DEF TableOK
<1>6. ASSUME NEW a \in Arg PROVE (\E i \in 1..cb_count : cb_array[i].arg = a) <=> Live(a)
  <2>1. ASSUME NEW i \in 1..cb_count, cb_array[i].arg = a PROVE Live(a)
    <3>1. cb_array[i] \in Slot
      BY <1>1, SlotTypes
    <3>2. PICK n \in Name : cb_array[i].name = n
      BY <3>1 DEF Slot
    <3>3. i \in SlotsOf(n)
      BY <1>1, <3>2 DEF SlotsOf
    <3>4. PICK g : Leads(n, g)
      BY DEF InOrder
    <3>5. PICK k \in DOMAIN queue[n] : g[k] = i
      BY <3>3, <3>4 DEF Leads
    <3>6. queue[n][k].arg = a
      BY <2>1, <3>4, <3>5 DEF Leads
    <3>7. QED BY <3>6 DEF Live
  <2>2. ASSUME Live(a) PROVE \E i \in 1..cb_count : cb_array[i].arg = a
    <3>1. PICK n \in Name : \E k \in DOMAIN queue[n] : queue[n][k].arg = a
      BY <2>2 DEF Live
    <3>2. PICK k \in DOMAIN queue[n] : queue[n][k].arg = a
      BY <3>1
    <3>3. PICK g : Leads(n, g)
      BY DEF InOrder
    <3>4. g[k] \in 1..cb_count /\ cb_array[g[k]].arg = a
      BY <3>2, <3>3 DEF Leads
    <3>5. QED BY <3>4
  <2>3. QED BY <2>1, <2>2
<1>7. ArgsInv'
  <2>1. \A a : ~Live(a)'
    BY <1>3 DEF Live
  <2>2. \A a : Given(a)' <=> Given(a)
    BY <1>1 DEF Given
  <2>3. \A a \in Arg : freed'[a] = IF Live(a) THEN freed[a] + 1 ELSE freed[a]
    BY <1>1, <1>6
  <2>4. \A a \in Arg : freed'[a] = IF Given(a)' /\ ~Live(a)' THEN 1 ELSE 0
    BY <2>1, <2>2, <2>3 DEF ArgsInv
  <2>5. QED BY <1>3, <2>1, <2>4 DEF ArgsInv
<1>8. QED BY <1>4, <1>5, <1>7

LEMMA UnchangedKeeps ==
    ASSUME IInv, UNCHANGED <<cb_count, cb_array, adds, queue, freed>>, faulted => faulted'
    PROVE  IInv'
<1>1. TableOK'
  BY DEF IInv, TableOK
<1>2. ASSUME InOrder PROVE InOrder'
  <2>1. \A m : SlotsOf(m)' = SlotsOf(m)
    BY DEF SlotsOf, IsWild
  <2>2. QED BY <1>2, <2>1 DEF InOrder, Leads
<1>3. ASSUME ArgsInv PROVE ArgsInv'
  BY <1>3 DEF ArgsInv, Live, Given
<1>4. QED BY <1>1, <1>2, <1>3 DEF IInv

LEMMA StepKeeps == ASSUME IInv, [Next]_vars PROVE IInv'
<1>1. ASSUME NEW n \in Name, NEW f \in Function, NEW a \in Arg \union {NoArg},
             mjrpc_add_method(n, f, a)
      PROVE  IInv'
  <2>1. TableOK /\ ~faulted /\ InOrder /\ ArgsInv
    BY <1>1 DEF IInv, mjrpc_add_method, AddMethod, AddWithoutMemory, AddBehindArray, Called
  <2>2. CASE AddMethod(n, f, a)
    <3>1. TableOK'
      BY <2>1, <2>2, AddKeepsTable
    <3>2. InOrder'
      BY <2>1, <2>2, AddKeepsOrder
    <3>3. ArgsInv'
      BY <2>1, <2>2, AddKeepsArgs
    <3>4. QED BY <3>1, <3>2, <3>3 DEF IInv
  <2>3. CASE AddWithoutMemory(a)
    <3>1. TableOK' /\ InOrder'
      BY <2>1, <2>3, FailedAddKeeps
    <3>2. ArgsInv'
      BY <2>1, <2>3, FailedAddKeepsArgs
    <3>3. QED BY <3>1, <3>2 DEF IInv
  <2>4. CASE AddBehindArray(a)
    <3>1. /\ cb_count' = cb_count + 1 /\ UNCHANGED <<cb_array, queue, freed>> /\ faulted'
          /\ adds' = Append(adds, [arg |-> a, ok |-> FALSE])
      BY <2>4 DEF AddBehindArray, Called
    <3>2. adds' \in Seq([arg : Arg \union {NoArg}, ok : BOOLEAN])
      <4>1. [arg |-> a, ok |-> FALSE] \in [arg : Arg \union {NoArg}, ok : BOOLEAN]
        OBVIOUS
      <4>2. QED BY <2>1, <3>1, <4>1, AppendProperties DEF TableOK
    <3>3. Len(cb_array) \in Nat
      BY <2>1, LenProperties DEF TableOK
    <3>4. TableOK'
      BY <2>1, <3>1, <3>2, <3>3 DEF TableOK
    <3>5. QED BY <3>1, <3>4 DEF IInv
  <2>5. QED BY <1>1, <2>2, <2>3, <2>4 DEF mjrpc_add_method
<1>2. ASSUME mjrpc_del_method PROVE IInv'
  <2>1. TableOK /\ ~faulted /\ InOrder /\ ArgsInv
    BY <1>2 DEF IInv, mjrpc_del_method
  <2>2. ASSUME NEW n \in Name, DelMethod(n) PROVE IInv'
    BY <2>1, <2>2, DelMethodKeeps DEF IInv
  <2>3. ASSUME NEW n \in Name, DelFaults(n) PROVE IInv'
    BY <2>3, UnchangedKeeps DEF DelFaults
  <2>4. CASE DelOfNothing
    BY <2>4, UnchangedKeeps DEF DelOfNothing
  <2>5. CASE DelAll
    BY <2>1, <2>5, DelAllKeeps DEF IInv
  <2>6. CASE DelAllFaults
    BY <2>6, UnchangedKeeps DEF DelAllFaults
  <2>7. QED BY <1>2, <2>2, <2>3, <2>4, <2>5, <2>6 DEF mjrpc_del_method
<1>3. ASSUME NEW b \in Batches, mjrpc_process_cjson(b) PROVE IInv'
  BY <1>3, UnchangedKeeps DEF mjrpc_process_cjson
<1>4. CASE UNCHANGED vars
  BY <1>4, UnchangedKeeps DEF vars
<1>5. QED BY <1>1, <1>2, <1>3, <1>4 DEF Next

\* mjsonrpc.c:197-214, 248-279: through any sequence of additions, deletions,
\* moved slots and failed allocations, the live registrations of a name lead
\* to its slots, all of them, in their order.
THEOREM TableInvariance == Spec => []IInv
<1>1. QED BY InitIInv, StepKeeps, PTL DEF Spec

\* mjsonrpc.c:219-231, 240-260: an argument the table took is freed once, by
\* the deletion of its registration.
THEOREM FreedOnce == Spec => []ArgsFreedOnce
<1>1. IInv => ArgsFreedOnce
  BY DEF IInv, ArgsInv, ArgsFreedOnce, Live, Given
<1>2. QED BY <1>1, TableInvariance, PTL

\* What CallsAnswered asks of each request of a batch: before a fault, it is
\* answered by the newest live registration of its method, or by the
\* dispatcher if there is none.
AnswersDue == ~faulted => \A r \in Request : Invokes(r) => Returned(r) = Due(r)

\* The scan from the newest slot to the oldest finds that registration.
LEMMA ReturnedIsDue ==
    ASSUME IInv, ~faulted, NEW r \in Request, Invokes(r)
    PROVE  Returned(r) = Due(r)
<1> DEFINE m == r.method
           q == queue[m]
<1>1. m \in Name /\ TableOK /\ InOrder
  BY DEF Request, Invokes, IInv
<1>2. q \in Seq(Registration) /\ Len(q) \in Nat /\ DOMAIN q = 1..Len(q)
  BY <1>1, LenProperties DEF TableOK
<1>3. PICK g : Leads(m, g)
  BY <1>1 DEF InOrder
<1>4. CASE q = <<>>
  <2>1. DOMAIN q = {}
    BY <1>4
  <2>2. SlotsOf(m) = {}
    BY <1>3, <2>1 DEF Leads
  <2>3. QED BY <1>4, <2>2 DEF Returned, Due
<1>5. CASE q # <<>>
  <2>1. Len(q) \in DOMAIN q /\ \A k \in DOMAIN q : k = Len(q) \/ k < Len(q)
    BY <1>2, <1>5, EmptySeq
  <2>2. PICK i : i = g[Len(q)]
    OBVIOUS
  <2>3. i \in SlotsOf(m) /\ i \in 1..cb_count /\ cb_array[i].function = q[Len(q)].function
    BY <1>3, <2>1, <2>2 DEF Leads
  <2>4. \A j \in SlotsOf(m) : j = i \/ j < i
    BY <1>3, <2>1, <2>2 DEF Leads
  <2>5. \A j \in 1..cb_count : NewestFirst(j, m) <=> j = i
    <3>1. cb_count \in Nat /\ SlotsOf(m) \subseteq 1..cb_count
      BY <1>1 DEF TableOK, SlotsOf
    <3>2. NewestFirst(i, m)
      BY <2>3, <2>4, <3>1 DEF NewestFirst
    <3>3. ASSUME NEW j \in 1..cb_count, NewestFirst(j, m) PROVE j = i
      <4>1. j \in SlotsOf(m) /\ i \notin (j + 1)..cb_count
        BY <2>3, <3>3 DEF NewestFirst
      <4>2. QED BY <2>3, <2>4, <3>1, <4>1
    <3>4. QED BY <3>2, <3>3
  <2>6. Chosen(m) = i
    BY <2>3, <2>5 DEF Chosen
  <2>7. QED BY <1>5, <2>3, <2>6 DEF Returned, Due
<1>6. QED BY <1>4, <1>5

\* mjsonrpc.c:160-182: a call is answered by the newest live registration of
\* its method, whatever was added or deleted before.
THEOREM NewestAnswers == Spec => []AnswersDue
<1>1. IInv => AnswersDue
  BY ReturnedIsDue DEF AnswersDue
<1>2. QED BY <1>1, TableInvariance, PTL

-----------------------------------------------------------------------------
(* The elements of a sequence at some of its positions.                    *)

\* Picked takes them in their order.
LEMMA PickedProperties ==
    ASSUME NEW T, NEW s \in Seq(T), NEW J \in SUBSET (DOMAIN s)
    PROVE  /\ Picked(s, J) \in Seq(T)
           /\ \E g : /\ Lists(g, Len(Picked(s, J)), J)
                     /\ \A k \in 1..Len(Picked(s, J)) : Picked(s, J)[k] = s[g[k]]
<1>1. Len(s) \in Nat /\ DOMAIN s = 1..Len(s) /\ \A n \in 1..Len(s) : s[n] \in T
  BY LenProperties, ElementOfSeq
<1> DEFINE Kept(f) == [n \in 0..Len(s) |->
                          IF n = 0 THEN << >>
                          ELSE IF n \in J THEN Append(f[n - 1], s[n]) ELSE f[n - 1]]
           kept == CHOOSE f : f = Kept(f)
           step == [n \in 1..Len(s) |-> [q \in Seq(T) |-> IF n \in J THEN Append(q, s[n]) ELSE q]]
<1>2. Picked(s, J) = kept[Len(s)]
  BY DEF Picked
<1>3. kept = Kept(kept)
  <2>1. step \in [1..Len(s) -> [Seq(T) -> Seq(T)]]
    <3>1. \A n \in 1..Len(s), q \in Seq(T) : Append(q, s[n]) \in Seq(T)
      BY <1>1, AppendProperties
    <3>2. QED BY <3>1
  <2>2. << >> \in Seq(T)
    BY EmptySeq
  <2>3. PICK f \in [0..Len(s) -> Seq(T)] :
            f[0] = << >> /\ \A n \in 1..Len(s) : f[n] = step[n][f[n - 1]]
    <3>1. step \in Steps(Len(s), Seq(T))
      BY <2>1 DEF Steps
    <3> HIDE DEF step
    <3>2. \E f : Follows(f, Len(s), Seq(T), << >>, step)
      BY <1>1, <2>2, <3>1, RecursionUpTo
    <3>3. QED BY <3>2 DEF Follows
  <2>4. ASSUME NEW n \in 0..Len(s)
        PROVE  f[n] = IF n = 0 THEN << >>
                      ELSE IF n \in J THEN Append(f[n - 1], s[n]) ELSE f[n - 1]
    <3>1. CASE n = 0
      BY <2>3, <3>1
    <3>2. CASE n # 0
      <4>1. n \in 1..Len(s) /\ n - 1 \in 0..Len(s) /\ f[n - 1] \in Seq(T)
        BY <1>1, <2>3, <3>2
      <4>2. QED BY <2>3, <3>2, <4>1
    <3>3. QED BY <3>1, <3>2
  <2>5. f = Kept(f)
    BY <2>3, <2>4
  <2> HIDE DEF Kept
  <2>6. QED BY <2>5
<1> HIDE DEF kept, step
<1>4. /\ kept[0] = << >>
      /\ \A n \in 1..Len(s) : kept[n] = IF n \in J THEN Append(kept[n - 1], s[n]) ELSE kept[n - 1]
  <2>1. \A n \in 0..Len(s) :
            Kept(kept)[n] = IF n = 0 THEN << >>
                            ELSE IF n \in J THEN Append(kept[n - 1], s[n]) ELSE kept[n - 1]
    OBVIOUS
  <2> HIDE DEF Kept
  <2>2. \A n \in 0..Len(s) :
            kept[n] = IF n = 0 THEN << >>
                      ELSE IF n \in J THEN Append(kept[n - 1], s[n]) ELSE kept[n - 1]
    BY <1>3, <2>1
  <2>3. 0 \in 0..Len(s) /\ \A n \in 1..Len(s) : n \in 0..Len(s) /\ n # 0
    BY <1>1
  <2>4. QED BY <2>2, <2>3
<1> HIDE DEF Kept
<1> DEFINE Below(n) == {j \in J : j <= n}
           Good(n, g) == /\ Lists(g, Len(kept[n]), Below(n))
                         /\ \A k \in 1..Len(kept[n]) : kept[n][k] = s[g[k]]
           S == {n \in 0..Len(s) : kept[n] \in Seq(T) /\ \E g : Good(n, g)}
<1>5. 0 \in S
  <2> DEFINE g == [k \in 1..0 |-> 0]
  <2>1. Below(0) = {} /\ Len(kept[0]) = 0 /\ kept[0] \in Seq(T)
    BY <1>1, <1>4, EmptySeq
  <2>2. Lists(g, 0, {})
    BY DEF Lists
  <2>3. Good(0, g)
    <3>1. Lists(g, Len(kept[0]), Below(0))
      <4> HIDE DEF g, Below
      <4>1. QED BY <2>1, <2>2
    <3>2. \A k \in 1..Len(kept[0]) : kept[0][k] = s[g[k]]
      <4> HIDE DEF g, Below
      <4>1. QED BY <2>1
    <3>3. QED BY <3>1, <3>2
  <2>4. 0 \in 0..Len(s)
    BY <1>1
  <2> HIDE DEF Good, g
  <2>5. QED BY <2>1, <2>3, <2>4
<1>6. ASSUME NEW m \in 0..Len(s), m \in S, m < Len(s) PROVE m + 1 \in S
  <2> DEFINE n == m + 1
  <2>1. n \in 1..Len(s) /\ n \in 0..Len(s) /\ n - 1 = m
    BY <1>1, <1>6
  <2>2. PICK g : Good(m, g)
    BY <1>6
  <2>3. /\ kept[m] \in Seq(T) /\ Len(kept[m]) \in Nat
    BY <1>6, LenProperties
  <2>4. kept[n] = IF n \in J THEN Append(kept[m], s[n]) ELSE kept[m]
    BY <1>4, <2>1
  <2>5. \A j \in J : j \in Int
    BY <1>1
  <2>6. Below(n) = IF n \in J THEN Below(m) \union {n} ELSE Below(m)
    BY <2>1, <2>5
  <2>7. \A j \in Below(m) : j \in Int /\ j < n
    BY <2>1, <2>5
  <2>8. CASE n \notin J
    <3>1. kept[n] = kept[m] /\ Below(n) = Below(m)
      BY <2>4, <2>6, <2>8
    <3> HIDE DEF Below
    <3>2. Good(n, g)
      BY <2>2, <3>1
    <3> HIDE DEF n, Good
    <3>3. QED BY <2>1, <2>3, <3>1, <3>2 DEF n
  <2>9. CASE n \in J
    <3> DEFINE L == Len(kept[m])
               h == [k \in 1..(L + 1) |-> IF k = L + 1 THEN n ELSE g[k]]
    <3>1. kept[n] = Append(kept[m], s[n]) /\ Below(n) = Below(m) \union {n} /\ s[n] \in T
      BY <1>1, <2>1, <2>4, <2>6, <2>9
    <3>2. /\ kept[n] \in Seq(T) /\ Len(kept[n]) = L + 1 /\ L \in Nat
          /\ \A k \in 1..L : kept[n][k] = kept[m][k]
          /\ kept[n][L + 1] = s[n]
      BY <2>3, <3>1, AppendProperties
    <3> HIDE DEF n, Below
    <3>3. Lists(g, L, Below(m)) /\ \A k \in 1..L : kept[m][k] = s[g[k]]
      BY <2>2
    <3> HIDE DEF L
    <3>4. Lists(h, L + 1, Below(n))
      <4>1. \A k \in 1..(L + 1) : k # L + 1 => k \in 1..L
        BY <3>2
      <4>2. \A k \in 1..L : g[k] \in Below(m) /\ k \in 1..(L + 1) /\ k # L + 1 /\ h[k] = g[k]
        BY <3>2, <3>3 DEF Lists
      <4>3. L + 1 \in 1..(L + 1) /\ h[L + 1] = n
        BY <3>2
      <4>4. h \in [1..(L + 1) -> Below(n)]
        BY <3>1, <4>1, <4>2
      <4>5. ASSUME NEW k \in 1..(L + 1), NEW l \in 1..(L + 1), k < l PROVE h[k] < h[l]
        <5>1. k \in 1..L
          BY <3>2, <4>5
        <5>2. CASE l = L + 1
          BY <2>7, <4>2, <4>3, <5>1, <5>2
        <5>3. CASE l # L + 1
          BY <3>3, <4>1, <4>2, <4>5, <5>1, <5>3 DEF Lists
        <5>4. QED BY <5>2, <5>3
      <4>6. ASSUME NEW i \in Below(n) PROVE \E k \in 1..(L + 1) : h[k] = i
        <5>1. CASE i = n
          BY <4>3, <5>1
        <5>2. CASE i \in Below(m)
          <6>1. PICK k \in 1..L : g[k] = i
            BY <3>3, <5>2 DEF Lists
          <6>2. QED BY <4>2, <6>1
        <5>3. QED BY <3>1, <5>1, <5>2
      <4> HIDE DEF h
      <4>7. QED BY <4>4, <4>5, <4>6 DEF Lists
    <3>5. \A k \in 1..(L + 1) : kept[n][k] = s[h[k]]
      BY <3>2, <3>3
    <3> HIDE DEF h
    <3>6. Good(n, h)
      BY <3>2, <3>4, <3>5
    <3> HIDE DEF Good
    <3>7. QED BY <2>1, <3>2, <3>6 DEF n
  <2>10. QED BY <2>8, <2>9
<1>7. Len(s) \in S
  <2> HIDE DEF S
  <2>1. 0..Len(s) \subseteq S
    BY <1>1, <1>5, <1>6, InductionUpTo
  <2>2. QED BY <1>1, <2>1
<1>8. Below(Len(s)) = J
  BY <1>1
<1> HIDE DEF Below
<1>9. QED BY <1>2, <1>7, <1>8

-----------------------------------------------------------------------------
(* What the array holds, and what a batch is answered.                     *)

LEMMA RegisteredIsQueue ==
    ASSUME IInv, ~faulted, NEW n \in Name
    PROVE  Registered(n) = queue[n]
<1> DEFINE J == {i \in DOMAIN cb_array : cb_array[i] # Wild /\ cb_array[i].name = n}
           mine == Picked(cb_array, J)
           q == queue[n]
<1>1. /\ TableOK /\ InOrder /\ cb_count \in Nat
      /\ cb_array \in Seq(Slot \union {Wild}) /\ Len(cb_array) \in Nat
      /\ DOMAIN cb_array = 1..Len(cb_array) /\ Len(cb_array) <= cb_count
      /\ q \in Seq(Registration) /\ Len(q) \in Nat /\ DOMAIN q = 1..Len(q)
  BY LenProperties DEF IInv, TableOK
<1>2. J = SlotsOf(n) /\ J \in SUBSET Int /\ J \in SUBSET DOMAIN cb_array
  <2>1. \A i \in DOMAIN cb_array : i \in 1..cb_count
    BY <1>1
  <2>2. \A i \in SlotsOf(n) : i \in DOMAIN cb_array /\ cb_array[i] # Wild /\ cb_array[i].name = n
    BY DEF SlotsOf, IsWild
  <2>3. QED BY <1>1, <2>1, <2>2 DEF SlotsOf, IsWild
<1>3. Registered(n) = [k \in DOMAIN mine |-> [function |-> mine[k].function, arg |-> mine[k].arg]]
  BY DEF Registered
<1> HIDE DEF J
<1>4. /\ mine \in Seq(Slot \union {Wild})
      /\ \E g : /\ Lists(g, Len(mine), J)
                /\ \A k \in 1..Len(mine) : mine[k] = cb_array[g[k]]
  BY <1>1, <1>2, PickedProperties
<1> HIDE DEF mine
<1>5. PICK g : /\ Lists(g, Len(mine), J)
               /\ \A k \in 1..Len(mine) : mine[k] = cb_array[g[k]]
  BY <1>4
<1>6. PICK h : Leads(n, h)
  BY <1>1 DEF InOrder
<1>7. Lists(h, Len(q), J)
  BY <1>1, <1>2, <1>6 DEF Leads, Lists
<1>8. Len(mine) \in Nat /\ DOMAIN mine = 1..Len(mine)
  BY <1>4, LenProperties
<1> HIDE DEF q
<1>9. Len(mine) = Len(q) /\ g = h
  BY <1>1, <1>2, <1>5, <1>7, <1>8, OneList
<1>10. ASSUME NEW k \in 1..Len(q)
       PROVE  [function |-> mine[k].function, arg |-> mine[k].arg] = q[k]
  <2>1. mine[k] = cb_array[h[k]]
    BY <1>5, <1>9
  <2>2. cb_array[h[k]].function = q[k].function /\ cb_array[h[k]].arg = q[k].arg
    BY <1>1, <1>6 DEF Leads, q
  <2>3. q[k] \in Registration
    BY <1>1, ElementOfSeq
  <2>4. q[k] = [function |-> q[k].function, arg |-> q[k].arg]
    BY <2>3 DEF Registration
  <2>5. QED BY <2>1, <2>2, <2>4
<1>11. Registered(n) = [k \in 1..Len(q) |-> q[k]]
  BY <1>3, <1>8, <1>9, <1>10
<1>12. q = [k \in 1..Len(q) |-> q[k]]
  BY <1>1
<1>13. QED BY <1>11, <1>12 DEF q

\* mjsonrpc.c:197-214, 248-279: through any sequence of additions, deletions,
\* moved slots and failed allocations, the array holds for every name its
\* registrations that were not deleted, in the order they were made.
THEOREM RegistrationsKept == Spec => []NothingMislaid
<1>1. IInv => NothingMislaid
  BY RegisteredIsQueue DEF NothingMislaid
<1>2. QED BY <1>1, TableInvariance, PTL

\* What is due is an answer or nothing.
LEMMA DueTypes ==
    ASSUME IInv, NEW r \in Request
    PROVE  /\ Due(r)[2] # "nothing" => Due(r) \in Body
           /\ ~Invokes(r) => Due(r) = <<Dispatcher, "invalid request">>
<1>1. CASE ~Invokes(r)
  BY <1>1 DEF Due, Body
<1>2. CASE Invokes(r)
  <2> DEFINE q == queue[r.method]
  <2>1. q \in Seq(Registration)
    BY <1>2 DEF Request, Invokes, IInv, TableOK
  <2>2. CASE q = <<>>
    BY <1>2, <2>2 DEF Due, Body
  <2>3. CASE q # <<>>
    <3>1. Len(q) \in 1..Len(q)
      BY <2>1, <2>3, EmptySeq, LenProperties
    <3>2. q[Len(q)] \in Registration
      BY <2>1, <3>1, ElementOfSeq
    <3>3. PICK f \in Function : f = q[Len(q)].function
      BY <3>2 DEF Registration
    <3>4. Due(r) = <<f, Behaviour[f]>>
      BY <1>2, <2>3, <3>3 DEF Due
    <3>5. Behaviour[f] \in {"result", "error", "nothing"}
      BY BehaviourAssumption
    <3>6. Due(r)[2] = Behaviour[f]
      BY <3>4
    <3>7. Behaviour[f] \in {"result", "error"} => <<f, Behaviour[f]>> \in Body
      BY DEF Body
    <3>8. QED BY <1>2, <3>4, <3>5, <3>6, <3>7
  <2>4. QED BY <2>2, <2>3
<1>3. QED BY <1>1, <1>2

\* The replies to a batch without a fault: to each request that is due one.
LEMMA ResponsesDue ==
    ASSUME IInv, ~faulted, NEW b \in Batches, b.reqs # <<>>
    PROVE  LET due == Picked(b.reqs, {k \in DOMAIN b.reqs :
                                          b.reqs[k].id # NoId /\ Due(b.reqs[k])[2] # "nothing"})
           IN  /\ due \in Seq(Request)
               /\ Responses(b) = [k \in 1..Len(due) |-> ResponseTo(due[k])]
               /\ \A k \in 1..Len(due) :
                     /\ due[k] \in Request /\ due[k].id # NoId
                     /\ Due(due[k])[2] # "nothing"
                     /\ ResponseTo(due[k]).body = Due(due[k])
<1> DEFINE s == b.reqs
           A == {k \in DOMAIN s : IsAnswered(s[k])}
           D == {k \in DOMAIN s : s[k].id # NoId /\ Due(s[k])[2] # "nothing"}
           due == Picked(s, D)
<1>1. s \in Seq(Request)
  BY BatchAssumption DEF Batch
<1>2. \A k \in DOMAIN s : s[k] \in Request
  BY <1>1, ElementOfSeq, LenProperties
<1>3. ASSUME NEW r \in Request
      PROVE  /\ IsAnswered(r) <=> r.id # NoId /\ Due(r)[2] # "nothing"
             /\ ResponseTo(r).body = Due(r)
  <2>1. CASE Invokes(r)
    BY <2>1, ReturnedIsDue DEF IsAnswered, ResponseTo
  <2>2. CASE ~Invokes(r)
    <3>1. Due(r) = <<Dispatcher, "invalid request">>
      BY <2>2, DueTypes
    <3>2. Due(r)[2] # "nothing"
      BY <2>2 DEF Due
    <3>3. ResponseTo(r).body = <<Dispatcher, "invalid request">>
      BY <2>2 DEF ResponseTo
    <3>4. QED BY <2>2, <3>1, <3>2, <3>3 DEF IsAnswered
  <2>3. QED BY <2>1, <2>2
<1>4. A = D
  BY <1>2, <1>3
<1>5. D \in SUBSET (DOMAIN s)
  OBVIOUS
<1>6. Responses(b) = [k \in DOMAIN due |-> ResponseTo(due[k])]
  BY <1>4 DEF Responses
<1>7. \A k \in D : s[k].id # NoId /\ Due(s[k])[2] # "nothing"
  OBVIOUS
<1> HIDE DEF D, s
<1>8. /\ due \in Seq(Request)
      /\ \E g : /\ Lists(g, Len(due), D)
                /\ \A k \in 1..Len(due) : due[k] = s[g[k]]
  BY <1>1, <1>5, PickedProperties
<1> HIDE DEF due
<1>9. PICK g : /\ Lists(g, Len(due), D)
               /\ \A k \in 1..Len(due) : due[k] = s[g[k]]
  BY <1>8
<1>10. DOMAIN due = 1..Len(due)
  BY <1>8, LenProperties
<1>11. ASSUME NEW k \in 1..Len(due)
       PROVE  /\ due[k] \in Request /\ due[k].id # NoId
              /\ Due(due[k])[2] # "nothing"
              /\ ResponseTo(due[k]).body = Due(due[k])
  <2>1. g[k] \in D /\ due[k] = s[g[k]]
    BY <1>9 DEF Lists
  <2>2. due[k] \in Request
    BY <1>8, ElementOfSeq
  <2>3. QED BY <1>3, <1>7, <2>1, <2>2
<1>12. Responses(b) = [k \in 1..Len(due) |-> ResponseTo(due[k])]
  BY <1>6, <1>10
<1>13. QED BY <1>8, <1>11, <1>12 DEF due, D, s

\* The last operation of a step, unless it processed a batch.
LEMMA OtherOperations ==
    ASSUME IInv, [Next]_vars
    PROVE  \/ UNCHANGED vars
           \/ \E b \in Batches : mjrpc_process_cjson(b)
           \/ last' \in [op : {"none"}]
                           \union [op : {"add", "del"}, ret : {"OK", "MEM_ALLOC_FAILED", "NOT_FOUND"}]
                           \union [op : {"del_all"}, ret : {"NOT_FOUND"}, of : Nat]
<1>1. ASSUME NEW n \in Name, NEW f \in Function, NEW a \in Arg \union {NoArg},
             mjrpc_add_method(n, f, a)
      PROVE  last' \in [op : {"none"}]
                 \union [op : {"add", "del"}, ret : {"OK", "MEM_ALLOC_FAILED", "NOT_FOUND"}]
  <2>1. \/ last' = None
        \/ \E ret \in {"OK", "MEM_ALLOC_FAILED"} : last' = [op |-> "add", ret |-> ret]
    BY <1>1 DEF mjrpc_add_method, AddMethod, AddWithoutMemory, AddBehindArray
  <2>2. QED BY <2>1 DEF None
<1>2. ASSUME mjrpc_del_method
      PROVE  last' \in [op : {"none"}]
                 \union [op : {"add", "del"}, ret : {"OK", "MEM_ALLOC_FAILED", "NOT_FOUND"}]
                 \union [op : {"del_all"}, ret : {"NOT_FOUND"}, of : Nat]
  <2>1. \/ last' = None
        \/ \E ret \in {"OK", "MEM_ALLOC_FAILED", "NOT_FOUND"} : last' = [op |-> "del", ret |-> ret]
        \/ last' = [op |-> "del_all", ret |-> "NOT_FOUND", of |-> cb_count]
    <3>1. ASSUME NEW n \in Name, DelMethod(n)
          PROVE  \E ret \in {"OK", "MEM_ALLOC_FAILED", "NOT_FOUND"} : last' = [op |-> "del", ret |-> ret]
      <4>1. \/ last' = [op |-> "del", ret |-> "OK"]
            \/ \E ret \in {"OK"} \union (IF cb_count > 1 THEN {"MEM_ALLOC_FAILED"} ELSE {}) :
                  last' = [op |-> "del", ret |-> ret]
        BY <3>1 DEF DelMethod
      <4>2. QED BY <4>1
    <3>2. QED BY <1>2, <3>1 DEF mjrpc_del_method, DelFaults, DelOfNothing, DelAll, DelAllFaults
  <2>2. cb_count \in Nat
    BY DEF IInv, TableOK
  <2>3. QED BY <2>1, <2>2 DEF None
<1>3. QED BY <1>1, <1>2 DEF Next

\* CallsAnswered, with the state it reads as arguments.
DueFrom(q, r) ==
    IF ~Invokes(r) THEN <<Dispatcher, "invalid request">>
    ELSE IF q[r.method] = <<>> THEN <<Dispatcher, "method not found">>
    ELSE LET f == q[r.method][Len(q[r.method])].function IN <<f, Behaviour[f]>>

Answered(q, reqs, replies) ==
    LET due == Picked(reqs, {k \in DOMAIN reqs :
                                 reqs[k].id # NoId /\ DueFrom(q, reqs[k])[2] # "nothing"})
    IN  /\ Len(replies) = Len(due)
        /\ \A k \in DOMAIN due :
              /\ replies[k].body = DueFrom(q, due[k])
              /\ due[k].id # BadId => replies[k].id = due[k].id

LEMMA AnsweredNext == ASSUME IInv, CallsAnswered, [Next]_vars PROVE CallsAnswered'
<1>1. CASE UNCHANGED vars
  <2>1. \A r : Due(r)' = Due(r)
    BY <1>1 DEF vars, Due, Invokes
  <2>2. last' = last
    BY <1>1 DEF vars
  <2>3. QED BY <2>1, <2>2 DEF CallsAnswered
<1>2. ASSUME NEW b \in Batches, mjrpc_process_cjson(b) PROVE CallsAnswered'
  <2>1. ~faulted /\ queue' = queue
    BY <1>2 DEF mjrpc_process_cjson
  <2>2. \A r : Due(r)' = Due(r)
    BY <2>1 DEF Due, Invokes
  <2>3. CASE last' = None
    BY <2>3 DEF None, CallsAnswered
  <2>4. CASE last' = [op |-> "process", batch |-> b, replies |-> Responses(b)]
    <3>1. CASE b.reqs = <<>>
      BY <2>4, <3>1 DEF CallsAnswered
    <3>2. CASE b.reqs # <<>>
      <4> DEFINE D == {k \in DOMAIN b.reqs :
                           b.reqs[k].id # NoId /\ Due(b.reqs[k])[2] # "nothing"}
                 due == Picked(b.reqs, D)
      <4>1. /\ due \in Seq(Request)
            /\ Responses(b) = [k \in 1..Len(due) |-> ResponseTo(due[k])]
            /\ \A k \in 1..Len(due) : ResponseTo(due[k]).body = Due(due[k])
        BY <2>1, <3>2, ResponsesDue
      <4>a. CallsAnswered' <=>
                (last'.op = "process" /\ last'.batch.reqs # <<>> =>
                    Answered(queue', last'.batch.reqs, last'.replies))
        BY DEF CallsAnswered, Answered, Due, DueFrom, Invokes
      <4>b. /\ last'.op = "process" /\ last'.batch.reqs = b.reqs
            /\ last'.replies = Responses(b)
        BY <2>4
      <4>c. CallsAnswered' <=> Answered(queue, b.reqs, Responses(b))
        BY <2>1, <3>2, <4>a, <4>b
      <4>2. CallsAnswered' <=>
                /\ Len(Responses(b)) = Len(due)
                /\ \A k \in DOMAIN due :
                      /\ Responses(b)[k].body = Due(due[k])
                      /\ due[k].id # BadId => Responses(b)[k].id = due[k].id
        BY <4>c DEF Answered, Due, DueFrom, Invokes
      <4> HIDE DEF due
      <4>3. Len(due) \in Nat /\ DOMAIN due = 1..Len(due)
        BY <4>1, LenProperties
      <4>4. Len(Responses(b)) = Len(due)
        BY <4>1, <4>3
      <4>5. \A k \in DOMAIN due : Responses(b)[k] = ResponseTo(due[k])
        BY <4>1, <4>3
      <4>6. \A k \in DOMAIN due : due[k].id # BadId => ResponseTo(due[k]).id = due[k].id
        BY DEF ResponseTo
      <4>7. QED BY <4>1, <4>2, <4>3, <4>4, <4>5, <4>6
    <3>3. QED BY <3>1, <3>2
  <2>5. QED BY <1>2, <2>3, <2>4 DEF mjrpc_process_cjson
<1>3. ASSUME last'.op # "process" PROVE CallsAnswered'
  BY <1>3 DEF CallsAnswered
<1>4. QED BY <1>1, <1>2, <1>3, OtherOperations

\* mjsonrpc.c:90-97, 110-182: the requests of a batch that have an id are
\* answered in their order, each once and under its own id, a call by the
\* newest live registration of its method.
THEOREM BatchesAnswered == Spec => []CallsAnswered
<1>1. Init => CallsAnswered
  BY DEF Init, None, CallsAnswered
<1>2. QED BY <1>1, InitIInv, StepKeeps, AnsweredNext, PTL DEF Spec

\* The type invariant: mjsonrpc.c:33-44, what a handle, a reply and a return
\* value can be.
THEOREM TypeCorrect == Spec => []TypeOK
<1>1. Init => TypeOK
  <2>1. ASSUME Init PROVE TypeOK
    <3>1. IInv
      BY <2>1, InitIInv
    <3>2. last \in [op : {"none"}] /\ faulted \in BOOLEAN
      BY <2>1 DEF Init, None
    <3>3. QED BY <3>1, <3>2 DEF TypeOK, IInv, TableOK
  <2>2. QED BY <2>1
<1>2. ASSUME IInv, TypeOK, [Next]_vars PROVE TypeOK'
  <2> DEFINE Lasts == [op : {"none"}]
                         \union [op : {"add", "del"}, ret : {"OK", "MEM_ALLOC_FAILED", "NOT_FOUND"}]
                         \union [op : {"del_all"}, ret : {"NOT_FOUND"}, of : Nat]
                         \union [op : {"process"}, batch : Batch, replies : Seq(Response)]
  <2>1. IInv'
    BY <1>2, StepKeeps
  <2>2. faulted' \in BOOLEAN
    BY <1>2 DEF TypeOK, Next, vars, mjrpc_add_method, AddMethod, AddWithoutMemory, AddBehindArray,
                mjrpc_del_method, DelMethod, DelFaults, DelOfNothing, DelAll, DelAllFaults,
                mjrpc_process_cjson
  <2>3. last' \in Lasts
    <3>1. CASE UNCHANGED vars
      BY <1>2, <3>1 DEF vars, TypeOK
    <3>2. ASSUME NEW b \in Batches, mjrpc_process_cjson(b) PROVE last' \in Lasts
      <4>1. ~faulted
        BY <3>2 DEF mjrpc_process_cjson
      <4>2. Responses(b) \in Seq(Response)
        <5>1. CASE b.reqs = <<>>
          <6>1. InvalidRequest \in Response
            BY DEF InvalidRequest, Response, Body
          <6>2. QED BY <5>1, <6>1 DEF Responses
        <5>2. CASE b.reqs # <<>>
          <6> DEFINE D == {k \in DOMAIN b.reqs :
                               b.reqs[k].id # NoId /\ Due(b.reqs[k])[2] # "nothing"}
                     due == Picked(b.reqs, D)
          <6>1. /\ due \in Seq(Request)
                /\ Responses(b) = [k \in 1..Len(due) |-> ResponseTo(due[k])]
                /\ \A k \in 1..Len(due) :
                     /\ due[k] \in Request /\ due[k].id # NoId
                     /\ Due(due[k])[2] # "nothing"
                     /\ ResponseTo(due[k]).body = Due(due[k])
            BY <1>2, <4>1, <5>2, ResponsesDue
          <6> HIDE DEF due
          <6>2. Len(due) \in Nat
            BY <6>1, LenProperties
          <6>3. ASSUME NEW k \in 1..Len(due) PROVE ResponseTo(due[k]) \in Response
            <7>1. Due(due[k]) \in Body /\ due[k].id \in Id \union {NullId, BadId}
              BY <1>2, <6>1, DueTypes DEF Request
            <7>2. ResponseTo(due[k]).body \in Body
              BY <6>1, <7>1
            <7>3. (IF due[k].id = BadId THEN NullId ELSE due[k].id) \in Id \union {NullId}
              BY <7>1
            <7>4. QED BY <7>2, <7>3 DEF ResponseTo, Response
          <6>4. QED BY <6>1, <6>2, <6>3
        <5>3. QED BY <5>1, <5>2
      <4>3. b \in Batch
        BY BatchAssumption
      <4>4. last' = None \/ last' = [op |-> "process", batch |-> b, replies |-> Responses(b)]
        BY <3>2 DEF mjrpc_process_cjson
      <4>5. QED BY <4>2, <4>3, <4>4 DEF None
    <3>3. QED BY <1>2, <3>1, <3>2, OtherOperations
  <2>4. QED BY <2>1, <2>2, <2>3 DEF TypeOK, IInv, TableOK
<1>3. QED BY <1>1, <1>2, InitIInv, StepKeeps, PTL DEF Spec
=============================================================================
