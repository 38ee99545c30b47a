------------------------------ MODULE Induction ------------------------------
(***************************************************************************)
(* Induction over the naturals, stated with sets instead of operators: the *)
(* set of the numbers that have a property takes the property's place.     *)
(***************************************************************************)
EXTENDS Integers, WellFoundedInduction, TLAPS

Less == {p \in Nat \X Nat : p[1] < p[2]}

\* Every set of naturals has a least element.
LEMMA LeastNat ==
    ASSUME NEW T \in SUBSET Nat, T # {}
    PROVE  \E m \in T : \A k \in T : m <= k
<1>1. IsWellFoundedOn(Less, Nat)
  BY NatLessThanWellFounded DEF OpToRel, Less
<1>2. PICK m \in T : \A k \in T : <<k, m>> \notin Less
  BY <1>1, WFMin
<1>3. ASSUME NEW k \in T PROVE m <= k
  <2>1. m \in Nat /\ k \in Nat /\ <<k, m>> \notin Less
    BY <1>2
  <2>2. ~(k < m)
    BY <2>1 DEF Less
  <2>3. QED BY <2>1, <2>2
<1>4. QED BY <1>3

\* A set of naturals that holds 0 and with each number the next holds all.
LEMMA InductionSet ==
    ASSUME NEW S \in SUBSET Nat, 0 \in S, \A n \in S : n + 1 \in S
    PROVE  S = Nat
<1>1. SUFFICES ASSUME Nat \ S # {} PROVE FALSE
  OBVIOUS
<1>2. PICK m \in Nat \ S : \A k \in Nat \ S : m <= k
  BY <1>1, LeastNat
<1>3. m - 1 \in S /\ m = (m - 1) + 1
  BY <1>2
<1>4. QED BY <1>2, <1>3

\* The same up to a bound.
LEMMA InductionUpTo ==
    ASSUME NEW N \in Nat, NEW S, 0 \in S, \A n \in 0..N : n \in S /\ n < N => n + 1 \in S
    PROVE  0..N \subseteq S
<1> DEFINE T == {n \in Nat : n <= N => n \in S}
<1>1. 0 \in T /\ \A n \in T : n + 1 \in T
  OBVIOUS
<1>2. T = Nat
  <2> HIDE DEF T
  <2>1. T \in SUBSET Nat
    BY DEF T
  <2>2. QED BY <1>1, <2>1, InductionSet
<1>3. QED BY <1>2

\* The steps that lead from each of N values in X to the next.
Steps(N, X) == [1..N -> [X -> X]]

\* f begins with x and goes on by the steps.
Follows(f, N, X, x, step) ==
    /\ f \in [0..N -> X]
    /\ f[0] = x
    /\ \A n \in 1..N : f[n] = step[n][f[n - 1]]

\* A function can be defined up to a bound from its value at 0 and the step
\* that leads from each value to the next.
LEMMA RecursionUpTo ==
    ASSUME NEW N \in Nat, NEW X, NEW x \in X, NEW step \in Steps(N, X)
    PROVE  \E f : Follows(f, N, X, x, step)
<1> USE DEF Steps
<1> DEFINE Upto(m, f) == f[0] = x /\ \A n \in 1..m : f[n] = step[n][f[n - 1]]
           S == {m \in 0..N : \E f \in [0..m -> X] : Upto(m, f)}
<1>1. 0 \in S
  <2> DEFINE g == [k \in 0..0 |-> x]
  <2>1. g \in [0..0 -> X] /\ Upto(0, g)
    OBVIOUS
  <2> HIDE DEF g, Upto
  <2>2. QED BY <2>1
<1>2. ASSUME NEW m \in 0..N, m \in S, m < N PROVE m + 1 \in S
  <2>1. PICK f \in [0..m -> X] : Upto(m, f)
    BY <1>2
  <2> DEFINE g == [k \in 0..(m + 1) |-> IF k = m + 1 THEN step[m + 1][f[m]] ELSE f[k]]
  <2>2. m + 1 \in 1..N /\ m \in 0..m /\ \A k \in 0..(m + 1) : k # m + 1 => k \in 0..m
    BY <1>2
  <2>3. g \in [0..(m + 1) -> X]
    BY <2>1, <2>2
  <2>4. ASSUME NEW n \in 1..(m + 1) PROVE g[n] = step[n][g[n - 1]]
    <3>1. CASE n = m + 1
      BY <3>1
    <3>2. CASE n # m + 1
      <4>1. n \in 1..m /\ n - 1 \in 0..m /\ n \in 0..m /\ n - 1 # m + 1
        BY <3>2
      <4>2. QED BY <2>1, <4>1
    <3>3. QED BY <3>1, <3>2
  <2>5. g[0] = x
    BY <2>1
  <2>6. m + 1 \in 0..N
    BY <1>2
  <2> HIDE DEF g
  <2>7. QED BY <2>3, <2>4, <2>5, <2>6
<1>3. 0..N \subseteq S
  <2> HIDE DEF S
  <2>1. QED BY <1>1, <1>2, InductionUpTo
<1>4. N \in S
  BY <1>3
<1>5. QED BY <1>4 DEF Follows

\* g lists the elements of the set I of integers in their order.
Lists(g, n, I) ==
    /\ g \in [1..n -> I]
    /\ \A k, l \in 1..n : k < l => g[k] < g[l]
    /\ \A i \in I : \E k \in 1..n : g[k] = i

\* A set of integers can be listed in one way only.
LEMMA OneList ==
    ASSUME NEW I \in SUBSET Int, NEW m \in Nat, NEW n \in Nat, NEW f, NEW g,
           Lists(f, m, I), Lists(g, n, I)
    PROVE  m = n /\ f = g
<1>1. ASSUME NEW a \in Nat, NEW b \in Nat, NEW u, NEW v, Lists(u, a, I), Lists(v, b, I),
             NEW k \in 1..a, \A j \in 1..(k - 1) : j \in 1..b /\ u[j] = v[j]
      PROVE  k \in 1..b /\ v[k] <= u[k]
  <2>1. PICK l \in 1..b : v[l] = u[k]
    BY <1>1 DEF Lists
  <2>2. ~ (l < k)
    <3>1. l < k => l \in 1..(k - 1) /\ l \in 1..a /\ u[l] = v[l]
      BY <1>1
    <3>2. l < k => u[l] < u[k] /\ u[l] \in Int /\ u[k] \in Int
      BY <1>1, <3>1 DEF Lists
    <3>3. QED BY <2>1, <3>1, <3>2
  <2>3. k \in 1..b
    BY <2>1, <2>2
  <2>4. v[k] <= v[l]
    <3>1. v[k] \in Int /\ v[l] \in Int
      BY <1>1, <2>3 DEF Lists
    <3>2. CASE k = l
      BY <3>1, <3>2
    <3>3. CASE k < l
      BY <1>1, <2>3, <3>1, <3>3 DEF Lists
    <3>4. QED BY <2>2, <3>2, <3>3
  <2>5. QED BY <2>1, <2>3, <2>4
<1> DEFINE Same(k) == \A j \in 1..k : j \in 1..m /\ j \in 1..n /\ f[j] = g[j]
<1>2. ASSUME NEW k \in Nat, Same(k), k + 1 \in 1..m \/ k + 1 \in 1..n PROVE Same(k + 1)
  <2>1. (k + 1) - 1 = k
    OBVIOUS
  <2>2. k + 1 \in 1..m => k + 1 \in 1..n /\ g[k + 1] <= f[k + 1]
    <3>1. ASSUME k + 1 \in 1..m PROVE k + 1 \in 1..n /\ g[k + 1] <= f[k + 1]
      BY <1>1, <1>2, <2>1, <3>1
    <3>2. QED BY <3>1
  <2>3. k + 1 \in 1..n => k + 1 \in 1..m /\ f[k + 1] <= g[k + 1]
    <3>1. ASSUME k + 1 \in 1..n PROVE k + 1 \in 1..m /\ f[k + 1] <= g[k + 1]
      <4>1. \A j \in 1..((k + 1) - 1) : j \in 1..m /\ g[j] = f[j]
        BY <1>2, <2>1
      <4>2. QED BY <1>1, <3>1, <4>1
    <3>2. QED BY <3>1
  <2>4. k + 1 \in 1..m /\ k + 1 \in 1..n /\ f[k + 1] = g[k + 1]
    <3>1. k + 1 \in 1..m /\ k + 1 \in 1..n /\ f[k + 1] <= g[k + 1] /\ g[k + 1] <= f[k + 1]
      BY <1>2, <2>2, <2>3
    <3>2. f[k + 1] \in Int /\ g[k + 1] \in Int
      BY <3>1 DEF Lists
    <3>3. QED BY <3>1, <3>2
  <2>5. \A j \in 1..(k + 1) : j \in 1..k \/ j = k + 1
    OBVIOUS
  <2>6. QED BY <1>2, <2>4, <2>5
<1> HIDE DEF Same
<1>3. ASSUME NEW b \in Nat, b = m \/ b = n PROVE Same(b)
  <2> DEFINE S == {k \in 0..b : Same(k)}
  <2>1. 0 \in S
    BY DEF Same
  <2>2. ASSUME NEW k \in 0..b, k \in S, k < b PROVE k + 1 \in S
    <3>1. k + 1 \in 1..m \/ k + 1 \in 1..n
      BY <1>3, <2>2
    <3>2. k + 1 \in 0..b
      BY <2>2
    <3>3. QED BY <1>2, <2>2, <3>1, <3>2
  <2>3. 0..b \subseteq S
    <3> HIDE DEF S
    <3>1. QED BY <2>1, <2>2, InductionUpTo
  <2>4. QED BY <2>3
<1>4. m = n
  <2>1. Same(m) /\ Same(n)
    BY <1>3
  <2>2. m \in Nat /\ n \in Nat /\ (m # 0 => m \in 1..m) /\ (n # 0 => n \in 1..n)
    OBVIOUS
  <2>3. QED BY <2>1, <2>2 DEF Same
<1>5. \A j \in 1..m : f[j] = g[j]
  BY <1>3 DEF Same
<1>6. f \in [1..m -> I] /\ g \in [1..m -> I]
  BY <1>4 DEF Lists
<1>7. QED BY <1>4, <1>5, <1>6
==============================================================================
