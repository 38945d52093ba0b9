---------------------------- MODULE OrderingProofs ----------------------------
(***************************************************************************)
(* Facts about sorting and about sets of numbers.  The library states      *)
(* induction for operators; here it is taken from the well-foundedness of  *)
(* the naturals instead: the set of counterexamples has a least one.       *)
(***************************************************************************)
EXTENDS Ordering, FiniteSetTheorems, TLAPS

(* A set of naturals has a least element. *)
LEMMA LeastElement ==
  ASSUME NEW U, U \subseteq Nat, U # {}
  PROVE \E m \in U : \A l \in U : m <= l
<1> DEFINE R == OpToRel(<, Nat)
<1>1. IsWellFoundedOn(R, Nat)
  BY NatLessThanWellFounded
<1>2. \A l, m \in Nat : l < m => <<l, m>> \in R
  BY DEF OpToRel
<1> HIDE DEF R
<1>3. PICK m \in U : \A l \in U : ~ (<<l, m>> \in R)
  BY <1>1, WFMin
<1>4. ASSUME NEW l \in U PROVE m <= l
  <2>1. l \in Nat /\ m \in Nat
    OBVIOUS
  <2>2. ~(l < m)
    BY <1>2, <1>3, <2>1
  <2> QED BY <2>1, <2>2
<1> QED BY <1>4

(* A bounded set of naturals has a largest element. *)
LEMMA Largest ==
  ASSUME NEW n \in Nat, NEW P, P \subseteq 1..n, P # {}
  PROVE \E i \in P : \A k \in P : k <= i
<1> DEFINE U == {m \in Nat : \A k \in P : k <= m}
<1>1. U \subseteq Nat /\ n \in U
  OBVIOUS
<1>2. PICK m \in U : \A l \in U : m <= l
  <2> HIDE DEF U
  <2> QED BY <1>1, LeastElement
<1>3. m \in P
  <2> SUFFICES ASSUME m \notin P PROVE FALSE
    OBVIOUS
  <2>0. PICK k \in P : TRUE
    OBVIOUS
  <2>1. k \in Nat /\ 1 <= k /\ k <= m /\ m \in Nat
    OBVIOUS
  <2>2. m - 1 \in Nat /\ m > 0
    BY <2>1
  <2>3. \A i \in P : i <= m - 1
    <3> SUFFICES ASSUME NEW i \in P PROVE i <= m - 1
      OBVIOUS
    <3>1. i \in Nat /\ i <= m /\ i # m
      OBVIOUS
    <3> QED BY <2>1, <3>1
  <2>4. m <= m - 1
    BY <1>2, <2>2, <2>3
  <2> QED BY <2>1, <2>4
<1> QED BY <1>3

(* A set that has 0, and with each number the next, has all naturals. *)
LEMMA SetInduction ==
  ASSUME NEW T, 0 \in T, \A n \in Nat : n \in T => n + 1 \in T
  PROVE  \A n \in Nat : n \in T
<1> DEFINE U == Nat \ T
<1> SUFFICES ASSUME U # {} PROVE FALSE
  OBVIOUS
<1>1. PICK m \in U : \A l \in U : m <= l
  <2>1. U \subseteq Nat
    OBVIOUS
  <2> HIDE DEF U
  <2> QED BY <2>1, LeastElement
<1>2. m \in Nat /\ m # 0 /\ m \notin T
  OBVIOUS
<1>3. m - 1 \in Nat /\ (m - 1) + 1 = m
  BY <1>2
<1>4. m - 1 \in T
  <2> SUFFICES ASSUME m - 1 \notin T PROVE FALSE
    OBVIOUS
  <2>1. m - 1 \in U
    BY <1>3
  <2>2. m <= m - 1
    BY <1>1, <2>1
  <2> QED BY <1>2, <1>3, <2>2
<1> QED BY <1>2, <1>3, <1>4

(* A strict order on S in which any two elements are related. *)
Orders(R, S) ==
  /\ \A x \in S : <<x, x>> \notin R
  /\ \A x, y, z \in S : <<x, y>> \in R /\ <<y, z>> \in R => <<x, z>> \in R
  /\ \A x, y \in S : x # y => <<x, y>> \in R \/ <<y, x>> \in R

(* A finite set that is not empty has a last element: one that as few      *)
(* others as possible come after.                                          *)
LEMMA LastElement ==
  ASSUME NEW S, IsFiniteSet(S), S # {}, NEW R, Orders(R, S)
  PROVE  \E x \in S : \A y \in S : y # x => <<y, x>> \in R
<1> DEFINE after(x) == {y \in S : <<x, y>> \in R}
           N == {Cardinality(after(x)) : x \in S}
<1>1. \A x \in S : IsFiniteSet(after(x)) /\ Cardinality(after(x)) \in Nat
  BY FS_Subset, FS_CardinalityType
<1>2. PICK x \in S : \A y \in S : Cardinality(after(x)) <= Cardinality(after(y))
  <2>1. N \subseteq Nat /\ N # {}
    BY <1>1
  <2>2. PICK m \in N : \A l \in N : m <= l
    <3> HIDE DEF N
    <3> QED BY <2>1, LeastElement
  <2>3. PICK x \in S : m = Cardinality(after(x))
    <3> HIDE DEF after
    <3> QED BY <2>2
  <2>4. \A y \in S : Cardinality(after(y)) \in N
    <3> HIDE DEF after
    <3> QED OBVIOUS
  <2>5. \A y \in S : Cardinality(after(x)) <= Cardinality(after(y))
    <3> HIDE DEF after, N
    <3> QED BY <2>2, <2>3, <2>4
  <2> QED BY <2>5
<1>3. ASSUME NEW y \in S, y # x PROVE <<y, x>> \in R
  <2> SUFFICES ASSUME <<x, y>> \in R PROVE FALSE
    BY <1>3 DEF Orders
  <2>1. after(y) \subseteq after(x) /\ y \in after(x) /\ y \notin after(y)
    BY DEF Orders
  <2>2. Cardinality(after(y)) <= Cardinality(after(x)) /\ Cardinality(after(y)) # Cardinality(after(x))
    <3> DEFINE A == after(x)
               B == after(y)
    <3>1. IsFiniteSet(A) /\ B \in SUBSET A /\ A # B
      BY <1>1, <2>1
    <3> HIDE DEF A, B
    <3>2. Cardinality(B) <= Cardinality(A) /\ Cardinality(B) # Cardinality(A)
      BY <3>1, FS_Subset
    <3> QED BY <3>2 DEF A, B
  <2>3. Cardinality(after(x)) <= Cardinality(after(y))
    BY <1>2
  <2>4. Cardinality(after(x)) \in Nat /\ Cardinality(after(y)) \in Nat
    BY <1>1
  <2> HIDE DEF after
  <2> QED BY <2>2, <2>3, <2>4
<1> QED BY <1>3

Sorted(s, n, R) == \A k, l \in 1..n : k < l => <<s[k], s[l]>> \in R

(* Any finite set can be put in order: its last element comes after the    *)
(* others in order.                                                        *)
LEMMA OrderExists ==
  ASSUME NEW S, IsFiniteSet(S), NEW R, Orders(R, S)
  PROVE  \E s \in [1..Cardinality(S) -> S] : Sorted(s, Cardinality(S), R)
<1> DEFINE Has(T) == \E s \in [1..Cardinality(T) -> T] : Sorted(s, Cardinality(T), R)
           Sizes == {n \in Nat : \A T \in SUBSET S : Cardinality(T) = n => Has(T)}
<1>1. \A T \in SUBSET S : IsFiniteSet(T) /\ Cardinality(T) \in Nat /\ Orders(R, T)
  BY FS_Subset, FS_CardinalityType DEF Orders
<1>2. 0 \in Sizes
  <2> SUFFICES ASSUME NEW T \in SUBSET S, Cardinality(T) = 0 PROVE Has(T)
    OBVIOUS
  <2> DEFINE s == [k \in 1..0 |-> CHOOSE x \in T : TRUE]
  <2>1. s \in [1..0 -> T] /\ Sorted(s, 0, R)
    BY DEF Sorted
  <2> QED BY <2>1
<1>3. ASSUME NEW n \in Nat, n \in Sizes PROVE n + 1 \in Sizes
  <2> SUFFICES ASSUME NEW T \in SUBSET S, Cardinality(T) = n + 1 PROVE Has(T)
    OBVIOUS
  <2>1. T # {}
    BY FS_EmptySet
  <2>2. PICK x \in T : \A y \in T : y # x => <<y, x>> \in R
    BY <1>1, <2>1, LastElement
  <2>3. Cardinality(T \ {x}) = n /\ T \ {x} \in SUBSET S
    <3>1. Cardinality(T \ {x}) = Cardinality(T) - 1
      BY <1>1, FS_RemoveElement
    <3> QED BY <3>1
  <2>4. PICK s \in [1..n -> T \ {x}] : Sorted(s, n, R)
    BY <1>3, <2>3
  <2> DEFINE t == [k \in 1..(n + 1) |-> IF k = n + 1 THEN x ELSE s[k]]
  <2>5. t \in [1..(n + 1) -> T]
    <3>1. \A k \in 1..(n + 1) : k = n + 1 \/ k \in 1..n
      OBVIOUS
    <3> QED BY <3>1
  <2>6. ASSUME NEW k \in 1..(n + 1), NEW l \in 1..(n + 1), k < l PROVE <<t[k], t[l]>> \in R
    <3>1. k \in 1..n /\ t[k] = s[k] /\ s[k] \in T \ {x}
      BY <2>6
    <3>2. CASE l = n + 1
      BY <2>2, <3>1, <3>2
    <3>3. CASE l # n + 1
      <4>1. l \in 1..n /\ t[l] = s[l]
        BY <3>3
      <4> QED BY <2>4, <2>6, <3>1, <4>1 DEF Sorted
    <3> QED BY <3>2, <3>3
  <2>7. Sorted(t, n + 1, R)
    BY <2>6 DEF Sorted
  <2> QED BY <2>5, <2>7
<1>4. Cardinality(S) \in Sizes
  <2> HIDE DEF Sizes
  <2>1. \A n \in Nat : n \in Sizes
    BY <1>2, <1>3, SetInduction
  <2> QED BY <1>1, <2>1
<1> QED BY <1>4

(* What InOrder makes of a set: all its elements, each once, in order.     *)
LEMMA InOrderSorts ==
  ASSUME NEW S, IsFiniteSet(S), NEW R, Orders(R, S)
  PROVE  LET s == InOrder(S, R)
             n == Cardinality(S)
         IN  /\ n \in Nat /\ s \in [1..n -> S] /\ s \in Seq(S) /\ Len(s) = n
             /\ \A k, l \in 1..n : k < l => <<s[k], s[l]>> \in R
             /\ \A k, l \in 1..n : s[k] = s[l] => k = l
             /\ \A x \in S : \E k \in 1..n : s[k] = x
<1> DEFINE s == InOrder(S, R)
           n == Cardinality(S)
<1>1. n \in Nat
  BY FS_CardinalityType
<1>2. s \in [1..n -> S] /\ \A k, l \in 1..n : k < l => <<s[k], s[l]>> \in R
  BY OrderExists DEF InOrder, Sorted
<1> HIDE DEF s, n
<1>3. s \in Seq(S) /\ Len(s) = n
  BY <1>1, <1>2
<1>4. ASSUME NEW k \in 1..n, NEW l \in 1..n, s[k] = s[l] PROVE k = l
  <2>1. s[k] \in S /\ s[l] \in S
    BY <1>2
  <2>2. ~(k < l) /\ ~(l < k)
    BY <1>2, <1>4, <2>1 DEF Orders
  <2> QED BY <2>2
<1>5. s \in Surjection(1..n, S)
  <2>1. s \in Injection(1..n, S)
    BY <1>2, <1>4 DEF Injection, IsInjective
  <2>2. Cardinality(1..n) = n
    BY <1>1, FS_Interval
  <2> QED BY <2>1, <2>2, FS_Injection DEF n
<1>6. \A x \in S : \E k \in 1..n : s[k] = x
  BY <1>5 DEF Surjection
<1> QED BY <1>1, <1>2, <1>3, <1>4, <1>6 DEF s, n

(* Numbers are in their own order. *)
LEMMA AscendingOrders ==
  ASSUME NEW N, N \subseteq Nat
  PROVE  Orders(Ascending, N)
BY DEF Orders, Ascending

(* What the column of a table comes to: the least and the greatest of the   *)
(* numbers in it are among them.                                            *)
LEMMA ColumnBounds ==
  ASSUME NEW n \in Nat, n # 0, NEW f \in [1..n -> Nat]
  PROVE  LET C == {f[k] : k \in 1..n}
         IN  /\ Smallest(C) \in Nat /\ Greatest(C) \in Nat
             /\ Smallest(C) \in C /\ Greatest(C) \in C
             /\ \A m \in C : Smallest(C) <= m /\ m <= Greatest(C)
<1> DEFINE C == {f[k] : k \in 1..n}
<1>1. C \subseteq Nat
  OBVIOUS
<1>2. C # {}
  <2>1. 1 \in 1..n
    OBVIOUS
  <2>2. f[1] \in C
    BY <2>1
  <2> QED BY <2>2
<1>3. IsFiniteSet(C)
  <2>1. f \in Surjection(1..n, C)
    BY DEF Surjection
  <2>2. IsFiniteSet(1..n)
    BY FS_Interval
  <2> HIDE DEF C
  <2> QED BY <2>1, <2>2, FS_Surjection
<1> HIDE DEF C
<1>4. \E m \in C : \A l \in C : m <= l
  BY <1>1, <1>2, LeastElement
<1>5. \E m \in C : \A l \in C : m >= l
  <2>1. PICK m \in C : \A l \in C : l # m => <<l, m>> \in Ascending
    <3>1. Orders(Ascending, C)
      BY <1>1, AscendingOrders
    <3> QED BY <1>2, <1>3, <3>1, LastElement
  <2>2. \A l \in C : l # m => l < m
    BY <1>1, <2>1 DEF Ascending
  <2> QED BY <1>1, <2>2
<1>6. Smallest(C) \in C /\ \A l \in C : Smallest(C) <= l
  BY <1>4 DEF Smallest
<1>7. Greatest(C) \in C /\ \A l \in C : Greatest(C) >= l
  BY <1>5 DEF Greatest
<1>8. \A m \in C : Smallest(C) <= m /\ m <= Greatest(C)
  BY <1>1, <1>6, <1>7
<1>9. Smallest(C) \in Nat /\ Greatest(C) \in Nat
  BY <1>1, <1>6, <1>7
<1> QED BY <1>6, <1>7, <1>8, <1>9 DEF C
===============================================================================
