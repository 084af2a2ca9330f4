---------------------------- MODULE SumsTheorems ----------------------------
(***************************************************************************)
(* The laws of SumOf that the accounting proofs cite.                       *)
(***************************************************************************)
EXTENDS Sums, FiniteSetTheorems, WellFoundedInduction, TLAPS

\* One row owns as many cents as its amount: they are counted by 1..n.
LEMMA RowCents ==
    ASSUME NEW x, NEW n \in Nat
    PROVE  /\ IsFiniteSet({x} \X (1..n))
           /\ Cardinality({x} \X (1..n)) = n
<1>1. IsFiniteSet({x}) /\ Cardinality({x}) = 1
  BY FS_Singleton
<1>2. IsFiniteSet(1..n) /\ Cardinality(1..n) = n
  BY FS_Interval
<1>3. /\ IsFiniteSet({x} \X (1..n))
      /\ Cardinality({x} \X (1..n)) = Cardinality({x}) * Cardinality(1..n)
  BY <1>1, <1>2, FS_Product
<1> QED
  BY <1>1, <1>2, <1>3

\* Finitely many rows own finitely many cents, so a sum is a number.
LEMMA SumType ==
    ASSUME NEW S, IsFiniteSet(S), NEW f, \A x \in S : f[x] \in Nat
    PROVE  IsFiniteSet(Cents(S, f)) /\ SumOf(S, f) \in Nat
<1> DEFINE Rows == {{x} \X (1..f[x]) : x \in S}
           Row == [x \in S |-> {x} \X (1..f[x])]
<1>1. IsFiniteSet(Rows)
  <2>1. Row \in Surjection(S, Rows)
    BY DEF Surjection
  <2> HIDE DEF Rows, Row
  <2> QED BY <2>1, FS_Surjection
<1>2. \A T \in Rows : IsFiniteSet(T)
  <2>1. \A x \in S : IsFiniteSet({x} \X (1..f[x]))
    BY RowCents
  <2> QED BY <2>1
<1>3. IsFiniteSet(UNION Rows)
  <2> HIDE DEF Rows
  <2> QED BY <1>1, <1>2, FS_UNION
<1>4. Cents(S, f) = UNION Rows
  BY DEF Cents
<1> QED
  BY <1>3, <1>4, FS_CardinalityType DEF SumOf

LEMMA SumEmpty == \A f : SumOf({}, f) = 0
  BY FS_EmptySet DEF SumOf, Cents

\* Adding a row adds its amount.
LEMMA SumAdd ==
    ASSUME NEW S, IsFiniteSet(S), NEW f, NEW x, x \notin S,
           f[x] \in Nat, \A y \in S : f[y] \in Nat
    PROVE  SumOf(S \cup {x}, f) = SumOf(S, f) + f[x]
<1>1. Cents(S \cup {x}, f) = Cents(S, f) \cup ({x} \X (1..f[x]))
  BY DEF Cents
<1>2. Cents(S, f) \cap ({x} \X (1..f[x])) = {}
  BY DEF Cents
<1>3. IsFiniteSet(Cents(S, f))
  BY SumType
<1>4. IsFiniteSet({x} \X (1..f[x])) /\ Cardinality({x} \X (1..f[x])) = f[x]
  BY RowCents
<1>5. Cardinality(Cents(S, f) \cup ({x} \X (1..f[x])))
        = Cardinality(Cents(S, f)) + Cardinality({x} \X (1..f[x]))
            - Cardinality(Cents(S, f) \cap ({x} \X (1..f[x])))
  BY <1>3, <1>4, FS_Union
<1>6. Cardinality({}) = 0
  BY FS_EmptySet
<1>7. Cardinality(Cents(S, f)) \in Nat
  BY <1>3, FS_CardinalityType
<1>8. Cardinality(Cents(S \cup {x}, f)) = Cardinality(Cents(S, f)) + f[x]
  <2>1. Cardinality(Cents(S, f) \cap ({x} \X (1..f[x]))) = 0
    BY <1>2, <1>6
  <2>2. Cardinality(Cents(S \cup {x}, f))
          = Cardinality(Cents(S, f)) + f[x] - 0
    BY <1>1, <1>4, <1>5, <2>1
  <2> QED BY <2>2, <1>7
<1> QED
  BY <1>8 DEF SumOf

\* Removing a row removes its amount.
LEMMA SumRemove ==
    ASSUME NEW S, IsFiniteSet(S), NEW f, NEW x \in S, \A y \in S : f[y] \in Nat
    PROVE  SumOf(S, f) = SumOf(S \ {x}, f) + f[x]
<1>1. IsFiniteSet(S \ {x})
  BY FS_RemoveElement
<1>2. SumOf((S \ {x}) \cup {x}, f) = SumOf(S \ {x}, f) + f[x]
  BY <1>1, SumAdd
<1>3. (S \ {x}) \cup {x} = S
  OBVIOUS
<1> QED
  BY <1>2, <1>3

\* A sum depends only on the amounts of the rows summed.
LEMMA SumAgree ==
    ASSUME NEW S, NEW f, NEW g, \A x \in S : f[x] = g[x]
    PROVE  SumOf(S, f) = SumOf(S, g)
<1>1. Cents(S, f) = Cents(S, g)
  BY DEF Cents
<1> QED
  BY <1>1 DEF SumOf

\* One row brings no more than all of them.
LEMMA SumAtLeast ==
    ASSUME NEW S, IsFiniteSet(S), NEW f, NEW x \in S, \A y \in S : f[y] \in Nat
    PROVE  f[x] <= SumOf(S, f)
<1>1. SumOf(S \ {x}, f) \in Nat
  BY FS_RemoveElement, SumType
<1> QED
  BY <1>1, SumRemove

\* Rows that each bring less, bring less together.
LEMMA SumLess ==
    ASSUME NEW S, IsFiniteSet(S), S # {}, NEW f, NEW g,
           \A x \in S : f[x] \in Nat /\ g[x] \in Nat /\ f[x] < g[x]
    PROVE  SumOf(S, f) < SumOf(S, g)
<1>1. Cents(S, f) \in SUBSET Cents(S, g)
  BY DEF Cents
<1>2. PICK x \in S : TRUE
  OBVIOUS
<1>3. <<x, g[x]>> \in Cents(S, g)
  <2>1. g[x] \in 1..g[x]
    BY <1>2
  <2> QED
    BY <1>2, <2>1 DEF Cents
<1>4. <<x, g[x]>> \notin Cents(S, f)
  <2> SUFFICES ASSUME <<x, g[x]>> \in Cents(S, f) PROVE FALSE
    OBVIOUS
  <2>1. PICK y \in S : <<x, g[x]>> \in {y} \X (1..f[y])
    BY DEF Cents
  <2> QED
    BY <2>1
<1>5. IsFiniteSet(Cents(S, g)) /\ SumOf(S, g) \in Nat /\ SumOf(S, f) \in Nat
  BY SumType
<1>6. SumOf(S, f) <= SumOf(S, g) /\ SumOf(S, g) # SumOf(S, f)
  BY <1>1, <1>3, <1>4, <1>5, FS_Subset DEF SumOf
<1> QED
  BY <1>5, <1>6

\* Amounts that are added row by row add up to the sums added.
LEMMA SumPlus ==
    ASSUME NEW S, IsFiniteSet(S), NEW f, NEW g, NEW h,
           \A x \in S : f[x] \in Nat /\ g[x] \in Nat /\ h[x] = f[x] + g[x]
    PROVE  SumOf(S, h) = SumOf(S, f) + SumOf(S, g)
<1> DEFINE Upper == { c \in Cents(S, h) : c[2] > f[c[1]] }
           shift == [c \in Cents(S, g) |-> <<c[1], f[c[1]] + c[2]>>]
<1>1. \A k, c : c \in Cents(S, k) <=> \E x \in S : c \in {x} \X (1..k[x])
  BY DEF Cents
<1>2. \A c \in Cents(S, g) : c[1] \in S /\ c[2] \in 1..g[c[1]] /\ c = <<c[1], c[2]>>
  BY <1>1
<1>3. \A c \in Cents(S, h) : c[1] \in S /\ c[2] \in 1..h[c[1]] /\ c = <<c[1], c[2]>>
  BY <1>1
<1>4. \A c \in Cents(S, f) : c[1] \in S /\ c[2] \in 1..f[c[1]] /\ c = <<c[1], c[2]>>
  BY <1>1
<1>5. \A x \in S : \A i : i \in 1..h[x] => <<x, i>> \in Cents(S, h)
  BY <1>1
<1>6. \A x \in S : \A i : i \in 1..f[x] => <<x, i>> \in Cents(S, f)
  BY <1>1
<1>7. \A x \in S : \A i : i \in 1..g[x] => <<x, i>> \in Cents(S, g)
  BY <1>1
<1>8. Cents(S, h) = Cents(S, f) \cup Upper
  <2>1. \A c \in Cents(S, f) : c \in Cents(S, h)
    <3> SUFFICES ASSUME NEW c \in Cents(S, f) PROVE c \in Cents(S, h)
      OBVIOUS
    <3>1. c[1] \in S /\ c[2] \in 1..h[c[1]] /\ c = <<c[1], c[2]>>
      BY <1>4
    <3> QED
      BY <3>1, <1>5
  <2>2. \A c \in Cents(S, h) : c \notin Upper => c \in Cents(S, f)
    <3> SUFFICES ASSUME NEW c \in Cents(S, h), c \notin Upper PROVE c \in Cents(S, f)
      OBVIOUS
    <3>1. c[1] \in S /\ c[2] \in 1..f[c[1]] /\ c = <<c[1], c[2]>>
      BY <1>3
    <3> QED
      BY <3>1, <1>6
  <2> QED
    BY <2>1, <2>2
<1>9. Cents(S, f) \cap Upper = {}
  BY <1>4
<1>10. shift \in Bijection(Cents(S, g), Upper)
  <2>1. \A c \in Cents(S, g) : shift[c] \in Upper
    <3> SUFFICES ASSUME NEW c \in Cents(S, g) PROVE shift[c] \in Upper
      OBVIOUS
    <3>1. c[1] \in S /\ c[2] \in 1..g[c[1]]
      BY <1>2
    <3>2. f[c[1]] + c[2] \in 1..h[c[1]] /\ f[c[1]] + c[2] > f[c[1]]
      BY <3>1
    <3>3. shift[c] = <<c[1], f[c[1]] + c[2]>> /\ shift[c] \in Cents(S, h)
      BY <1>5, <3>1, <3>2
    <3> QED
      BY <3>2, <3>3
  <2>2. \A c, d \in Cents(S, g) : shift[c] = shift[d] => c = d
    <3> SUFFICES ASSUME NEW c \in Cents(S, g), NEW d \in Cents(S, g), shift[c] = shift[d] PROVE c = d
      OBVIOUS
    <3>1. c[1] = d[1] /\ f[c[1]] + c[2] = f[d[1]] + d[2]
      OBVIOUS
    <3>2. c[1] \in S /\ c[2] \in 1..g[c[1]] /\ d[2] \in 1..g[d[1]]
      BY <1>2
    <3>3. f[c[1]] \in Nat /\ g[c[1]] \in Nat /\ g[d[1]] = g[c[1]] /\ f[d[1]] = f[c[1]]
      BY <3>1, <3>2
    <3>4. c[2] = d[2]
      BY <3>1, <3>2, <3>3
    <3> QED
      BY <1>2, <3>1, <3>4
  <2>3. \A e \in Upper : \E c \in Cents(S, g) : shift[c] = e
    <3> SUFFICES ASSUME NEW e \in Upper PROVE \E c \in Cents(S, g) : shift[c] = e
      OBVIOUS
    <3>1. e[1] \in S /\ e[2] \in 1..h[e[1]] /\ e[2] > f[e[1]] /\ e = <<e[1], e[2]>>
      BY <1>3
    <3>2. e[2] - f[e[1]] \in 1..g[e[1]] /\ f[e[1]] + (e[2] - f[e[1]]) = e[2]
      BY <3>1
    <3>3. <<e[1], e[2] - f[e[1]]>> \in Cents(S, g)
      BY <1>7, <3>1, <3>2
    <3>4. shift[<<e[1], e[2] - f[e[1]]>>] = e
      BY <3>1, <3>2, <3>3
    <3> QED
      BY <3>3, <3>4
  <2> QED
    BY <2>1, <2>2, <2>3 DEF Bijection, Injection, Surjection, IsInjective
<1> HIDE DEF Upper, shift
<1>11. IsFiniteSet(Cents(S, f)) /\ IsFiniteSet(Cents(S, g)) /\ SumOf(S, f) \in Nat /\ SumOf(S, g) \in Nat
  BY SumType
<1>12. IsFiniteSet(Upper) /\ Cardinality(Upper) = Cardinality(Cents(S, g))
  BY <1>10, <1>11, FS_Bijection DEF ExistsBijection
<1>13. Cardinality(Cents(S, h)) = Cardinality(Cents(S, f)) + Cardinality(Upper) - Cardinality(Cents(S, f) \cap Upper)
  BY <1>8, <1>11, <1>12, FS_Union
<1>14. Cardinality(Cents(S, f) \cap Upper) = 0
  BY <1>9, FS_EmptySet
<1> QED
  BY <1>11, <1>12, <1>13, <1>14 DEF SumOf

\* A set of natural numbers has a least one.
LEMMA LeastOfSome ==
    ASSUME NEW T \in SUBSET Nat, T # {}
    PROVE  \E a \in T : \A b \in T : a <= b
<1> DEFINE R == OpToRel(<, Nat)
<1>1. PICK a \in T : \A b \in T : ~(<<b, a>> \in R)
  BY NatLessThanWellFounded, WFMin
<1>2. \A b \in T : ~(b < a)
  BY <1>1 DEF OpToRel
<1> QED
  BY <1>2

\* Amounts taken k times add up to k times the sum.
LEMMA SumTimes ==
    ASSUME NEW S, IsFiniteSet(S), NEW f, \A x \in S : f[x] \in Nat, NEW k \in Nat
    PROVE  SumOf(S, [x \in S |-> f[x] * k]) = SumOf(S, f) * k
<1> DEFINE Times(n) == [x \in S |-> f[x] * n]
           Wrong == { n \in Nat : SumOf(S, Times(n)) # SumOf(S, f) * n }
<1>1. \A n \in Nat : \A x \in S : Times(n)[x] \in Nat
  OBVIOUS
<1>2. SumOf(S, f) \in Nat /\ \A n \in Nat : SumOf(S, Times(n)) \in Nat
  BY <1>1, SumType
<1>3. \A n \in Nat : SumOf(S, Times(n + 1)) = SumOf(S, Times(n)) + SumOf(S, f)
  <2> SUFFICES ASSUME NEW n \in Nat
               PROVE  SumOf(S, Times(n + 1)) = SumOf(S, Times(n)) + SumOf(S, f)
    OBVIOUS
  <2>1. \A x \in S : Times(n)[x] \in Nat /\ Times(n + 1)[x] = Times(n)[x] + f[x]
    OBVIOUS
  <2> HIDE DEF Times
  <2> QED
    BY <2>1, SumPlus
<1>4. SumOf(S, Times(0)) = 0
  <2>1. Cents(S, Times(0)) = {}
    BY DEF Cents
  <2> QED
    BY <2>1, FS_EmptySet DEF SumOf
<1> HIDE DEF Times
<1>5. Wrong = {}
  <2> SUFFICES ASSUME Wrong # {} PROVE FALSE
    OBVIOUS
  <2>1. PICK n \in Wrong : \A m \in Wrong : n <= m
    BY LeastOfSome
  <2>2. n \in Nat /\ n # 0
    BY <1>2, <1>4
  <2>3. n - 1 \in Nat /\ n - 1 \notin Wrong
    BY <2>1, <2>2
  <2>4. SumOf(S, Times(n - 1)) = SumOf(S, f) * (n - 1)
    BY <2>3
  <2>5. SumOf(S, Times((n - 1) + 1)) = SumOf(S, Times(n - 1)) + SumOf(S, f)
    BY <1>3, <2>3
  <2>6. (n - 1) + 1 = n
    BY <2>2
  <2>7. SumOf(S, f) * (n - 1) + SumOf(S, f) = SumOf(S, f) * n
    BY <1>2, <2>2
  <2> QED
    BY <2>4, <2>5, <2>6, <2>7
<1> QED
  BY <1>5 DEF Times
=============================================================================
