---------------------------- MODULE Points_proofs ----------------------------
(* Facts about totals of points and about least elements.                   *)
EXTENDS Points, FiniteSetTheorems, FunctionTheorems, WellFoundedInduction, TLAPS

(* A nonempty set of natural numbers has a least element.                    *)
LEMMA NatMinimum ==
  ASSUME NEW T, T \subseteq Nat, T # {}
  PROVE  \E x \in T : \A y \in T : x <= y
<1>1. \E x \in T : \A y \in T : ~ (<<y, x>> \in OpToRel(<, Nat))
  BY WFMin, NatLessThanWellFounded
<1>2. ASSUME NEW x \in T, NEW y \in T, ~ (<<y, x>> \in OpToRel(<, Nat))
      PROVE  x <= y
  BY <1>2 DEF OpToRel
<1> QED  BY <1>1, <1>2

(* Some element of a nonempty set has the least value under f.               *)
LEMMA LeastValue ==
  ASSUME NEW S, S # {}, NEW f, \A s \in S : f[s] \in Nat
  PROVE  \E s \in S : \A t \in S : f[s] <= f[t]
<1> DEFINE V == {f[s] : s \in S}
<1>1. V \subseteq Nat /\ V # {}
  OBVIOUS
<1>2. PICK v \in V : \A w \in V : v <= w
  BY <1>1, NatMinimum
<1> QED  BY <1>2

(* Finitely many numbers count finitely many points.                         *)
LEMMA UnitsFinite ==
  ASSUME NEW S, IsFiniteSet(S), NEW f \in [S -> Nat]
  PROVE  IsFiniteSet(Units(f))
<1> DEFINE Row(x) == {x} \X (1..f[x])
           Rows == {Row(x) : x \in S}
           R == [x \in S |-> Row(x)]
<1>1. \A x \in S : IsFiniteSet(Row(x))
  <2> TAKE x \in S
  <2>1. IsFiniteSet({x})
    BY FS_Singleton
  <2>2. IsFiniteSet(1..f[x])
    BY FS_Interval
  <2> QED  BY <2>1, <2>2, FS_Product
<1>2. R \in Surjection(S, Rows)
  BY DEF Surjection
<1>3. IsFiniteSet(Rows)
  BY <1>2, FS_Surjection
<1>4. IsFiniteSet(UNION Rows)
  <2> HIDE DEF Row
  <2> QED  BY <1>1, <1>3, FS_UNION
<1> QED  BY <1>4 DEF Units

(* A total of natural numbers is a natural number.                           *)
LEMMA TotalType ==
  ASSUME NEW S, IsFiniteSet(S), NEW f \in [S -> Nat]
  PROVE  Total(f) \in Nat
BY UnitsFinite, FS_CardinalityType DEF Total

-----------------------------------------------------------------------------
(* Adding up *)

(* Induction over the subsets of a finite set: what holds of a set if it     *)
(* holds of the set without any one of its elements holds of the whole.      *)
LEMMA SubsetInduction ==
  ASSUME NEW S, IsFiniteSet(S), NEW Good,
         {} \in Good,
         \A T \in SUBSET S : T # {} /\ (\A x \in T : T \ {x} \in Good) => T \in Good
  PROVE  S \in Good
<1> SUFFICES ASSUME S \notin Good PROVE FALSE
  OBVIOUS
<1> DEFINE sizes == {Cardinality(T) : T \in (SUBSET S) \ Good}
<1>1. \A T \in SUBSET S : IsFiniteSet(T) /\ Cardinality(T) \in Nat
  BY FS_Subset, FS_CardinalityType
<1>2. sizes \subseteq Nat /\ sizes # {}
  BY <1>1
<1>3. PICK n \in sizes : \A m \in sizes : n <= m
  BY <1>2, NatMinimum
<1>4. PICK T \in (SUBSET S) \ Good : n = Cardinality(T)
  BY <1>3
<1>5. ASSUME NEW x \in T PROVE T \ {x} \in Good
  <2>1. Cardinality(T \ {x}) = Cardinality(T) - 1
    BY <1>1, FS_RemoveElement
  <2>2. ~(Cardinality(T) <= Cardinality(T \ {x}))
    BY <1>1, <2>1
  <2> QED  BY <1>3, <1>4, <2>2
<1> QED  BY <1>4, <1>5

(* Nothing adds up to nothing.                                             *)
LEMMA TotalOfNone ==
  ASSUME NEW f, DOMAIN f = {}
  PROVE  Total(f) = 0
<1>1. Units(f) = {}
  BY DEF Units
<1> QED  BY <1>1, FS_EmptySet DEF Total

(* A total is the sum of the totals of two parts.                          *)
LEMMA TotalSplit ==
  ASSUME NEW S, IsFiniteSet(S), NEW f \in [S -> Nat], NEW T \in SUBSET S
  PROVE  Total(f) = Total([x \in T |-> f[x]]) + Total([x \in S \ T |-> f[x]])
<1> DEFINE a == [x \in T |-> f[x]]
           b == [x \in S \ T |-> f[x]]
<1>1. IsFiniteSet(T) /\ IsFiniteSet(S \ T)
  BY FS_Subset, FS_Difference
<1>2. a \in [T -> Nat] /\ b \in [S \ T -> Nat]
  OBVIOUS
<1>3. IsFiniteSet(Units(a)) /\ IsFiniteSet(Units(b))
  BY <1>1, <1>2, UnitsFinite
<1>4. Units(f) = Units(a) \cup Units(b)
  BY DEF Units
<1>5. Units(a) \cap Units(b) = {}
  BY DEF Units
<1> HIDE DEF a, b
<1>6. Cardinality(Units(a)) \in Nat /\ Cardinality(Units(b)) \in Nat
  BY <1>3, FS_CardinalityType
<1>7. Cardinality(Units(a) \cup Units(b)) = Cardinality(Units(a)) + Cardinality(Units(b)) - 0
  BY <1>3, <1>5, FS_Union, FS_EmptySet
<1>8. Total(f) = Total(a) + Total(b)
  BY <1>4, <1>6, <1>7 DEF Total
<1> QED  BY <1>8 DEF a, b

(* The same number for everybody adds up to a product.                     *)
LEMMA TotalOfEqual ==
  ASSUME NEW S, IsFiniteSet(S), NEW n \in Nat
  PROVE  Total([x \in S |-> n]) = Cardinality(S) * n
<1>1. Units([x \in S |-> n]) = S \X (1..n)
  BY DEF Units
<1>2. IsFiniteSet(1..n) /\ Cardinality(1..n) = n
  BY FS_Interval
<1> QED  BY <1>1, <1>2, FS_Product DEF Total

(* One element more.                                                       *)
LEMMA TotalWithOne ==
  ASSUME NEW S, IsFiniteSet(S), NEW f \in [S -> Nat], NEW x \in S
  PROVE  Total(f) = Total([y \in S \ {x} |-> f[y]]) + f[x]
<1>1. Total(f) = Total([y \in {x} |-> f[y]]) + Total([y \in S \ {x} |-> f[y]])
  BY TotalSplit
<1>2. [y \in {x} |-> f[y]] = [y \in {x} |-> f[x]]
  OBVIOUS
<1>3. Total([y \in {x} |-> f[x]]) = f[x]
  <2>1. IsFiniteSet({x}) /\ Cardinality({x}) = 1
    BY FS_Singleton
  <2>2. Total([y \in {x} |-> f[x]]) = 1 * f[x]
    BY <2>1, TotalOfEqual
  <2> QED  BY <2>2
<1>4. Total([y \in S \ {x} |-> f[y]]) \in Nat
  <2>1. [y \in S \ {x} |-> f[y]] \in [S \ {x} -> Nat]
    OBVIOUS
  <2> QED  BY <2>1, TotalType, FS_RemoveElement
<1> QED  BY <1>1, <1>2, <1>3, <1>4

(* The same within a part.                                                 *)
LEMMA TotalOfPart ==
  ASSUME NEW S, IsFiniteSet(S), NEW f \in [S -> Nat], NEW T \in SUBSET S, NEW x \in T
  PROVE  /\ Total([y \in T |-> f[y]]) = Total([y \in T \ {x} |-> f[y]]) + f[x]
         /\ Total([y \in T \ {x} |-> f[y]]) \in Nat
<1> DEFINE h == [y \in T |-> f[y]]
           k == [y \in T \ {x} |-> f[y]]
<1>1. h \in [T -> Nat] /\ k \in [T \ {x} -> Nat] /\ h[x] = f[x]
  OBVIOUS
<1>2. IsFiniteSet(T) /\ IsFiniteSet(T \ {x})
  BY FS_Subset
<1>3. [y \in T \ {x} |-> h[y]] = k
  OBVIOUS
<1> HIDE DEF h, k
<1>4. Total(h) = Total(k) + f[x]
  BY <1>1, <1>2, <1>3, TotalWithOne
<1>5. Total(k) \in Nat
  BY <1>1, <1>2, TotalType
<1> QED  BY <1>4, <1>5 DEF h, k

(* Totals add up element by element.                                       *)
LEMMA TotalOfSums ==
  ASSUME NEW S, IsFiniteSet(S), NEW f \in [S -> Nat], NEW g \in [S -> Nat]
  PROVE  Total([x \in S |-> f[x] + g[x]]) = Total(f) + Total(g)
<1> DEFINE sum == [x \in S |-> f[x] + g[x]]
           Good == {T \in SUBSET S : Total([x \in T |-> sum[x]])
                      = Total([x \in T |-> f[x]]) + Total([x \in T |-> g[x]])}
<1>1. {} \in Good
  BY TotalOfNone
<1>2. ASSUME NEW T \in SUBSET S, T # {}, \A x \in T : T \ {x} \in Good
      PROVE  T \in Good
  <2>1. PICK x \in T : T \ {x} \in Good
    BY <1>2
  <2>2. sum \in [S -> Nat] /\ sum[x] = f[x] + g[x] /\ f[x] \in Nat /\ g[x] \in Nat
    OBVIOUS
  <2> HIDE DEF sum
  <2>3. Total([y \in T |-> sum[y]]) = Total([y \in T \ {x} |-> sum[y]]) + sum[x]
    BY <2>2, TotalOfPart
  <2>4. /\ Total([y \in T |-> f[y]]) = Total([y \in T \ {x} |-> f[y]]) + f[x]
        /\ Total([y \in T \ {x} |-> f[y]]) \in Nat
    BY TotalOfPart
  <2>5. /\ Total([y \in T |-> g[y]]) = Total([y \in T \ {x} |-> g[y]]) + g[x]
        /\ Total([y \in T \ {x} |-> g[y]]) \in Nat
    BY TotalOfPart
  <2>6. Total([y \in T \ {x} |-> sum[y]])
          = Total([y \in T \ {x} |-> f[y]]) + Total([y \in T \ {x} |-> g[y]])
    BY <2>1
  <2>7. Total([y \in T |-> sum[y]]) = Total([y \in T |-> f[y]]) + Total([y \in T |-> g[y]])
    BY <2>2, <2>3, <2>4, <2>5, <2>6
  <2> QED  BY <2>7
<1>3. S \in Good
  <2> HIDE DEF Good
  <2> QED  BY <1>1, <1>2, SubsetInduction
<1>4. [x \in S |-> f[x]] = f /\ [x \in S |-> g[x]] = g /\ [x \in S |-> sum[x]] = sum
  OBVIOUS
<1> QED  BY <1>3, <1>4

(* Giving one of them another number changes the total by the difference.  *)
LEMMA TotalExcept ==
  ASSUME NEW S, IsFiniteSet(S), NEW f \in [S -> Nat], NEW x \in S, NEW n \in Nat
  PROVE  Total([f EXCEPT ![x] = n]) = Total(f) - f[x] + n
<1> DEFINE e == [f EXCEPT ![x] = n]
           r == [y \in S \ {x} |-> f[y]]
<1>1. e \in [S -> Nat] /\ e[x] = n /\ [y \in S \ {x} |-> e[y]] = r /\ f[x] \in Nat
  OBVIOUS
<1>2. Total(f) = Total(r) + f[x] /\ Total(r) \in Nat
  <2>1. Total(f) = Total(r) + f[x]
    BY TotalWithOne
  <2>2. r \in [S \ {x} -> Nat] /\ IsFiniteSet(S \ {x})
    BY FS_Subset
  <2> QED  BY <2>1, <2>2, TotalType
<1> HIDE DEF e, r
<1>3. Total(e) = Total(r) + n
  BY <1>1, TotalWithOne
<1>4. Total(e) = Total(f) - f[x] + n
  BY <1>1, <1>2, <1>3
<1> QED  BY <1>4 DEF e

(* Where there is nothing, nothing is added.                               *)
LEMMA TotalWithin ==
  ASSUME NEW S, IsFiniteSet(S), NEW f \in [S -> Nat], NEW T \in SUBSET S,
         \A x \in S \ T : f[x] = 0
  PROVE  Total(f) = Total([x \in T |-> f[x]])
<1>1. Total(f) = Total([x \in T |-> f[x]]) + Total([x \in S \ T |-> f[x]])
  BY TotalSplit
<1>2. [x \in S \ T |-> f[x]] = [x \in S \ T |-> 0]
  OBVIOUS
<1>3. Total([x \in S \ T |-> 0]) = 0
  <2>1. IsFiniteSet(S \ T) /\ Cardinality(S \ T) \in Nat
    BY FS_Subset, FS_CardinalityType
  <2>2. Total([x \in S \ T |-> 0]) = Cardinality(S \ T) * 0
    BY <2>1, TotalOfEqual
  <2> QED  BY <2>1, <2>2
<1>4. Total([x \in T |-> f[x]]) \in Nat
  <2>1. [x \in T |-> f[x]] \in [T -> Nat] /\ IsFiniteSet(T)
    BY FS_Subset
  <2> QED  BY <2>1, TotalType
<1> QED  BY <1>1, <1>2, <1>3, <1>4

(* The same number for some adds up to a product.                          *)
LEMMA TotalOfSome ==
  ASSUME NEW S, IsFiniteSet(S), NEW T \in SUBSET S, NEW n \in Nat
  PROVE  Total([x \in S |-> IF x \in T THEN n ELSE 0]) = Cardinality(T) * n
<1> DEFINE f == [x \in S |-> IF x \in T THEN n ELSE 0]
<1>1. f \in [S -> Nat] /\ (\A x \in S \ T : f[x] = 0) /\ [x \in T |-> f[x]] = [x \in T |-> n]
  OBVIOUS
<1>2. IsFiniteSet(T)
  BY FS_Subset
<1> HIDE DEF f
<1>3. Total(f) = Total([x \in T |-> n])
  BY <1>1, TotalWithin
<1>4. Total(f) = Cardinality(T) * n
  BY <1>2, <1>3, TotalOfEqual
<1> QED  BY <1>4 DEF f

(* Smaller numbers have a smaller total.                                   *)
LEMMA TotalMonotone ==
  ASSUME NEW S, IsFiniteSet(S), NEW f \in [S -> Nat], NEW g \in [S -> Nat],
         \A x \in S : f[x] <= g[x]
  PROVE  Total(f) <= Total(g)
<1>1. Units(f) \subseteq Units(g)
  <2>1. SUFFICES ASSUME NEW x \in S, NEW i \in 1..f[x]
                 PROVE  <<x, i>> \in Units(g)
    BY DEF Units
  <2>2. i \in 1..g[x]
    OBVIOUS
  <2> QED  BY <2>2 DEF Units
<1>2. IsFiniteSet(Units(g))
  BY UnitsFinite
<1> QED  BY <1>1, <1>2, FS_Subset DEF Total

(* A table of numbers has the same total by rows and by columns.           *)
LEMMA TotalByColumns ==
  ASSUME NEW S, IsFiniteSet(S), NEW L, IsFiniteSet(L), NEW h \in [S -> [L -> Nat]]
  PROVE  Total([s \in S |-> Total(h[s])]) = Total([l \in L |-> Total([s \in S |-> h[s][l]])])
<1> DEFINE column == [l \in L |-> Total([s \in S |-> h[s][l]])]
           row(T) == [s \in S |-> Total([l \in T |-> h[s][l]])]
           Good == {T \in SUBSET L : Total(row(T)) = Total([l \in T |-> column[l]])}
<1>1. column \in [L -> Nat]
  <2>1. ASSUME NEW l \in L PROVE Total([s \in S |-> h[s][l]]) \in Nat
    <3>1. [s \in S |-> h[s][l]] \in [S -> Nat]
      OBVIOUS
    <3> QED  BY <3>1, TotalType
  <2> QED  BY <2>1
<1>2. {} \in Good
  <2>1. \A s \in S : Total([l \in {} |-> h[s][l]]) = 0
    BY TotalOfNone
  <2>2. row({}) = [s \in S |-> 0]
    BY <2>1
  <2>3. Total([s \in S |-> 0]) = Cardinality(S) * 0 /\ Cardinality(S) \in Nat
    BY TotalOfEqual, FS_CardinalityType
  <2>4. Total([l \in {} |-> column[l]]) = 0
    BY TotalOfNone
  <2> HIDE DEF row, column
  <2> QED  BY <2>2, <2>3, <2>4
<1>3. ASSUME NEW T \in SUBSET L, T # {}, \A x \in T : T \ {x} \in Good
      PROVE  T \in Good
  <2>1. PICK x \in T : T \ {x} \in Good
    BY <1>3
  <2> DEFINE last == [s \in S |-> h[s][x]]
             most == row(T \ {x})
  <2>2. ASSUME NEW s \in S
        PROVE  /\ Total([l \in T |-> h[s][l]]) = Total([l \in T \ {x} |-> h[s][l]]) + h[s][x]
               /\ Total([l \in T \ {x} |-> h[s][l]]) \in Nat
    <3>1. h[s] \in [L -> Nat]
      OBVIOUS
    <3> QED  BY <3>1, TotalOfPart
  <2>3. most \in [S -> Nat] /\ last \in [S -> Nat]
    BY <2>2
  <2>4. row(T) = [s \in S |-> most[s] + last[s]]
    BY <2>2
  <2>5. Total(last) = column[x]
    OBVIOUS
  <2>6. Total([l \in T |-> column[l]]) = Total([l \in T \ {x} |-> column[l]]) + column[x]
    <3> HIDE DEF column
    <3> QED  BY <1>1, TotalOfPart
  <2>7. Total(most) = Total([l \in T \ {x} |-> column[l]])
    BY <2>1
  <2> HIDE DEF last, most, row, column
  <2>8. Total(row(T)) = Total(most) + Total(last)
    BY <2>3, <2>4, TotalOfSums
  <2>9. Total(row(T)) = Total([l \in T |-> column[l]])
    BY <2>5, <2>6, <2>7, <2>8
  <2> QED  BY <2>9
<1>4. L \in Good
  <2> HIDE DEF Good
  <2> QED  BY <1>2, <1>3, SubsetInduction
<1>5. row(L) = [s \in S |-> Total(h[s])] /\ [l \in L |-> column[l]] = column
  <2>1. \A s \in S : [l \in L |-> h[s][l]] = h[s]
    OBVIOUS
  <2> QED  BY <2>1
<1> QED  BY <1>4, <1>5

-----------------------------------------------------------------------------
(* Dividing a number among some of them                                      *)

(* Some element of a nonempty finite set has the greatest value under d.     *)
LEMMA GreatestValue ==
  ASSUME NEW S, S # {}, NEW bound \in Nat, NEW d, \A s \in S : d[s] \in 0..bound
  PROVE  \E s \in S : \A t \in S : d[t] <= d[s]
<1> DEFINE gap == [s \in S |-> bound - d[s]]
<1>1. \A s \in S : gap[s] \in Nat /\ d[s] = bound - gap[s]
  OBVIOUS
<1>2. PICK s \in S : \A t \in S : gap[s] <= gap[t]
  <2> HIDE DEF gap
  <2> QED  BY <1>1, LeastValue
<1> HIDE DEF gap
<1> QED  BY <1>1, <1>2

\* those before whom fewer than r of S come in the order of d
FirstOf(S, d, r) == {s \in S : Cardinality({t \in S : d[t] < d[s]}) < r}

(* The first r are r.                                                      *)
LEMMA FirstOfCount ==
  ASSUME NEW S, IsFiniteSet(S), NEW bound \in Nat, NEW d \in [S -> 0..bound],
         \A s, t \in S : d[s] = d[t] => s = t,
         NEW r \in 0..Cardinality(S)
  PROVE  Cardinality(FirstOf(S, d, r)) = r
<1> DEFINE Good == {T \in SUBSET S :
                      \A n \in 0..Cardinality(T) : Cardinality(FirstOf(T, d, n)) = n}
<1>1. {} \in Good
  BY FS_EmptySet DEF FirstOf
<1>2. ASSUME NEW T \in SUBSET S, T # {}, \A x \in T : T \ {x} \in Good
      PROVE  T \in Good
  <2>1. PICK x \in T : \A y \in T : d[y] <= d[x]
    BY <1>2, GreatestValue
  <2> DEFINE R == T \ {x}
  <2>2. IsFiniteSet(T) /\ Cardinality(T) \in Nat
    BY FS_Subset, FS_CardinalityType
  <2>3. IsFiniteSet(R) /\ Cardinality(R) = Cardinality(T) - 1 /\ Cardinality(R) \in Nat
    BY <2>2, FS_RemoveElement, FS_CardinalityType
  <2>4. {t \in T : d[t] < d[x]} = R
    BY <2>1
  <2>5. \A s \in R : {t \in T : d[t] < d[s]} = {t \in R : d[t] < d[s]}
    BY <2>1
  <2>6. ASSUME NEW n \in 0..Cardinality(R) PROVE Cardinality(FirstOf(T, d, n)) = n
    <3>1. FirstOf(T, d, n) = FirstOf(R, d, n)
      <4>1. x \notin FirstOf(T, d, n)
        BY <2>3, <2>4 DEF FirstOf
      <4>2. \A s \in R : Cardinality({t \in T : d[t] < d[s]})
                          = Cardinality({t \in R : d[t] < d[s]})
        BY <2>5
      <4>3. \A s \in R : s \in FirstOf(T, d, n) <=> s \in FirstOf(R, d, n)
        BY <4>2 DEF FirstOf
      <4>4. FirstOf(T, d, n) \subseteq T /\ FirstOf(R, d, n) \subseteq R
        BY DEF FirstOf
      <4> QED  BY <4>1, <4>3, <4>4
    <3>2. Cardinality(FirstOf(R, d, n)) = n
      BY <1>2
    <3> QED  BY <3>1, <3>2
  <2>7. FirstOf(T, d, Cardinality(T)) = T
    <3>1. ASSUME NEW s \in T PROVE Cardinality({t \in T : d[t] < d[s]}) < Cardinality(T)
      <4>1. {t \in T : d[t] < d[s]} \subseteq T \ {s}
        OBVIOUS
      <4>2. IsFiniteSet(T \ {s}) /\ Cardinality(T \ {s}) = Cardinality(T) - 1
        BY <2>2, FS_RemoveElement
      <4>3. /\ Cardinality({t \in T : d[t] < d[s]}) <= Cardinality(T \ {s})
            /\ Cardinality({t \in T : d[t] < d[s]}) \in Nat
        BY <4>1, <4>2, FS_Subset, FS_CardinalityType
      <4> QED  BY <2>2, <4>2, <4>3
    <3> QED  BY <3>1 DEF FirstOf
  <2>8. \A n \in 0..Cardinality(T) : n \in 0..Cardinality(R) \/ n = Cardinality(T)
    BY <2>2, <2>3
  <2> QED  BY <2>6, <2>7, <2>8
<1>3. S \in Good
  <2> HIDE DEF Good
  <2> QED  BY <1>1, <1>2, SubsetInduction
<1> QED  BY <1>3

(* Equal shares of a number, with one more for as many of the first as the   *)
(* division leaves over, add up to that number.                              *)
LEMMA SharesAddUp ==
  ASSUME NEW S, IsFiniteSet(S), NEW W \in SUBSET S, W # {},
         NEW bound \in Nat, NEW d \in [W -> 0..bound],
         \A s, t \in W : d[s] = d[t] => s = t,
         NEW amount \in Nat
  PROVE  Total([s \in S |->
                  IF s \notin W THEN 0
                  ELSE amount \div Cardinality(W)
                       + (IF s \in FirstOf(W, d, amount % Cardinality(W)) THEN 1 ELSE 0)])
           = amount
<1> DEFINE n == Cardinality(W)
           q == amount \div n
           r == amount % n
           first == FirstOf(W, d, r)
           equal == [s \in S |-> IF s \in W THEN q ELSE 0]
           odd == [s \in S |-> IF s \in first THEN 1 ELSE 0]
<1>1. n \in Nat \ {0}
  BY FS_Subset, FS_CardinalityType, FS_EmptySet
<1>2. q \in Nat /\ r \in 0..(n - 1) /\ amount = n * q + r
  <2> HIDE DEF n
  <2> QED  BY <1>1
<1> HIDE DEF n, q, r
<1>3. Cardinality(first) = r
  <2>1. IsFiniteSet(W) /\ r \in 0..Cardinality(W)
    BY <1>1, <1>2, FS_Subset DEF n
  <2> QED  BY <2>1, FirstOfCount
<1>4. Total(equal) = n * q
  BY <1>2, TotalOfSome DEF n
<1>5. Total(odd) = r
  <2>1. first \in SUBSET S
    BY DEF FirstOf
  <2> HIDE DEF first
  <2>2. Total(odd) = Cardinality(first) * 1
    BY <2>1, TotalOfSome
  <2> QED  BY <1>2, <1>3, <2>2
<1>6. equal \in [S -> Nat] /\ odd \in [S -> Nat]
  BY <1>2
<1>7. [s \in S |-> IF s \notin W THEN 0
                   ELSE q + (IF s \in FirstOf(W, d, r) THEN 1 ELSE 0)]
      = [s \in S |-> equal[s] + odd[s]]
  BY <1>2 DEF FirstOf
<1> HIDE DEF equal, odd, first
<1>8. Total([s \in S |-> equal[s] + odd[s]]) = amount
  BY <1>2, <1>4, <1>5, <1>6, TotalOfSums
<1> QED  BY <1>7, <1>8 DEF n, q, r
=============================================================================
