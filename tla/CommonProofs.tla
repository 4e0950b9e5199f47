---------------------------- MODULE CommonProofs ----------------------------
(***************************************************************************)
(* Facts that the proofs of several components rest on: induction by a     *)
(* least counterexample, division, lists in order, and sums over finite    *)
(* sets.                                                                   *)
(***************************************************************************)
EXTENDS Collections, Sequences, FiniteSetsExt, FiniteSetTheorems, WellFoundedInduction, TLAPS

-----------------------------------------------------------------------------
(* Numbers. *)

\* A non-empty set of naturals has a least element.  This is the induction the
\* proofs below use.
LEMMA LeastNatural ==
  ASSUME NEW T \in SUBSET Nat, T # {}
  PROVE  \E x \in T : \A y \in T : x <= y
<1> DEFINE R == {ss \in Nat \X Nat : ss[1] < ss[2]}
<1>1. IsWellFoundedOn(R, Nat)
  BY NatLessThanWellFounded DEF OpToRel
<1>2. \A i, j \in Nat : i < j => <<i, j>> \in R
  OBVIOUS
<1> HIDE DEF R
<1>3. T \subseteq Nat
  OBVIOUS
<1>4. \E x \in T : \A y \in T : ~(<<y, x>> \in R)
  BY ONLY <1>1, <1>3, T # {}, WFMin, Zenon
<1>5. PICK x \in T : \A y \in T : ~(<<y, x>> \in R)
  BY <1>4
<1>6. ASSUME NEW y \in T PROVE x <= y
  <2>1. x \in Nat /\ y \in Nat
    OBVIOUS
  <2>2. <<y, x>> \notin R
    BY <1>5
  <2>3. ~(y < x)
    BY <1>2, <2>1, <2>2, Zenon
  <2> QED BY <2>1, <2>3
<1> QED BY <1>6

\* Division with remainder.
LEMMA DivMod ==
  ASSUME NEW a \in Int, NEW b \in Nat \ {0}
  PROVE  /\ a \div b \in Int /\ a % b \in 0..(b - 1)
         /\ a = b * (a \div b) + (a % b)
  OBVIOUS

\* Multiplication by a positive number is monotone.
LEMMA TimesMonotone ==
  ASSUME NEW b \in Nat \ {0}, NEW i \in Int, NEW j \in Int, i <= j
  PROVE  b * i <= b * j
  OBVIOUS

\* Division by a positive number is monotone.
LEMMA DivMonotone ==
  ASSUME NEW b \in Nat \ {0}, NEW s \in Int, NEW t \in Int, s <= t
  PROVE  s \div b <= t \div b
  OBVIOUS

\* Halves.
LEMMA Half ==
  ASSUME NEW n \in Nat
  PROVE  /\ n \div 2 \in Nat
         /\ n % 2 = 0 => n = 2 * (n \div 2)
         /\ n % 2 # 0 => n = 2 * (n \div 2) + 1
  OBVIOUS

\* A small number is its own remainder.
LEMMA ModSmall ==
  ASSUME NEW b \in Nat \ {0}, NEW a \in 0..(b - 1)
  PROVE  a % b = a
  OBVIOUS

\* A multiple leaves no remainder.
LEMMA MultMod ==
  ASSUME NEW b \in Nat \ {0}, NEW i \in Int
  PROVE  (b * i) % b = 0
  OBVIOUS

-----------------------------------------------------------------------------
(* Lists: in order, chosen, put together. *)

\* Positions that are all different are all the positions there are.
LEMMA OntoPositions ==
  ASSUME NEW S, IsFiniteSet(S), NEW f \in [S -> 1..Cardinality(S)],
         \A i, j \in S : f[i] = f[j] => i = j
  PROVE  \A k \in 1..Cardinality(S) : \E i \in S : f[i] = k
<1> DEFINE n == Cardinality(S)
<1>1. n \in Nat /\ IsFiniteSet(1..n) /\ Cardinality(1..n) = n
  BY FS_CardinalityType, FS_Interval
<1>2. f \in Injection(S, 1..n)
  BY DEF Injection, IsInjective
<1>3. f \in Surjection(S, 1..n)
  BY <1>1, <1>2, FS_Injection
<1> QED BY <1>3 DEF Surjection

\* InOrder goes through the set once, upwards.
LEMMA InOrderIs ==
  ASSUME NEW S \in SUBSET Nat, IsFiniteSet(S)
  PROVE  /\ Cardinality(S) \in Nat
         /\ InOrder(S) \in Seq(S) /\ Len(InOrder(S)) = Cardinality(S)
         /\ \A i \in S : \E k \in 1..Cardinality(S) : InOrder(S)[k] = i
         /\ \A k, l \in 1..Cardinality(S) : k < l => InOrder(S)[k] < InOrder(S)[l]
<1> DEFINE n == Cardinality(S)
           B(i) == {j \in S : j <= i}
           f == [i \in S |-> Cardinality(B(i))]
<1>1. n \in Nat
  BY FS_CardinalityType
<1>2. ASSUME NEW i \in S PROVE f[i] \in 1..n /\ IsFiniteSet(B(i))
  <2>1. B(i) \in SUBSET S /\ i \in B(i)
    OBVIOUS
  <2>2. IsFiniteSet(B(i)) /\ Cardinality(B(i)) <= n /\ Cardinality(B(i)) \in Nat
    BY <2>1, FS_Subset, FS_CardinalityType
  <2>3. Cardinality(B(i)) # 0
    BY <2>1, <2>2, FS_EmptySet
  <2> QED BY <1>1, <2>2, <2>3
<1>3. ASSUME NEW i \in S, NEW j \in S, i < j PROVE f[i] < f[j]
  <2>1. B(i) \in SUBSET B(j) /\ j \in B(j) /\ j \notin B(i)
    <3>1. i \in Nat /\ j \in Nat /\ \A k \in S : k \in Nat
      OBVIOUS
    <3>2. \A k \in B(i) : k \in B(j)
      BY <1>3, <3>1
    <3>3. j \in B(j) /\ j \notin B(i)
      BY <1>3, <3>1
    <3> HIDE DEF B
    <3> QED BY <3>2, <3>3
  <2>2. IsFiniteSet(B(j)) /\ f[i] \in Nat /\ f[j] \in Nat
    BY <1>2
  <2>3. Cardinality(B(i)) <= Cardinality(B(j)) /\ Cardinality(B(i)) # Cardinality(B(j))
    BY <2>1, <2>2, FS_Subset
  <2> QED BY <2>2, <2>3
<1>4. \A i, j \in S : f[i] = f[j] => i = j
  <2> SUFFICES ASSUME NEW i \in S, NEW j \in S, i # j PROVE f[i] # f[j]
    OBVIOUS
  <2>1. i \in Nat /\ j \in Nat /\ f[i] \in Nat /\ f[j] \in Nat
    BY <1>2
  <2> HIDE DEF f
  <2> QED BY <1>3, <2>1
<1>5. f \in [S -> 1..n]
  BY <1>2
<1>6. \A k \in 1..n : \E i \in S : f[i] = k
  <2> HIDE DEF f
  <2> QED BY <1>4, <1>5, OntoPositions
<1>7. /\ DOMAIN InOrder(S) = 1..n
      /\ \A k \in 1..n : InOrder(S)[k] = CHOOSE i \in S : f[i] = k
  BY DEF InOrder
<1> HIDE DEF f
<1>8. \A k \in 1..n : InOrder(S)[k] \in S /\ f[InOrder(S)[k]] = k
  BY <1>6, <1>7
<1>9. \A i \in S : \E k \in 1..n : InOrder(S)[k] = i
  BY <1>4, <1>5, <1>8
<1>10. InOrder(S) \in Seq(S) /\ Len(InOrder(S)) = n
  <2> DEFINE c(k) == CHOOSE i \in S : Cardinality({j \in S : j <= i}) = k
  <2>1. InOrder(S) = [k \in 1..n |-> InOrder(S)[k]]
    <3>1. InOrder(S) = [k \in 1..n |-> c(k)]
      BY DEF InOrder
    <3> HIDE DEF c
    <3> QED BY <3>1
  <2>2. InOrder(S) \in [1..n -> S]
    BY <1>8, <2>1
  <2> QED BY <1>1, <2>2
<1>11. ASSUME NEW k \in 1..n, NEW l \in 1..n, k < l PROVE InOrder(S)[k] < InOrder(S)[l]
  <2> DEFINE a == InOrder(S)[k]
             b == InOrder(S)[l]
  <2>1. a \in S /\ b \in S /\ f[a] = k /\ f[b] = l
    BY <1>8
  <2> HIDE DEF a, b
  <2>2. a \in Nat /\ b \in Nat /\ a # b
    BY <1>11, <2>1
  <2>3. ~(b < a)
    <3>1. ASSUME b < a PROVE FALSE
      <4>1. l < k
        BY <1>3, <2>1, <3>1
      <4> QED BY <1>1, <1>11, <4>1
    <3> QED BY <3>1
  <2>4. a < b
    BY <2>2, <2>3
  <2> QED BY <2>4 DEF a, b
<1> QED BY <1>1, <1>9, <1>10, <1>11

\* ItemsAt takes each of the chosen items once.
LEMMA ItemsAtIs ==
  ASSUME NEW T, NEW list \in Seq(T), NEW S \in SUBSET DOMAIN list
  PROVE  /\ ItemsAt(list, S) \in Seq(T)
         /\ \A k \in DOMAIN ItemsAt(list, S) : InOrder(S)[k] \in S
                                               /\ ItemsAt(list, S)[k] = list[InOrder(S)[k]]
         /\ \A k, l \in DOMAIN ItemsAt(list, S) : InOrder(S)[k] = InOrder(S)[l] => k = l
         /\ \A i \in S : \E k \in DOMAIN ItemsAt(list, S) : ItemsAt(list, S)[k] = list[i]
<1>1. DOMAIN list = 1..Len(list) /\ Len(list) \in Nat /\ S \in SUBSET Nat
  OBVIOUS
<1>2. IsFiniteSet(S)
  <2>1. IsFiniteSet(1..Len(list)) /\ S \in SUBSET (1..Len(list))
    BY <1>1, FS_Interval
  <2> QED BY <2>1, FS_Subset
<1> DEFINE n == Cardinality(S)
           o == InOrder(S)
<1>3. /\ n \in Nat /\ o \in Seq(S) /\ Len(o) = n
      /\ \A i \in S : \E k \in 1..n : o[k] = i
      /\ \A k, l \in 1..n : k < l => o[k] < o[l]
  BY <1>1, <1>2, InOrderIs
<1>4. ItemsAt(list, S) = [k \in DOMAIN o |-> list[o[k]]]
  BY DEF ItemsAt
<1> HIDE DEF n, o
<1>5. DOMAIN o = 1..n /\ \A k \in 1..n : o[k] \in S
  BY <1>3
<1>6. \A k \in 1..n : list[o[k]] \in T
  BY <1>5
<1>7. ItemsAt(list, S) \in Seq(T) /\ DOMAIN ItemsAt(list, S) = 1..n
  BY <1>3, <1>4, <1>5, <1>6
<1>8. \A k, l \in 1..n : o[k] = o[l] => k = l
  <2> SUFFICES ASSUME NEW k \in 1..n, NEW l \in 1..n, k # l PROVE o[k] # o[l]
    OBVIOUS
  <2>1. o[k] \in Nat /\ o[l] \in Nat
    BY <1>1, <1>5
  <2>2. k < l \/ l < k
    OBVIOUS
  <2> QED BY <1>3, <2>1, <2>2
<1>9. \A k \in 1..n : ItemsAt(list, S)[k] = list[o[k]]
  BY <1>4, <1>5
<1>10. \A i \in S : \E k \in 1..n : ItemsAt(list, S)[k] = list[i]
  BY <1>3, <1>9
<1> QED BY <1>5, <1>7, <1>8, <1>9, <1>10 DEF o

\* A list after another.
LEMMA ConcatIs ==
  ASSUME NEW S, NEW s \in Seq(S), NEW t \in Seq(S)
  PROVE  /\ s \o t \in Seq(S) /\ Len(s \o t) = Len(s) + Len(t)
         /\ \A k \in 1..Len(s) : (s \o t)[k] = s[k]
         /\ \A j \in 1..Len(t) : (s \o t)[Len(s) + j] = t[j]
<1>1. Len(s) \in Nat /\ Len(t) \in Nat
  OBVIOUS
<1>2. s \o t \in Seq(S) /\ Len(s \o t) = Len(s) + Len(t)
  OBVIOUS
<1>3. \A k \in 1..Len(s) : (s \o t)[k] = s[k]
  BY <1>1
<1>4. ASSUME NEW j \in 1..Len(t) PROVE (s \o t)[Len(s) + j] = t[j]
  <2>1. Len(s) + j \in 1..(Len(s) + Len(t)) /\ ~(Len(s) + j <= Len(s))
        /\ (Len(s) + j) - Len(s) = j
    BY <1>1
  <2> QED BY <1>1, <2>1
<1> QED BY <1>2, <1>3, <1>4

-----------------------------------------------------------------------------
(* Sums over finite sets. *)

\* g gives the sum of f over every subset of S, taken apart one element at a
\* time as MapThenSumSet does.
Pick(s) == CHOOSE x \in s : TRUE

SumStep(g, f, s) == IF s = {} THEN 0 ELSE f[Pick(s)] + g[s \ {Pick(s)}]

IsSum(g, f, S) == \A s \in SUBSET S : g[s] = SumStep(g, f, s)

\* v is the sum of f over S.
SumsTo(v, f, S) == \E g \in [SUBSET S -> Nat] : IsSum(g, f, S) /\ v = g[S]

\* An element taken out of a finite set is one less.
LEMMA PickOne ==
  ASSUME NEW S, IsFiniteSet(S), NEW s \in SUBSET S, s # {}
  PROVE  /\ Pick(s) \in s /\ s \ {Pick(s)} \in SUBSET S
         /\ IsFiniteSet(s) /\ Cardinality(s) \in Nat \ {0}
         /\ \A x \in s : Cardinality(s \ {x}) = Cardinality(s) - 1
<1>1. Pick(s) \in s
  BY DEF Pick
<1>2. IsFiniteSet(s)
  BY FS_Subset
<1>3. Cardinality(s) \in Nat /\ Cardinality(s) # 0
  BY <1>2, FS_CardinalityType, FS_EmptySet
<1>4. \A x \in s : Cardinality(s \ {x}) = Cardinality(s) - 1
  BY <1>2, FS_RemoveElement
<1> QED BY <1>1, <1>2, <1>3, <1>4

\* Such sums exist: by induction on the size of the subsets.
LEMMA SumExists ==
  ASSUME NEW S, IsFiniteSet(S), NEW f \in [S -> Nat]
  PROVE  \E g \in [SUBSET S -> Nat] : IsSum(g, f, S)
<1> DEFINE Part(n) == {s \in SUBSET S : Cardinality(s) <= n}
           Good(n) == \E g \in [Part(n) -> Nat] : \A s \in Part(n) : g[s] = SumStep(g, f, s)
           Bad == {n \in Nat : ~Good(n)}
<1>1. \A s \in SUBSET S : Cardinality(s) \in Nat
  BY FS_Subset, FS_CardinalityType
<1>2. Good(0)
  <2>1. \A s \in Part(0) : s = {}
    BY <1>1, FS_Subset, FS_EmptySet
  <2>2. [s \in Part(0) |-> 0] \in [Part(0) -> Nat]
    OBVIOUS
  <2>3. \A s \in Part(0) : [t \in Part(0) |-> 0][s] = SumStep([t \in Part(0) |-> 0], f, s)
    BY <2>1 DEF SumStep
  <2> QED BY <2>2, <2>3
<1>3. ASSUME NEW n \in Nat, Good(n) PROVE Good(n + 1)
  <2>1. PICK g \in [Part(n) -> Nat] : \A s \in Part(n) : g[s] = SumStep(g, f, s)
    BY <1>3
  <2> DEFINE h == [s \in Part(n + 1) |-> SumStep(g, f, s)]
  <2>2. ASSUME NEW s \in Part(n + 1), s # {}
        PROVE  Pick(s) \in S /\ s \ {Pick(s)} \in Part(n) /\ s \ {Pick(s)} \in Part(n + 1)
    <3>1. Cardinality(s) \in Nat /\ Cardinality(s \ {Pick(s)}) = Cardinality(s) - 1
      BY <2>2, PickOne
    <3> QED BY <2>2, <3>1, PickOne
  <2>3. \A s \in Part(n) : h[s] = g[s]
    <3>1. \A s \in Part(n) : s \in Part(n + 1)
      BY <1>1
    <3> QED BY <2>1, <3>1
  <2>4. ASSUME NEW s \in Part(n + 1) PROVE h[s] \in Nat /\ h[s] = SumStep(h, f, s)
    <3>1. h[s] = SumStep(g, f, s)
      OBVIOUS
    <3> HIDE DEF h
    <3>2. CASE s = {}
      BY <3>1, <3>2 DEF SumStep
    <3>3. CASE s # {}
      <4>1. Pick(s) \in S /\ s \ {Pick(s)} \in Part(n)
        BY <2>2, <3>3
      <4>2. h[s] = f[Pick(s)] + g[s \ {Pick(s)}] /\ SumStep(h, f, s) = f[Pick(s)] + h[s \ {Pick(s)}]
        BY <3>1, <3>3 DEF SumStep
      <4>3. f[Pick(s)] \in Nat /\ g[s \ {Pick(s)}] \in Nat
        BY <4>1
      <4> QED BY <2>3, <4>1, <4>2, <4>3
    <3> QED BY <3>2, <3>3
  <2>5. h \in [Part(n + 1) -> Nat]
    BY <2>4
  <2> HIDE DEF h
  <2> QED BY <2>4, <2>5
<1> HIDE DEF Good
<1>4. Bad = {}
  <2> SUFFICES ASSUME Bad # {} PROVE FALSE
    OBVIOUS
  <2>1. Bad \in SUBSET Nat
    OBVIOUS
  <2>2. PICK m \in Bad : \A n \in Bad : m <= n
    BY <2>1, LeastNatural
  <2>3. m \in Nat /\ ~Good(m)
    OBVIOUS
  <2>4. m # 0
    BY <1>2, <2>3
  <2>5. m - 1 \in Nat /\ m - 1 \notin Bad
    BY <2>2, <2>3, <2>4
  <2>6. Good(m - 1)
    BY <2>5
  <2>7. Good((m - 1) + 1)
    BY <1>3, <2>5, <2>6
  <2>8. (m - 1) + 1 = m
    BY <2>3
  <2> QED BY <2>3, <2>7, <2>8
<1>5. Good(Cardinality(S))
  BY <1>1, <1>4
<1>6. Part(Cardinality(S)) = SUBSET S
  <2>1. \A s \in SUBSET S : Cardinality(s) <= Cardinality(S)
    BY FS_Subset
  <2> QED BY <2>1
<1> QED BY <1>5, <1>6 DEF Good, IsSum

\* Sums of functions that agree, agree.
LEMMA SumAgree ==
  ASSUME NEW T, IsFiniteSet(T), NEW f, NEW e, \A x \in T : f[x] = e[x],
         NEW g, NEW k, IsSum(g, f, T), IsSum(k, e, T)
  PROVE  \A s \in SUBSET T : g[s] = k[s]
<1> DEFINE Bad == {n \in Nat : \E s \in SUBSET T : Cardinality(s) = n /\ g[s] # k[s]}
<1>1. Bad = {}
  <2> SUFFICES ASSUME Bad # {} PROVE FALSE
    OBVIOUS
  <2>1. Bad \in SUBSET Nat
    OBVIOUS
  <2>2. PICK m \in Bad : \A n \in Bad : m <= n
    BY <2>1, LeastNatural
  <2>3. PICK s \in SUBSET T : Cardinality(s) = m /\ g[s] # k[s]
    OBVIOUS
  <2>4. g[s] = SumStep(g, f, s) /\ k[s] = SumStep(k, e, s)
    BY DEF IsSum
  <2>5. s # {}
    BY <2>3, <2>4 DEF SumStep
  <2>6. /\ Pick(s) \in s /\ s \ {Pick(s)} \in SUBSET T
        /\ Cardinality(s \ {Pick(s)}) = m - 1 /\ m \in Nat \ {0}
    BY <2>3, <2>5, PickOne
  <2>7. m - 1 \in Nat /\ m - 1 \notin Bad
    BY <2>2, <2>6
  <2>8. g[s \ {Pick(s)}] = k[s \ {Pick(s)}]
    BY <2>6, <2>7
  <2> QED BY <2>3, <2>4, <2>5, <2>6, <2>8 DEF SumStep
<1>2. ASSUME NEW s \in SUBSET T PROVE g[s] = k[s]
  <2>1. Cardinality(s) \in Nat
    BY FS_Subset, FS_CardinalityType
  <2> QED BY <1>1, <2>1
<1> QED BY <1>2

\* Any element can be taken out first.
TakesOut(g, f, S) == \A s \in SUBSET S : \A x \in s : g[s] = f[x] + g[s \ {x}]

\* The order in which MapThenSumSet takes a set apart does not matter.
LEMMA SumTakeOut ==
  ASSUME NEW S, IsFiniteSet(S), NEW f \in [S -> Nat], NEW g \in [SUBSET S -> Nat], IsSum(g, f, S)
  PROVE  TakesOut(g, f, S)
<1> DEFINE Fits(s) == \A x \in s : g[s] = f[x] + g[s \ {x}]
           Bad == {n \in Nat : \E s \in SUBSET S : Cardinality(s) = n /\ ~Fits(s)}
<1>1. Bad = {}
  <2> SUFFICES ASSUME Bad # {} PROVE FALSE
    OBVIOUS
  <2>1. Bad \in SUBSET Nat
    OBVIOUS
  <2>2. PICK m \in Bad : \A n \in Bad : m <= n
    BY <2>1, LeastNatural
  <2>3. PICK s \in SUBSET S : Cardinality(s) = m /\ ~Fits(s)
    OBVIOUS
  <2>4. PICK x \in s : g[s] # f[x] + g[s \ {x}]
    BY <2>3
  <2> DEFINE y == Pick(s)
  <2>5. g[s] = f[y] + g[s \ {y}]
    BY <2>4 DEF IsSum, SumStep
  <2>6. /\ y \in s /\ s \ {y} \in SUBSET S /\ s \ {x} \in SUBSET S
        /\ Cardinality(s \ {y}) = m - 1 /\ Cardinality(s \ {x}) = m - 1
        /\ m \in Nat \ {0}
    BY <2>3, <2>4, PickOne
  <2> HIDE DEF y
  <2>7. m - 1 \in Nat /\ m - 1 \notin Bad
    BY <2>2, <2>6
  <2>8. Fits(s \ {y}) /\ Fits(s \ {x})
    BY <2>6, <2>7
  <2>9. x # y
    BY <2>4, <2>5
  <2>10. /\ g[s \ {y}] = f[x] + g[(s \ {y}) \ {x}]
         /\ g[s \ {x}] = f[y] + g[(s \ {x}) \ {y}]
    BY <2>4, <2>6, <2>8, <2>9
  <2>11. (s \ {y}) \ {x} = (s \ {x}) \ {y} /\ (s \ {x}) \ {y} \in SUBSET S
    OBVIOUS
  <2> DEFINE r == g[(s \ {x}) \ {y}]
             fx == f[x]
             fy == f[y]
  <2>12. r \in Nat /\ fx \in Nat /\ fy \in Nat
    BY <2>6, <2>11
  <2>13. g[s] = fy + (fx + r) /\ g[s \ {x}] = fy + r
    BY <2>5, <2>10, <2>11
  <2>14. g[s] # fx + g[s \ {x}]
    BY <2>4
  <2> HIDE DEF r, fx, fy
  <2> QED BY ONLY <2>12, <2>13, <2>14
<1>2. ASSUME NEW s \in SUBSET S PROVE Fits(s)
  <2>1. Cardinality(s) \in Nat
    BY FS_Subset, FS_CardinalityType
  <2> QED BY <1>1, <2>1
<1> QED BY <1>2 DEF TakesOut

\* The sum of a function that differs in one place.
LEMMA SumMoved ==
  ASSUME NEW S, IsFiniteSet(S), NEW c \in S, NEW f, f \in [S -> Nat], NEW e, e \in [S -> Nat],
         \A x \in S \ {c} : f[x] = e[x], NEW v, SumsTo(v, f, S), NEW w, SumsTo(w, e, S)
  PROVE  v \in Nat /\ w \in Nat /\ w = v - f[c] + e[c]
<1> DEFINE T == S \ {c}
<1>1. PICK g \in [SUBSET S -> Nat] : IsSum(g, f, S) /\ v = g[S]
  BY DEF SumsTo
<1>2. PICK k \in [SUBSET S -> Nat] : IsSum(k, e, S) /\ w = k[S]
  BY DEF SumsTo
<1>3. IsFiniteSet(T) /\ T \in SUBSET S /\ S \in SUBSET S
  BY FS_Subset
<1>4. IsSum(g, f, T) /\ IsSum(k, e, T)
  BY <1>1, <1>2 DEF IsSum
<1>5. g[T] = k[T]
  BY <1>3, <1>4, SumAgree
<1>6. TakesOut(g, f, S) /\ TakesOut(k, e, S)
  BY <1>1, <1>2, SumTakeOut
<1>7. g[S] = f[c] + g[T] /\ k[S] = e[c] + k[T]
  BY <1>3, <1>6 DEF TakesOut
<1>8. /\ g[T] \in Nat /\ g[S] \in Nat /\ k[S] \in Nat
      /\ f[c] \in Nat /\ e[c] \in Nat
  BY <1>3
<1> QED BY <1>1, <1>2, <1>5, <1>7, <1>8

\* Induction over the subsets of a finite set.
LEMMA SubsetInduction ==
  ASSUME NEW S, IsFiniteSet(S), NEW G, {} \in G,
         \A s \in SUBSET S : \A x \in s : s \ {x} \in G => s \in G
  PROVE  \A s \in SUBSET S : s \in G
<1> DEFINE Bad == {n \in Nat : \E s \in SUBSET S : Cardinality(s) = n /\ s \notin G}
<1>1. Bad = {}
  <2> SUFFICES ASSUME Bad # {} PROVE FALSE
    OBVIOUS
  <2>1. Bad \in SUBSET Nat
    OBVIOUS
  <2>2. PICK m \in Bad : \A n \in Bad : m <= n
    BY <2>1, LeastNatural
  <2>3. PICK s \in SUBSET S : Cardinality(s) = m /\ s \notin G
    OBVIOUS
  <2>4. s # {}
    BY <2>3
  <2>5. /\ Pick(s) \in s /\ s \ {Pick(s)} \in SUBSET S
        /\ Cardinality(s \ {Pick(s)}) = m - 1 /\ m \in Nat \ {0}
    BY <2>3, <2>4, PickOne
  <2>6. m - 1 \in Nat /\ m - 1 \notin Bad
    BY <2>2, <2>5
  <2>7. s \ {Pick(s)} \in G
    BY <2>5, <2>6
  <2> QED BY <2>3, <2>5, <2>7
<1>2. ASSUME NEW s \in SUBSET S PROVE s \in G
  <2>1. Cardinality(s) \in Nat
    BY FS_Subset, FS_CardinalityType
  <2> QED BY <1>1, <2>1
<1> QED BY <1>2

\* AddUp adds up.
LEMMA AddUpIs ==
  ASSUME NEW S, IsFiniteSet(S), NEW f \in [S -> Nat]
  PROVE  SumsTo(AddUp(f), f, S)
<1> DEFINE K(k) == k = [s \in SUBSET S |-> IF s = {} THEN 0 ELSE f[Pick(s)] + k[s \ {Pick(s)}]]
           k0 == CHOOSE k : K(k)
<1>1. AddUp(f) = k0[S]
  BY DEF AddUp, MapThenSumSet, MapThenFoldSet, Pick
<1>2. PICK g \in [SUBSET S -> Nat] : IsSum(g, f, S)
  BY SumExists
<1>3. \A s \in SUBSET S : s # {} => Pick(s) \in S
  BY PickOne
<1>4. \A s \in SUBSET S : g[s] = IF s = {} THEN 0 ELSE f[Pick(s)] + g[s \ {Pick(s)}]
  BY <1>2, <1>3 DEF IsSum, SumStep
<1>5. K(g)
  BY <1>4
<1>6. K(k0)
  BY <1>5
<1> HIDE DEF k0
<1>7. IsSum(k0, f, S)
  BY <1>3, <1>6 DEF IsSum, SumStep
<1>8. \A s \in SUBSET S : k0[s] = g[s]
  BY <1>2, <1>7, SumAgree
<1> QED BY <1>1, <1>2, <1>8 DEF SumsTo

\* The sum of f over some of its domain.
Over(f, s) == AddUp([x \in s |-> f[x]])

\* A sum over a part: none is zero, and any element can be taken out.
LEMMA OverIs ==
  ASSUME NEW S, IsFiniteSet(S), NEW f, \A x \in S : f[x] \in Nat
  PROVE  /\ \A s \in SUBSET S : Over(f, s) \in Nat
         /\ Over(f, {}) = 0
         /\ \A s \in SUBSET S : \A x \in s : Over(f, s) = f[x] + Over(f, s \ {x})
<1> DEFINE F == [x \in S |-> f[x]]
<1>1. F \in [S -> Nat] /\ \A x \in S : F[x] = f[x]
  OBVIOUS
<1> HIDE DEF F
<1>2. PICK g \in [SUBSET S -> Nat] : IsSum(g, F, S)
  BY <1>1, SumExists
<1>3. ASSUME NEW s \in SUBSET S PROVE Over(f, s) = g[s]
  <2> DEFINE e == [x \in s |-> f[x]]
  <2>1. e \in [s -> Nat] /\ \A x \in s : e[x] = F[x]
    BY <1>1
  <2>2. IsFiniteSet(s)
    BY FS_Subset
  <2>3. Over(f, s) = AddUp(e)
    BY DEF Over
  <2> HIDE DEF e
  <2>4. PICK k \in [SUBSET s -> Nat] : IsSum(k, e, s) /\ AddUp(e) = k[s]
    BY <2>1, <2>2, AddUpIs DEF SumsTo
  <2>5. IsSum(g, F, s)
    BY <1>2 DEF IsSum
  <2>6. \A t \in SUBSET s : k[t] = g[t]
    BY <2>1, <2>2, <2>4, <2>5, SumAgree
  <2> QED BY <2>3, <2>4, <2>6
<1>4. TakesOut(g, F, S)
  BY <1>1, <1>2, SumTakeOut
<1>5. g[{}] = 0
  BY <1>2 DEF IsSum, SumStep
<1>6. ASSUME NEW s \in SUBSET S, NEW x \in s PROVE Over(f, s) = f[x] + Over(f, s \ {x})
  <2>1. s \ {x} \in SUBSET S /\ x \in S
    OBVIOUS
  <2>2. g[s] = F[x] + g[s \ {x}]
    BY <1>4 DEF TakesOut
  <2> QED BY <1>1, <1>3, <2>1, <2>2
<1>7. \A s \in SUBSET S : Over(f, s) \in Nat
  BY <1>3
<1>8. Over(f, {}) = 0
  BY <1>3, <1>5
<1> QED BY <1>6, <1>7, <1>8

\* An element is taken out of a sum.
LEMMA OverOut ==
  ASSUME NEW S, IsFiniteSet(S), NEW f, \A x \in S : f[x] \in Nat, NEW s \in SUBSET S, NEW y \in s
  PROVE  /\ Over(f, s) = f[y] + Over(f, s \ {y}) /\ f[y] \in Nat
         /\ Over(f, s) \in Nat /\ Over(f, s \ {y}) \in Nat
<1>1. s \ {y} \in SUBSET S
  OBVIOUS
<1> QED BY <1>1, OverIs

\* What is added up is all that matters.
LEMMA OverAgree ==
  ASSUME NEW s, NEW f, NEW g, \A x \in s : f[x] = g[x]
  PROVE  Over(f, s) = Over(g, s)
<1>1. [x \in s |-> f[x]] = [x \in s |-> g[x]]
  OBVIOUS
<1> QED BY <1>1 DEF Over

\* A function is added up over its domain.
LEMMA OverAll ==
  ASSUME NEW S, NEW f, f = [x \in S |-> f[x]]
  PROVE  AddUp(f) = Over(f, S)
  BY DEF Over

\* One element.
LEMMA OverOne ==
  ASSUME NEW x, NEW f, f[x] \in Nat
  PROVE  Over(f, {x}) = f[x]
<1>1. IsFiniteSet({x}) /\ {x} \in SUBSET {x} /\ x \in {x} /\ {x} \ {x} = {}
  BY FS_Singleton
<1>2. Over(f, {x}) = f[x] + Over(f, {}) /\ Over(f, {}) = 0
  BY <1>1, OverIs
<1> QED BY <1>2

\* Sums are added term by term.
LEMMA OverPlus ==
  ASSUME NEW S, IsFiniteSet(S), NEW f, \A x \in S : f[x] \in Nat, NEW g, \A x \in S : g[x] \in Nat,
         NEW h, \A x \in S : h[x] = f[x] + g[x]
  PROVE  Over(h, S) = Over(f, S) + Over(g, S)
<1> DEFINE G == {s \in SUBSET S : Over(h, s) = Over(f, s) + Over(g, s)}
<1>1. \A x \in S : h[x] \in Nat
  OBVIOUS
<1>2. /\ \A s \in SUBSET S : Over(f, s) \in Nat /\ Over(g, s) \in Nat /\ Over(h, s) \in Nat
      /\ Over(f, {}) = 0 /\ Over(g, {}) = 0 /\ Over(h, {}) = 0
  BY <1>1, OverIs
<1>3. {} \in G
  BY <1>2
<1>4. ASSUME NEW s \in SUBSET S, NEW x \in s, s \ {x} \in G PROVE s \in G
  <2> DEFINE t == s \ {x}
  <2>1. x \in S /\ t \in SUBSET S
    OBVIOUS
  <2>2. Over(h, t) = Over(f, t) + Over(g, t)
    BY <1>4
  <2> HIDE DEF t
  <2>3. /\ Over(f, s) = f[x] + Over(f, t) /\ Over(g, s) = g[x] + Over(g, t)
        /\ Over(h, s) = h[x] + Over(h, t)
    <3>1. Over(f, s) = f[x] + Over(f, t)
      BY OverOut DEF t
    <3>2. Over(g, s) = g[x] + Over(g, t)
      BY OverOut DEF t
    <3>3. Over(h, s) = h[x] + Over(h, t)
      BY <1>1, OverOut DEF t
    <3> QED BY <3>1, <3>2, <3>3
  <2>4. Over(f, t) \in Nat /\ Over(g, t) \in Nat /\ f[x] \in Nat /\ g[x] \in Nat /\ h[x] = f[x] + g[x]
    BY <1>2, <2>1
  <2>5. Over(h, s) = Over(f, s) + Over(g, s)
    BY ONLY <2>2, <2>3, <2>4
  <2> QED BY <2>5
<1> HIDE DEF G
<1>5. S \in G
  BY <1>3, <1>4, SubsetInduction
<1> QED BY <1>5 DEF G

\* Larger terms, larger sum.
LEMMA OverMonotone ==
  ASSUME NEW S, IsFiniteSet(S), NEW f, \A x \in S : f[x] \in Nat, NEW g, \A x \in S : g[x] \in Nat,
         \A x \in S : f[x] <= g[x]
  PROVE  Over(f, S) \in Nat /\ Over(g, S) \in Nat /\ Over(f, S) <= Over(g, S)
<1> DEFINE d == [x \in S |-> g[x] - f[x]]
<1>1. \A x \in S : d[x] \in Nat /\ g[x] = f[x] + d[x]
  OBVIOUS
<1> HIDE DEF d
<1>2. Over(g, S) = Over(f, S) + Over(d, S)
  BY <1>1, OverPlus
<1>3. Over(f, S) \in Nat /\ Over(g, S) \in Nat /\ Over(d, S) \in Nat
  BY <1>1, OverIs
<1> QED BY <1>2, <1>3

\* A larger set, a larger sum.
LEMMA OverSubset ==
  ASSUME NEW S, IsFiniteSet(S), NEW f, \A x \in S : f[x] \in Nat, NEW T \in SUBSET S
  PROVE  Over(f, T) <= Over(f, S)
<1> DEFINE G == {s \in SUBSET S : \A t \in SUBSET s : Over(f, t) <= Over(f, s)}
<1>1. \A s \in SUBSET S : Over(f, s) \in Nat
  BY OverIs
<1>2. {} \in G
  <2>1. \A t \in SUBSET {} : t = {}
    OBVIOUS
  <2>2. Over(f, {}) <= Over(f, {})
    BY <1>1
  <2> QED BY <2>1, <2>2
<1>3. ASSUME NEW s \in SUBSET S, NEW x \in s, s \ {x} \in G PROVE s \in G
  <2> DEFINE r == s \ {x}
  <2>1. r \in SUBSET S /\ x \in S
    OBVIOUS
  <2>2. Over(f, s) = f[x] + Over(f, r) /\ Over(f, r) \in Nat /\ f[x] \in Nat
    BY <1>1, <2>1, OverIs
  <2>3. ASSUME NEW t \in SUBSET s PROVE Over(f, t) <= Over(f, s)
    <3>1. Over(f, t) \in Nat
      BY <1>1
    <3>2. CASE x \notin t
      <4>1. t \in SUBSET r
        BY <3>2
      <4>2. Over(f, t) <= Over(f, r)
        BY <1>3, <4>1
      <4> QED BY ONLY <2>2, <3>1, <4>2
    <3>3. CASE x \in t
      <4>1. t \ {x} \in SUBSET r /\ t \in SUBSET S /\ t \ {x} \in SUBSET S
        BY <3>3
      <4>2. Over(f, t \ {x}) <= Over(f, r) /\ Over(f, t \ {x}) \in Nat
        BY <1>1, <1>3, <4>1
      <4>3. Over(f, t) = f[x] + Over(f, t \ {x})
        BY <3>3, <4>1, OverIs
      <4> QED BY ONLY <2>2, <3>1, <4>2, <4>3
    <3> QED BY <3>2, <3>3
  <2> QED BY <2>3
<1> HIDE DEF G
<1>4. S \in G
  <2>1. \A s \in SUBSET S : s \in G
    BY <1>2, <1>3, SubsetInduction
  <2> QED BY <2>1
<1> QED BY <1>4 DEF G

\* As many times the same.
LEMMA OverSame ==
  ASSUME NEW S, IsFiniteSet(S), NEW n \in Nat, NEW f, \A x \in S : f[x] = n
  PROVE  Cardinality(S) \in Nat /\ Over(f, S) = n * Cardinality(S)
<1> DEFINE G == {s \in SUBSET S : Over(f, s) = n * Cardinality(s)}
<1>1. Over(f, {}) = 0
  BY OverIs
<1>2. {} \in G
  BY <1>1, FS_EmptySet
<1>3. ASSUME NEW s \in SUBSET S, NEW x \in s, s \ {x} \in G PROVE s \in G
  <2>1. Over(f, s) = f[x] + Over(f, s \ {x}) /\ f[x] = n
    BY OverIs
  <2> DEFINE a == Cardinality(s \ {x})
             c == Cardinality(s)
  <2>2. c \in Nat \ {0} /\ a = c - 1
    BY PickOne
  <2>3. Over(f, s \ {x}) = n * a
    BY <1>3
  <2> HIDE DEF a, c
  <2>4. n + n * a = n * c
    BY ONLY <2>2, n \in Nat
  <2>5. Over(f, s) = n * c
    BY <2>1, <2>3, <2>4
  <2> QED BY <2>5 DEF c
<1> HIDE DEF G
<1>4. S \in G
  BY <1>2, <1>3, SubsetInduction
<1> QED BY <1>4, FS_CardinalityType DEF G

\* The terms of E that m puts at q.
Grouped(E, m, q) == {i \in E : m[i] = q}

\* A sum is the sum of the sums of its parts.
LEMMA OverParts ==
  ASSUME NEW E, IsFiniteSet(E), NEW Q, IsFiniteSet(Q), NEW m, \A i \in E : m[i] \in Q,
         NEW f, \A i \in E : f[i] \in Nat
  PROVE  Over([q \in Q |-> Over(f, Grouped(E, m, q))], Q) = Over(f, E)
<1> DEFINE H(e) == [q \in Q |-> Over(f, Grouped(e, m, q))]
           G == {e \in SUBSET E : Over(H(e), Q) = Over(f, e)}
<1>1. ASSUME NEW e \in SUBSET E, NEW q \in Q
      PROVE  Grouped(e, m, q) \in SUBSET E /\ H(e)[q] = Over(f, Grouped(e, m, q)) /\ H(e)[q] \in Nat
  <2>1. Grouped(e, m, q) \in SUBSET E
    BY DEF Grouped
  <2> QED BY <2>1, OverIs
<1>2. {} \in G
  <2>1. \A q \in Q : H({})[q] = 0
    <3>1. \A q \in Q : Grouped({}, m, q) = {}
      BY DEF Grouped
    <3> QED BY <3>1, OverIs
  <2> HIDE DEF H
  <2>2. Over(H({}), Q) = 0 * Cardinality(Q) /\ Cardinality(Q) \in Nat
    BY <2>1, OverSame
  <2>3. Over(f, {}) = 0 /\ {} \in SUBSET E
    BY OverIs
  <2> QED BY <2>2, <2>3
<1>3. ASSUME NEW e \in SUBSET E, NEW x \in e, e \ {x} \in G PROVE e \in G
  <2> DEFINE d == e \ {x}
             z == m[x]
             R == Q \ {z}
  <2>1. d \in SUBSET E /\ x \in E /\ z \in Q /\ R \in SUBSET Q
    OBVIOUS
  <2>2. \A q \in R : H(e)[q] = H(d)[q]
    <3>1. \A q \in R : Grouped(e, m, q) = Grouped(d, m, q)
      BY DEF Grouped
    <3> QED BY <3>1
  <2>3. H(e)[z] = f[x] + H(d)[z]
    <3>1. Grouped(d, m, z) = Grouped(e, m, z) \ {x} /\ x \in Grouped(e, m, z)
      BY DEF Grouped
    <3>2. Grouped(e, m, z) \in SUBSET E
      BY DEF Grouped
    <3>3. PICK A : A = Grouped(e, m, z)
      OBVIOUS
    <3>4. A \in SUBSET E /\ x \in A /\ Grouped(d, m, z) = A \ {x}
      BY <3>1, <3>2, <3>3
    <3>5. Over(f, A) = f[x] + Over(f, A \ {x})
      BY ONLY IsFiniteSet(E), \A i \in E : f[i] \in Nat, <3>4, OverOut
    <3>6. Over(f, Grouped(e, m, z)) = f[x] + Over(f, Grouped(d, m, z))
      BY <3>3, <3>4, <3>5
    <3> QED BY <2>1, <3>6
  <2>4. \A q \in Q : H(e)[q] \in Nat /\ H(d)[q] \in Nat
    BY <1>1, <2>1
  <2>5. Over(H(d), Q) = Over(f, d)
    BY <1>3
  <2>6. Over(f, e) = f[x] + Over(f, d) /\ f[x] \in Nat /\ Over(f, d) \in Nat
    BY <2>1, OverIs
  <2> HIDE DEF H
  <2>7. Over(H(e), Q) = H(e)[z] + Over(H(e), R) /\ Over(H(e), R) \in Nat
    BY <2>1, <2>4, OverOut
  <2>8. Over(H(d), Q) = H(d)[z] + Over(H(d), R)
    <3> DEFINE k == H(d)
    <3>1. (\A q \in Q : k[q] \in Nat) /\ Q \in SUBSET Q
      BY <2>4
    <3> HIDE DEF k
    <3>2. Over(k, Q) = k[z] + Over(k, R)
      BY <2>1, <3>1, OverOut
    <3> QED BY <3>2 DEF k
  <2>9. Over(H(e), R) = Over(H(d), R)
    BY <2>2, OverAgree
  <2>10. H(d)[z] \in Nat
    BY <2>1, <2>4
  <2>11. Over(H(e), Q) = Over(f, e)
    BY ONLY <2>3, <2>5, <2>6, <2>7, <2>8, <2>9, <2>10
  <2> QED BY <2>11
<1> HIDE DEF G
<1>4. E \in G
  BY <1>2, <1>3, SubsetInduction
<1> QED BY <1>4 DEF G

\* Another name for each term.
LEMMA OverRenamed ==
  ASSUME NEW S, IsFiniteSet(S), NEW T, IsFiniteSet(T), NEW f, \A x \in S : f[x] \in Nat, NEW g,
         NEW m, \A x \in S : m[x] \in T /\ g[m[x]] = f[x],
         \A x, y \in S : m[x] = m[y] => x = y, \A y \in T : \E x \in S : m[x] = y
  PROVE  Over(f, S) = Over(g, T)
<1> DEFINE h == [y \in T |-> Over(f, Grouped(S, m, y))]
<1>1. Over(h, T) = Over(f, S)
  BY OverParts
<1>2. ASSUME NEW y \in T PROVE h[y] = g[y]
  <2>1. PICK x \in S : m[x] = y
    OBVIOUS
  <2>2. Grouped(S, m, y) = {x}
    BY <2>1 DEF Grouped
  <2>3. h[y] = Over(f, {x}) /\ f[x] \in Nat /\ g[y] = f[x]
    BY <2>1, <2>2
  <2> QED BY <2>3, OverOne
<1> HIDE DEF h
<1>3. Over(h, T) = Over(g, T)
  BY <1>2, OverAgree
<1> QED BY <1>1, <1>3

\* Sums of naturals are naturals.
LEMMA AddUpType ==
  ASSUME NEW S, IsFiniteSet(S), NEW f \in [S -> Nat]
  PROVE  AddUp(f) \in Nat /\ AddUp(f) = Over(f, S)
<1>1. AddUp(f) = Over(f, S)
  BY OverAll
<1>2. Over(f, S) \in Nat
  BY OverIs
<1> QED BY <1>1, <1>2

\* What a finite set is mapped onto is finite.
LEMMA FiniteOnto ==
  ASSUME NEW S, IsFiniteSet(S), NEW T, NEW f, \A x \in S : f[x] \in T,
         \A y \in T : \E x \in S : f[x] = y
  PROVE  IsFiniteSet(T)
<1> DEFINE g == [x \in S |-> f[x]]
<1>1. g \in [S -> T] /\ \A y \in T : \E x \in S : g[x] = y
  OBVIOUS
<1> HIDE DEF g
<1>2. g \in Surjection(S, T)
  BY <1>1 DEF Surjection
<1> QED BY <1>2, FS_Surjection
=============================================================================
