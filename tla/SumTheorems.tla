----------------------------- MODULE SumTheorems -----------------------------
(***************************************************************************)
(* Sums of integer functions over finite sets of indices.                  *)
(*                                                                         *)
(* SumFunctionOnSet is a recursive function over the subsets of the        *)
(* indices; what it gives is proved by taking a smallest set for which it  *)
(* does not.                                                               *)
(***************************************************************************)
EXTENDS Integers, Functions, FiniteSetTheorems, WellFoundedInduction, TLAPS

\* The order of the natural numbers, as the theorems on well-founded relations want it.
Less == {r \in Nat \X Nat : r[1] < r[2]}

\* Every set of natural numbers has a least one.
LEMMA Least ==
  ASSUME NEW S \in SUBSET Nat, S # {}
  PROVE  \E n \in S : \A m \in S : n <= m
<1>1. OpToRel(<, Nat) = Less
  BY DEF OpToRel, Less
<1>2. IsWellFoundedOn(Less, Nat)
  BY <1>1, NatLessThanWellFounded, Zenon
<1>3. PICK n \in S : \A y \in S : <<y, n>> \notin Less
  BY WFMin, <1>2, Zenon
<1>4. \A m \in Nat : m < n => <<m, n>> \in Less
  BY DEF Less
<1>5. \A m \in S : ~(m < n)
  BY <1>3, <1>4
<1>6. QED BY <1>5

\* The index that FoldFunctionOnSet takes first.
AnyOf(s) == CHOOSE x \in s : TRUE
\* g sums f over every subset of S, down to the empty one.
SumsTo(g, f, S) == g = [s \in SUBSET S |-> IF s = {} THEN 0 ELSE f[AnyOf(s)] + g[s \ {AnyOf(s)}]]

\* It is one of the indices.
LEMMA AnyIn == ASSUME NEW s, s # {} PROVE AnyOf(s) \in s
BY DEF AnyOf

\* Without it, a finite set has one element less.
LEMMA OneLess ==
  ASSUME NEW S, IsFiniteSet(S), NEW s \in SUBSET S, s # {}
  PROVE  /\ s \ {AnyOf(s)} \in SUBSET S /\ Cardinality(s) \in Nat \ {0}
         /\ Cardinality(s \ {AnyOf(s)}) = Cardinality(s) - 1
         /\ Cardinality(s) <= Cardinality(S)
<1>1. IsFiniteSet(s) /\ Cardinality(s) \in Nat /\ Cardinality(s) <= Cardinality(S)
  BY FS_Subset, FS_CardinalityType
<1>2. Cardinality(s) # 0
  BY <1>1, FS_EmptySet
<1>3. Cardinality(s \ {AnyOf(s)}) = Cardinality(s) - 1
  BY <1>1, AnyIn, FS_RemoveElement
<1>4. QED BY <1>1, <1>2, <1>3

\* There is such a function: for subsets of size up to n by that for size up to n-1.
LEMMA SumsExist ==
  ASSUME NEW S, IsFiniteSet(S), NEW f \in [S -> Int]
  PROVE  \E g \in [SUBSET S -> Int] : SumsTo(g, f, S)
<1> DEFINE Upto(g, n) == \A s \in SUBSET S : Cardinality(s) <= n =>
                            g[s] = IF s = {} THEN 0 ELSE f[AnyOf(s)] + g[s \ {AnyOf(s)}]
<1> DEFINE Bad == {n \in Nat : ~ \E g \in [SUBSET S -> Int] : Upto(g, n)}
<1>1. Cardinality(S) \in Nat /\ \A s \in SUBSET S : Cardinality(s) \in Nat
  BY FS_Subset, FS_CardinalityType
<1>2. Bad = {}
  <2> SUFFICES ASSUME Bad # {} PROVE FALSE
    OBVIOUS
  <2> HIDE DEF Upto
  <2>1. PICK n \in Bad : \A m \in Bad : n <= m
    BY Least
  <2>2. CASE n = 0
    <3> DEFINE z == [s \in SUBSET S |-> 0]
    <3>1. ASSUME NEW s \in SUBSET S, Cardinality(s) <= 0 PROVE s = {}
      <4>1. s # {} => Cardinality(s) \in Nat \ {0}
        BY OneLess
      <4>2. QED BY <3>1, <4>1
    <3>2. Upto(z, 0)
      BY <3>1 DEF Upto
    <3>3. z \in [SUBSET S -> Int]
      OBVIOUS
    <3>4. QED BY <2>2, <3>2, <3>3
  <2>3. CASE n # 0
    <3>1. n - 1 \in Nat /\ ~(n <= n - 1) /\ n \in Nat
      BY <2>3
    <3>2. PICK g \in [SUBSET S -> Int] : Upto(g, n - 1)
      BY <2>1, <3>1
    <3> DEFINE h == [s \in SUBSET S |-> IF s = {} THEN 0
                                        ELSE f[AnyOf(s)] + g[s \ {AnyOf(s)}]]
    <3>3. \A s \in SUBSET S : s # {} => f[AnyOf(s)] + g[s \ {AnyOf(s)}] \in Int
      BY AnyIn
    <3>4. h \in [SUBSET S -> Int]
      BY <3>3
    <3>5. \A s \in SUBSET S : Cardinality(s) <= n - 1 => h[s] = g[s]
      BY <3>2 DEF Upto
    <3>6. ASSUME NEW s \in SUBSET S, s # {}, Cardinality(s) <= n
          PROVE  h[s] = f[AnyOf(s)] + h[s \ {AnyOf(s)}]
      <4>1. h[s \ {AnyOf(s)}] = g[s \ {AnyOf(s)}]
        <5>1. s \ {AnyOf(s)} \in SUBSET S /\ Cardinality(s \ {AnyOf(s)}) <= n - 1
          BY <3>1, <3>6, OneLess
        <5> HIDE DEF h
        <5>2. QED BY <5>1, <3>5
      <4>2. h[s] = f[AnyOf(s)] + g[s \ {AnyOf(s)}]
        BY <3>6
      <4>3. QED BY <4>1, <4>2
    <3>7. {} \in SUBSET S /\ h[{}] = 0
      OBVIOUS
    <3> HIDE DEF h
    <3>8. Upto(h, n)
      BY <3>6, <3>7 DEF Upto
    <3>9. QED BY <3>4, <3>8
  <2>4. QED BY <2>2, <2>3
<1>3. PICK g \in [SUBSET S -> Int] : Upto(g, Cardinality(S))
  BY <1>1, <1>2
<1>4. \A s \in SUBSET S : Cardinality(s) <= Cardinality(S)
  BY FS_Subset
<1>5. SumsTo(g, f, S)
  BY <1>3, <1>4 DEF SumsTo
<1>6. QED BY <1>5

\* Two such functions agree on every set on which what they sum agrees.
LEMMA SumsEqual ==
  ASSUME NEW S, IsFiniteSet(S), NEW T, NEW f, NEW e,
         NEW g, SumsTo(g, f, S), NEW h, SumsTo(h, e, T)
  PROVE  \A s \in SUBSET (S \cap T) : (\A x \in s : f[x] = e[x]) => g[s] = h[s]
<1> DEFINE Bad == {n \in Nat : \E s \in SUBSET (S \cap T) :
                                 Cardinality(s) = n /\ g[s] # h[s] /\ \A x \in s : f[x] = e[x]}
<1>1. Bad = {}
  <2> SUFFICES ASSUME Bad # {} PROVE FALSE
    OBVIOUS
  <2>1. PICK n \in Bad : \A m \in Bad : n <= m
    BY Least
  <2>2. PICK s \in SUBSET (S \cap T) :
          Cardinality(s) = n /\ g[s] # h[s] /\ \A x \in s : f[x] = e[x]
    OBVIOUS
  <2>3. s \in SUBSET S /\ s \in SUBSET T
    OBVIOUS
  <2>4. s # {}
    BY <2>2, <2>3 DEF SumsTo
  <2> DEFINE r == s \ {AnyOf(s)}
  <2>5. g[s] = f[AnyOf(s)] + g[r] /\ h[s] = e[AnyOf(s)] + h[r]
    BY <2>3, <2>4 DEF SumsTo
  <2>6. f[AnyOf(s)] = e[AnyOf(s)]
    BY <2>2, <2>4, AnyIn
  <2>7. g[r] # h[r]
    BY <2>2, <2>5, <2>6
  <2>8. Cardinality(r) = n - 1 /\ n - 1 \in Nat /\ r \in SUBSET (S \cap T)
    <3>1. n \in Nat /\ Cardinality(s) = n
      BY <2>2
    <3>2. Cardinality(s) \in Nat \ {0} /\ Cardinality(r) = Cardinality(s) - 1
      BY <2>3, <2>4, OneLess
    <3>3. QED BY <3>1, <3>2
  <2>9. n - 1 \in Bad
    BY <2>2, <2>7, <2>8
  <2>10. QED BY <2>1, <2>9
<1>2. QED
  <2> SUFFICES ASSUME NEW s \in SUBSET (S \cap T), \A x \in s : f[x] = e[x], g[s] # h[s]
               PROVE  FALSE
    OBVIOUS
  <2>1. Cardinality(s) \in Nat
    BY FS_Subset, FS_CardinalityType
  <2>2. Cardinality(s) \in Bad
    BY <2>1
  <2>3. QED BY <2>2, <1>1

\* What SumFunctionOnSet computes, stated without its recursion.
LEMMA SumUnfold ==
  ASSUME NEW S, IsFiniteSet(S), NEW D, S \subseteq D, NEW f \in [D -> Int]
  PROVE  \E g \in [SUBSET S -> Int] : SumsTo(g, f, S) /\ SumFunctionOnSet(f, S) = g[S]
<1> DEFINE r == [x \in S |-> f[x]]
<1>1. PICK h \in [SUBSET S -> Int] : SumsTo(h, r, S)
  BY SumsExist
<1>2. \A s \in SUBSET S : s # {} => r[AnyOf(s)] = f[AnyOf(s)]
  BY AnyIn
<1>3. SumsTo(h, f, S)
  BY <1>1, <1>2 DEF SumsTo
<1> DEFINE c == CHOOSE g : SumsTo(g, f, S)
<1>4. SumsTo(c, f, S)
  BY <1>3
<1>5. SumsTo(c, r, S)
  BY <1>2, <1>4 DEF SumsTo
<1>6. SumFunctionOnSet(f, S) = c[S]
  BY DEF SumFunctionOnSet, FoldFunctionOnSet, MapThenFoldSet, SumsTo, AnyOf
<1> HIDE DEF c, r
<1>7. \A s \in SUBSET S : c[s] = h[s]
  BY <1>1, <1>5, SumsEqual DEF r
<1>8. DOMAIN c = SUBSET S /\ c = [s \in SUBSET S |-> c[s]]
  BY <1>4 DEF SumsTo
<1>9. c \in [SUBSET S -> Int]
  BY <1>7, <1>8
<1>10. QED BY <1>4, <1>6, <1>9

\* AnyOf summand can be the first.
AnyOrder(g, f, S) == \A s \in SUBSET S : \A x \in s : g[s] = f[x] + g[s \ {x}]

\* The order of the summands does not matter.
LEMMA SumsAnyOrder ==
  ASSUME NEW D, NEW f \in [D -> Int], NEW S \in SUBSET D, IsFiniteSet(S),
         NEW g \in [SUBSET S -> Int], SumsTo(g, f, S)
  PROVE  AnyOrder(g, f, S)
<1> DEFINE Bad == {n \in Nat : \E s \in SUBSET S :
                                 Cardinality(s) = n /\ \E x \in s : g[s] # f[x] + g[s \ {x}]}
<1>1. Bad = {}
  <2> SUFFICES ASSUME Bad # {} PROVE FALSE
    OBVIOUS
  <2>1. PICK n \in Bad : \A m \in Bad : n <= m
    BY Least
  <2>2. PICK s \in SUBSET S : Cardinality(s) = n /\ \E x \in s : g[s] # f[x] + g[s \ {x}]
    OBVIOUS
  <2>3. PICK x \in s : g[s] # f[x] + g[s \ {x}]
    BY <2>2
  <2> DEFINE y == AnyOf(s)
  <2>4. g[s] = f[y] + g[s \ {y}] /\ y \in s
    BY <2>3, AnyIn DEF SumsTo
  <2>5. x # y
    BY <2>3, <2>4
  <2>6. \A z \in s : /\ Cardinality(s \ {z}) \in Nat /\ Cardinality(s \ {z}) \notin Bad
                     /\ s \ {z} \in SUBSET S
    <3> SUFFICES ASSUME NEW z \in s
                 PROVE  /\ Cardinality(s \ {z}) \in Nat /\ Cardinality(s \ {z}) \notin Bad
                        /\ s \ {z} \in SUBSET S
      OBVIOUS
    <3>1. IsFiniteSet(s)
      BY FS_Subset
    <3>2. Cardinality(s \ {z}) = n - 1 /\ IsFiniteSet(s \ {z})
      BY <2>2, <3>1, FS_RemoveElement
    <3>3. Cardinality(s \ {z}) \in Nat
      BY <3>2, FS_CardinalityType
    <3>4. n \in Nat
      OBVIOUS
    <3>5. ~(n <= Cardinality(s \ {z}))
      BY <3>2, <3>4
    <3>6. s \ {z} \in SUBSET S
      OBVIOUS
    <3> HIDE DEF Bad
    <3>7. QED BY <2>1, <3>3, <3>5, <3>6
  <2>7. \A z \in s : \A u \in s \ {z} : g[s \ {z}] = f[u] + g[(s \ {z}) \ {u}]
    BY <2>6
  <2>8. g[s \ {y}] = f[x] + g[(s \ {y}) \ {x}] /\ g[s \ {x}] = f[y] + g[(s \ {x}) \ {y}]
    BY <2>4, <2>5, <2>7
  <2> DEFINE r == s \ {x, y}
  <2>9. (s \ {y}) \ {x} = r /\ (s \ {x}) \ {y} = r /\ r \in SUBSET S
    OBVIOUS
  <2>10. f[x] \in Int /\ f[y] \in Int /\ g[r] \in Int
    BY <2>4, <2>9
  <2> HIDE DEF y, r
  <2>11. g[s] = f[y] + (f[x] + g[r])
    BY <2>4, <2>8, <2>9
  <2>12. g[s \ {x}] = f[y] + g[r]
    BY <2>8, <2>9
  <2>13. f[x] + g[s \ {x}] = f[x] + (f[y] + g[r])
    BY <2>12
  <2>14. f[y] + (f[x] + g[r]) = f[x] + (f[y] + g[r])
    BY ONLY <2>10
  <2>15. QED BY ONLY <2>3, <2>11, <2>13, <2>14
<1>2. \A s \in SUBSET S : Cardinality(s) \in Nat
  BY FS_Subset, FS_CardinalityType
<1>3. QED BY <1>1, <1>2 DEF AnyOrder

\* The sum over no index is zero.
LEMMA SumEmpty ==
  ASSUME NEW f PROVE SumFunctionOnSet(f, {}) = 0
<1> DEFINE r == [x \in {} |-> 0]
<1>1. PICK h \in [SUBSET {} -> Int] : SumsTo(h, r, {})
  BY SumsExist, FS_EmptySet
<1>2. SumsTo(h, f, {})
  BY <1>1 DEF SumsTo
<1> DEFINE c == CHOOSE g : SumsTo(g, f, {})
<1>3. SumsTo(c, f, {})
  BY <1>2
<1>4. SumFunctionOnSet(f, {}) = c[{}]
  BY DEF SumFunctionOnSet, FoldFunctionOnSet, MapThenFoldSet, SumsTo, AnyOf
<1>5. QED BY <1>3, <1>4 DEF SumsTo

\* The sum is an integer, and any index can be taken out of it.
LEMMA SumSplit ==
  ASSUME NEW D, NEW f \in [D -> Int], NEW S \in SUBSET D, IsFiniteSet(S)
  PROVE  /\ SumFunctionOnSet(f, S) \in Int
         /\ \A x \in S : SumFunctionOnSet(f, S) = f[x] + SumFunctionOnSet(f, S \ {x})
<1>1. PICK g \in [SUBSET S -> Int] : SumsTo(g, f, S) /\ SumFunctionOnSet(f, S) = g[S]
  BY SumUnfold
<1>2. ASSUME NEW x \in S
      PROVE  SumFunctionOnSet(f, S) = f[x] + SumFunctionOnSet(f, S \ {x})
  <2> DEFINE T == S \ {x}
  <2>1. IsFiniteSet(T) /\ T \in SUBSET D /\ T \in SUBSET S /\ T \in SUBSET (S \cap T)
    BY FS_RemoveElement
  <2> HIDE DEF T
  <2>2. PICK h \in [SUBSET T -> Int] : SumsTo(h, f, T) /\ SumFunctionOnSet(f, T) = h[T]
    BY <2>1, SumUnfold
  <2>3. g[T] = h[T]
    BY <1>1, <2>1, <2>2, SumsEqual
  <2>4. g[S] = f[x] + g[T]
    <3>1. AnyOrder(g, f, S)
      BY <1>1, SumsAnyOrder
    <3>2. QED BY <3>1 DEF T, AnyOrder
  <2>5. QED BY <1>1, <2>2, <2>3, <2>4 DEF T
<1>3. QED BY <1>1, <1>2

\* Functions that agree on the indices have the same sum.
LEMMA SumAgree ==
  ASSUME NEW D, NEW f \in [D -> Int], NEW E, NEW e \in [E -> Int],
         NEW S \in SUBSET (D \cap E), IsFiniteSet(S), \A x \in S : f[x] = e[x]
  PROVE  SumFunctionOnSet(f, S) = SumFunctionOnSet(e, S)
<1>1. PICK g \in [SUBSET S -> Int] : SumsTo(g, f, S) /\ SumFunctionOnSet(f, S) = g[S]
  BY SumUnfold
<1>2. PICK h \in [SUBSET S -> Int] : SumsTo(h, e, S) /\ SumFunctionOnSet(e, S) = h[S]
  BY SumUnfold
<1>3. g[S] = h[S]
  BY <1>1, <1>2, SumsEqual
<1>4. QED BY <1>1, <1>2, <1>3

-----------------------------------------------------------------------------

\* f is a combination of a, b and c
Combines(f, S, p, a, q, b, r, c) == \A x \in S : f[x] = p * a[x] + q * b[x] + r * c[x]

\* The sum of a combination of functions is that combination of their sums.
LEMMA SumLinear ==
  ASSUME NEW S, IsFiniteSet(S), NEW p \in Int, NEW q \in Int, NEW r \in Int,
         NEW a \in [S -> Int], NEW b \in [S -> Int], NEW c \in [S -> Int], NEW f \in [S -> Int],
         Combines(f, S, p, a, q, b, r, c)
  PROVE  SumFunctionOnSet(f, S) = p * SumFunctionOnSet(a, S) + q * SumFunctionOnSet(b, S)
                                    + r * SumFunctionOnSet(c, S)
<1> DEFINE Is(s) == SumFunctionOnSet(f, s) = p * SumFunctionOnSet(a, s)
                      + q * SumFunctionOnSet(b, s) + r * SumFunctionOnSet(c, s)
<1> DEFINE Bad == {n \in Nat : \E s \in SUBSET S : Cardinality(s) = n /\ ~Is(s)}
<1>1. \A s \in SUBSET S : IsFiniteSet(s) /\ Cardinality(s) \in Nat
  BY FS_Subset, FS_CardinalityType
<1>2. Bad = {}
  <2> SUFFICES ASSUME Bad # {} PROVE FALSE
    OBVIOUS
  <2> HIDE DEF Is
  <2>1. PICK n \in Bad : \A m \in Bad : n <= m
    BY Least
  <2>2. PICK s \in SUBSET S : Cardinality(s) = n /\ ~Is(s)
    OBVIOUS
  <2>3. s # {}
    <3>1. Is({})
      BY SumEmpty DEF Is
    <3> QED BY <2>2, <3>1
  <2>4. PICK x \in s : TRUE
    BY <2>3
  <2> DEFINE t == s \ {x}
  <2>5. /\ t \in SUBSET S /\ IsFiniteSet(t) /\ Cardinality(t) \in Nat /\ Cardinality(t) = n - 1
        /\ n \in Nat
    <3>1. IsFiniteSet(s)
      BY <1>1
    <3> QED BY <1>1, <2>2, <3>1, FS_RemoveElement
  <2>6. Is(t)
    <3>1. Cardinality(t) \notin Bad
      <4>1. ~(n <= Cardinality(t))
        BY <2>5
      <4> HIDE DEF Bad
      <4> QED BY <2>1, <4>1
    <3> QED BY <2>5, <3>1
  <2>7. \A g \in [S -> Int] : /\ SumFunctionOnSet(g, t) \in Int /\ g[x] \in Int
                              /\ SumFunctionOnSet(g, s) = g[x] + SumFunctionOnSet(g, t)
    <3> SUFFICES ASSUME NEW g \in [S -> Int]
                 PROVE  /\ SumFunctionOnSet(g, t) \in Int /\ g[x] \in Int
                        /\ SumFunctionOnSet(g, s) = g[x] + SumFunctionOnSet(g, t)
      OBVIOUS
    <3>1. s \in SUBSET S /\ IsFiniteSet(s) /\ t \in SUBSET S /\ IsFiniteSet(t)
      BY <1>1, <2>5
    <3>2. \A z \in s : SumFunctionOnSet(g, s) = g[z] + SumFunctionOnSet(g, s \ {z})
      BY <3>1, SumSplit
    <3>3. SumFunctionOnSet(g, t) \in Int
      <4> HIDE DEF t
      <4> QED BY <3>1, SumSplit
    <3> QED BY <2>4, <3>2, <3>3
  <2> HIDE DEF t
  <2> DEFINE A == SumFunctionOnSet(a, t)
             B == SumFunctionOnSet(b, t)
             C == SumFunctionOnSet(c, t)
             F == SumFunctionOnSet(f, t)
  <2>8. /\ A \in Int /\ B \in Int /\ C \in Int /\ F \in Int
        /\ a[x] \in Int /\ b[x] \in Int /\ c[x] \in Int /\ f[x] \in Int
        /\ SumFunctionOnSet(a, s) = a[x] + A /\ SumFunctionOnSet(b, s) = b[x] + B
        /\ SumFunctionOnSet(c, s) = c[x] + C /\ SumFunctionOnSet(f, s) = f[x] + F
    BY <2>7
  <2>9. F = p * A + q * B + r * C /\ f[x] = p * a[x] + q * b[x] + r * c[x]
    BY <2>4, <2>6 DEF Is, Combines
  <2>10. \A k, l, m, a1, b1, c1 \in Int :
           (p * k + q * l + r * m) + (p * a1 + q * b1 + r * c1)
             = p * (k + a1) + q * (l + b1) + r * (m + c1)
    OBVIOUS
  <2> HIDE DEF A, B, C, F
  <2>11. f[x] + F = p * (a[x] + A) + q * (b[x] + B) + r * (c[x] + C)
    BY <2>8, <2>9, <2>10
  <2>12. Is(s)
    BY <2>8, <2>11 DEF Is
  <2> QED BY <2>2, <2>12
<1>3. Is(S)
  BY <1>1, <1>2
<1> QED BY <1>3

\* The last of the first n is taken out.
LEMMA SumLast ==
  ASSUME NEW n \in Nat \ {0}, NEW D, NEW f \in [D -> Int], 0 .. n - 1 \subseteq D
  PROVE  SumFunctionOnSet(f, 0 .. n - 1) = f[n - 1] + SumFunctionOnSet(f, 0 .. (n - 1) - 1)
<1> DEFINE S == 0 .. n - 1
<1>1. S \ {n - 1} = 0 .. (n - 1) - 1
  <2>1. \A k \in Int : (0 <= k /\ k <= n - 1 /\ k # n - 1) <=> (0 <= k /\ k <= (n - 1) - 1)
    OBVIOUS
  <2> QED BY <2>1
<1>2. n - 1 \in S /\ S \in SUBSET D /\ IsFiniteSet(S)
  BY FS_Interval
<1>3. SumFunctionOnSet(f, S) = f[n - 1] + SumFunctionOnSet(f, S \ {n - 1})
  <2> HIDE DEF S
  <2> QED BY <1>2, SumSplit
<1> QED BY <1>1, <1>3

\* The sum of the steps of a function is what lies between its ends.
LEMMA SumTelescope ==
  ASSUME NEW N \in Nat, NEW w \in [0 .. N -> Int], NEW f \in [0 .. N - 1 -> Int],
         \A k \in 0 .. N - 1 : f[k] = w[k] - w[k + 1]
  PROVE  SumFunctionOnSet(f, 0 .. N - 1) = w[0] - w[N]
<1> DEFINE Is(n) == SumFunctionOnSet(f, 0 .. n - 1) = w[0] - w[n]
<1> DEFINE Bad == {n \in 0 .. N : ~Is(n)}
<1>1. Bad = {}
  <2> SUFFICES ASSUME Bad # {} PROVE FALSE
    OBVIOUS
  <2> HIDE DEF Is
  <2>1. PICK n \in Bad : \A m \in Bad : n <= m
    <3>1. Bad \in SUBSET Nat
      OBVIOUS
    <3> HIDE DEF Bad
    <3> QED BY <3>1, Least
  <2>2. n \in 0 .. N /\ ~Is(n)
    OBVIOUS
  <2>3. n # 0
    <3>1. 0 .. 0 - 1 = {}
      OBVIOUS
    <3>2. w[0] \in Int
      OBVIOUS
    <3>3. Is(0)
      BY <3>1, <3>2, SumEmpty DEF Is
    <3> QED BY <2>2, <3>3
  <2>4. /\ n - 1 \in 0 .. N - 1 /\ n - 1 \in 0 .. N /\ n - 1 \in 0 .. n - 1 /\ (n - 1) + 1 = n
        /\ (0 .. n - 1) \ {n - 1} = 0 .. (n - 1) - 1 /\ 0 .. n - 1 \subseteq 0 .. N - 1
        /\ ~(n <= n - 1) /\ n \in Int /\ n - 1 \in Int
    <3> HIDE DEF Bad
    <3>1. n \in Nat \ {0} /\ n <= N
      BY <2>2, <2>3
    <3>2. (0 .. n - 1) \ {n - 1} = 0 .. (n - 1) - 1
      <4>1. \A k \in Int : (0 <= k /\ k <= n - 1 /\ k # n - 1) <=> (0 <= k /\ k <= (n - 1) - 1)
        BY <3>1
      <4> QED BY <4>1
    <3> QED BY <3>1, <3>2
  <2>5. Is(n - 1)
    BY <2>1, <2>4
  <2>6. SumFunctionOnSet(f, 0 .. n - 1) = f[n - 1] + SumFunctionOnSet(f, 0 .. (n - 1) - 1)
    <3> HIDE DEF Bad
    <3>1. n \in Nat \ {0}
      BY <2>2, <2>3
    <3> QED BY <2>4, <3>1, SumLast
  <2>7. f[n - 1] = w[n - 1] - w[n] /\ w[n - 1] \in Int /\ w[n] \in Int /\ w[0] \in Int
    BY <2>2, <2>4
  <2>8. Is(n)
    BY <2>5, <2>6, <2>7 DEF Is
  <2> QED BY <2>2, <2>8
<1>2. Is(N)
  <2>1. N \in 0 .. N
    OBVIOUS
  <2> QED BY <1>1, <2>1
<1> QED BY <1>2
==============================================================================
