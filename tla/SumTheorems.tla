---------------------------- MODULE SumTheorems ----------------------------
(***************************************************************************)
(* What SumFunctionOnSet of the community modules computes: the sum of     *)
(* f[x] over a finite set, in whatever order the elements are taken.  The  *)
(* caps of the trader are sums of this kind (Trader!Money), and so are the *)
(* trades the watcher makes of a transaction (Decode!AggregateByTx).  Then *)
(* the least and the greatest number of a finite set.                      *)
(*                                                                         *)
(* The operator is a recursive function over the subsets of its argument,  *)
(* and nothing says beforehand that there is one.  Every proof here takes  *)
(* a smallest counterexample under strict inclusion, which exists because  *)
(* that order is well-founded on the subsets of a finite set.              *)
(***************************************************************************)
EXTENDS Functions, FiniteSets, FiniteSetTheorems, WellFoundedInduction, TLAPS

(* The element the sum takes first, the equation its function satisfies,   *)
(* and a function that satisfies it if there is one.                       *)
Taken(S) == CHOOSE x \in S : TRUE

Sums(g, f, S) ==
    g = [s \in SUBSET S |->
            IF s = {} THEN 0 ELSE f[Taken(s)] + g[s \ {Taken(s)}]]

SumsOf(f, S) == CHOOSE g : Sums(g, f, S)
-----------------------------------------------------------------------------
(* A set of subsets of a finite set has a smallest member.                 *)
LEMMA SmallestSubset ==
    ASSUME NEW F, IsFiniteSet(F), NEW T \in SUBSET SUBSET F, T # {}
    PROVE  \E s \in T : \A r \in T : r \subseteq s => r = s
<1>1. T \subseteq FiniteSubsetsOf(F)
  BY FS_Subset DEF FiniteSubsetsOf
<1>2. \E s \in T : \A r \in T : ~(<<r, s>> \in StrictSubsetOrdering(F))
  BY <1>1, FS_StrictSubsetOrderingWellFounded, WFMin
<1>3. QED
  BY <1>2 DEF StrictSubsetOrdering

(* The element a fold takes from a set that is not empty is in the set.     *)
LEMMA TakenIsElement == \A S : S # {} => Taken(S) \in S
BY DEF Taken

(* Two functions that satisfy the equation agree where both are defined.   *)
LEMMA SumsAgree ==
    ASSUME NEW f, NEW A, IsFiniteSet(A), NEW B, NEW g, NEW h,
           Sums(g, f, A), Sums(h, f, B)
    PROVE  \A s \in SUBSET A : s \in SUBSET B => g[s] = h[s]
<1> DEFINE Bad == {s \in SUBSET A : s \in SUBSET B /\ g[s] # h[s]}
<1>1. SUFFICES ASSUME Bad # {} PROVE FALSE
  OBVIOUS
<1> HIDE DEF Bad
<1>2. PICK s \in Bad : \A r \in Bad : r \subseteq s => r = s
  <2>1. Bad \in SUBSET SUBSET A
    BY DEF Bad
  <2>2. QED
    BY <1>1, <2>1, SmallestSubset
<1> USE DEF Bad
<1>3. s # {}
  BY <1>2 DEF Sums
<1> DEFINE r == s \ {Taken(s)}
<1>4. r \in SUBSET A /\ r \in SUBSET B /\ r # s /\ r \subseteq s
  BY <1>2, <1>3, TakenIsElement
<1>5. g[r] = h[r]
  BY <1>2, <1>4
<1>6. g[s] = f[Taken(s)] + g[r] /\ h[s] = f[Taken(s)] + h[r]
  BY <1>2, <1>3 DEF Sums
<1>7. QED
  BY <1>2, <1>5, <1>6

(* There is such a function for every finite set.                          *)
LEMMA SumsExist ==
    ASSUME NEW f, NEW F, IsFiniteSet(F)
    PROVE  \A S \in SUBSET F : \E g : Sums(g, f, S)
<1> DEFINE Bad == {S \in SUBSET F : ~ \E g : Sums(g, f, S)}
<1>1. SUFFICES ASSUME Bad # {} PROVE FALSE
  OBVIOUS
<1> HIDE DEF Bad
<1>2. PICK S \in Bad : \A r \in Bad : r \subseteq S => r = S
  <2>1. Bad \in SUBSET SUBSET F
    BY DEF Bad
  <2>2. QED
    BY <1>1, <2>1, SmallestSubset
<1> USE DEF Bad
<1>3. ASSUME NEW r \in SUBSET S, r # S PROVE Sums(SumsOf(f, r), f, r)
  BY <1>2, <1>3 DEF SumsOf
<1> DEFINE rest(s) == s \ {Taken(s)}
           g == [s \in SUBSET S |->
                    IF s = {} THEN 0 ELSE f[Taken(s)] + SumsOf(f, rest(s))[rest(s)]]
<1>4. ASSUME NEW s \in SUBSET S, s # {}
      PROVE  g[rest(s)] = SumsOf(f, rest(s))[rest(s)]
  <2>1. rest(s) \in SUBSET S /\ rest(s) # S
    BY <1>4, TakenIsElement
  <2>2. Sums(SumsOf(f, rest(s)), f, rest(s))
    BY <1>3, <2>1
  <2>3. CASE rest(s) = {}
    BY <2>1, <2>2, <2>3 DEF Sums
  <2>4. CASE rest(s) # {}
    <3> DEFINE r == rest(s)
    <3>1. rest(r) \in SUBSET S /\ rest(r) # S /\ rest(r) \in SUBSET r
      BY <2>1, <2>4, TakenIsElement
    <3>2. Sums(SumsOf(f, rest(r)), f, rest(r))
      BY <1>3, <3>1
    <3>3. IsFiniteSet(r) /\ IsFiniteSet(rest(r))
      BY <2>1, <3>1, FS_Subset
    <3>4. SumsOf(f, r)[rest(r)] = SumsOf(f, rest(r))[rest(r)]
      <4> HIDE DEF rest
      <4>1. \A q \in SUBSET r : q \in SUBSET rest(r) =>
               SumsOf(f, r)[q] = SumsOf(f, rest(r))[q]
        BY <2>2, <3>2, <3>3, SumsAgree
      <4>2. QED
        BY <3>1, <4>1
    <3>5. SumsOf(f, r)[r] = f[Taken(r)] + SumsOf(f, r)[rest(r)]
      BY <2>2, <2>4 DEF Sums
    <3>6. g[r] = f[Taken(r)] + SumsOf(f, rest(r))[rest(r)]
      BY <2>1, <2>4
    <3>7. QED
      BY <3>4, <3>5, <3>6
  <2>5. QED
    BY <2>3, <2>4
<1>5. g = [s \in SUBSET S |->
              IF s = {} THEN 0 ELSE f[Taken(s)] + g[rest(s)]]
  BY <1>4
<1>6. Sums(g, f, S)
  BY <1>5 DEF Sums
<1>7. QED
  BY <1>2, <1>6
-----------------------------------------------------------------------------
(* The library's sum is the recursive function SumsOf at the set.           *)
LEMMA SumIsSumsOf ==
    \A f, S : SumFunctionOnSet(f, S) = SumsOf(f, S)[S]
BY DEF SumFunctionOnSet, FoldFunctionOnSet, MapThenFoldSet, SumsOf, Sums, Taken

(* The sum over nothing is zero, and the sum over a finite set is that of  *)
(* the element taken first and of the rest.                                *)
LEMMA SumStep ==
    ASSUME NEW f, NEW S, IsFiniteSet(S)
    PROVE  SumFunctionOnSet(f, S) =
              IF S = {} THEN 0
              ELSE f[Taken(S)] + SumFunctionOnSet(f, S \ {Taken(S)})
<1> DEFINE r == S \ {Taken(S)}
<1>1. IsFiniteSet(r) /\ r \in SUBSET S
  BY FS_Subset
<1>2. Sums(SumsOf(f, S), f, S) /\ Sums(SumsOf(f, r), f, r)
  BY <1>1, SumsExist DEF SumsOf
<1>3. SumsOf(f, S)[r] = SumsOf(f, r)[r]
  BY <1>1, <1>2, SumsAgree
<1>4. SumsOf(f, S)[S] = IF S = {} THEN 0 ELSE f[Taken(S)] + SumsOf(f, S)[r]
  BY <1>2 DEF Sums
<1>5. QED
  BY <1>3, <1>4, SumIsSumsOf

(* The sum of integers is an integer, that of natural numbers a natural    *)
(* number.                                                                 *)
LEMMA SumType ==
    ASSUME NEW S, IsFiniteSet(S), NEW N, N \in {Int, Nat},
           NEW f, \A x \in S : f[x] \in N
    PROVE  SumFunctionOnSet(f, S) \in N
<1> DEFINE Bad == {s \in SUBSET S : SumFunctionOnSet(f, s) \notin N}
<1>1. SUFFICES ASSUME Bad # {} PROVE FALSE
  OBVIOUS
<1> HIDE DEF Bad
<1>2. PICK s \in Bad : \A r \in Bad : r \subseteq s => r = s
  <2>1. Bad \in SUBSET SUBSET S
    BY DEF Bad
  <2>2. QED
    BY <1>1, <2>1, SmallestSubset
<1> USE DEF Bad
<1> DEFINE r == s \ {Taken(s)}
<1>3. IsFiniteSet(s)
  BY <1>2, FS_Subset
<1>4. s # {}
  <2>1. s = {} => SumFunctionOnSet(f, s) = 0
    BY <1>3, SumStep
  <2>2. 0 \in N
    OBVIOUS
  <2>3. QED
    BY <1>2, <2>1, <2>2
<1>5. Taken(s) \in s /\ r # s
  BY <1>4, TakenIsElement
<1>6. SumFunctionOnSet(f, r) \in N /\ f[Taken(s)] \in N
  BY <1>2, <1>5
<1>7. SumFunctionOnSet(f, s) = f[Taken(s)] + SumFunctionOnSet(f, r)
  BY <1>3, <1>4, SumStep
<1>8. QED
  BY <1>2, <1>6, <1>7

(* Any element may be taken first.                                         *)
THEOREM SumTakesAnyFirst ==
    ASSUME NEW S, IsFiniteSet(S), NEW f, \A x \in S : f[x] \in Int
    PROVE  \A x \in S :
              SumFunctionOnSet(f, S) = f[x] + SumFunctionOnSet(f, S \ {x})
<1> DEFINE Total(s) == SumFunctionOnSet(f, s)
           Bad == {s \in SUBSET S : \E x \in s : Total(s) # f[x] + Total(s \ {x})}
<1>1. SUFFICES ASSUME Bad # {} PROVE FALSE
  OBVIOUS
<1> HIDE DEF Bad
<1>2. PICK s \in Bad : \A r \in Bad : r \subseteq s => r = s
  <2>1. Bad \in SUBSET SUBSET S
    BY DEF Bad
  <2>2. QED
    BY <1>1, <2>1, SmallestSubset
<1> USE DEF Bad
<1>3. PICK x \in s : Total(s) # f[x] + Total(s \ {x})
  BY <1>2
<1>4. IsFiniteSet(s) /\ s # {}
  BY <1>2, <1>3, FS_Subset
<1> DEFINE y == Taken(s)
<1>5. y \in s /\ Total(s) = f[y] + Total(s \ {y})
  BY <1>4, TakenIsElement, SumStep
<1>6. x # y
  BY <1>3, <1>5
<1>7. s \ {x} \notin Bad /\ s \ {y} \notin Bad
  BY <1>2, <1>3, <1>5
<1>8. Total(s \ {x}) = f[y] + Total((s \ {x}) \ {y})
  BY <1>2, <1>5, <1>6, <1>7
<1>9. Total(s \ {y}) = f[x] + Total((s \ {y}) \ {x})
  BY <1>2, <1>3, <1>6, <1>7
<1>10. (s \ {x}) \ {y} = (s \ {y}) \ {x}
  OBVIOUS
<1>11. Total((s \ {x}) \ {y}) \in Int
  <2>1. (s \ {x}) \ {y} \in SUBSET S
    BY <1>2
  <2>2. QED
    BY <2>1, FS_Subset, SumType
<1>12. f[x] \in Int /\ f[y] \in Int
  BY <1>2, <1>3, <1>5
<1> HIDE DEF Total, Bad, y
<1>13. Total(s) = f[y] + (f[x] + Total((s \ {x}) \ {y}))
  BY <1>5, <1>9, <1>10
<1>14. f[x] + Total(s \ {x}) = f[x] + (f[y] + Total((s \ {x}) \ {y}))
  BY <1>8
<1>15. QED
  BY <1>3, <1>11, <1>12, <1>13, <1>14

(* The sum over nothing is zero.                                           *)
LEMMA SumOfNone == \A f : SumFunctionOnSet(f, {}) = 0
<1>1. IsFiniteSet({})
  BY FS_EmptySet
<1>2. QED
  BY <1>1, SumStep

(* A new element adds what it is worth.                                    *)
LEMMA SumAdds ==
    ASSUME NEW S, IsFiniteSet(S), NEW x, x \notin S,
           NEW f, \A y \in S \cup {x} : f[y] \in Int
    PROVE  SumFunctionOnSet(f, S \cup {x}) = f[x] + SumFunctionOnSet(f, S)
<1>1. IsFiniteSet(S \cup {x})
  BY FS_AddElement
<1>2. x \in S \cup {x} /\ (S \cup {x}) \ {x} = S
  OBVIOUS
<1>3. \A y \in S \cup {x} :
         SumFunctionOnSet(f, S \cup {x}) =
            f[y] + SumFunctionOnSet(f, (S \cup {x}) \ {y})
  BY <1>1, SumTakesAnyFirst
<1>4. QED
  BY <1>2, <1>3

(* A part is worth no more than the whole.                                 *)
THEOREM SumIsMonotone ==
    ASSUME NEW S, IsFiniteSet(S), NEW f, \A x \in S : f[x] \in Nat
    PROVE  \A t \in SUBSET S : SumFunctionOnSet(f, t) <= SumFunctionOnSet(f, S)
<1> DEFINE Total(s) == SumFunctionOnSet(f, s)
           Bad == {s \in SUBSET S : \E t \in SUBSET s : ~(Total(t) <= Total(s))}
<1>1. SUFFICES ASSUME Bad # {} PROVE FALSE
  OBVIOUS
<1> HIDE DEF Bad
<1>2. PICK s \in Bad : \A r \in Bad : r \subseteq s => r = s
  <2>1. Bad \in SUBSET SUBSET S
    BY DEF Bad
  <2>2. QED
    BY <1>1, <2>1, SmallestSubset
<1>3. PICK t \in SUBSET s : ~(Total(t) <= Total(s))
  BY <1>2 DEF Bad
<1>4. ASSUME NEW r \in SUBSET S PROVE Total(r) \in Nat
  BY <1>4, FS_Subset, SumType
<1>5. s \in SUBSET S /\ IsFiniteSet(s)
  BY <1>2, FS_Subset DEF Bad
<1>6. t # s
  BY <1>3, <1>4, <1>5
<1>7. PICK x \in s : x \notin t
  BY <1>6
<1>8. Total(t) <= Total(s \ {x})
  BY <1>2, <1>5, <1>7 DEF Bad
<1>9. Total(s) = f[x] + Total(s \ {x})
  BY <1>5, <1>7, SumTakesAnyFirst
<1>10. f[x] \in Nat /\ Total(t) \in Nat /\ Total(s \ {x}) \in Nat
  BY <1>4, <1>5, <1>7
<1> HIDE DEF Total
<1>11. QED
  BY <1>3, <1>8, <1>9, <1>10

(* The sum of a linear combination is that of the sums.                    *)
THEOREM SumIsLinear ==
    ASSUME NEW S, IsFiniteSet(S), NEW a \in Int, NEW b \in Int, NEW f, NEW g, NEW h,
           \A x \in S : f[x] \in Int /\ g[x] \in Int /\ h[x] = a * f[x] + b * g[x]
    PROVE  SumFunctionOnSet(h, S) = a * SumFunctionOnSet(f, S) + b * SumFunctionOnSet(g, S)
<1> DEFINE F(s) == SumFunctionOnSet(f, s)
           G(s) == SumFunctionOnSet(g, s)
           H(s) == SumFunctionOnSet(h, s)
           Bad == {s \in SUBSET S : H(s) # a * F(s) + b * G(s)}
<1>1. SUFFICES ASSUME Bad # {} PROVE FALSE
  BY <1>1
<1>2. PICK s \in Bad : \A r \in Bad : r \subseteq s => r = s
  <2> HIDE DEF Bad
  <2>1. Bad \in SUBSET SUBSET S
    BY DEF Bad
  <2>2. QED
    BY <2>1, <1>1, SmallestSubset
<1>3. s \in SUBSET S /\ IsFiniteSet(s)
  BY <1>2, FS_Subset
<1>4. s # {}
  <2>1. F({}) = 0 /\ G({}) = 0 /\ H({}) = 0
    BY SumOfNone
  <2>2. a * 0 + b * 0 = 0
    OBVIOUS
  <2> HIDE DEF F, G, H
  <2>3. QED
    BY <1>2, <2>1, <2>2
<1>5. PICK x \in s : TRUE
  BY <1>4
<1> DEFINE r == s \ {x}
<1>6. \A y \in s : f[y] \in Int /\ g[y] \in Int /\ h[y] \in Int
  BY <1>3
<1>7. F(s) = f[x] + F(r) /\ G(s) = g[x] + G(r) /\ H(s) = h[x] + H(r)
  BY <1>3, <1>5, <1>6, SumTakesAnyFirst
<1>8. r \in SUBSET S /\ r # s
  BY <1>3, <1>5
<1>9. F(r) \in Int /\ G(r) \in Int
  <2>1. IsFiniteSet(r)
    BY <1>8, FS_Subset
  <2>2. QED
    BY <2>1, <1>6, SumType
<1>10. H(r) = a * F(r) + b * G(r)
  BY <1>2, <1>8
<1>11. h[x] = a * f[x] + b * g[x] /\ f[x] \in Int /\ g[x] \in Int
  BY <1>3, <1>5
<1>12. H(s) # a * F(s) + b * G(s)
  BY <1>2
<1> HIDE DEF F, G, H, r, Bad
<1>13. \A u, v, m, n \in Int : (a * u + b * v) + (a * m + b * n) = a * (u + m) + b * (v + n)
  OBVIOUS
<1>14. QED
  BY <1>7, <1>9, <1>10, <1>11, <1>12, <1>13

(* Functions that agree on a set have one sum.                             *)
LEMMA SumOfEqual ==
    ASSUME NEW S, IsFiniteSet(S), NEW f, NEW h, \A x \in S : f[x] \in Int /\ h[x] = f[x]
    PROVE  SumFunctionOnSet(h, S) = SumFunctionOnSet(f, S)
<1>1. \A x \in S : f[x] \in Int /\ f[x] \in Int /\ h[x] = 1 * f[x] + 0 * f[x]
  OBVIOUS
<1>2. SumFunctionOnSet(f, S) \in Int
  BY SumType
<1>3. SumFunctionOnSet(h, S) = 1 * SumFunctionOnSet(f, S) + 0 * SumFunctionOnSet(f, S)
  BY <1>1, SumIsLinear
<1>4. QED
  BY <1>2, <1>3

(* The sum of the opposites is the opposite of the sum.                    *)
LEMMA SumOfOpposites ==
    ASSUME NEW S, IsFiniteSet(S), NEW f, NEW h, \A x \in S : f[x] \in Int /\ h[x] = -f[x]
    PROVE  SumFunctionOnSet(h, S) = -SumFunctionOnSet(f, S)
<1>1. \A x \in S : f[x] \in Int /\ f[x] \in Int /\ h[x] = (-1) * f[x] + 0 * f[x]
  OBVIOUS
<1>2. SumFunctionOnSet(f, S) \in Int
  BY SumType
<1>3. SumFunctionOnSet(h, S) = (-1) * SumFunctionOnSet(f, S) + 0 * SumFunctionOnSet(f, S)
  <2>1. -1 \in Int /\ 0 \in Int
    OBVIOUS
  <2>2. QED
    BY <1>1, <2>1, SumIsLinear
<1>4. QED
  BY <1>2, <1>3

(* A natural number is no more than a sum it is part of.                   *)
LEMMA SumCoversPart ==
    ASSUME NEW S, IsFiniteSet(S), NEW f, \A x \in S : f[x] \in Nat
    PROVE  \A x \in S : f[x] <= SumFunctionOnSet(f, S)
<1> TAKE x \in S
<1>1. SumFunctionOnSet(f, S) = f[x] + SumFunctionOnSet(f, S \ {x})
  <2>1. \A y \in S : f[y] \in Int
    OBVIOUS
  <2>2. QED
    BY <2>1, SumTakesAnyFirst
<1>2. SumFunctionOnSet(f, S \ {x}) \in Nat
  <2>1. IsFiniteSet(S \ {x}) /\ \A y \in S \ {x} : f[y] \in Nat
    BY FS_Subset
  <2>2. QED
    BY <2>1, SumType
<1>3. QED
  BY <1>1, <1>2

(* The sum of what is smaller is smaller, strictly if one part is.         *)
THEOREM SumOfLess ==
    ASSUME NEW S, IsFiniteSet(S), NEW f, NEW g,
           \A x \in S : f[x] \in Int /\ g[x] \in Int /\ f[x] <= g[x]
    PROVE  /\ SumFunctionOnSet(f, S) <= SumFunctionOnSet(g, S)
           /\ \A x \in S : f[x] < g[x] => SumFunctionOnSet(f, S) < SumFunctionOnSet(g, S)
<1> DEFINE d == [x \in S |-> g[x] - f[x]]
<1>1. \A x \in S : d[x] \in Nat /\ d[x] = g[x] - f[x] /\ d[x] = (-1) * f[x] + 1 * g[x]
  OBVIOUS
<1> HIDE DEF d
<1>2. SumFunctionOnSet(f, S) \in Int /\ SumFunctionOnSet(g, S) \in Int
  BY SumType
<1>3. SumFunctionOnSet(d, S) = (-1) * SumFunctionOnSet(f, S) + 1 * SumFunctionOnSet(g, S)
  <2>1. -1 \in Int /\ 1 \in Int
    OBVIOUS
  <2>2. QED
    BY <1>1, <2>1, SumIsLinear
<1>4. SumFunctionOnSet(d, S) \in Nat
  BY <1>1, SumType
<1>5. \A x \in S : d[x] <= SumFunctionOnSet(d, S)
  BY <1>1, SumCoversPart
<1>6. QED
  BY <1>1, <1>2, <1>3, <1>4, <1>5

(* The sum over a set is that over its parts, summed over the parts.       *)
THEOREM SumByParts ==
    ASSUME NEW S, IsFiniteSet(S), NEW f, \A x \in S : f[x] \in Int,
           NEW K, IsFiniteSet(K), NEW c, \A x \in S : c[x] \in K
    PROVE  SumFunctionOnSet(f, S) =
              SumFunctionOnSet([k \in K |-> SumFunctionOnSet(f, {x \in S : c[x] = k})], K)
<1> DEFINE Part(s, k) == {x \in s : c[x] = k}
           F(s) == SumFunctionOnSet(f, s)
           g(s) == [k \in K |-> F(Part(s, k))]
           Bad == {s \in SUBSET S : F(s) # SumFunctionOnSet(g(s), K)}
<1>1. SUFFICES ASSUME Bad # {} PROVE FALSE
  BY <1>1
<1>2. PICK s \in Bad : \A r \in Bad : r \subseteq s => r = s
  <2> HIDE DEF Bad
  <2>1. Bad \in SUBSET SUBSET S
    BY DEF Bad
  <2>2. QED
    BY <2>1, <1>1, SmallestSubset
<1>3. s \in SUBSET S /\ IsFiniteSet(s) /\ F(s) # SumFunctionOnSet(g(s), K)
  BY <1>2, FS_Subset
<1>4. ASSUME NEW t \in SUBSET S, NEW k \in K PROVE F(Part(t, k)) \in Int
  <2>1. Part(t, k) \in SUBSET S
    OBVIOUS
  <2> HIDE DEF Part
  <2>2. IsFiniteSet(Part(t, k)) /\ \A x \in Part(t, k) : f[x] \in Int
    BY <2>1, FS_Subset
  <2>3. QED
    BY <2>2, SumType
<1>5. s # {}
  <2>1. SUFFICES ASSUME s = {} PROVE F(s) = SumFunctionOnSet(g(s), K)
    BY <1>3
  <2>2. F({}) = 0
    BY SumOfNone
  <2>3. \A k \in K : Part(s, k) = {}
    BY <2>1
  <2> HIDE DEF Part, F
  <2>4. \A k \in K : g(s)[k] = 0 /\ g(s)[k] = 0 * g(s)[k] + 0 * g(s)[k]
    BY <2>2, <2>3
  <2> HIDE DEF g
  <2>5. SumFunctionOnSet(g(s), K) \in Int
    BY <2>4, SumType
  <2>6. SumFunctionOnSet(g(s), K) =
           0 * SumFunctionOnSet(g(s), K) + 0 * SumFunctionOnSet(g(s), K)
    BY <2>4, SumIsLinear
  <2>7. QED
    BY <2>1, <2>2, <2>5, <2>6
<1>6. PICK x \in s : TRUE
  BY <1>5
<1> DEFINE r == s \ {x}
           m == c[x]
<1>7. r \in SUBSET S /\ r # s /\ m \in K /\ x \in S
  BY <1>3, <1>6
<1>8. F(r) = SumFunctionOnSet(g(r), K)
  BY <1>2, <1>7
<1>9. F(s) = f[x] + F(r)
  BY <1>3, <1>6, SumTakesAnyFirst
<1>10. F(Part(s, m)) = f[x] + F(Part(r, m))
  <2>1. Part(r, m) = Part(s, m) \ {x} /\ x \in Part(s, m) /\ Part(s, m) \in SUBSET S
    BY <1>3, <1>6
  <2> HIDE DEF Part, m, r, Bad, g
  <2>2. IsFiniteSet(Part(s, m)) /\ \A y \in Part(s, m) : f[y] \in Int
    BY <2>1, FS_Subset
  <2>3. QED
    BY <2>1, <2>2, SumTakesAnyFirst
<1>11. \A k \in K \ {m} : Part(s, k) = Part(r, k)
  OBVIOUS
<1>12. /\ \A k \in K : g(s)[k] = F(Part(s, k)) /\ g(r)[k] = F(Part(r, k))
       /\ \A k \in K : g(s)[k] \in Int /\ g(r)[k] \in Int
  <2>1. \A k \in K : g(s)[k] = F(Part(s, k)) /\ g(r)[k] = F(Part(r, k))
    OBVIOUS
  <2> HIDE DEF g, F, Part, r
  <2>2. QED
    BY <2>1, <1>3, <1>4, <1>7
<1> HIDE DEF g, Part
<1>13. SumFunctionOnSet(g(s), K) = g(s)[m] + SumFunctionOnSet(g(s), K \ {m})
  BY <1>7, <1>12, SumTakesAnyFirst
<1>14. SumFunctionOnSet(g(r), K) = g(r)[m] + SumFunctionOnSet(g(r), K \ {m})
  <2>1. \A k \in K : g(r)[k] \in Int
    BY <1>12
  <2> HIDE DEF g, m, r
  <2>2. QED
    BY <1>7, <2>1, SumTakesAnyFirst
<1>15. SumFunctionOnSet(g(s), K \ {m}) = SumFunctionOnSet(g(r), K \ {m})
  <2>1. IsFiniteSet(K \ {m})
    BY FS_Subset
  <2>2. \A k \in K \ {m} : g(r)[k] \in Int /\ g(s)[k] = g(r)[k]
    BY <1>11, <1>12
  <2>3. QED
    BY <2>1, <2>2, SumOfEqual
<1>16. SumFunctionOnSet(g(r), K \ {m}) \in Int
  <2>1. IsFiniteSet(K \ {m}) /\ \A k \in K \ {m} : g(r)[k] \in Int
    BY <1>12, FS_Subset
  <2>2. QED
    BY <2>1, SumType
<1>17. f[x] \in Int /\ g(r)[m] \in Int
  BY <1>7, <1>12
<1> HIDE DEF F, r, m
<1>18. g(s)[m] = f[x] + g(r)[m]
  BY <1>7, <1>10, <1>12
<1>19. F(s) = SumFunctionOnSet(g(s), K)
  BY <1>8, <1>9, <1>13, <1>14, <1>15, <1>16, <1>17, <1>18
<1>20. QED
  BY <1>3, <1>19
-----------------------------------------------------------------------------
(* Other facts about finite sets by the same means.                        *)

(* The values of a function on a finite set are finitely many.             *)
LEMMA ImageIsFinite ==
    ASSUME NEW S, IsFiniteSet(S), NEW f
    PROVE  IsFiniteSet({f[x] : x \in S})
<1> DEFINE T == {f[x] : x \in S}
           g == [x \in S |-> f[x]]
<1>1. g \in Surjection(S, T)
  BY DEF Surjection
<1>2. QED
  BY <1>1, FS_Surjection

(* A function with whole values has a least one on a finite set that is    *)
(* not empty ...                                                           *)
THEOREM HasLeast ==
    ASSUME NEW S, IsFiniteSet(S), S # {}, NEW f, \A x \in S : f[x] \in Int
    PROVE  \E m \in S : \A x \in S : f[m] <= f[x]
<1> DEFINE Bad == {T \in SUBSET S : T # {} /\ ~ \E m \in T : \A x \in T : f[m] <= f[x]}
<1>1. SUFFICES ASSUME Bad # {} PROVE FALSE
  BY <1>1
<1>2. PICK T \in Bad : \A R \in Bad : R \subseteq T => R = T
  <2> HIDE DEF Bad
  <2>1. Bad \in SUBSET SUBSET S
    BY DEF Bad
  <2>2. QED
    BY <2>1, <1>1, SmallestSubset
<1>3. PICK t \in T : TRUE
  BY <1>2
<1>4. T \ {t} \notin Bad
  BY <1>2, <1>3
<1>5. CASE T \ {t} = {}
  <2>1. \A x \in T : f[t] <= f[x]
    BY <1>5, <1>2, <1>3
  <2>2. QED
    BY <2>1, <1>2, <1>3
<1>6. CASE T \ {t} # {}
  <2>1. PICK m \in T \ {t} : \A x \in T \ {t} : f[m] <= f[x]
    BY <1>6, <1>4, <1>2
  <2>2. f[m] \in Int /\ f[t] \in Int /\ \A x \in T : f[x] \in Int
    BY <1>2, <1>3, <2>1
  <2>3. CASE f[m] <= f[t]
    BY <2>1, <2>3, <1>2
  <2>4. CASE f[t] <= f[m]
    <3>1. \A x \in T : f[t] <= f[x]
      BY <2>1, <2>2, <2>4
    <3>2. QED
      BY <3>1, <1>2, <1>3
  <2>5. QED
    BY <2>2, <2>3, <2>4
<1>7. QED
  BY <1>5, <1>6

(* ... and a greatest one.                                                 *)
THEOREM HasGreatest ==
    ASSUME NEW S, IsFiniteSet(S), S # {}, NEW f, \A x \in S : f[x] \in Int
    PROVE  \E m \in S : \A x \in S : f[x] <= f[m]
<1> DEFINE g == [x \in S |-> -f[x]]
<1>1. \A x \in S : g[x] \in Int /\ g[x] = -f[x]
  OBVIOUS
<1>2. PICK m \in S : \A x \in S : g[m] <= g[x]
  <2> HIDE DEF g
  <2>1. QED
    BY <1>1, HasLeast
<1> HIDE DEF g
<1>3. \A x \in S : f[x] <= f[m]
  BY <1>1, <1>2
<1>4. QED
  BY <1>3

-----------------------------------------------------------------------------
(* What of S comes before x in the relation R, and when R is an order of S. *)
Below(S, R, x) == {y \in S : <<y, x>> \in R}
Orders(R, S) ==
    /\ \A x \in S : <<x, x>> \notin R
    /\ \A x, y, z \in S : <<x, y>> \in R /\ <<y, z>> \in R => <<x, z>> \in R
    /\ \A x, y \in S : x # y => <<x, y>> \in R \/ <<y, x>> \in R

(* In a finite set that is ordered, the elements have the places from zero *)
(* up to the size of the set, each another one.                            *)
THEOREM RanksAreCounted ==
    ASSUME NEW S, IsFiniteSet(S), NEW R, Orders(R, S)
    PROVE  /\ \A x \in S : Cardinality(Below(S, R, x)) \in 0 .. Cardinality(S) - 1
           /\ \A x, y \in S : <<x, y>> \in R =>
                 Cardinality(Below(S, R, x)) < Cardinality(Below(S, R, y))
           /\ \A k \in 0 .. Cardinality(S) - 1 :
                 \E x \in S : Cardinality(Below(S, R, x)) = k
           /\ \A n \in 0 .. Cardinality(S) :
                 Cardinality({x \in S : Cardinality(Below(S, R, x)) < n}) = n
<1> DEFINE N == Cardinality(S)
           rank == [x \in S |-> Cardinality(Below(S, R, x))]
<1>1. N \in Nat
  BY FS_CardinalityType
<1>2. \A x \in S : /\ Below(S, R, x) \in SUBSET S
                   /\ IsFiniteSet(Below(S, R, x)) /\ rank[x] \in Nat
                   /\ rank[x] = Cardinality(Below(S, R, x))
  BY FS_Subset, FS_CardinalityType DEF Below
<1> HIDE DEF rank
<1>3. \A x \in S : rank[x] \in 0 .. N - 1
  <2> TAKE x \in S
  <2>1. Below(S, R, x) \in SUBSET (S \ {x})
    BY DEF Below, Orders
  <2>2. IsFiniteSet(S \ {x}) /\ Cardinality(S \ {x}) = N - 1
    BY FS_RemoveElement
  <2>3. rank[x] <= N - 1
    BY <1>2, <2>1, <2>2, FS_Subset
  <2>4. QED
    BY <1>1, <1>2, <2>3
<1>4. \A x, y \in S : <<x, y>> \in R => rank[x] < rank[y]
  <2> SUFFICES ASSUME NEW x \in S, NEW y \in S, <<x, y>> \in R PROVE rank[x] < rank[y]
    OBVIOUS
  <2>1. Below(S, R, x) \in SUBSET (Below(S, R, y) \ {x}) /\ x \in Below(S, R, y)
    BY DEF Below, Orders
  <2>2. /\ IsFiniteSet(Below(S, R, y) \ {x})
        /\ Cardinality(Below(S, R, y) \ {x}) = rank[y] - 1
    BY <1>2, <2>1, FS_RemoveElement
  <2>3. rank[x] <= rank[y] - 1
    BY <1>2, <2>1, <2>2, FS_Subset
  <2>4. QED
    BY <1>2, <2>3
<1>5. \A x, y \in S : rank[x] = rank[y] => x = y
  <2> SUFFICES ASSUME NEW x \in S, NEW y \in S, x # y PROVE rank[x] # rank[y]
    OBVIOUS
  <2>1. <<x, y>> \in R \/ <<y, x>> \in R
    BY DEF Orders
  <2>2. rank[x] < rank[y] \/ rank[y] < rank[x]
    BY <1>4, <2>1
  <2>3. QED
    BY <1>2, <2>2
<1>6. IsFiniteSet(0 .. N - 1) /\ Cardinality(0 .. N - 1) = N
  <2> HIDE DEF N
  <2>1. 0 \in Int /\ N - 1 \in Int /\ (IF 0 > N - 1 THEN 0 ELSE N - 1 - 0 + 1) = N
    BY <1>1
  <2>2. /\ IsFiniteSet(0 .. N - 1)
        /\ Cardinality(0 .. N - 1) = IF 0 > N - 1 THEN 0 ELSE N - 1 - 0 + 1
    BY <2>1, FS_Interval
  <2>3. QED
    BY <2>1, <2>2
<1>7. rank \in Injection(S, 0 .. N - 1)
  <2>1. rank = [x \in S |-> rank[x]]
    BY DEF rank
  <2>2. rank \in [S -> 0 .. N - 1]
    <3> HIDE DEF N
    <3>1. QED
      BY <1>3, <2>1
  <2>3. DOMAIN rank = S
    BY <2>1
  <2>4. IsInjective(rank)
    BY <1>5, <2>3 DEF IsInjective
  <2>5. QED
    BY <2>2, <2>4 DEF Injection
<1>8. rank \in Surjection(S, 0 .. N - 1)
  BY <1>6, <1>7, FS_Injection
<1>9. \A k \in 0 .. N - 1 : \E x \in S : rank[x] = k
  BY <1>8 DEF Surjection
<1>10. \A n \in 0 .. N : Cardinality({x \in S : rank[x] < n}) = n
  <2> SUFFICES ASSUME NEW n \in 0 .. N
               PROVE  Cardinality({x \in S : rank[x] < n}) = n
    OBVIOUS
  <2> DEFINE T == {x \in S : rank[x] < n}
             g == [x \in T |-> rank[x]]
  <2>1. IsFiniteSet(T)
    BY FS_Subset
  <2>2. g \in Injection(T, 0 .. n - 1)
    <3>1. g \in [T -> 0 .. n - 1]
      BY <1>1, <1>3
    <3>2. \A x, y \in T : g[x] = g[y] => x = y
      BY <1>5
    <3>3. QED
      BY <3>1, <3>2 DEF Injection, IsInjective
  <2>3. g \in Surjection(T, 0 .. n - 1)
    <3>1. \A k \in 0 .. n - 1 : \E x \in T : g[x] = k
      <4> TAKE k \in 0 .. n - 1
      <4>1. PICK x \in S : rank[x] = k
        BY <1>1, <1>9
      <4>2. x \in T
        BY <4>1
      <4>3. QED
        BY <4>1, <4>2
    <3>2. QED
      BY <2>2, <3>1 DEF Injection, Surjection
  <2>4. IsFiniteSet(0 .. n - 1) /\ Cardinality(0 .. n - 1) = n
    <3>1. n \in Nat /\ n - 1 \in Int /\ (0 > n - 1 => n = 0) /\ n - 1 - 0 + 1 = n
      BY <1>1
    <3>2. QED
      BY <3>1, FS_Interval
  <2>5. QED
    <3> HIDE DEF T, g
    <3>1. Cardinality(T) = Cardinality(0 .. n - 1)
      BY <2>2, <2>3, <2>4, FS_Injection
    <3>2. QED
      BY <2>4, <3>1 DEF T
<1>11. {x \in S : TRUE} = S
  OBVIOUS
<1>12. QED
  <2>1. \A n : {x \in S : rank[x] < n} = {x \in S : Cardinality(Below(S, R, x)) < n}
    BY <1>2
  <2>2. QED
    BY <1>2, <1>3, <1>4, <1>9, <1>10, <2>1
=============================================================================
