-------------------------- MODULE SleeveBLoopProofs --------------------------
(***************************************************************************)
(* Theorems about SleeveBLoop, for every set of symbols, every setup and   *)
(* every configuration the code accepts.                                   *)
(*                                                                         *)
(* The first part is about sums: SumFunctionOnSet is a fold, defined by    *)
(* recursion over finite sets.  What is known about it is proved by least  *)
(* counterexample: the strict subset ordering on finite sets is well       *)
(* founded, so that a set of finite sets that is not empty has a least     *)
(* member, and nothing smaller is a counterexample.                        *)
(***************************************************************************)
EXTENDS SleeveBLoop, FiniteSetTheorems, WellFoundedInduction, TLAPS

-----------------------------------------------------------------------------
(***************************************************************************)
(* Sums over finite sets.                                                  *)
(***************************************************************************)
Chosen(s) == CHOOSE x \in s : TRUE

\* g gives the sums of w over all subsets of T.
IsIter(g, w, T) ==
    g = [s \in SUBSET T |-> IF s = {} THEN 0 ELSE w[Chosen(s)] + g[s \ {Chosen(s)}]]

SumOf(w, s) == (CHOOSE g : IsIter(g, w, s))[s]

\* A set of subsets of a finite set has a least one, if it has any.
LEMMA LeastSubset ==
    ASSUME NEW T, IsFiniteSet(T), NEW B, B \subseteq SUBSET T, B # {}
    PROVE  \E s \in B : \A r \in B : r \subseteq s => r = s
<1>1. B \subseteq FiniteSubsetsOf(T)
  BY FS_FiniteSubsetsOfFinite
<1>2. PICK s \in B : \A r \in B : ~(<<r, s>> \in StrictSubsetOrdering(T))
  <2> HIDE DEF FiniteSubsetsOf, StrictSubsetOrdering
  <2> QED  BY <1>1, FS_StrictSubsetOrderingWellFounded, WFMin
<1> QED
  BY <1>2 DEF StrictSubsetOrdering

LEMMA ChosenIn == ASSUME NEW s, s # {} PROVE Chosen(s) \in s
BY DEF Chosen

\* The sums are determined by the recursion.
LEMMA IterUnique ==
    ASSUME NEW T, IsFiniteSet(T), NEW w, NEW g, NEW h, IsIter(g, w, T), IsIter(h, w, T)
    PROVE  g = h
<1> DEFINE Bad == {s \in SUBSET T : g[s] # h[s]}
<1>1. SUFFICES ASSUME Bad # {} PROVE FALSE
  <2>1. \A s \in SUBSET T : g[s] = h[s]
    BY <1>1
  <2>2. /\ g = [s \in SUBSET T |-> g[s]]
        /\ h = [s \in SUBSET T |-> h[s]]
    BY DEF IsIter
  <2> QED  BY <2>1, <2>2
<1>2. PICK s \in Bad : \A r \in Bad : r \subseteq s => r = s
  <2>1. Bad \subseteq SUBSET T
    OBVIOUS
  <2> HIDE DEF Bad
  <2> QED  BY <1>1, <2>1, LeastSubset
<1>3. CASE s = {}
  BY <1>3 DEF IsIter
<1>4. CASE s # {}
  <2>1. /\ Chosen(s) \in s
        /\ s \ {Chosen(s)} \in SUBSET T
        /\ s \ {Chosen(s)} # s
    BY <1>4, ChosenIn
  <2>2. g[s \ {Chosen(s)}] = h[s \ {Chosen(s)}]
    BY <1>2, <2>1
  <2>3. /\ g[s] = w[Chosen(s)] + g[s \ {Chosen(s)}]
        /\ h[s] = w[Chosen(s)] + h[s \ {Chosen(s)}]
    BY <1>4 DEF IsIter
  <2> QED  BY <1>2, <2>2, <2>3
<1> QED  BY <1>3, <1>4

\* The sums over the subsets of a set are also those over the subsets of a smaller one.
LEMMA IterRestricts ==
    ASSUME NEW T, NEW w, NEW g, IsIter(g, w, T), NEW s \in SUBSET T
    PROVE  IsIter([r \in SUBSET s |-> g[r]], w, s)
<1> DEFINE k == [r \in SUBSET s |-> g[r]]
<1>1. \A r \in SUBSET s : r # {} => Chosen(r) \in r /\ r \ {Chosen(r)} \in SUBSET s
  BY ChosenIn
<1>2. \A r \in SUBSET s :
         g[r] = IF r = {} THEN 0 ELSE w[Chosen(r)] + g[r \ {Chosen(r)}]
  BY DEF IsIter
<1>3. \A r \in SUBSET s :
         k[r] = IF r = {} THEN 0 ELSE w[Chosen(r)] + k[r \ {Chosen(r)}]
  BY <1>1, <1>2
<1>4. k = [r \in SUBSET s |-> k[r]]
  OBVIOUS
<1> QED
  <2> HIDE DEF k
  <2>1. IsIter(k, w, s)
    BY <1>3, <1>4 DEF IsIter
  <2> QED  BY <2>1 DEF k

\* Every finite set has its sums.
LEMMA IterExists ==
    ASSUME NEW T, IsFiniteSet(T), NEW w
    PROVE  \E g : IsIter(g, w, T)
<1> DEFINE Bad == {s \in SUBSET T : ~ \E g : IsIter(g, w, s)}
<1>1. SUFFICES ASSUME Bad # {} PROVE FALSE
  BY <1>1
<1>2. PICK s \in Bad : \A r \in Bad : r \subseteq s => r = s
  <2>1. Bad \subseteq SUBSET T
    OBVIOUS
  <2> HIDE DEF Bad
  <2> QED  BY <1>1, <2>1, LeastSubset
<1> DEFINE G(r) == CHOOSE g : IsIter(g, w, r)
           V(r) == G(r)[r]
           h == [r \in SUBSET s |->
                   IF r = {} THEN 0 ELSE w[Chosen(r)] + V(r \ {Chosen(r)})]
<1>3. \A r \in SUBSET s : r # s => IsIter(G(r), w, r)
  BY <1>2
<1>4. \A r \in SUBSET s : r # s => V(r) = h[r]
  <2> TAKE r \in SUBSET s
  <2> HAVE r # s
  <2>1. IsIter(G(r), w, r)
    BY <1>3
  <2>2. CASE r = {}
    BY <2>1, <2>2 DEF IsIter
  <2>3. CASE r # {}
    <3> DEFINE q == r \ {Chosen(r)}
    <3>1. q \in SUBSET r /\ q \in SUBSET s /\ q # s
      BY <2>3, ChosenIn
    <3>2. IsIter(G(q), w, q)
      BY <1>3, <3>1
    <3>3. IsIter([p \in SUBSET q |-> G(r)[p]], w, q)
      <4> HIDE DEF G
      <4> QED  BY <2>1, <3>1, IterRestricts
    <3>4. IsFiniteSet(q)
      BY <3>1, FS_Subset
    <3>5. G(q) = [p \in SUBSET q |-> G(r)[p]]
      <4> HIDE DEF G, q
      <4> QED  BY <3>2, <3>3, <3>4, IterUnique
    <3>6. G(q)[q] = G(r)[q]
      <4> HIDE DEF G
      <4> QED  BY <3>5
    <3>7. G(r)[r] = w[Chosen(r)] + G(r)[q]
      <4> HIDE DEF G
      <4> QED  BY <2>1, <2>3 DEF IsIter
    <3> QED
      <4> HIDE DEF G
      <4> QED  BY <2>3, <3>6, <3>7
  <2> QED  BY <2>2, <2>3
<1>5. \A r \in SUBSET s : r # {} => r \ {Chosen(r)} \in SUBSET s /\ r \ {Chosen(r)} # s
  BY ChosenIn
<1>6. IsIter(h, w, s)
  <2> HIDE DEF V
  <2>1. \A r \in SUBSET s :
           h[r] = IF r = {} THEN 0 ELSE w[Chosen(r)] + h[r \ {Chosen(r)}]
    BY <1>4, <1>5
  <2>2. h = [r \in SUBSET s |-> h[r]]
    OBVIOUS
  <2> HIDE DEF h
  <2> QED  BY <2>1, <2>2 DEF IsIter
<1> QED  BY <1>2, <1>6

\* A sum is the chosen member's value and the sum over the rest.
LEMMA SumRecurs ==
    ASSUME NEW s, IsFiniteSet(s), NEW w
    PROVE  SumOf(w, s) = IF s = {} THEN 0
                         ELSE w[Chosen(s)] + SumOf(w, s \ {Chosen(s)})
<1> DEFINE g == CHOOSE h : IsIter(h, w, s)
<1>1. IsIter(g, w, s)
  BY IterExists
<1>2. SumOf(w, s) = g[s]
  BY DEF SumOf
<1>3. CASE s = {}
  <2> HIDE DEF g
  <2> QED  BY <1>1, <1>2, <1>3 DEF IsIter
<1>4. CASE s # {}
  <2> DEFINE r == s \ {Chosen(s)}
             k == CHOOSE h : IsIter(h, w, r)
  <2>1. r \in SUBSET s /\ IsFiniteSet(r)
    BY FS_Subset
  <2>2. IsIter(k, w, r)
    <3> HIDE DEF r
    <3> QED  BY <2>1, IterExists
  <2>3. IsIter([p \in SUBSET r |-> g[p]], w, r)
    <3> HIDE DEF g, r
    <3> QED  BY <1>1, <2>1, IterRestricts
  <2>4. k = [p \in SUBSET r |-> g[p]]
    <3> HIDE DEF g, k, r
    <3> QED  BY <2>1, <2>2, <2>3, IterUnique
  <2>5. SumOf(w, r) = g[r]
    <3>1. SumOf(w, r) = k[r]
      BY DEF SumOf
    <3> HIDE DEF g, k, r
    <3> QED  BY <2>4, <3>1
  <2>6. g[s] = w[Chosen(s)] + g[r]
    <3> HIDE DEF g
    <3> QED  BY <1>1, <1>4 DEF IsIter
  <2> HIDE DEF g
  <2> QED  BY <1>2, <1>4, <2>5, <2>6
<1> QED  BY <1>3, <1>4

LEMMA SumIsNat ==
    ASSUME NEW s, IsFiniteSet(s), NEW w, \A n \in s : w[n] \in Nat
    PROVE  SumOf(w, s) \in Nat
<1> DEFINE Bad == {r \in SUBSET s : SumOf(w, r) \notin Nat}
<1>1. SUFFICES ASSUME Bad # {} PROVE FALSE
  BY <1>1
<1>2. PICK r \in Bad : \A q \in Bad : q \subseteq r => q = r
  <2>1. Bad \subseteq SUBSET s
    OBVIOUS
  <2> HIDE DEF Bad
  <2> QED  BY <1>1, <2>1, LeastSubset
<1>3. IsFiniteSet(r)
  BY FS_Subset
<1>4. r # {} => /\ Chosen(r) \in s
                /\ SumOf(w, r \ {Chosen(r)}) \in Nat
  BY <1>2, ChosenIn
<1>5. SumOf(w, r) = IF r = {} THEN 0 ELSE w[Chosen(r)] + SumOf(w, r \ {Chosen(r)})
  BY <1>3, SumRecurs
<1>6. r # {} => w[Chosen(r)] \in Nat
  BY <1>4
<1>7. SumOf(w, r) \in Nat
  <2> HIDE DEF Bad
  <2> QED  BY <1>4, <1>5, <1>6
<1> QED
  BY <1>2, <1>7

\* Any member may be taken out first.
LEMMA SumTakes ==
    ASSUME NEW s, IsFiniteSet(s), NEW w, \A n \in s : w[n] \in Nat, NEW x \in s
    PROVE  SumOf(w, s) = w[x] + SumOf(w, s \ {x})
<1> DEFINE Takes(r, y) == SumOf(w, r) = w[y] + SumOf(w, r \ {y})
           Bad == {r \in SUBSET s : \E y \in r : ~Takes(r, y)}
<1>1. SUFFICES ASSUME Bad # {} PROVE FALSE
  BY <1>1
<1>2. PICK r \in Bad : \A q \in Bad : q \subseteq r => q = r
  <2>1. Bad \subseteq SUBSET s
    OBVIOUS
  <2> HIDE DEF Bad
  <2> QED  BY <1>1, <2>1, LeastSubset
<1>3. PICK y \in r : ~Takes(r, y)
  BY <1>2
<1> DEFINE c == Chosen(r)
           rest == (r \ {c}) \ {y}
<1>4. /\ IsFiniteSet(r) /\ IsFiniteSet(rest)
      /\ c \in r
  BY FS_Subset, ChosenIn
<1>5. SumOf(w, r) = w[c] + SumOf(w, r \ {c})
  BY <1>4, SumRecurs
<1>6. c # y
  BY <1>3, <1>5
<1>7. SumOf(w, r \ {c}) = w[y] + SumOf(w, rest)
  <2>1. r \ {c} \subseteq r /\ r \ {c} # r /\ r \ {c} \in SUBSET s /\ y \in r \ {c}
    BY <1>4, <1>6
  <2>2. Takes(r \ {c}, y)
    <3> HIDE DEF Takes, c
    <3> QED  BY <1>2, <2>1
  <2> QED  BY <2>2
<1>8. SumOf(w, r \ {y}) = w[c] + SumOf(w, (r \ {y}) \ {c})
  <2>1. r \ {y} \subseteq r /\ r \ {y} # r /\ r \ {y} \in SUBSET s /\ c \in r \ {y}
    BY <1>4, <1>6
  <2>2. Takes(r \ {y}, c)
    <3> HIDE DEF Takes, c
    <3> QED  BY <1>2, <2>1
  <2> QED  BY <2>2
<1>9. (r \ {y}) \ {c} = rest
  OBVIOUS
<1>10. w[c] \in Nat /\ w[y] \in Nat /\ SumOf(w, rest) \in Nat
  BY <1>4, SumIsNat
<1>11. SumOf(w, r) # w[y] + SumOf(w, r \ {y})
  BY <1>3
<1> QED
  <2> HIDE DEF c, rest, Takes, Bad
  <2> QED  BY <1>5, <1>7, <1>8, <1>9, <1>10, <1>11
LEMMA SumGrows ==
    ASSUME NEW t, IsFiniteSet(t), NEW w, \A n \in t : w[n] \in Nat, NEW s \in SUBSET t
    PROVE  SumOf(w, s) <= SumOf(w, t)
<1> DEFINE Bad == {r \in SUBSET t : s \subseteq r /\ ~(SumOf(w, s) <= SumOf(w, r))}
<1>1. SUFFICES ASSUME Bad # {} PROVE FALSE
  BY <1>1
<1>2. PICK r \in Bad : \A q \in Bad : q \subseteq r => q = r
  <2>1. Bad \subseteq SUBSET t
    OBVIOUS
  <2> HIDE DEF Bad
  <2> QED  BY <1>1, <2>1, LeastSubset
<1>3. IsFiniteSet(r) /\ IsFiniteSet(s)
  BY FS_Subset
<1>4. SumOf(w, s) \in Nat
  BY <1>3, SumIsNat
<1>5. PICK x \in r : x \notin s
  <2>1. r # s
    BY <1>2, <1>4
  <2> QED  BY <1>2, <2>1
<1>6. SumOf(w, r) = w[x] + SumOf(w, r \ {x})
  BY <1>2, <1>3, SumTakes
<1>7. SumOf(w, s) <= SumOf(w, r \ {x})
  BY <1>2, <1>5
<1>8. w[x] \in Nat /\ SumOf(w, r \ {x}) \in Nat
  <2>1. IsFiniteSet(r \ {x})
    BY <1>3, FS_Subset
  <2> QED  BY <1>2, <2>1, SumIsNat
<1> QED
  BY <1>2, <1>4, <1>6, <1>7, <1>8

\* What is less member by member is less in all ...
LEMMA SumOrdered ==
    ASSUME NEW s, IsFiniteSet(s), NEW w, NEW v,
           \A n \in s : w[n] \in Nat /\ v[n] \in Nat /\ w[n] <= v[n]
    PROVE  SumOf(w, s) <= SumOf(v, s)
<1> DEFINE Bad == {r \in SUBSET s : ~(SumOf(w, r) <= SumOf(v, r))}
<1>1. SUFFICES ASSUME Bad # {} PROVE FALSE
  BY <1>1
<1>2. PICK r \in Bad : \A q \in Bad : q \subseteq r => q = r
  <2>1. Bad \subseteq SUBSET s
    OBVIOUS
  <2> HIDE DEF Bad
  <2> QED  BY <1>1, <2>1, LeastSubset
<1> DEFINE x == Chosen(r)
           q == r \ {x}
<1>3. IsFiniteSet(r) /\ IsFiniteSet(q)
  BY FS_Subset
<1>4. /\ SumOf(w, r) = IF r = {} THEN 0 ELSE w[x] + SumOf(w, q)
      /\ SumOf(v, r) = IF r = {} THEN 0 ELSE v[x] + SumOf(v, q)
  BY <1>3, SumRecurs
<1>5. r # {}
  BY <1>2, <1>4
<1>6. x \in s /\ q \subseteq r /\ q # r /\ q \in SUBSET s
  BY <1>5, ChosenIn
<1>7. SumOf(w, q) <= SumOf(v, q)
  <2> HIDE DEF q, x
  <2> QED  BY <1>2, <1>6
<1>8. SumOf(w, q) \in Nat /\ SumOf(v, q) \in Nat
  <2> HIDE DEF q
  <2> QED  BY <1>3, <1>6, SumIsNat
<1>9. SumOf(w, r) <= SumOf(v, r)
  <2> HIDE DEF q, x, Bad
  <2> QED  BY <1>4, <1>5, <1>6, <1>7, <1>8
<1> QED  BY <1>2, <1>9

\* ... and what is bounded member by member by their number times the bound.
LEMMA SumBounded ==
    ASSUME NEW s, IsFiniteSet(s), NEW w, NEW k \in Nat, NEW bound \in Nat,
           \A n \in s : w[n] \in Nat /\ k * w[n] <= bound
    PROVE  k * SumOf(w, s) <= Cardinality(s) * bound
<1> DEFINE Bad == {r \in SUBSET s : ~(k * SumOf(w, r) <= Cardinality(r) * bound)}
<1>1. SUFFICES ASSUME Bad # {} PROVE FALSE
  BY <1>1
<1>2. PICK r \in Bad : \A q \in Bad : q \subseteq r => q = r
  <2>1. Bad \subseteq SUBSET s
    OBVIOUS
  <2> HIDE DEF Bad
  <2> QED  BY <1>1, <2>1, LeastSubset
<1> DEFINE x == Chosen(r)
           q == r \ {x}
<1>3. IsFiniteSet(r) /\ IsFiniteSet(q)
  BY FS_Subset
<1>4. SumOf(w, r) = IF r = {} THEN 0 ELSE w[x] + SumOf(w, q)
  BY <1>3, SumRecurs
<1>5. r # {}
  <2>1. r = {} => k * SumOf(w, r) <= Cardinality(r) * bound
    BY <1>4, FS_EmptySet
  <2> QED  BY <1>2, <2>1
<1>6. x \in r /\ x \in s /\ q \subseteq r /\ q # r /\ q \in SUBSET s
  BY <1>5, ChosenIn
<1>7. k * SumOf(w, q) <= Cardinality(q) * bound
  <2> HIDE DEF q, x
  <2> QED  BY <1>2, <1>6
<1>8. SumOf(w, q) \in Nat /\ w[x] \in Nat /\ k * w[x] <= bound
  <2> HIDE DEF q
  <2> QED  BY <1>3, <1>6, SumIsNat
<1>9. /\ Cardinality(r) \in Nat /\ Cardinality(q) \in Nat
      /\ Cardinality(r) = Cardinality(q) + 1
  <2>1. Cardinality(q) = Cardinality(r) - 1
    <3> HIDE DEF x
    <3> QED  BY <1>3, <1>6, FS_RemoveElement
  <2>2. Cardinality(r) \in Nat /\ Cardinality(q) \in Nat
    <3> HIDE DEF q
    <3> QED  BY <1>3, FS_CardinalityType
  <2> HIDE DEF q
  <2> QED  BY <2>1, <2>2
<1>10. \A a, b, c \in Nat : k * b <= bound /\ k * a <= c * bound
                                => k * (b + a) <= (c + 1) * bound
  <2> TAKE a, b, c \in Nat
  <2>1. /\ k * (b + a) = k * b + k * a /\ (c + 1) * bound = c * bound + bound
        /\ k * b \in Nat /\ k * a \in Nat /\ c * bound \in Nat
    OBVIOUS
  <2> QED  BY <2>1
<1>11. k * SumOf(w, r) <= Cardinality(r) * bound
  <2> HIDE DEF q, x, Bad
  <2>1. k * (w[x] + SumOf(w, q)) <= (Cardinality(q) + 1) * bound
    BY <1>7, <1>8, <1>9, <1>10
  <2> QED  BY <1>4, <1>5, <1>9, <2>1
<1> QED  BY <1>2, <1>11

-----------------------------------------------------------------------------
(***************************************************************************)
(* The same of the library's sum.                                          *)
(***************************************************************************)
LEMMA FunctionSumIsASum ==
    ASSUME NEW w, NEW ids, IsFiniteSet(ids)
    PROVE  SumFunctionOnSet(w, ids) = SumOf(w, ids)
<1> DEFINE Body(h) == [s \in SUBSET ids |-> IF s = {} THEN 0
                         ELSE w[Chosen(s)] + h[s \ {Chosen(s)}]]
           k == CHOOSE h : h = Body(h)
           m == CHOOSE h : IsIter(h, w, ids)
<1>1. \A h : IsIter(h, w, ids) <=> h = Body(h)
  BY DEF IsIter
<1>2. PICK g : IsIter(g, w, ids)
  BY IterExists
<1>3. k = Body(k)
  <2> HIDE DEF Body
  <2> QED  BY <1>1, <1>2
<1>4. SumFunctionOnSet(w, ids) = k[ids]
  BY DEF SumFunctionOnSet, FoldFunctionOnSet, MapThenFoldSet, Chosen
<1>5. SumOf(w, ids) = m[ids]
  BY DEF SumOf
<1>6. IsIter(k, w, ids) /\ IsIter(m, w, ids)
  <2> HIDE DEF Body
  <2>1. IsIter(k, w, ids)
    BY <1>1, <1>3
  <2> HIDE DEF k
  <2> QED  BY <1>2, <2>1
<1>7. k = m
  <2> HIDE DEF k, m
  <2> QED  BY <1>6, IterUnique
<1> QED
  <2> HIDE DEF k, m
  <2> QED  BY <1>4, <1>5, <1>7

\* A sum of numbers is a number, and is not less than any of them ...
LEMMA FunctionSumIsNat ==
    ASSUME NEW s, IsFiniteSet(s), NEW w, \A n \in s : w[n] \in Nat
    PROVE  /\ SumFunctionOnSet(w, s) \in Nat
           /\ \A n \in s : w[n] <= SumFunctionOnSet(w, s)
<1>1. SumFunctionOnSet(w, s) = SumOf(w, s) /\ SumOf(w, s) \in Nat
  BY FunctionSumIsASum, SumIsNat
<1>2. ASSUME NEW n \in s PROVE w[n] <= SumOf(w, s)
  <2>1. SumOf(w, s) = w[n] + SumOf(w, s \ {n})
    BY SumTakes
  <2>2. IsFiniteSet(s \ {n})
    BY FS_Subset
  <2>3. SumOf(w, s \ {n}) \in Nat
    BY <2>2, SumIsNat
  <2> QED  BY <2>1, <2>3
<1> QED  BY <1>1, <1>2

\* ... and is not more than one of more members, each of them not less.
LEMMA FunctionSumOrdered ==
    ASSUME NEW t, IsFiniteSet(t), NEW s \in SUBSET t, NEW w, NEW v,
           \A n \in t : v[n] \in Nat, \A n \in s : w[n] \in Nat /\ w[n] <= v[n]
    PROVE  SumFunctionOnSet(w, s) <= SumFunctionOnSet(v, t)
<1>1. IsFiniteSet(s)
  BY FS_Subset
<1>2. SumOf(w, s) <= SumOf(v, s)
  BY <1>1, SumOrdered
<1>3. SumOf(v, s) <= SumOf(v, t)
  BY SumGrows
<1>4. SumOf(w, s) \in Nat /\ SumOf(v, s) \in Nat /\ SumOf(v, t) \in Nat
  BY <1>1, SumIsNat
<1> QED  BY <1>1, <1>2, <1>3, <1>4, FunctionSumIsASum

LEMMA FunctionSumBounded ==
    ASSUME NEW s, IsFiniteSet(s), NEW w, NEW k \in Nat, NEW bound \in Nat,
           \A n \in s : w[n] \in Nat /\ k * w[n] <= bound
    PROVE  k * SumFunctionOnSet(w, s) <= Cardinality(s) * bound
BY SumBounded, FunctionSumIsASum

-----------------------------------------------------------------------------
(***************************************************************************)
(* The allocator's arithmetic.                                             *)
(***************************************************************************)
LEMMA DivBounds ==
    ASSUME NEW a \in Int, NEW b \in Nat \ {0}
    PROVE  /\ a \div b \in Int
           /\ b * (a \div b) <= a
           /\ a < b * (a \div b) + b
           /\ a \in Nat => a \div b \in Nat
OBVIOUS

LEMMA TimesKeepsOrder ==
    ASSUME NEW a \in Int, NEW b \in Int, NEW k \in Nat, a <= b
    PROVE  k * a <= k * b
OBVIOUS

LEMMA FloorToBounds ==
    ASSUME NEW a \in Int, NEW step \in Nat \ {0}
    PROVE  /\ FloorTo(a, step) \in Int
           /\ FloorTo(a, step) <= a
           /\ a < FloorTo(a, step) + step
           /\ a \in Nat => FloorTo(a, step) \in Nat
<1>1. FloorTo(a, step) = step * (a \div step)
  BY DivBounds DEF FloorTo
<1>2. a \in Nat => step * (a \div step) \in Nat
  BY DivBounds
<1> QED  BY <1>1, <1>2, DivBounds

LEMMA MinOfTwo ==
    ASSUME NEW a \in Int, NEW b \in Int
    PROVE  /\ Min({a, b}) \in {a, b}
           /\ Min({a, b}) <= a /\ Min({a, b}) <= b
<1> DEFINE Least(m) == \A y \in {a, b} : m <= y
<1>1. \E m \in {a, b} : Least(m)
  <2>1. CASE a <= b
    BY <2>1
  <2>2. CASE b <= a
    BY <2>2
  <2> QED  BY <2>1, <2>2
<1>2. Min({a, b}) = CHOOSE m \in {a, b} : Least(m)
  BY DEF Min
<1> QED  BY <1>1, <1>2

\* What a candidate is to the arithmetic.
Proposes(c) == c.side \in {"LONG", "SHORT"} /\ c.entry \in Nat \ {0} /\ c.stop \in Nat \ {0}

LEMMA CandidatesPropose == \A c \in Candidates : Proposes(c) /\ c.symbol \in Symbols
BY LoopAssumption DEF Candidates, Proposes

LEMMA BudgetsAreNat ==
    ASSUME NEW available \in Nat
    PROVE  /\ RiskBudget(available) \in Nat
           /\ NotionalOf(available, PerPositionPercent) \in Nat
           /\ NotionalOf(available, PortfolioPercent) \in Nat
<1>1. /\ UsablePercent \in Nat /\ RiskPercent \in Nat /\ Leverage \in Nat
      /\ PerPositionPercent \in Nat /\ PortfolioPercent \in Nat
  BY AllocatorAssumption
<1>2. \A a, b \in Nat : a * b \in Nat
  OBVIOUS
<1> QED  BY <1>1, <1>2 DEF RiskBudget, NotionalOf

\* The quantity keeps within both of the bounds it is computed from.
LEMMA QuantityWithinBounds ==
    ASSUME NEW c, Proposes(c), StopDistance(c) > 0,
           NEW available \in Nat, NEW used \in Nat
    PROVE  /\ Quantity(c, available, used) \in Int
           /\ (10000 * StopDistance(c)) * Quantity(c, available, used)
                  <= RiskBudget(available)
           /\ (10000 * c.entry) * Quantity(c, available, used)
                  <= AllowedNotional(available, used)
           /\ AllowedNotional(available, used) <= NotionalOf(available, PerPositionPercent)
           /\ AllowedNotional(available, used)
                  <= NotionalOf(available, PortfolioPercent) - 10000 * used
<1> DEFINE risk == RiskBudget(available)
           allowed == AllowedNotional(available, used)
           d == 10000 * StopDistance(c)
           e == 10000 * c.entry
           byRisk == FloorTo(risk \div d, StepSize)
           byMargin == FloorTo(allowed \div e, StepSize)
           q == Quantity(c, available, used)
<1>1. d \in Nat \ {0} /\ e \in Nat \ {0}
  BY DEF Proposes, StopDistance
<1>2. /\ allowed \in Int
      /\ allowed <= NotionalOf(available, PerPositionPercent)
      /\ allowed <= NotionalOf(available, PortfolioPercent) - 10000 * used
  <2> DEFINE one == NotionalOf(available, PerPositionPercent)
             rest == NotionalOf(available, PortfolioPercent) - 10000 * used
  <2>1. one \in Int /\ rest \in Int
    BY BudgetsAreNat
  <2>2. allowed = Min({one, rest})
    BY DEF AllowedNotional
  <2> HIDE DEF one, rest, allowed
  <2>3. allowed \in Int /\ allowed <= one /\ allowed <= rest
    BY <2>1, <2>2, MinOfTwo
  <2> QED  BY <2>3 DEF one, rest
<1>3. risk \in Int
  BY BudgetsAreNat
<1>4. StepSize \in Nat \ {0}
  BY AllocatorAssumption
<1>5. /\ byRisk \in Int /\ byRisk <= risk \div d /\ risk \div d \in Int
      /\ byMargin \in Int /\ byMargin <= allowed \div e /\ allowed \div e \in Int
  <2> HIDE DEF risk, allowed, d, e
  <2>1. risk \div d \in Int /\ allowed \div e \in Int
    BY <1>1, <1>2, <1>3, DivBounds
  <2> QED  BY <1>4, <2>1, FloorToBounds
<1>6. q \in Int /\ q <= byRisk /\ q <= byMargin
  <2>1. q = Min({byRisk, byMargin})
    BY DEF Quantity
  <2>2. byRisk \in Int /\ byMargin \in Int
    BY <1>5
  <2> HIDE DEF byRisk, byMargin, q
  <2>3. /\ Min({byRisk, byMargin}) \in {byRisk, byMargin}
        /\ Min({byRisk, byMargin}) <= byRisk /\ Min({byRisk, byMargin}) <= byMargin
    BY <2>2, MinOfTwo
  <2> QED  BY <2>1, <2>2, <2>3
<1> HIDE DEF risk, allowed, d, e, byRisk, byMargin, q
<1>7. d * q <= risk
  <2>1. q <= risk \div d
    BY <1>5, <1>6
  <2>2. d * q <= d * (risk \div d)
    BY <1>1, <1>5, <1>6, <2>1, TimesKeepsOrder
  <2>3. d * (risk \div d) <= risk /\ d * q \in Int /\ d * (risk \div d) \in Int
    BY <1>1, <1>3, <1>5, <1>6, DivBounds
  <2> QED  BY <1>3, <2>2, <2>3
<1>8. e * q <= allowed
  <2>1. q <= allowed \div e
    BY <1>5, <1>6
  <2>2. e * q <= e * (allowed \div e)
    BY <1>1, <1>5, <1>6, <2>1, TimesKeepsOrder
  <2>3. e * (allowed \div e) <= allowed /\ e * q \in Int /\ e * (allowed \div e) \in Int
    BY <1>1, <1>2, <1>5, <1>6, DivBounds
  <2> QED  BY <1>2, <2>2, <2>3
<1> QED
  BY <1>2, <1>6, <1>7, <1>8 DEF risk, allowed, d, e, q

\* The limit price keeps to its side of the entry price: a LONG's is not above it, a
\* SHORT's is less than a tick below it and at most the offset above it.
LEMMA PriceKeepsSide ==
    ASSUME NEW c, Proposes(c)
    PROVE  /\ NormalizedPrice(c) \in Nat
           /\ 10000 * NormalizedPrice(c) <= c.entry * (10000 + OffsetBps)
           /\ c.side = "LONG" => NormalizedPrice(c) <= c.entry
           /\ c.side = "SHORT" => c.entry < NormalizedPrice(c) + TickSize
<1> DEFINE p == NormalizedPrice(c)
           raw == EntryLimitPrice(c)
           off == OffsetBps
<1>1. /\ off \in Nat /\ 10000 - off \in Nat /\ 10000 + off \in Nat
      /\ TickSize \in Nat \ {0} /\ c.entry \in Nat
  BY AllocatorAssumption DEF Proposes
<1>2. /\ c.side = "LONG" => raw = c.entry * (10000 - off)
      /\ c.side = "SHORT" => raw = c.entry * (10000 + off)
      /\ c.side \in {"LONG", "SHORT"}
  BY DEF EntryLimitPrice, Proposes
<1>3. /\ c.entry * (10000 - off) \in Nat /\ c.entry * (10000 + off) \in Nat
      /\ c.entry * (10000 - off) <= c.entry * 10000
      /\ c.entry * 10000 <= c.entry * (10000 + off)
  <2> HIDE DEF off
  <2> QED  BY <1>1
<1>4. raw \in Nat /\ raw <= c.entry * (10000 + off)
  <2> HIDE DEF raw, off
  <2> QED  BY <1>1, <1>2, <1>3
<1>5. /\ raw \div 10000 \in Nat
      /\ 10000 * (raw \div 10000) <= raw
      /\ raw < 10000 * (raw \div 10000) + 10000
  <2> HIDE DEF raw
  <2> QED  BY <1>4, DivBounds
<1>6. /\ p \in Nat /\ p <= raw \div 10000
      /\ raw \div 10000 < p + TickSize
  <2> HIDE DEF raw
  <2>1. raw \div 10000 \in Int /\ p = FloorTo(raw \div 10000, TickSize)
    BY <1>5 DEF NormalizedPrice, raw
  <2> HIDE DEF p
  <2> QED  BY <1>1, <1>5, <2>1, FloorToBounds
<1> HIDE DEF p, raw, off
<1>7. 10000 * p <= raw
  BY <1>4, <1>5, <1>6
<1>8. 10000 * p <= c.entry * (10000 + off)
  BY <1>1, <1>3, <1>4, <1>6, <1>7
<1>9. c.side = "LONG" => p <= c.entry
  BY <1>1, <1>2, <1>3, <1>4, <1>6, <1>7
<1>10. c.side = "SHORT" => c.entry < p + TickSize
  BY <1>1, <1>2, <1>3, <1>4, <1>5, <1>6
<1> QED
  BY <1>6, <1>8, <1>9, <1>10 DEF p, off

\* An order the allocator accepted: its size keeps within the margin of one position,
\* within what the portfolio has left and within the risk, and its limit price adds no
\* more than the offset.
LEMMA AcceptedOrderFits ==
    ASSUME NEW c, Proposes(c), NEW available \in Nat, NEW open, NEW used \in Nat,
           Accepts(c, available, open, used)
    PROVE  LET q == Quantity(c, available, used)
               p == NormalizedPrice(c)
           IN  /\ q \in Nat \ {0} /\ p \in Nat
               /\ 10000 * (q * c.entry) <= NotionalOf(available, PerPositionPercent)
               /\ 10000 * (used + q * c.entry) <= NotionalOf(available, PortfolioPercent)
               /\ 10000 * (q * p)
                      <= NotionalOf(available, PerPositionPercent) + OffsetBps * (q * c.entry)
               /\ (10000 * q) * (LossTo(c, p) - TickSize) < RiskBudget(available)
<1> DEFINE q == Quantity(c, available, used)
           p == NormalizedPrice(c)
           dist == StopDistance(c)
           per == NotionalOf(available, PerPositionPercent)
           all == NotionalOf(available, PortfolioPercent)
           risk == RiskBudget(available)
           loss == LossTo(c, p)
<1>1. /\ q \in Int /\ q > 0 /\ dist > 0
      /\ (10000 * dist) * q <= risk
      /\ (10000 * c.entry) * q <= AllowedNotional(available, used)
      /\ AllowedNotional(available, used) <= per
      /\ AllowedNotional(available, used) <= all - 10000 * used
  BY QuantityWithinBounds DEF Accepts
<1>2. per \in Nat /\ all \in Nat /\ risk \in Nat
  BY BudgetsAreNat
<1>3. /\ p \in Nat
      /\ 10000 * p <= c.entry * (10000 + OffsetBps)
      /\ c.side = "LONG" => p <= c.entry
      /\ c.side = "SHORT" => c.entry < p + TickSize
  BY PriceKeepsSide
<1>4. /\ OffsetBps \in Nat /\ TickSize \in Nat \ {0} /\ c.entry \in Nat /\ c.stop \in Nat
      /\ c.side \in {"LONG", "SHORT"}
  BY AllocatorAssumption DEF Proposes
<1>5. AllowedNotional(available, used) \in Int
  <2> DEFINE rest == all - 10000 * used
  <2>1. AllowedNotional(available, used) = Min({per, rest})
    BY DEF AllowedNotional
  <2>2. per \in Int /\ rest \in Int
    BY <1>2
  <2> HIDE DEF per, rest
  <2>3. Min({per, rest}) \in {per, rest}
    BY <2>2, MinOfTwo
  <2> QED  BY <2>1, <2>2, <2>3
<1>6. loss - TickSize < dist /\ loss \in Int /\ dist \in Int
  <2>1. /\ c.side = "LONG" => loss = p - c.stop
        /\ c.side = "SHORT" => loss = c.stop - p
    BY <1>4 DEF LossTo
  <2>2. dist \in Int /\ dist >= c.entry - c.stop /\ dist >= c.stop - c.entry
    BY <1>4 DEF StopDistance
  <2> HIDE DEF p, loss, dist
  <2> QED  BY <1>3, <1>4, <2>1, <2>2
<1> HIDE DEF q, p, dist, per, all, risk, loss
<1>7. q \in Nat \ {0}
  BY <1>1
<1>8. /\ (10000 * c.entry) * q <= per
      /\ (10000 * c.entry) * q <= all - 10000 * used
  <2>1. (10000 * c.entry) * q \in Int
    BY <1>4, <1>7
  <2> QED  BY <1>1, <1>2, <1>5, <2>1
<1>9. \A n, e, u, t \in Nat : (10000 * e) * n <= t - 10000 * u
                                 => 10000 * (u + n * e) <= t
  <2> TAKE n, e, u, t \in Nat
  <2>1. (10000 * e) * n = 10000 * (n * e) /\ n * e \in Nat
    OBVIOUS
  <2>2. 10000 * (u + n * e) = 10000 * u + 10000 * (n * e)
    BY <2>1
  <2> QED  BY <2>1, <2>2
<1>10. /\ 10000 * (0 + q * c.entry) <= per
       /\ 10000 * (used + q * c.entry) <= all
  BY <1>2, <1>4, <1>7, <1>8, <1>9
<1>11. (10000 * q) * (loss - TickSize) < risk
  <2> DEFINE x == loss - TickSize
  <2>1. x \in Int /\ x + 1 <= dist
    BY <1>4, <1>6
  <2> HIDE DEF x
  <2>2. (10000 * q) * (x + 1) <= (10000 * q) * dist
    <3>1. 10000 * q \in Nat /\ x + 1 \in Int
      BY <1>7, <2>1
    <3> QED  BY <1>6, <2>1, <3>1, TimesKeepsOrder
  <2>3. (10000 * q) * (x + 1) = (10000 * q) * x + 10000 * q
    BY <1>7, <2>1
  <2>4. (10000 * q) * dist = (10000 * dist) * q
    BY <1>6, <1>7
  <2>5. (10000 * q) * x \in Int /\ (10000 * q) * dist \in Int
    BY <1>6, <1>7, <2>1
  <2>6. (10000 * q) * x < risk
    BY <1>1, <1>2, <1>7, <2>2, <2>3, <2>4, <2>5
  <2> QED  BY <2>6 DEF x
<1>12. q * c.entry \in Nat /\ 0 + q * c.entry = q * c.entry
  BY <1>4, <1>7
<1>13. \A n, e, f, v \in Nat : 10000 * v <= e * (10000 + f)
                                 => 10000 * (n * v) <= 10000 * (n * e) + f * (n * e)
  <2> TAKE n, e, f, v \in Nat
  <2> HAVE 10000 * v <= e * (10000 + f)
  <2>1. n * (10000 * v) <= n * (e * (10000 + f))
    <3>1. 10000 * v \in Int /\ e * (10000 + f) \in Int
      OBVIOUS
    <3> QED  BY <3>1, TimesKeepsOrder
  <2>2. n * (10000 * v) = 10000 * (n * v)
    OBVIOUS
  <2>3. n * (e * (10000 + f)) = 10000 * (n * e) + f * (n * e)
    OBVIOUS
  <2> QED  BY <2>1, <2>2, <2>3
<1>14. 10000 * (q * p) <= 10000 * (q * c.entry) + OffsetBps * (q * c.entry)
  BY <1>3, <1>4, <1>7, <1>13
<1>15. 10000 * (q * p) <= per + OffsetBps * (q * c.entry)
  <2>1. \A a, b, d \in Int : a <= 10000 * b + d /\ 10000 * b <= per => a <= per + d
    BY <1>2
  <2>2. 10000 * (q * p) \in Int /\ OffsetBps * (q * c.entry) \in Int
    BY <1>3, <1>4, <1>7, <1>12
  <2> QED  BY <1>10, <1>12, <1>14, <2>1, <2>2
<1> QED
  BY <1>3, <1>7, <1>10, <1>11, <1>12, <1>15 DEF q, p, per, all, risk, loss

-----------------------------------------------------------------------------
(***************************************************************************)
(* The steps of the exchange's list of entries.                            *)
(***************************************************************************)
LEMMA PlacedIsFinite ==
    ASSUME TypeOK
    PROVE  /\ entries \in Seq(Entries) /\ Len(entries) \in Nat
           /\ Placed = 1..Len(entries)
           /\ \A ids \in SUBSET Placed : IsFiniteSet(ids)
           /\ \A n \in Placed : /\ entries[n] \in Entries
                                /\ entries[n].left \in Nat /\ entries[n].held \in Nat
                                /\ SymbolOf(n) \in Symbols
                                /\ Sized(entries[n].order) \in Nat
<1>1. entries \in Seq(Entries) /\ Placed = 1..Len(entries) /\ Len(entries) \in Nat
  BY DEF TypeOK, Placed
<1>2. \A ids \in SUBSET Placed : IsFiniteSet(ids)
  <2>1. \A a, b \in Nat : IsFiniteSet(a..b)
    BY FS_Interval
  <2> QED  BY <1>1, <2>1, FS_Subset
<1>3. ASSUME NEW n \in Placed
      PROVE  /\ entries[n] \in Entries
             /\ entries[n].left \in Nat /\ entries[n].held \in Nat
             /\ SymbolOf(n) \in Symbols
             /\ Sized(entries[n].order) \in Nat
  <2>1. entries[n] \in Entries
    BY <1>1
  <2> DEFINE order == entries[n].order
             q == order.quantity
             e == order.candidate.entry
  <2>2. /\ order \in Orders
        /\ entries[n].left \in Nat /\ entries[n].held \in Nat
    BY <2>1 DEF Entries
  <2>3. q \in Nat /\ e \in Nat /\ order.candidate.symbol \in Symbols
    <3> HIDE DEF order
    <3> QED  BY <2>2, CandidatesPropose DEF Orders, Proposes
  <2>4. q * e \in Nat
    <3> HIDE DEF q, e
    <3> QED  BY <2>3
  <2> QED  BY <2>1, <2>2, <2>3, <2>4 DEF SymbolOf, Sized
<1> QED  BY <1>1, <1>2, <1>3

\* An entry that is placed is added at the end, and holds nothing.
LEMMA PlacedIsAdded ==
    ASSUME TypeOK, PlaceRouted
    PROVE  /\ entries' \in Seq(Entries) /\ Len(entries') = Len(entries) + 1
           /\ Len(entries') <= MaxEntries
           /\ Placed' = Placed \cup {Len(entries')} /\ Len(entries') \notin Placed
           /\ \A n \in Placed : entries'[n] = entries[n]
           /\ entries'[Len(entries')].order = routed
           /\ entries'[Len(entries')].held = 0
<1> DEFINE e == [order |-> routed, left |-> routed.quantity, held |-> 0]
<1>1. entries \in Seq(Entries) /\ Len(entries) \in Nat /\ Placed = 1..Len(entries)
  BY PlacedIsFinite
<1>2. e \in Entries
  <2>1. routed \in Orders
    BY DEF TypeOK, PlaceRouted
  <2>2. routed.quantity \in Nat
    BY <2>1 DEF Orders
  <2> QED  BY <2>1, <2>2 DEF Entries
<1>3. entries' = Append(entries, e)
  BY DEF PlaceRouted
<1>4. e.order = routed /\ e.held = 0
  OBVIOUS
<1> HIDE DEF e
<1>5. /\ entries' \in Seq(Entries) /\ Len(entries') = Len(entries) + 1
      /\ \A n \in 1..Len(entries) : entries'[n] = entries[n]
      /\ entries'[Len(entries')] = e
  BY <1>1, <1>2, <1>3
<1>6. Placed' = 1..Len(entries')
  BY <1>5 DEF Placed
<1>7. Len(entries) < MaxEntries /\ MaxEntries \in Nat
  BY LoopAssumption DEF PlaceRouted
<1> QED
  BY <1>1, <1>4, <1>5, <1>6, <1>7

LEMMA SequenceReplaces ==
    ASSUME NEW S, NEW seq \in Seq(S), NEW n \in DOMAIN seq, NEW e \in S, NEW new,
           new = [seq EXCEPT ![n] = e]
    PROVE  /\ new \in Seq(S) /\ Len(new) = Len(seq) /\ DOMAIN new = DOMAIN seq
           /\ new[n] = e
           /\ \A m \in DOMAIN seq : m # n => new[m] = seq[m]
OBVIOUS

Live == {n \in Placed : entries[n].left > 0 \/ entries[n].held > 0}

\* No entry is added, nothing rests that did not, and only a resting entry comes to
\* hold more than it did.
EntriesSettle ==
    /\ entries' \in Seq(Entries) /\ Len(entries') = Len(entries) /\ Placed' = Placed
    /\ \A n \in Placed :
           /\ entries'[n].order = entries[n].order
           /\ entries'[n].left <= entries[n].left
           /\ entries[n].left = 0 => entries'[n].held <= entries[n].held

\* One entry of the list changes in what is left and what it holds.
LEMMA EntryChanges ==
    ASSUME TypeOK, NEW n \in Resting, NEW left \in 0..entries[n].left, NEW held \in Nat,
           entries' = [entries EXCEPT ![n].left = left, ![n].held = held]
    PROVE  EntriesSettle
<1>1. entries \in Seq(Entries) /\ n \in Placed /\ Placed = DOMAIN entries
      /\ entries[n].left > 0
  BY DEF TypeOK, Resting, Placed
<1>2. \A m \in Placed : entries[m] \in Entries
                        /\ entries[m].left \in Nat /\ entries[m].held \in Nat
  BY PlacedIsFinite
<1> DEFINE e == [entries[n] EXCEPT !.left = left, !.held = held]
<1>3. e \in Entries /\ e.order = entries[n].order /\ e.left = left
  <2>1. left \in Nat
    BY <1>1, <1>2
  <2> QED  BY <1>1, <1>2, <2>1 DEF Entries
<1>4. entries' = [entries EXCEPT ![n] = e]
  <2>1. e = [entries[n] EXCEPT !.left = left, !.held = held]
    OBVIOUS
  <2>2. [entries EXCEPT ![n].left = left, ![n].held = held]
            = [entries EXCEPT ![n] = [entries[n] EXCEPT !.left = left, !.held = held]]
    BY <1>1
  <2> QED  BY <2>1, <2>2
<1> HIDE DEF e
<1>5. /\ entries' \in Seq(Entries) /\ Len(entries') = Len(entries)
      /\ DOMAIN entries' = DOMAIN entries
      /\ entries'[n] = e
      /\ \A m \in Placed : m # n => entries'[m] = entries[m]
  BY ONLY <1>1, <1>3, <1>4, SequenceReplaces
<1>6. ASSUME NEW m \in Placed
      PROVE  /\ entries'[m].order = entries[m].order
             /\ entries'[m].left <= entries[m].left
             /\ entries[m].left = 0 => entries'[m].held <= entries[m].held
  <2>1. CASE m = n
    BY <1>1, <1>2, <1>3, <1>5, <2>1
  <2>2. CASE m # n
    <3>1. entries'[m] = entries[m]
      BY <1>5, <2>2
    <3>2. entries[m].left \in Nat /\ entries[m].held \in Nat
      BY <1>2
    <3> QED  BY ONLY <3>1, <3>2
  <2> QED  BY <2>1, <2>2
<1> QED
  BY <1>5, <1>6 DEF EntriesSettle, Placed

LEMMA CloseSettles ==
    ASSUME TypeOK, NEW s \in Symbols, ClosePosition(s) PROVE EntriesSettle
<1>1. /\ entries \in Seq(Entries) /\ Len(entries) \in Nat /\ Placed = 1..Len(entries)
      /\ \A n \in Placed : entries[n] \in Entries
                           /\ entries[n].left \in Nat /\ entries[n].held \in Nat
  BY PlacedIsFinite
<1> DEFINE e(n) == IF SymbolOf(n) = s THEN [entries[n] EXCEPT !.held = 0] ELSE entries[n]
<1>2. \A n \in Placed : /\ e(n) \in Entries /\ e(n).order = entries[n].order
                        /\ e(n).left = entries[n].left /\ e(n).held <= entries[n].held
  <2> SUFFICES ASSUME NEW n \in Placed
               PROVE  /\ e(n) \in Entries /\ e(n).order = entries[n].order
                      /\ e(n).left = entries[n].left /\ e(n).held <= entries[n].held
    OBVIOUS
  <2>1. entries[n] \in Entries /\ entries[n].left \in Nat /\ entries[n].held \in Nat
    BY <1>1
  <2>2. CASE SymbolOf(n) = s
    BY <2>1, <2>2 DEF Entries
  <2>3. CASE SymbolOf(n) # s
    BY <2>1, <2>3
  <2> QED  BY <2>2, <2>3
<1>3. entries' = [n \in Placed |-> e(n)]
  BY DEF ClosePosition
<1> HIDE DEF e
<1>4. entries' = [n \in 1..Len(entries) |-> e(n)]
  BY <1>1, <1>3
<1>5. entries' \in Seq(Entries) /\ Len(entries') = Len(entries)
      /\ DOMAIN entries' = DOMAIN entries
  <2>1. entries' \in [1..Len(entries) -> Entries]
    BY <1>1, <1>2, <1>4
  <2>2. DOMAIN entries' = 1..Len(entries)
    BY <1>4
  <2>3. entries' \in Seq(Entries)
    BY <1>1, <2>1
  <2> QED  BY <1>1, <2>2, <2>3
<1>6. \A n \in Placed : entries'[n] = e(n)
  BY <1>3
<1> QED
  BY <1>1, <1>2, <1>5, <1>6 DEF EntriesSettle, Placed

LEMMA ExchangeSettles == TypeOK /\ ExchangeNext => EntriesSettle
<1> SUFFICES ASSUME TypeOK, ExchangeNext PROVE EntriesSettle
  OBVIOUS
<1>1. ASSUME NEW n \in Resting, NEW amount, Fill(n, amount) PROVE EntriesSettle
  <2>1. n \in Placed /\ entries[n].left \in Nat /\ entries[n].held \in Nat
    BY PlacedIsFinite DEF Resting
  <2>2. amount \in 1..entries[n].left
    BY <1>1 DEF Fill
  <2> DEFINE left == entries[n].left - amount
             held == entries[n].held + amount
  <2>3. left \in 0..entries[n].left /\ held \in Nat
    BY <2>1, <2>2
  <2>4. entries' = [entries EXCEPT ![n].left = left, ![n].held = held]
    BY <1>1 DEF Fill
  <2> HIDE DEF left, held
  <2> QED  BY <2>3, <2>4, EntryChanges
<1>2. ASSUME NEW n \in Resting, GoesAway(n) PROVE EntriesSettle
  <2>1. n \in Placed /\ entries[n] \in Entries
        /\ entries[n].left \in Nat /\ entries[n].held \in Nat
    BY PlacedIsFinite DEF Resting
  <2>2. entries' = [entries EXCEPT ![n].left = 0]
    BY <1>2 DEF GoesAway
  <2>3. [entries EXCEPT ![n].left = 0]
            = [entries EXCEPT ![n].left = 0, ![n].held = entries[n].held]
    <3>1. [entries[n] EXCEPT !.left = 0]
              = [entries[n] EXCEPT !.left = 0, !.held = entries[n].held]
      BY <2>1 DEF Entries
    <3> QED  BY <2>1, <3>1 DEF Placed
  <2>4. 0 \in 0..entries[n].left
    BY <2>1
  <2> QED  BY <2>1, <2>2, <2>3, <2>4, EntryChanges
<1> QED  BY <1>1, <1>2, CloseSettles DEF ExchangeNext

-----------------------------------------------------------------------------
(***************************************************************************)
(* Types, counts and rows.                                                 *)
(***************************************************************************)
\* The count a run keeps is that of its entries, one less between the exchange's
\* answer and the row; and it submits only below the limit.
Counted ==
    /\ pc \in {"submit", "persist"} => submitted < MaxNewOrders
    /\ pc \in {"positions", "decide", "submit"} => Len(entries) = firstOfRun + submitted
    /\ pc = "persist" => Len(entries) = firstOfRun + submitted + 1
    /\ pc = "positions" => submitted = 0
    /\ Len(entries) - firstOfRun <= MaxNewOrders

\* Only the entry last placed may be without its row.
Recorded ==
    /\ pc \in {"positions", "decide", "submit"} => OfRun \subseteq rows
    /\ pc = "persist" => OfRun \subseteq rows \cup {Len(entries)}

Booked == TypeOK /\ Counted /\ Recorded

LEMMA SymbolsAreFinite == \A ids \in SUBSET Symbols : IsFiniteSet(ids)
BY LoopAssumption, FS_Subset

LEMMA InPositionIsFinite ==
    ASSUME TypeOK, NEW s
    PROVE  /\ InPosition(s) \subseteq Placed /\ IsFiniteSet(InPosition(s))
           /\ \A n \in InPosition(s) : Held[n] = entries[n].held /\ Held[n] \in Nat
<1>1. InPosition(s) \subseteq Placed
  BY DEF InPosition
<1> QED
  BY <1>1, PlacedIsFinite DEF Held

\* A position has contracts, if it is one.
LEMMA AmountIsNat ==
    ASSUME TypeOK, NEW s
    PROVE  Amount(s) \in Nat /\ (InPosition(s) # {} => Amount(s) > 0)
<1>1. /\ Amount(s) \in Nat
      /\ \A n \in InPosition(s) : Held[n] <= Amount(s)
  BY InPositionIsFinite, FunctionSumIsNat DEF Amount
<1>2. \A n \in InPosition(s) : Held[n] \in Nat /\ Held[n] > 0
  BY InPositionIsFinite DEF InPosition
<1> QED  BY <1>1, <1>2

LEMMA UsedIsNat == TypeOK => UsedNotional \in Nat
<1> SUFFICES ASSUME TypeOK PROVE UsedNotional \in Nat
  OBVIOUS
<1> DEFINE w == [s \in OpenSeen |-> seen[s].notional]
<1>1. OpenSeen \subseteq Symbols /\ IsFiniteSet(OpenSeen)
  BY SymbolsAreFinite DEF OpenSeen
<1>2. \A s \in OpenSeen : w[s] \in Nat
  BY <1>1 DEF TypeOK, Positions
<1>3. UsedNotional = SumFunctionOnSet(w, OpenSeen)
  BY DEF UsedNotional
<1> HIDE DEF w
<1> QED  BY <1>1, <1>2, <1>3, FunctionSumIsNat

\* What the run has read is what the allocator's arithmetic takes.
LEMMA ReadIsNat == TypeOK => account \in Nat /\ UsedNotional \in Nat
BY UsedIsNat, LoopAssumption DEF TypeOK

LEMMA AcceptedIsAnOrder ==
    ASSUME TypeOK, NEW c \in Candidates, Allocated(c)
    PROVE  OrderOf(c) \in Orders
<1>1. account \in Nat /\ UsedNotional \in Nat /\ Proposes(c)
  BY ReadIsNat, CandidatesPropose
<1>2. /\ Quantity(c, account, UsedNotional) \in Nat \ {0}
      /\ NormalizedPrice(c) \in Nat
  BY <1>1, AcceptedOrderFits DEF Allocated
<1> QED
  BY <1>2 DEF OrderOf, Orders

\* What ReadPositions makes of a position.
PositionRead(s, marks, fields) ==
    IF s \in OpenPositions
    THEN [amount |-> Amount(s), mark |-> marks[s],
          notional |-> NotionalTaken(Amount(s), marks[s], fields)]
    ELSE Flat

LEMMA ReadHasType ==
    ASSUME TypeOK, NEW s \in Symbols, NEW marks \in [Symbols -> MarkPrices],
           NEW fields \in AnswerFields
    PROVE  PositionRead(s, marks, fields) \in Positions
<1> DEFINE a == Amount(s)
           m == marks[s]
<1>1. a \in Nat /\ m \in Nat
  BY AmountIsNat, LoopAssumption
<1>2. a * m \in Nat
  <2> HIDE DEF a, m
  <2> QED  BY <1>1
<1>3. NotionalTaken(a, m, fields) \in Nat
  BY <1>2 DEF NotionalTaken
<1> HIDE DEF a, m
<1> QED
  <2>1. PositionRead(s, marks, fields)
            = IF s \in OpenPositions
              THEN [amount |-> a, mark |-> m, notional |-> NotionalTaken(a, m, fields)]
              ELSE Flat
    BY DEF PositionRead, a, m
  <2> QED  BY <1>1, <1>3, <2>1 DEF Positions, Flat

LEMMA BookedInit == Init => Booked
<1> SUFFICES ASSUME Init PROVE Booked
  OBVIOUS
<1>1. Len(entries) = 0 /\ entries \in Seq(Entries) /\ Placed = {}
  BY DEF Init, Placed
<1>2. MaxEntries \in Nat /\ MaxNewOrders \in Nat
  BY LoopAssumption
<1>3. TypeOK
  BY <1>1, <1>2 DEF Init, TypeOK, NothingSeen, Flat, Positions
<1>4. Counted /\ Recorded
  BY <1>1, <1>2 DEF Init, Counted, Recorded
<1> QED  BY <1>3, <1>4 DEF Booked

LEMMA BookedStep == Booked /\ [Next]_vars => Booked'
<1> SUFFICES ASSUME Booked, [Next]_vars PROVE Booked'
  OBVIOUS
<1> USE DEF Booked
<1>1. /\ Placed = 1..Len(entries) /\ Len(entries) \in Nat
      /\ firstOfRun \in Nat /\ submitted \in Nat /\ MaxNewOrders \in Nat
  BY PlacedIsFinite, LoopAssumption DEF TypeOK
<1>2. UNCHANGED entries => Placed' = Placed
  BY DEF Placed
<1> DEFINE Left == /\ NothingSeen \in [Symbols -> Positions]
                   /\ 0 \in Balances \cup {0} /\ 0 \in 0..MaxNewOrders
<1>3. Left
  BY <1>1 DEF NothingSeen, Flat, Positions
<1> HIDE DEF Left
<1>4. CASE StartRun
  <2>1. TypeOK'
    BY <1>1, <1>2, <1>4 DEF StartRun, TypeOK
  <2>2. Counted' /\ Recorded'
    BY <1>1, <1>4 DEF StartRun, Counted, Recorded, OfRun, TypeOK
  <2> QED  BY <2>1, <2>2
<1>5. CASE ReadPositions
  <2>1. PICK marks \in [Symbols -> MarkPrices], fields \in AnswerFields :
            seen' = [s \in Symbols |-> PositionRead(s, marks, fields)]
    BY <1>5 DEF ReadPositions, PositionRead
  <2>2. seen' \in [Symbols -> Positions]
    BY <2>1, ReadHasType
  <2>3. TypeOK'
    BY <1>1, <1>2, <1>5, <2>2 DEF ReadPositions, TypeOK
  <2>4. Counted' /\ Recorded'
    BY <1>1, <1>5 DEF ReadPositions, Counted, Recorded, OfRun
  <2> QED  BY <2>3, <2>4
<1>6. ASSUME NEW c \in Candidates, PassOver(c) PROVE Booked'
  BY <1>1, <1>2, <1>6, CandidatesPropose
     DEF PassOver, Undecided, TypeOK, Counted, Recorded, OfRun
<1>7. ASSUME NEW c \in Candidates, AcceptCandidate(c) PROVE Booked'
  <2>1. OrderOf(c) \in Orders
    BY <1>7, AcceptedIsAnOrder DEF AcceptCandidate
  <2>2. TypeOK'
    BY <1>1, <1>2, <1>7, <2>1, CandidatesPropose DEF AcceptCandidate, Undecided, TypeOK
  <2>3. Counted' /\ Recorded'
    BY <1>1, <1>7 DEF AcceptCandidate, Undecided, MayDecide, TypeOK, Counted, Recorded,
                      OfRun
  <2> QED  BY <2>2, <2>3
<1>8. ASSUME LeaveRun, UNCHANGED <<entries, rows, safe>> PROVE Booked'
  <2>1. TypeOK'
    BY <1>1, <1>2, <1>3, <1>8 DEF Left, LeaveRun, TypeOK
  <2>2. Counted' /\ Recorded'
    BY <1>1, <1>8 DEF LeaveRun, Counted, Recorded
  <2> QED  BY <2>1, <2>2
<1>9. ASSUME PlaceRouted
      PROVE  /\ entries' \in Seq(Entries) /\ Len(entries') = Len(entries) + 1
             /\ Len(entries') <= MaxEntries /\ Placed \subseteq Placed'
  BY <1>9, PlacedIsAdded
<1>10. CASE SubmitAccepted
  <2>1. PlaceRouted /\ pc = "submit" /\ pc' = "persist"
    BY <1>10 DEF SubmitAccepted, PlaceRouted
  <2>2. /\ rows' = rows /\ safe' = safe /\ account' = account /\ seen' = seen
        /\ decided' = decided /\ routed' = routed
        /\ submitted' = submitted /\ firstOfRun' = firstOfRun
    BY <1>10 DEF SubmitAccepted
  <2>3. TypeOK'
    <3>1. rows' \subseteq Placed' /\ firstOfRun' \in 0..Len(entries')
      BY <1>1, <1>9, <2>1, <2>2 DEF TypeOK
    <3> QED  BY <1>9, <2>1, <2>2, <3>1 DEF TypeOK
  <2>4. Counted' /\ Recorded'
    BY <1>1, <1>9, <2>1, <2>2 DEF TypeOK, Counted, Recorded, OfRun
  <2> QED  BY <2>3, <2>4
<1>11. CASE SubmitTimesOut
  <2>1. PlaceRouted /\ pc = "submit" /\ pc' = "idle"
    BY <1>11 DEF SubmitTimesOut, PlaceRouted, LeaveRun
  <2>2. /\ rows' = rows /\ safe' = safe /\ account' = 0 /\ seen' = NothingSeen
        /\ decided' = {} /\ submitted' = 0 /\ firstOfRun' = firstOfRun
    BY <1>11 DEF SubmitTimesOut, LeaveRun
  <2>3. TypeOK'
    <3>1. rows' \subseteq Placed' /\ firstOfRun' \in 0..Len(entries')
      BY <1>1, <1>9, <2>1, <2>2 DEF TypeOK
    <3> QED  BY <1>3, <1>9, <2>1, <2>2, <3>1 DEF Left, TypeOK
  <2>4. Counted' /\ Recorded'
    BY <1>1, <1>9, <2>1, <2>2 DEF TypeOK, Counted, Recorded
  <2> QED  BY <2>3, <2>4
<1>12. CASE PersistRouted
  <2>1. Len(entries) \in Placed
    BY <1>1, <1>12 DEF PersistRouted, Counted
  <2>2. rows' \subseteq Placed'
    BY <1>2, <1>12, <2>1 DEF PersistRouted, TypeOK
  <2>3. submitted' \in 0..MaxNewOrders
    BY <1>1, <1>12 DEF PersistRouted, Counted
  <2>4. TypeOK'
    BY <1>1, <1>2, <1>12, <2>2, <2>3 DEF PersistRouted, TypeOK
  <2>5. Counted' /\ Recorded'
    BY <1>1, <1>12 DEF PersistRouted, TypeOK, Counted, Recorded, OfRun
  <2> QED  BY <2>4, <2>5
<1>13. CASE ExchangeNext
  <2>1. UNCHANGED <<rows, safe, runVars>>
    BY <1>13 DEF ExchangeNext, Fill, GoesAway, ClosePosition
  <2>2. /\ entries' \in Seq(Entries) /\ Len(entries') = Len(entries) /\ Placed' = Placed
    BY <1>13, ExchangeSettles DEF EntriesSettle
  <2>3. TypeOK'
    BY <1>1, <2>1, <2>2 DEF runVars, TypeOK
  <2>4. Counted' /\ Recorded'
    BY <1>1, <2>1, <2>2 DEF runVars, Counted, Recorded, OfRun
  <2> QED  BY <2>3, <2>4
<1>14. CASE SwitchSafeMode
  BY <1>1, <1>2, <1>14 DEF SwitchSafeMode, runVars, TypeOK, Counted, Recorded, OfRun
<1>15. CASE UNCHANGED vars
  BY <1>2, <1>15 DEF vars, TypeOK, Counted, Recorded, OfRun
<1>16. CASE Return \/ RunAborts \/ \E c \in Candidates : FiltersReject(c)
  BY <1>8, <1>16 DEF Return, RunAborts, FiltersReject
<1> QED
  BY <1>4, <1>5, <1>6, <1>7, <1>10, <1>11, <1>12, <1>13, <1>14, <1>15, <1>16
     DEF Next, RunNext

\* The account, the snapshots, the counts and the order of a run keep their types.
THEOREM LoopTypeCorrect == Spec => []TypeOK
<1>1. Booked => TypeOK
  BY DEF Booked
<1> QED  BY <1>1, BookedInit, BookedStep, PTL DEF Spec

\* A run never has more entries placed than max_new_orders_per_run, the one whose answer
\* was lost included (sleeve_b_testnet_loop.py:92, 108-110).
THEOREM RunsAreBounded == Spec => []RunIsBounded
<1>1. Booked => RunIsBounded
  <2> SUFFICES ASSUME Booked PROVE RunIsBounded
    OBVIOUS
  <2>1. Len(entries) \in Nat /\ firstOfRun \in Nat /\ firstOfRun <= Len(entries)
        /\ MaxNewOrders \in Nat
    BY PlacedIsFinite, LoopAssumption DEF Booked, TypeOK
  <2>2. Cardinality(OfRun) = Len(entries) - firstOfRun
    <3>1. \A a, b \in Nat : a <= b + 1 => Cardinality(a..b) = b - a + 1
      BY FS_Interval
    <3> QED  BY <2>1, <3>1 DEF OfRun
  <2> QED  BY <2>1, <2>2 DEF RunIsBounded, Booked, Counted
<1> QED  BY <1>1, BookedInit, BookedStep, PTL DEF Spec

\* Whenever the loop takes another candidate or returns, its entries have their rows and
\* are in its count (sleeve_b_testnet_loop.py:108-125, persistent_router.py:20-22).
THEOREM RunsAreRecorded == Spec => []RunIsRecorded
<1>1. Booked => RunIsRecorded
  <2> SUFFICES ASSUME Booked, pc = "decide"
               PROVE  OfRun \subseteq rows /\ submitted = Cardinality(OfRun)
    BY DEF RunIsRecorded
  <2>1. /\ Len(entries) \in Nat /\ firstOfRun \in Nat /\ submitted \in Nat
        /\ Len(entries) = firstOfRun + submitted
    BY PlacedIsFinite, LoopAssumption DEF Booked, TypeOK, Counted
  <2>2. Cardinality(OfRun) = Len(entries) - firstOfRun
    <3>1. \A a, b \in Nat : a <= b + 1 => Cardinality(a..b) = b - a + 1
      BY FS_Interval
    <3> QED  BY <2>1, <3>1 DEF OfRun
  <2> QED  BY <2>1, <2>2 DEF Booked, Recorded
<1> QED  BY <1>1, BookedInit, BookedStep, PTL DEF Spec

-----------------------------------------------------------------------------
(***************************************************************************)
(* An order keeps to the plan it was sized by.                             *)
(***************************************************************************)
LEMMA PlanStep == Booked /\ OrderWithinPlan /\ [Next]_vars => OrderWithinPlan'
<1> SUFFICES ASSUME Booked, OrderWithinPlan, [Next]_vars PROVE OrderWithinPlan'
  OBVIOUS
<1>1. ASSUME NEW c \in Candidates, AcceptCandidate(c) PROVE OrderWithinPlan'
  <2> DEFINE q == Quantity(c, account, UsedNotional)
             price == NormalizedPrice(c)
  <2>1. account \in Nat /\ UsedNotional \in Nat /\ Proposes(c) /\ Allocated(c)
    BY <1>1, ReadIsNat, CandidatesPropose DEF Booked, AcceptCandidate
  <2>2. /\ q \in Nat \ {0} /\ price \in Nat
        /\ 10000 * (q * price)
               <= NotionalOf(account, PerPositionPercent) + OffsetBps * (q * c.entry)
        /\ (10000 * q) * (LossTo(c, price) - TickSize) < RiskBudget(account)
    BY <2>1, AcceptedOrderFits DEF Allocated
  <2>3. /\ routed'.quantity = q /\ routed'.price = price /\ routed'.candidate = c
        /\ account' = account
    BY <1>1 DEF AcceptCandidate, OrderOf
  <2> HIDE DEF q, price
  <2>4. 10000 * (q * price) = 10000 * q * price
    BY <2>2
  <2>5. Sized(routed)' = q * c.entry
    BY <2>3 DEF Sized
  <2> QED  BY <2>2, <2>3, <2>4, <2>5 DEF OrderWithinPlan
<1>2. ASSUME pc' \in {"submit", "persist"} => pc \in {"submit", "persist"},
             account' = account, routed' = routed
      PROVE  OrderWithinPlan'
  BY <1>2 DEF OrderWithinPlan, Sized
<1>3. ASSUME pc' \notin {"submit", "persist"} PROVE OrderWithinPlan'
  BY <1>3 DEF OrderWithinPlan
<1>4. CASE \E c \in Candidates : PassOver(c) \/ FiltersReject(c)
  BY <1>2, <1>3, <1>4 DEF PassOver, FiltersReject, LeaveRun
<1>5. CASE StartRun \/ ReadPositions \/ PersistRouted \/ Return \/ RunAborts
  BY <1>3, <1>5 DEF StartRun, ReadPositions, PersistRouted, Return, RunAborts, LeaveRun
<1>6. CASE SubmitAccepted \/ SubmitTimesOut
  BY <1>2, <1>3, <1>6 DEF SubmitAccepted, SubmitTimesOut, PlaceRouted, LeaveRun
<1>7. CASE ExchangeNext \/ SwitchSafeMode \/ UNCHANGED vars
  BY <1>2, <1>7 DEF ExchangeNext, Fill, GoesAway, ClosePosition, SwitchSafeMode, vars, runVars
<1> QED  BY <1>1, <1>4, <1>5, <1>6, <1>7 DEF Next, RunNext

\* An order on its way is within the margin of one position, plus the offset of its
\* price, and within the risk budget (sleeve_b_allocator.py:78-100,
\* sleeve_b_testnet_loop.py:162-166, filters.py:22-46).
THEOREM OrdersKeepToPlan == Spec => []OrderWithinPlan
<1>1. Init => OrderWithinPlan
  BY DEF Init, OrderWithinPlan
<1> QED  BY <1>1, BookedInit, BookedStep, PlanStep, PTL DEF Spec

-----------------------------------------------------------------------------
(***************************************************************************)
(* The kinds of steps there are.                                           *)
(***************************************************************************)
During == pc \in {"decide", "submit", "persist"}

\* The run goes on with what it has read, or is left; the exchange may move.
RunKeeps ==
    /\ EntriesSettle
    /\ UNCHANGED firstOfRun
    /\ pc' = "positions" => pc = "positions"
    /\ During' => /\ During /\ decided \subseteq decided'
                  /\ UNCHANGED <<seen, account>>
    /\ pc' = "submit" => pc = "submit" /\ UNCHANGED <<routed, decided>>

\* The order goes out; the run goes on, or ends with the exception.
RunPlaces ==
    /\ PlaceRouted
    /\ pc' \in {"persist", "idle"}
    /\ firstOfRun' = firstOfRun
    /\ pc' = "persist" => UNCHANGED <<account, seen, decided>>

LEMMA StepKinds ==
    TypeOK /\ [Next]_vars => \/ RunKeeps
                             \/ StartRun
                             \/ ReadPositions
                             \/ \E c \in Candidates : AcceptCandidate(c)
                             \/ RunPlaces
<1> SUFFICES ASSUME TypeOK, [Next]_vars
             PROVE  \/ RunKeeps
                    \/ StartRun
                    \/ ReadPositions
                    \/ \E c \in Candidates : AcceptCandidate(c)
                    \/ RunPlaces
  OBVIOUS
<1>1. ASSUME UNCHANGED entries PROVE EntriesSettle
  <2>1. entries \in Seq(Entries) /\ \A n \in Placed : entries[n].left \in Nat
                                                    /\ entries[n].held \in Nat
    BY PlacedIsFinite
  <2> QED  BY <1>1, <2>1 DEF EntriesSettle, Placed
<1>2. CASE ExchangeNext
  <2>1. UNCHANGED runVars
    BY <1>2 DEF ExchangeNext, Fill, GoesAway, ClosePosition
  <2> QED  BY <1>2, <2>1, ExchangeSettles DEF RunKeeps, During, runVars
<1>3. CASE SwitchSafeMode \/ UNCHANGED vars
  BY <1>1, <1>3 DEF SwitchSafeMode, vars, runVars, RunKeeps, During
<1>4. ASSUME NEW c \in Candidates, PassOver(c) PROVE RunKeeps
  BY <1>1, <1>4 DEF PassOver, Undecided, RunKeeps, During
<1>5. ASSUME LeaveRun, UNCHANGED entries PROVE RunKeeps
  BY <1>1, <1>5 DEF LeaveRun, RunKeeps, During
<1>6. CASE PersistRouted
  BY <1>1, <1>6 DEF PersistRouted, RunKeeps, During
<1>7. CASE SubmitAccepted
  BY <1>7 DEF SubmitAccepted, RunPlaces
<1>8. CASE SubmitTimesOut
  BY <1>8 DEF SubmitTimesOut, RunPlaces, LeaveRun
<1>9. CASE Return \/ RunAborts \/ \E c \in Candidates : FiltersReject(c)
  BY <1>5, <1>9 DEF Return, RunAborts, FiltersReject
<1> QED
  BY <1>2, <1>3, <1>4, <1>6, <1>7, <1>8, <1>9 DEF Next, RunNext

LEMMA SettledLive ==
    ASSUME TypeOK, EntriesSettle
    PROVE  /\ Live' \subseteq Live /\ Live \subseteq Placed /\ Resting' \subseteq Resting
           /\ \A n \in Placed : SymbolOf(n)' = SymbolOf(n)
<1>1. \A n \in Placed : /\ entries[n].left \in Nat /\ entries[n].held \in Nat
                        /\ entries'[n].left \in Nat /\ entries'[n].held \in Nat
  <2>1. \A n \in Placed : entries'[n] \in Entries
    BY DEF EntriesSettle, Placed
  <2> QED  BY <2>1, PlacedIsFinite DEF Entries
<1>2. Resting' \subseteq Resting
  BY <1>1 DEF EntriesSettle, Resting
<1>3. ASSUME NEW n \in Live' PROVE n \in Live
  <2>1. n \in Placed /\ (entries'[n].left > 0 \/ entries'[n].held > 0)
    BY <1>3 DEF Live, EntriesSettle
  <2>2. /\ entries'[n].left <= entries[n].left
        /\ entries[n].left = 0 => entries'[n].held <= entries[n].held
    BY <2>1 DEF EntriesSettle
  <2>3. entries[n].left > 0 \/ entries[n].held > 0
    BY <1>1, <2>1, <2>2
  <2> QED  BY <2>1, <2>3 DEF Live
<1>4. \A n \in Placed : SymbolOf(n)' = SymbolOf(n)
  BY DEF EntriesSettle, SymbolOf
<1> QED  BY <1>2, <1>3, <1>4 DEF Live

LEMMA PlacedLive ==
    ASSUME TypeOK, PlaceRouted
    PROVE  /\ Live' \subseteq Live \cup (Placed' \ Placed) /\ Live \subseteq Placed
           /\ \A n \in Placed : SymbolOf(n)' = SymbolOf(n)
           /\ \A n \in Placed' \ Placed : /\ SymbolOf(n)' = routed.candidate.symbol
                                          /\ n = Len(entries')
<1>1. /\ Placed' = Placed \cup {Len(entries')} /\ Len(entries') \notin Placed
      /\ \A n \in Placed : entries'[n] = entries[n]
      /\ entries'[Len(entries')].order = routed
  BY PlacedIsAdded
<1>2. \A n \in Placed : SymbolOf(n)' = SymbolOf(n)
  BY <1>1 DEF SymbolOf
<1>3. \A n \in Placed' \ Placed : SymbolOf(n)' = routed.candidate.symbol /\ n = Len(entries')
  BY <1>1 DEF SymbolOf
<1>4. Live' \subseteq Live \cup (Placed' \ Placed) /\ Live \subseteq Placed
  BY <1>1 DEF Live
<1> QED  BY <1>2, <1>3, <1>4

-----------------------------------------------------------------------------
(***************************************************************************)
(* One entry per symbol, while no run starts on resting entries.           *)
(***************************************************************************)
\* No two live entries are of one symbol, and whatever is live after the positions were
\* read was seen, or is of a symbol the run has decided.
OneEach ==
    /\ \A m, n \in Live : SymbolOf(m) = SymbolOf(n) => m = n
    /\ pc = "positions" => Resting = {}
    /\ During => \A n \in Live : SymbolOf(n) \in OpenSeen \cup decided
    /\ pc = "submit" => /\ routed.candidate.symbol \in decided \ OpenSeen
                        /\ \A n \in Live : SymbolOf(n) # routed.candidate.symbol

LEMMA OneEachInit == Init => OneEach
BY DEF Init, OneEach, Live, Placed, During

\* Where nothing rests, what is live is in a position, and the run sees it.
LEMMA ReadSeesLive ==
    ASSUME TypeOK, ReadPositions, Resting = {}
    PROVE  \A n \in Live : SymbolOf(n) \in OpenSeen'
<1> SUFFICES ASSUME NEW n \in Live PROVE SymbolOf(n) \in OpenSeen'
  OBVIOUS
<1> DEFINE s == SymbolOf(n)
<1>1. PICK marks \in [Symbols -> MarkPrices], fields \in AnswerFields :
          seen' = [t \in Symbols |-> PositionRead(t, marks, fields)]
  BY DEF ReadPositions, PositionRead
<1>2. n \in Placed /\ entries[n].held > 0
  BY DEF Live, Resting
<1>3. s \in Symbols /\ n \in InPosition(s)
  BY <1>2, PlacedIsFinite DEF InPosition
<1> HIDE DEF s
<1>4. s \in OpenPositions /\ Amount(s) > 0
  BY <1>3, AmountIsNat DEF OpenPositions
<1>5. seen'[s].amount = Amount(s)
  BY <1>1, <1>3, <1>4 DEF PositionRead
<1> QED
  BY <1>3, <1>4, <1>5 DEF OpenSeen, s

LEMMA OneEachStep ==
    ASSUME ~StartsWhileResting
    PROVE  TypeOK /\ OneEach /\ [Next]_vars => OneEach'
<1> SUFFICES ASSUME TypeOK, OneEach, [Next]_vars PROVE OneEach'
  OBVIOUS
<1> DEFINE Apart == \A m, n \in Live : SymbolOf(m) = SymbolOf(n) => m = n
           AllRead == \A n \in Live : SymbolOf(n) \in OpenSeen \cup decided
           New == /\ routed.candidate.symbol \in decided \ OpenSeen
                  /\ \A n \in Live : SymbolOf(n) # routed.candidate.symbol
<1>1. /\ Apart /\ (pc = "positions" => Resting = {})
      /\ During => AllRead
      /\ pc = "submit" => New
  BY DEF OneEach
<1>2. ASSUME Apart', pc' = "positions" => Resting' = {}, During' => AllRead',
             pc' = "submit" => New'
      PROVE  OneEach'
  BY <1>2 DEF OneEach
<1>3. ASSUME EntriesSettle
      PROVE  /\ Apart'
             /\ \A n \in Live' : n \in Live /\ SymbolOf(n)' = SymbolOf(n)
             /\ Resting' \subseteq Resting
  BY <1>1, <1>3, SettledLive
<1>4. ASSUME UNCHANGED entries
      PROVE  /\ Apart' /\ Live' = Live /\ Resting' = Resting
             /\ \A n : SymbolOf(n)' = SymbolOf(n)
  BY <1>1, <1>4 DEF Live, Resting, Placed, SymbolOf
<1>5. CASE RunKeeps
  <2>1. Apart' /\ (pc' = "positions" => Resting' = {})
    BY <1>1, <1>3, <1>5 DEF RunKeeps
  <2>2. During' => AllRead'
    BY <1>1, <1>3, <1>5 DEF RunKeeps, OpenSeen
  <2>3. pc' = "submit" => New'
    <3> SUFFICES ASSUME pc' = "submit" PROVE New'
      OBVIOUS
    <3>1. /\ pc = "submit" /\ routed' = routed /\ decided' = decided /\ seen' = seen
          /\ EntriesSettle
      BY <1>5 DEF RunKeeps, During
    <3>2. OpenSeen' = OpenSeen
      BY <3>1 DEF OpenSeen
    <3> QED  BY <1>1, <1>3, <3>1, <3>2
  <2> QED  BY <1>2, <2>1, <2>2, <2>3
<1>6. CASE StartRun
  <2>1. pc' = "positions" /\ Resting = {} /\ UNCHANGED entries
    BY <1>6 DEF StartRun
  <2> QED  BY <1>2, <1>4, <2>1 DEF During
<1>7. CASE ReadPositions
  <2>1. pc = "positions" /\ pc' = "decide" /\ UNCHANGED entries
    BY <1>7 DEF ReadPositions
  <2>2. \A n \in Live : SymbolOf(n) \in OpenSeen'
    BY <1>1, <1>7, <2>1, ReadSeesLive
  <2>3. AllRead'
    BY <1>4, <2>1, <2>2
  <2> QED  BY <1>2, <1>4, <2>1, <2>3
<1>8. ASSUME NEW c \in Candidates, AcceptCandidate(c) PROVE OneEach'
  <2>1. /\ pc = "decide" /\ pc' = "submit" /\ UNCHANGED <<entries, seen>>
        /\ c.symbol \notin decided /\ decided' = decided \cup {c.symbol}
        /\ routed'.candidate = c /\ c.symbol \notin OpenSeen
    BY <1>8 DEF AcceptCandidate, Undecided, OrderOf, Allocated, Accepts
  <2>2. OpenSeen' = OpenSeen
    BY <2>1 DEF OpenSeen
  <2>3. AllRead
    BY <1>1, <2>1 DEF During
  <2>4. AllRead' /\ New'
    BY <1>4, <2>1, <2>2, <2>3
  <2> QED  BY <1>2, <1>4, <2>1, <2>4
<1>9. CASE RunPlaces
  <2>1. pc = "submit" /\ PlaceRouted /\ pc' \in {"persist", "idle"}
    BY <1>9 DEF RunPlaces, PlaceRouted
  <2>2. /\ Live' \subseteq Live \cup (Placed' \ Placed) /\ Live \subseteq Placed
        /\ \A n \in Placed : SymbolOf(n)' = SymbolOf(n)
        /\ \A n \in Placed' \ Placed : /\ SymbolOf(n)' = routed.candidate.symbol
                                       /\ n = Len(entries')
    BY <2>1, PlacedLive
  <2>3. Apart'
    BY <1>1, <2>1, <2>2
  <2>4. pc' = "persist" => AllRead'
    <3> SUFFICES ASSUME pc' = "persist" PROVE AllRead'
      OBVIOUS
    <3>1. seen' = seen /\ decided' = decided
      BY <1>9 DEF RunPlaces
    <3>2. OpenSeen' = OpenSeen
      BY <3>1 DEF OpenSeen
    <3>3. AllRead /\ New
      BY <1>1, <2>1 DEF During
    <3> QED  BY <2>2, <3>1, <3>2, <3>3
  <2> QED  BY <1>2, <2>1, <2>3, <2>4 DEF During
<1> QED
  BY <1>5, <1>6, <1>7, <1>8, <1>9, StepKinds

\* While no run starts on resting entries, an open position is made of one entry
\* (docs/sleeve_b_testnet_allocator.md:27, sleeve_b_allocator.py:68).
THEOREM PositionsDoNotPyramid ==
    ASSUME ~StartsWhileResting
    PROVE  Spec => []NoPyramiding
<1>1. Booked /\ OneEach => NoPyramiding
  <2> SUFFICES ASSUME Booked, OneEach, NEW s \in Symbols
               PROVE  Cardinality(InPosition(s)) <= 1
    BY DEF NoPyramiding
  <2>1. \A m, n \in InPosition(s) : m = n
    BY DEF OneEach, InPosition, Live
  <2>2. CASE InPosition(s) = {}
    BY <2>2, FS_EmptySet
  <2>3. ASSUME NEW n \in InPosition(s) PROVE Cardinality(InPosition(s)) <= 1
    <3>1. InPosition(s) = {n}
      BY <2>1
    <3> QED  BY <3>1, FS_Singleton
  <2> QED  BY <2>2, <2>3
<1> DEFINE IInv == Booked /\ OneEach
<1>2. Init => IInv
  BY BookedInit, OneEachInit
<1>3. IInv /\ [Next]_vars => IInv'
  <2>1. Booked => TypeOK
    BY DEF Booked
  <2> QED  BY <2>1, BookedStep, OneEachStep
<1>4. IInv => NoPyramiding
  BY <1>1
<1> HIDE DEF IInv
<1> QED  BY <1>2, <1>3, <1>4, PTL DEF Spec

-----------------------------------------------------------------------------
(***************************************************************************)
(* What the run's orders come to.                                          *)
(***************************************************************************)
\* A position that nothing rests for does not grow, and an entry that is placed is not
\* yet in one.
LEMMA AmountShrinks ==
    ASSUME TypeOK, EntriesSettle \/ PlaceRouted, NEW s,
           \A n \in Resting : SymbolOf(n) # s
    PROVE  Amount(s)' <= Amount(s) /\ Amount(s)' \in Nat
<1>1. ASSUME NEW n \in InPosition(s)'
      PROVE  /\ n \in InPosition(s)
             /\ entries'[n].held \in Nat /\ entries'[n].held <= entries[n].held
  <2>1. n \in Placed' /\ SymbolOf(n)' = s /\ entries'[n].held > 0
    BY <1>1 DEF InPosition
  <2>2. entries'[n].held \in Nat
    <3>1. entries' \in Seq(Entries)
      BY PlacedIsAdded DEF EntriesSettle
    <3>2. entries'[n] \in Entries
      BY <2>1, <3>1 DEF Placed
    <3> QED  BY <3>2 DEF Entries
  <2>3. CASE EntriesSettle
    <3>1. n \in Placed /\ SymbolOf(n) = s
      BY <2>1, <2>3, SettledLive DEF EntriesSettle
    <3>2. entries[n].left \in Nat /\ entries[n].held \in Nat /\ n \notin Resting
      BY <3>1, PlacedIsFinite
    <3>3. entries[n].left = 0
      BY <3>1, <3>2 DEF Resting
    <3>4. entries'[n].held <= entries[n].held
      BY <2>3, <3>1, <3>3 DEF EntriesSettle
    <3>5. entries[n].held > 0
      BY <2>1, <2>2, <3>2, <3>4
    <3> QED  BY <2>2, <3>1, <3>4, <3>5 DEF InPosition
  <2>4. CASE PlaceRouted
    <3>1. /\ Placed' = Placed \cup {Len(entries')}
          /\ \A m \in Placed : entries'[m] = entries[m]
          /\ entries'[Len(entries')].held = 0
      BY <2>4, PlacedIsAdded
    <3>2. n \in Placed /\ entries'[n] = entries[n]
      BY <2>1, <3>1
    <3>3. SymbolOf(n)' = SymbolOf(n)
      BY <3>2 DEF SymbolOf
    <3> QED  BY <2>1, <2>2, <3>2, <3>3 DEF InPosition
  <2> QED  BY <2>3, <2>4
<1>2. /\ InPosition(s) \subseteq Placed /\ IsFiniteSet(InPosition(s))
      /\ \A n \in InPosition(s) : Held[n] = entries[n].held /\ Held[n] \in Nat
  BY InPositionIsFinite
<1>3. \A n \in InPosition(s)' : Held'[n] = entries'[n].held
  BY DEF InPosition, Held
<1> DEFINE now == InPosition(s)'
           was == InPosition(s)
<1>4. now \in SUBSET was /\ IsFiniteSet(now)
  BY <1>1, <1>2, FS_Subset
<1>5. \A n \in now : Held'[n] \in Nat /\ Held'[n] <= Held[n]
  BY <1>1, <1>2, <1>3
<1>6. Amount(s) = SumFunctionOnSet(Held, was) /\ Amount(s)' = SumFunctionOnSet(Held', now)
  BY DEF Amount
<1> HIDE DEF now, was
<1>7. SumFunctionOnSet(Held', now) <= SumFunctionOnSet(Held, was)
  BY <1>2, <1>4, <1>5, FunctionSumOrdered DEF was
<1>8. SumFunctionOnSet(Held', now) \in Nat
  BY <1>4, <1>5, FunctionSumIsNat
<1> QED  BY <1>6, <1>7, <1>8

\* Until the run ends, no position it read has grown, and each was counted by its amount
\* and mark price; its orders are within the margin of one position each, and the next one
\* is within what the portfolio had left.
Capped ==
    /\ During => \A s \in OpenSeen :
                     /\ Amount(s) <= seen[s].amount
                     /\ \A n \in Resting : SymbolOf(n) # s
                     /\ seen[s].notional = seen[s].amount * seen[s].mark
    /\ During => \A n \in OfRun :
                     10000 * Sized(entries[n].order) <= NotionalOf(account, PerPositionPercent)
    /\ pc = "submit" =>
           /\ 10000 * Sized(routed) <= NotionalOf(account, PerPositionPercent)
           /\ 10000 * (UsedNotional + Sized(routed)) <= NotionalOf(account, PortfolioPercent)

LEMMA CappedStep ==
    ASSUME {} \notin AnswerFields
    PROVE  Booked /\ OneEach /\ Capped /\ [Next]_vars => Capped'
<1> SUFFICES ASSUME Booked, OneEach, Capped, [Next]_vars PROVE Capped'
  OBVIOUS
<1> DEFINE Steady(s) == /\ Amount(s) <= seen[s].amount
                        /\ \A n \in Resting : SymbolOf(n) # s
                        /\ seen[s].notional = seen[s].amount * seen[s].mark
           Small(n) == 10000 * Sized(entries[n].order)
                           <= NotionalOf(account, PerPositionPercent)
           Next1 == /\ 10000 * Sized(routed) <= NotionalOf(account, PerPositionPercent)
                    /\ 10000 * (UsedNotional + Sized(routed))
                           <= NotionalOf(account, PortfolioPercent)
<1>1. /\ TypeOK /\ Len(entries) \in Nat /\ firstOfRun \in Nat /\ firstOfRun <= Len(entries)
      /\ Placed = 1..Len(entries)
  BY PlacedIsFinite DEF Booked, TypeOK
<1>2. /\ During => \A s \in OpenSeen : Steady(s)
      /\ During => \A n \in OfRun : Small(n)
      /\ pc = "submit" => Next1
  BY DEF Capped
<1>3. ASSUME During' => \A s \in OpenSeen' : Steady(s)', During' => \A n \in OfRun' : Small(n)',
             pc' = "submit" => Next1'
      PROVE  Capped'
  BY <1>3 DEF Capped
<1>4. OpenSeen \subseteq Symbols
  BY DEF OpenSeen
<1>5. ASSUME NEW s \in OpenSeen, Steady(s), EntriesSettle, seen' = seen PROVE Steady(s)'
  <2>1. /\ Amount(s)' <= Amount(s) /\ Amount(s)' \in Nat
        /\ Amount(s) \in Nat
    BY <1>1, <1>5, AmountShrinks, AmountIsNat
  <2>2. seen[s].amount \in Nat
    BY <1>1, <1>4 DEF TypeOK, Positions
  <2>3. Amount(s)' <= seen'[s].amount
    BY <1>5, <2>1, <2>2
  <2>4. \A n \in Resting' : SymbolOf(n)' # s
    <3>1. Resting' \subseteq Resting /\ Resting \subseteq Placed
          /\ \A n \in Placed : SymbolOf(n)' = SymbolOf(n)
      BY <1>1, <1>5, SettledLive DEF Resting
    <3> QED  BY <1>5, <3>1
  <2> QED  BY <1>5, <2>3, <2>4
<1> HIDE DEF Steady
<1>6. CASE RunKeeps
  <2>1. EntriesSettle
    BY <1>6 DEF RunKeeps
  <2>2. ASSUME During'
        PROVE  /\ During /\ seen' = seen /\ account' = account
               /\ OpenSeen' = OpenSeen /\ OfRun' = OfRun /\ OfRun \subseteq Placed
    <3>1. During /\ seen' = seen /\ account' = account /\ firstOfRun' = firstOfRun
      BY <1>6, <2>2 DEF RunKeeps
    <3> QED  BY <1>1, <2>1, <3>1 DEF OpenSeen, OfRun, EntriesSettle
  <2>3. During' => \A s \in OpenSeen' : Steady(s)'
    BY <1>2, <1>5, <2>1, <2>2
  <2>4. During' => \A n \in OfRun' : Small(n)'
    <3> SUFFICES ASSUME During', NEW n \in OfRun PROVE Small(n)'
      BY <2>2
    <3>1. entries'[n].order = entries[n].order
      BY <2>1, <2>2 DEF EntriesSettle
    <3>2. Sized(entries[n].order)' = Sized(entries[n].order)
      BY <3>1 DEF Sized
    <3>3. NotionalOf(account, PerPositionPercent)' = NotionalOf(account, PerPositionPercent)
      BY <2>2 DEF NotionalOf
    <3> QED  BY <1>2, <2>2, <3>2, <3>3
  <2>5. pc' = "submit" => Next1'
    <3> SUFFICES ASSUME pc' = "submit" PROVE Next1'
      OBVIOUS
    <3>1. pc = "submit" /\ routed' = routed /\ seen' = seen /\ account' = account
          /\ OpenSeen' = OpenSeen
      BY <1>6, <2>2 DEF RunKeeps, During
    <3>2. Next1
      BY <1>2, <3>1
    <3> QED  BY <3>1, <3>2 DEF Sized, UsedNotional, NotionalOf
  <2> QED  BY <1>3, <2>3, <2>4, <2>5
<1>7. CASE StartRun
  <2>1. pc' = "positions"
    BY <1>7 DEF StartRun
  <2> QED  BY <1>3, <2>1 DEF During
<1>8. CASE ReadPositions
  <2>1. pc = "positions" /\ pc' = "decide" /\ entries' = entries /\ firstOfRun' = firstOfRun
    BY <1>8 DEF ReadPositions
  <2>2. Resting = {}
    BY <2>1 DEF OneEach
  <2>3. PICK marks \in [Symbols -> MarkPrices], fields \in AnswerFields :
            seen' = [t \in Symbols |-> PositionRead(t, marks, fields)]
    BY <1>8 DEF ReadPositions, PositionRead
  <2>4. ASSUME NEW s \in OpenSeen' PROVE Steady(s)'
    <3>1. s \in Symbols /\ seen'[s].amount > 0 /\ seen'[s] = PositionRead(s, marks, fields)
      BY <2>3 DEF OpenSeen
    <3>2. s \in OpenPositions
      BY <3>1 DEF PositionRead, Flat
    <3> DEFINE a == Amount(s)
               m == marks[s]
    <3>3. NotionalTaken(a, m, fields) = a * m
      BY DEF NotionalTaken
    <3>4. /\ seen'[s].amount = a /\ seen'[s].mark = m
          /\ seen'[s].notional = NotionalTaken(a, m, fields)
      BY <3>1, <3>2 DEF PositionRead
    <3>5. a \in Nat /\ Amount(s)' = a
      BY <1>1, <2>1, AmountIsNat DEF Amount, Held, InPosition, Placed, SymbolOf
    <3>6. Resting' = {}
      BY <2>1, <2>2 DEF Resting, Placed
    <3> HIDE DEF a, m
    <3> QED  BY <3>3, <3>4, <3>5, <3>6 DEF Steady
  <2>5. OfRun' = {}
    <3>1. Len(entries) = firstOfRun
      BY <1>1, <2>1 DEF Booked, Counted
    <3> QED  BY <1>1, <2>1, <3>1 DEF OfRun
  <2> QED  BY <1>3, <2>1, <2>4, <2>5
<1>9. ASSUME NEW c \in Candidates, AcceptCandidate(c) PROVE Capped'
  <2>1. /\ pc = "decide" /\ pc' = "submit" /\ UNCHANGED <<entries, seen, account, firstOfRun>>
        /\ routed' = OrderOf(c) /\ Allocated(c)
    BY <1>9 DEF AcceptCandidate, Undecided
  <2>2. /\ OpenSeen' = OpenSeen /\ OfRun' = OfRun /\ UsedNotional' = UsedNotional
    BY <2>1 DEF OpenSeen, OfRun, UsedNotional
  <2>3. \A s \in OpenSeen : Steady(s)
    BY <1>2, <2>1 DEF During
  <2>4. \A s \in OpenSeen' : Steady(s)'
    <3>1. \A s \in OpenSeen : Steady(s)'
      BY <2>1, <2>3 DEF Steady, Amount, Held, InPosition, Resting, Placed, SymbolOf
    <3> QED  BY <2>2, <3>1
  <2>5. \A n \in OfRun' : Small(n)'
    <3>1. \A n \in OfRun : Small(n)
      BY <1>2, <2>1 DEF During
    <3> QED  BY <2>1, <2>2, <3>1 DEF Sized, NotionalOf
  <2>6. Next1'
    <3> DEFINE q == Quantity(c, account, UsedNotional)
    <3>1. account \in Nat /\ UsedNotional \in Nat /\ Proposes(c)
      BY <1>1, ReadIsNat, CandidatesPropose
    <3>2. /\ 10000 * (q * c.entry) <= NotionalOf(account, PerPositionPercent)
          /\ 10000 * (UsedNotional + q * c.entry) <= NotionalOf(account, PortfolioPercent)
      BY <2>1, <3>1, AcceptedOrderFits DEF Allocated
    <3>3. routed'.quantity = q /\ routed'.candidate = c
      BY <2>1 DEF OrderOf
    <3>4. Sized(routed)' = q * c.entry
      BY <3>3 DEF Sized
    <3> HIDE DEF q
    <3> QED  BY <2>1, <2>2, <3>2, <3>4 DEF NotionalOf
  <2> QED  BY <1>3, <2>4, <2>5, <2>6
<1>10. CASE RunPlaces
  <2>1. pc = "submit" /\ PlaceRouted /\ pc' \in {"persist", "idle"}
    BY <1>10 DEF RunPlaces, PlaceRouted
  <2>2. CASE pc' = "idle"
    BY <1>3, <2>2 DEF During
  <2>3. CASE pc' = "persist"
    <3>1. UNCHANGED <<account, seen, firstOfRun>>
      BY <1>10, <2>3 DEF RunPlaces
    <3>2. OpenSeen' = OpenSeen
      BY <3>1 DEF OpenSeen
    <3>3. /\ Placed' = Placed \cup {Len(entries')} /\ Len(entries') = Len(entries) + 1
          /\ \A n \in Placed : entries'[n] = entries[n]
          /\ entries'[Len(entries')].order = routed
      BY <1>1, <2>1, PlacedIsAdded
    <3>4. ASSUME NEW s \in OpenSeen PROVE Steady(s)'
      <4>1. Steady(s)
        BY <1>2, <2>1 DEF During
      <4>2. /\ Amount(s)' <= Amount(s) /\ Amount(s)' \in Nat
            /\ Amount(s) \in Nat /\ seen[s].amount \in Nat
        BY <1>1, <1>4, <2>1, <4>1, AmountShrinks, AmountIsNat DEF Steady, TypeOK, Positions
      <4>3. Amount(s)' <= seen'[s].amount
        BY <3>1, <4>1, <4>2 DEF Steady
      <4>4. s # routed.candidate.symbol
        BY <2>1 DEF OneEach
      <4>5. \A n \in Resting' : SymbolOf(n)' # s
        <5> SUFFICES ASSUME NEW n \in Resting' PROVE SymbolOf(n)' # s
          OBVIOUS
        <5>1. n \in Placed' /\ entries'[n].left > 0
          BY DEF Resting
        <5>2. CASE n \in Placed
          <6>1. entries'[n] = entries[n] /\ SymbolOf(n)' = SymbolOf(n) /\ n \in Resting
            BY <3>3, <5>1, <5>2 DEF SymbolOf, Resting
          <6> QED  BY <4>1, <6>1 DEF Steady
        <5>3. CASE n \notin Placed
          BY <1>1, <2>1, <4>4, <5>1, <5>3, PlacedLive
        <5> QED  BY <5>2, <5>3
      <4> QED  BY <3>1, <4>1, <4>3, <4>5 DEF Steady
    <3>5. ASSUME NEW n \in OfRun' PROVE Small(n)'
      <4>1. NotionalOf(account, PerPositionPercent)' = NotionalOf(account, PerPositionPercent)
        BY <3>1 DEF NotionalOf
      <4>2. CASE n = Len(entries')
        <5>1. Sized(entries[n].order)' = Sized(routed)
          BY <3>3, <4>2 DEF Sized
        <5> QED  BY <1>2, <2>1, <4>1, <5>1
      <4>3. CASE n # Len(entries')
        <5>1. n \in OfRun /\ n \in Placed
          BY <1>1, <3>1, <3>3, <4>3 DEF OfRun
        <5>2. Sized(entries[n].order)' = Sized(entries[n].order)
          BY <3>3, <5>1 DEF Sized
        <5> QED  BY <1>2, <2>1, <4>1, <5>1, <5>2 DEF During
      <4> QED  BY <4>2, <4>3
    <3> QED  BY <1>3, <2>3, <3>2, <3>4, <3>5
  <2> QED  BY <2>1, <2>2, <2>3
<1> QED
  BY <1>1, <1>6, <1>7, <1>8, <1>9, <1>10, StepKinds

LEMMA CappedInit == Init => Capped
BY DEF Init, Capped, During

\* What is open of the positions read comes to no more than they were counted for.
LEMMA OpenNowIsCounted ==
    ASSUME TypeOK, \A s \in OpenSeen : /\ Amount(s) <= seen[s].amount
                                       /\ seen[s].notional = seen[s].amount * seen[s].mark
    PROVE  OpenNow \in Nat /\ OpenNow <= UsedNotional
<1> DEFINE now == [s \in OpenSeen |-> Amount(s) * seen[s].mark]
           then == [s \in OpenSeen |-> seen[s].notional]
<1>1. OpenSeen \subseteq Symbols /\ IsFiniteSet(OpenSeen)
  BY SymbolsAreFinite DEF OpenSeen
<1>2. ASSUME NEW s \in OpenSeen
      PROVE  now[s] \in Nat /\ then[s] \in Nat /\ now[s] <= then[s]
  <2> DEFINE a == Amount(s)
             b == seen[s].amount
             m == seen[s].mark
  <2>1. a \in Nat /\ b \in Nat /\ m \in Nat /\ seen[s].notional \in Nat
    BY <1>1, AmountIsNat DEF TypeOK, Positions
  <2>2. a <= b /\ seen[s].notional = b * m
    OBVIOUS
  <2>3. now[s] = a * m /\ then[s] = seen[s].notional
    OBVIOUS
  <2> HIDE DEF a, b, m, now, then
  <2>4. a * m \in Nat /\ a * m <= b * m
    BY <2>1, <2>2
  <2> QED  BY <2>1, <2>2, <2>3, <2>4
<1>3. OpenNow = SumFunctionOnSet(now, OpenSeen) /\ UsedNotional = SumFunctionOnSet(then, OpenSeen)
  BY DEF OpenNow, UsedNotional
<1> HIDE DEF now, then
<1>4. SumFunctionOnSet(now, OpenSeen) \in Nat
  BY <1>1, <1>2, FunctionSumIsNat
<1>5. SumFunctionOnSet(now, OpenSeen) <= SumFunctionOnSet(then, OpenSeen)
  BY <1>1, <1>2, FunctionSumOrdered
<1> QED  BY <1>3, <1>4, <1>5

\* While no run starts on resting entries, and the answers carry a notional or a mark
\* price: at every order of a run, the positions it has read, its earlier orders and this
\* one keep within the portfolio's margin cap, but for the margin of one position for each
\* earlier order (sleeve_b_testnet_loop.py:82-100, sleeve_b_allocator.py:75-84, 134-141).
THEOREM PortfolioCapHolds ==
    ASSUME ~StartsWhileResting, {} \notin AnswerFields
    PROVE  Spec => []PortfolioCapKept
<1>1. Booked /\ Capped => PortfolioCapKept
  <2> SUFFICES ASSUME Booked, Capped, pc = "submit"
               PROVE  10000 * (OpenNow + SizedByRun + Sized(routed))
                          <= NotionalOf(account, PortfolioPercent)
                                 + Cardinality(OfRun) * NotionalOf(account, PerPositionPercent)
    BY DEF PortfolioCapKept
  <2> DEFINE sizes == [n \in OfRun |-> Sized(entries[n].order)]
             one == NotionalOf(account, PerPositionPercent)
             all == NotionalOf(account, PortfolioPercent)
             new == Sized(routed)
  <2>1. TypeOK /\ account \in Nat /\ UsedNotional \in Nat
    BY ReadIsNat DEF Booked
  <2>2. one \in Nat /\ all \in Nat
    BY <2>1, BudgetsAreNat
  <2>3. OpenNow \in Nat /\ OpenNow <= UsedNotional
    BY <2>1, OpenNowIsCounted DEF Capped, During
  <2>4. new \in Nat /\ 10000 * (UsedNotional + new) <= all
    <3>1. routed \in Orders
      BY <2>1 DEF TypeOK
    <3> DEFINE q == routed.quantity
               e == routed.candidate.entry
    <3>2. q \in Nat /\ e \in Nat
      BY <3>1, CandidatesPropose DEF Orders, Proposes
    <3>3. q * e \in Nat
      <4> HIDE DEF q, e
      <4> QED  BY <3>2
    <3> QED  BY <3>3 DEF Sized, Capped
  <2>5. OfRun \subseteq Placed /\ IsFiniteSet(OfRun)
    <3>1. OfRun \subseteq Placed
      BY <2>1, PlacedIsFinite DEF OfRun, TypeOK
    <3> QED  BY <2>1, <3>1, PlacedIsFinite
  <2>6. \A n \in OfRun : sizes[n] \in Nat /\ 10000 * sizes[n] <= one
    BY <2>1, <2>5, PlacedIsFinite DEF Capped, During
  <2>7. SizedByRun = SumFunctionOnSet(sizes, OfRun) /\ Cardinality(OfRun) \in Nat
    BY <2>5, FS_CardinalityType DEF SizedByRun
  <2> HIDE DEF sizes, one, all, new
  <2>8. SumFunctionOnSet(sizes, OfRun) \in Nat
    BY <2>5, <2>6, FunctionSumIsNat
  <2>9. 10000 * SumFunctionOnSet(sizes, OfRun) <= Cardinality(OfRun) * one
    BY <2>2, <2>5, <2>6, FunctionSumBounded
  <2>10. Cardinality(OfRun) * one \in Nat
    BY <2>2, <2>7
  <2>11. \A a, b, u, v, x, y \in Nat :
            a <= u /\ 10000 * (u + v) <= x /\ 10000 * b <= y => 10000 * (a + b + v) <= x + y
    OBVIOUS
  <2>12. 10000 * (OpenNow + SizedByRun + new) <= all + Cardinality(OfRun) * one
    BY <2>1, <2>2, <2>3, <2>4, <2>7, <2>8, <2>9, <2>10, <2>11
  <2> QED  BY <2>12 DEF all, one, new
<1> DEFINE IInv == Booked /\ OneEach /\ Capped
<1>2. Init => IInv
  BY BookedInit, OneEachInit, CappedInit
<1>3. IInv /\ [Next]_vars => IInv'
  <2>1. Booked => TypeOK
    BY DEF Booked
  <2> QED  BY <2>1, BookedStep, OneEachStep, CappedStep
<1>4. IInv => PortfolioCapKept
  BY <1>1
<1> HIDE DEF IInv
<1> QED  BY <1>2, <1>3, <1>4, PTL DEF Spec

-----------------------------------------------------------------------------
(***************************************************************************)
(* How many positions there are.                                           *)
(***************************************************************************)
LiveSymbols == {s \in Symbols : \E n \in Live : SymbolOf(n) = s}
RunSymbols == {s \in Symbols : \E n \in OfRun : SymbolOf(n) = s}

\* Whatever is live after the positions were read was seen or is the run's, and the run
\* places an order only if it saw fewer positions than the limit.
Roomy ==
    /\ LiveSymbols # {} => Cardinality(LiveSymbols) < MaxPositions + MaxNewOrders
    /\ Len(entries) > firstOfRun =>
           Cardinality(LiveSymbols) < MaxPositions + (Len(entries) - firstOfRun)
    /\ During => /\ LiveSymbols \subseteq OpenSeen \cup RunSymbols
                 /\ OfRun # {} => HasRoom(OpenSeen)
    /\ pc = "submit" => HasRoom(OpenSeen)

LEMMA RoomyInit == Init => Roomy
BY DEF Init, Roomy, LiveSymbols, Live, Placed, During

\* The symbols of n entries in a row are n at most.
LEMMA RunSymbolsBounded ==
    ASSUME TypeOK PROVE Cardinality(RunSymbols) <= Len(entries) - firstOfRun
<1>1. Len(entries) \in Nat /\ firstOfRun \in Nat /\ firstOfRun <= Len(entries)
  BY PlacedIsFinite DEF TypeOK
<1> DEFINE length == Len(entries) - firstOfRun
           known == {n \in 1..length : SymbolOf(firstOfRun + n) \in Symbols}
           f == [n \in known |-> SymbolOf(firstOfRun + n)]
<1>2. f \in Surjection(known, RunSymbols)
  <2>1. \A n \in known : f[n] \in RunSymbols
    <3> SUFFICES ASSUME NEW n \in known PROVE f[n] \in RunSymbols
      OBVIOUS
    <3>1. firstOfRun + n \in OfRun
      BY <1>1 DEF OfRun
    <3> QED  BY <3>1 DEF RunSymbols
  <2>2. ASSUME NEW s \in RunSymbols PROVE \E n \in known : f[n] = s
    <3>1. PICK m \in OfRun : SymbolOf(m) = s
      BY DEF RunSymbols
    <3>2. m - firstOfRun \in 1..length /\ firstOfRun + (m - firstOfRun) = m
      BY <1>1 DEF OfRun
    <3>3. s \in Symbols
      BY DEF RunSymbols
    <3>4. m - firstOfRun \in known
      BY <3>1, <3>2, <3>3
    <3> QED  BY <3>1, <3>2, <3>4
  <2> HIDE DEF known
  <2> QED  BY <2>1, <2>2 DEF Surjection
<1>3. IsFiniteSet(known) /\ Cardinality(known) <= length
  <2>1. IsFiniteSet(1..length) /\ Cardinality(1..length) = length
    <3>1. \A k \in Nat : IsFiniteSet(1..k) /\ Cardinality(1..k) = k
      BY FS_Interval
    <3>2. length \in Nat
      BY <1>1
    <3> HIDE DEF length
    <3> QED  BY <3>1, <3>2
  <2>2. known \subseteq 1..length
    OBVIOUS
  <2> HIDE DEF known
  <2>3. Cardinality(known) <= Cardinality(1..length)
    BY <2>1, <2>2, FS_Subset
  <2> QED  BY <2>1, <2>2, <2>3, FS_Subset
<1>4. Cardinality(RunSymbols) <= Cardinality(known)
  <2> HIDE DEF known, f
  <2> QED  BY <1>2, <1>3, FS_Surjection
<1>5. Cardinality(RunSymbols) \in Nat /\ Cardinality(known) \in Nat /\ length \in Int
  <2>1. IsFiniteSet(RunSymbols)
    BY SymbolsAreFinite DEF RunSymbols
  <2> HIDE DEF known
  <2> QED  BY <1>1, <1>3, <2>1, FS_CardinalityType
<1> HIDE DEF known
<1> QED  BY <1>3, <1>4, <1>5

LEMMA RoomyStep ==
    ASSUME ~StartsWhileResting
    PROVE  Booked /\ Booked' /\ OneEach /\ Roomy /\ [Next]_vars => Roomy'
<1> SUFFICES ASSUME Booked, Booked', OneEach, Roomy, [Next]_vars PROVE Roomy'
  OBVIOUS
<1> DEFINE Few == LiveSymbols # {} => Cardinality(LiveSymbols) < MaxPositions + MaxNewOrders
           FewOfRun == Len(entries) > firstOfRun =>
                           Cardinality(LiveSymbols)
                               < MaxPositions + (Len(entries) - firstOfRun)
           Known == LiveSymbols \subseteq OpenSeen \cup RunSymbols
           RunHadRoom == OfRun # {} => HasRoom(OpenSeen)
<1>1. /\ Few /\ FewOfRun
      /\ During => Known /\ RunHadRoom
      /\ pc = "submit" => HasRoom(OpenSeen)
  BY DEF Roomy
<1>2. ASSUME Few', FewOfRun', During' => Known' /\ RunHadRoom', pc' = "submit" => HasRoom(OpenSeen)'
      PROVE  Roomy'
  BY <1>2 DEF Roomy
<1>3. /\ TypeOK /\ Len(entries) \in Nat /\ firstOfRun \in Nat /\ firstOfRun <= Len(entries)
      /\ Placed = 1..Len(entries) /\ MaxPositions \in Nat /\ MaxNewOrders \in Nat
  BY PlacedIsFinite, LoopAssumption, AllocatorAssumption DEF Booked, TypeOK
<1>4. ASSUME EntriesSettle
      PROVE  /\ LiveSymbols' \subseteq LiveSymbols /\ Few'
             /\ UNCHANGED firstOfRun => FewOfRun'
  <2>1. LiveSymbols' \subseteq LiveSymbols
    BY <1>3, <1>4, SettledLive DEF LiveSymbols
  <2>2. IsFiniteSet(LiveSymbols)
    BY SymbolsAreFinite DEF LiveSymbols
  <2>3. /\ Cardinality(LiveSymbols') <= Cardinality(LiveSymbols)
        /\ Cardinality(LiveSymbols) \in Nat /\ Cardinality(LiveSymbols') \in Nat
    BY <2>1, <2>2, FS_Subset, FS_CardinalityType
  <2>4. LiveSymbols' # {} => LiveSymbols # {}
    BY <2>1
  <2>5. Len(entries') = Len(entries)
    BY <1>4 DEF EntriesSettle
  <2>6. Few'
    BY <1>1, <1>3, <2>1, <2>3, <2>4
  <2>7. ASSUME UNCHANGED firstOfRun PROVE FewOfRun'
    BY <1>1, <1>3, <2>3, <2>5, <2>7
  <2> QED  BY <2>1, <2>6, <2>7
<1>5. UNCHANGED entries => EntriesSettle
  <2>1. entries \in Seq(Entries) /\ \A n \in Placed : entries[n].left \in Nat
                                                    /\ entries[n].held \in Nat
    BY <1>3, PlacedIsFinite
  <2> QED  BY <2>1 DEF EntriesSettle, Placed
<1> HIDE DEF Few, FewOfRun, Known, RunHadRoom
<1>6. CASE RunKeeps
  <2>1. EntriesSettle /\ UNCHANGED firstOfRun
    BY <1>6 DEF RunKeeps
  <2>2. ASSUME During'
        PROVE  During /\ OpenSeen' = OpenSeen /\ OfRun' = OfRun /\ RunSymbols' = RunSymbols
    <3>1. During /\ seen' = seen /\ firstOfRun' = firstOfRun
      BY <1>6, <2>2 DEF RunKeeps
    <3>2. OpenSeen' = OpenSeen /\ OfRun' = OfRun /\ OfRun \subseteq Placed
      BY <1>3, <2>1, <3>1 DEF OpenSeen, OfRun, EntriesSettle
    <3>3. RunSymbols' = RunSymbols
      BY <1>3, <2>1, <3>2, SettledLive DEF RunSymbols
    <3> QED  BY <3>1, <3>2, <3>3
  <2>3. During' => Known' /\ RunHadRoom'
    <3> SUFFICES ASSUME During' PROVE Known' /\ RunHadRoom'
      OBVIOUS
    <3>1. Known /\ RunHadRoom
      BY <1>1, <2>2
    <3>2. LiveSymbols' \subseteq LiveSymbols
      BY <1>4, <2>1
    <3> QED  BY <2>2, <3>1, <3>2 DEF Known, RunHadRoom, HasRoom
  <2>4. pc' = "submit" => HasRoom(OpenSeen)'
    BY <1>1, <1>6, <2>2 DEF RunKeeps, During, HasRoom
  <2> QED  BY <1>2, <1>4, <2>1, <2>3, <2>4
<1>7. CASE StartRun
  <2>1. pc' = "positions" /\ UNCHANGED entries /\ firstOfRun' = Len(entries')
    BY <1>7 DEF StartRun
  <2>2. FewOfRun'
    BY <1>3, <2>1 DEF FewOfRun
  <2> QED  BY <1>2, <1>4, <1>5, <2>1, <2>2 DEF During
<1>8. CASE ReadPositions
  <2>1. /\ pc = "positions" /\ pc' = "decide" /\ UNCHANGED <<entries, firstOfRun>>
        /\ Resting = {}
    BY <1>8 DEF ReadPositions, OneEach
  <2>2. \A n \in Live : SymbolOf(n) \in OpenSeen'
    BY <1>3, <1>8, <2>1, ReadSeesLive
  <2>3. LiveSymbols' \subseteq OpenSeen'
    BY <2>1, <2>2 DEF LiveSymbols, Live, Placed, SymbolOf
  <2>4. OfRun' = {}
    <3>1. Len(entries) = firstOfRun
      BY <1>3, <2>1 DEF Booked, Counted
    <3> QED  BY <1>3, <2>1, <3>1 DEF OfRun
  <2>5. Known' /\ RunHadRoom'
    BY <2>3, <2>4 DEF Known, RunHadRoom
  <2> QED  BY <1>2, <1>4, <1>5, <2>1, <2>5
<1>9. ASSUME NEW c \in Candidates, AcceptCandidate(c) PROVE Roomy'
  <2>1. /\ pc = "decide" /\ UNCHANGED <<entries, seen, firstOfRun>>
        /\ HasRoom(OpenSeen)
    BY <1>9 DEF AcceptCandidate, Undecided, Allocated, Accepts
  <2>2. OpenSeen' = OpenSeen /\ OfRun' = OfRun /\ RunSymbols' = RunSymbols
        /\ LiveSymbols' = LiveSymbols
    BY <2>1 DEF OpenSeen, OfRun, RunSymbols, LiveSymbols, Live, Placed, SymbolOf
  <2>3. Known /\ RunHadRoom
    BY <1>1, <2>1 DEF During
  <2>4. Known' /\ RunHadRoom' /\ HasRoom(OpenSeen)'
    BY <2>1, <2>2, <2>3 DEF Known, RunHadRoom, HasRoom
  <2> QED  BY <1>2, <1>4, <1>5, <2>1, <2>4
<1>10. CASE RunPlaces
  <2>1. pc = "submit" /\ PlaceRouted /\ pc' \in {"persist", "idle"}
    BY <1>10 DEF RunPlaces, PlaceRouted
  <2>2. HasRoom(OpenSeen) /\ Known /\ OpenSeen \subseteq Symbols
    BY <1>1, <2>1 DEF During, OpenSeen
  <2>3. firstOfRun' = firstOfRun
    BY <1>10 DEF RunPlaces
  <2>4. /\ Len(entries') = Len(entries) + 1
        /\ Placed' = Placed \cup {Len(entries')} /\ Len(entries') \notin Placed
    BY <1>3, <2>1, PlacedIsAdded
  <2>5. OfRun' = OfRun \cup (Placed' \ Placed) /\ OfRun \subseteq Placed
    BY <1>3, <2>3, <2>4 DEF OfRun
  <2>6. /\ Live' \subseteq Live \cup (Placed' \ Placed) /\ Live \subseteq Placed
        /\ \A n \in Placed : SymbolOf(n)' = SymbolOf(n)
    BY <1>3, <2>1, PlacedLive
  <2>7. LiveSymbols' \subseteq LiveSymbols \cup RunSymbols' /\ RunSymbols \subseteq RunSymbols'
    BY <2>5, <2>6 DEF LiveSymbols, RunSymbols
  <2>8. LiveSymbols' \subseteq OpenSeen \cup RunSymbols'
    BY <2>2, <2>7 DEF Known
  <2>9. /\ Cardinality(RunSymbols') <= MaxNewOrders /\ Cardinality(RunSymbols') \in Nat
        /\ Cardinality(RunSymbols') <= Len(entries') - firstOfRun'
        /\ Len(entries') - firstOfRun' \in Nat
        /\ IsFiniteSet(RunSymbols')
    <3>1. IsFiniteSet(RunSymbols')
      <4>1. RunSymbols' \subseteq Symbols
        BY DEF RunSymbols
      <4> QED  BY <4>1, SymbolsAreFinite
    <3>2. RunSymbols' \subseteq RunSymbols \cup {routed.candidate.symbol}
      BY <1>3, <2>1, <2>5, <2>6, PlacedLive DEF RunSymbols
    <3>3. IsFiniteSet(RunSymbols) /\ Cardinality(RunSymbols) \in Nat
      <4>1. IsFiniteSet(RunSymbols)
        BY SymbolsAreFinite DEF RunSymbols
      <4> QED  BY <4>1, FS_CardinalityType
    <3> DEFINE more == RunSymbols \cup {routed.candidate.symbol}
    <3>4. IsFiniteSet(more) /\ Cardinality(more) <= Cardinality(RunSymbols) + 1
      BY <3>3, FS_AddElement
    <3>5. /\ Cardinality(RunSymbols') <= Cardinality(more)
          /\ Cardinality(RunSymbols') \in Nat /\ Cardinality(more) \in Nat
      <4> HIDE DEF more
      <4> QED  BY <3>1, <3>2, <3>4, FS_Subset, FS_CardinalityType DEF more
    <3>6. Cardinality(RunSymbols) <= Len(entries) - firstOfRun
      BY <1>3, RunSymbolsBounded
    <3>7. Len(entries') - firstOfRun' <= MaxNewOrders
      BY DEF Booked, Counted
    <3> HIDE DEF more
    <3> QED  BY <1>3, <2>3, <2>4, <3>1, <3>3, <3>4, <3>5, <3>6, <3>7
  <2>10. /\ IsFiniteSet(OpenSeen) /\ Cardinality(OpenSeen) \in Nat
         /\ Cardinality(OpenSeen) < MaxPositions
    <3>1. IsFiniteSet(OpenSeen)
      BY <2>2, SymbolsAreFinite
    <3> QED  BY <2>2, <3>1, FS_CardinalityType DEF HasRoom
  <2>11. Few' /\ FewOfRun'
    <3> DEFINE A == OpenSeen
               B == RunSymbols'
               L == LiveSymbols'
               placed == Len(entries') - firstOfRun'
    <3>1. L \subseteq A \cup B
      BY <2>8
    <3>2. /\ IsFiniteSet(A) /\ IsFiniteSet(B)
          /\ Cardinality(A) \in Nat /\ Cardinality(B) \in Nat
          /\ Cardinality(A) < MaxPositions /\ Cardinality(B) <= MaxNewOrders
          /\ Cardinality(B) <= placed /\ placed \in Nat
      BY <2>9, <2>10
    <3>3. /\ Cardinality(L) < MaxPositions + MaxNewOrders
          /\ Cardinality(L) < MaxPositions + placed
      <4> HIDE DEF A, B, L, placed
      <4>1. IsFiniteSet(A \cap B)
        BY <3>2, FS_Subset
      <4>2. /\ IsFiniteSet(A \cup B)
            /\ Cardinality(A \cup B) = Cardinality(A) + Cardinality(B) - Cardinality(A \cap B)
        BY <3>2, FS_Union
      <4>3. Cardinality(A \cap B) \in Nat
        BY <4>1, FS_CardinalityType
      <4>4. IsFiniteSet(L) /\ Cardinality(L) <= Cardinality(A \cup B)
        BY <3>1, <4>2, FS_Subset
      <4>5. Cardinality(L) \in Nat
        BY <4>4, FS_CardinalityType
      <4> QED  BY <1>3, <3>2, <4>2, <4>3, <4>4, <4>5
    <3> QED  BY <3>3 DEF Few, FewOfRun
  <2>12. pc' = "persist" => Known' /\ RunHadRoom'
    <3> SUFFICES ASSUME pc' = "persist" PROVE Known' /\ RunHadRoom'
      OBVIOUS
    <3>1. seen' = seen
      BY <1>10 DEF RunPlaces
    <3>2. OpenSeen' = OpenSeen
      BY <3>1 DEF OpenSeen
    <3> QED  BY <2>2, <2>8, <3>2 DEF Known, RunHadRoom, HasRoom
  <2> QED  BY <1>2, <2>1, <2>11, <2>12 DEF During
<1> QED
  BY <1>3, <1>6, <1>7, <1>8, <1>9, <1>10, StepKinds

\* While no run starts on resting entries, the orders of one run after its first, the last
\* one that placed any, are all that can take the open positions over
\* max_concurrent_positions; with the default of one order per run, nothing can
\* (docs/sleeve_b_auto_testnet_loop.md:36, sleeve_b_allocator.py:71).
THEOREM OvershootIsBounded ==
    ASSUME ~StartsWhileResting
    PROVE  /\ Spec => []OvershootBounded
           /\ MaxNewOrders <= 1 => (Spec => []PositionsBounded)
<1>1. Booked /\ OneEach /\ Roomy => OvershootBounded
  <2> SUFFICES ASSUME Booked, Roomy PROVE OvershootBounded
    OBVIOUS
  <2>1. OpenPositions \subseteq LiveSymbols
    BY DEF OpenPositions, InPosition, LiveSymbols, Live
  <2>2. IsFiniteSet(LiveSymbols)
    BY SymbolsAreFinite DEF LiveSymbols
  <2>3. /\ Cardinality(OpenPositions) <= Cardinality(LiveSymbols)
        /\ Cardinality(OpenPositions) \in Nat /\ Cardinality(LiveSymbols) \in Nat
    BY <2>1, <2>2, FS_Subset, FS_CardinalityType
  <2>4. MaxPositions \in Nat /\ MaxNewOrders \in Nat
    BY LoopAssumption, AllocatorAssumption
  <2>5. ASSUME OpenPositions # {}
        PROVE  Cardinality(OpenPositions) < MaxPositions + MaxNewOrders
    BY <2>1, <2>3, <2>4, <2>5 DEF Roomy
  <2>6. ASSUME OfRun # {}
        PROVE  Cardinality(OpenPositions) < MaxPositions + Cardinality(OfRun)
    <3>1. Len(entries) \in Nat /\ firstOfRun \in Nat /\ firstOfRun <= Len(entries)
      BY PlacedIsFinite DEF Booked, TypeOK
    <3>2. Cardinality(OfRun) = Len(entries) - firstOfRun
      <4>1. \A a, b \in Nat : a <= b + 1 => Cardinality(a..b) = b - a + 1
        BY FS_Interval
      <4> QED  BY <3>1, <4>1 DEF OfRun
    <3>3. Len(entries) > firstOfRun
      BY <2>6, <3>1 DEF OfRun
    <3> QED  BY <2>3, <2>4, <3>1, <3>2, <3>3 DEF Roomy
  <2> QED  BY <2>5, <2>6 DEF OvershootBounded
<1>2. MaxNewOrders <= 1 => (OvershootBounded => PositionsBounded)
  <2> SUFFICES ASSUME MaxNewOrders <= 1, OvershootBounded
               PROVE  Cardinality(OpenPositions) <= MaxPositions
    BY DEF PositionsBounded
  <2>1. Cardinality(OpenPositions) \in Nat /\ MaxPositions \in Nat /\ MaxNewOrders \in Nat
    <3>1. IsFiniteSet(OpenPositions)
      BY SymbolsAreFinite DEF OpenPositions
    <3> QED  BY <3>1, FS_CardinalityType, LoopAssumption, AllocatorAssumption
  <2>2. CASE OpenPositions = {}
    BY <2>1, <2>2, FS_EmptySet
  <2>3. CASE OpenPositions # {}
    BY <2>1, <2>3 DEF OvershootBounded
  <2> QED  BY <2>2, <2>3
<1> DEFINE IInv == Booked /\ OneEach /\ Roomy
           AtMostOne == MaxNewOrders <= 1
<1>3. Init => IInv
  BY BookedInit, OneEachInit, RoomyInit
<1>4. IInv /\ [Next]_vars => IInv'
  <2> SUFFICES ASSUME IInv, [Next]_vars PROVE IInv'
    OBVIOUS
  <2>1. TypeOK /\ Booked'
    BY BookedStep DEF Booked
  <2> QED  BY <2>1, OneEachStep, RoomyStep
<1>5. IInv => OvershootBounded
  BY <1>1
<1> HIDE DEF IInv
<1>6. Spec => []OvershootBounded
  BY <1>3, <1>4, <1>5, PTL DEF Spec
<1>7. ASSUME MaxNewOrders <= 1 PROVE Spec => []PositionsBounded
  <2>1. OvershootBounded => PositionsBounded
    BY <1>2, <1>7
  <2> QED  BY <1>6, <2>1, PTL
<1> QED  BY <1>6, <1>7

=============================================================================
