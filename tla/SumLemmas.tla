----------------------------- MODULE SumLemmas -----------------------------
(***************************************************************************)
(* Facts about SumFunctionOnSet of the community module Functions, which   *)
(* the ledger and the settlement pipeline add up their books with.         *)
(*                                                                         *)
(* The sum is a recursive function over the subsets of a set.  Induction is*)
(* stated over sets of naturals, so that every lemma is first order.       *)
(***************************************************************************)
EXTENDS FiniteSetsExt, FiniteSetTheorems, WellFoundedInduction, TLAPS

----------------------------------------------------------------------------
(* Induction.                                                              *)

LEMMA LeastNatural ==
    ASSUME NEW T \in SUBSET Nat, T # {}
    PROVE  \E n \in T : \A m \in T : n <= m
<1>1. PICK n \in T : \A m \in T : ~(<<m, n>> \in OpToRel(<, Nat))
  BY NatLessThanWellFounded, WFMin
<1>2. \A m \in T : ~(m < n)
  BY <1>1 DEF OpToRel
<1> QED BY <1>2

LEMMA NaturalsFrom ==
    ASSUME NEW T, 0 \in T, \A n \in Nat : n \in T => n + 1 \in T
    PROVE  Nat \subseteq T
<1> SUFFICES ASSUME Nat \ T # {} PROVE FALSE
  OBVIOUS
<1>1. PICK n \in Nat \ T : \A m \in Nat \ T : n <= m
  BY LeastNatural
<1>2. n # 0 /\ n - 1 \in Nat
  BY <1>1
<1>3. n - 1 \in T
  BY <1>1, <1>2
<1>4. (n - 1) + 1 \in T
  BY <1>2, <1>3
<1> QED BY <1>1, <1>4

(* To prove something of all finite subsets of S, prove it of those with   *)
(* n elements for every n.                                                 *)
LEMMA SubsetSize ==
    ASSUME NEW S, IsFiniteSet(S), NEW s \in SUBSET S
    PROVE  /\ IsFiniteSet(s) /\ Cardinality(s) \in Nat
           /\ Cardinality(s) <= Cardinality(S) /\ Cardinality(S) \in Nat
           /\ Cardinality(s) = 0 <=> s = {}
           /\ \A x \in s : Cardinality(s \ {x}) = Cardinality(s) - 1
BY FS_Subset, FS_CardinalityType, FS_EmptySet, FS_RemoveElement

----------------------------------------------------------------------------
(* The recursion.                                                          *)

First(s) == CHOOSE x \in s : TRUE

Unfold(f, g, s) == IF s = {} THEN 0 ELSE f[First(s)] + g[s \ {First(s)}]

Partial(f, S) == CHOOSE g : g = [s \in SUBSET S |-> Unfold(f, g, s)]

LEMMA SumIsPartial ==
    ASSUME NEW f, NEW S
    PROVE  SumFunctionOnSet(f, S) = Partial(f, S)[S]
BY DEF SumFunctionOnSet, FoldFunctionOnSet, MapThenFoldSet, Partial, Unfold, First

(* Such a function exists: built up by the size of the subsets.            *)
LEMMA PartialExists ==
    ASSUME NEW f, NEW S, IsFiniteSet(S)
    PROVE  Partial(f, S) = [s \in SUBSET S |-> Unfold(f, Partial(f, S), s)]
<1> DEFINE Small(n) == {s \in SUBSET S : Cardinality(s) <= n}
           Good == {n \in Nat : \E g : g = [s \in Small(n) |-> Unfold(f, g, s)]}
<1>1. 0 \in Good
  <2> DEFINE g == [s \in Small(0) |-> 0]
  <2>1. \A s \in Small(0) : s = {}
    BY SubsetSize
  <2>2. \A s \in Small(0) : 0 = Unfold(f, g, s)
    BY <2>1 DEF Unfold
  <2>3. g = [s \in Small(0) |-> Unfold(f, g, s)]
    BY <2>2
  <2> QED BY <2>3
<1>2. ASSUME NEW n \in Nat, n \in Good PROVE n + 1 \in Good
  <2>1. PICK g : g = [s \in Small(n) |-> Unfold(f, g, s)]
    BY <1>2
  <2> DEFINE h == [s \in Small(n + 1) |-> Unfold(f, g, s)]
  <2>2. ASSUME NEW s \in Small(n + 1)
        PROVE  Unfold(f, g, s) = Unfold(f, h, s)
    <3>1. CASE s = {}
      BY <3>1 DEF Unfold
    <3>2. CASE s # {}
      <4> DEFINE t == s \ {First(s)}
      <4>1. First(s) \in s
        BY <3>2 DEF First
      <4>2. t \in Small(n) /\ t \in Small(n + 1)
        BY <4>1, SubsetSize
      <4>3. h[t] = Unfold(f, g, t) /\ g[t] = Unfold(f, g, t)
        BY <2>1, <4>2
      <4> QED BY <3>2, <4>3 DEF Unfold
    <3> QED BY <3>1, <3>2
  <2>3. h = [s \in Small(n + 1) |-> Unfold(f, h, s)]
    BY <2>2
  <2> HIDE DEF h
  <2>4. \E g1 : g1 = [s \in Small(n + 1) |-> Unfold(f, g1, s)]
    BY <2>3
  <2> QED BY <2>4
<1> HIDE DEF Good
<1>3. Cardinality(S) \in Good
  BY <1>1, <1>2, NaturalsFrom, SubsetSize
<1>4. Small(Cardinality(S)) = SUBSET S
  BY SubsetSize
<1>5. \E g : g = [s \in SUBSET S |-> Unfold(f, g, s)]
  BY <1>3, <1>4 DEF Good
<1> QED BY <1>5 DEF Partial

LEMMA PartialAt ==
    ASSUME NEW f, NEW S, IsFiniteSet(S), NEW s \in SUBSET S
    PROVE  Partial(f, S)[s] = Unfold(f, Partial(f, S), s)
<1> DEFINE p == Partial(f, S)
<1>1. p = [t \in SUBSET S |-> Unfold(f, p, t)]
  BY PartialExists
<1> HIDE DEF p
<1>2. p[s] = Unfold(f, p, s)
  BY <1>1
<1> QED BY <1>2 DEF p

LEMMA PartialAgrees ==
    ASSUME NEW f, NEW S, IsFiniteSet(S), NEW T \in SUBSET S
    PROVE  \A s \in SUBSET T : Partial(f, T)[s] = Partial(f, S)[s]
<1> DEFINE p == Partial(f, T)
           q == Partial(f, S)
           Good == {n \in Nat : \A s \in SUBSET T : Cardinality(s) = n => p[s] = q[s]}
<1>0. IsFiniteSet(T)
  BY FS_Subset
<1>1. \A s \in SUBSET T : p[s] = Unfold(f, p, s) /\ q[s] = Unfold(f, q, s)
  BY <1>0, PartialAt
<1> HIDE DEF p, q
<1>2. 0 \in Good
  BY <1>0, <1>1, SubsetSize DEF Unfold
<1>3. ASSUME NEW n \in Nat, n \in Good PROVE n + 1 \in Good
  <2> SUFFICES ASSUME NEW s \in SUBSET T, Cardinality(s) = n + 1 PROVE p[s] = q[s]
    OBVIOUS
  <2> DEFINE t == s \ {First(s)}
  <2>1. s # {} /\ First(s) \in s
    BY <1>0, SubsetSize DEF First
  <2>2. t \in SUBSET T /\ Cardinality(t) = n
    BY <1>0, <2>1, SubsetSize
  <2>3. p[t] = q[t]
    BY <1>3, <2>2
  <2> QED BY <1>1, <2>1, <2>3 DEF Unfold
<1>4. Nat \subseteq Good
  <2> HIDE DEF Good
  <2> QED BY <1>2, <1>3, NaturalsFrom
<1>5. \A s \in SUBSET T : p[s] = q[s]
  BY <1>0, <1>4, SubsetSize
<1> QED BY <1>5 DEF p, q

LEMMA SumUnfolds ==
    ASSUME NEW f, NEW S, IsFiniteSet(S)
    PROVE  /\ S = {} => SumFunctionOnSet(f, S) = 0
           /\ S # {} => /\ First(S) \in S
                        /\ SumFunctionOnSet(f, S) =
                             f[First(S)] + SumFunctionOnSet(f, S \ {First(S)})
<1>1. SumFunctionOnSet(f, S) = Unfold(f, Partial(f, S), S)
  BY SumIsPartial, PartialAt
<1>2. S # {} => First(S) \in S
  BY DEF First
<1>3. Partial(f, S)[S \ {First(S)}] = SumFunctionOnSet(f, S \ {First(S)})
  <2>1. S \ {First(S)} \in SUBSET S
    OBVIOUS
  <2> QED BY <2>1, PartialAgrees, SumIsPartial
<1> QED BY <1>1, <1>2, <1>3 DEF Unfold

----------------------------------------------------------------------------
(* What a sum is worth.                                                    *)

LEMMA SumEmpty ==
    ASSUME NEW f
    PROVE  SumFunctionOnSet(f, {}) = 0
BY SumUnfolds, FS_EmptySet

LEMMA SumInteger ==
    ASSUME NEW f, NEW S, IsFiniteSet(S), \A x \in S : f[x] \in Int
    PROVE  SumFunctionOnSet(f, S) \in Int
<1> DEFINE Good == {n \in Nat : \A s \in SUBSET S :
                      Cardinality(s) = n => SumFunctionOnSet(f, s) \in Int}
<1>1. 0 \in Good
  BY SubsetSize, SumEmpty
<1>2. ASSUME NEW n \in Nat, n \in Good PROVE n + 1 \in Good
  <2> SUFFICES ASSUME NEW s \in SUBSET S, Cardinality(s) = n + 1
               PROVE  SumFunctionOnSet(f, s) \in Int
    OBVIOUS
  <2>1. IsFiniteSet(s) /\ s # {}
    BY SubsetSize
  <2>2. /\ First(s) \in s
        /\ SumFunctionOnSet(f, s) = f[First(s)] + SumFunctionOnSet(f, s \ {First(s)})
    BY <2>1, SumUnfolds
  <2>3. SumFunctionOnSet(f, s \ {First(s)}) \in Int
    BY <1>2, <2>2, SubsetSize
  <2> QED BY <2>2, <2>3
<1>3. Nat \subseteq Good
  <2> HIDE DEF Good
  <2> QED BY <1>1, <1>2, NaturalsFrom
<1> QED BY <1>3, SubsetSize

(* Any element may be taken first.                                         *)
LEMMA SumRemove ==
    ASSUME NEW f, NEW S, IsFiniteSet(S), \A x \in S : f[x] \in Int, NEW a \in S
    PROVE  SumFunctionOnSet(f, S) = f[a] + SumFunctionOnSet(f, S \ {a})
<1> DEFINE Total(s) == SumFunctionOnSet(f, s)
           Good == {n \in Nat : \A s \in SUBSET S : Cardinality(s) = n =>
                      \A x \in s : Total(s) = f[x] + Total(s \ {x})}
<1>0. \A s \in SUBSET S : Total(s) \in Int
  BY SumInteger, SubsetSize
<1>1. 0 \in Good
  BY SubsetSize
<1>2. ASSUME NEW n \in Nat, n \in Good PROVE n + 1 \in Good
  <2> SUFFICES ASSUME NEW s \in SUBSET S, Cardinality(s) = n + 1, NEW x \in s
               PROVE  Total(s) = f[x] + Total(s \ {x})
    OBVIOUS
  <2> DEFINE c == First(s)
  <2>1. IsFiniteSet(s) /\ s # {}
    BY SubsetSize
  <2>2. c \in s /\ Total(s) = f[c] + Total(s \ {c})
    BY <2>1, SumUnfolds
  <2> HIDE DEF Total, c
  <2>3. CASE x = c
    BY <2>2, <2>3
  <2>4. CASE x # c
    <3>1. x \in s \ {c} /\ c \in s \ {x}
      BY <2>2, <2>4
    <3>2. Cardinality(s \ {c}) = n /\ Cardinality(s \ {x}) = n
      BY <2>2, SubsetSize
    <3>3. Total(s \ {c}) = f[x] + Total((s \ {c}) \ {x})
      BY <1>2, <3>1, <3>2
    <3>4. Total(s \ {x}) = f[c] + Total((s \ {x}) \ {c})
      BY <1>2, <2>2, <3>1, <3>2
    <3>5. (s \ {c}) \ {x} = (s \ {x}) \ {c}
      OBVIOUS
    <3>6. Total((s \ {x}) \ {c}) \in Int /\ f[x] \in Int /\ f[c] \in Int
      BY <1>0, <2>2
    <3>7. Total(s) = f[c] + (f[x] + Total((s \ {x}) \ {c}))
      BY <2>2, <3>3, <3>5
    <3>8. Total(s \ {x}) = f[c] + Total((s \ {x}) \ {c})
      BY <3>4
    <3> QED BY <3>6, <3>7, <3>8
  <2> QED BY <2>3, <2>4
<1>3. Nat \subseteq Good
  <2> HIDE DEF Good
  <2> QED BY <1>1, <1>2, NaturalsFrom
<1> QED BY <1>3, SubsetSize

LEMMA SumAdd ==
    ASSUME NEW f, NEW S, IsFiniteSet(S), NEW a, a \notin S,
           \A x \in S \cup {a} : f[x] \in Int
    PROVE  SumFunctionOnSet(f, S \cup {a}) = f[a] + SumFunctionOnSet(f, S)
<1>1. IsFiniteSet(S \cup {a}) /\ (S \cup {a}) \ {a} = S
  BY FS_AddElement
<1> QED BY <1>1, SumRemove

(* The sum of a sum, point by point.                                       *)
LEMMA SumPlus ==
    ASSUME NEW f, NEW g, NEW h, NEW S, IsFiniteSet(S),
           \A x \in S : f[x] \in Int /\ g[x] \in Int /\ h[x] = f[x] + g[x]
    PROVE  SumFunctionOnSet(h, S) = SumFunctionOnSet(f, S) + SumFunctionOnSet(g, S)
<1> DEFINE F(s) == SumFunctionOnSet(f, s)
           G(s) == SumFunctionOnSet(g, s)
           H(s) == SumFunctionOnSet(h, s)
           Good == {n \in Nat : \A s \in SUBSET S : Cardinality(s) = n => H(s) = F(s) + G(s)}
<1>0. \A s \in SUBSET S : F(s) \in Int /\ G(s) \in Int
  BY SumInteger, SubsetSize
<1>1. 0 \in Good
  <2> SUFFICES ASSUME NEW s \in SUBSET S, Cardinality(s) = 0 PROVE H(s) = F(s) + G(s)
    OBVIOUS
  <2>1. s = {}
    BY SubsetSize
  <2>2. F(s) = 0 /\ G(s) = 0 /\ H(s) = 0
    BY <2>1, SumEmpty
  <2> QED BY <2>2
<1>2. ASSUME NEW n \in Nat, n \in Good PROVE n + 1 \in Good
  <2> SUFFICES ASSUME NEW s \in SUBSET S, Cardinality(s) = n + 1
               PROVE  H(s) = F(s) + G(s)
    OBVIOUS
  <2>1. IsFiniteSet(s) /\ s # {}
    BY SubsetSize
  <2>2. PICK x \in s : TRUE
    BY <2>1
  <2>3. \A y \in s : f[y] \in Int /\ g[y] \in Int /\ h[y] \in Int
    OBVIOUS
  <2>4. F(s) = f[x] + F(s \ {x}) /\ G(s) = g[x] + G(s \ {x}) /\ H(s) = h[x] + H(s \ {x})
    BY <2>1, <2>3, SumRemove
  <2> HIDE DEF F, G, H
  <2>5. H(s \ {x}) = F(s \ {x}) + G(s \ {x})
    BY <1>2, SubsetSize
  <2> QED BY <1>0, <2>3, <2>4, <2>5
<1>3. Nat \subseteq Good
  <2> HIDE DEF Good
  <2> QED BY <1>1, <1>2, NaturalsFrom
<1> QED BY <1>3, SubsetSize

(* The sums of two functions that agree are the same.                      *)
LEMMA SumAgrees ==
    ASSUME NEW f, NEW g, NEW S, IsFiniteSet(S),
           \A x \in S : f[x] \in Int /\ f[x] = g[x]
    PROVE  SumFunctionOnSet(f, S) = SumFunctionOnSet(g, S)
<1> DEFINE zero == [x \in S |-> 0]
           Z == SumFunctionOnSet(zero, S)
<1>1. \A x \in S : zero[x] = 0
  OBVIOUS
<1> HIDE DEF zero
<1>2. Z \in Int /\ Z = Z + Z
  BY <1>1, SumInteger, SumPlus
<1>3. SumFunctionOnSet(g, S) \in Int
  BY SumInteger
<1>4. SumFunctionOnSet(f, S) = SumFunctionOnSet(g, S) + Z
  BY <1>1, SumPlus
<1> HIDE DEF Z
<1> QED BY <1>2, <1>3, <1>4

(* An entry of c for every member of T.                                    *)
LEMMA SumEntry ==
    ASSUME NEW f, NEW S, IsFiniteSet(S), NEW T \in SUBSET S, NEW c \in Int,
           \A x \in S : f[x] = IF x \in T THEN c ELSE 0
    PROVE  SumFunctionOnSet(f, S) = c * Cardinality(T)
<1> DEFINE Good == {n \in Nat : \A s \in SUBSET S : Cardinality(s) = n =>
                      SumFunctionOnSet(f, s) = c * Cardinality(s \cap T)}
<1>1. 0 \in Good
  <2> SUFFICES ASSUME NEW s \in SUBSET S, Cardinality(s) = 0
               PROVE  SumFunctionOnSet(f, s) = c * Cardinality(s \cap T)
    OBVIOUS
  <2>1. s = {} /\ s \cap T = {}
    BY SubsetSize
  <2>2. Cardinality(s \cap T) = 0 /\ SumFunctionOnSet(f, s) = 0
    BY <2>1, SumEmpty, FS_EmptySet
  <2> QED BY <2>2
<1>2. ASSUME NEW n \in Nat, n \in Good PROVE n + 1 \in Good
  <2> SUFFICES ASSUME NEW s \in SUBSET S, Cardinality(s) = n + 1
               PROVE  SumFunctionOnSet(f, s) = c * Cardinality(s \cap T)
    OBVIOUS
  <2>1. IsFiniteSet(s) /\ s # {}
    BY SubsetSize
  <2>2. PICK x \in s : TRUE
    BY <2>1
  <2> DEFINE t == s \ {x}
  <2>3. \A y \in s : f[y] \in Int
    OBVIOUS
  <2>4. SumFunctionOnSet(f, s) = f[x] + SumFunctionOnSet(f, t)
    BY <2>1, <2>3, SumRemove
  <2>5. SumFunctionOnSet(f, t) = c * Cardinality(t \cap T)
    <3>1. t \in SUBSET S /\ Cardinality(t) = n
      BY <2>1, SubsetSize
    <3> QED BY <1>2, <3>1
  <2> HIDE DEF Good
  <2>6. CASE x \notin T
    <3>1. t \cap T = s \cap T /\ f[x] = 0
      BY <2>6
    <3>2. SumFunctionOnSet(f, t) \in Int
      BY SumInteger, SubsetSize
    <3>3. SumFunctionOnSet(f, s) = SumFunctionOnSet(f, t)
      BY <2>4, <3>1, <3>2
    <3> QED BY <2>5, <3>1, <3>3
  <2>7. CASE x \in T
    <3>1. x \in s \cap T /\ t \cap T = (s \cap T) \ {x} /\ f[x] = c
      BY <2>7
    <3>2. /\ Cardinality(s \cap T) \in Nat /\ Cardinality(t \cap T) \in Nat
          /\ Cardinality(t \cap T) = Cardinality(s \cap T) - 1
      BY <3>1, SubsetSize
    <3>3. c * Cardinality(s \cap T) = c * Cardinality(t \cap T) + c
      BY <3>2
    <3> QED BY <2>4, <2>5, <3>1, <3>2, <3>3
  <2> QED BY <2>6, <2>7
<1>3. Nat \subseteq Good
  <2> HIDE DEF Good
  <2> QED BY <1>1, <1>2, NaturalsFrom
<1>4. S \cap T = T
  OBVIOUS
<1> QED BY <1>3, <1>4, SubsetSize

(* A sum grows with its terms.                                             *)
LEMMA SumMonotone ==
    ASSUME NEW f, NEW g, NEW S, IsFiniteSet(S),
           \A x \in S : f[x] \in Int /\ g[x] \in Int /\ f[x] <= g[x]
    PROVE  SumFunctionOnSet(f, S) <= SumFunctionOnSet(g, S)
<1> DEFINE F(s) == SumFunctionOnSet(f, s)
           G(s) == SumFunctionOnSet(g, s)
           Good == {n \in Nat : \A s \in SUBSET S : Cardinality(s) = n => F(s) <= G(s)}
<1>0. \A s \in SUBSET S : F(s) \in Int /\ G(s) \in Int
  BY SumInteger, SubsetSize
<1>1. 0 \in Good
  <2> SUFFICES ASSUME NEW s \in SUBSET S, Cardinality(s) = 0 PROVE F(s) <= G(s)
    OBVIOUS
  <2>1. s = {}
    BY SubsetSize
  <2>2. F(s) = 0 /\ G(s) = 0
    BY <2>1, SumEmpty
  <2> QED BY <2>2
<1>2. ASSUME NEW n \in Nat, n \in Good PROVE n + 1 \in Good
  <2> SUFFICES ASSUME NEW s \in SUBSET S, Cardinality(s) = n + 1 PROVE F(s) <= G(s)
    OBVIOUS
  <2>1. IsFiniteSet(s) /\ s # {}
    BY SubsetSize
  <2>2. PICK x \in s : TRUE
    BY <2>1
  <2>3. F(s) = f[x] + F(s \ {x}) /\ G(s) = g[x] + G(s \ {x})
    BY <2>1, SumRemove
  <2> HIDE DEF F, G
  <2>4. F(s \ {x}) <= G(s \ {x})
    BY <1>2, SubsetSize
  <2> QED BY <1>0, <2>3, <2>4
<1>3. Nat \subseteq Good
  <2> HIDE DEF Good
  <2> QED BY <1>1, <1>2, NaturalsFrom
<1> QED BY <1>3, SubsetSize

(* A factor comes out of the sum.                                          *)
LEMMA SumScale ==
    ASSUME NEW f, NEW g, NEW S, IsFiniteSet(S), NEW c \in Int,
           \A x \in S : f[x] \in Int /\ g[x] = c * f[x]
    PROVE  SumFunctionOnSet(g, S) = c * SumFunctionOnSet(f, S)
<1> DEFINE F(s) == SumFunctionOnSet(f, s)
           G(s) == SumFunctionOnSet(g, s)
           Good == {n \in Nat : \A s \in SUBSET S : Cardinality(s) = n => G(s) = c * F(s)}
<1>0. \A s \in SUBSET S : F(s) \in Int
  BY SumInteger, SubsetSize
<1>1. 0 \in Good
  <2> SUFFICES ASSUME NEW s \in SUBSET S, Cardinality(s) = 0 PROVE G(s) = c * F(s)
    OBVIOUS
  <2>1. s = {}
    BY SubsetSize
  <2>2. F(s) = 0 /\ G(s) = 0
    BY <2>1, SumEmpty
  <2> QED BY <2>2
<1>2. ASSUME NEW n \in Nat, n \in Good PROVE n + 1 \in Good
  <2> SUFFICES ASSUME NEW s \in SUBSET S, Cardinality(s) = n + 1 PROVE G(s) = c * F(s)
    OBVIOUS
  <2>1. IsFiniteSet(s) /\ s # {}
    BY SubsetSize
  <2>2. PICK x \in s : TRUE
    BY <2>1
  <2>3. \A y \in s : f[y] \in Int /\ g[y] \in Int
    OBVIOUS
  <2>4. F(s) = f[x] + F(s \ {x}) /\ G(s) = g[x] + G(s \ {x})
    BY <2>1, <2>3, SumRemove
  <2> HIDE DEF F, G
  <2>5. G(s \ {x}) = c * F(s \ {x})
    BY <1>2, SubsetSize
  <2>6. F(s \ {x}) \in Int /\ f[x] \in Int /\ g[x] = c * f[x]
    BY <1>0
  <2>7. c * (f[x] + F(s \ {x})) = c * f[x] + c * F(s \ {x})
    BY <2>6
  <2> QED BY <2>4, <2>5, <2>6, <2>7
<1>3. Nat \subseteq Good
  <2> HIDE DEF Good
  <2> QED BY <1>1, <1>2, NaturalsFrom
<1> QED BY <1>3, SubsetSize
=============================================================================
