---------------------------- MODULE SumTheorems ----------------------------
(***************************************************************************)
(* Sums over finite sets (MapThenSumSet of the community modules), without *)
(* induction: a sum of natural numbers is a number of things.  If element  *)
(* x stands for a[x] blocks, the sum over S is the number of the blocks of *)
(* S, and what is known of cardinalities applies.                          *)
(***************************************************************************)
EXTENDS Integers, FiniteSetsExt, FiniteSetTheorems, WellFoundedInduction, TLAPS

LEMMA LeastNatural ==
    ASSUME NEW T \in SUBSET Nat, T # {}
    PROVE  \E v \in T : \A w \in T : v <= w
<1>1. \E v \in T : \A w \in T : ~(<<w, v>> \in OpToRel(<, Nat))
  BY WFMin, NatLessThanWellFounded
<1>2. \E v \in T : \A w \in T : ~(w < v)
  BY <1>1 DEF OpToRel
<1>3. QED
  BY <1>2

(* Induction over the subsets of a finite set, with a set T for the        *)
(* predicate: T has S if it has each subset all of whose losses of one     *)
(* element are in T.                                                       *)
LEMMA SubsetsByLoss ==
    ASSUME NEW S, IsFiniteSet(S), NEW T,
           \A s \in SUBSET S : (\A x \in s : s \ {x} \in T) => s \in T
    PROVE  S \in T
<1> DEFINE bad == {s \in SUBSET S : s \notin T}
           sizes == {Cardinality(s) : s \in bad}
<1>1. \A s \in SUBSET S : IsFiniteSet(s) /\ Cardinality(s) \in Nat
  BY FS_Subset, FS_CardinalityType
<1>2. SUFFICES ASSUME S \notin T PROVE FALSE
  OBVIOUS
<1>3. PICK c \in sizes : \A d \in sizes : c <= d
  <2>1. sizes \in SUBSET Nat /\ sizes # {}
    BY <1>1, <1>2
  <2> HIDE DEF sizes
  <2>2. QED
    BY <2>1, LeastNatural
<1>4. PICK s \in bad : c = Cardinality(s)
  OBVIOUS
<1>5. PICK x \in s : s \ {x} \in bad
  OBVIOUS
<1>6. Cardinality(s \ {x}) = Cardinality(s) - 1 /\ Cardinality(s) \in Nat
  BY <1>1, <1>4, <1>5, FS_RemoveElement
<1>7. Cardinality(s) <= Cardinality(s \ {x})
  BY <1>3, <1>4, <1>5
<1>8. QED
  BY <1>6, <1>7

-----------------------------------------------------------------------------
(* The blocks of the elements of S.                                        *)
Blocks(a, S) == UNION {{x} \X (1 .. a[x]) : x \in S}

LEMMA OwnBlocks ==
    ASSUME NEW x, NEW n \in Nat
    PROVE  IsFiniteSet({x} \X (1 .. n)) /\ Cardinality({x} \X (1 .. n)) = n
<1>1. IsFiniteSet({x}) /\ Cardinality({x}) = 1
  BY FS_Singleton
<1>2. IsFiniteSet(1 .. n) /\ Cardinality(1 .. n) = n
  <2>1. IsFiniteSet(1 .. n)
        /\ Cardinality(1 .. n) = IF 1 > n THEN 0 ELSE n - 1 + 1
    BY FS_Interval
  <2>2. QED
    BY <2>1
<1>3. /\ IsFiniteSet({x} \X (1 .. n))
      /\ Cardinality({x} \X (1 .. n)) = Cardinality({x}) * Cardinality(1 .. n)
  BY <1>1, <1>2, FS_Product
<1>4. QED
  BY <1>1, <1>2, <1>3

LEMMA BlocksSplit ==
    ASSUME NEW S, NEW x \in S, NEW a
    PROVE  /\ Blocks(a, S) = ({x} \X (1 .. a[x])) \cup Blocks(a, S \ {x})
           /\ ({x} \X (1 .. a[x])) \cap Blocks(a, S \ {x}) = {}
BY DEF Blocks

LEMMA BlocksFinite ==
    ASSUME NEW S, IsFiniteSet(S), NEW a, \A x \in S : a[x] \in Nat
    PROVE  IsFiniteSet(Blocks(a, S)) /\ Cardinality(Blocks(a, S)) \in Nat
<1> DEFINE T == {s \in SUBSET S : IsFiniteSet(Blocks(a, s))}
<1>1. {} \in T
  <2>1. Blocks(a, {}) = {}
    BY DEF Blocks
  <2>2. QED
    BY <2>1, FS_EmptySet
<1>2. ASSUME NEW s \in SUBSET S, \A x \in s : s \ {x} \in T
      PROVE  s \in T
  <2>1. CASE s = {}
    BY <1>1, <2>1
  <2>2. ASSUME NEW x \in s PROVE IsFiniteSet(Blocks(a, s))
    <3>1. IsFiniteSet({x} \X (1 .. a[x]))
      BY <2>2, OwnBlocks
    <3>2. IsFiniteSet(Blocks(a, s \ {x}))
      BY <1>2, <2>2
    <3>3. IsFiniteSet(({x} \X (1 .. a[x])) \cup Blocks(a, s \ {x}))
      BY <3>1, <3>2, FS_Union
    <3>4. Blocks(a, s) = ({x} \X (1 .. a[x])) \cup Blocks(a, s \ {x})
      BY <2>2 DEF Blocks
    <3>5. QED
      BY <3>3, <3>4
  <2>3. QED
    BY <2>1, <2>2
<1>3. S \in T
  <2> HIDE DEF T
  <2>1. QED
    BY <1>2, SubsetsByLoss
<1>4. QED
  BY <1>3, FS_CardinalityType

(* One more element.                                                       *)
LEMMA BlocksAdd ==
    ASSUME NEW S, IsFiniteSet(S), NEW x \in S, NEW a, \A y \in S : a[y] \in Nat
    PROVE  Cardinality(Blocks(a, S)) = a[x] + Cardinality(Blocks(a, S \ {x}))
<1> DEFINE own == {x} \X (1 .. a[x])
           rest == Blocks(a, S \ {x})
<1>1. Blocks(a, S) = own \cup rest /\ own \cap rest = {}
  BY BlocksSplit
<1>2. IsFiniteSet(own) /\ Cardinality(own) = a[x]
  BY OwnBlocks
<1>3. IsFiniteSet(rest) /\ Cardinality(rest) \in Nat
  <2>1. IsFiniteSet(S \ {x})
    BY FS_RemoveElement
  <2>2. QED
    BY <2>1, BlocksFinite
<1> HIDE DEF own, rest
<1>4. Cardinality(own \cap rest) = 0
  BY <1>1, FS_EmptySet
<1>5. Cardinality(own \cup rest)
        = Cardinality(own) + Cardinality(rest) - Cardinality(own \cap rest)
  BY <1>2, <1>3, FS_Union
<1>6. QED
  BY <1>1, <1>2, <1>3, <1>4, <1>5 DEF rest

-----------------------------------------------------------------------------
(* What the recursion of a sum computes, and that there is such a          *)
(* function: the number of blocks is one.                                  *)
Any(s) == CHOOSE x \in s : TRUE

SumStep(a, S, f) ==
    [s \in SUBSET S |->
        IF s = {} THEN 0 ELSE a[Any(s)] + f[s \ {Any(s)}]]

LEMMA SumStepCounts ==
    ASSUME NEW S, IsFiniteSet(S), NEW a, \A x \in S : a[x] \in Nat
    PROVE  /\ \E f : f = SumStep(a, S, f)
           /\ \A f : f = SumStep(a, S, f) => f[S] = Cardinality(Blocks(a, S))
<1> DEFINE count == [s \in SUBSET S |-> Cardinality(Blocks(a, s))]
<1>1. \A s \in SUBSET S : s # {} =>
         Cardinality(Blocks(a, s))
           = a[Any(s)] + Cardinality(Blocks(a, s \ {Any(s)}))
  <2> SUFFICES ASSUME NEW s \in SUBSET S, s # {}
               PROVE  Cardinality(Blocks(a, s))
                        = a[Any(s)] + Cardinality(Blocks(a, s \ {Any(s)}))
    OBVIOUS
  <2>1. Any(s) \in s
    BY DEF Any
  <2>2. IsFiniteSet(s) /\ \A x \in s : a[x] \in Nat
    BY FS_Subset
  <2>3. QED
    BY <2>1, <2>2, BlocksAdd
<1>2. Cardinality(Blocks(a, {})) = 0
  <2>1. Blocks(a, {}) = {}
    BY DEF Blocks
  <2>2. QED
    BY <2>1, FS_EmptySet
<1>3. count = SumStep(a, S, count)
  <2>1. \A s \in SUBSET S : s # {} => s \ {Any(s)} \in SUBSET S
    OBVIOUS
  <2>2. QED
    BY <1>1, <1>2, <2>1 DEF SumStep
<1>4. ASSUME NEW f, f = SumStep(a, S, f)
      PROVE  f[S] = Cardinality(Blocks(a, S))
  <2> DEFINE T == {s \in SUBSET S : f[s] = Cardinality(Blocks(a, s))}
  <2>1. f[{}] = 0 /\ \A s \in SUBSET S : s # {} =>
           f[s] = a[Any(s)] + f[s \ {Any(s)}]
    <3>1. \A s \in SUBSET S :
             f[s] = IF s = {} THEN 0 ELSE a[Any(s)] + f[s \ {Any(s)}]
      BY <1>4 DEF SumStep
    <3>2. QED
      BY <3>1
  <2>2. {} \in T
    BY <1>2, <2>1
  <2>3. ASSUME NEW s \in SUBSET S, \A x \in s : s \ {x} \in T
        PROVE  s \in T
    <3>1. CASE s = {}
      BY <2>2, <3>1
    <3>2. CASE s # {}
      <4>1. Any(s) \in s
        BY <3>2 DEF Any
      <4>2. f[s \ {Any(s)}] = Cardinality(Blocks(a, s \ {Any(s)}))
        BY <2>3, <4>1
      <4>3. QED
        BY <1>1, <2>1, <3>2, <4>2
    <3>3. QED
      BY <3>1, <3>2
  <2>4. S \in T
    <3> HIDE DEF T
    <3>1. QED
      BY <2>3, SubsetsByLoss
  <2>5. QED
    BY <2>4
<1>5. QED
  BY <1>3, <1>4

(* The sum of the natural numbers a[x], x in S.                            *)
LEMMA SumCounts ==
    ASSUME NEW S, IsFiniteSet(S), NEW a, \A x \in S : a[x] \in Nat
    PROVE  MapThenSumSet(LAMBDA x : a[x], S) = Cardinality(Blocks(a, S))
<1> DEFINE g == CHOOSE f : f = SumStep(a, S, f)
<1>1. g = SumStep(a, S, g)
  BY SumStepCounts
<1>2. MapThenSumSet(LAMBDA x : a[x], S) = g[S]
  BY DEF MapThenSumSet, MapThenFoldSet, SumStep, Any
<1> HIDE DEF g
<1>3. QED
  BY <1>1, <1>2, SumStepCounts

-----------------------------------------------------------------------------
(* Disjoint parts, and elements that count for nothing.                    *)
LEMMA BlocksOfUnion ==
    ASSUME NEW S, IsFiniteSet(S), NEW P \in SUBSET S, NEW a,
           \A x \in S : a[x] \in Nat
    PROVE  Cardinality(Blocks(a, S))
             = Cardinality(Blocks(a, P)) + Cardinality(Blocks(a, S \ P))
<1>1. IsFiniteSet(P) /\ IsFiniteSet(S \ P)
  BY FS_Subset
<1>2. /\ IsFiniteSet(Blocks(a, P)) /\ Cardinality(Blocks(a, P)) \in Nat
      /\ IsFiniteSet(Blocks(a, S \ P)) /\ Cardinality(Blocks(a, S \ P)) \in Nat
  BY <1>1, BlocksFinite
<1>3. /\ Blocks(a, S) = Blocks(a, P) \cup Blocks(a, S \ P)
      /\ Blocks(a, P) \cap Blocks(a, S \ P) = {}
  BY DEF Blocks
<1>4. Cardinality({}) = 0
  BY FS_EmptySet
<1>5. Cardinality(Blocks(a, P) \cup Blocks(a, S \ P))
        = Cardinality(Blocks(a, P)) + Cardinality(Blocks(a, S \ P))
            - Cardinality(Blocks(a, P) \cap Blocks(a, S \ P))
  BY <1>2, FS_Union
<1>6. Cardinality(Blocks(a, S))
        = Cardinality(Blocks(a, P)) + Cardinality(Blocks(a, S \ P)) - 0
  BY <1>3, <1>4, <1>5, Zenon
<1>7. QED
  BY <1>2, <1>6

LEMMA BlocksWithin ==
    ASSUME NEW S, IsFiniteSet(S), NEW P \in SUBSET S, NEW a,
           \A x \in S : a[x] \in Nat
    PROVE  /\ Cardinality(Blocks(a, P)) <= Cardinality(Blocks(a, S))
           /\ (\A x \in S \ P : a[x] = 0)
                 => Cardinality(Blocks(a, P)) = Cardinality(Blocks(a, S))
<1>1. IsFiniteSet(Blocks(a, S))
  BY BlocksFinite
<1>2. Blocks(a, P) \in SUBSET Blocks(a, S)
  BY DEF Blocks
<1>3. (\A x \in S \ P : a[x] = 0) => Blocks(a, P) = Blocks(a, S)
  <2>1. 1 .. 0 = {}
    OBVIOUS
  <2>2. QED
    BY <2>1 DEF Blocks
<1>4. QED
  BY <1>1, <1>2, <1>3, FS_Subset

(* The elements of a key, and those of a set of keys.                      *)
OfKey(N, k, c) == {n \in N : k[n] = c}

WithKey(N, k, D) == {n \in N : k[n] \in D}

LEMMA SumOfKeyTyped ==
    ASSUME NEW N, IsFiniteSet(N), NEW a, \A n \in N : a[n] \in Nat, NEW k,
           NEW c
    PROVE  Cardinality(Blocks(a, OfKey(N, k, c))) \in Nat
<1>1. OfKey(N, k, c) \in SUBSET N
  BY DEF OfKey
<1>2. IsFiniteSet(OfKey(N, k, c)) /\ \A n \in OfKey(N, k, c) : a[n] \in Nat
  BY <1>1, FS_Subset
<1>3. QED
  BY <1>2, BlocksFinite

(* Adding up by keys adds up everything whose key is counted.              *)
LEMMA SumByKeys ==
    ASSUME NEW N, IsFiniteSet(N), NEW a, \A n \in N : a[n] \in Nat, NEW k,
           NEW D, IsFiniteSet(D), NEW b,
           \A c \in D : b[c] = Cardinality(Blocks(a, OfKey(N, k, c)))
    PROVE  Cardinality(Blocks(b, D)) = Cardinality(Blocks(a, WithKey(N, k, D)))
<1> DEFINE keyed(d) == WithKey(N, k, d)
           T == {d \in SUBSET D :
                    Cardinality(Blocks(b, d)) = Cardinality(Blocks(a, keyed(d)))}
<1>1. \A c \in D : b[c] \in Nat
  BY SumOfKeyTyped
<1>2. ASSUME NEW d \in SUBSET D, \A c \in d : d \ {c} \in T
      PROVE  d \in T
  <2>1. CASE d = {}
    <3>1. keyed(d) = {} /\ Blocks(a, {}) = {} /\ Blocks(b, {}) = {}
      BY <2>1 DEF Blocks, WithKey
    <3>2. QED
      BY <2>1, <3>1
  <2>2. ASSUME NEW c \in d
        PROVE  Cardinality(Blocks(b, d)) = Cardinality(Blocks(a, keyed(d)))
    <3>1. IsFiniteSet(d) /\ \A e \in d : b[e] \in Nat
      BY <1>1, FS_Subset
    <3>2. Cardinality(Blocks(b, d)) = b[c] + Cardinality(Blocks(b, d \ {c}))
      BY <2>2, <3>1, BlocksAdd
    <3> DEFINE all == keyed(d)
               own == OfKey(N, k, c)
    <3>3. own \in SUBSET all /\ all \ own = keyed(d \ {c}) /\ all \in SUBSET N
      BY <2>2 DEF OfKey, WithKey
    <3>4. Cardinality(Blocks(b, d \ {c})) = Cardinality(Blocks(a, all \ own))
      BY <1>2, <2>2, <3>3
    <3>5. b[c] = Cardinality(Blocks(a, own))
      BY <2>2
    <3> HIDE DEF all, own
    <3>6. IsFiniteSet(all) /\ \A n \in all : a[n] \in Nat
      BY <3>3, FS_Subset
    <3>7. Cardinality(Blocks(a, all))
            = Cardinality(Blocks(a, own)) + Cardinality(Blocks(a, all \ own))
      BY <3>3, <3>6, BlocksOfUnion
    <3>8. QED
      BY <3>2, <3>4, <3>5, <3>7 DEF all
  <2>3. QED
    BY <2>1, <2>2
<1>3. D \in T
  <2> HIDE DEF T
  <2>1. QED
    BY <1>2, SubsetsByLoss
<1>4. QED
  BY <1>3
=============================================================================
