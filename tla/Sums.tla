-------------------------------- MODULE Sums --------------------------------
(***************************************************************************)
(* Sums of integers over finite sets, for the proofs: induction stated     *)
(* over a set of good values instead of a predicate, a sum that is defined *)
(* whatever order it is taken in, and the folds of the community modules   *)
(* that the models are written with as such sums.                          *)
(***************************************************************************)
EXTENDS Integers, FiniteSets, FiniteSetTheorems, WellFoundedInduction, TLAPS

-----------------------------------------------------------------------------
(* Induction *)

\* The order of the naturals as a relation.
LEMMA Below ==
    \E R : IsWellFoundedOn(R, Nat) /\ \A m, n \in Nat : m < n => <<m, n>> \in R
<1> DEFINE R == OpToRel(<, Nat)
<1>1. IsWellFoundedOn(R, Nat)
  BY NatLessThanWellFounded
<1>2. \A m, n \in Nat : <<m, n>> \in R <=> m < n
  BY DEF OpToRel
<1> HIDE DEF R
<1> QED
  BY <1>1, <1>2

\* Numbers that are not all good have a least one that is not.
LEMMA Least ==
    ASSUME NEW Bad \in SUBSET Nat, Bad # {}
    PROVE  \E m \in Bad : \A n \in Bad : ~(n < m)
<1>1. PICK R : IsWellFoundedOn(R, Nat) /\ \A m, n \in Nat : m < n => <<m, n>> \in R
  BY Below
<1>2. Bad \subseteq Nat /\ IsWellFoundedOn(R, Nat)
  BY <1>1
<1>3. \E m \in Bad : \A n \in Bad : ~(<<n, m>> \in R)
  BY <1>2, WFMin
<1> QED
  BY <1>1, <1>3

\* Induction over the naturals.
LEMMA NatByStep ==
    ASSUME NEW Good, 0 \in Good, \A n \in Nat : n \in Good => n + 1 \in Good
    PROVE  \A n \in Nat : n \in Good
<1> SUFFICES ASSUME Nat \ Good # {} PROVE FALSE
  OBVIOUS
<1>1. PICK m \in Nat \ Good : \A n \in Nat \ Good : ~(n < m)
  BY Least
<1>2. m # 0 /\ m - 1 \in Nat /\ m - 1 < m
  BY <1>1
<1>3. m - 1 \in Good
  BY <1>1, <1>2
<1>4. (m - 1) + 1 \in Good
  BY <1>2, <1>3
<1> QED
  BY <1>1, <1>4

\* Induction over the subsets of a finite set, by taking one element away.
LEMMA SubsetByStep ==
    ASSUME NEW S, IsFiniteSet(S), NEW Good, {} \in Good,
           \A T \in SUBSET S : (\E x \in T : T \ {x} \in Good) => T \in Good
    PROVE  \A T \in SUBSET S : T \in Good
<1> DEFINE Sizes == {n \in Nat : \A T \in SUBSET S : Cardinality(T) = n => T \in Good}
<1>1. \A T \in SUBSET S : IsFiniteSet(T) /\ Cardinality(T) \in Nat
  BY FS_Subset, FS_CardinalityType
<1>2. 0 \in Sizes
  <2>1. \A T \in SUBSET S : Cardinality(T) = 0 => T = {}
    BY <1>1, FS_EmptySet
  <2> QED
    BY <2>1
<1>3. ASSUME NEW n \in Nat, n \in Sizes PROVE n + 1 \in Sizes
  <2> SUFFICES ASSUME NEW T \in SUBSET S, Cardinality(T) = n + 1 PROVE T \in Good
    OBVIOUS
  <2>1. T # {}
    BY FS_EmptySet
  <2>2. PICK x \in T : TRUE
    BY <2>1
  <2>3. T \ {x} \in SUBSET S /\ Cardinality(T \ {x}) = n
    <3>1. Cardinality(T \ {x}) = Cardinality(T) - 1
      BY <1>1, <2>2, FS_RemoveElement
    <3> QED
      BY <3>1
  <2>4. T \ {x} \in Good
    BY <1>3, <2>3
  <2> QED
    BY <2>2, <2>4
<1> HIDE DEF Sizes
<1>4. \A n \in Nat : n \in Sizes
  BY <1>2, <1>3, NatByStep
<1> QED
  BY <1>1, <1>4 DEF Sizes

-----------------------------------------------------------------------------
(* The sum *)

\* The element that a fold takes from a set.
Taken(T) == CHOOSE x \in T : TRUE

\* f[T] is the sum of g over T, for every part T of S.
IsSum(f, g, S) ==
    f = [T \in SUBSET S |-> IF T = {} THEN 0 ELSE f[T \ {Taken(T)}] + g[Taken(T)]]

PartialSums(g, S) == CHOOSE f : IsSum(f, g, S)

SumOf(g, S) == PartialSums(g, S)[S]

LEMMA TakenIsElement == \A T : T # {} => Taken(T) \in T
BY DEF Taken

\* Whatever agrees with the empty sum and is carried by the same steps is the same.
LEMMA SameSteps ==
    ASSUME NEW S, IsFiniteSet(S), NEW f, NEW h, f[{}] = h[{}],
           \A T \in SUBSET S :
              T # {} /\ f[T \ {Taken(T)}] = h[T \ {Taken(T)}] => f[T] = h[T]
    PROVE  \A T \in SUBSET S : f[T] = h[T]
<1> DEFINE Sizes == {n \in Nat : \A T \in SUBSET S : Cardinality(T) = n => f[T] = h[T]}
<1>1. \A T \in SUBSET S : /\ IsFiniteSet(T) /\ Cardinality(T) \in Nat
                          /\ Cardinality(T) = 0 <=> T = {}
                          /\ \A x \in T : Cardinality(T \ {x}) = Cardinality(T) - 1
  BY FS_Subset, FS_CardinalityType, FS_EmptySet, FS_RemoveElement
<1>2. 0 \in Sizes
  BY <1>1
<1>3. ASSUME NEW n \in Nat, n \in Sizes PROVE n + 1 \in Sizes
  <2> SUFFICES ASSUME NEW T \in SUBSET S, Cardinality(T) = n + 1 PROVE f[T] = h[T]
    OBVIOUS
  <2>1. Taken(T) \in T /\ T # {}
    BY <1>1, TakenIsElement
  <2>2. T \ {Taken(T)} \in SUBSET S /\ Cardinality(T \ {Taken(T)}) = n
    BY <1>1, <2>1
  <2>3. f[T \ {Taken(T)}] = h[T \ {Taken(T)}]
    BY <1>3, <2>2
  <2> QED
    BY <2>1, <2>3
<1> HIDE DEF Sizes
<1>4. \A n \in Nat : n \in Sizes
  BY <1>2, <1>3, NatByStep
<1> QED
  BY <1>1, <1>4 DEF Sizes

\* f folds S: base for the empty set, and op of the element that is picked and
\* of what the rest gives.
IsFoldOf(f, S, base, pick, op) ==
    \A T \in SUBSET S : f[T] = IF T = {} THEN base ELSE op[pick[T]][f[T \ {pick[T]}]]

LEMMA FoldsExist ==
    ASSUME NEW S, IsFiniteSet(S), NEW V, NEW base \in V,
           NEW pick, \A T \in SUBSET S : T # {} => pick[T] \in T,
           NEW op, \A x \in S, v \in V : op[x][v] \in V
    PROVE  \E f \in [SUBSET S -> V] : IsFoldOf(f, S, base, pick, op)
<1> DEFINE Next(f, T) == IF T = {} THEN base ELSE op[pick[T]][f[T \ {pick[T]}]]
           UpTo(n) == \E f \in [SUBSET S -> V] :
                         \A T \in SUBSET S : Cardinality(T) <= n => f[T] = Next(f, T)
           Good == {n \in Nat : UpTo(n)}
<1>1. \A T \in SUBSET S : /\ IsFiniteSet(T) /\ Cardinality(T) \in Nat
                          /\ Cardinality(T) = 0 <=> T = {}
                          /\ \A x \in T : Cardinality(T \ {x}) = Cardinality(T) - 1
  BY FS_Subset, FS_CardinalityType, FS_EmptySet, FS_RemoveElement
<1>2. 0 \in Good
  <2>1. [T \in SUBSET S |-> base] \in [SUBSET S -> V]
    OBVIOUS
  <2>2. \A T \in SUBSET S : Cardinality(T) <= 0 => T = {}
    BY <1>1
  <2> QED
    BY <2>1, <2>2
<1>3. ASSUME NEW n \in Nat, n \in Good PROVE n + 1 \in Good
  <2>1. PICK f \in [SUBSET S -> V] :
          \A T \in SUBSET S : Cardinality(T) <= n => f[T] = Next(f, T)
    BY <1>3
  <2> DEFINE h == [T \in SUBSET S |-> IF Cardinality(T) <= n THEN f[T] ELSE Next(f, T)]
  <2>2. \A T \in SUBSET S : T # {} =>
          /\ pick[T] \in T /\ pick[T] \in S
          /\ T \ {pick[T]} \in SUBSET S
          /\ Cardinality(T \ {pick[T]}) = Cardinality(T) - 1
    BY <1>1
  <2>3. \A T \in SUBSET S : Next(f, T) \in V
    BY <2>2
  <2>4. h \in [SUBSET S -> V]
    BY <2>3
  <2>5. ASSUME NEW T \in SUBSET S, Cardinality(T) <= n + 1
        PROVE  h[T] = Next(h, T)
    <3>1. CASE T = {}
      BY <2>1, <3>1, <1>1
    <3>2. CASE T # {}
      <4>1. Cardinality(T \ {pick[T]}) <= n
        BY <1>1, <2>2, <2>5, <3>2
      <4>2. h[T \ {pick[T]}] = f[T \ {pick[T]}]
        BY <2>2, <3>2, <4>1
      <4>3. h[T] = Next(f, T)
        BY <2>1
      <4> QED
        BY <3>2, <4>2, <4>3
    <3> QED
      BY <3>1, <3>2
  <2> HIDE DEF h
  <2>6. UpTo(n + 1)
    BY <2>4, <2>5
  <2> HIDE DEF UpTo
  <2> QED
    BY <2>6
<1>4. Cardinality(S) \in Nat /\ \A T \in SUBSET S : Cardinality(T) <= Cardinality(S)
  BY <1>1, FS_Subset
<1>5. \A n \in Nat : n \in Good
  <2> HIDE DEF Good
  <2> QED
    BY <1>2, <1>3, NatByStep
<1>6. UpTo(Cardinality(S))
  BY <1>4, <1>5
<1> QED
  BY <1>4, <1>6 DEF IsFoldOf

\* The sum exists.
LEMMA SumsExist ==
    ASSUME NEW S, IsFiniteSet(S), NEW g, \A x \in S : g[x] \in Int
    PROVE  \E f \in [SUBSET S -> Int] : IsSum(f, g, S)
<1> DEFINE pick == [T \in SUBSET S |-> Taken(T)]
           op   == [x \in S |-> [v \in Int |-> v + g[x]]]
<1>1. \A T \in SUBSET S : T # {} => pick[T] \in T
  BY TakenIsElement
<1>2. \A x \in S, v \in Int : op[x][v] \in Int
  OBVIOUS
<1> HIDE DEF pick, op
<1>3. PICK f \in [SUBSET S -> Int] : IsFoldOf(f, S, 0, pick, op)
  <2>1. 0 \in Int
    OBVIOUS
  <2> QED
    BY <1>1, <1>2, <2>1, FoldsExist
<1>4. \A T \in SUBSET S : T # {} =>
         op[pick[T]][f[T \ {pick[T]}]] = f[T \ {Taken(T)}] + g[Taken(T)]
  BY <1>1 DEF pick, op
<1>5. f = [T \in SUBSET S |-> IF T = {} THEN 0 ELSE f[T \ {Taken(T)}] + g[Taken(T)]]
  <2>1. \A T \in SUBSET S : f[T] = IF T = {} THEN 0 ELSE f[T \ {Taken(T)}] + g[Taken(T)]
    BY <1>3, <1>4, Zenon DEF IsFoldOf
  <2> QED
    BY <2>1
<1> QED
  BY <1>5 DEF IsSum

-----------------------------------------------------------------------------
(* What a sum is, and that the order does not matter *)

LEMMA PartialSumsExist ==
    ASSUME NEW S, IsFiniteSet(S), NEW g, \A x \in S : g[x] \in Int
    PROVE  /\ IsSum(PartialSums(g, S), g, S)
           /\ PartialSums(g, S) \in [SUBSET S -> Int]
<1>1. PICK f \in [SUBSET S -> Int] : IsSum(f, g, S)
  BY SumsExist
<1>2. IsSum(PartialSums(g, S), g, S)
  BY <1>1 DEF PartialSums
<1> DEFINE h == PartialSums(g, S)
<1>3. h = [T \in SUBSET S |-> IF T = {} THEN 0 ELSE h[T \ {Taken(T)}] + g[Taken(T)]]
  BY <1>2 DEF IsSum
<1> HIDE DEF h
<1>4. \A T \in SUBSET S : f[T] = h[T]
  <2>1. f[{}] = h[{}]
    BY <1>1, <1>3 DEF IsSum
  <2>2. ASSUME NEW T \in SUBSET S, T # {}, f[T \ {Taken(T)}] = h[T \ {Taken(T)}]
        PROVE  f[T] = h[T]
    BY <1>1, <1>3, <2>2 DEF IsSum
  <2> QED
    BY <2>1, <2>2, SameSteps
<1>5. h \in [SUBSET S -> Int]
  BY <1>1, <1>3, <1>4
<1> QED
  BY <1>2, <1>5 DEF h

\* The sum over a part does not depend on the whole.
LEMMA PartialSumIsSum ==
    ASSUME NEW S, IsFiniteSet(S), NEW g, \A x \in S : g[x] \in Int, NEW U \in SUBSET S
    PROVE  PartialSums(g, S)[U] = SumOf(g, U)
<1> DEFINE f == PartialSums(g, S)
           h == PartialSums(g, U)
<1>1. IsFiniteSet(U)
  BY FS_Subset
<1>2. IsSum(f, g, S) /\ IsSum(h, g, U)
  BY <1>1, PartialSumsExist
<1> HIDE DEF f, h
<1>3. f[{}] = h[{}]
  BY <1>2 DEF IsSum
<1>4. ASSUME NEW T \in SUBSET U, T # {}, f[T \ {Taken(T)}] = h[T \ {Taken(T)}]
      PROVE  f[T] = h[T]
  BY <1>2, <1>4 DEF IsSum
<1>5. f[U] = h[U]
  BY <1>1, <1>3, <1>4, SameSteps
<1> QED
  BY <1>5 DEF f, h, SumOf

LEMMA SumType ==
    ASSUME NEW S, IsFiniteSet(S), NEW g, \A x \in S : g[x] \in Int
    PROVE  SumOf(g, S) \in Int
BY PartialSumsExist DEF SumOf

LEMMA SumOfNothing == \A g : SumOf(g, {}) = 0
<1> SUFFICES ASSUME NEW g PROVE SumOf(g, {}) = 0
  OBVIOUS
<1>1. IsSum(PartialSums(g, {}), g, {})
  BY FS_EmptySet, PartialSumsExist
<1> QED
  BY <1>1 DEF IsSum, SumOf

\* The element that the fold takes ...
LEMMA SumTaken ==
    ASSUME NEW S, IsFiniteSet(S), NEW g, \A x \in S : g[x] \in Int, S # {}
    PROVE  SumOf(g, S) = SumOf(g, S \ {Taken(S)}) + g[Taken(S)]
<1>1. IsSum(PartialSums(g, S), g, S)
  BY PartialSumsExist
<1>2. SumOf(g, S) = PartialSums(g, S)[S \ {Taken(S)}] + g[Taken(S)]
  BY <1>1 DEF IsSum, SumOf
<1>3. S \ {Taken(S)} \in SUBSET S
  OBVIOUS
<1>4. PartialSums(g, S)[S \ {Taken(S)}] = SumOf(g, S \ {Taken(S)})
  BY <1>3, PartialSumIsSum
<1> QED
  BY <1>2, <1>4

\* ... might be any other.
LEMMA SumWithout ==
    ASSUME NEW S, IsFiniteSet(S), NEW g, \A x \in S : g[x] \in Int, NEW y \in S
    PROVE  SumOf(g, S) = SumOf(g, S \ {y}) + g[y]
<1> DEFINE Any(T) == \A x \in T : SumOf(g, T) = SumOf(g, T \ {x}) + g[x]
           Sizes == {n \in Nat : \A T \in SUBSET S : Cardinality(T) = n => Any(T)}
<1>1. \A T \in SUBSET S : /\ IsFiniteSet(T) /\ Cardinality(T) \in Nat
                          /\ Cardinality(T) = 0 <=> T = {}
                          /\ \A x \in T : Cardinality(T \ {x}) = Cardinality(T) - 1
  BY FS_Subset, FS_CardinalityType, FS_EmptySet, FS_RemoveElement
<1>2. \A T \in SUBSET S : SumOf(g, T) \in Int
  BY <1>1, SumType
<1>3. 0 \in Sizes
  BY <1>1
<1>4. ASSUME NEW n \in Nat, n \in Sizes PROVE n + 1 \in Sizes
  <2> SUFFICES ASSUME NEW T \in SUBSET S, Cardinality(T) = n + 1, NEW x \in T
               PROVE  SumOf(g, T) = SumOf(g, T \ {x}) + g[x]
    OBVIOUS
  <2> DEFINE z == Taken(T)
  <2>1. z \in T
    BY TakenIsElement
  <2> HIDE DEF z
  <2>2. SumOf(g, T) = SumOf(g, T \ {z}) + g[z]
    BY <1>1, SumTaken DEF z
  <2>3. CASE x = z
    BY <2>2, <2>3
  <2>4. CASE x # z
    <3>1. /\ T \ {z} \in SUBSET S /\ Cardinality(T \ {z}) = n /\ x \in T \ {z}
          /\ T \ {x} \in SUBSET S /\ Cardinality(T \ {x}) = n /\ z \in T \ {x}
      BY <1>1, <2>1, <2>4
    <3>2. SumOf(g, T \ {z}) = SumOf(g, (T \ {z}) \ {x}) + g[x]
      BY <1>4, <3>1
    <3>3. SumOf(g, T \ {x}) = SumOf(g, (T \ {x}) \ {z}) + g[z]
      BY <1>4, <3>1
    <3>4. (T \ {z}) \ {x} = (T \ {x}) \ {z} /\ (T \ {x}) \ {z} \in SUBSET S
      OBVIOUS
    <3>5. SumOf(g, (T \ {x}) \ {z}) \in Int /\ g[x] \in Int /\ g[z] \in Int
      BY <1>2, <2>1, <3>4
    <3> DEFINE rest == SumOf(g, (T \ {x}) \ {z})
    <3>6. SumOf(g, T \ {z}) = rest + g[x] /\ SumOf(g, T \ {x}) = rest + g[z]
      BY <3>2, <3>3, <3>4
    <3>7. rest \in Int
      BY <3>5
    <3> HIDE DEF rest
    <3> QED
      BY <2>2, <3>5, <3>6, <3>7
  <2> QED
    BY <2>3, <2>4
<1> HIDE DEF Sizes
<1>5. \A n \in Nat : n \in Sizes
  BY <1>3, <1>4, NatByStep
<1> QED
  BY <1>1, <1>5 DEF Sizes

LEMMA SumWith ==
    ASSUME NEW S, IsFiniteSet(S), NEW g, NEW y, y \notin S,
           \A x \in S \cup {y} : g[x] \in Int
    PROVE  SumOf(g, S \cup {y}) = SumOf(g, S) + g[y]
<1>1. IsFiniteSet(S \cup {y}) /\ y \in S \cup {y} /\ (S \cup {y}) \ {y} = S
  BY FS_AddElement
<1>2. SumOf(g, S \cup {y}) = SumOf(g, (S \cup {y}) \ {y}) + g[y]
  BY <1>1, SumWithout
<1> QED
  BY <1>1, <1>2

\* The sum of the first n of a sequence of numbers.
LEMMA SumOfNext ==
    ASSUME NEW n \in Nat, NEW g, \A k \in 1..(n + 1) : g[k] \in Int
    PROVE  SumOf(g, 1..(n + 1)) = SumOf(g, 1..n) + g[n + 1]
<1> DEFINE first == 1..n
           k == n + 1
<1>1. IsFiniteSet(first)
  BY FS_Interval
<1>2. first \cup {k} = 1..(n + 1) /\ k \notin first
  OBVIOUS
<1>3. \A x \in first \cup {k} : g[x] \in Int
  BY <1>2
<1>4. SumOf(g, first \cup {k}) = SumOf(g, first) + g[k]
  <2> HIDE DEF first, k
  <2> QED
    BY <1>1, <1>2, <1>3, SumWith
<1> QED
  BY <1>2, <1>4

\* A sum of nothing but zeros.
LEMMA SumOfZeros ==
    ASSUME NEW S, IsFiniteSet(S), NEW g, \A x \in S : g[x] = 0
    PROVE  SumOf(g, S) = 0
<1> DEFINE Good == {T \in SUBSET S : SumOf(g, T) = 0}
<1>1. {} \in Good
  BY SumOfNothing
<1>2. ASSUME NEW T \in SUBSET S, NEW x \in T, T \ {x} \in Good PROVE T \in Good
  <2>1. IsFiniteSet(T)
    BY FS_Subset
  <2>2. SumOf(g, T) = SumOf(g, T \ {x}) + g[x]
    BY <2>1, SumWithout
  <2> QED
    BY <1>2, <2>2
<1> HIDE DEF Good
<1>3. \A T \in SUBSET S : T \in Good
  BY <1>1, <1>2, SubsetByStep
<1> QED
  BY <1>3 DEF Good

-----------------------------------------------------------------------------
(* Folds that are sums *)

\* A fold over a set that adds g[x] for every element x.
LEMMA FoldIsSum ==
    ASSUME NEW S, IsFiniteSet(S), NEW g, \A x \in S : g[x] \in Int, NEW f, f[{}] = 0,
           \A T \in SUBSET S : T # {} /\ f[T \ {Taken(T)}] \in Int =>
              f[T] = f[T \ {Taken(T)}] + g[Taken(T)]
    PROVE  f[S] = SumOf(g, S)
<1> DEFINE h == PartialSums(g, S)
<1>1. IsSum(h, g, S) /\ h \in [SUBSET S -> Int]
  BY PartialSumsExist
<1> HIDE DEF h
<1>2. f[{}] = h[{}]
  BY <1>1 DEF IsSum
<1>3. ASSUME NEW T \in SUBSET S, T # {}, f[T \ {Taken(T)}] = h[T \ {Taken(T)}]
      PROVE  f[T] = h[T]
  <2>1. T \ {Taken(T)} \in SUBSET S
    OBVIOUS
  <2>2. f[T \ {Taken(T)}] \in Int
    BY <1>1, <1>3, <2>1
  <2>3. h[T] = h[T \ {Taken(T)}] + g[Taken(T)]
    BY <1>1, <1>3 DEF IsSum
  <2> QED
    BY <1>3, <2>2, <2>3
<1>4. \A T \in SUBSET S : f[T] = h[T]
  BY <1>2, <1>3, SameSteps
<1> QED
  BY <1>4 DEF h, SumOf

=============================================================================
