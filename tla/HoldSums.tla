------------------------------ MODULE HoldSums ------------------------------
(***************************************************************************)
(* Sums over a finite set, as MapThenSumSet of FiniteSetsExt takes them:   *)
(* what the proofs about frozen credits need to know of them.  Induction   *)
(* is stated for sets of numbers, so that no lemma takes an operator.      *)
(***************************************************************************)
EXTENDS Integers, FiniteSetsExt, FiniteSetTheorems, WellFoundedInduction, TLAPS

\* The element the sum takes next.
Pick(s) == CHOOSE x \in s : TRUE

\* The partial sums over the subsets of S, by the recursion of MapThenSumSet.
PartialSums(f, S, w) ==
    f = [s \in SUBSET S |-> IF s = {} THEN 0 ELSE w[Pick(s)] + f[s \ {Pick(s)}]]

\* ... of a finite set and of whole numbers.
Sums(f, S, w) ==
    /\ IsFiniteSet(S) /\ w \in [S -> Int] /\ f \in [SUBSET S -> Int]
    /\ PartialSums(f, S, w)

\* The sum of w over S.
Total(S, w) == MapThenSumSet(LAMBDA x : w[x], S)

\* The subsets of S with at most n elements.
Small(S, n) == {s \in SUBSET S : Cardinality(s) <= n}

\* G has every subset of S that it has with one element less.
Growing(S, G) == \A s \in SUBSET S : (\A x \in s : s \ {x} \in G) => s \in G

-----------------------------------------------------------------------------
\* Induction: a set of numbers with 0 and with the successor of each is Nat.
LEMMA NatInduct ==
    ASSUME NEW G, 0 \in G, \A n \in Nat : n \in G => n + 1 \in G
    PROVE  \A n \in Nat : n \in G
  <1> DEFINE Bad == {n \in Nat : n \notin G}
  <1>1. SUFFICES ASSUME Bad # {} PROVE FALSE
    OBVIOUS
  <1>2. PICK n \in Bad : \A m \in Bad : ~(<<m, n>> \in OpToRel(<, Nat))
    BY <1>1, NatLessThanWellFounded, WFMin
  <1>3. n \in Nat /\ n # 0 /\ n - 1 \in Nat
    OBVIOUS
  <1>4. n - 1 \in Bad
    <2>1. (n - 1) + 1 = n
      BY <1>3
    <2>2. QED
      BY <1>3, <2>1
  <1>5. <<n - 1, n>> \in OpToRel(<, Nat)
    BY <1>3 DEF OpToRel
  <1>6. QED
    BY <1>2, <1>4, <1>5

\* What is taken from a set that is not empty is of it.
LEMMA PickIn == ASSUME NEW s, s # {} PROVE Pick(s) \in s
  BY DEF Pick

\* A subset of a finite set loses one element.
LEMMA LoseOne ==
    ASSUME NEW S, IsFiniteSet(S), NEW s \in SUBSET S, NEW x \in s
    PROVE  /\ IsFiniteSet(s) /\ s \ {x} \in SUBSET S
           /\ Cardinality(s) \in Nat \ {0}
           /\ Cardinality(s \ {x}) = Cardinality(s) - 1
  <1>1. IsFiniteSet(s)
    BY FS_Subset
  <1>2. Cardinality(s) \in Nat /\ Cardinality(s) # 0
    BY <1>1, FS_CardinalityType, FS_EmptySet
  <1>3. QED
    BY <1>1, <1>2, FS_RemoveElement

\* Induction over the subsets of a finite set: one element less, one element more.
LEMMA SubsetInduct ==
    ASSUME NEW S, IsFiniteSet(S), NEW G, Growing(S, G)
    PROVE  SUBSET S \subseteq G
  <1> DEFINE Bad == (SUBSET S) \ G
  <1>1. SUFFICES ASSUME Bad # {} PROVE FALSE
    OBVIOUS
  <1>2. Bad \subseteq FiniteSubsetsOf(S)
    BY FS_Subset DEF FiniteSubsetsOf
  <1>3. PICK s \in Bad : \A t \in Bad : ~(<<t, s>> \in StrictSubsetOrdering(S))
    <2>1. IsWellFoundedOn(StrictSubsetOrdering(S), FiniteSubsetsOf(S))
      BY FS_StrictSubsetOrderingWellFounded
    <2> HIDE DEF Bad
    <2>2. QED
      BY <1>1, <1>2, <2>1, WFMin
  <1>4. PICK x \in s : s \ {x} \notin G
    BY DEF Growing
  <1>5. s \ {x} \in Bad
    <2>1. s \ {x} \in SUBSET S
      OBVIOUS
    <2>2. QED
      BY <1>4, <2>1
  <1>6. <<s \ {x}, s>> \in StrictSubsetOrdering(S)
    BY DEF StrictSubsetOrdering
  <1>7. QED
    BY <1>3, <1>5, <1>6

-----------------------------------------------------------------------------
(* Partial sums *)

\* There are partial sums.
LEMMA PartialSumsExist ==
    ASSUME NEW S, IsFiniteSet(S), NEW w \in [S -> Int]
    PROVE  \E f \in [SUBSET S -> Int] : PartialSums(f, S, w)
  <1> DEFINE Step(f, s) == IF s = {} THEN 0 ELSE w[Pick(s)] + f[s \ {Pick(s)}]
             Good == {n \in Nat : \E f \in [Small(S, n) -> Int] :
                          \A s \in Small(S, n) : f[s] = Step(f, s)}
  <1>1. 0 \in Good
    <2> DEFINE f == [s \in Small(S, 0) |-> 0]
    <2>1. \A s \in Small(S, 0) : s = {}
      <3> SUFFICES ASSUME NEW s \in Small(S, 0) PROVE s = {}
        OBVIOUS
      <3>1. IsFiniteSet(s) /\ Cardinality(s) <= 0
        BY FS_Subset DEF Small
      <3>2. QED
        BY <3>1, FS_CardinalityType, FS_EmptySet
    <2>2. \A s \in Small(S, 0) : f[s] = Step(f, s)
      BY <2>1
    <2>3. f \in [Small(S, 0) -> Int]
      OBVIOUS
    <2>4. QED
      BY <2>2, <2>3
  <1>2. ASSUME NEW n \in Nat, n \in Good PROVE n + 1 \in Good
    <2>1. PICK f \in [Small(S, n) -> Int] : \A s \in Small(S, n) : f[s] = Step(f, s)
      BY <1>2
    <2> DEFINE g == [s \in Small(S, n + 1) |-> Step(f, s)]
    <2>2. ASSUME NEW s \in Small(S, n + 1), s # {}
          PROVE  /\ Pick(s) \in S /\ s \ {Pick(s)} \in Small(S, n)
                 /\ s \ {Pick(s)} \in Small(S, n + 1)
      <3>1. s \in SUBSET S /\ Pick(s) \in s
        BY <2>2, PickIn DEF Small
      <3>2. s \ {Pick(s)} \in SUBSET S /\ Cardinality(s \ {Pick(s)}) = Cardinality(s) - 1
            /\ Cardinality(s) \in Nat
        BY <3>1, LoseOne
      <3>3. Cardinality(s) <= n + 1
        BY DEF Small
      <3>4. QED
        BY <3>1, <3>2, <3>3 DEF Small
    <2>3. g \in [Small(S, n + 1) -> Int]
      <3> SUFFICES ASSUME NEW s \in Small(S, n + 1) PROVE Step(f, s) \in Int
        OBVIOUS
      <3>1. CASE s = {}
        BY <3>1
      <3>2. CASE s # {}
        <4>1. w[Pick(s)] \in Int /\ f[s \ {Pick(s)}] \in Int
          BY <2>2, <3>2
        <4>2. QED
          BY <3>2, <4>1
      <3>3. QED
        BY <3>1, <3>2
    <2>4. \A s \in Small(S, n + 1) : g[s] = Step(g, s)
      <3> SUFFICES ASSUME NEW s \in Small(S, n + 1), s # {} PROVE g[s] = Step(g, s)
        OBVIOUS
      <3> DEFINE t == s \ {Pick(s)}
      <3>1. t \in Small(S, n) /\ t \in Small(S, n + 1)
        BY <2>2
      <3>2. g[t] = Step(f, t)
        BY <3>1
      <3>3. f[t] = Step(f, t)
        BY <2>1, <3>1
      <3>4. g[s] = w[Pick(s)] + f[t]
        OBVIOUS
      <3>5. QED
        BY <3>2, <3>3, <3>4
    <2> HIDE DEF g
    <2>5. \E e \in [Small(S, n + 1) -> Int] : \A s \in Small(S, n + 1) : e[s] = Step(e, s)
      BY <2>3, <2>4
    <2>6. QED
      BY <2>5
  <1>3. Cardinality(S) \in Nat
    BY FS_CardinalityType
  <1>4. Cardinality(S) \in Good
    <2> HIDE DEF Good
    <2>1. \A n \in Nat : n \in Good
      BY <1>1, <1>2, NatInduct
    <2>2. QED
      BY <1>3, <2>1
  <1>5. Small(S, Cardinality(S)) = SUBSET S
    <2>1. \A s \in SUBSET S : Cardinality(s) <= Cardinality(S)
      BY FS_Subset
    <2>2. QED
      BY <2>1 DEF Small
  <1>6. PICK f \in [SUBSET S -> Int] : \A s \in SUBSET S : f[s] = Step(f, s)
    BY <1>4, <1>5
  <1>7. f = [s \in SUBSET S |-> Step(f, s)]
    BY <1>6
  <1>8. QED
    BY <1>7 DEF PartialSums

\* Partial sums, unfolded.
LEMMA Unfold ==
    ASSUME NEW S, NEW w, NEW f, PartialSums(f, S, w)
    PROVE  /\ f[{}] = 0
           /\ \A s \in SUBSET S : s # {} => f[s] = w[Pick(s)] + f[s \ {Pick(s)}]
  BY DEF PartialSums

\* It is immaterial which element is taken first.
LEMMA AnyOrder ==
    ASSUME NEW S, NEW w, NEW f, Sums(f, S, w)
    PROVE  \A s \in SUBSET S : \A x \in s : f[s] = w[x] + f[s \ {x}]
  <1>0. /\ IsFiniteSet(S) /\ w \in [S -> Int] /\ f \in [SUBSET S -> Int]
        /\ PartialSums(f, S, w)
    BY DEF Sums
  <1> DEFINE Good == {s \in SUBSET S : \A x \in s : f[s] = w[x] + f[s \ {x}]}
  <1>1. ASSUME NEW s \in SUBSET S, \A x \in s : s \ {x} \in Good,
               NEW x \in s
        PROVE  f[s] = w[x] + f[s \ {x}]
    <2> DEFINE c == Pick(s)
               u == s \ {c, x}
    <2>1. c \in s
      BY PickIn
    <2>2. f[s] = w[c] + f[s \ {c}]
      BY <2>1, <1>0, Unfold
    <2> HIDE DEF c
    <2>3. CASE c = x
      BY <2>2, <2>3
    <2>4. CASE c # x
      <3>1. (s \ {c}) \ {x} = u /\ (s \ {x}) \ {c} = u
        OBVIOUS
      <3>2. f[s \ {c}] = w[x] + f[u]
        <4>1. s \ {c} \in Good /\ x \in s \ {c}
          BY <1>1, <2>1, <2>4
        <4>2. QED
          BY <3>1, <4>1
      <3>3. f[s \ {x}] = w[c] + f[u]
        <4>1. s \ {x} \in Good /\ c \in s \ {x}
          BY <1>1, <2>1, <2>4
        <4>2. QED
          BY <3>1, <4>1
      <3>4. f[u] \in Int /\ w[c] \in Int /\ w[x] \in Int
        BY <1>0, <2>1
      <3>5. QED
        BY <2>2, <3>2, <3>3, <3>4
    <2>5. QED
      BY <2>3, <2>4
  <1>2. Growing(S, Good)
    BY <1>1 DEF Growing
  <1>3. SUBSET S \subseteq Good
    <2> HIDE DEF Good
    <2>1. QED
      BY <1>0, <1>2, SubsetInduct
  <1>4. QED
    BY <1>3

\* The partial sums of two functions that differ in one place.
LEMMA PartialSumsChange ==
    ASSUME NEW S, NEW v, NEW w, NEW f, NEW g, Sums(f, S, v), Sums(g, S, w),
           NEW x \in S, \A y \in S : y # x => w[y] = v[y]
    PROVE  g[S] = f[S] - v[x] + w[x]
  <1>0. /\ IsFiniteSet(S) /\ v \in [S -> Int] /\ f \in [SUBSET S -> Int]
        /\ w \in [S -> Int] /\ PartialSums(f, S, v) /\ PartialSums(g, S, w)
    BY DEF Sums
  <1> DEFINE Good == {s \in SUBSET S : x \notin s => g[s] = f[s]}
  <1>1. ASSUME NEW s \in SUBSET S, \A y \in s : s \ {y} \in Good, x \notin s
        PROVE  g[s] = f[s]
    <2>1. CASE s = {}
      BY <2>1, <1>0, Unfold
    <2>2. CASE s # {}
      <3>1. Pick(s) \in s
        BY <2>2, PickIn
      <3>2. g[s \ {Pick(s)}] = f[s \ {Pick(s)}]
        BY <1>1, <3>1
      <3>3. w[Pick(s)] = v[Pick(s)]
        BY <1>1, <3>1
      <3>4. /\ f[s] = v[Pick(s)] + f[s \ {Pick(s)}]
            /\ g[s] = w[Pick(s)] + g[s \ {Pick(s)}]
        BY <2>2, <1>0, Unfold
      <3>5. QED
        BY <3>2, <3>3, <3>4
    <2>3. QED
      BY <2>1, <2>2
  <1>2. Growing(S, Good)
    BY <1>1 DEF Growing
  <1>3. SUBSET S \subseteq Good
    <2> HIDE DEF Good
    <2>1. QED
      BY <1>0, <1>2, SubsetInduct
  <1>4. g[S \ {x}] = f[S \ {x}]
    <2>1. S \ {x} \in Good
      BY <1>3
    <2>2. QED
      BY <2>1
  <1>5. f[S] = v[x] + f[S \ {x}]
    BY AnyOrder
  <1>6. g[S] = w[x] + g[S \ {x}]
    BY AnyOrder
  <1>7. f[S \ {x}] \in Int /\ v[x] \in Int /\ w[x] \in Int
    BY <1>0
  <1> HIDE DEF Good
  <1>8. QED
    BY <1>4, <1>5, <1>6, <1>7

\* There is only one function of partial sums.
LEMMA PartialSumsUnique ==
    ASSUME NEW S, IsFiniteSet(S), NEW w, NEW f, NEW g,
           PartialSums(f, S, w), PartialSums(g, S, w)
    PROVE  f = g
  <1> DEFINE Good == {s \in SUBSET S : g[s] = f[s]}
  <1>1. ASSUME NEW s \in SUBSET S, \A y \in s : s \ {y} \in Good
        PROVE  g[s] = f[s]
    <2>1. CASE s = {}
      BY <2>1, Unfold
    <2>2. CASE s # {}
      <3>1. g[s \ {Pick(s)}] = f[s \ {Pick(s)}]
        BY <1>1, <2>2, PickIn
      <3>2. /\ f[s] = w[Pick(s)] + f[s \ {Pick(s)}]
            /\ g[s] = w[Pick(s)] + g[s \ {Pick(s)}]
        BY <2>2, Unfold
      <3>3. QED
        BY <3>1, <3>2
    <2>3. QED
      BY <2>1, <2>2
  <1>2. Growing(S, Good)
    BY <1>1 DEF Growing
  <1>3. SUBSET S \subseteq Good
    <2> HIDE DEF Good
    <2>1. QED
      BY <1>2, SubsetInduct
  <1>4. f = [s \in SUBSET S |-> f[s]] /\ g = [s \in SUBSET S |-> g[s]]
    BY DEF PartialSums
  <1>5. QED
    BY <1>3, <1>4

\* Sums of what is not negative are not negative.
LEMMA PartialSumsNat ==
    ASSUME NEW S, NEW w \in [S -> Nat], NEW f, IsFiniteSet(S), PartialSums(f, S, w)
    PROVE  \A s \in SUBSET S : f[s] \in Nat
  <1> DEFINE Good == {s \in SUBSET S : f[s] \in Nat}
  <1>1. ASSUME NEW s \in SUBSET S, \A y \in s : s \ {y} \in Good
        PROVE  f[s] \in Nat
    <2>1. CASE s = {}
      BY <2>1, Unfold
    <2>2. CASE s # {}
      <3>1. Pick(s) \in s /\ f[s \ {Pick(s)}] \in Nat
        BY <1>1, <2>2, PickIn
      <3>2. f[s] = w[Pick(s)] + f[s \ {Pick(s)}] /\ w[Pick(s)] \in Nat
        BY <2>2, <3>1, Unfold
      <3>3. QED
        BY <3>1, <3>2
    <2>3. QED
      BY <2>1, <2>2
  <1>2. Growing(S, Good)
    BY <1>1 DEF Growing
  <1>3. SUBSET S \subseteq Good
    <2> HIDE DEF Good
    <2>1. QED
      BY <1>2, SubsetInduct
  <1>4. QED
    BY <1>3

\* If all is zero, so are the sums.
LEMMA PartialSumsZero ==
    ASSUME NEW S, IsFiniteSet(S), NEW w, \A x \in S : w[x] = 0,
           NEW f, PartialSums(f, S, w)
    PROVE  \A s \in SUBSET S : f[s] = 0
  <1> DEFINE Good == {s \in SUBSET S : f[s] = 0}
  <1>1. ASSUME NEW s \in SUBSET S, \A y \in s : s \ {y} \in Good
        PROVE  f[s] = 0
    <2>1. CASE s = {}
      BY <2>1, Unfold
    <2>2. CASE s # {}
      <3>1. Pick(s) \in s /\ f[s \ {Pick(s)}] = 0
        BY <1>1, <2>2, PickIn
      <3>2. f[s] = w[Pick(s)] + f[s \ {Pick(s)}] /\ w[Pick(s)] = 0
        BY <2>2, <3>1, Unfold
      <3>3. QED
        BY <3>1, <3>2
    <2>3. QED
      BY <2>1, <2>2
  <1>2. Growing(S, Good)
    BY <1>1 DEF Growing
  <1>3. SUBSET S \subseteq Good
    <2> HIDE DEF Good
    <2>1. QED
      BY <1>2, SubsetInduct
  <1>4. QED
    BY <1>3

-----------------------------------------------------------------------------
(* The sum *)

\* The sum is the partial sum over all of S.
LEMMA TotalIs ==
    ASSUME NEW S, IsFiniteSet(S), NEW w \in [S -> Int]
    PROVE  \E f \in [SUBSET S -> Int] : PartialSums(f, S, w) /\ Total(S, w) = f[S]
  <1>1. PICK f \in [SUBSET S -> Int] : PartialSums(f, S, w)
    BY PartialSumsExist
  <1> DEFINE iter == CHOOSE g : PartialSums(g, S, w)
  <1>2. PartialSums(iter, S, w)
    BY <1>1
  <1>3. iter = f
    <2> HIDE DEF iter
    <2>1. QED
      BY <1>1, <1>2, PartialSumsUnique
  <1>4. Total(S, w) = iter[S]
    BY DEF Total, MapThenSumSet, MapThenFoldSet, PartialSums, Pick
  <1>5. QED
    BY <1>1, <1>3, <1>4

\* A sum is a whole number, not negative if no term is, and zero if all terms are.
THEOREM TotalType ==
    ASSUME NEW S, IsFiniteSet(S), NEW w \in [S -> Int]
    PROVE  /\ Total(S, w) \in Int
           /\ w \in [S -> Nat] => Total(S, w) \in Nat
           /\ (\A x \in S : w[x] = 0) => Total(S, w) = 0
  <1>1. PICK f \in [SUBSET S -> Int] : PartialSums(f, S, w) /\ Total(S, w) = f[S]
    BY TotalIs
  <1>2. S \in SUBSET S
    OBVIOUS
  <1>3. ASSUME w \in [S -> Nat] PROVE f[S] \in Nat
    BY <1>1, <1>2, <1>3, PartialSumsNat
  <1>4. ASSUME \A x \in S : w[x] = 0 PROVE f[S] = 0
    BY <1>1, <1>2, <1>4, PartialSumsZero
  <1>5. QED
    BY <1>1, <1>2, <1>3, <1>4

\* A sum changes by what one of its terms changes by, if the others stay.
LEMMA TotalChange ==
    ASSUME NEW S, IsFiniteSet(S), NEW v \in [S -> Int], NEW w \in [S -> Int],
           NEW x \in S, \A y \in S : y # x => w[y] = v[y]
    PROVE  Total(S, w) = Total(S, v) - v[x] + w[x]
  <1>1. PICK f \in [SUBSET S -> Int] : PartialSums(f, S, v) /\ Total(S, v) = f[S]
    BY TotalIs
  <1>2. PICK g \in [SUBSET S -> Int] : PartialSums(g, S, w) /\ Total(S, w) = g[S]
    BY TotalIs
  <1>3. Sums(f, S, v) /\ Sums(g, S, w)
    BY <1>1, <1>2 DEF Sums
  <1>4. g[S] = f[S] - v[x] + w[x]
    BY <1>3, PartialSumsChange
  <1>5. QED
    BY <1>1, <1>2, <1>4
=============================================================================
