----------------------------- MODULE SumLemmas -----------------------------
(***************************************************************************)
(* Facts about SumFunction, the sum of a function over its finite domain,  *)
(* that the proofs about money cite.  SumFunction is a fold, that is, a    *)
(* function CHOSEN among those that satisfy a recursive equation: the      *)
(* first lemmas show that there is one, that it adds up the elements in    *)
(* any order, and that two sums agree where their functions do.  The last  *)
(* sections are about lists and about the extremes of a few numbers.       *)
(***************************************************************************)
EXTENDS Integers, Sequences, SequencesExt, Functions, FiniteSetTheorems, TLAPS

(***************************************************************************)
(* Induction, from the well-foundedness of < and of strict inclusion.      *)
(***************************************************************************)
\* A set with 0 that is closed under successor has every natural number.
LEMMA Counting ==
    ASSUME NEW S, 0 \in S, \A n \in Nat : n \in S => n + 1 \in S
    PROVE  Nat \subseteq S
  <1>1. SUFFICES ASSUME Nat \ S # {} PROVE FALSE
    OBVIOUS
  <1>2. PICK m \in Nat \ S : \A y \in Nat \ S : <<y, m>> \notin OpToRel(<, Nat)
    BY <1>1, NatLessThanWellFounded, WFMin
  <1>3. \A y \in Nat \ S : ~(y < m)
    BY <1>2 DEF OpToRel
  <1>4. m \in Nat /\ m # 0
    OBVIOUS
  <1>5. m - 1 \in Nat /\ m - 1 < m /\ (m - 1) + 1 = m
    BY <1>4
  <1>6. QED
    BY <1>3, <1>4, <1>5

\* Counting up to a bound.
LEMMA CountingTo ==
    ASSUME NEW L \in Nat, NEW S, 0 \in S, \A n \in 0 .. L : n \in S /\ n < L => n + 1 \in S
    PROVE  0 .. L \subseteq S
  <1> DEFINE T == {n \in Nat : n <= L => n \in S}
  <1>1. 0 \in T
    OBVIOUS
  <1>2. \A n \in Nat : n \in T => n + 1 \in T
    OBVIOUS
  <1>3. Nat \subseteq T
    <2> HIDE DEF T
    <2>1. QED
      BY <1>1, <1>2, Counting
  <1>4. QED
    BY <1>3

\* A non-empty set of subsets of a finite set has a minimal member.
LEMMA SmallestSet ==
    ASSUME NEW D, IsFiniteSet(D), NEW T \in SUBSET SUBSET D, T # {}
    PROVE  \E m \in T : \A s \in T : s \subseteq m => s = m
  <1>1. FiniteSubsetsOf(D) = SUBSET D
    BY FS_FiniteSubsetsOfFinite
  <1>2. IsWellFoundedOn(StrictSubsetOrdering(D), SUBSET D)
    BY <1>1, FS_StrictSubsetOrderingWellFounded
  <1>3. PICK m \in T : \A s \in T : <<s, m>> \notin StrictSubsetOrdering(D)
    BY <1>2, WFMin
  <1>4. QED
    BY <1>3 DEF StrictSubsetOrdering

(***************************************************************************)
(* The fold behind SumFunction.                                            *)
(***************************************************************************)
\* One unfolding of the fold g of f at s.
FoldStep(f, g, s) == IF s = {} THEN 0
                     ELSE f[CHOOSE x \in s : TRUE] + g[s \ {CHOOSE x \in s : TRUE}]

\* g is a fold of f over the subsets of D.
IsFold(f, g, D) == g = [s \in SUBSET D |-> FoldStep(f, g, s)]

\* SumFunction takes its value from a fold.
LEMMA SumUnfolds ==
    ASSUME NEW f
    PROVE  SumFunction(f) = (CHOOSE g : IsFold(f, g, DOMAIN f))[DOMAIN f]
  BY DEF SumFunction, SumFunctionOnSet, FoldFunctionOnSet, MapThenFoldSet, FoldStep, IsFold

\* The recursive equation of the fold has a solution, however many elements
\* there are to add.
LEMMA FoldExists ==
    ASSUME NEW D, IsFiniteSet(D), NEW f
    PROVE  \E g : IsFold(f, g, D)
  <1> DEFINE Small(n) == {s \in SUBSET D : Cardinality(s) <= n}
             Fits(n) == \E g : g = [s \in Small(n) |-> FoldStep(f, g, s)]
             N == {n \in Nat : Fits(n)}
  <1>1. \A s \in SUBSET D : IsFiniteSet(s) /\ Cardinality(s) \in Nat
    BY FS_Subset, FS_CardinalityType
  <1>2. 0 \in N
    <2>1. \A s \in Small(0) : s = {}
      BY <1>1, FS_EmptySet
    <2>2. [s \in Small(0) |-> 0] = [s \in Small(0) |-> FoldStep(f, [t \in Small(0) |-> 0], s)]
      BY <2>1 DEF FoldStep
    <2>3. QED
      BY <2>2
  <1>3. ASSUME NEW n \in Nat, n \in N PROVE n + 1 \in N
    <2>1. PICK g : g = [s \in Small(n) |-> FoldStep(f, g, s)]
      BY <1>3
    <2> DEFINE h == [s \in Small(n + 1) |-> FoldStep(f, g, s)]
    <2>2. \A s \in Small(n) : s \in Small(n + 1) /\ h[s] = g[s]
      BY <1>1, <2>1
    <2>3. ASSUME NEW s \in Small(n + 1) PROVE FoldStep(f, g, s) = FoldStep(f, h, s)
      <3>1. CASE s = {}
        BY <3>1 DEF FoldStep
      <3>2. CASE s # {}
        <4> DEFINE x == CHOOSE x \in s : TRUE
        <4>1. x \in s
          BY <3>2
        <4>2. s \ {x} \in SUBSET D /\ Cardinality(s \ {x}) = Cardinality(s) - 1
          BY <1>1, <4>1, FS_RemoveElement
        <4>3. s \ {x} \in Small(n)
          BY <1>1, <4>2
        <4>4. QED
          BY <2>2, <3>2, <4>3 DEF FoldStep
      <3>3. QED
        BY <3>1, <3>2
    <2>4. h = [s \in Small(n + 1) |-> FoldStep(f, h, s)]
      BY <2>3
    <2>5. Fits(n + 1)
      BY <2>4
    <2> HIDE DEF Fits
    <2>6. QED
      BY <2>5
  <1>4. Nat \subseteq N
    <2> HIDE DEF N
    <2>1. QED
      BY <1>2, <1>3, Counting
  <1>5. Cardinality(D) \in N
    BY <1>1, <1>4
  <1>6. Small(Cardinality(D)) = SUBSET D
    BY <1>1, FS_Subset
  <1>7. QED
    BY <1>5, <1>6 DEF IsFold

\* g adds up f over every subset of D, whichever element is taken first.
IsTotal(f, g, D) ==
    /\ g[{}] = 0
    /\ \A s \in SUBSET D : g[s] \in Int
    /\ \A s \in SUBSET D : \A x \in s : g[s] = f[x] + g[s \ {x}]

\* A fold adds up its elements in any order.
LEMMA FoldTotals ==
    ASSUME NEW D, IsFiniteSet(D), NEW f, \A i \in D : f[i] \in Int,
           NEW g, IsFold(f, g, D)
    PROVE  IsTotal(f, g, D)
  <1>1. g[{}] = 0
    BY DEF IsFold, FoldStep
  <1>2. \A s \in SUBSET D : s # {} => \E c \in s : g[s] = f[c] + g[s \ {c}]
    <2>1. SUFFICES ASSUME NEW s \in SUBSET D, s # {}
                   PROVE  \E c \in s : g[s] = f[c] + g[s \ {c}]
      OBVIOUS
    <2> DEFINE c == CHOOSE c \in s : TRUE
    <2>2. c \in s
      BY <2>1
    <2>3. g[s] = f[c] + g[s \ {c}]
      BY <2>1 DEF IsFold, FoldStep
    <2>4. QED
      BY <2>2, <2>3
  <1> DEFINE Good(s) == /\ g[s] \in Int
                        /\ \A x \in s : g[s] = f[x] + g[s \ {x}]
             Bad == {s \in SUBSET D : ~Good(s)}
  <1>3. SUFFICES Bad = {}
    BY <1>1 DEF IsTotal
  <1>4. Bad \in SUBSET SUBSET D
    OBVIOUS
  <1>5. ASSUME NEW m \in Bad, \A s \in Bad : s \subseteq m => s = m
        PROVE  FALSE
    <2>1. m \in SUBSET D /\ ~Good(m)
      OBVIOUS
    <2>2. m # {}
      BY <1>1, <2>1
    <2>3. PICK c \in m : g[m] = f[c] + g[m \ {c}]
      BY <1>2, <2>1, <2>2
    <2>4. ASSUME NEW s \in SUBSET D, s \subseteq m, s # m PROVE Good(s)
      BY <1>5, <2>4
    <2> HIDE DEF Bad
    <2>5. \A x \in m : m \ {x} \in SUBSET D /\ Good(m \ {x})
      <3>1. SUFFICES ASSUME NEW x \in m PROVE m \ {x} \in SUBSET D /\ Good(m \ {x})
        OBVIOUS
      <3>2. m \ {x} \in SUBSET D /\ m \ {x} \subseteq m /\ m \ {x} # m
        BY <2>1
      <3> HIDE DEF Good
      <3>3. QED
        BY <2>4, <3>2
    <2>6. c \in D /\ g[m \ {c}] \in Int
      BY <2>1, <2>5
    <2>7. g[m] \in Int
      BY <2>3, <2>6
    <2>8. ASSUME NEW x \in m PROVE g[m] = f[x] + g[m \ {x}]
      <3>1. CASE x = c
        BY <2>3, <3>1
      <3>2. CASE x # c
        <4> DEFINE r == m \ {c, x}
        <4>1. r = (m \ {c}) \ {x} /\ r = (m \ {x}) \ {c}
          OBVIOUS
        <4>2. x \in m \ {c} /\ c \in m \ {x}
          BY <3>2
        <4>3. /\ g[m \ {c}] = f[x] + g[r]
              /\ g[m \ {x}] = f[c] + g[r]
          BY <2>5, <4>1, <4>2
        <4>4. r \in SUBSET D /\ Good(r)
          <5>1. r \in SUBSET D /\ r \subseteq m /\ r # m
            BY <2>1
          <5> HIDE DEF Good, r
          <5>2. QED
            BY <2>4, <5>1
        <4>5. g[r] \in Int /\ f[x] \in Int /\ f[c] \in Int
          BY <2>1, <4>4
        <4> HIDE DEF r, Good
        <4>6. QED
          BY <2>3, <4>3, <4>5
      <3>3. QED
        BY <3>1, <3>2
    <2>9. QED
      BY <2>1, <2>7, <2>8
  <1> HIDE DEF Bad
  <1>6. QED
    BY <1>4, <1>5, SmallestSet

\* Two totals agree on the elements on which their functions do.
LEMMA TotalsAgree ==
    ASSUME NEW D, IsFiniteSet(D), NEW f, NEW g, NEW h, NEW k,
           IsTotal(f, g, D), NEW E, IsTotal(k, h, E), D \subseteq E,
           \A i \in D : f[i] = k[i]
    PROVE  g[D] = h[D]
  <1> DEFINE Bad == {s \in SUBSET D : g[s] # h[s]}
  <1>1. SUFFICES Bad = {}
    OBVIOUS
  <1>2. Bad \in SUBSET SUBSET D
    OBVIOUS
  <1>3. ASSUME NEW m \in Bad, \A s \in Bad : s \subseteq m => s = m
        PROVE  FALSE
    <2>1. m \in SUBSET D /\ m \in SUBSET E /\ g[m] # h[m]
      OBVIOUS
    <2>2. PICK x \in m : TRUE
      BY <2>1 DEF IsTotal
    <2>3. m \ {x} \in SUBSET D /\ m \ {x} \subseteq m /\ m \ {x} # m
      BY <2>1
    <2>4. g[m \ {x}] = h[m \ {x}]
      BY <1>3, <2>3
    <2>5. g[m] = f[x] + g[m \ {x}] /\ h[m] = k[x] + h[m \ {x}] /\ f[x] = k[x]
      BY <2>1 DEF IsTotal
    <2>6. QED
      BY <2>1, <2>4, <2>5
  <1> HIDE DEF Bad
  <1>4. QED
    BY <1>2, <1>3, SmallestSet

\* g totals f and SumFunction is its value at the domain.
LEMMA SumTotals ==
    ASSUME NEW D, IsFiniteSet(D), NEW f \in [D -> Int]
    PROVE  \E g : IsTotal(f, g, D) /\ SumFunction(f) = g[D]
  <1> DEFINE g == CHOOSE g : IsFold(f, g, D)
  <1>1. IsFold(f, g, D)
    BY FoldExists
  <1>2. IsTotal(f, g, D)
    BY <1>1, FoldTotals
  <1>3. SumFunction(f) = g[D]
    BY SumUnfolds
  <1>4. QED
    BY <1>2, <1>3

(***************************************************************************)
(* What the proofs about the components cite.  The hypotheses are named,   *)
(* so that a prover matches them as they are.                              *)
(***************************************************************************)
\* A function with a finite domain and integer values.
Summable(f, D) == IsFiniteSet(D) /\ f \in [D -> Int]

\* Two functions agree on D.
Agree(f, g, D) == \A i \in D : f[i] = g[i]

\* G is made of two disjoint parts.
SplitsInto(G, D, E) == G = D \cup E /\ D \cap E = {}

\* g is the part of f over M, and f is 0 elsewhere.
PartOf(g, M, f, D) ==
    M \subseteq D /\ (\A i \in M : f[i] = g[i]) /\ (\A i \in D \ M : f[i] = 0)

\* g starts at 0 and grows by the terms of f, one after the other.
Grows(g, f, n) ==
    g[0] = 0 /\ \A k \in 0 .. n : g[k] \in Int /\ (k < n => g[k + 1] = g[k] + f[k + 1])

\* f is d for the first m numbers and e for the n that follow.
Follows(f, d, m, e, n) ==
    /\ m \in Nat /\ n \in Nat
    /\ f \in [1 .. (m + n) -> Int] /\ d \in [1 .. m -> Int] /\ e \in [1 .. n -> Int]
    /\ \A i \in 1 .. m : f[i] = d[i]
    /\ \A k \in 1 .. n : f[m + k] = e[k]

\* h numbers the elements of E by those of D, and e is f so renumbered.
Renumbers(h, D, E, e, f) ==
    /\ {h[i] : i \in D} = E
    /\ \A i, j \in D : h[i] = h[j] => i = j
    /\ \A i \in D : e[i] = f[h[i]]

\* A sum of integers is an integer.
LEMMA SumType ==
    ASSUME NEW f, NEW D, Summable(f, D)
    PROVE  SumFunction(f) \in Int
  <1>1. PICK g : IsTotal(f, g, D) /\ SumFunction(f) = g[D]
    BY SumTotals DEF Summable
  <1>2. QED
    BY <1>1 DEF IsTotal

\* The sum of nothing is 0.
LEMMA SumEmpty ==
    ASSUME NEW f, DOMAIN f = {}
    PROVE  SumFunction(f) = 0
  <1>1. IsFiniteSet({})
    BY FS_EmptySet
  <1> DEFINE g == CHOOSE g : IsFold(f, g, DOMAIN f)
  <1>2. IsFold(f, g, {})
    BY <1>1, FoldExists
  <1>3. g[{}] = 0
    BY <1>2 DEF IsFold, FoldStep
  <1>4. QED
    BY <1>3, SumUnfolds

\* The sum of zeros is 0.
LEMMA SumZeros ==
    ASSUME NEW f, NEW D, Summable(f, D), \A i \in D : f[i] = 0
    PROVE  SumFunction(f) = 0
  <1>1. PICK g : IsTotal(f, g, D) /\ SumFunction(f) = g[D]
    BY SumTotals DEF Summable
  <1>2. PICK h : h = [s \in SUBSET D |-> 0]
    OBVIOUS
  <1>3. IsTotal(f, h, D)
    BY <1>2 DEF IsTotal
  <1>4. IsFiniteSet(D) /\ D \subseteq D
    BY DEF Summable
  <1>5. g[D] = h[D]
    BY <1>1, <1>3, <1>4, TotalsAgree
  <1>6. QED
    BY <1>1, <1>2, <1>5

\* The sum of natural numbers is one.
LEMMA SumIsNatural ==
    ASSUME NEW f, NEW D, Summable(f, D), \A i \in D : f[i] \in Nat
    PROVE  SumFunction(f) \in Nat
  <1>1. PICK g : IsTotal(f, g, D) /\ SumFunction(f) = g[D]
    BY SumTotals DEF Summable
  <1> DEFINE Bad == {s \in SUBSET D : g[s] \notin Nat}
  <1>2. SUFFICES Bad = {}
    BY <1>1
  <1>3. Bad \in SUBSET SUBSET D
    OBVIOUS
  <1>4. ASSUME NEW m \in Bad, \A s \in Bad : s \subseteq m => s = m
        PROVE  FALSE
    <2>1. m \in SUBSET D /\ g[m] \notin Nat /\ g[{}] = 0
      BY <1>1 DEF IsTotal
    <2>2. PICK x \in m : TRUE
      <3>1. m # {}
        BY <2>1
      <3>2. QED
        BY <3>1
    <2>3. m \ {x} \in SUBSET D /\ m \ {x} \subseteq m /\ m \ {x} # m
      BY <2>1
    <2>4. g[m \ {x}] \in Nat
      BY <1>4, <2>3
    <2>5. g[m] = f[x] + g[m \ {x}] /\ f[x] \in Nat
      BY <1>1, <2>1 DEF IsTotal
    <2>6. QED
      BY <2>1, <2>4, <2>5
  <1>5. IsFiniteSet(D)
    BY DEF Summable
  <1> HIDE DEF Bad
  <1>6. QED
    BY <1>3, <1>4, <1>5, SmallestSet

\* Taking one element out of a sum.
LEMMA SumWithout ==
    ASSUME NEW f, NEW D, Summable(f, D), NEW x \in D,
           NEW e, Summable(e, D \ {x}), Agree(f, e, D \ {x})
    PROVE  SumFunction(f) = SumFunction(e) + f[x]
  <1>1. PICK g : IsTotal(f, g, D) /\ SumFunction(f) = g[D]
    BY SumTotals DEF Summable
  <1>2. PICK h : IsTotal(e, h, D \ {x}) /\ SumFunction(e) = h[D \ {x}]
    BY SumTotals DEF Summable
  <1>3. /\ IsFiniteSet(D \ {x}) /\ D \ {x} \subseteq D
        /\ \A i \in D \ {x} : e[i] = f[i]
    BY DEF Summable, Agree
  <1>4. h[D \ {x}] = g[D \ {x}]
    BY <1>1, <1>2, <1>3, TotalsAgree
  <1>5. g[D] = f[x] + g[D \ {x}] /\ g[D \ {x}] \in Int /\ f[x] \in Int
    BY <1>1 DEF IsTotal, Summable
  <1>6. QED
    BY <1>1, <1>2, <1>4, <1>5

\* Adding one element to a sum.
LEMMA SumWith ==
    ASSUME NEW f, NEW D, Summable(f, D), NEW x, x \notin D,
           NEW e, Summable(e, D \cup {x}), Agree(e, f, D)
    PROVE  SumFunction(e) = SumFunction(f) + e[x]
  <1>1. (D \cup {x}) \ {x} = D /\ x \in D \cup {x}
    OBVIOUS
  <1>2. QED
    BY <1>1, SumWithout

\* The sum of one number.
LEMMA SumOne ==
    ASSUME NEW x, NEW f, Summable(f, {x})
    PROVE  SumFunction(f) = f[x]
  <1>1. PICK g : IsTotal(f, g, {x}) /\ SumFunction(f) = g[{x}]
    BY SumTotals DEF Summable
  <1>2. {x} \ {x} = {} /\ {x} \in SUBSET {x} /\ x \in {x} /\ f[x] \in Int
    BY DEF Summable
  <1>3. g[{x}] = f[x] + g[{x} \ {x}] /\ g[{}] = 0
    BY <1>1, <1>2 DEF IsTotal
  <1>4. g[{x} \ {x}] = 0
    BY <1>2, <1>3, Zenon
  <1>5. QED
    BY <1>1, <1>2, <1>3, <1>4

\* The sums over two disjoint sets add up to the sum over their union.
LEMMA SumUnion ==
    ASSUME NEW d, NEW D, Summable(d, D), NEW e, NEW E, Summable(e, E),
           NEW G, SplitsInto(G, D, E), NEW f, Summable(f, G),
           Agree(f, d, D), Agree(f, e, E)
    PROVE  SumFunction(f) = SumFunction(d) + SumFunction(e)
  <1> USE DEF SplitsInto
  <1>1. PICK g : IsTotal(d, g, D) /\ SumFunction(d) = g[D]
    BY SumTotals DEF Summable
  <1>2. PICK h : IsTotal(e, h, E) /\ SumFunction(e) = h[E]
    BY SumTotals DEF Summable
  <1>3. PICK k : IsTotal(f, k, G) /\ SumFunction(f) = k[G]
    BY SumTotals DEF Summable
  <1>4. g[D] = k[D]
    <2>1. IsFiniteSet(D) /\ \A i \in D : d[i] = f[i]
      BY DEF Summable, Agree
    <2>2. QED
      BY <1>1, <1>3, <2>1, TotalsAgree
  <1> DEFINE Bad == {s \in SUBSET E : k[D \cup s] # g[D] + h[s]}
  <1>5. Bad \in SUBSET SUBSET E /\ IsFiniteSet(E)
    BY DEF Summable
  <1>6. ASSUME NEW m \in Bad, \A s \in Bad : s \subseteq m => s = m
        PROVE  FALSE
    <2>1. m \in SUBSET E /\ k[D \cup m] # g[D] + h[m]
      OBVIOUS
    <2>2. g[D] \in Int
      BY <1>1 DEF IsTotal
    <2>3. CASE m = {}
      <3>1. D \cup m = D
        BY <2>3
      <3>2. h[m] = 0
        BY <1>2, <2>3 DEF IsTotal
      <3>3. k[D \cup m] = k[D]
        BY <3>1
      <3>4. QED
        BY <1>4, <2>1, <2>2, <3>2, <3>3
    <2>4. ASSUME NEW x \in m PROVE FALSE
      <3>1. m \ {x} \in SUBSET E /\ m \ {x} \subseteq m /\ m \ {x} # m
        BY <2>1
      <3>2. k[D \cup (m \ {x})] = g[D] + h[m \ {x}]
        BY <1>6, <3>1
      <3>3. (D \cup m) \ {x} = D \cup (m \ {x}) /\ D \cup m \in SUBSET G
            /\ x \in D \cup m
        BY <2>1
      <3>4. k[D \cup m] = f[x] + k[D \cup (m \ {x})]
        BY ZenonT(40), <1>3, <3>3 DEF IsTotal
      <3>5. h[m] = e[x] + h[m \ {x}] /\ h[m \ {x}] \in Int
        BY <1>2, <2>1, <3>1 DEF IsTotal
      <3>6. f[x] = e[x] /\ e[x] \in Int
        BY <2>1 DEF Agree, Summable
      <3>7. QED
        BY <2>1, <2>2, <3>2, <3>4, <3>5, <3>6
    <2>5. QED
      BY <2>3, <2>4
  <1>7. E \notin Bad
    <2> HIDE DEF Bad
    <2>1. Bad = {}
      BY <1>5, <1>6, SmallestSet
    <2>2. QED
      BY <2>1
  <1>8. QED
    BY <1>1, <1>2, <1>3, <1>7

\* A sum does not depend on how its terms are numbered.
LEMMA SumImage ==
    ASSUME NEW D, NEW e, Summable(e, D), NEW E, NEW f, f \in [E -> Int],
           NEW h, Renumbers(h, D, E, e, f)
    PROVE  SumFunction(e) = SumFunction(f)
  <1> DEFINE Img(s) == {h[i] : i \in s}
  <1>1. Img(D) = E
    BY DEF Renumbers
  <1>2. IsFiniteSet(D) /\ IsFiniteSet(E)
    <2>1. [i \in D |-> h[i]] \in Surjection(D, E)
      BY DEF Surjection, Renumbers
    <2>2. QED
      BY <2>1, FS_Surjection DEF Summable
  <1>3. PICK g : IsTotal(e, g, D) /\ SumFunction(e) = g[D]
    BY SumTotals DEF Summable
  <1>4. PICK k : IsTotal(f, k, E) /\ SumFunction(f) = k[E]
    BY <1>2, SumTotals
  <1> DEFINE Bad == {s \in SUBSET D : g[s] # k[Img(s)]}
  <1>5. Bad \in SUBSET SUBSET D
    OBVIOUS
  <1>6. ASSUME NEW m \in Bad, \A s \in Bad : s \subseteq m => s = m
        PROVE  FALSE
    <2>1. m \in SUBSET D /\ g[m] # k[Img(m)]
      OBVIOUS
    <2>2. Img(m) \in SUBSET E
      BY <1>1, <2>1
    <2>3. CASE m = {}
      <3>1. Img(m) = {}
        BY <2>3
      <3>2. QED
        BY <1>3, <1>4, <2>1, <2>3, <3>1 DEF IsTotal
    <2>4. ASSUME NEW x \in m PROVE FALSE
      <3>1. m \ {x} \in SUBSET D /\ m \ {x} \subseteq m /\ m \ {x} # m
        BY <2>1
      <3>2. g[m \ {x}] = k[Img(m \ {x})]
        BY <1>6, <3>1
      <3>3. Img(m) \ {h[x]} = Img(m \ {x}) /\ h[x] \in Img(m)
        BY <2>1 DEF Renumbers
      <3>4. e[x] = f[h[x]]
        BY <2>1 DEF Renumbers
      <3> HIDE DEF Img
      <3>5. g[m] = e[x] + g[m \ {x}]
        BY <1>3, <2>1 DEF IsTotal
      <3>6. k[Img(m)] = f[h[x]] + k[Img(m) \ {h[x]}]
        BY <1>4, <2>2, <3>3 DEF IsTotal
      <3>7. QED
        BY <2>1, <3>2, <3>3, <3>4, <3>5, <3>6
    <2>5. QED
      BY <2>3, <2>4
  <1>7. D \notin Bad
    <2> HIDE DEF Bad
    <2>1. Bad = {}
      BY <1>2, <1>5, <1>6, SmallestSet
    <2>2. QED
      BY <2>1
  <1>8. g[D] = k[E]
    BY <1>1, <1>7
  <1>9. QED
    BY <1>3, <1>4, <1>8

\* The sum over a range, in two parts.
LEMMA SumRange ==
    ASSUME NEW f, NEW d, NEW m, NEW e, NEW n, Follows(f, d, m, e, n)
    PROVE  SumFunction(f) = SumFunction(d) + SumFunction(e)
  <1> USE DEF Follows
  <1>1. PICK D, K, E, g, h :
              /\ D = 1 .. m /\ K = 1 .. n /\ E = (m + 1) .. (m + n)
              /\ g = [i \in E |-> f[i]] /\ h = [k \in K |-> m + k]
    OBVIOUS
  <1>2. IsFiniteSet(D) /\ IsFiniteSet(K) /\ IsFiniteSet(E)
    BY <1>1, FS_Interval
  <1>3. SplitsInto(1 .. (m + n), D, E)
    BY <1>1 DEF SplitsInto
  <1>4. IsFiniteSet(1 .. (m + n)) /\ \A i \in E : i \in 1 .. (m + n)
    BY <1>1, FS_Interval
  <1>5. g \in [E -> Int]
    BY <1>1, <1>4
  <1>6. Summable(d, D) /\ Summable(e, K) /\ Summable(g, E) /\ Summable(f, 1 .. (m + n))
    BY <1>1, <1>2, <1>4, <1>5 DEF Summable
  <1>7. Agree(f, d, D) /\ Agree(f, g, E)
    BY <1>1 DEF Agree
  <1>8. SumFunction(f) = SumFunction(d) + SumFunction(g)
    BY <1>3, <1>6, <1>7, SumUnion
  <1>9. \A i \in E : i - m \in K /\ h[i - m] = i
    BY <1>1
  <1>10. \A k \in K : h[k] \in E /\ h[k] = m + k /\ k \in Int
    BY <1>1
  <1>11. {h[k] : k \in K} = E
    BY <1>9, <1>10
  <1>12. \A i, j \in K : h[i] = h[j] => i = j
    BY <1>10
  <1>13. \A k \in K : e[k] = g[h[k]]
    BY <1>1, <1>10
  <1>14. Renumbers(h, K, E, e, g) /\ g \in [E -> Int]
    BY <1>6, <1>11, <1>12, <1>13 DEF Renumbers, Summable
  <1>15. SumFunction(e) = SumFunction(g)
    BY <1>6, <1>14, SumImage
  <1>16. QED
    BY <1>8, <1>15

\* The sum over two sequences, one after the other.
LEMMA SumConcat ==
    ASSUME NEW s \in Seq(Int), NEW t \in Seq(Int)
    PROVE  SumFunction(s \o t) = SumFunction(s) + SumFunction(t)
  <1>1. /\ Len(s) \in Nat /\ Len(t) \in Nat
        /\ s \in [1 .. Len(s) -> Int] /\ t \in [1 .. Len(t) -> Int]
    OBVIOUS
  <1>2. s \o t \in [1 .. (Len(s) + Len(t)) -> Int]
    <2>1. \A f \in Seq(Int) : f \in [1 .. Len(f) -> Int]
      OBVIOUS
    <2>2. s \o t \in Seq(Int) /\ Len(s \o t) = Len(s) + Len(t)
      OBVIOUS
    <2>3. s \o t \in [1 .. Len(s \o t) -> Int]
      BY <2>1, <2>2, Zenon
    <2>4. QED
      BY <2>2, <2>3
  <1>3. /\ \A i \in 1 .. Len(s) : (s \o t)[i] = s[i]
        /\ \A k \in 1 .. Len(t) : (s \o t)[Len(s) + k] = t[k]
    OBVIOUS
  <1>4. Follows(s \o t, s, Len(s), t, Len(t))
    BY <1>1, <1>2, <1>3 DEF Follows
  <1>5. QED
    BY <1>4, SumRange

\* The sum over a list and one term more.
LEMMA SumAppended ==
    ASSUME NEW n \in Nat, NEW f \in [1 .. n -> Int], NEW g \in [1 .. n + 1 -> Int],
           \A i \in 1 .. n : g[i] = f[i]
    PROVE  SumFunction(g) = SumFunction(f) + g[n + 1]
  <1>1. 1 .. n + 1 = (1 .. n) \cup {n + 1} /\ n + 1 \notin 1 .. n
    OBVIOUS
  <1>2. IsFiniteSet(1 .. n)
    BY FS_Interval
  <1>3. IsFiniteSet(1 .. n + 1)
    BY FS_Interval
  <1>4. Summable(f, 1 .. n) /\ Summable(g, (1 .. n) \cup {n + 1}) /\ Agree(g, f, 1 .. n)
    BY <1>1, <1>2, <1>3 DEF Summable, Agree
  <1>5. QED
    BY <1>1, <1>4, SumWith

\* A sum with one of its terms replaced.
LEMMA SumReplaced ==
    ASSUME NEW f, NEW g, NEW D, Summable(f, D), Summable(g, D), NEW x \in D, Agree(f, g, D \ {x})
    PROVE  SumFunction(g) = SumFunction(f) + (g[x] - f[x])
  <1>1. PICK r : r = [i \in D \ {x} |-> f[i]]
    OBVIOUS
  <1>2. IsFiniteSet(D \ {x})
    BY FS_Subset DEF Summable
  <1>3. Summable(r, D \ {x}) /\ Agree(f, r, D \ {x}) /\ Agree(g, r, D \ {x})
    BY <1>1, <1>2 DEF Summable, Agree
  <1>4. SumFunction(f) = SumFunction(r) + f[x]
    BY <1>3, SumWithout
  <1>5. SumFunction(g) = SumFunction(r) + g[x]
    BY <1>3, SumWithout
  <1>6. SumFunction(r) \in Int /\ f[x] \in Int /\ g[x] \in Int
    BY <1>3, SumType DEF Summable
  <1>7. QED
    BY <1>4, <1>5, <1>6

\* A term is no more than the sum of natural numbers it is in.
LEMMA TermBelowSum ==
    ASSUME NEW f, NEW D, IsFiniteSet(D), f \in [D -> Nat], NEW x \in D
    PROVE  f[x] <= SumFunction(f)
  <1>1. PICK r : r = [i \in D \ {x} |-> f[i]]
    OBVIOUS
  <1>2. IsFiniteSet(D \ {x})
    BY FS_Subset
  <1>3. Summable(f, D) /\ Summable(r, D \ {x}) /\ Agree(f, r, D \ {x})
    BY <1>1, <1>2 DEF Summable, Agree
  <1>4. SumFunction(f) = SumFunction(r) + f[x]
    BY <1>3, SumWithout
  <1>5. SumFunction(r) \in Nat
    <2>1. \A i \in D \ {x} : r[i] \in Nat
      BY <1>1
    <2>2. QED
      BY <1>3, <2>1, SumIsNatural
  <1>6. QED
    BY <1>4, <1>5

\* Multiples of sums compare as those of their terms do.
LEMMA SumCompares ==
    ASSUME NEW f, NEW g, NEW D, Summable(f, D), Summable(g, D), NEW c \in Int, NEW d \in Int,
           \A i \in D : f[i] * c <= g[i] * d
    PROVE  SumFunction(f) * c <= SumFunction(g) * d
  <1>1. PICK h : IsTotal(f, h, D) /\ SumFunction(f) = h[D]
    BY SumTotals DEF Summable
  <1>2. PICK k : IsTotal(g, k, D) /\ SumFunction(g) = k[D]
    BY SumTotals DEF Summable
  <1> DEFINE Bad == {s \in SUBSET D : ~(h[s] * c <= k[s] * d)}
  <1>3. SUFFICES Bad = {}
    BY <1>1, <1>2
  <1>4. Bad \in SUBSET SUBSET D
    OBVIOUS
  <1>5. ASSUME NEW m \in Bad, \A s \in Bad : s \subseteq m => s = m
        PROVE  FALSE
    <2>1. m \in SUBSET D /\ ~(h[m] * c <= k[m] * d) /\ h[{}] = 0 /\ k[{}] = 0
      BY <1>1, <1>2 DEF IsTotal
    <2>2. h[{}] * c <= k[{}] * d
      BY <2>1
    <2>3. PICK x \in m : TRUE
      <3>1. m # {}
        BY <2>1, <2>2
      <3>2. QED
        BY <3>1
    <2>4. m \ {x} \in SUBSET D /\ m \ {x} \subseteq m /\ m \ {x} # m
      BY <2>1
    <2>5. h[m \ {x}] * c <= k[m \ {x}] * d
      BY <1>5, <2>4
    <2>6. /\ h[m] = f[x] + h[m \ {x}] /\ k[m] = g[x] + k[m \ {x}]
          /\ f[x] \in Int /\ g[x] \in Int /\ h[m \ {x}] \in Int /\ k[m \ {x}] \in Int
          /\ f[x] * c <= g[x] * d
      BY <1>1, <1>2, <2>1, <2>4 DEF IsTotal, Summable
    <2>7. ASSUME NEW u \in Int, NEW v \in Int, NEW w \in Int, NEW z \in Int,
                 u * c <= w * d, v * c <= z * d
          PROVE  (u + v) * c <= (w + z) * d
      BY <2>7
    <2>8. h[m] * c <= k[m] * d
      BY <2>5, <2>6, <2>7
    <2>9. QED
      BY <2>1, <2>8
  <1>6. IsFiniteSet(D)
    BY DEF Summable
  <1> HIDE DEF Bad
  <1>7. QED
    BY <1>4, <1>5, <1>6, SmallestSet

\* The multiple of a sum is the sum of the multiples.
LEMMA SumScaled ==
    ASSUME NEW f, NEW g, NEW D, Summable(f, D), Summable(g, D), NEW c \in Int,
           \A i \in D : g[i] = f[i] * c
    PROVE  SumFunction(g) = SumFunction(f) * c
  <1>1. /\ \A i \in D : f[i] \in Int /\ g[i] \in Int
        /\ SumFunction(f) \in Int /\ SumFunction(g) \in Int
    BY SumType DEF Summable
  <1>2. PICK one \in Int, no \in Int, e \in Int : one = 1 /\ no = -1 /\ e = -c
    OBVIOUS
  <1>3. \A i \in D : f[i] * c <= g[i] * one /\ f[i] * e <= g[i] * no
    BY <1>1, <1>2
  <1>4. SumFunction(f) * c <= SumFunction(g) * one
    BY <1>3, SumCompares
  <1>5. SumFunction(f) * e <= SumFunction(g) * no
    BY <1>3, SumCompares
  <1>6. QED
    BY <1>1, <1>2, <1>4, <1>5

\* Terms outside of a part that are 0 do not count.
LEMMA SumOfPart ==
    ASSUME NEW D, NEW M, NEW f, Summable(f, D), NEW g, Summable(g, M), PartOf(g, M, f, D)
    PROVE  SumFunction(f) = SumFunction(g)
  <1>1. PICK e : e = [i \in D \ M |-> 0]
    OBVIOUS
  <1>2. IsFiniteSet(D \ M)
    BY FS_Subset DEF Summable
  <1>3. /\ Summable(e, D \ M) /\ SplitsInto(D, M, D \ M)
        /\ Agree(f, g, M) /\ Agree(f, e, D \ M)
    BY <1>1, <1>2 DEF Summable, Agree, SplitsInto, PartOf
  <1>4. SumFunction(f) = SumFunction(g) + SumFunction(e)
    BY <1>3, SumUnion
  <1>5. \A i \in D \ M : e[i] = 0
    BY <1>1
  <1>6. SumFunction(e) = 0
    BY <1>3, <1>5, SumZeros
  <1>7. SumFunction(g) \in Int
    BY SumType
  <1>8. QED
    BY <1>4, <1>6, <1>7

\* What grows by a list's terms, one after the other, is their sum in the end.
LEMMA SumTelescopes ==
    ASSUME NEW n \in Nat, NEW f \in [1 .. n -> Int], NEW g, Grows(g, f, n)
    PROVE  SumFunction(f) = g[n]
  <1> DEFINE Start(k) == [i \in 1 .. k |-> f[i]]
             S == {k \in 0 .. n : SumFunction(Start(k)) = g[k]}
  <1>1. 0 \in S
    <2>1. DOMAIN Start(0) = {}
      OBVIOUS
    <2>2. g[0] = 0
      BY DEF Grows
    <2>3. QED
      BY <2>1, <2>2, SumEmpty
  <1>2. ASSUME NEW k \in 0 .. n, k \in S, k < n
        PROVE  k + 1 \in S
    <2>1. PICK d, e : d = Start(k) /\ e = Start(k + 1)
      OBVIOUS
    <2>2. k \in Nat /\ k + 1 \in 0 .. n /\ k + 1 \in 1 .. n
      BY <1>2
    <2>3. d \in [1 .. k -> Int] /\ e \in [1 .. k + 1 -> Int]
          /\ (\A i \in 1 .. k : e[i] = d[i]) /\ e[k + 1] = f[k + 1]
      BY <2>1, <2>2
    <2>4. SumFunction(e) = SumFunction(d) + e[k + 1]
      <3> HIDE DEF Start, S
      <3>1. QED
        BY <2>2, <2>3, SumAppended
    <2>5. SumFunction(d) = g[k]
      BY <1>2, <2>1
    <2>6. SumFunction(e) = g[k + 1]
      BY <1>2, <2>3, <2>4, <2>5 DEF Grows
    <2>7. QED
      BY <2>1, <2>2, <2>6
  <1>3. 0 .. n \subseteq S
    <2> HIDE DEF S
    <2>1. QED
      BY <1>1, <1>2, CountingTo
  <1>4. n \in S
    BY <1>3
  <1>5. Start(n) = f
    OBVIOUS
  <1>6. QED
    BY <1>4, <1>5

\* The sum over a list of which one term was taken out.
LEMMA SumRemoved ==
    ASSUME NEW n \in Nat, NEW f \in [1 .. n -> Int], NEW k \in 1 .. n,
           NEW g \in [1 .. n - 1 -> Int],
           \A i \in 1 .. n - 1 : g[i] = IF i < k THEN f[i] ELSE f[i + 1]
    PROVE  SumFunction(f) = SumFunction(g) + f[k]
  <1>1. PICK D, E, e, h :
              /\ D = 1 .. n - 1 /\ E = (1 .. n) \ {k}
              /\ e = [i \in E |-> f[i]] /\ h = [i \in D |-> IF i < k THEN i ELSE i + 1]
    OBVIOUS
  <1>2. IsFiniteSet(1 .. n)
    BY FS_Interval
  <1>3. IsFiniteSet(D)
    <2>1. 1 \in Int /\ n - 1 \in Int
      OBVIOUS
    <2>2. QED
      BY <1>1, <2>1, FS_Interval
  <1>4. IsFiniteSet(E)
    BY <1>1, <1>2, FS_Subset
  <1>5. Summable(f, 1 .. n) /\ Summable(e, E) /\ Summable(g, D) /\ Agree(f, e, E)
    BY <1>1, <1>2, <1>3, <1>4 DEF Summable, Agree
  <1>6. SumFunction(f) = SumFunction(e) + f[k]
    BY <1>1, <1>5, SumWithout
  <1>7. \A i \in D : h[i] \in E /\ i \in Int /\ h[i] = IF i < k THEN i ELSE i + 1
    BY <1>1
  <1>8. \A j \in E : \E i \in D : h[i] = j
    <2>1. SUFFICES ASSUME NEW j \in E PROVE \E i \in D : h[i] = j
      OBVIOUS
    <2>2. CASE j < k
      <3>1. j \in D
        BY <1>1, <2>2
      <3>2. QED
        BY <1>7, <2>2, <3>1
    <2>3. CASE ~(j < k)
      <3>1. j \in Int /\ j - 1 \in D /\ ~(j - 1 < k) /\ (j - 1) + 1 = j
        BY <1>1, <2>3
      <3>2. QED
        BY <1>7, <3>1
    <2>4. QED
      BY <2>2, <2>3
  <1>9. {h[i] : i \in D} = E
    BY <1>7, <1>8
  <1>10. \A i, j \in D : h[i] = h[j] => i = j
    BY SMTT(20), <1>7
  <1>11. \A i \in D : g[i] = e[h[i]]
    BY <1>1, <1>7
  <1>12. Renumbers(h, D, E, g, e)
    BY <1>9, <1>10, <1>11 DEF Renumbers
  <1>13. e \in [E -> Int]
    BY <1>5 DEF Summable
  <1>14. SumFunction(g) = SumFunction(e)
    BY <1>5, <1>12, <1>13, SumImage
  <1>15. QED
    BY <1>6, <1>14

(***************************************************************************)
(* Lists that are joined, and lists that lose an element.                  *)
(***************************************************************************)
\* What joining two lists makes.
LEMMA JoinedList ==
    ASSUME NEW T, NEW p \in Seq(T), NEW q \in Seq(T)
    PROVE  /\ p \o q \in Seq(T) /\ Len(p \o q) = Len(p) + Len(q)
           /\ \A j \in 1 .. Len(p) + Len(q) :
                 (p \o q)[j] = IF j <= Len(p) THEN p[j] ELSE q[j - Len(p)]
  OBVIOUS

\* What taking an element out leaves of a list.
LEMMA ShorterList ==
    ASSUME NEW T, NEW q \in Seq(T), NEW i \in 1 .. Len(q)
    PROVE  /\ RemoveAt(q, i) \in Seq(T) /\ Len(RemoveAt(q, i)) = Len(q) - 1
           /\ \A j \in 1 .. Len(q) - 1 : RemoveAt(q, i)[j] = IF j < i THEN q[j] ELSE q[j + 1]
  <1>1. PICK n \in Nat : n = Len(q)
    OBVIOUS
  <1>2. PICK a : a = SubSeq(q, 1, i - 1)
    OBVIOUS
  <1>3. PICK b : b = SubSeq(q, i + 1, n)
    OBVIOUS
  <1>4. a \in Seq(T) /\ Len(a) = i - 1 /\ \A j \in 1 .. i - 1 : a[j] = q[j]
    BY <1>1, <1>2
  <1>5. b \in Seq(T) /\ Len(b) = n - i /\ \A j \in 1 .. n - i : b[j] = q[i + j]
    BY <1>1, <1>3
  <1>6. RemoveAt(q, i) = a \o b
    BY <1>1, <1>2, <1>3 DEF RemoveAt
  <1>7. PICK d : d = a \o b
    OBVIOUS
  <1>8. d \in Seq(T) /\ Len(d) = Len(a) + Len(b)
        /\ \A j \in 1 .. Len(a) + Len(b) : d[j] = IF j <= Len(a) THEN a[j] ELSE b[j - Len(a)]
    BY <1>4, <1>5, <1>7, JoinedList
  <1>9. i \in Nat /\ (i - 1) + (n - i) = n - 1
    BY <1>1
  <1>10. Len(d) = n - 1
    BY <1>4, <1>5, <1>8, <1>9
  <1>11. ASSUME NEW j \in 1 .. n - 1
         PROVE  d[j] = IF j < i THEN q[j] ELSE q[j + 1]
    <2>1. d[j] = IF j <= i - 1 THEN a[j] ELSE b[j - (i - 1)]
      BY <1>4, <1>5, <1>8, <1>9
    <2>2. CASE j < i
      BY <1>4, <1>9, <2>1, <2>2
    <2>3. CASE ~(j < i)
      <3>1. j - (i - 1) \in 1 .. n - i /\ i + (j - (i - 1)) = j + 1
        BY <1>1, <1>9, <2>3
      <3>2. QED
        BY <1>5, <1>9, <2>1, <2>3, <3>1
    <2>4. QED
      BY <2>2, <2>3
  <1>12. QED
    BY <1>1, <1>6, <1>7, <1>8, <1>10, <1>11

(***************************************************************************)
(* Products and quotients.                                                 *)
(***************************************************************************)
\* Division leaves a remainder less than the divisor.
LEMMA Divides ==
    ASSUME NEW a \in Int, NEW b \in Nat \ {0}
    PROVE  \E q \in Int : q = a \div b /\ b * q <= a /\ a < b * q + b /\ (a >= 0 => q \in Nat)
  OBVIOUS

(***************************************************************************)
(* The largest and the smallest number of a set, which a proof about       *)
(* prices cites.                                                           *)
(***************************************************************************)
\* A set of up to three elements is finite.
LEMMA FewAreFinite ==
    ASSUME NEW a, NEW b, NEW c
    PROVE  IsFiniteSet({a, b, c})
  <1>1. IsFiniteSet({a})
    BY FS_Singleton
  <1>2. IsFiniteSet({a} \cup {b})
    BY <1>1, FS_AddElement
  <1>3. IsFiniteSet(({a} \cup {b}) \cup {c})
    BY <1>2, FS_AddElement
  <1>4. ({a} \cup {b}) \cup {c} = {a, b, c}
    OBVIOUS
  <1>5. QED
    BY <1>3, <1>4

\* A finite set of numbers has a largest one.
LEMMA LargestExists ==
    ASSUME NEW S, IsFiniteSet(S), S # {}, S \subseteq Int
    PROVE  Max(S) \in S /\ \A y \in S : Max(S) >= y
  <1> DEFINE Bad == {t \in SUBSET S : t # {} /\ ~ \E x \in t : \A y \in t : x >= y}
  <1>1. Bad \in SUBSET SUBSET S
    OBVIOUS
  <1>2. ASSUME NEW m \in Bad, \A t \in Bad : t \subseteq m => t = m
        PROVE  FALSE
    <2>1. m \in SUBSET S /\ m # {} /\ ~ \E x \in m : \A y \in m : x >= y
      OBVIOUS
    <2>2. PICK x \in m : TRUE
      BY <2>1
    <2>3. m \ {x} \in SUBSET S /\ m \ {x} \subseteq m /\ m \ {x} # m /\ x \in Int
      BY <2>1
    <2>4. m \ {x} # {}
      <3>1. SUFFICES ASSUME m = {x} PROVE FALSE
        BY <2>2
      <3>2. x >= x
        BY <2>3
      <3>3. QED
        BY <2>1, <3>1, <3>2
    <2>5. PICK z \in m \ {x} : \A y \in m \ {x} : z >= y
      BY <1>2, <2>3, <2>4
    <2>6. z \in Int /\ \A y \in m : y \in Int
      BY <2>1
    <2>7. CASE x >= z
      <3>1. \A y \in m : x >= y
        BY <2>3, <2>5, <2>6, <2>7
      <3>2. QED
        BY <2>1, <3>1
    <2>8. CASE z >= x
      <3>1. \A y \in m : z >= y
        BY <2>3, <2>5, <2>6, <2>8
      <3>2. QED
        BY <2>1, <3>1
    <2>9. QED
      BY <2>3, <2>6, <2>7, <2>8
  <1>3. Bad = {}
    <2> HIDE DEF Bad
    <2>1. SUFFICES ASSUME Bad # {} PROVE FALSE
      OBVIOUS
    <2>2. PICK B \in SUBSET SUBSET S : B = Bad
      BY <1>1
    <2>3. \E m \in B : \A s \in B : s \subseteq m => s = m
      BY ONLY IsFiniteSet(S), <2>1, <2>2, SmallestSet
    <2>4. QED
      BY <1>2, <2>2, <2>3
  <1>4. \E x \in S : \A y \in S : x >= y
    BY <1>3
  <1>5. QED
    BY <1>4, Zenon DEF Max

\* Turned round k, the largest number becomes the smallest and the smallest the largest.
LEMMA TurnedExtremes ==
    ASSUME NEW S, IsFiniteSet(S), S # {}, S \subseteq Int, NEW k \in Int,
           NEW T, T = {k - x : x \in S}
    PROVE  /\ Min(S) \in S /\ \A y \in S : Min(S) <= y
           /\ Max(T) = k - Min(S) /\ Min(T) = k - Max(S)
  <1>1. IsFiniteSet(T) /\ T # {} /\ T \subseteq Int
    <2>1. PICK f : f = [x \in S |-> k - x]
      OBVIOUS
    <2>2. f \in Surjection(S, T)
      BY <2>1 DEF Surjection
    <2>3. IsFiniteSet(T)
      BY <2>2, FS_Surjection
    <2>4. T # {} /\ T \subseteq Int
      <3>1. \A x \in S : k - x \in T
        OBVIOUS
      <3>2. \A t \in T : t \in Int
        OBVIOUS
      <3>3. QED
        BY <3>1, <3>2
    <2>5. QED
      BY <2>3, <2>4
  <1>2. Max(T) \in T /\ \A y \in T : Max(T) >= y
    BY <1>1, LargestExists
  <1>3. Max(S) \in S /\ \A y \in S : Max(S) >= y
    BY LargestExists
  <1>4. PICK a \in Int : a = Max(T)
    BY <1>1, <1>2
  <1>5. PICK b \in Int : b = Max(S)
    BY <1>3
  <1>6. \A x \in S : x \in Int /\ k - x \in T /\ x <= b /\ k - x <= a
    BY <1>2, <1>3, <1>4, <1>5
  <1>7. PICK z \in S : a = k - z
    BY <1>2, <1>4
  <1>8. z = k - a /\ \A y \in S : z <= y
    BY <1>6, <1>7
  <1>9. Min(S) \in S /\ \A y \in S : Min(S) <= y
    BY <1>7, <1>8, Zenon DEF Min
  <1>10. Min(S) = z
    <2>1. PICK n \in S : n = Min(S)
      BY <1>9
    <2>2. n \in Int /\ z \in Int /\ n <= z /\ z <= n
      BY <1>8, <1>9, <2>1
    <2>3. QED
      BY <2>1, <2>2
  <1>11. k - b \in T /\ \A t \in T : t \in Int /\ k - b <= t
    BY <1>3, <1>5, <1>6
  <1>12. Min(T) \in T /\ \A t \in T : Min(T) <= t
    BY <1>11, Zenon DEF Min
  <1>13. Min(T) = k - b
    <2>1. PICK n \in T : n = Min(T)
      BY <1>12
    <2>2. n \in Int /\ n <= k - b /\ k - b <= n
      BY <1>11, <1>12, <2>1
    <2>3. QED
      BY <2>1, <2>2
  <1>14. QED
    BY <1>4, <1>5, <1>7, <1>8, <1>9, <1>10, <1>13

\* The larger and the smaller of two numbers that are turned round k.
LEMMA TurnedPair ==
    ASSUME NEW a \in Int, NEW b \in Int, NEW k \in Int
    PROVE  /\ Max({k - a, k - b}) = k - Min({a, b})
           /\ Min({k - a, k - b}) = k - Max({a, b})
  <1>1. IsFiniteSet({a, b}) /\ {a, b} # {} /\ {a, b} \subseteq Int
    <2>1. IsFiniteSet({a, b, b})
      BY FewAreFinite
    <2>2. {a, b, b} = {a, b}
      OBVIOUS
    <2>3. QED
      BY <2>1, <2>2
  <1>2. {k - a, k - b} = {k - x : x \in {a, b}}
    OBVIOUS
  <1>3. QED
    BY <1>1, <1>2, TurnedExtremes

\* The larger and the smaller of two numbers.
LEMMA MaxOfTwo ==
    ASSUME NEW x \in Int, NEW y \in Int
    PROVE  Max({x, y}) \in Int /\ Max({x, y}) >= x /\ Max({x, y}) >= y /\ Max({x, y}) \in {x, y}
  <1>1. PICK m \in {x, y} : \A z \in {x, y} : m >= z
    <2>1. CASE x >= y
      BY <2>1
    <2>2. CASE y >= x
      BY <2>2
    <2>3. QED
      BY <2>1, <2>2
  <1>2. Max({x, y}) \in {x, y} /\ \A z \in {x, y} : Max({x, y}) >= z
    BY <1>1, Zenon DEF Max
  <1>3. QED
    BY <1>2

\* The lesser of two numbers.
LEMMA MinOfTwo ==
    ASSUME NEW x \in Int, NEW y \in Int
    PROVE  Min({x, y}) \in Int /\ Min({x, y}) <= x /\ Min({x, y}) <= y /\ Min({x, y}) \in {x, y}
  <1>1. PICK m \in {x, y} : \A z \in {x, y} : m <= z
    <2>1. CASE x <= y
      BY <2>1
    <2>2. CASE y <= x
      BY <2>2
    <2>3. QED
      BY <2>1, <2>2
  <1>2. Min({x, y}) \in {x, y} /\ \A z \in {x, y} : Min({x, y}) <= z
    BY <1>1, Zenon DEF Min
  <1>3. QED
    BY <1>2

(***************************************************************************)
(* Sums of sums and of constants, and what a quotient and a largest number *)
(* are.                                                                    *)
(***************************************************************************)
\* The sum of two functions' sums.
LEMMA SumAdds ==
    ASSUME NEW f, NEW g, NEW e, NEW D, Summable(f, D), Summable(g, D), Summable(e, D),
           \A i \in D : e[i] = f[i] + g[i]
    PROVE  SumFunction(e) = SumFunction(f) + SumFunction(g)
  <1>1. PICK h : IsTotal(f, h, D) /\ SumFunction(f) = h[D]
    BY SumTotals DEF Summable
  <1>2. PICK k : IsTotal(g, k, D) /\ SumFunction(g) = k[D]
    BY SumTotals DEF Summable
  <1>3. PICK j : IsTotal(e, j, D) /\ SumFunction(e) = j[D]
    BY SumTotals DEF Summable
  <1> DEFINE t == [s \in SUBSET D |-> h[s] + k[s]]
  <1>4. IsTotal(e, t, D)
    <2>1. t[{}] = 0
      BY <1>1, <1>2 DEF IsTotal
    <2>2. \A s \in SUBSET D : t[s] \in Int
      BY <1>1, <1>2 DEF IsTotal
    <2>3. ASSUME NEW s \in SUBSET D, NEW x \in s
          PROVE  t[s] = e[x] + t[s \ {x}]
      <3>1. s \ {x} \in SUBSET D /\ x \in D
        OBVIOUS
      <3>2. h[s] = f[x] + h[s \ {x}] /\ k[s] = g[x] + k[s \ {x}]
        BY <1>1, <1>2 DEF IsTotal
      <3>3. h[s \ {x}] \in Int /\ k[s \ {x}] \in Int /\ f[x] \in Int /\ g[x] \in Int
        BY <1>1, <1>2, <3>1 DEF IsTotal, Summable
      <3>4. e[x] = f[x] + g[x]
        BY <3>1
      <3>5. t[s] = h[s] + k[s] /\ t[s \ {x}] = h[s \ {x}] + k[s \ {x}]
        BY <3>1
      <3>6. QED
        BY <3>2, <3>3, <3>4, <3>5
    <2> HIDE DEF t
    <2>4. QED
      BY <2>1, <2>2, <2>3 DEF IsTotal
  <1>5. IsFiniteSet(D) /\ D \subseteq D /\ \A i \in D : e[i] = e[i]
    BY DEF Summable
  <1>6. t[D] = j[D]
    <2> HIDE DEF t
    <2>1. QED
      BY <1>3, <1>4, <1>5, TotalsAgree
  <1>7. t[D] = h[D] + k[D]
    OBVIOUS
  <1>8. QED
    BY <1>1, <1>2, <1>3, <1>6, <1>7

\* As many times a number as there are elements.
LEMMA SumConstant ==
    ASSUME NEW f, NEW D, Summable(f, D), NEW c \in Int, \A i \in D : f[i] = c
    PROVE  SumFunction(f) = c * Cardinality(D)
  <1>1. PICK h : IsTotal(f, h, D) /\ SumFunction(f) = h[D]
    BY SumTotals DEF Summable
  <1> DEFINE t == [s \in SUBSET D |-> c * Cardinality(s)]
  <1>2. IsFiniteSet(D) /\ D \subseteq D
    BY DEF Summable
  <1>3. IsTotal(f, t, D)
    <2>1. t[{}] = 0
      BY FS_EmptySet
    <2>2. \A s \in SUBSET D : IsFiniteSet(s) /\ Cardinality(s) \in Nat
      BY <1>2, FS_Subset, FS_CardinalityType
    <2>3. \A s \in SUBSET D : t[s] \in Int
      BY <2>2
    <2>4. ASSUME NEW s \in SUBSET D, NEW x \in s
          PROVE  t[s] = f[x] + t[s \ {x}]
      <3>1. Cardinality(s \ {x}) = Cardinality(s) - 1 /\ s \ {x} \in SUBSET D /\ x \in D
        BY <2>2, FS_RemoveElement
      <3>2. t[s] = c * Cardinality(s) /\ t[s \ {x}] = c * Cardinality(s \ {x})
        BY <3>1
      <3>3. Cardinality(s) \in Nat
        BY <2>2
      <3>4. f[x] = c
        BY <3>1
      <3> HIDE DEF t
      <3>5. t[s \ {x}] = c * Cardinality(s) - c
        BY <3>1, <3>2, <3>3
      <3>6. QED
        BY <3>2, <3>3, <3>4, <3>5
    <2> HIDE DEF t
    <2>5. QED
      BY <2>1, <2>3, <2>4 DEF IsTotal
  <1>4. t[D] = h[D]
    <2> HIDE DEF t
    <2>1. \A i \in D : f[i] = f[i]
      OBVIOUS
    <2>2. QED
      BY <1>1, <1>2, <1>3, <2>1, TotalsAgree
  <1>5. QED
    BY <1>1, <1>4

\* A sum of numbers between two bounds.
LEMMA SumBetween ==
    ASSUME NEW f, NEW D, Summable(f, D), NEW c \in Int, \A i \in D : f[i] <= c
    PROVE  SumFunction(f) <= c * Cardinality(D)
  <1>1. PICK g : g = [i \in D |-> c]
    OBVIOUS
  <1>2. Summable(g, D)
    BY <1>1 DEF Summable
  <1>3. SumFunction(g) = c * Cardinality(D)
    BY <1>1, <1>2, SumConstant
  <1>4. \A i \in D : f[i] \in Int /\ g[i] = c /\ f[i] * 1 <= g[i] * 1
    BY <1>1 DEF Summable
  <1>5. SumFunction(f) * 1 <= SumFunction(g) * 1
    BY <1>2, <1>4, SumCompares
  <1>6. SumFunction(f) \in Int /\ SumFunction(g) \in Int
    BY <1>2, SumType
  <1>7. QED
    BY <1>3, <1>5, <1>6

LEMMA QuotientIs ==
    ASSUME NEW a \in Int, NEW b \in Nat \ {0}, NEW q \in Int, b * q <= a, a < b * q + b
    PROVE  a \div b = q /\ a % b = a - b * q
  <1>1. PICK p \in Int, r \in Int : p = a \div b /\ r = a % b /\ 0 <= r /\ r < b /\ a = b * p + r
    OBVIOUS
  <1>2. p = q
    <2>1. b * p < b * (q + 1) /\ b * q < b * (p + 1)
      BY <1>1
    <2>2. \A x, y \in Int : b * x < b * y => x < y
      OBVIOUS
    <2>3. p < q + 1 /\ q < p + 1
      BY <1>1, <2>1, <2>2
    <2>4. QED
      BY <1>1, <2>3
  <1>3. QED
    BY <1>1, <1>2

LEMMA MaxIs ==
    ASSUME NEW S, S \subseteq Int, NEW x \in S, \A y \in S : y <= x
    PROVE  Max(S) = x
  <1>1. \E z \in S : \A y \in S : z >= y
    OBVIOUS
  <1>2. Max(S) \in S /\ \A y \in S : Max(S) >= y
    BY <1>1 DEF Max
  <1> DEFINE z == Max(S)
  <1>3. z \in Int /\ x \in Int /\ z >= x /\ z <= x
    BY <1>2
  <1> HIDE DEF z
  <1>4. z = x
    BY <1>3
  <1>5. QED
    BY <1>4 DEF z
=============================================================================
