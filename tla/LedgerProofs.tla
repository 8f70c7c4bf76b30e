---------------------------- MODULE LedgerProofs ----------------------------
(***************************************************************************)
(* The sums and the lists of module Lists, and what the operators of       *)
(* Ledger compute, for any chain and any chainstate: the iterator's branch *)
(* grows at its head, the walk of FindUTXO follows a block whose inputs    *)
(* take whole entries the way UTXOSet.Update does, and a payment takes     *)
(* from the chainstate what its outputs put back.  Last, how many outputs  *)
(* a walk finds and a bucket holds when each payment is one whole reward.  *)
(*                                                                         *)
(* The induction theorems of the library take the statement as an          *)
(* operator, which the provers cannot instantiate; here an induction is    *)
(* over a set, of the numbers or of the subsets for which the statement    *)
(* holds.                                                                  *)
(***************************************************************************)
EXTENDS Ledger, FiniteSetTheorems, SequenceTheorems, TLAPS

-----------------------------------------------------------------------------
(* Induction *)

Below == OpToRel(<, Nat)

LEMMA BelowWF == IsWellFoundedOn(Below, Nat)
BY NatLessThanWellFounded, Zenon DEF Below

LEMMA BelowDef == \A m, n \in Nat : m < n => <<m, n>> \in Below
<1> SUFFICES ASSUME NEW m \in Nat, NEW n \in Nat, m < n PROVE <<m, n>> \in Below
  OBVIOUS
<1>1. <<m, n>> \in Nat \X Nat
  OBVIOUS
<1>2. <<m, n>>[1] < <<m, n>>[2]
  OBVIOUS
<1> QED
  BY <1>1, <1>2, Zenon DEF OpToRel, Below

\* Every set of naturals has a least element.
LEMMA NatMin ==
  ASSUME NEW S \in SUBSET Nat, S # {}
  PROVE  \E n \in S : \A m \in S : n <= m
<1>1. PICK n \in S : \A m \in S : ~ (<<m, n>> \in Below)
  BY BelowWF, WFMin
<1>2. ASSUME NEW m \in S PROVE n <= m
  <2>1. m \in Nat /\ n \in Nat
    OBVIOUS
  <2>2. ~ (m < n)
    BY <1>1, <2>1, BelowDef
  <2> QED
    BY <2>1, <2>2
<1> QED
  BY <1>2

\* A set of naturals with 0 that is closed under successor holds them all.
LEMMA SetInduction ==
  ASSUME NEW S \in SUBSET Nat, 0 \in S, \A n \in S : n + 1 \in S
  PROVE  S = Nat
<1> SUFFICES ASSUME Nat \ S # {} PROVE FALSE
  OBVIOUS
<1>1. PICK n \in Nat \ S : \A m \in Nat \ S : n <= m
  BY NatMin
<1>2. n - 1 \in S
  BY <1>1
<1> QED
  BY <1>1, <1>2

\* The same below a bound.
LEMMA UpToInduction ==
  ASSUME NEW N \in Nat, NEW S, 0 \in S, \A n \in 0..(N - 1) : n \in S => n + 1 \in S
  PROVE  0..N \subseteq S
<1> DEFINE T == {n \in Nat : n \in 0..N => n \in S}
<1>1. 0 \in T
  OBVIOUS
<1>2. \A n \in T : n + 1 \in T
  OBVIOUS
<1>3. T \in SUBSET Nat
  OBVIOUS
<1> HIDE DEF T
<1>4. T = Nat
  BY <1>1, <1>2, <1>3, SetInduction
<1> QED
  BY <1>4 DEF T

\* A family of sets that has a set as soon as it has it without any one of its
\* elements has every subset of a finite set.
LEMMA RemovalInduction ==
  ASSUME NEW D, IsFiniteSet(D), NEW F,
         \A S \in SUBSET D : (\A y \in S : S \ {y} \in F) => S \in F
  PROVE  SUBSET D \subseteq F
<1> DEFINE N == {n \in Nat : \A S \in SUBSET D : Cardinality(S) = n => S \in F}
<1>1. \A S \in SUBSET D : IsFiniteSet(S) /\ Cardinality(S) \in Nat
  BY FS_Subset, FS_CardinalityType
<1>2. 0 \in N
  <2> SUFFICES ASSUME NEW S \in SUBSET D, Cardinality(S) = 0 PROVE S \in F
    OBVIOUS
  <2>1. S = {}
    BY <1>1, FS_EmptySet
  <2> QED
    BY <2>1
<1>3. \A n \in N : n + 1 \in N
  <2> SUFFICES ASSUME NEW n \in N, NEW S \in SUBSET D, Cardinality(S) = n + 1
               PROVE  S \in F
    OBVIOUS
  <2>1. ASSUME NEW y \in S PROVE S \ {y} \in F
    <3>1. Cardinality(S \ {y}) = Cardinality(S) - 1
      BY <1>1, FS_RemoveElement
    <3>2. Cardinality(S \ {y}) = n
      BY <3>1
    <3> QED
      BY <3>2
  <2> QED
    BY <2>1
<1>4. N = Nat
  <2> HIDE DEF N
  <2> QED
    BY <1>2, <1>3, SetInduction DEF N
<1>5. \A S \in SUBSET D : Cardinality(S) \in N
  BY <1>1, <1>4
<1> QED
  BY <1>5

-----------------------------------------------------------------------------
(* Sums *)

Picked(S) == CHOOSE x \in S : TRUE

SumStep(f, g, S) == IF S = {} THEN 0 ELSE f[Picked(S)] + g[S \ {Picked(S)}]

\* The subsets of D with at most n elements.
UpTo(D, n) == {S \in SUBSET D : Cardinality(S) <= n}

LEMMA UpToFacts ==
  ASSUME NEW D, IsFiniteSet(D), NEW n \in Nat
  PROVE  /\ UpTo(D, n) \subseteq UpTo(D, n + 1)
         /\ \A S \in UpTo(D, n + 1) : S # {} => S \ {Picked(S)} \in UpTo(D, n)
         /\ UpTo(D, 0) = {{}}
         /\ UpTo(D, Cardinality(D)) = SUBSET D
<1>1. \A S \in SUBSET D : /\ IsFiniteSet(S) /\ Cardinality(S) \in Nat
                          /\ Cardinality(S) <= Cardinality(D)
                          /\ Cardinality(S) = 0 <=> S = {}
  BY FS_Subset, FS_CardinalityType, FS_EmptySet
<1>2. ASSUME NEW S \in UpTo(D, n + 1), S # {} PROVE S \ {Picked(S)} \in UpTo(D, n)
  <2>1. Picked(S) \in S
    BY <1>2 DEF Picked
  <2>2. IsFiniteSet(S) /\ Cardinality(S) \in Nat /\ Cardinality(S) <= n + 1
    BY <1>1 DEF UpTo
  <2>3. Cardinality(S \ {Picked(S)}) = Cardinality(S) - 1
    BY <2>1, <2>2, FS_RemoveElement
  <2> QED
    BY <2>2, <2>3 DEF UpTo
<1>3. UpTo(D, n) \subseteq UpTo(D, n + 1)
  BY <1>1 DEF UpTo
<1>4. UpTo(D, 0) = {{}}
  BY <1>1 DEF UpTo
<1>5. UpTo(D, Cardinality(D)) = SUBSET D
  BY <1>1 DEF UpTo
<1> QED
  BY <1>2, <1>3, <1>4, <1>5

ArePartialSums(D, f, g) == g = [S \in SUBSET D |-> SumStep(f, g, S)]

\* The recursion that SumOf names has a solution.
LEMMA SumExists ==
  ASSUME NEW D, IsFiniteSet(D), NEW f
  PROVE  \E g : ArePartialSums(D, f, g)
<1> DEFINE N == {n \in Nat : \E g : g = [S \in UpTo(D, n) |-> SumStep(f, g, S)]}
<1>1. 0 \in N
  <2> DEFINE g0 == [S \in UpTo(D, 0) |-> 0]
  <2>1. \A S \in UpTo(D, 0) : SumStep(f, g0, S) = 0
    BY UpToFacts DEF SumStep
  <2> HIDE DEF g0
  <2>2. g0 = [S \in UpTo(D, 0) |-> SumStep(f, g0, S)]
    BY <2>1 DEF g0
  <2> QED
    BY <2>2
<1>2. \A n \in N : n + 1 \in N
  <2> SUFFICES ASSUME NEW n \in N PROVE n + 1 \in N
    OBVIOUS
  <2>1. PICK g : g = [S \in UpTo(D, n) |-> SumStep(f, g, S)]
    OBVIOUS
  <2> DEFINE h == [S \in UpTo(D, n + 1) |-> SumStep(f, g, S)]
  <2>2. \A S \in UpTo(D, n) : h[S] = g[S]
    BY <2>1, UpToFacts
  <2>3. \A S \in UpTo(D, n + 1) : SumStep(f, g, S) = SumStep(f, h, S)
    <3> HIDE DEF h
    <3> QED
      BY <2>2, UpToFacts DEF SumStep
  <2>4. h = [S \in UpTo(D, n + 1) |-> SumStep(f, h, S)]
    <3>1. \A hh : (\A S \in UpTo(D, n + 1) : SumStep(f, g, S) = SumStep(f, hh, S))
                    => [S \in UpTo(D, n + 1) |-> SumStep(f, g, S)]
                         = [S \in UpTo(D, n + 1) |-> SumStep(f, hh, S)]
      OBVIOUS
    <3> QED
      BY <2>3, <3>1
  <2> HIDE DEF h
  <2>5. \E hh : hh = [S \in UpTo(D, n + 1) |-> SumStep(f, hh, S)]
    BY <2>4
  <2> QED
    BY <2>5
<1>3. N = Nat
  <2> HIDE DEF N
  <2> QED
    BY <1>1, <1>2, SetInduction DEF N
<1>4. Cardinality(D) \in N
  BY <1>3, FS_CardinalityType
<1>5. \E g : g = [S \in UpTo(D, Cardinality(D)) |-> SumStep(f, g, S)]
  BY <1>4
<1>6. UpTo(D, Cardinality(D)) = SUBSET D
  BY UpToFacts
<1> QED
  BY <1>5, <1>6 DEF ArePartialSums

\* The function of partial sums that SumOf names.
PartialSums(f) == CHOOSE g : ArePartialSums(DOMAIN f, f, g)

LEMMA SumOfDef ==
  ASSUME NEW f
  PROVE  SumOf(f) = PartialSums(f)[DOMAIN f]
BY DEF SumOf, PartialSums, ArePartialSums, SumStep, Picked

LEMMA PartialSumsDef ==
  ASSUME NEW f, IsFiniteSet(DOMAIN f)
  PROVE  PartialSums(f) = [S \in SUBSET DOMAIN f |-> SumStep(f, PartialSums(f), S)]
<1>1. \E g : ArePartialSums(DOMAIN f, f, g)
  BY SumExists
<1>2. ArePartialSums(DOMAIN f, f, PartialSums(f))
  BY <1>1, Zenon DEF PartialSums
<1> QED
  BY <1>2 DEF ArePartialSums

\* The element that CHOOSE picks is taken first.
LEMMA PartialSumsStep ==
  ASSUME NEW f, IsFiniteSet(DOMAIN f), NEW S \in SUBSET DOMAIN f
  PROVE  IF S = {} THEN PartialSums(f)[S] = 0
         ELSE /\ Picked(S) \in S
              /\ PartialSums(f)[S] = f[Picked(S)] + PartialSums(f)[S \ {Picked(S)}]
<1> DEFINE sum == PartialSums(f)
<1>1. sum = [T \in SUBSET DOMAIN f |-> SumStep(f, sum, T)]
  BY PartialSumsDef
<1> HIDE DEF sum
<1>2. sum[S] = SumStep(f, sum, S)
  BY <1>1
<1>3. S # {} => Picked(S) \in S
  BY DEF Picked
<1> QED
  BY <1>2, <1>3 DEF SumStep, sum

LEMMA PartialSumsInt ==
  ASSUME NEW f, IsFiniteSet(DOMAIN f), \A x \in DOMAIN f : f[x] \in Int
  PROVE  \A S \in SUBSET DOMAIN f : PartialSums(f)[S] \in Int
<1> DEFINE D == DOMAIN f
<1> HIDE DEF D
<1>0. D = DOMAIN f
  BY DEF D
<1>f. IsFiniteSet(D)
  BY DEF D
<1> DEFINE F == {S \in SUBSET D : PartialSums(f)[S] \in Int}
<1>1. \A S \in SUBSET D : (\A y \in S : S \ {y} \in F) => S \in F
  <2> SUFFICES ASSUME NEW S \in SUBSET D, \A y \in S : S \ {y} \in F PROVE S \in F
    OBVIOUS
  <2>1. CASE S = {}
    BY <2>1, <1>0, PartialSumsStep
  <2>2. CASE S # {}
    <3>1. /\ Picked(S) \in S
          /\ PartialSums(f)[S] = f[Picked(S)] + PartialSums(f)[S \ {Picked(S)}]
      BY <2>2, <1>0, PartialSumsStep
    <3>2. PartialSums(f)[S \ {Picked(S)}] \in Int
      BY <3>1
    <3> QED
      BY <1>0, <3>1, <3>2
  <2> QED
    BY <2>1, <2>2
<1> HIDE DEF F
<1>2. SUBSET D \subseteq F
  BY <1>f, <1>1, RemovalInduction
<1> QED
  BY <1>0, <1>2 DEF F

\* Any element can be taken first.
LEMMA PartialSumsRemove ==
  ASSUME NEW f, IsFiniteSet(DOMAIN f), \A x \in DOMAIN f : f[x] \in Int
  PROVE  \A S \in SUBSET DOMAIN f : \A y \in S :
           PartialSums(f)[S] = f[y] + PartialSums(f)[S \ {y}]
<1> DEFINE D == DOMAIN f
<1> HIDE DEF D
<1>0. D = DOMAIN f
  BY DEF D
<1>f. IsFiniteSet(D)
  BY DEF D
<1> DEFINE Good(S) == \A y \in S : PartialSums(f)[S] = f[y] + PartialSums(f)[S \ {y}]
           F == {S \in SUBSET D : Good(S)}
<1>1. \A S \in SUBSET D : (\A y \in S : S \ {y} \in F) => S \in F
  <2> SUFFICES ASSUME NEW S \in SUBSET D, \A y \in S : S \ {y} \in F PROVE S \in F
    OBVIOUS
  <2> SUFFICES ASSUME NEW y \in S PROVE PartialSums(f)[S] = f[y] + PartialSums(f)[S \ {y}]
    OBVIOUS
  <2> DEFINE x == Picked(S)
             r == S \ {x, y}
  <2>1. x \in S /\ x \in D /\ y \in D /\ PartialSums(f)[S] = f[x] + PartialSums(f)[S \ {x}]
    BY <1>0, PartialSumsStep
  <2> HIDE DEF x
  <2>2. (S \ {x}) \ {y} = r /\ (S \ {y}) \ {x} = r
    OBVIOUS
  <2>3. y # x => /\ PartialSums(f)[S \ {x}] = f[y] + PartialSums(f)[r]
                 /\ PartialSums(f)[S \ {y}] = f[x] + PartialSums(f)[r]
    <3>1. Good(S \ {x}) /\ Good(S \ {y})
      BY <2>1
    <3> QED
      BY <2>1, <2>2, <3>1
  <2>4. PartialSums(f)[r] \in Int /\ f[x] \in Int /\ f[y] \in Int
    BY <2>1, <1>0, PartialSumsInt
  <2> HIDE DEF r
  <2>5. CASE y = x
    BY <2>1, <2>5
  <2>6. CASE y # x
    BY <2>1, <2>3, <2>4, <2>6
  <2> QED
    BY <2>5, <2>6
<1> HIDE DEF F
<1>2. SUBSET D \subseteq F
  BY <1>f, <1>1, RemovalInduction
<1> QED
  BY <1>0, <1>2 DEF F

\* The sum over a set depends on the values there only.
LEMMA PartialSumsAgree ==
  ASSUME NEW f, IsFiniteSet(DOMAIN f), NEW g, IsFiniteSet(DOMAIN g),
         NEW T, T \subseteq DOMAIN f, T \subseteq DOMAIN g, \A x \in T : f[x] = g[x]
  PROVE  PartialSums(f)[T] = PartialSums(g)[T]
<1> DEFINE F == {S \in SUBSET T : PartialSums(f)[S] = PartialSums(g)[S]}
<1>1. \A S \in SUBSET T : (\A y \in S : S \ {y} \in F) => S \in F
  <2> SUFFICES ASSUME NEW S \in SUBSET T, \A y \in S : S \ {y} \in F PROVE S \in F
    OBVIOUS
  <2>1. S \in SUBSET DOMAIN f /\ S \in SUBSET DOMAIN g
    OBVIOUS
  <2>2. CASE S = {}
    BY <2>1, <2>2, PartialSumsStep
  <2>3. CASE S # {}
    <3>1. /\ Picked(S) \in S
          /\ PartialSums(f)[S] = f[Picked(S)] + PartialSums(f)[S \ {Picked(S)}]
      BY <2>1, <2>3, PartialSumsStep
    <3>2. PartialSums(g)[S] = g[Picked(S)] + PartialSums(g)[S \ {Picked(S)}]
      BY <2>1, <2>3, PartialSumsStep
    <3>3. PartialSums(f)[S \ {Picked(S)}] = PartialSums(g)[S \ {Picked(S)}]
      BY <3>1
    <3> QED
      BY <3>1, <3>2, <3>3
  <2> QED
    BY <2>2, <2>3
<1> HIDE DEF F
<1>2. IsFiniteSet(T)
  BY FS_Subset
<1>3. SUBSET T \subseteq F
  BY <1>1, <1>2, RemovalInduction
<1> QED
  BY <1>3 DEF F

Part(f, S) == [x \in S |-> f[x]]

\* What the other modules use: the sum over no element, over one more, its type.
LEMMA SumOfPart ==
  ASSUME NEW f, IsFiniteSet(DOMAIN f), \A x \in DOMAIN f : f[x] \in Int,
         NEW S \in SUBSET DOMAIN f
  PROVE  /\ SumOf(Part(f, S)) \in Int
         /\ S = {} => SumOf(Part(f, S)) = 0
         /\ \A y \in S : SumOf(Part(f, S)) = SumOf(Part(f, S \ {y})) + f[y]
<1>1. \A T \in SUBSET DOMAIN f : SumOf(Part(f, T)) = PartialSums(f)[T]
  <2> SUFFICES ASSUME NEW T \in SUBSET DOMAIN f
               PROVE  SumOf(Part(f, T)) = PartialSums(f)[T]
    OBVIOUS
  <2>1. DOMAIN Part(f, T) = T /\ \A x \in T : Part(f, T)[x] = f[x]
    BY DEF Part
  <2>2. IsFiniteSet(T)
    BY FS_Subset
  <2>3. PartialSums(Part(f, T))[T] = PartialSums(f)[T]
    BY <2>1, <2>2, PartialSumsAgree
  <2> QED
    BY <2>1, <2>3, SumOfDef
<1>2. PartialSums(f)[S] \in Int
  BY PartialSumsInt
<1>3. S = {} => PartialSums(f)[S] = 0
  BY PartialSumsStep
<1>4. ASSUME NEW y \in S
      PROVE  SumOf(Part(f, S)) = SumOf(Part(f, S \ {y})) + f[y]
  <2>1. PartialSums(f)[S] = f[y] + PartialSums(f)[S \ {y}]
    BY PartialSumsRemove
  <2>2. PartialSums(f)[S \ {y}] \in Int /\ f[y] \in Int
    BY PartialSumsInt
  <2> QED
    BY <1>1, <2>1, <2>2
<1> QED
  BY <1>1, <1>2, <1>3, <1>4

LEMMA SumOfNone ==
  ASSUME NEW f, DOMAIN f = {}
  PROVE  SumOf(f) = 0
<1>1. IsFiniteSet(DOMAIN f)
  BY FS_EmptySet
<1> QED
  BY <1>1, SumOfDef, PartialSumsStep

LEMMA SumOfInt ==
  ASSUME NEW D, IsFiniteSet(D), NEW f \in [D -> Int]
  PROVE  SumOf(f) \in Int
<1>1. f = Part(f, D)
  BY DEF Part
<1> QED
  BY <1>1, SumOfPart

LEMMA SumOfRemove ==
  ASSUME NEW D, IsFiniteSet(D), NEW f \in [D -> Int], NEW y \in D
  PROVE  SumOf(f) = SumOf(Part(f, D \ {y})) + f[y]
<1>1. f = Part(f, D)
  BY DEF Part
<1> QED
  BY <1>1, SumOfPart

AddsUp(D, f, g, h) ==
  /\ IsFiniteSet(D)
  /\ f \in [D -> Int] /\ g \in [D -> Int] /\ h \in [D -> Int]
  /\ \A x \in D : h[x] = f[x] + g[x]

\* The sum of the sums of two functions.
LEMMA SumOfPlus ==
  ASSUME NEW D, NEW f, NEW g, NEW h, AddsUp(D, f, g, h)
  PROVE  SumOf(h) = SumOf(f) + SumOf(g)
<1>0. /\ IsFiniteSet(D)
      /\ f \in [D -> Int] /\ g \in [D -> Int] /\ h \in [D -> Int]
      /\ \A x \in D : h[x] = f[x] + g[x]
  BY DEF AddsUp
<1> DEFINE F == {S \in SUBSET D : SumOf(Part(h, S)) = SumOf(Part(f, S)) + SumOf(Part(g, S))}
<1>1. \A S \in SUBSET D : (\A y \in S : S \ {y} \in F) => S \in F
  <2> SUFFICES ASSUME NEW S \in SUBSET D, \A y \in S : S \ {y} \in F PROVE S \in F
    OBVIOUS
  <2>1. CASE S = {}
    BY <1>0, <2>1, SumOfPart
  <2>2. ASSUME NEW y \in S PROVE S \in F
    <3>1. /\ SumOf(Part(f, S)) = SumOf(Part(f, S \ {y})) + f[y]
          /\ SumOf(Part(g, S)) = SumOf(Part(g, S \ {y})) + g[y]
          /\ SumOf(Part(h, S)) = SumOf(Part(h, S \ {y})) + h[y]
      BY <1>0, SumOfPart
    <3>2. SumOf(Part(f, S \ {y})) \in Int /\ SumOf(Part(g, S \ {y})) \in Int
      BY <1>0, SumOfPart
    <3>3. SumOf(Part(h, S \ {y})) = SumOf(Part(f, S \ {y})) + SumOf(Part(g, S \ {y}))
      OBVIOUS
    <3>4. f[y] \in Int /\ g[y] \in Int /\ h[y] = f[y] + g[y]
      BY <1>0
    <3>5. SumOf(Part(h, S)) = SumOf(Part(f, S)) + SumOf(Part(g, S))
      BY <3>1, <3>2, <3>3, <3>4
    <3> QED
      BY <3>5
  <2> QED
    BY <2>1, <2>2
<1> HIDE DEF F
<1>2. D \in F
  BY <1>0, <1>1, RemovalInduction
<1>3. f = Part(f, D) /\ g = Part(g, D) /\ h = Part(h, D)
  BY <1>0 DEF Part
<1> QED
  BY <1>2, <1>3 DEF F

\* Elements of value 0 can be left out.
LEMMA SumOfDrop ==
  ASSUME NEW D, IsFiniteSet(D), NEW f \in [D -> Int], NEW T \in SUBSET D,
         \A x \in D \ T : f[x] = 0
  PROVE  SumOf(f) = SumOf(Part(f, T))
<1> DEFINE F == {S \in SUBSET D : SumOf(Part(f, S)) = SumOf(Part(f, S \cap T))}
<1>1. \A S \in SUBSET D : (\A y \in S : S \ {y} \in F) => S \in F
  <2> SUFFICES ASSUME NEW S \in SUBSET D, \A y \in S : S \ {y} \in F PROVE S \in F
    OBVIOUS
  <2>1. CASE S \subseteq T
    <3>1. S \cap T = S
      BY <2>1
    <3> QED
      BY <3>1
  <2>2. ASSUME NEW y \in S \ T PROVE S \in F
    <3>1. SumOf(Part(f, S)) = SumOf(Part(f, S \ {y})) + f[y]
      BY SumOfPart
    <3>2. (S \ {y}) \cap T = S \cap T
      BY <2>2
    <3>3. SumOf(Part(f, S \ {y})) = SumOf(Part(f, S \cap T))
      BY <3>2
    <3>4. SumOf(Part(f, S \cap T)) \in Int
      BY SumOfPart
    <3>5. f[y] = 0
      OBVIOUS
    <3> QED
      BY <3>1, <3>3, <3>4, <3>5
  <2> QED
    BY <2>1, <2>2
<1> HIDE DEF F
<1>2. D \in F
  BY <1>1, RemovalInduction
<1>3. f = Part(f, D) /\ D \cap T = T
  BY DEF Part
<1> QED
  BY <1>2, <1>3 DEF F

OneToOne(b, D, E) ==
  /\ b \in [D -> E]
  /\ \A x, y \in D : b[x] = b[y] => x = y
  /\ \A e \in E : \E x \in D : b[x] = e

Along(b, D, f, g) == \A x \in D : g[x] = f[b[x]]

\* The sum over the image of a one-to-one function.
LEMMA SumOfBijection ==
  ASSUME NEW D, IsFiniteSet(D), NEW E, NEW f \in [E -> Int], IsFiniteSet(E),
         NEW b, OneToOne(b, D, E), NEW g \in [D -> Int], Along(b, D, f, g)
  PROVE  SumOf(g) = SumOf(f)
<1> USE DEF OneToOne, Along
<1> DEFINE Im(S) == {b[x] : x \in S}
           F == {S \in SUBSET D : SumOf(Part(g, S)) = SumOf(Part(f, Im(S)))}
<1>1. \A S \in SUBSET D : (\A y \in S : S \ {y} \in F) => S \in F
  <2> SUFFICES ASSUME NEW S \in SUBSET D, \A y \in S : S \ {y} \in F PROVE S \in F
    OBVIOUS
  <2>0. Im(S) \in SUBSET E
    OBVIOUS
  <2>1. CASE S = {}
    <3>1. Im(S) = {}
      BY <2>1
    <3> QED
      BY <2>1, <3>1, SumOfPart
  <2>2. ASSUME NEW y \in S PROVE S \in F
    <3>1. SumOf(Part(g, S)) = SumOf(Part(g, S \ {y})) + g[y]
      BY SumOfPart
    <3>2. b[y] \in Im(S)
      OBVIOUS
    <3>3. SumOf(Part(f, Im(S))) = SumOf(Part(f, Im(S) \ {b[y]})) + f[b[y]]
      BY <2>0, <3>2, SumOfPart
    <3>4. Im(S) \ {b[y]} = Im(S \ {y})
      OBVIOUS
    <3>5. SumOf(Part(g, S \ {y})) = SumOf(Part(f, Im(S \ {y})))
      BY <2>2
    <3> QED
      BY <3>1, <3>3, <3>4, <3>5
  <2> QED
    BY <2>1, <2>2
<1>2. Im(D) = E
  OBVIOUS
<1> HIDE DEF F, Im
<1>3. D \in F
  BY <1>1, RemovalInduction
<1>4. f = Part(f, E) /\ g = Part(g, D)
  BY DEF Part
<1> QED
  BY <1>2, <1>3, <1>4 DEF F

\* Summands grow, the sum grows.
LEMMA SumOfMonotone ==
  ASSUME NEW D, IsFiniteSet(D), NEW f \in [D -> Int], NEW g \in [D -> Int],
         \A x \in D : f[x] <= g[x]
  PROVE  SumOf(f) <= SumOf(g)
<1> DEFINE F == {S \in SUBSET D : SumOf(Part(f, S)) <= SumOf(Part(g, S))}
<1>1. \A S \in SUBSET D : (\A y \in S : S \ {y} \in F) => S \in F
  <2> SUFFICES ASSUME NEW S \in SUBSET D, \A y \in S : S \ {y} \in F PROVE S \in F
    OBVIOUS
  <2>1. CASE S = {}
    BY <2>1, SumOfPart
  <2>2. ASSUME NEW y \in S PROVE S \in F
    <3>1. /\ SumOf(Part(f, S)) = SumOf(Part(f, S \ {y})) + f[y]
          /\ SumOf(Part(g, S)) = SumOf(Part(g, S \ {y})) + g[y]
      BY SumOfPart
    <3>2. SumOf(Part(f, S \ {y})) \in Int /\ SumOf(Part(g, S \ {y})) \in Int
      BY SumOfPart
    <3>3. SumOf(Part(f, S \ {y})) <= SumOf(Part(g, S \ {y}))
      OBVIOUS
    <3>4. f[y] \in Int /\ g[y] \in Int /\ f[y] <= g[y]
      OBVIOUS
    <3>5. SumOf(Part(f, S)) <= SumOf(Part(g, S))
      BY <3>1, <3>2, <3>3, <3>4
    <3> QED
      BY <3>5
  <2> QED
    BY <2>1, <2>2
<1> HIDE DEF F
<1>2. D \in F
  BY <1>1, RemovalInduction
<1>3. f = Part(f, D) /\ g = Part(g, D)
  BY DEF Part
<1> QED
  BY <1>2, <1>3 DEF F

\* One more summand at the end of a list.
LEMMA SumOfLast ==
  ASSUME NEW n \in Nat \ {0}, NEW f \in [1..n -> Int]
  PROVE  SumOf(f) = SumOf(Part(f, 1..(n - 1))) + f[n]
<1>1. IsFiniteSet(1..n)
  BY FS_Interval
<1>2. 1..n \ {n} = 1..(n - 1) /\ n \in 1..n
  OBVIOUS
<1> QED
  BY <1>1, <1>2, SumOfRemove

LEMMA SumOfOne ==
  ASSUME NEW f, f \in [1..1 -> Int]
  PROVE  SumOf(f) = f[1]
<1> DEFINE D == {1}
<1>1. f \in [D -> Int] /\ 1 \in D /\ IsFiniteSet(D) /\ D \ {1} = {}
  <2>1. 1..1 = {1}
    OBVIOUS
  <2> QED
    BY <2>1, FS_Singleton
<1> HIDE DEF D
<1>2. SumOf(f) = SumOf(Part(f, D \ {1})) + f[1]
  BY <1>1, SumOfRemove
<1>3. SumOf(Part(f, D \ {1})) = 0
  BY <1>1, SumOfNone DEF Part
<1>4. f[1] \in Int
  BY <1>1
<1> QED
  BY <1>2, <1>3, <1>4

LEMMA SumOfTwo ==
  ASSUME NEW f, f \in [1..2 -> Int]
  PROVE  SumOf(f) = f[1] + f[2]
<1> DEFINE D == {1} \cup {2}
<1>1. f \in [D -> Int] /\ 2 \in D /\ IsFiniteSet(D)
  <2>1. 1..2 = D
    OBVIOUS
  <2> QED
    BY <2>1, FS_Singleton, FS_AddElement
<1>2. D \ {2} = 1..1
  OBVIOUS
<1> HIDE DEF D
<1>3. SumOf(f) = SumOf(Part(f, D \ {2})) + f[2]
  BY <1>1, SumOfRemove
<1>4. Part(f, 1..1) \in [1..1 -> Int] /\ Part(f, 1..1)[1] = f[1]
  BY DEF Part
<1> QED
  BY <1>2, <1>3, <1>4, SumOfOne

-----------------------------------------------------------------------------
(* Lists *)

KeepStep(s, I, g, n) ==
  IF n = 0 THEN <<>> ELSE IF n \in I THEN Append(g[n - 1], s[n]) ELSE g[n - 1]

AreKept(s, I, N, g) == g = [n \in 0..N |-> KeepStep(s, I, g, n)]

\* The recursion that KeepAt names has a solution.
LEMMA KeptExists ==
  ASSUME NEW s, NEW I, NEW N \in Nat
  PROVE  \E g : AreKept(s, I, N, g)
<1> DEFINE G == {n \in Nat : \E g : AreKept(s, I, n, g)}
<1>1. 0 \in G
  <2> DEFINE g == [n \in 0..0 |-> <<>>]
  <2>1. \A n \in 0..0 : KeepStep(s, I, g, n) = <<>>
    BY DEF KeepStep
  <2> HIDE DEF g
  <2>2. AreKept(s, I, 0, g)
    BY <2>1 DEF AreKept, g
  <2> QED
    BY <2>2
<1>2. \A n \in G : n + 1 \in G
  <2> SUFFICES ASSUME NEW n \in Nat, NEW g, AreKept(s, I, n, g) PROVE n + 1 \in G
    OBVIOUS
  <2> DEFINE h == [m \in 0..(n + 1) |-> KeepStep(s, I, g, m)]
  <2>1. \A m \in 0..n : h[m] = g[m]
    BY DEF AreKept
  <2>2. \A m \in 0..(n + 1) : h[m] = KeepStep(s, I, g, m)
    OBVIOUS
  <2>3. \A m \in 0..(n + 1) : KeepStep(s, I, g, m) = KeepStep(s, I, h, m)
    <3> HIDE DEF h
    <3> QED
      BY <2>1 DEF KeepStep
  <2>4. h = [m \in 0..(n + 1) |-> h[m]]
    OBVIOUS
  <2> HIDE DEF h
  <2>5. AreKept(s, I, n + 1, h)
    BY <2>2, <2>3, <2>4 DEF AreKept
  <2> QED
    BY <2>5
<1>3. G = Nat
  <2> HIDE DEF G
  <2> QED
    BY <1>1, <1>2, SetInduction DEF G
<1> QED
  BY <1>3

\* What is kept of each prefix.
Kept(s, I) == CHOOSE g : AreKept(s, I, Len(s), g)

LEMMA KeepAtDef ==
  ASSUME NEW T, NEW s \in Seq(T), NEW I
  PROVE  /\ KeepAt(s, I) = Kept(s, I)[Len(s)]
         /\ Kept(s, I)[0] = <<>>
         /\ \A n \in 1..Len(s) :
              Kept(s, I)[n] = IF n \in I THEN Append(Kept(s, I)[n - 1], s[n])
                                         ELSE Kept(s, I)[n - 1]
<1>1. Len(s) \in Nat
  OBVIOUS
<1>2. \E g : AreKept(s, I, Len(s), g)
  BY <1>1, KeptExists
<1>3. AreKept(s, I, Len(s), Kept(s, I))
  BY <1>2, Zenon DEF Kept
<1>4. KeepAt(s, I) = Kept(s, I)[Len(s)]
  BY DEF KeepAt, Kept, AreKept, KeepStep
<1>5. \A n \in 0..Len(s) : Kept(s, I)[n] = KeepStep(s, I, Kept(s, I), n)
  BY <1>3 DEF AreKept
<1> QED
  BY <1>1, <1>4, <1>5 DEF KeepStep

\* What is to be said of k, kept of the first n elements of s.
KeptWell(T, s, I, n, k) ==
  /\ k \in Seq(T)
  /\ Len(k) <= n
  /\ Len(k) = n <=> 1..n \subseteq I
  /\ k = <<>> <=> I \cap 1..n = {}
  /\ 1..n \subseteq I => \A j \in 1..n : k[j] = s[j]
  /\ \A j \in 1..Len(k) : \E i \in 1..n : i \in I /\ s[i] = k[j]
  /\ \A i \in 1..n : i \in I => \E j \in 1..Len(k) : s[i] = k[j]

LEMMA KeptFacts ==
  ASSUME NEW T, NEW s \in Seq(T), NEW I
  PROVE  \A n \in 0..Len(s) : KeptWell(T, s, I, n, Kept(s, I)[n])
<1> DEFINE k == Kept(s, I)
           Good(n) == KeptWell(T, s, I, n, k[n])
           G == {n \in 0..Len(s) : Good(n)}
<1> HIDE DEF k, Good
<1>1. 0 \in G
  <2>1. k[0] = <<>>
    BY KeepAtDef DEF k
  <2>2. 1..0 = {} /\ 0 \in 0..Len(s)
    OBVIOUS
  <2>3. <<>> \in Seq(T) /\ Len(<<>>) = 0
    OBVIOUS
  <2>4. Good(0)
    BY <2>1, <2>2, <2>3 DEF Good, KeptWell
  <2> QED
    BY <2>2, <2>4
<1>2. \A n \in 0..(Len(s) - 1) : n \in G => n + 1 \in G
  <2> SUFFICES ASSUME NEW n \in 0..(Len(s) - 1), Good(n) PROVE Good(n + 1)
    OBVIOUS
  <2> USE DEF Good, KeptWell
  <2>1. k[n + 1] = IF n + 1 \in I THEN Append(k[n], s[n + 1]) ELSE k[n]
    <3>1. n + 1 \in 1..Len(s) /\ (n + 1) - 1 = n
      OBVIOUS
    <3> QED
      BY <3>1, KeepAtDef DEF k
  <2>2. k[n] \in Seq(T) /\ s[n + 1] \in T /\ Len(k[n]) \in Nat
    OBVIOUS
  <2>3. CASE n + 1 \in I
    <3>1. k[n + 1] = Append(k[n], s[n + 1])
      BY <2>1, <2>3
    <3>2. /\ k[n + 1] \in Seq(T) /\ Len(k[n + 1]) = Len(k[n]) + 1
          /\ \A j \in 1..Len(k[n]) : k[n + 1][j] = k[n][j]
          /\ k[n + 1][Len(k[n]) + 1] = s[n + 1]
          /\ k[n + 1] # <<>>
      BY <2>2, <3>1, AppendProperties
    <3>3. Len(k[n + 1]) = n + 1 <=> 1..(n + 1) \subseteq I
      <4>1. 1..(n + 1) = 1..n \cup {n + 1}
        OBVIOUS
      <4>2. 1..(n + 1) \subseteq I <=> 1..n \subseteq I
        BY <2>3, <4>1
      <4>3. Len(k[n + 1]) = n + 1 <=> Len(k[n]) = n
        <5>1. n \in Nat /\ Len(k[n]) \in Nat /\ Len(k[n + 1]) = Len(k[n]) + 1
          BY <2>2, <3>2
        <5> HIDE DEF Good, KeptWell
        <5> QED
          BY <5>1
      <4> QED
        BY <4>2, <4>3
    <3>4. 1..(n + 1) \subseteq I => \A j \in 1..(n + 1) : k[n + 1][j] = s[j]
      <4> SUFFICES ASSUME 1..(n + 1) \subseteq I, NEW j \in 1..(n + 1)
                   PROVE  k[n + 1][j] = s[j]
        OBVIOUS
      <4>1. 1..n \subseteq I
        OBVIOUS
      <4>2. Len(k[n]) = n
        BY <4>1
      <4>3. CASE j = n + 1
        BY <3>2, <4>2, <4>3
      <4>4. CASE j \in 1..n
        BY <3>2, <4>1, <4>2, <4>4
      <4> QED
        BY <4>3, <4>4
    <3>5. \A j \in 1..Len(k[n + 1]) : \E i \in 1..(n + 1) : i \in I /\ s[i] = k[n + 1][j]
      <4> SUFFICES ASSUME NEW j \in 1..Len(k[n + 1])
                   PROVE  \E i \in 1..(n + 1) : i \in I /\ s[i] = k[n + 1][j]
        OBVIOUS
      <4>1. CASE j = Len(k[n]) + 1
        BY <2>3, <3>2, <4>1
      <4>2. CASE j \in 1..Len(k[n])
        <5>1. PICK i \in 1..n : i \in I /\ s[i] = k[n][j]
          BY <4>2
        <5>2. i \in 1..(n + 1) /\ s[i] = k[n + 1][j]
          BY <3>2, <4>2, <5>1
        <5> QED
          BY <5>1, <5>2
      <4> QED
        BY <2>2, <3>2, <4>1, <4>2
    <3>6. \A i \in 1..(n + 1) : i \in I => \E j \in 1..Len(k[n + 1]) : s[i] = k[n + 1][j]
      <4> SUFFICES ASSUME NEW i \in 1..(n + 1), i \in I
                   PROVE  \E j \in 1..Len(k[n + 1]) : s[i] = k[n + 1][j]
        OBVIOUS
      <4>1. CASE i = n + 1
        <5>1. Len(k[n]) + 1 \in 1..Len(k[n + 1])
          BY <2>2, <3>2
        <5> QED
          BY <3>2, <4>1, <5>1
      <4>2. CASE i \in 1..n
        <5>1. PICK j \in 1..Len(k[n]) : s[i] = k[n][j]
          BY <4>2
        <5>2. j \in 1..Len(k[n + 1]) /\ s[i] = k[n + 1][j]
          BY <2>2, <3>2, <5>1
        <5> QED
          BY <5>2
      <4> QED
        BY <4>1, <4>2
    <3>7. k[n + 1] = <<>> <=> I \cap 1..(n + 1) = {}
      BY <2>3, <3>2
    <3>8. Len(k[n + 1]) <= n + 1
      BY <2>2, <3>2
    <3> QED
      BY <3>2, <3>3, <3>4, <3>5, <3>6, <3>7, <3>8
  <2>4. CASE n + 1 \notin I
    <3>1. k[n + 1] = k[n]
      BY <2>1, <2>4
    <3>2. I \cap 1..(n + 1) = I \cap 1..n
      BY <2>4
    <3>3. ~ (1..(n + 1) \subseteq I) /\ Len(k[n + 1]) # n + 1 /\ Len(k[n + 1]) <= n + 1
      BY <2>2, <2>4, <3>1
    <3>4. \A i \in 1..(n + 1) : i \in I => i \in 1..n
      BY <2>4
    <3>5. \A i \in 1..n : i \in 1..(n + 1)
      OBVIOUS
    <3> QED
      BY <3>1, <3>2, <3>3, <3>4, <3>5
  <2> QED
    BY <2>3, <2>4
<1>3. 0..Len(s) \subseteq G
  <2> HIDE DEF G
  <2>1. Len(s) \in Nat
    OBVIOUS
  <2> QED
    BY <1>1, <1>2, <2>1, UpToInduction
<1> QED
  BY <1>3 DEF k, Good

\* What the other modules use.  Nothing is left out exactly if every position is kept.
LEMMA KeepAtFacts ==
  ASSUME NEW T, NEW s \in Seq(T), NEW I
  PROVE  /\ KeepAt(s, I) \in Seq(T)
         /\ KeepAt(s, I) = s <=> DOMAIN s \subseteq I
         /\ KeepAt(s, I) = <<>> <=> I \cap DOMAIN s = {}
         /\ \A j \in DOMAIN KeepAt(s, I) :
              \E i \in DOMAIN s : i \in I /\ s[i] = KeepAt(s, I)[j]
         /\ \A i \in DOMAIN s : i \in I =>
              \E j \in DOMAIN KeepAt(s, I) : s[i] = KeepAt(s, I)[j]
<1> DEFINE k == KeepAt(s, I)
           n == Len(s)
<1>1. n \in Nat /\ n \in 0..n /\ DOMAIN s = 1..n
  OBVIOUS
<1>2. KeptWell(T, s, I, n, k)
  BY <1>1, KeepAtDef, KeptFacts
<1> HIDE DEF k, n
<1>3. k \in Seq(T) /\ DOMAIN k = 1..Len(k)
  BY <1>2 DEF KeptWell
<1>4. k = s <=> 1..n \subseteq I
  <2>1. k = s => Len(k) = n
    BY DEF n
  <2>2. Len(k) = n /\ (\A j \in 1..n : k[j] = s[j]) => k = s
    BY <1>3, SeqEqual DEF n
  <2> QED
    BY <1>2, <2>1, <2>2 DEF KeptWell
<1>5. /\ k = <<>> <=> I \cap 1..n = {}
      /\ \A j \in 1..Len(k) : \E i \in 1..n : i \in I /\ s[i] = k[j]
      /\ \A i \in 1..n : i \in I => \E j \in 1..Len(k) : s[i] = k[j]
  BY <1>2 DEF KeptWell
<1> QED
  BY <1>1, <1>3, <1>4, <1>5 DEF k

\* Only the positions of the list matter.
LEMMA KeepAtAgree ==
  ASSUME NEW T, NEW s \in Seq(T), NEW I, NEW J, I \cap DOMAIN s = J \cap DOMAIN s
  PROVE  KeepAt(s, I) = KeepAt(s, J)
<1> DEFINE G == {n \in 0..Len(s) : Kept(s, I)[n] = Kept(s, J)[n]}
<1>1. Len(s) \in Nat /\ DOMAIN s = 1..Len(s)
  OBVIOUS
<1>2. 0 \in G
  BY KeepAtDef
<1>3. \A n \in 0..(Len(s) - 1) : n \in G => n + 1 \in G
  <2> SUFFICES ASSUME NEW n \in 0..(Len(s) - 1), Kept(s, I)[n] = Kept(s, J)[n]
               PROVE  Kept(s, I)[n + 1] = Kept(s, J)[n + 1]
    OBVIOUS
  <2>1. n + 1 \in 1..Len(s) /\ (n + 1) - 1 = n
    OBVIOUS
  <2>2. n + 1 \in I <=> n + 1 \in J
    BY <1>1, <2>1
  <2>3. Kept(s, I)[n + 1] = IF n + 1 \in I THEN Append(Kept(s, I)[n], s[n + 1])
                                           ELSE Kept(s, I)[n]
    BY <2>1, KeepAtDef
  <2>4. Kept(s, J)[n + 1] = IF n + 1 \in J THEN Append(Kept(s, J)[n], s[n + 1])
                                           ELSE Kept(s, J)[n]
    BY <2>1, KeepAtDef
  <2> QED
    BY <2>2, <2>3, <2>4
<1>4. 0..Len(s) \subseteq G
  <2> HIDE DEF G
  <2> QED
    BY <1>1, <1>2, <1>3, UpToInduction
<1> QED
  BY <1>1, <1>4, KeepAtDef

\* The weight of a list, where w gives the weight of an element.
Weigh(w, s) == SumOf([j \in DOMAIN s |-> w[s[j]]])

LEMMA WeighType ==
  ASSUME NEW T, NEW s \in Seq(T), NEW w \in [T -> Int]
  PROVE  /\ IsFiniteSet(DOMAIN s)
         /\ [j \in DOMAIN s |-> w[s[j]]] \in [DOMAIN s -> Int]
         /\ Weigh(w, s) \in Int
<1>1. IsFiniteSet(DOMAIN s)
  <2>1. Len(s) \in Nat /\ DOMAIN s = 1..Len(s)
    OBVIOUS
  <2> QED
    BY <2>1, FS_Interval
<1>2. [j \in DOMAIN s |-> w[s[j]]] \in [DOMAIN s -> Int]
  OBVIOUS
<1> QED
  BY <1>1, <1>2, SumOfInt DEF Weigh

LEMMA WeighAppend ==
  ASSUME NEW T, NEW s \in Seq(T), NEW x \in T, NEW w \in [T -> Int]
  PROVE  Weigh(w, Append(s, x)) = Weigh(w, s) + w[x]
<1> DEFINE n == Len(s) + 1
           a == Append(s, x)
           f == [j \in 1..n |-> w[a[j]]]
<1>1. Len(s) \in Nat /\ DOMAIN s = 1..Len(s)
  OBVIOUS
<1>2. /\ a \in Seq(T) /\ DOMAIN a = 1..n /\ a[n] = x
      /\ \A j \in 1..Len(s) : a[j] = s[j]
  BY AppendProperties
<1> HIDE DEF a
<1>3. n \in Nat \ {0} /\ f \in [1..n -> Int] /\ n - 1 = Len(s)
  BY <1>1, <1>2
<1>4. SumOf(f) = SumOf(Part(f, 1..(n - 1))) + f[n]
  <2> HIDE DEF n, f
  <2> QED
    BY <1>3, SumOfLast
<1>5. f[n] = w[x]
  BY <1>1, <1>2
<1>6. Part(f, 1..(n - 1)) = [j \in DOMAIN s |-> w[s[j]]]
  BY <1>1, <1>2, <1>3 DEF Part
<1>7. Weigh(w, a) = SumOf(f)
  BY <1>2 DEF Weigh
<1> QED
  BY <1>4, <1>5, <1>6, <1>7 DEF Weigh, a

LEMMA WeighKept ==
  ASSUME NEW T, NEW s \in Seq(T), NEW w \in [T -> Int], NEW I
  PROVE  Weigh(w, KeepAt(s, I)) = SumOf([i \in DOMAIN s |-> IF i \in I THEN w[s[i]] ELSE 0])
<1> DEFINE F == [i \in DOMAIN s |-> IF i \in I THEN w[s[i]] ELSE 0]
           k == Kept(s, I)
           G == {n \in 0..Len(s) : Weigh(w, k[n]) = SumOf(Part(F, 1..n))}
<1>1. Len(s) \in Nat /\ DOMAIN s = 1..Len(s)
  OBVIOUS
<1>2. IsFiniteSet(DOMAIN F) /\ \A i \in DOMAIN F : F[i] \in Int
  BY <1>1, FS_Interval
<1>3. DOMAIN F = DOMAIN s /\ \A i \in DOMAIN s : F[i] = IF i \in I THEN w[s[i]] ELSE 0
  OBVIOUS
<1>4. F = Part(F, 1..Len(s))
  BY <1>1 DEF Part
<1> HIDE DEF F
<1>5. 0 \in G
  <2>1. k[0] = <<>>
    BY KeepAtDef
  <2>2. Weigh(w, <<>>) = 0
    BY SumOfNone DEF Weigh
  <2>3. SumOf(Part(F, 1..0)) = 0
    BY SumOfNone DEF Part
  <2> HIDE DEF k
  <2> QED
    BY <1>1, <2>1, <2>2, <2>3
<1>6. \A n \in 0..(Len(s) - 1) : n \in G => n + 1 \in G
  <2> SUFFICES ASSUME NEW n \in 0..(Len(s) - 1), Weigh(w, k[n]) = SumOf(Part(F, 1..n))
               PROVE  Weigh(w, k[n + 1]) = SumOf(Part(F, 1..(n + 1)))
    OBVIOUS
  <2>1. n + 1 \in 1..Len(s) /\ (n + 1) - 1 = n /\ n \in 0..Len(s) /\ s[n + 1] \in T
    BY <1>1
  <2>2. k[n + 1] = IF n + 1 \in I THEN Append(k[n], s[n + 1]) ELSE k[n]
    BY <2>1, KeepAtDef
  <2>3. k[n] \in Seq(T)
    BY <2>1, KeptFacts DEF KeptWell
  <2>4. SumOf(Part(F, 1..(n + 1))) = SumOf(Part(F, 1..n)) + F[n + 1]
    <3> DEFINE S == 1..(n + 1)
    <3>1. S \in SUBSET DOMAIN F /\ n + 1 \in S /\ S \ {n + 1} = 1..n
      BY <1>1, <1>3, <2>1
    <3> HIDE DEF S
    <3>2. SumOf(Part(F, S)) = SumOf(Part(F, S \ {n + 1})) + F[n + 1]
      BY <1>2, <3>1, SumOfPart
    <3> QED
      BY <3>1, <3>2 DEF S
  <2>5. Weigh(w, k[n]) \in Int
    BY <2>3, WeighType
  <2> HIDE DEF k
  <2>6. CASE n + 1 \in I
    <3>1. Weigh(w, k[n + 1]) = Weigh(w, k[n]) + w[s[n + 1]]
      BY <2>1, <2>2, <2>3, <2>6, WeighAppend
    <3>2. F[n + 1] = w[s[n + 1]]
      BY <1>1, <1>3, <2>1, <2>6
    <3> QED
      BY <2>4, <3>1, <3>2
  <2>7. CASE n + 1 \notin I
    <3>1. F[n + 1] = 0 /\ k[n + 1] = k[n]
      BY <1>1, <1>3, <2>1, <2>2, <2>7
    <3> QED
      BY <2>4, <2>5, <3>1
  <2> QED
    BY <2>6, <2>7
<1>7. 0..Len(s) \subseteq G
  <2> HIDE DEF G
  <2> QED
    BY <1>1, <1>5, <1>6, UpToInduction
<1>8. KeepAt(s, I) = k[Len(s)]
  BY KeepAtDef
<1> HIDE DEF k
<1> QED
  BY <1>1, <1>4, <1>7, <1>8 DEF F

\* Taking one element away takes its weight away.
LEMMA WeighKeepOthers ==
  ASSUME NEW T, NEW s \in Seq(T), NEW w \in [T -> Int], NEW v \in DOMAIN s
  PROVE  Weigh(w, KeepAt(s, DOMAIN s \ {v})) = Weigh(w, s) - w[s[v]]
<1> DEFINE D == DOMAIN s
           F == [i \in D |-> IF i \in D \ {v} THEN w[s[i]] ELSE 0]
           W == [i \in D |-> w[s[i]]]
<1>1. IsFiniteSet(D) /\ W \in [D -> Int] /\ F \in [D -> Int] /\ v \in D
  BY WeighType
<1>2. Weigh(w, KeepAt(s, D \ {v})) = SumOf(F)
  BY WeighKept
<1>3. Weigh(w, s) = SumOf(W)
  BY DEF Weigh
<1>4. W[v] = w[s[v]] /\ F[v] = 0 /\ W[v] \in Int
  BY <1>1
<1>5. Part(F, D \ {v}) = Part(W, D \ {v})
  BY DEF Part
<1> HIDE DEF D, F, W
<1>6. SumOf(F) = SumOf(Part(F, D \ {v})) + F[v] /\ SumOf(W) = SumOf(Part(W, D \ {v})) + W[v]
  BY <1>1, SumOfRemove
<1>7. SumOf(W) \in Int /\ SumOf(F) \in Int
  BY <1>1, SumOfInt
<1>8. SumOf(Part(W, D \ {v})) \in Int
  <2>1. IsFiniteSet(D \ {v}) /\ Part(W, D \ {v}) \in [D \ {v} -> Int]
    BY <1>1, FS_RemoveElement DEF Part
  <2> QED
    BY <2>1, SumOfInt
<1> QED
  BY <1>2, <1>3, <1>4, <1>5, <1>6, <1>7, <1>8 DEF D

-----------------------------------------------------------------------------
(* Concatenations *)

FlatStep(ss, g, i) == IF i = 1 THEN ss[i] ELSE g[i - 1] \o ss[i]

AreFlat(ss, N, g) == g = [i \in 1..N |-> FlatStep(ss, g, i)]

\* The recursion that FlattenSeq names has a solution.
LEMMA FlatExists ==
  ASSUME NEW ss, NEW N \in Nat
  PROVE  \E g : AreFlat(ss, N, g)
<1> DEFINE G == {n \in Nat : \E g : AreFlat(ss, n, g)}
<1>1. 0 \in G
  <2> DEFINE g == [i \in 1..0 |-> <<>>]
  <2>1. g = [i \in 1..0 |-> FlatStep(ss, g, i)]
    OBVIOUS
  <2> HIDE DEF g
  <2>2. AreFlat(ss, 0, g)
    BY <2>1 DEF AreFlat
  <2> QED
    BY <2>2
<1>2. \A n \in G : n + 1 \in G
  <2> SUFFICES ASSUME NEW n \in Nat, NEW g, AreFlat(ss, n, g) PROVE n + 1 \in G
    OBVIOUS
  <2> DEFINE h == [i \in 1..(n + 1) |-> FlatStep(ss, g, i)]
  <2>1. \A i \in 1..n : h[i] = g[i]
    BY DEF AreFlat
  <2>2. \A i \in 1..(n + 1) : h[i] = FlatStep(ss, g, i)
    OBVIOUS
  <2>3. \A i \in 1..(n + 1) : FlatStep(ss, g, i) = FlatStep(ss, h, i)
    <3> HIDE DEF h
    <3> QED
      BY <2>1 DEF FlatStep
  <2>4. h = [i \in 1..(n + 1) |-> h[i]]
    OBVIOUS
  <2> HIDE DEF h
  <2>5. AreFlat(ss, n + 1, h)
    BY <2>2, <2>3, <2>4 DEF AreFlat
  <2> QED
    BY <2>5
<1>3. G = Nat
  <2> HIDE DEF G
  <2> QED
    BY <1>1, <1>2, SetInduction DEF G
<1> QED
  BY <1>3

\* The concatenation of the first n lists.
Flat(ss, n) == IF n = 0 THEN <<>> ELSE (CHOOSE g : AreFlat(ss, Len(ss), g))[n]

LEMMA FlatDef ==
  ASSUME NEW T, NEW ss \in Seq(Seq(T))
  PROVE  /\ FlattenSeq(ss) = Flat(ss, Len(ss))
         /\ Flat(ss, 0) = <<>>
         /\ \A n \in 0..Len(ss) : Flat(ss, n) \in Seq(T)
         /\ \A n \in 0..(Len(ss) - 1) : Flat(ss, n + 1) = Flat(ss, n) \o ss[n + 1]
<1> DEFINE h == CHOOSE g : AreFlat(ss, Len(ss), g)
<1>1. Len(ss) \in Nat /\ \A i \in 1..Len(ss) : ss[i] \in Seq(T)
  OBVIOUS
<1>2. \E g : AreFlat(ss, Len(ss), g)
  BY <1>1, FlatExists
<1>3. AreFlat(ss, Len(ss), h)
  BY <1>2, Zenon
<1>4. Len(ss) = 0 => ss = <<>>
  OBVIOUS
<1>5. FlattenSeq(ss) = Flat(ss, Len(ss))
  BY <1>4 DEF FlattenSeq, Flat, AreFlat, FlatStep
<1>6. \A n \in 1..Len(ss) : Flat(ss, n) = h[n]
  BY <1>1 DEF Flat
<1> HIDE DEF h
<1>7. \A i \in 1..Len(ss) : h[i] = IF i = 1 THEN ss[i] ELSE h[i - 1] \o ss[i]
  BY <1>3 DEF AreFlat, FlatStep
<1>8. Flat(ss, 0) = <<>>
  BY DEF Flat
<1>9. \A n \in 0..(Len(ss) - 1) : Flat(ss, n + 1) = Flat(ss, n) \o ss[n + 1]
  <2> SUFFICES ASSUME NEW n \in 0..(Len(ss) - 1)
               PROVE  Flat(ss, n + 1) = Flat(ss, n) \o ss[n + 1]
    OBVIOUS
  <2>1. n + 1 \in 1..Len(ss) /\ (n + 1) - 1 = n /\ (n = 0 <=> n + 1 = 1)
    BY <1>1
  <2>2. Flat(ss, n + 1) = IF n + 1 = 1 THEN ss[n + 1] ELSE h[n] \o ss[n + 1]
    BY <1>6, <1>7, <2>1
  <2>3. CASE n = 0
    <3>1. ss[n + 1] \in Seq(T)
      BY <1>1, <2>1
    <3>2. <<>> \o ss[n + 1] = ss[n + 1]
      BY <3>1, ConcatEmptySeq
    <3> QED
      BY <1>8, <2>1, <2>2, <2>3, <3>2
  <2>4. CASE n # 0
    <3>1. n \in 1..Len(ss)
      BY <1>1, <2>4
    <3> QED
      BY <1>6, <2>1, <2>2, <2>4, <3>1
  <2> QED
    BY <2>3, <2>4
<1>10. \A n \in 0..Len(ss) : Flat(ss, n) \in Seq(T)
  <2> DEFINE G == {n \in 0..Len(ss) : Flat(ss, n) \in Seq(T)}
  <2>1. 0 \in G
    <3>1. <<>> \in Seq(T) /\ 0 \in 0..Len(ss)
      BY <1>1
    <3> QED
      BY <1>8, <3>1
  <2>2. \A n \in 0..(Len(ss) - 1) : n \in G => n + 1 \in G
    <3> SUFFICES ASSUME NEW n \in 0..(Len(ss) - 1), Flat(ss, n) \in Seq(T)
                 PROVE  n + 1 \in 0..Len(ss) /\ Flat(ss, n + 1) \in Seq(T)
      OBVIOUS
    <3>1. n + 1 \in 1..Len(ss) /\ n + 1 \in 0..Len(ss)
      BY <1>1
    <3>2. ss[n + 1] \in Seq(T)
      BY <1>1, <3>1
    <3>3. Flat(ss, n) \o ss[n + 1] \in Seq(T)
      BY <3>2, ConcatProperties
    <3> QED
      BY <1>9, <3>1, <3>3
  <2>3. 0..Len(ss) \subseteq G
    <3> HIDE DEF G
    <3> QED
      BY <1>1, <2>1, <2>2, UpToInduction
  <2> QED
    BY <2>3
<1> QED
  BY <1>5, <1>8, <1>9, <1>10

LEMMA FlattenType ==
  ASSUME NEW T, NEW ss \in Seq(Seq(T))
  PROVE  FlattenSeq(ss) \in Seq(T)
<1>1. Len(ss) \in 0..Len(ss)
  OBVIOUS
<1> QED
  BY <1>1, FlatDef

Associative(T) == \A a, b, c \in Seq(T) : (a \o b) \o c = a \o (b \o c)

LEMMA ConcatIsAssociative == \A T : Associative(T)
BY ConcatAssociative DEF Associative

\* A list put in front.
LEMMA FlattenCons ==
  ASSUME NEW T, NEW ss \in Seq(Seq(T)), NEW us \in Seq(Seq(T)),
         Len(us) = Len(ss) + 1, \A i \in 1..Len(ss) : us[i + 1] = ss[i]
  PROVE  FlattenSeq(us) = us[1] \o FlattenSeq(ss)
<1> DEFINE G == {n \in 0..Len(ss) : Flat(us, n + 1) = us[1] \o Flat(ss, n)}
<1>1. Len(ss) \in Nat /\ Len(us) \in Nat /\ us[1] \in Seq(T)
  OBVIOUS
<1>2. 0 \in G
  <2>1. Flat(us, 0) = <<>> /\ 0 \in 0..(Len(us) - 1) /\ Flat(ss, 0) = <<>>
    BY <1>1, FlatDef
  <2>2. Flat(us, 0 + 1) = Flat(us, 0) \o us[0 + 1]
    BY <2>1, FlatDef
  <2>3. <<>> \o us[1] = us[1] /\ us[1] \o <<>> = us[1]
    BY <1>1, ConcatEmptySeq
  <2> QED
    BY <1>1, <2>1, <2>2, <2>3
<1>3. \A n \in 0..(Len(ss) - 1) : n \in G => n + 1 \in G
  <2> SUFFICES ASSUME NEW n \in 0..(Len(ss) - 1), Flat(us, n + 1) = us[1] \o Flat(ss, n)
               PROVE  n + 1 \in 0..Len(ss) /\ Flat(us, (n + 1) + 1) = us[1] \o Flat(ss, n + 1)
    OBVIOUS
  <2>1. /\ n + 1 \in 0..Len(ss) /\ n + 1 \in 1..Len(ss) /\ n + 1 \in 0..(Len(us) - 1)
        /\ n \in 0..Len(ss)
    BY <1>1
  <2>2. Flat(us, (n + 1) + 1) = Flat(us, n + 1) \o us[(n + 1) + 1]
    BY <2>1, FlatDef
  <2>3. Flat(ss, n + 1) = Flat(ss, n) \o ss[n + 1]
    BY FlatDef
  <2>4. us[(n + 1) + 1] = ss[n + 1]
    BY <2>1
  <2>5. Flat(ss, n) \in Seq(T) /\ ss[n + 1] \in Seq(T)
    BY <2>1, FlatDef
  <2>6. (us[1] \o Flat(ss, n)) \o ss[n + 1] = us[1] \o (Flat(ss, n) \o ss[n + 1])
    <3> DEFINE a == us[1]
               b == Flat(ss, n)
               c == ss[n + 1]
    <3>1. a \in Seq(T) /\ b \in Seq(T) /\ c \in Seq(T)
      BY <1>1, <2>5
    <3> HIDE DEF a, b, c
    <3>2. Associative(T)
      BY ConcatIsAssociative
    <3>3. (a \o b) \o c = a \o (b \o c)
      BY <3>1, <3>2 DEF Associative
    <3> QED
      BY <3>3 DEF a, b, c
  <2> QED
    BY <2>1, <2>2, <2>3, <2>4, <2>6
<1>4. 0..Len(ss) \subseteq G
  <2> HIDE DEF G
  <2> QED
    BY <1>1, <1>2, <1>3, UpToInduction
<1>5. Len(ss) \in 0..Len(ss)
  BY <1>1
<1> QED
  BY <1>4, <1>5, FlatDef

\* Two lists.
LEMMA FlattenTwo ==
  ASSUME NEW T, NEW ss \in Seq(Seq(T)), Len(ss) = 2
  PROVE  FlattenSeq(ss) = ss[1] \o ss[2]
<1>1. ss[1] \in Seq(T) /\ ss[2] \in Seq(T)
  OBVIOUS
<1>0. 0 \in 0..(Len(ss) - 1) /\ 1 \in 0..(Len(ss) - 1)
  OBVIOUS
<1>2. Flat(ss, 0) = <<>> /\ Flat(ss, 0 + 1) = Flat(ss, 0) \o ss[0 + 1]
  BY <1>0, FlatDef
<1>3. Flat(ss, 1 + 1) = Flat(ss, 1) \o ss[1 + 1]
  BY <1>0, FlatDef
<1>4. <<>> \o ss[1] = ss[1]
  BY <1>1, ConcatEmptySeq
<1>5. Flat(ss, 1) = ss[1] /\ Flat(ss, 2) = ss[1] \o ss[2]
  <2>1. 0 + 1 = 1 /\ 1 + 1 = 2
    OBVIOUS
  <2>2. Flat(ss, 1) = <<>> \o ss[1]
    BY <1>2, <2>1
  <2> QED
    BY <1>3, <1>4, <2>1, <2>2
<1> QED
  BY <1>5, FlatDef

\* Lists of which at most one has elements.
LEMMA FlattenSingle ==
  ASSUME NEW T, NEW ss \in Seq(Seq(T)), NEW k \in 1..Len(ss),
         \A i \in 1..Len(ss) : i # k => ss[i] = <<>>
  PROVE  FlattenSeq(ss) = ss[k]
<1> DEFINE G == {n \in 0..Len(ss) : Flat(ss, n) = IF k <= n THEN ss[k] ELSE <<>>}
<1>1. Len(ss) \in Nat /\ \A i \in 1..Len(ss) : ss[i] \in Seq(T)
  OBVIOUS
<1>2. 0 \in G
  BY <1>1, FlatDef
<1>3. \A n \in 0..(Len(ss) - 1) : n \in G => n + 1 \in G
  <2> SUFFICES ASSUME NEW n \in 0..(Len(ss) - 1), Flat(ss, n) = IF k <= n THEN ss[k] ELSE <<>>
               PROVE  Flat(ss, n + 1) = IF k <= n + 1 THEN ss[k] ELSE <<>>
    OBVIOUS
  <2>1. n + 1 \in 1..Len(ss)
    BY <1>1
  <2>2. Flat(ss, n + 1) = Flat(ss, n) \o ss[n + 1]
    BY FlatDef
  <2>3. ss[k] \in Seq(T) /\ <<>> \in Seq(T)
    BY <1>1
  <2>4. /\ ss[k] \o <<>> = ss[k] /\ <<>> \o ss[k] = ss[k]
        /\ <<>> \o <<>> = <<>>
    BY <2>3, ConcatEmptySeq
  <2>5. CASE k <= n
    <3>1. ss[n + 1] = <<>> /\ k <= n + 1
      BY <2>1, <2>5
    <3> QED
      BY <2>2, <2>4, <2>5, <3>1
  <2>6. CASE k = n + 1
    <3>1. ~(k <= n) /\ k <= n + 1
      BY <2>6
    <3> QED
      BY <2>2, <2>4, <2>6, <3>1
  <2>7. CASE k > n + 1
    <3>1. ss[n + 1] = <<>> /\ ~(k <= n + 1) /\ ~(k <= n)
      BY <2>1, <2>7
    <3> QED
      BY <2>2, <2>4, <3>1
  <2> QED
    BY <2>5, <2>6, <2>7
<1>4. 0..Len(ss) \subseteq G
  <2> HIDE DEF G
  <2> QED
    BY <1>1, <1>2, <1>3, UpToInduction
<1>5. Len(ss) \in 0..Len(ss) /\ k <= Len(ss)
  BY <1>1
<1> QED
  BY <1>4, <1>5, FlatDef

\* The weight of a list is what its parts weigh.
LEMMA WeighConcat ==
  ASSUME NEW T, NEW s \in Seq(T), NEW t \in Seq(T), NEW w \in [T -> Int]
  PROVE  Weigh(w, s \o t) = Weigh(w, s) + Weigh(w, t)
<1> DEFINE u == s \o t
           m == Len(s)
           D == 1..(m + Len(t))
           f == [j \in D |-> w[u[j]]]
           g == [j \in 1..Len(t) |-> w[t[j]]]
           G == {n \in 0..Len(t) : SumOf(Part(f, 1..(m + n))) = Weigh(w, s) + SumOf(Part(g, 1..n))}
<1>1. /\ m \in Nat /\ Len(t) \in Nat /\ DOMAIN s = 1..m /\ DOMAIN t = 1..Len(t)
      /\ \A j \in 1..m : s[j] \in T
      /\ \A j \in 1..Len(t) : t[j] \in T
  OBVIOUS
<1>2. /\ u \in Seq(T) /\ DOMAIN u = D
      /\ \A j \in D : u[j] = IF j <= m THEN s[j] ELSE t[j - m]
  BY <1>1, ConcatProperties
<1> HIDE DEF u
<1>3. /\ \A j \in D : f[j] \in Int /\ f[j] = w[IF j <= m THEN s[j] ELSE t[j - m]]
      /\ DOMAIN f = D /\ IsFiniteSet(D)
      /\ DOMAIN g = 1..Len(t) /\ IsFiniteSet(1..Len(t))
      /\ \A j \in 1..Len(t) : g[j] \in Int /\ g[j] = w[t[j]]
  <2>1. IsFiniteSet(D) /\ IsFiniteSet(1..Len(t))
    <3>1. m + Len(t) \in Nat
      BY <1>1
    <3> QED
      BY <1>1, <3>1, FS_Interval
  <2>2. \A j \in 1..Len(t) : g[j] \in Int /\ g[j] = w[t[j]]
    BY <1>1
  <2>3. \A j \in D : u[j] \in T
    BY <1>2
  <2>4. \A j \in D : f[j] \in Int /\ f[j] = w[IF j <= m THEN s[j] ELSE t[j - m]]
    BY <1>2, <2>3
  <2> QED
    BY <2>1, <2>2, <2>4
<1>4. Weigh(w, s) \in Int
  BY WeighType
<1>5. Part(f, 1..m) = [j \in DOMAIN s |-> w[s[j]]]
  BY <1>1, <1>3 DEF Part
<1>6. Part(g, 1..Len(t)) = [j \in DOMAIN t |-> w[t[j]]]
  BY <1>1, <1>3 DEF Part
<1>7. Part(f, D) = [j \in DOMAIN u |-> w[u[j]]]
  BY <1>1, <1>2, <1>3 DEF Part
<1> HIDE DEF D, f, g, m
<1>8. 0 \in G
  <2>1. SumOf(Part(g, 1..0)) = 0
    BY SumOfNone DEF Part
  <2>2. SumOf(Part(f, 1..m)) = Weigh(w, s)
    BY <1>5 DEF Weigh
  <2>3. m + 0 = m
    BY <1>1
  <2> QED
    BY <1>1, <1>4, <2>1, <2>2, <2>3
<1>9. \A n \in 0..(Len(t) - 1) : n \in G => n + 1 \in G
  <2> SUFFICES ASSUME NEW n \in 0..(Len(t) - 1),
                      SumOf(Part(f, 1..(m + n))) = Weigh(w, s) + SumOf(Part(g, 1..n))
               PROVE  SumOf(Part(f, 1..(m + (n + 1)))) = Weigh(w, s) + SumOf(Part(g, 1..(n + 1)))
    BY <1>1
  <2> DEFINE S == 1..(m + (n + 1))
             R == 1..(n + 1)
             y == m + (n + 1)
  <2>1. S \in SUBSET D /\ y \in S /\ S \ {y} = 1..(m + n) /\ y \in D
    BY <1>1 DEF D
  <2>2. R \in SUBSET (1..Len(t)) /\ n + 1 \in R /\ R \ {n + 1} = 1..n /\ n + 1 \in 1..Len(t)
    BY <1>1
  <2>3. y > m /\ y - m = n + 1
    BY <1>1
  <2>4. f[y] = g[n + 1] /\ f[y] \in Int
    <3>1. ~(y <= m)
      BY <1>1, <2>3
    <3>2. f[y] \in Int /\ f[y] = w[IF y <= m THEN s[y] ELSE t[y - m]]
      BY <1>3, <2>1
    <3>3. f[y] = w[t[n + 1]]
      BY <2>3, <3>1, <3>2
    <3> QED
      BY <1>3, <2>2, <3>2, <3>3
  <2> HIDE DEF S, R, y
  <2>5. SumOf(Part(f, S)) = SumOf(Part(f, S \ {y})) + f[y]
    <3>1. IsFiniteSet(DOMAIN f) /\ \A j \in DOMAIN f : f[j] \in Int
      BY <1>3
    <3>2. S \in SUBSET DOMAIN f /\ y \in S
      BY <1>3, <2>1
    <3> QED
      BY <3>1, <3>2, SumOfPart
  <2>6. SumOf(Part(g, R)) = SumOf(Part(g, R \ {n + 1})) + g[n + 1]
    <3>1. IsFiniteSet(DOMAIN g) /\ \A j \in DOMAIN g : g[j] \in Int
      BY <1>3
    <3>2. R \in SUBSET DOMAIN g /\ n + 1 \in R
      BY <1>3, <2>2
    <3> QED
      BY <3>1, <3>2, SumOfPart
  <2>7. SumOf(Part(g, 1..n)) \in Int
    <3>1. 1..n \in SUBSET (1..Len(t))
      BY <1>1
    <3> QED
      BY <1>3, <3>1, SumOfPart
  <2>8. SumOf(Part(f, S)) = Weigh(w, s) + SumOf(Part(g, R))
    <3>1. SumOf(Part(f, S \ {y})) = Weigh(w, s) + SumOf(Part(g, R \ {n + 1}))
      BY <2>1, <2>2
    <3>2. SumOf(Part(g, R \ {n + 1})) \in Int
      BY <2>2, <2>7
    <3> QED
      BY <1>4, <2>4, <2>5, <2>6, <3>1, <3>2
  <2> QED
    BY <2>8 DEF S, R
<1>10. 0..Len(t) \subseteq G
  <2> HIDE DEF G
  <2> QED
    BY <1>1, <1>8, <1>9, UpToInduction
<1>11. Len(t) \in 0..Len(t)
  BY <1>1
<1> QED
  BY <1>6, <1>7, <1>10, <1>11 DEF Weigh, D, u

-----------------------------------------------------------------------------
(* Counting *)

\* A sum of zeros and ones counts the ones.
LEMMA SumOfOnes ==
  ASSUME NEW D, IsFiniteSet(D), NEW f \in [D -> {0, 1}]
  PROVE  SumOf(f) = Cardinality({x \in D : f[x] = 1})
<1> DEFINE Ones(S) == {x \in S : f[x] = 1}
           F == {S \in SUBSET D : SumOf(Part(f, S)) = Cardinality(Ones(S))}
<1>1. f \in [D -> Int]
  OBVIOUS
<1>2. \A S \in SUBSET D : (\A y \in S : S \ {y} \in F) => S \in F
  <2> SUFFICES ASSUME NEW S \in SUBSET D, \A y \in S : S \ {y} \in F PROVE S \in F
    OBVIOUS
  <2>1. CASE S = {}
    <3>1. SumOf(Part(f, S)) = 0
      BY <1>1, <2>1, SumOfPart
    <3>2. Ones(S) = {}
      BY <2>1
    <3> QED
      BY <3>1, <3>2, FS_EmptySet
  <2>2. ASSUME NEW y \in S PROVE S \in F
    <3>1. SumOf(Part(f, S)) = SumOf(Part(f, S \ {y})) + f[y]
      BY <1>1, SumOfPart
    <3>2. SumOf(Part(f, S \ {y})) = Cardinality(Ones(S \ {y}))
      OBVIOUS
    <3>3. IsFiniteSet(Ones(S))
      BY FS_Subset
    <3>4. Ones(S \ {y}) = Ones(S) \ {y} /\ (y \in Ones(S) <=> f[y] = 1) /\ f[y] \in {0, 1}
      OBVIOUS
    <3> HIDE DEF Ones
    <3>5. /\ Cardinality(Ones(S) \ {y}) =
               IF y \in Ones(S) THEN Cardinality(Ones(S)) - 1 ELSE Cardinality(Ones(S))
          /\ Cardinality(Ones(S)) \in Nat
      BY <3>3, FS_RemoveElement, FS_CardinalityType
    <3>7. Cardinality(Ones(S \ {y})) =
            IF f[y] = 1 THEN Cardinality(Ones(S)) - 1 ELSE Cardinality(Ones(S))
      BY <3>4, <3>5
    <3>8. Cardinality(Ones(S)) \in Nat /\ f[y] \in {0, 1}
      BY <3>4, <3>5
    <3>6. SumOf(Part(f, S)) = Cardinality(Ones(S))
      <4> DEFINE a == SumOf(Part(f, S))
                 b == SumOf(Part(f, S \ {y}))
                 m == Cardinality(Ones(S))
                 x == f[y]
      <4>1. a = b + x /\ b = (IF x = 1 THEN m - 1 ELSE m) /\ m \in Nat /\ x \in {0, 1}
        BY <3>1, <3>2, <3>7, <3>8
      <4> HIDE DEF a, b, m, x
      <4>2. a = m
        BY <4>1
      <4> QED
        BY <4>2 DEF a, m
    <3> QED
      BY <3>6
  <2> QED
    BY <2>1, <2>2
<1> HIDE DEF F
<1>3. D \in F
  BY <1>2, RemovalInduction
<1>4. f = Part(f, D)
  BY DEF Part
<1> QED
  BY <1>3, <1>4 DEF F

\* How many elements of a list have weight one.
LEMMA WeighOnes ==
  ASSUME NEW T, NEW s \in Seq(T), NEW w \in [T -> {0, 1}]
  PROVE  /\ Weigh(w, s) = Cardinality({k \in DOMAIN s : w[s[k]] = 1})
         /\ Weigh(w, s) \in Nat
<1> DEFINE D == DOMAIN s
           f == [k \in D |-> w[s[k]]]
<1>1. f \in [D -> {0, 1}] /\ {k \in D : f[k] = 1} = {k \in D : w[s[k]] = 1}
  OBVIOUS
<1>2. w \in [T -> Int]
  OBVIOUS
<1>3. IsFiniteSet(D)
  BY <1>2, WeighType
<1>4. IsFiniteSet({k \in D : f[k] = 1})
  BY <1>3, FS_Subset
<1> HIDE DEF D, f
<1>5. SumOf(f) = Cardinality({k \in D : f[k] = 1})
  BY <1>1, <1>3, SumOfOnes
<1>6. Cardinality({k \in D : f[k] = 1}) \in Nat
  BY <1>4, FS_CardinalityType
<1> QED
  BY <1>1, <1>5, <1>6 DEF Weigh, D, f

-----------------------------------------------------------------------------
(* The chainstate *)

LEMMA PutFacts ==
  ASSUME NEW f, NEW key, NEW val
  PROVE  /\ DOMAIN Put(f, key, val) = DOMAIN f \cup {key}
         /\ Put(f, key, val)[key] = val
         /\ \A k \in DOMAIN f : k # key => Put(f, key, val)[k] = f[k]
BY DEF Put

-----------------------------------------------------------------------------
(* The iterator *)

WalkStep(blocks, tip, g, k) ==
  IF k = 0 THEN [at |-> tip, seen |-> <<>>]
  ELSE IF g[k - 1].at = NoBlock THEN g[k - 1]
  ELSE [at   |-> blocks[g[k - 1].at].prev,
        seen |-> Append(g[k - 1].seen, blocks[g[k - 1].at])]

IsWalk(blocks, tip, N, g) == g = [k \in 0..N |-> WalkStep(blocks, tip, g, k)]

\* The recursion that Iterate names has a solution.
LEMMA WalkExists ==
  ASSUME NEW blocks, NEW tip, NEW N \in Nat
  PROVE  \E g : IsWalk(blocks, tip, N, g)
<1> DEFINE G == {n \in Nat : \E g : IsWalk(blocks, tip, n, g)}
<1>1. 0 \in G
  <2> DEFINE g == [k \in 0..0 |-> [at |-> tip, seen |-> <<>>]]
  <2>1. \A k \in 0..0 : WalkStep(blocks, tip, g, k) = [at |-> tip, seen |-> <<>>]
    BY DEF WalkStep
  <2> HIDE DEF g
  <2>2. IsWalk(blocks, tip, 0, g)
    BY <2>1 DEF IsWalk, g
  <2> QED
    BY <2>2
<1>2. \A n \in G : n + 1 \in G
  <2> SUFFICES ASSUME NEW n \in Nat, NEW g, IsWalk(blocks, tip, n, g) PROVE n + 1 \in G
    OBVIOUS
  <2> DEFINE h == [k \in 0..(n + 1) |-> WalkStep(blocks, tip, g, k)]
  <2>1. \A k \in 0..n : h[k] = g[k]
    BY DEF IsWalk
  <2>2. \A k \in 0..(n + 1) : h[k] = WalkStep(blocks, tip, g, k)
    OBVIOUS
  <2>3. \A k \in 0..(n + 1) : WalkStep(blocks, tip, g, k) = WalkStep(blocks, tip, h, k)
    <3> SUFFICES ASSUME NEW k \in 0..(n + 1)
                 PROVE  WalkStep(blocks, tip, g, k) = WalkStep(blocks, tip, h, k)
      OBVIOUS
    <3>1. k # 0 => g[k - 1] = h[k - 1]
      BY <2>1
    <3> HIDE DEF h
    <3> QED
      BY <3>1 DEF WalkStep
  <2>4. h = [k \in 0..(n + 1) |-> h[k]]
    OBVIOUS
  <2> HIDE DEF h
  <2>5. IsWalk(blocks, tip, n + 1, h)
    BY <2>2, <2>3, <2>4 DEF IsWalk
  <2> QED
    BY <2>5
<1>3. G = Nat
  <2> HIDE DEF G
  <2> QED
    BY <1>1, <1>2, SetInduction DEF G
<1> QED
  BY <1>3

\* One step of the walk, field by field.
Walked(blocks, tip, N, it) ==
  /\ it[0].at = tip
  /\ it[0].seen = <<>>
  /\ \A k \in 0..(N - 1) :
       IF it[k].at = NoBlock
       THEN it[k + 1].at = it[k].at /\ it[k + 1].seen = it[k].seen
       ELSE /\ it[k + 1].at = blocks[it[k].at].prev
            /\ it[k + 1].seen = Append(it[k].seen, blocks[it[k].at])

LEMMA IterateDef ==
  ASSUME NEW blocks, IsFiniteSet(DOMAIN blocks), NEW tip
  PROVE  /\ Cardinality(DOMAIN blocks) \in Nat
         /\ Walked(blocks, tip, Cardinality(DOMAIN blocks), Iterate(blocks, tip))
<1> DEFINE N == Cardinality(DOMAIN blocks)
           it == Iterate(blocks, tip)
<1>1. N \in Nat
  BY FS_CardinalityType
<1>2. it = CHOOSE g : IsWalk(blocks, tip, N, g)
  BY DEF Iterate, IsWalk, WalkStep
<1> HIDE DEF N, it
<1>3. \E g : IsWalk(blocks, tip, N, g)
  BY <1>1, WalkExists
<1>4. IsWalk(blocks, tip, N, it)
  BY <1>2, <1>3, Zenon
<1>5. \A k \in 0..N : it[k] = WalkStep(blocks, tip, it, k)
  BY <1>4 DEF IsWalk
<1>6. it[0].at = tip /\ it[0].seen = <<>>
  <2>1. it[0] = WalkStep(blocks, tip, it, 0)
    BY <1>1, <1>5
  <2> QED
    BY <2>1 DEF WalkStep
<1>7. ASSUME NEW k \in 0..(N - 1)
      PROVE  IF it[k].at = NoBlock
             THEN it[k + 1].at = it[k].at /\ it[k + 1].seen = it[k].seen
             ELSE /\ it[k + 1].at = blocks[it[k].at].prev
                  /\ it[k + 1].seen = Append(it[k].seen, blocks[it[k].at])
  <2>1. k + 1 \in 0..N /\ (k + 1) - 1 = k /\ k + 1 # 0
    BY <1>1
  <2>2. it[k + 1] = WalkStep(blocks, tip, it, k + 1)
    BY <1>5, <2>1
  <2> QED
    BY <2>1, <2>2 DEF WalkStep
<1> QED
  BY <1>1, <1>6, <1>7 DEF Walked, N, it

\* A chain in which every block's parent is stored or there is none.
Closed(blocks) ==
  /\ IsFiniteSet(DOMAIN blocks)
  /\ NoBlock \notin DOMAIN blocks
  /\ \A h \in DOMAIN blocks : blocks[h].prev \in DOMAIN blocks \cup {NoBlock}

LEMMA IterateType ==
  ASSUME NEW blocks, Closed(blocks), NEW tip \in DOMAIN blocks \cup {NoBlock},
         NEW S, \A h \in DOMAIN blocks : blocks[h] \in S
  PROVE  \A k \in 0..Cardinality(DOMAIN blocks) :
           /\ Iterate(blocks, tip)[k].at \in DOMAIN blocks \cup {NoBlock}
           /\ Iterate(blocks, tip)[k].seen \in Seq(S)
<1> DEFINE N == Cardinality(DOMAIN blocks)
           it == Iterate(blocks, tip)
           Good(k) == /\ it[k].at \in DOMAIN blocks \cup {NoBlock}
                      /\ it[k].seen \in Seq(S)
           G == {k \in 0..N : Good(k)}
<1>1. N \in Nat /\ Walked(blocks, tip, N, it)
  BY IterateDef DEF Closed
<1> HIDE DEF N, it
<1>2. Good(0)
  <2>1. <<>> \in Seq(S)
    OBVIOUS
  <2> QED
    BY <1>1, <2>1 DEF Walked
<1>3. ASSUME NEW k \in 0..(N - 1), Good(k) PROVE Good(k + 1)
  <2>1. CASE it[k].at = NoBlock
    BY <1>1, <1>3, <2>1 DEF Walked
  <2>2. CASE it[k].at # NoBlock
    <3>1. /\ it[k + 1].at = blocks[it[k].at].prev
          /\ it[k + 1].seen = Append(it[k].seen, blocks[it[k].at])
      BY <1>1, <2>2 DEF Walked
    <3>2. it[k].at \in DOMAIN blocks /\ it[k].seen \in Seq(S)
      BY <1>3, <2>2
    <3>3. blocks[it[k].at] \in S /\ blocks[it[k].at].prev \in DOMAIN blocks \cup {NoBlock}
      BY <3>2 DEF Closed
    <3>4. Append(it[k].seen, blocks[it[k].at]) \in Seq(S)
      BY <3>2, <3>3, AppendProperties
    <3> QED
      BY <3>1, <3>3, <3>4
  <2> QED
    BY <2>1, <2>2
<1>4. 0..N \subseteq G
  <2>1. 0 \in G
    BY <1>1, <1>2
  <2>2. \A k \in 0..(N - 1) : k \in G => k + 1 \in G
    <3>1. \A k \in 0..(N - 1) : k + 1 \in 0..N
      BY <1>1
    <3> HIDE DEF Good
    <3> QED
      BY <1>3, <3>1
  <2> HIDE DEF G
  <2> QED
    BY <1>1, <2>1, <2>2, UpToInduction
<1> QED
  BY <1>4 DEF N, it

LEMMA BranchType ==
  ASSUME NEW blocks, Closed(blocks), NEW tip \in DOMAIN blocks \cup {NoBlock},
         NEW S, \A h \in DOMAIN blocks : blocks[h] \in S
  PROVE  Branch(blocks, tip) \in Seq(S)
<1>1. Cardinality(DOMAIN blocks) \in 0..Cardinality(DOMAIN blocks)
  BY FS_CardinalityType DEF Closed
<1> QED
  BY <1>1, IterateType DEF Branch

\* B can go under the new hash h on top of tip.
FitsOn(blocks, tip, h, B) == h \notin DOMAIN blocks /\ h # NoBlock /\ B.prev = tip

\* The walk has come to a genesis block when it stops.
Ends(blocks, tip) == Iterate(blocks, tip)[Cardinality(DOMAIN blocks)].at = NoBlock

Heads(blocks, tip, h, B) ==
  /\ Closed(Put(blocks, h, B))
  /\ Branch(Put(blocks, h, B), h) = <<B>> \o Branch(blocks, tip)
  /\ Ends(blocks, tip) => Ends(Put(blocks, h, B), h)

\* A block with the parent tip, stored under a new hash, heads the branch.
LEMMA BranchGrows ==
  ASSUME NEW blocks, Closed(blocks), NEW tip \in DOMAIN blocks \cup {NoBlock},
         NEW h, NEW B, FitsOn(blocks, tip, h, B)
  PROVE  Heads(blocks, tip, h, B)
<1> DEFINE S == {blocks[k] : k \in DOMAIN blocks} \cup {B}
<1>0. /\ \A k \in DOMAIN blocks : blocks[k] \in S
      /\ B \in S
      /\ h \notin DOMAIN blocks /\ h # NoBlock /\ B.prev = tip
  BY DEF FitsOn
<1> HIDE DEF S
<1> DEFINE N == Cardinality(DOMAIN blocks)
           new == Put(blocks, h, B)
           it == Iterate(blocks, tip)
           jt == Iterate(new, h)
           Good(k) == jt[k + 1].at = it[k].at /\ jt[k + 1].seen = <<B>> \o it[k].seen
           G == {k \in 0..N : Good(k)}
<1>1. /\ DOMAIN new = DOMAIN blocks \cup {h} /\ new[h] = B
      /\ \A k \in DOMAIN blocks : new[k] = blocks[k]
  <2>1. \A k \in DOMAIN blocks : k # h
    BY <1>0
  <2> QED
    BY <2>1 DEF Put
<1>2. N \in Nat /\ Walked(blocks, tip, N, it)
  BY IterateDef DEF Closed
<1>5. \A k \in 0..N : it[k].at \in DOMAIN blocks \cup {NoBlock} /\ it[k].seen \in Seq(S)
  BY <1>0, IterateType
<1> HIDE DEF new
<1>3. IsFiniteSet(DOMAIN new) /\ Cardinality(DOMAIN new) = N + 1
  BY <1>0, <1>1, FS_AddElement DEF Closed
<1>4. Walked(new, h, N + 1, jt)
  <2>1. Walked(new, h, Cardinality(DOMAIN new), jt)
    BY <1>3, IterateDef
  <2> QED
    BY <1>3, <2>1
<1>6. Closed(new)
  BY <1>0, <1>1, <1>3 DEF Closed
<1> HIDE DEF N, it, jt
<1>7. Good(0)
  <2>1. 0 \in 0..((N + 1) - 1) /\ 0 + 1 = 1
    BY <1>2
  <2>2. jt[0].at = h /\ jt[0].seen = <<>> /\ it[0].at = tip /\ it[0].seen = <<>>
    BY <1>2, <1>4 DEF Walked
  <2>3. /\ jt[0 + 1].at = new[jt[0].at].prev
        /\ jt[0 + 1].seen = Append(jt[0].seen, new[jt[0].at])
    BY <1>0, <1>4, <2>1, <2>2 DEF Walked
  <2>4. Append(<<>>, B) = <<B>> /\ <<B>> \o <<>> = <<B>>
    OBVIOUS
  <2> QED
    BY <1>0, <1>1, <2>2, <2>3, <2>4
<1>8. ASSUME NEW k \in 0..(N - 1), Good(k) PROVE Good(k + 1)
  <2>1. k + 1 \in 0..((N + 1) - 1) /\ k \in 0..N
    BY <1>2
  <2>2. CASE it[k].at = NoBlock
    <3>1. it[k + 1].at = it[k].at /\ it[k + 1].seen = it[k].seen
      BY <1>2, <2>2 DEF Walked
    <3>2. jt[(k + 1) + 1].at = jt[k + 1].at /\ jt[(k + 1) + 1].seen = jt[k + 1].seen
      BY <1>4, <1>8, <2>1, <2>2 DEF Walked
    <3> QED
      BY <1>8, <3>1, <3>2
  <2>3. CASE it[k].at # NoBlock
    <3>1. /\ it[k + 1].at = blocks[it[k].at].prev
          /\ it[k + 1].seen = Append(it[k].seen, blocks[it[k].at])
      BY <1>2, <2>3 DEF Walked
    <3>2. /\ jt[(k + 1) + 1].at = new[jt[k + 1].at].prev
          /\ jt[(k + 1) + 1].seen = Append(jt[k + 1].seen, new[jt[k + 1].at])
      BY <1>4, <1>8, <2>1, <2>3 DEF Walked
    <3>3. it[k].at \in DOMAIN blocks /\ it[k].seen \in Seq(S)
      BY <1>5, <2>1, <2>3
    <3>4. new[it[k].at] = blocks[it[k].at] /\ blocks[it[k].at] \in S
      BY <1>0, <1>1, <3>3
    <3>5. ASSUME NEW s \in Seq(S), NEW x \in S
          PROVE  Append(<<B>> \o s, x) = <<B>> \o Append(s, x)
      BY <1>0
    <3>6. Append(<<B>> \o it[k].seen, blocks[it[k].at]) = <<B>> \o Append(it[k].seen, blocks[it[k].at])
      BY <1>0, <3>3, <3>4, <3>5
    <3> QED
      BY <1>8, <3>1, <3>2, <3>4, <3>6
  <2> QED
    BY <2>2, <2>3
<1>9. 0..N \subseteq G
  <2>1. 0 \in G
    BY <1>2, <1>7
  <2>2. \A k \in 0..(N - 1) : k \in G => k + 1 \in G
    <3>1. \A k \in 0..(N - 1) : k + 1 \in 0..N
      BY <1>2
    <3> HIDE DEF Good
    <3> QED
      BY <1>8, <3>1
  <2> HIDE DEF G
  <2> QED
    BY <1>2, <2>1, <2>2, UpToInduction
<1>10. jt[N + 1].seen = <<B>> \o it[N].seen /\ jt[N + 1].at = it[N].at
  BY <1>2, <1>9
<1> QED
  BY <1>3, <1>6, <1>10 DEF Branch, Ends, Heads, new, it, jt, N

\* Nothing is stored, nothing is walked.
LEMMA BranchEmpty ==
  ASSUME NEW blocks, DOMAIN blocks = {}
  PROVE  Branch(blocks, NoBlock) = <<>>
<1>1. IsFiniteSet(DOMAIN blocks) /\ Cardinality(DOMAIN blocks) = 0
  BY FS_EmptySet
<1> QED
  BY <1>1, IterateDef DEF Branch, Walked

LEMMA EndsEmpty ==
  ASSUME NEW blocks, DOMAIN blocks = {}
  PROVE  Ends(blocks, NoBlock)
<1>1. IsFiniteSet(DOMAIN blocks) /\ Cardinality(DOMAIN blocks) = 0
  BY FS_EmptySet
<1> QED
  BY <1>1, IterateDef DEF Ends, Walked

\* The blocks of bs are also in more.
Within(bs, more) == DOMAIN bs \subseteq DOMAIN more /\ \A h \in DOMAIN bs : more[h] = bs[h]

\* Other blocks make no difference to a walk that ends without them.
LEMMA BranchWithin ==
  ASSUME NEW bs, Closed(bs), NEW t \in DOMAIN bs \cup {NoBlock}, Ends(bs, t),
         NEW more, IsFiniteSet(DOMAIN more), Within(bs, more)
  PROVE  Branch(more, t) = Branch(bs, t)
<1> DEFINE N == Cardinality(DOMAIN bs)
           M == Cardinality(DOMAIN more)
           it == Iterate(bs, t)
           jt == Iterate(more, t)
           Same(k) == jt[k].at = it[k].at /\ jt[k].seen = it[k].seen
           Done(k) == jt[k].at = NoBlock /\ jt[k].seen = it[N].seen
           G == {k \in 0..N : Same(k)}
           H == {k \in 0..M : k >= N => Done(k)}
<1>1. N \in Nat /\ Walked(bs, t, N, it)
  BY IterateDef DEF Closed
<1>2. M \in Nat /\ Walked(more, t, M, jt)
  BY IterateDef
<1>3. N <= M
  BY FS_Subset DEF Within
<1>4. \A k \in 0..N : it[k].at \in DOMAIN bs \cup {NoBlock}
  <2> DEFINE S == {bs[h] : h \in DOMAIN bs}
  <2>1. \A h \in DOMAIN bs : bs[h] \in S
    OBVIOUS
  <2> HIDE DEF S
  <2> QED
    BY <2>1, IterateType
<1>5. it[N].at = NoBlock
  BY DEF Ends
<1> HIDE DEF N, M, it, jt
<1>6. 0..N \subseteq G
  <2>1. 0 \in G
    BY <1>1, <1>2 DEF Walked
  <2>2. ASSUME NEW k \in 0..(N - 1), Same(k) PROVE Same(k + 1)
    <3>1. k \in 0..(M - 1) /\ k \in 0..N
      BY <1>1, <1>2, <1>3
    <3>2. it[k].at # NoBlock => more[it[k].at] = bs[it[k].at]
      BY <1>4, <3>1 DEF Within
    <3>3. CASE it[k].at = NoBlock
      <4>1. it[k + 1].at = it[k].at /\ it[k + 1].seen = it[k].seen
        BY <1>1, <3>3 DEF Walked
      <4>2. jt[k + 1].at = jt[k].at /\ jt[k + 1].seen = jt[k].seen
        BY <1>2, <2>2, <3>1, <3>3 DEF Walked
      <4> QED
        BY <2>2, <4>1, <4>2
    <3>4. CASE it[k].at # NoBlock
      <4>1. /\ it[k + 1].at = bs[it[k].at].prev
            /\ it[k + 1].seen = Append(it[k].seen, bs[it[k].at])
        BY <1>1, <3>4 DEF Walked
      <4>2. /\ jt[k + 1].at = more[jt[k].at].prev
            /\ jt[k + 1].seen = Append(jt[k].seen, more[jt[k].at])
        BY <1>2, <2>2, <3>1, <3>4 DEF Walked
      <4> QED
        BY <2>2, <3>2, <3>4, <4>1, <4>2
    <3> QED
      BY <3>3, <3>4
  <2>3. \A k \in 0..(N - 1) : k \in G => k + 1 \in G
    <3>1. \A k \in 0..(N - 1) : k + 1 \in 0..N
      BY <1>1
    <3> HIDE DEF Same
    <3> QED
      BY <2>2, <3>1
  <2> HIDE DEF G
  <2> QED
    BY <1>1, <2>1, <2>3, UpToInduction
<1>7. Done(N)
  BY <1>1, <1>5, <1>6
<1>8. 0..M \subseteq H
  <2>1. 0 \in H
    BY <1>1, <1>2, <1>7
  <2>2. ASSUME NEW k \in 0..(M - 1), k >= N => Done(k) PROVE k + 1 >= N => Done(k + 1)
    <3>1. CASE k >= N
      BY <1>2, <2>2, <3>1 DEF Walked
    <3>2. CASE k < N
      BY <1>1, <1>7, <3>2
    <3> QED
      BY <1>1, <3>1, <3>2
  <2>3. \A k \in 0..(M - 1) : k \in H => k + 1 \in H
    <3>1. \A k \in 0..(M - 1) : k + 1 \in 0..M
      BY <1>2
    <3> HIDE DEF Done
    <3> QED
      BY <2>2, <3>1
  <2> HIDE DEF H
  <2> QED
    BY <1>2, <2>1, <2>3, UpToInduction
<1>9. jt[M].seen = it[N].seen
  BY <1>1, <1>2, <1>3, <1>8
<1> QED
  BY <1>9 DEF Branch, N, M, it, jt

-----------------------------------------------------------------------------
(* The transactions of a branch and their inputs *)

LEMMA TransactionsType ==
  ASSUME NEW TX, NEW S, \A b \in S : b.txs \in Seq(TX), NEW branch \in Seq(S)
  PROVE  /\ [k \in DOMAIN branch |-> branch[k].txs] \in Seq(Seq(TX))
         /\ TransactionsOf(branch) \in Seq(TX)
<1> DEFINE ss == [k \in DOMAIN branch |-> branch[k].txs]
<1>1. \A k \in DOMAIN branch : branch[k].txs \in Seq(TX)
  OBVIOUS
<1>2. DOMAIN branch = 1..Len(branch) /\ Len(branch) \in Nat
  OBVIOUS
<1>3. ss \in Seq(Seq(TX))
  BY <1>1, <1>2
<1> HIDE DEF ss
<1>4. FlattenSeq(ss) \in Seq(TX)
  BY <1>3, FlattenType
<1> QED
  BY <1>3, <1>4 DEF ss, TransactionsOf

\* The transactions of the newest block are met first.
LEMMA TransactionsGrow ==
  ASSUME NEW TX, NEW S, \A b \in S : b.txs \in Seq(TX), NEW branch \in Seq(S), NEW B \in S
  PROVE  TransactionsOf(<<B>> \o branch) = B.txs \o TransactionsOf(branch)
<1> DEFINE more == <<B>> \o branch
           ss == [k \in DOMAIN branch |-> branch[k].txs]
           us == [k \in DOMAIN more |-> more[k].txs]
<1>1. /\ more \in Seq(S) /\ Len(more) = Len(branch) + 1 /\ more[1] = B
      /\ \A i \in 1..Len(branch) : more[i + 1] = branch[i]
      /\ Len(branch) \in Nat /\ DOMAIN branch = 1..Len(branch) /\ DOMAIN more = 1..Len(more)
  OBVIOUS
<1> HIDE DEF more
<1>2. ss \in Seq(Seq(TX)) /\ us \in Seq(Seq(TX))
  BY <1>1, TransactionsType
<1>3. /\ Len(us) = Len(ss) + 1 /\ Len(ss) = Len(branch)
      /\ us[1] = B.txs
      /\ \A i \in 1..Len(ss) : us[i + 1] = ss[i]
  BY <1>1
<1> HIDE DEF ss, us
<1>4. FlattenSeq(us) = us[1] \o FlattenSeq(ss)
  BY <1>2, <1>3, FlattenCons
<1> QED
  BY <1>3, <1>4 DEF TransactionsOf, ss, us, more

InputLs(txs) == [k \in DOMAIN txs |-> IF IsCoinbase(txs[k]) THEN <<>> ELSE txs[k].vin]

LEMMA InputsDef == \A txs : InputsOf(txs) = FlattenSeq(InputLs(txs))
BY DEF InputsOf, InputLs

LEMMA InputsType ==
  ASSUME NEW I, NEW TX, \A tx \in TX : tx.vin \in Seq(I), NEW txs \in Seq(TX)
  PROVE  InputLs(txs) \in Seq(Seq(I)) /\ InputsOf(txs) \in Seq(I)
<1>1. \A k \in DOMAIN txs : (IF IsCoinbase(txs[k]) THEN <<>> ELSE txs[k].vin) \in Seq(I)
  OBVIOUS
<1>2. DOMAIN txs = 1..Len(txs) /\ Len(txs) \in Nat
  OBVIOUS
<1>3. InputLs(txs) \in Seq(Seq(I))
  BY <1>1, <1>2 DEF InputLs
<1>4. FlattenSeq(InputLs(txs)) \in Seq(I)
  BY <1>3, FlattenType
<1> QED
  BY <1>3, <1>4 DEF InputsOf, InputLs

\* A coinbase adds no input, another transaction adds its own.
LEMMA InputsGrow ==
  ASSUME NEW I, NEW TX, \A tx \in TX : tx.vin \in Seq(I), NEW txs \in Seq(TX), NEW tx \in TX
  PROVE  InputsOf(<<tx>> \o txs) = (IF IsCoinbase(tx) THEN <<>> ELSE tx.vin) \o InputsOf(txs)
<1> DEFINE more == <<tx>> \o txs
           ss == InputLs(txs)
           us == InputLs(more)
<1>1. /\ more \in Seq(TX) /\ Len(more) = Len(txs) + 1 /\ more[1] = tx
      /\ \A i \in 1..Len(txs) : more[i + 1] = txs[i]
      /\ Len(txs) \in Nat /\ DOMAIN txs = 1..Len(txs) /\ DOMAIN more = 1..Len(more)
  OBVIOUS
<1> HIDE DEF more
<1>2. ss \in Seq(Seq(I)) /\ us \in Seq(Seq(I))
  BY <1>1, InputsType
<1>3. /\ Len(us) = Len(ss) + 1 /\ Len(ss) = Len(txs)
      /\ us[1] = IF IsCoinbase(tx) THEN <<>> ELSE tx.vin
      /\ \A i \in 1..Len(ss) : us[i + 1] = ss[i]
  BY <1>1 DEF InputLs
<1> HIDE DEF ss, us
<1>4. FlattenSeq(us) = us[1] \o FlattenSeq(ss)
  BY <1>2, <1>3, FlattenCons
<1> QED
  BY <1>3, <1>4, InputsDef DEF ss, us, more

\* The inputs of a block that send mines are those of its payment.
LEMMA InputsOfBlock ==
  ASSUME NEW I, NEW c, NEW t, c.vin \in Seq(I), t.vin \in Seq(I), IsCoinbase(c), ~IsCoinbase(t)
  PROVE  InputsOf(<<c, t>>) = t.vin
<1> DEFINE ss == InputLs(<<c, t>>)
<1>1. ss = <<<<>>, t.vin>>
  BY DEF InputLs
<1>2. ss \in Seq(Seq(I)) /\ Len(ss) = 2 /\ ss[1] = <<>> /\ ss[2] = t.vin
  <2> DEFINE S == Seq(I)
             a == <<>>
             b == t.vin
  <2>1. a \in S /\ b \in S /\ ss = <<a, b>>
    BY <1>1
  <2> HIDE DEF S, a, b, ss
  <2>2. ss \in Seq(S) /\ Len(ss) = 2 /\ ss[1] = a /\ ss[2] = b
    BY <2>1
  <2> QED
    BY <2>2 DEF S, a, b
<1> HIDE DEF ss
<1>3. FlattenSeq(ss) = ss[1] \o ss[2]
  BY <1>2, FlattenTwo
<1>4. <<>> \o t.vin = t.vin
  OBVIOUS
<1> QED
  BY <1>2, <1>3, <1>4 DEF InputsOf, InputLs, ss

-----------------------------------------------------------------------------
(* The walk of FindUTXO *)

CollectStep(txs, g, n) ==
  IF n = 0 THEN [utxo |-> <<>>, spent |-> {}] ELSE CollectTransaction(g[n - 1], txs[n])

AreCollected(txs, N, g) == g = [n \in 0..N |-> CollectStep(txs, g, n)]

\* The recursion that Collected names has a solution.
LEMMA CollectedExists ==
  ASSUME NEW txs, NEW N \in Nat
  PROVE  \E g : AreCollected(txs, N, g)
<1> DEFINE G == {n \in Nat : \E g : AreCollected(txs, n, g)}
<1>1. 0 \in G
  <2> DEFINE g == [n \in 0..0 |-> [utxo |-> <<>>, spent |-> {}]]
  <2>1. \A n \in 0..0 : CollectStep(txs, g, n) = [utxo |-> <<>>, spent |-> {}]
    BY DEF CollectStep
  <2> HIDE DEF g
  <2>2. AreCollected(txs, 0, g)
    BY <2>1 DEF AreCollected, g
  <2> QED
    BY <2>2
<1>2. \A n \in G : n + 1 \in G
  <2> SUFFICES ASSUME NEW n \in Nat, NEW g, AreCollected(txs, n, g) PROVE n + 1 \in G
    OBVIOUS
  <2> DEFINE h == [m \in 0..(n + 1) |-> CollectStep(txs, g, m)]
  <2>1. \A m \in 0..n : h[m] = g[m]
    BY DEF AreCollected
  <2>2. \A m \in 0..(n + 1) : h[m] = CollectStep(txs, g, m)
    OBVIOUS
  <2>3. \A m \in 0..(n + 1) : CollectStep(txs, g, m) = CollectStep(txs, h, m)
    <3> SUFFICES ASSUME NEW m \in 0..(n + 1)
                 PROVE  CollectStep(txs, g, m) = CollectStep(txs, h, m)
      OBVIOUS
    <3>1. m # 0 => g[m - 1] = h[m - 1]
      BY <2>1
    <3> HIDE DEF h
    <3> QED
      BY <3>1 DEF CollectStep
  <2>4. h = [m \in 0..(n + 1) |-> h[m]]
    OBVIOUS
  <2> HIDE DEF h
  <2>5. AreCollected(txs, n + 1, h)
    BY <2>2, <2>3, <2>4 DEF AreCollected
  <2> QED
    BY <2>5
<1>3. G = Nat
  <2> HIDE DEF G
  <2> QED
    BY <1>1, <1>2, SetInduction DEF G
<1> QED
  BY <1>3

\* The outputs of tx that the transactions met so far do not spend, what its
\* entry holds by then, and what it spends itself.
Outs(acc, tx) == KeepAt(tx.vout, {i \in DOMAIN tx.vout : <<tx.id, i>> \notin acc.spent})
Entry(acc, tx) == IF tx.id \in DOMAIN acc.utxo THEN acc.utxo[tx.id] ELSE <<>>
Spends(tx) == IF IsCoinbase(tx) THEN {} ELSE {<<in.txid, in.vout>> : in \in ToSet(tx.vin)}

\* One step of the walk, field by field.
Gathered(txs, C) ==
  /\ C[0].utxo = <<>>
  /\ C[0].spent = {}
  /\ \A n \in 0..(Len(txs) - 1) :
       LET tx == txs[n + 1] IN
       /\ C[n + 1].utxo = IF Outs(C[n], tx) = <<>> THEN C[n].utxo
                          ELSE Put(C[n].utxo, tx.id, Entry(C[n], tx) \o Outs(C[n], tx))
       /\ C[n + 1].spent = C[n].spent \cup Spends(tx)

LEMMA CollectFields ==
  ASSUME NEW acc, NEW tx
  PROVE  /\ CollectTransaction(acc, tx).utxo =
              IF Outs(acc, tx) = <<>> THEN acc.utxo
              ELSE Put(acc.utxo, tx.id, Entry(acc, tx) \o Outs(acc, tx))
         /\ CollectTransaction(acc, tx).spent = acc.spent \cup Spends(tx)
<1> DEFINE ids == {<<in.txid, in.vout>> : in \in ToSet(tx.vin)}
<1>1. /\ CollectTransaction(acc, tx).utxo =
           IF Outs(acc, tx) = <<>> THEN acc.utxo
           ELSE Put(acc.utxo, tx.id, Entry(acc, tx) \o Outs(acc, tx))
      /\ CollectTransaction(acc, tx).spent =
           IF IsCoinbase(tx) THEN acc.spent ELSE acc.spent \cup ids
  BY DEF CollectTransaction, Outs, Entry
<1>2. Spends(tx) = IF IsCoinbase(tx) THEN {} ELSE ids
  BY DEF Spends
<1> HIDE DEF ids
<1> QED
  BY <1>1, <1>2

LEMMA CollectedDef ==
  ASSUME NEW TX, NEW txs \in Seq(TX)
  PROVE  Gathered(txs, Collected(txs))
<1> DEFINE N == Len(txs)
           C == Collected(txs)
<1>1. N \in Nat
  OBVIOUS
<1>2. C = CHOOSE g : AreCollected(txs, N, g)
  BY DEF Collected, AreCollected, CollectStep
<1> HIDE DEF N, C
<1>3. \E g : AreCollected(txs, N, g)
  BY <1>1, CollectedExists
<1>4. AreCollected(txs, N, C)
  BY <1>2, <1>3, Zenon
<1>5. \A n \in 0..N : C[n] = CollectStep(txs, C, n)
  BY <1>4 DEF AreCollected
<1>6. C[0].utxo = <<>> /\ C[0].spent = {}
  <2>1. C[0] = CollectStep(txs, C, 0)
    BY <1>1, <1>5
  <2> QED
    BY <2>1 DEF CollectStep
<1>7. ASSUME NEW n \in 0..(N - 1)
      PROVE  LET tx == txs[n + 1] IN
             /\ C[n + 1].utxo = IF Outs(C[n], tx) = <<>> THEN C[n].utxo
                                ELSE Put(C[n].utxo, tx.id, Entry(C[n], tx) \o Outs(C[n], tx))
             /\ C[n + 1].spent = C[n].spent \cup Spends(tx)
  <2>1. n + 1 \in 0..N /\ (n + 1) - 1 = n /\ n + 1 # 0
    BY <1>1
  <2>2. C[n + 1] = CollectStep(txs, C, n + 1)
    BY <1>5, <2>1
  <2>3. C[n + 1] = CollectTransaction(C[n], txs[n + 1])
    BY <2>1, <2>2 DEF CollectStep
  <2> QED
    BY <2>3, CollectFields
<1> QED
  BY <1>6, <1>7 DEF Gathered, N, C

\* A chainstate with outputs in O: no entry is empty.
IsChainstate(u, O) ==
  /\ IsFiniteSet(DOMAIN u)
  /\ u \in [DOMAIN u -> Seq(O)]
  /\ \A id \in DOMAIN u : u[id] # <<>>

LEMMA EmptyIsChainstate == \A O : IsChainstate(<<>>, O)
<1>1. DOMAIN <<>> = {} /\ \A O : <<>> \in [{} -> Seq(O)]
  OBVIOUS
<1> QED
  BY <1>1, FS_EmptySet DEF IsChainstate

LEMMA PutIsChainstate ==
  ASSUME NEW O, NEW u, IsChainstate(u, O), NEW id, NEW outs \in Seq(O), outs # <<>>
  PROVE  IsChainstate(Put(u, id, outs), O)
<1>1. /\ DOMAIN Put(u, id, outs) = DOMAIN u \cup {id}
      /\ Put(u, id, outs) \in [DOMAIN u \cup {id} -> Seq(O)]
      /\ \A k \in DOMAIN Put(u, id, outs) : Put(u, id, outs)[k] # <<>>
  BY DEF Put, IsChainstate
<1>2. IsFiniteSet(DOMAIN u \cup {id})
  BY FS_AddElement DEF IsChainstate
<1> QED
  BY <1>1, <1>2 DEF IsChainstate

LEMMA OutsType ==
  ASSUME NEW O, NEW tx, tx.vout \in Seq(O), NEW acc
  PROVE  Outs(acc, tx) \in Seq(O)
<1> DEFINE I == {i \in DOMAIN tx.vout : <<tx.id, i>> \notin acc.spent}
           s == tx.vout
<1>1. s \in Seq(O) /\ Outs(acc, tx) = KeepAt(s, I)
  BY DEF Outs
<1> HIDE DEF I, s
<1> QED
  BY <1>1, KeepAtFacts

LEMMA CollectedType ==
  ASSUME NEW O, NEW TX, \A tx \in TX : tx.vout \in Seq(O), NEW txs \in Seq(TX)
  PROVE  \A n \in 0..Len(txs) : IsChainstate(Collected(txs)[n].utxo, O)
<1> DEFINE N == Len(txs)
           C == Collected(txs)
           Good(n) == IsChainstate(C[n].utxo, O)
           G == {n \in 0..N : Good(n)}
<1>1. N \in Nat /\ Gathered(txs, C)
  BY CollectedDef
<1>2. \A n \in 0..(N - 1) : txs[n + 1] \in TX
  OBVIOUS
<1> HIDE DEF C
<1>3. Good(0)
  BY <1>1, EmptyIsChainstate DEF Gathered
<1>4. ASSUME NEW n \in 0..(N - 1), Good(n) PROVE Good(n + 1)
  <2> DEFINE tx == txs[n + 1]
             outs == Outs(C[n], tx)
             old == Entry(C[n], tx)
  <2>1. C[n + 1].utxo = IF outs = <<>> THEN C[n].utxo ELSE Put(C[n].utxo, tx.id, old \o outs)
    BY <1>1 DEF Gathered
  <2>2. outs \in Seq(O)
    BY <1>2, OutsType
  <2>3. old \in Seq(O)
    BY <1>4 DEF Entry, IsChainstate
  <2> HIDE DEF tx, outs, old
  <2>4. old \o outs \in Seq(O) /\ (outs # <<>> => old \o outs # <<>>)
    BY <2>2, <2>3
  <2> QED
    BY <1>4, <2>1, <2>4, PutIsChainstate
<1>5. 0..N \subseteq G
  <2>1. 0 \in G
    BY <1>1, <1>3
  <2>2. \A n \in 0..(N - 1) : n \in G => n + 1 \in G
    <3>1. \A n \in 0..(N - 1) : n + 1 \in 0..N
      BY <1>1
    <3> HIDE DEF Good
    <3> QED
      BY <1>4, <3>1
  <2> HIDE DEF G, N
  <2> QED
    BY <1>1, <2>1, <2>2, UpToInduction
<1> QED
  BY <1>5 DEF C

-----------------------------------------------------------------------------
(* A chain on which every entry is made once *)

\* No transaction adds to an entry that a later one of the same id has made.
MadeOnce(txs) ==
  LET C == Collected(txs) IN
  \A n \in 0..(Len(txs) - 1) :
    Outs(C[n], txs[n + 1]) # <<>> => txs[n + 1].id \notin DOMAIN C[n].utxo

Extends(u, w) == DOMAIN u \subseteq DOMAIN w /\ \A id \in DOMAIN u : w[id] = u[id]

\* On such a chain an entry once made stays.
LEMMA EntriesStay ==
  ASSUME NEW TX, NEW txs \in Seq(TX), MadeOnce(txs)
  PROVE  \A n \in 0..Len(txs) : Extends(Collected(txs)[n].utxo, Collected(txs)[Len(txs)].utxo)
<1> DEFINE N == Len(txs)
           C == Collected(txs)
           Good(m) == \A n \in 0..m : Extends(C[n].utxo, C[m].utxo)
           G == {m \in 0..N : Good(m)}
<1>1. N \in Nat /\ Gathered(txs, C)
  BY CollectedDef
<1>2. \A n \in 0..(N - 1) : Extends(C[n].utxo, C[n + 1].utxo)
  <2> SUFFICES ASSUME NEW n \in 0..(N - 1) PROVE Extends(C[n].utxo, C[n + 1].utxo)
    OBVIOUS
  <2> DEFINE id == txs[n + 1].id
             outs == Outs(C[n], txs[n + 1])
             val == Entry(C[n], txs[n + 1]) \o outs
  <2>1. C[n + 1].utxo = IF outs = <<>> THEN C[n].utxo ELSE Put(C[n].utxo, id, val)
    BY <1>1 DEF Gathered
  <2>2. outs # <<>> => id \notin DOMAIN C[n].utxo
    BY DEF MadeOnce
  <2> HIDE DEF id, outs, val, C
  <2> QED
    BY <2>1, <2>2 DEF Extends, Put
<1> HIDE DEF C
<1>3. Good(0)
  BY DEF Extends
<1>4. ASSUME NEW m \in 0..(N - 1), Good(m) PROVE Good(m + 1)
  <2> SUFFICES ASSUME NEW n \in 0..(m + 1) PROVE Extends(C[n].utxo, C[m + 1].utxo)
    OBVIOUS
  <2>1. CASE n = m + 1
    BY <2>1 DEF Extends
  <2>2. CASE n \in 0..m
    <3>1. Extends(C[n].utxo, C[m].utxo) /\ Extends(C[m].utxo, C[m + 1].utxo)
      BY <1>2, <1>4, <2>2
    <3> QED
      BY <3>1 DEF Extends
  <2>3. n = m + 1 \/ n \in 0..m
    BY <1>1
  <2> QED
    BY <2>1, <2>2, <2>3
<1>5. 0..N \subseteq G
  <2>1. 0 \in G
    BY <1>1, <1>3
  <2>2. \A n \in 0..(N - 1) : n \in G => n + 1 \in G
    <3>1. \A n \in 0..(N - 1) : n + 1 \in 0..N
      BY <1>1
    <3> HIDE DEF Good
    <3> QED
      BY <1>4, <3>1
  <2> HIDE DEF G, N
  <2> QED
    BY <1>1, <2>1, <2>2, UpToInduction
<1>6. N \in 0..N
  BY <1>1
<1> QED
  BY <1>5, <1>6 DEF C

-----------------------------------------------------------------------------
(* Taking the outputs at the positions X out of a chainstate *)

Unspent(id, outs, X) == KeepAt(outs, {i \in DOMAIN outs : <<id, i>> \notin X})

TakeOut(u, X) ==
  [id \in {k \in DOMAIN u : Unspent(k, u[k], X) # <<>>} |-> Unspent(id, u[id], X)]

LEMMA UnspentFacts ==
  ASSUME NEW O, NEW outs \in Seq(O), NEW id, NEW X
  PROVE  /\ Unspent(id, outs, X) \in Seq(O)
         /\ (\A i \in DOMAIN outs : <<id, i>> \notin X) => Unspent(id, outs, X) = outs
         /\ (\E i \in DOMAIN outs : <<id, i>> \in X) => Unspent(id, outs, X) # outs
<1> DEFINE I == {i \in DOMAIN outs : <<id, i>> \notin X}
<1>1. /\ (\A i \in DOMAIN outs : <<id, i>> \notin X) => DOMAIN outs \subseteq I
      /\ (\E i \in DOMAIN outs : <<id, i>> \in X) => ~(DOMAIN outs \subseteq I)
      /\ Unspent(id, outs, X) = KeepAt(outs, I)
  BY DEF Unspent
<1> HIDE DEF I
<1>2. KeepAt(outs, I) \in Seq(O) /\ (KeepAt(outs, I) = outs <=> DOMAIN outs \subseteq I)
  BY KeepAtFacts
<1> QED
  BY <1>1, <1>2

LEMMA TakeOutFacts ==
  ASSUME NEW u, NEW X
  PROVE  /\ DOMAIN TakeOut(u, X) \subseteq DOMAIN u
         /\ \A id \in DOMAIN u :
              IF Unspent(id, u[id], X) = <<>> THEN id \notin DOMAIN TakeOut(u, X)
              ELSE id \in DOMAIN TakeOut(u, X) /\ TakeOut(u, X)[id] = Unspent(id, u[id], X)
BY DEF TakeOut

LEMMA TakeOutType ==
  ASSUME NEW O, NEW u, IsChainstate(u, O), NEW X
  PROVE  IsChainstate(TakeOut(u, X), O)
<1>1. \A id \in DOMAIN u : u[id] \in Seq(O)
  BY DEF IsChainstate
<1>2. \A id \in DOMAIN u : Unspent(id, u[id], X) \in Seq(O)
  <2> SUFFICES ASSUME NEW id \in DOMAIN u PROVE Unspent(id, u[id], X) \in Seq(O)
    OBVIOUS
  <2> DEFINE outs == u[id]
  <2>1. outs \in Seq(O)
    BY <1>1
  <2> HIDE DEF outs
  <2>2. Unspent(id, outs, X) \in Seq(O)
    BY <2>1, UnspentFacts
  <2> QED
    BY <2>2 DEF outs
<1> DEFINE D == DOMAIN TakeOut(u, X)
<1>3. D \subseteq DOMAIN u /\ \A id \in D : TakeOut(u, X)[id] = Unspent(id, u[id], X)
                           /\ TakeOut(u, X)[id] # <<>>
  BY TakeOutFacts
<1>4. TakeOut(u, X) = [id \in D |-> TakeOut(u, X)[id]]
  BY DEF TakeOut
<1> HIDE DEF D
<1>5. TakeOut(u, X) \in [D -> Seq(O)]
  BY <1>2, <1>3, <1>4
<1>6. IsFiniteSet(D)
  BY <1>3, FS_Subset DEF IsChainstate
<1> QED
  BY <1>3, <1>5, <1>6 DEF IsChainstate, D

\* An entry added before the outputs are taken out.
LEMMA TakeOutPut ==
  ASSUME NEW u, NEW X, NEW id, id \notin DOMAIN u, NEW outs
  PROVE  TakeOut(Put(u, id, outs), X) =
           IF Unspent(id, outs, X) = <<>> THEN TakeOut(u, X)
           ELSE Put(TakeOut(u, X), id, Unspent(id, outs, X))
<1> DEFINE w == Put(u, id, outs)
<1>1. /\ DOMAIN w = DOMAIN u \cup {id} /\ w[id] = outs
      /\ \A k \in DOMAIN u : w[k] = u[k]
  BY DEF Put
<1> HIDE DEF w
<1>2. CASE Unspent(id, outs, X) = <<>>
  <2>1. {k \in DOMAIN w : Unspent(k, w[k], X) # <<>>} = {k \in DOMAIN u : Unspent(k, u[k], X) # <<>>}
    BY <1>1, <1>2
  <2>2. TakeOut(w, X) = TakeOut(u, X)
    BY <1>1, <2>1 DEF TakeOut
  <2> QED
    BY <1>2, <2>2 DEF w
<1>3. CASE Unspent(id, outs, X) # <<>>
  <2>1. {k \in DOMAIN w : Unspent(k, w[k], X) # <<>>}
          = {k \in DOMAIN u : Unspent(k, u[k], X) # <<>>} \cup {id}
    BY <1>1, <1>3
  <2>2. TakeOut(w, X) = Put(TakeOut(u, X), id, Unspent(id, outs, X))
    BY <1>1, <2>1 DEF TakeOut, Put
  <2> QED
    BY <1>3, <2>2 DEF w
<1> QED
  BY <1>2, <1>3

LEMMA PutCommutes ==
  ASSUME NEW u, NEW a, NEW b, a # b, NEW x, NEW y
  PROVE  Put(Put(u, a, x), b, y) = Put(Put(u, b, y), a, x)
BY DEF Put

\* Taking out twice is taking out the union, if the second takes nothing or the
\* first took nothing.
TakesTwice(id, outs, Y, X) ==
  /\ Unspent(id, outs, Y) = <<>> => Unspent(id, outs, Y \cup X) = <<>>
  /\ (\A i : <<id, i>> \notin X) \/ Unspent(id, outs, Y) = outs
       => Unspent(id, outs, Y \cup X) = Unspent(id, Unspent(id, outs, Y), X)

LEMMA UnspentUnion ==
  ASSUME NEW O, NEW outs \in Seq(O), NEW id, NEW Y, NEW X
  PROVE  TakesTwice(id, outs, Y, X)
<1> DEFINE I == {i \in DOMAIN outs : <<id, i>> \notin Y}
           J == {i \in DOMAIN outs : <<id, i>> \notin Y \cup X}
           some == Unspent(id, outs, Y)
<1>1. some = KeepAt(outs, I) /\ Unspent(id, outs, Y \cup X) = KeepAt(outs, J)
  BY DEF Unspent
<1>2. some \in Seq(O)
  BY UnspentFacts
<1>3. /\ J \subseteq I
      /\ (\A i : <<id, i>> \notin X) => J = I
      /\ (\A i \in DOMAIN outs : <<id, i>> \notin Y) => J = {i \in DOMAIN outs : <<id, i>> \notin X}
  OBVIOUS
<1>4. some = outs => \A i \in DOMAIN outs : <<id, i>> \notin Y
  BY UnspentFacts
<1>5. (\A i : <<id, i>> \notin X) => Unspent(id, some, X) = some
  <2> HIDE DEF some
  <2> QED
    BY <1>2, UnspentFacts
<1>6. some = outs => Unspent(id, some, X) = KeepAt(outs, {i \in DOMAIN outs : <<id, i>> \notin X})
  BY DEF Unspent
<1> HIDE DEF I, J, some
<1>7. some = <<>> => KeepAt(outs, J) = <<>>
  <2>1. KeepAt(outs, I) = <<>> <=> I \cap DOMAIN outs = {}
    BY KeepAtFacts
  <2>2. KeepAt(outs, J) = <<>> <=> J \cap DOMAIN outs = {}
    BY KeepAtFacts
  <2> QED
    BY <1>1, <1>3, <2>1, <2>2
<1>8. (\A i : <<id, i>> \notin X) => KeepAt(outs, J) = Unspent(id, some, X)
  BY <1>1, <1>3, <1>5
<1>9. some = outs => KeepAt(outs, J) = Unspent(id, some, X)
  BY <1>3, <1>4, <1>6
<1> QED
  BY <1>1, <1>7, <1>8, <1>9 DEF some, TakesTwice

AddBlock(u, c, t) == Put(Put(u, c.id, c.vout), t.id, t.vout)

\* The outputs of a transaction are those its id covers.
Covered(TX, O) == \A tx \in TX : tx.vout \in Seq(O) /\ tx.vout = tx.id.vout

\* Where the outputs at the positions X are in entries that are still whole.
FromWhole(u, X) == \A id \in DOMAIN u : (\E i : <<id, i>> \in X) => u[id] = id.vout

\* Two ids that are different and not in the bucket.
Fresh(u, c, t) == c.id \notin DOMAIN u /\ t.id \notin DOMAIN u /\ c.id # t.id

\* The transactions c and t, then txs.
Stacks(new, c, t, txs) == new = <<c, t>> \o txs

OnTop(new, c, t, txs) ==
  /\ Len(new) = Len(txs) + 2 /\ new[1] = c /\ new[2] = t
  /\ \A n \in 1..Len(txs) : new[n + 2] = txs[n]

\* The walk of a chain with a new block on top: at every step it has collected
\* what the walk of the old chain has, less what the block spends, plus what the
\* block creates.  The block may spend whole entries only, and what it creates
\* must be fresh.
LEMMA WalkOfBlock ==
  ASSUME NEW O, NEW TX, Covered(TX, O), NEW txs \in Seq(TX), MadeOnce(txs),
         NEW c \in TX, NEW t \in TX, IsCoinbase(c), c.vout # <<>>, t.vout # <<>>,
         NEW X, X = Spends(t), NEW cs, cs = Collected(txs)[Len(txs)].utxo,
         FromWhole(cs, X), Fresh(TakeOut(cs, X), c, t),
         NEW new \in Seq(TX), OnTop(new, c, t, txs)
  PROVE  /\ MadeOnce(new)
         /\ Collected(new)[Len(new)].utxo = AddBlock(TakeOut(cs, X), c, t)
<1> USE DEF Covered, FromWhole, Fresh, OnTop
<1> DEFINE N == Len(txs)
           C == Collected(txs)
           D == Collected(new)
           Good(n) == /\ D[n + 2].utxo = AddBlock(TakeOut(C[n].utxo, X), c, t)
                      /\ D[n + 2].spent = C[n].spent \cup X
           Once(n) == Outs(D[n], new[n + 1]) # <<>> => new[n + 1].id \notin DOMAIN D[n].utxo
           G == {n \in 0..N : Good(n)}
<1>1. N \in Nat /\ Gathered(txs, C) /\ Gathered(new, D)
  BY CollectedDef
<1>2. \A n \in 0..(N - 1) :
        Outs(C[n], txs[n + 1]) # <<>> => txs[n + 1].id \notin DOMAIN C[n].utxo
  BY DEF MadeOnce
<1>3. \A n \in 0..N : Extends(C[n].utxo, cs)
  BY EntriesStay
<1>4. \A tx, acc : Outs(acc, tx) = Unspent(tx.id, tx.vout, acc.spent)
  BY DEF Outs, Unspent
<1> HIDE DEF C, D
<1>5. ASSUME NEW tx \in TX, NEW acc, \A i : <<tx.id, i>> \notin acc.spent
      PROVE  Outs(acc, tx) = tx.vout
  <2> DEFINE outs == tx.vout
  <2>1. outs \in Seq(O)
    OBVIOUS
  <2>2. \A i \in DOMAIN outs : <<tx.id, i>> \notin acc.spent
    BY <1>5
  <2> HIDE DEF outs
  <2>3. Unspent(tx.id, outs, acc.spent) = outs
    BY <2>1, <2>2, UnspentFacts
  <2> QED
    BY <1>4, <2>3 DEF outs
<1>11. ASSUME NEW tx \in TX, NEW Y
       PROVE  TakesTwice(tx.id, tx.vout, Y, X)
  <2> DEFINE outs == tx.vout
             id == tx.id
  <2>1. outs \in Seq(O)
    OBVIOUS
  <2> HIDE DEF outs, id
  <2>2. TakesTwice(id, outs, Y, X)
    BY <2>1, UnspentUnion
  <2> QED
    BY <2>2 DEF outs, id
<1>6. Once(0) /\ Once(1) /\ Good(0)
  <2>1. 0 \in 0..(Len(new) - 1) /\ 1 \in 0..(Len(new) - 1) /\ 0 + 1 = 1 /\ 1 + 1 = 2 /\ 0 + 2 = 2
    BY <1>1
  <2>2. D[0].utxo = <<>> /\ D[0].spent = {} /\ C[0].utxo = <<>> /\ C[0].spent = {}
    BY <1>1 DEF Gathered
  <2>3. DOMAIN <<>> = {}
    OBVIOUS
  <2>4. Outs(D[0], c) = c.vout /\ Entry(D[0], c) = <<>>
    BY <1>5, <2>2, <2>3 DEF Entry
  <2>5. /\ D[0 + 1].utxo = IF Outs(D[0], new[0 + 1]) = <<>> THEN D[0].utxo
                           ELSE Put(D[0].utxo, new[0 + 1].id,
                                    Entry(D[0], new[0 + 1]) \o Outs(D[0], new[0 + 1]))
        /\ D[0 + 1].spent = D[0].spent \cup Spends(new[0 + 1])
    BY <1>1, <2>1 DEF Gathered
  <2>6. <<>> \o c.vout = c.vout /\ <<>> \o t.vout = t.vout
    <3>1. c.vout \in Seq(O) /\ t.vout \in Seq(O)
      OBVIOUS
    <3> QED
      BY <3>1, ConcatEmptySeq
  <2>7. Spends(c) = {}
    BY DEF Spends
  <2>8. D[1].utxo = Put(<<>>, c.id, c.vout) /\ D[1].spent = {}
    <3>1. /\ D[1].utxo = IF Outs(D[0], c) = <<>> THEN D[0].utxo
                          ELSE Put(D[0].utxo, c.id, Entry(D[0], c) \o Outs(D[0], c))
          /\ D[1].spent = D[0].spent \cup Spends(c)
      BY <2>1, <2>5
    <3> QED
      BY <2>2, <2>4, <2>6, <2>7, <3>1
  <2>9. DOMAIN D[1].utxo = {c.id}
    BY <2>3, <2>8 DEF Put
  <2>10. Outs(D[1], t) = t.vout /\ Entry(D[1], t) = <<>>
    BY <1>5, <2>8, <2>9 DEF Entry
  <2>11. /\ D[1 + 1].utxo = IF Outs(D[1], new[1 + 1]) = <<>> THEN D[1].utxo
                            ELSE Put(D[1].utxo, new[1 + 1].id,
                                     Entry(D[1], new[1 + 1]) \o Outs(D[1], new[1 + 1]))
         /\ D[1 + 1].spent = D[1].spent \cup Spends(new[1 + 1])
    BY <1>1, <2>1 DEF Gathered
  <2>12. D[2].utxo = AddBlock(<<>>, c, t) /\ D[2].spent = X
    <3>1. /\ D[2].utxo = IF Outs(D[1], t) = <<>> THEN D[1].utxo
                          ELSE Put(D[1].utxo, t.id, Entry(D[1], t) \o Outs(D[1], t))
          /\ D[2].spent = D[1].spent \cup Spends(t)
      BY <2>1, <2>11
    <3>2. D[2].utxo = Put(D[1].utxo, t.id, t.vout) /\ D[2].spent = X
      BY <2>6, <2>8, <2>10, <3>1
    <3> QED
      BY <2>8, <3>2 DEF AddBlock
  <2>13. TakeOut(<<>>, X) = <<>>
    BY <2>3 DEF TakeOut
  <2>14. Good(0)
    BY <2>1, <2>2, <2>12, <2>13
  <2>15. Once(0) /\ Once(1)
    BY <2>1, <2>2, <2>3, <2>9
  <2> QED
    BY <2>14, <2>15
<1>7. ASSUME NEW n \in 0..(N - 1), Good(n) PROVE Good(n + 1) /\ Once(n + 2)
  <2> DEFINE tx == txs[n + 1]
             id == tx.id
             u == C[n].utxo
             w == D[n + 2].utxo
             outs == Outs(C[n], tx)
             left == Outs(D[n + 2], tx)
  <2>1. /\ n + 1 \in 1..N /\ (n + 1) + 2 = (n + 2) + 1 /\ n + 2 \in 0..(Len(new) - 1)
        /\ n + 1 \in 0..N
    BY <1>1
  <2>2. tx \in TX /\ new[(n + 2) + 1] = tx /\ tx.vout \in Seq(O) /\ tx.vout = id.vout
    BY <2>1
  <2>3. /\ C[n + 1].utxo = IF outs = <<>> THEN u ELSE Put(u, id, Entry(C[n], tx) \o outs)
        /\ C[n + 1].spent = C[n].spent \cup Spends(tx)
    BY <1>1, Zenon DEF Gathered
  <2>4. /\ D[(n + 2) + 1].utxo = IF Outs(D[n + 2], new[(n + 2) + 1]) = <<>> THEN D[n + 2].utxo
                                 ELSE Put(D[n + 2].utxo, new[(n + 2) + 1].id,
                                          Entry(D[n + 2], new[(n + 2) + 1])
                                            \o Outs(D[n + 2], new[(n + 2) + 1]))
        /\ D[(n + 2) + 1].spent = D[n + 2].spent \cup Spends(new[(n + 2) + 1])
    BY <1>1, <2>1 DEF Gathered
  <2>5. /\ D[(n + 1) + 2].utxo = IF left = <<>> THEN w ELSE Put(w, id, Entry(D[n + 2], tx) \o left)
        /\ D[(n + 1) + 2].spent = D[n + 2].spent \cup Spends(tx)
    BY <2>1, <2>2, <2>4
  <2>6. D[(n + 1) + 2].spent = C[n + 1].spent \cup X
    BY <1>7, <2>3, <2>5
  <2>7. w = AddBlock(TakeOut(u, X), c, t)
    BY <1>7
  <2>8. outs = Unspent(id, tx.vout, C[n].spent) /\ left = Unspent(id, tx.vout, C[n].spent \cup X)
    BY <1>4, <1>7
  <2>9. outs \in Seq(O) /\ left \in Seq(O)
    BY <2>2, OutsType
  <2>10. outs # <<>> => id \notin DOMAIN u
    BY <1>2
  <2>11. Extends(C[n + 1].utxo, cs)
    BY <1>3, <2>1
  <2>12. DOMAIN w = DOMAIN TakeOut(u, X) \cup {c.id, t.id}
    BY <2>7 DEF AddBlock, Put
  <2>13. DOMAIN TakeOut(u, X) \subseteq DOMAIN u
    BY TakeOutFacts
  <2>18. TakesTwice(id, tx.vout, C[n].spent, X)
    BY <1>11, <2>2
  <2>14. outs = <<>> => left = <<>>
    BY <2>8, <2>18 DEF TakesTwice
  <2>15. Once(n + 2) <=> (left # <<>> => id \notin DOMAIN w)
    BY <2>2
  <2> HIDE DEF Once
  <2>16. CASE outs = <<>>
    <3>1. left = <<>>
      BY <2>14, <2>16
    <3>2. C[n + 1].utxo = u /\ D[(n + 1) + 2].utxo = w
      BY <2>3, <2>5, <2>16, <3>1
    <3> QED
      BY <2>6, <2>7, <2>15, <3>1, <3>2
  <2>17. CASE outs # <<>>
    <3>1. id \notin DOMAIN u
      BY <2>10, <2>17
    <3>2. Entry(C[n], tx) = <<>>
      BY <3>1 DEF Entry
    <3>3. <<>> \o outs = outs /\ <<>> \o left = left
      <4> HIDE DEF outs, left
      <4> QED
        BY <2>9, ConcatEmptySeq
    <3>4. C[n + 1].utxo = Put(u, id, outs)
      BY <2>3, <2>17, <3>2, <3>3
    <3>5. id \in DOMAIN cs /\ cs[id] = outs
      BY <2>11, <3>4 DEF Extends, Put
    <3>6. (\A i : <<id, i>> \notin X) \/ outs = tx.vout
      BY <2>2, <3>5
    <3>7. left = Unspent(id, outs, X)
      <4> HIDE DEF outs, left, id, tx
      <4> QED
        BY <2>8, <2>18, <3>6 DEF TakesTwice
    <3>8. TakeOut(C[n + 1].utxo, X) =
            IF left = <<>> THEN TakeOut(u, X) ELSE Put(TakeOut(u, X), id, left)
      <4> HIDE DEF u, id, outs, left
      <4> QED
        BY <3>1, <3>4, <3>7, TakeOutPut
    <3>9. CASE left = <<>>
      BY <2>5, <2>6, <2>7, <2>15, <3>8, <3>9
    <3>10. CASE left # <<>>
      <4>1. id \in DOMAIN TakeOut(cs, X)
        BY <3>5, <3>7, <3>10, TakeOutFacts
      <4>2. id # c.id /\ id # t.id
        BY <4>1
      <4>3. id \notin DOMAIN w
        BY <2>12, <2>13, <3>1, <4>2
      <4>4. Entry(D[n + 2], tx) = <<>>
        BY <4>3 DEF Entry
      <4>5. D[(n + 1) + 2].utxo = Put(w, id, left)
        BY <2>5, <3>3, <3>10, <4>4
      <4>6. Put(AddBlock(TakeOut(u, X), c, t), id, left)
              = AddBlock(Put(TakeOut(u, X), id, left), c, t)
        <5> HIDE DEF u, id, left
        <5> QED
          BY <4>2, PutCommutes DEF AddBlock
      <4>7. D[(n + 1) + 2].utxo = AddBlock(TakeOut(C[n + 1].utxo, X), c, t)
        BY <2>7, <3>8, <3>10, <4>5, <4>6
      <4> QED
        BY <2>6, <2>15, <4>3, <4>7
    <3> QED
      BY <3>9, <3>10
  <2> QED
    BY <2>16, <2>17
<1>8. 0..N \subseteq G
  <2>1. 0 \in G
    BY <1>1, <1>6
  <2>2. \A n \in 0..(N - 1) : n \in G => n + 1 \in G
    <3>1. \A n \in 0..(N - 1) : n + 1 \in 0..N
      BY <1>1
    <3> HIDE DEF Good
    <3> QED
      BY <1>7, <3>1
  <2> HIDE DEF G, N
  <2> QED
    BY <1>1, <2>1, <2>2, UpToInduction
<1>9. MadeOnce(new)
  <2> SUFFICES ASSUME NEW m \in 0..(Len(new) - 1) PROVE Once(m)
    BY DEF MadeOnce, D
  <2>1. m = 0 \/ m = 1 \/ m - 2 \in 0..(N - 1)
    BY <1>1
  <2>2. CASE m - 2 \in 0..(N - 1)
    <3> HIDE DEF Good, Once
    <3>1. m - 2 \in 0..N /\ (m - 2) + 2 = m
      BY <1>1, <2>2
    <3>2. Good(m - 2)
      BY <1>8, <3>1
    <3>3. Once((m - 2) + 2)
      BY <1>7, <2>2, <3>2
    <3> QED
      BY <3>1, <3>3
  <2> HIDE DEF Once
  <2> QED
    BY <1>6, <2>1, <2>2
<1>10. Good(N)
  BY <1>1, <1>8
<1> QED
  BY <1>9, <1>10 DEF C, D

-----------------------------------------------------------------------------
(* UTXOSet.Update *)

PendingLs(cs, ins, id) ==
  [k \in DOMAIN ins |->
     IF ins[k].txid = id THEN KeepAt(cs[id], DOMAIN cs[id] \ {ins[k].vout}) ELSE <<>>]

LEMMA PendingDef ==
  \A cs, txs, id : PendingUpdate(cs, txs, id) = FlattenSeq(PendingLs(cs, InputsOf(txs), id))
BY DEF PendingUpdate, PendingLs

LEMMA PendingType ==
  ASSUME NEW O, NEW cs, IsChainstate(cs, O), NEW I, NEW txs, InputsOf(txs) \in Seq(I),
         NEW id \in DOMAIN cs
  PROVE  /\ PendingLs(cs, InputsOf(txs), id) \in Seq(Seq(O))
         /\ PendingUpdate(cs, txs, id) \in Seq(O)
<1> DEFINE ins == InputsOf(txs)
           outs == cs[id]
           ss == PendingLs(cs, ins, id)
<1>1. outs \in Seq(O)
  BY DEF IsChainstate
<1>2. DOMAIN ins = 1..Len(ins) /\ Len(ins) \in Nat
  OBVIOUS
<1>3. ss = [k \in 1..Len(ins) |->
              IF ins[k].txid = id THEN KeepAt(outs, DOMAIN outs \ {ins[k].vout}) ELSE <<>>]
  BY <1>2 DEF PendingLs
<1> HIDE DEF outs, ins, ss
<1>4. \A v : KeepAt(outs, DOMAIN outs \ {v}) \in Seq(O)
  BY <1>1, KeepAtFacts
<1>5. ss \in Seq(Seq(O))
  <2> DEFINE S == Seq(O)
             L == Len(ins)
  <2>1. <<>> \in S
    OBVIOUS
  <2>2. \A k \in 1..L : ss[k] \in S
    BY <1>3, <1>4, <2>1
  <2>3. ss = [k \in 1..L |-> ss[k]] /\ L \in Nat
    BY <1>2, <1>3
  <2> HIDE DEF S, L
  <2>4. ss \in Seq(S)
    BY <2>2, <2>3
  <2> QED
    BY <2>4 DEF S
<1>6. FlattenSeq(ss) \in Seq(O)
  BY <1>5, FlattenType
<1> QED
  BY <1>5, <1>6, PendingDef DEF ss, ins

\* The block's inputs are spent: no entry is left empty.
LEMMA SpendType ==
  ASSUME NEW O, NEW cs, IsChainstate(cs, O), NEW I, NEW txs, InputsOf(txs) \in Seq(I)
  PROVE  /\ IsChainstate(SpendInputs(cs, txs), O)
         /\ DOMAIN SpendInputs(cs, txs) \subseteq DOMAIN cs
<1> DEFINE touched == {in.txid : in \in ToSet(InputsOf(txs))}
           emptied == {id \in touched : PendingUpdate(cs, txs, id) = <<>>}
           D == DOMAIN cs \ emptied
           u == SpendInputs(cs, txs)
<1>1. u = [id \in D |-> IF id \in touched THEN PendingUpdate(cs, txs, id) ELSE cs[id]]
  BY DEF SpendInputs
<1>2. \A id \in D : id \in touched => PendingUpdate(cs, txs, id) # <<>>
  OBVIOUS
<1>3. \A id \in D : PendingUpdate(cs, txs, id) \in Seq(O)
  BY PendingType
<1>4. \A id \in D : cs[id] \in Seq(O) /\ cs[id] # <<>>
  BY DEF IsChainstate
<1>5. D \subseteq DOMAIN cs /\ IsFiniteSet(D)
  BY FS_Subset DEF IsChainstate
<1> HIDE DEF touched, emptied, D, u
<1>6. u \in [D -> Seq(O)] /\ \A id \in D : u[id] # <<>>
  BY <1>1, <1>2, <1>3, <1>4
<1> QED
  BY <1>1, <1>5, <1>6 DEF IsChainstate, u

\* Inputs that each name another transaction take their outputs and leave the rest.
LEMMA SpendIsTakeOut ==
  ASSUME NEW O, NEW cs, IsChainstate(cs, O), NEW I, NEW txs, InputsOf(txs) \in Seq(I),
         \A i, j \in DOMAIN InputsOf(txs) :
           InputsOf(txs)[i].txid = InputsOf(txs)[j].txid => i = j
  PROVE  SpendInputs(cs, txs) =
           TakeOut(cs, {<<in.txid, in.vout>> : in \in ToSet(InputsOf(txs))})
<1> DEFINE ins == InputsOf(txs)
           X == {<<in.txid, in.vout>> : in \in ToSet(ins)}
           touched == {in.txid : in \in ToSet(ins)}
           emptied == {id \in touched : PendingUpdate(cs, txs, id) = <<>>}
<1>1. SpendInputs(cs, txs) =
        [id \in DOMAIN cs \ emptied |->
           IF id \in touched THEN PendingUpdate(cs, txs, id) ELSE cs[id]]
  BY DEF SpendInputs
<1>2. DOMAIN ins = 1..Len(ins) /\ Len(ins) \in Nat /\ ToSet(ins) = {ins[i] : i \in 1..Len(ins)}
  BY DEF ToSet
<1>3. \A id \in DOMAIN cs : cs[id] \in Seq(O) /\ cs[id] # <<>>
  BY DEF IsChainstate
<1>4. ASSUME NEW id \in DOMAIN cs
      PROVE  IF id \in touched THEN PendingUpdate(cs, txs, id) = Unspent(id, cs[id], X)
             ELSE cs[id] = Unspent(id, cs[id], X)
  <2> DEFINE outs == cs[id]
             ss == PendingLs(cs, ins, id)
  <2>1. outs \in Seq(O)
    BY <1>3
  <2>2. CASE id \notin touched
    <3>1. \A i : <<id, i>> \notin X
      BY <2>2
    <3> HIDE DEF outs, X
    <3>2. Unspent(id, outs, X) = outs
      BY <2>1, <3>1, UnspentFacts
    <3> QED
      BY <2>2, <3>2 DEF outs
  <2>3. CASE id \in touched
    <3>1. PICK k \in 1..Len(ins) : ins[k].txid = id
      BY <1>2, <2>3
    <3>2. \A i \in 1..Len(ins) : i # k => ins[i].txid # id
      BY <1>2, <3>1
    <3>3. ss \in Seq(Seq(O)) /\ PendingUpdate(cs, txs, id) = FlattenSeq(ss)
      BY PendingType, PendingDef
    <3>4. DOMAIN ss = 1..Len(ins) /\ ss[k] = KeepAt(outs, DOMAIN outs \ {ins[k].vout})
          /\ \A i \in 1..Len(ins) : i # k => ss[i] = <<>>
      BY <1>2, <3>1, <3>2 DEF PendingLs
    <3>5. {i \in DOMAIN outs : <<id, i>> \notin X} = DOMAIN outs \ {ins[k].vout}
      <4>1. \A i : <<id, i>> \in X <=> i = ins[k].vout
        BY <1>2, <3>1, <3>2
      <4> HIDE DEF X
      <4> QED
        BY <4>1
    <3> HIDE DEF ss, outs, X, touched, ins
    <3>6. Len(ss) = Len(ins)
      BY <1>2, <3>3, <3>4
    <3>7. FlattenSeq(ss) = ss[k]
      BY <3>3, <3>4, <3>6, FlattenSingle
    <3>8. Unspent(id, outs, X) = KeepAt(outs, DOMAIN outs \ {ins[k].vout})
      BY <3>5 DEF Unspent
    <3> QED
      BY <2>3, <3>3, <3>4, <3>7, <3>8 DEF outs
  <2> QED
    BY <2>2, <2>3
<1>5. DOMAIN cs \ emptied = {id \in DOMAIN cs : Unspent(id, cs[id], X) # <<>>}
  <2>1. \A id \in DOMAIN cs : id \in emptied <=> Unspent(id, cs[id], X) = <<>>
    <3> HIDE DEF X, touched
    <3> QED
      BY <1>3, <1>4
  <2> HIDE DEF X, emptied
  <2> QED
    BY <2>1
<1> HIDE DEF X, touched, emptied
<1>6. SpendInputs(cs, txs) = [id \in DOMAIN cs \ emptied |-> Unspent(id, cs[id], X)]
  BY <1>1, <1>4
<1>7. TakeOut(cs, X) = [id \in DOMAIN cs \ emptied |-> Unspent(id, cs[id], X)]
  BY <1>5 DEF TakeOut
<1> QED
  BY <1>6, <1>7 DEF X, ins

LEMMA AddOutputsOfBlock ==
  ASSUME NEW u, NEW c, NEW t
  PROVE  AddOutputs(u, <<c, t>>) = AddBlock(u, c, t)
<1> DEFINE txs == <<c, t>>
           Step(g, n) == IF n = 0 THEN u ELSE Put(g[n - 1], txs[n].id, txs[n].vout)
           g0 == [n \in 0..Len(txs) |->
                    IF n = 0 THEN u
                    ELSE IF n = 1 THEN Put(u, c.id, c.vout) ELSE AddBlock(u, c, t)]
           f == CHOOSE g : g = [n \in 0..Len(txs) |-> Step(g, n)]
<1>1. Len(txs) = 2 /\ txs[1] = c /\ txs[2] = t
  OBVIOUS
<1>2. AddOutputs(u, txs) = f[Len(txs)]
  BY DEF AddOutputs
<1>3. \E g : g = [n \in 0..Len(txs) |-> Step(g, n)]
  <2>1. \A n \in 0..Len(txs) : g0[n] = Step(g0, n)
    <3> SUFFICES ASSUME NEW n \in 0..2 PROVE g0[n] = Step(g0, n)
      BY <1>1
    <3>1. n = 0 \/ n = 1 \/ n = 2
      OBVIOUS
    <3>2. g0[0] = u /\ g0[1] = Put(u, c.id, c.vout) /\ g0[2] = AddBlock(u, c, t)
      BY <1>1
    <3> HIDE DEF g0, txs
    <3>3. CASE n = 0
      BY <3>2, <3>3
    <3>4. CASE n = 1
      BY <1>1, <3>2, <3>4
    <3>5. CASE n = 2
      BY <1>1, <3>2, <3>5 DEF AddBlock
    <3> QED
      BY <3>1, <3>3, <3>4, <3>5
  <2>2. g0 = [n \in 0..Len(txs) |-> g0[n]]
    OBVIOUS
  <2> HIDE DEF g0, Step
  <2>3. g0 = [n \in 0..Len(txs) |-> Step(g0, n)]
    BY <2>1, <2>2
  <2> QED
    BY <2>3
<1>4. f = [n \in 0..Len(txs) |-> Step(f, n)]
  <2> HIDE DEF Step
  <2> QED
    BY <1>3, Zenon
<1> HIDE DEF f
<1>5. \A n \in 0..2 : f[n] = Step(f, n)
  BY <1>1, <1>4
<1>6. f[0] = u /\ f[1] = Put(f[0], c.id, c.vout) /\ f[2] = Put(f[1], t.id, t.vout)
  <2>1. f[0] = Step(f, 0) /\ f[1] = Step(f, 1) /\ f[2] = Step(f, 2)
    BY <1>5
  <2> HIDE DEF txs
  <2> QED
    BY <1>1, <2>1
<1> QED
  BY <1>1, <1>2, <1>6 DEF AddBlock

\* What Update leaves in the bucket, whatever the block spends.
LEMMA UpdateType ==
  ASSUME NEW O, NEW cs, IsChainstate(cs, O), NEW I, NEW c, NEW t,
         InputsOf(<<c, t>>) \in Seq(I),
         c.vout \in Seq(O), c.vout # <<>>, t.vout \in Seq(O), t.vout # <<>>
  PROVE  /\ IsChainstate(UpdateUTXO(cs, <<c, t>>), O)
         /\ DOMAIN UpdateUTXO(cs, <<c, t>>) \subseteq DOMAIN cs \cup {c.id, t.id}
<1> DEFINE txs == <<c, t>>
           u == SpendInputs(cs, txs)
<1>1. IsChainstate(u, O) /\ DOMAIN u \subseteq DOMAIN cs
  <2> HIDE DEF txs
  <2> QED
    BY SpendType DEF txs
<1>2. UpdateUTXO(cs, txs) = AddBlock(u, c, t)
  BY AddOutputsOfBlock DEF UpdateUTXO
<1> HIDE DEF u, txs
<1> DEFINE a == c.vout
           b == t.vout
           w == Put(u, c.id, a)
<1>3. a \in Seq(O) /\ a # <<>> /\ b \in Seq(O) /\ b # <<>>
  OBVIOUS
<1>4. AddBlock(u, c, t) = Put(w, t.id, b)
  BY DEF AddBlock
<1>5. DOMAIN w = DOMAIN u \cup {c.id} /\ DOMAIN Put(w, t.id, b) = DOMAIN w \cup {t.id}
  BY DEF Put
<1> HIDE DEF a, b
<1>6. IsChainstate(w, O)
  BY <1>1, <1>3, PutIsChainstate
<1> HIDE DEF w
<1>7. IsChainstate(Put(w, t.id, b), O)
  BY <1>3, <1>6, PutIsChainstate
<1> QED
  BY <1>1, <1>2, <1>4, <1>5, <1>7 DEF txs

-----------------------------------------------------------------------------
(* The weight of a chainstate, where w gives the weight of an output *)

Held(w, cs) == SumOf([id \in DOMAIN cs |-> Weigh(w, cs[id])])

LEMMA HeldType ==
  ASSUME NEW O, NEW cs, IsChainstate(cs, O), NEW w \in [O -> Int]
  PROVE  /\ [id \in DOMAIN cs |-> Weigh(w, cs[id])] \in [DOMAIN cs -> Int]
         /\ Held(w, cs) \in Int
<1> DEFINE f == [id \in DOMAIN cs |-> Weigh(w, cs[id])]
           D == DOMAIN cs
<1>1. \A id \in D : Weigh(w, cs[id]) \in Int
  <2> SUFFICES ASSUME NEW id \in D PROVE Weigh(w, cs[id]) \in Int
    OBVIOUS
  <2> DEFINE outs == cs[id]
  <2>1. outs \in Seq(O)
    BY DEF IsChainstate
  <2> HIDE DEF outs
  <2>2. Weigh(w, outs) \in Int
    BY <2>1, WeighType
  <2> QED
    BY <2>2 DEF outs
<1>2. f \in [D -> Int] /\ IsFiniteSet(D)
  BY <1>1 DEF IsChainstate
<1>3. SumOf(f) \in Int
  <2> HIDE DEF f, D
  <2> QED
    BY <1>2, SumOfInt
<1> QED
  BY <1>2, <1>3 DEF Held

LEMMA HeldNone == \A w : Held(w, <<>>) = 0
<1> SUFFICES ASSUME NEW w PROVE Held(w, <<>>) = 0
  OBVIOUS
<1> DEFINE f == [id \in DOMAIN <<>> |-> Weigh(w, <<>>[id])]
<1>1. DOMAIN f = {}
  OBVIOUS
<1> HIDE DEF f
<1>2. SumOf(f) = 0
  BY <1>1, SumOfNone
<1> QED
  BY <1>2 DEF Held, f

\* A fresh entry adds its own weight.
LEMMA HeldPut ==
  ASSUME NEW O, NEW cs, IsChainstate(cs, O), NEW w \in [O -> Int],
         NEW id, id \notin DOMAIN cs, NEW outs \in Seq(O), outs # <<>>
  PROVE  Held(w, Put(cs, id, outs)) = Held(w, cs) + Weigh(w, outs)
<1> DEFINE new == Put(cs, id, outs)
           D == DOMAIN new
           f == [k \in D |-> Weigh(w, new[k])]
           g == [k \in DOMAIN cs |-> Weigh(w, cs[k])]
<1>1. D = DOMAIN cs \cup {id} /\ new[id] = outs /\ \A k \in DOMAIN cs : new[k] = cs[k]
  BY DEF Put
<1>2. IsChainstate(new, O)
  BY PutIsChainstate
<1> HIDE DEF new
<1>3. f \in [D -> Int] /\ IsFiniteSet(D)
  <2>1. f \in [D -> Int]
    BY <1>2, HeldType
  <2> QED
    BY <1>2, <2>1 DEF IsChainstate
<1>4. id \in D /\ f[id] = Weigh(w, outs)
  BY <1>1
<1>5. Part(f, D \ {id}) = g
  <2>1. D \ {id} = DOMAIN cs /\ \A k \in DOMAIN cs : f[k] = Weigh(w, cs[k])
    BY <1>1
  <2> QED
    BY <2>1 DEF Part
<1> HIDE DEF f, g, D
<1>6. SumOf(f) = SumOf(Part(f, D \ {id})) + f[id]
  BY <1>3, <1>4, SumOfRemove
<1> QED
  BY <1>4, <1>5, <1>6 DEF Held, f, g, D, new

\* The weight of the outputs that inputs name, one by one.
Named(w, cs, ins) == SumOf([k \in DOMAIN ins |-> w[cs[ins[k].txid][ins[k].vout]]])

\* Every input names an output that is there, no two the same entry.
Takes(cs, ins) ==
  /\ \A k \in DOMAIN ins : ins[k].txid \in DOMAIN cs /\ ins[k].vout \in DOMAIN cs[ins[k].txid]
  /\ \A i, j \in DOMAIN ins : ins[i].txid = ins[j].txid => i = j

PositionsOf(ins) == {<<in.txid, in.vout>> : in \in ToSet(ins)}

\* Taking the outputs out takes their weight.
LEMMA HeldTakeOut ==
  ASSUME NEW O, NEW cs, IsChainstate(cs, O), NEW w \in [O -> Int],
         NEW I, NEW ins \in Seq(I), Takes(cs, ins)
  PROVE  /\ Named(w, cs, ins) \in Int
         /\ Held(w, TakeOut(cs, PositionsOf(ins))) = Held(w, cs) - Named(w, cs, ins)
<1> DEFINE X == PositionsOf(ins)
           D == DOMAIN cs
           left == DOMAIN TakeOut(cs, X)
           g == [id \in D |-> Weigh(w, cs[id])]
           f == [id \in D |-> Weigh(w, Unspent(id, cs[id], X))]
           loss == [id \in D |-> g[id] - f[id]]
           E == DOMAIN ins
           T == {ins[k].txid : k \in E}
           b == [k \in E |-> ins[k].txid]
           h == [k \in E |-> w[cs[ins[k].txid][ins[k].vout]]]
<1>1. D = DOMAIN cs /\ IsFiniteSet(D) /\ \A id \in D : cs[id] \in Seq(O)
  BY DEF IsChainstate
<1>2. E = 1..Len(ins) /\ Len(ins) \in Nat /\ ToSet(ins) = {ins[k] : k \in E}
  BY DEF ToSet
<1>3. IsFiniteSet(E)
  BY <1>2, FS_Interval
<1>4. /\ \A k \in E : ins[k].txid \in D /\ ins[k].vout \in DOMAIN cs[ins[k].txid]
      /\ \A i, j \in E : ins[i].txid = ins[j].txid => i = j
  BY DEF Takes
<1>5. g \in [D -> Int]
  BY HeldType
<1>6. ASSUME NEW id \in D
      PROVE  /\ f[id] \in Int
             /\ id \notin T => f[id] = g[id]
             /\ id \notin left => f[id] = 0
             /\ id \in left => f[id] = Weigh(w, TakeOut(cs, X)[id])
  <2> DEFINE outs == cs[id]
             some == Unspent(id, outs, X)
  <2>1. outs \in Seq(O)
    BY <1>1
  <2>2. f[id] = Weigh(w, some) /\ g[id] = Weigh(w, outs)
    OBVIOUS
  <2>3. IF some = <<>> THEN id \notin left
        ELSE id \in left /\ TakeOut(cs, X)[id] = some
    BY TakeOutFacts
  <2>4. id \notin T => \A i : <<id, i>> \notin X
    BY <1>2 DEF PositionsOf
  <2> HIDE DEF f, g, outs, X, T, left
  <2>5. some \in Seq(O) /\ (id \notin T => some = outs)
    BY <2>1, <2>4, UnspentFacts
  <2>6. some = <<>> => Weigh(w, some) = 0
    <3>1. some = <<>> => DOMAIN [j \in DOMAIN some |-> w[some[j]]] = {}
      OBVIOUS
    <3> QED
      BY <3>1, SumOfNone DEF Weigh
  <2>7. Weigh(w, some) \in Int
    <3> HIDE DEF some
    <3> QED
      BY <2>5, WeighType
  <2> HIDE DEF some
  <2> QED
    BY <2>2, <2>3, <2>5, <2>6, <2>7
<1>7. ASSUME NEW k \in E
      PROVE  h[k] = loss[b[k]]
  <2> DEFINE id == ins[k].txid
             v == ins[k].vout
             outs == cs[id]
  <2>1. id \in D /\ v \in DOMAIN outs /\ outs \in Seq(O)
    BY <1>1, <1>4
  <2>2. {i \in DOMAIN outs : <<id, i>> \notin X} = DOMAIN outs \ {v}
    <3>1. \A i : <<id, i>> \in X <=> i = v
      BY <1>2, <1>4 DEF PositionsOf
    <3> HIDE DEF X
    <3> QED
      BY <3>1
  <2>3. Unspent(id, outs, X) = KeepAt(outs, DOMAIN outs \ {v})
    BY <2>2 DEF Unspent
  <2>4. h[k] = w[outs[v]] /\ b[k] = id
    OBVIOUS
  <2>5. g[id] = Weigh(w, outs) /\ f[id] = Weigh(w, KeepAt(outs, DOMAIN outs \ {v}))
        /\ loss[id] = g[id] - f[id]
    BY <2>1, <2>3
  <2> HIDE DEF f, g, h, b, outs, id, v, loss
  <2>6. Weigh(w, KeepAt(outs, DOMAIN outs \ {v})) = Weigh(w, outs) - w[outs[v]]
    BY <2>1, WeighKeepOthers
  <2>7. Weigh(w, outs) \in Int /\ w[outs[v]] \in Int
    BY <2>1, WeighType
  <2> QED
    BY <2>4, <2>5, <2>6, <2>7
<1>8. f \in [D -> Int]
  BY <1>6
<1>9. loss \in [D -> Int] /\ \A id \in D : g[id] = f[id] + loss[id]
  BY <1>5, <1>8
<1>10. \A id \in D \ T : loss[id] = 0
  BY <1>5, <1>6
<1>11. T \subseteq D /\ b \in [E -> T] /\ (\A x, y \in E : b[x] = b[y] => x = y)
       /\ \A e \in T : \E x \in E : b[x] = e
  BY <1>4
<1>12. left \subseteq D
  BY TakeOutFacts
<1> HIDE DEF D, E, T, X, g, f, loss, b, h, left
<1>20. IsFiniteSet(D) /\ loss \in [D -> Int] /\ T \in SUBSET D
  BY <1>1, <1>9, <1>11
<1>21. AddsUp(D, f, loss, g)
  BY <1>5, <1>8, <1>9, <1>20 DEF AddsUp
<1>13. SumOf(g) = SumOf(f) + SumOf(loss)
  BY <1>21, SumOfPlus
<1>14. SumOf(loss) = SumOf(Part(loss, T))
  BY <1>10, <1>20, SumOfDrop
<1>15. SumOf(h) = SumOf(Part(loss, T))
  <2> DEFINE l == Part(loss, T)
  <2>1. l \in [T -> Int] /\ \A e \in T : l[e] = loss[e]
    BY <1>9, <1>11 DEF Part
  <2>6. Along(b, E, l, h)
    BY <1>7, <1>11, <2>1 DEF Along
  <2>7. OneToOne(b, E, T)
    BY <1>11 DEF OneToOne
  <2>2. \A k \in E : h[k] \in Int
    BY <2>1, <2>6, <2>7 DEF Along, OneToOne
  <2>3. h \in [E -> Int]
    BY <2>2 DEF h
  <2>4. IsFiniteSet(T)
    BY <1>1, <1>11, FS_Subset
  <2> HIDE DEF l
  <2>5. SumOf(h) = SumOf(l)
    BY <1>3, <2>1, <2>3, <2>4, <2>6, <2>7, SumOfBijection
  <2> QED
    BY <2>5 DEF l
<1>16. SumOf(f) = SumOf(Part(f, left))
  <2>1. IsFiniteSet(D) /\ left \in SUBSET D
    BY <1>1, <1>12
  <2>2. \A id \in D \ left : f[id] = 0
    BY <1>6
  <2> QED
    BY <1>8, <2>1, <2>2, SumOfDrop
<1>17. Part(f, left) = [id \in left |-> Weigh(w, TakeOut(cs, X)[id])]
  BY <1>6, <1>12 DEF Part
<1>18. SumOf(f) \in Int /\ SumOf(loss) \in Int
  BY <1>1, <1>8, <1>9, SumOfInt
<1>19. Named(w, cs, ins) = SumOf(h) /\ Held(w, cs) = SumOf(g)
       /\ Held(w, TakeOut(cs, X)) = SumOf(Part(f, left))
  BY <1>17 DEF Named, Held, h, g, D, E, left
<1> QED
  BY <1>13, <1>14, <1>15, <1>16, <1>18, <1>19 DEF X

-----------------------------------------------------------------------------
(* Coins and payments *)

Coins(A) == [value : Nat, owner : A]

ValueOf(A) == [o \in Coins(A) |-> o.value]

ShareOf(A, who) == [o \in Coins(A) |-> IF o.owner = who THEN o.value ELSE 0]

LEMMA CoinWeights ==
  ASSUME NEW A, NEW who
  PROVE  ValueOf(A) \in [Coins(A) -> Int] /\ ShareOf(A, who) \in [Coins(A) -> Int]
BY DEF ValueOf, ShareOf, Coins

LEMMA WorthIsWeight ==
  ASSUME NEW A, NEW outs \in Seq(Coins(A)), NEW who
  PROVE  /\ Worth(outs) = Weigh(ValueOf(A), outs)
         /\ Worth(OwnedBy(outs, who)) = Weigh(ShareOf(A, who), outs)
<1> DEFINE O == Coins(A)
           w == ValueOf(A)
           I == {k \in DOMAIN outs : outs[k].owner = who}
           kept == KeepAt(outs, I)
<1>1. \A s \in Seq(O) : Worth(s) = Weigh(w, s)
  <2> SUFFICES ASSUME NEW s \in Seq(O) PROVE Worth(s) = Weigh(w, s)
    OBVIOUS
  <2>1. [k \in DOMAIN s |-> s[k].value] = [k \in DOMAIN s |-> w[s[k]]]
    BY DEF ValueOf
  <2> QED
    BY <2>1 DEF Worth, Weigh
<1>2. w \in [O -> Int]
  BY CoinWeights
<1>3. OwnedBy(outs, who) = kept
  BY DEF OwnedBy
<1>4. [i \in DOMAIN outs |-> IF i \in I THEN w[outs[i]] ELSE 0]
        = [i \in DOMAIN outs |-> ShareOf(A, who)[outs[i]]]
  BY DEF ValueOf, ShareOf
<1> HIDE DEF O, w, I
<1>5. kept \in Seq(O)
  BY KeepAtFacts DEF O
<1>6. Weigh(w, kept) = SumOf([i \in DOMAIN outs |-> IF i \in I THEN w[outs[i]] ELSE 0])
  BY <1>2, WeighKept DEF O
<1>7. Worth(kept) = Weigh(w, kept)
  BY <1>1, <1>5
<1>8. Worth(outs) = Weigh(w, outs)
  BY <1>1 DEF O
<1> QED
  BY <1>3, <1>4, <1>6, <1>7, <1>8 DEF Weigh, w

LEMMA TotalIsHeld ==
  ASSUME NEW A, NEW cs, IsChainstate(cs, Coins(A)), NEW who
  PROVE  /\ Total(cs) = Held(ValueOf(A), cs)
         /\ GetBalance(cs, who) = Held(ShareOf(A, who), cs)
<1>1. \A id \in DOMAIN cs : /\ Worth(cs[id]) = Weigh(ValueOf(A), cs[id])
                            /\ Worth(OwnedBy(cs[id], who)) = Weigh(ShareOf(A, who), cs[id])
  <2> SUFFICES ASSUME NEW id \in DOMAIN cs
               PROVE  /\ Worth(cs[id]) = Weigh(ValueOf(A), cs[id])
                      /\ Worth(OwnedBy(cs[id], who)) = Weigh(ShareOf(A, who), cs[id])
    OBVIOUS
  <2> DEFINE outs == cs[id]
  <2>1. outs \in Seq(Coins(A))
    BY DEF IsChainstate
  <2> HIDE DEF outs
  <2>2. /\ Worth(outs) = Weigh(ValueOf(A), outs)
        /\ Worth(OwnedBy(outs, who)) = Weigh(ShareOf(A, who), outs)
    BY <2>1, WorthIsWeight
  <2> QED
    BY <2>2 DEF outs
<1> QED
  BY <1>1 DEF Total, GetBalance, Held

LEMMA TotalType ==
  ASSUME NEW A, NEW cs, IsChainstate(cs, Coins(A))
  PROVE  Total(cs) \in Int
BY TotalIsHeld, HeldType, CoinWeights

LEMMA OwnedFinite ==
  ASSUME NEW O, NEW cs, IsChainstate(cs, O), NEW who
  PROVE  IsFiniteSet(OwnedOutputs(cs, who))
<1> DEFINE D == DOMAIN cs
           all == [id \in D |-> {id} \X DOMAIN cs[id]]
           T == {all[id] : id \in D}
<1>1. IsFiniteSet(D)
  BY DEF IsChainstate
<1>2. IsFiniteSet(T)
  <2>1. all \in Surjection(D, T)
    BY DEF Surjection
  <2> HIDE DEF all, T, D
  <2> QED
    BY <1>1, <2>1, FS_Surjection
<1>3. \A id \in D : IsFiniteSet(all[id])
  <2> SUFFICES ASSUME NEW id \in D PROVE IsFiniteSet({id} \X DOMAIN cs[id])
    OBVIOUS
  <2> DEFINE s == DOMAIN cs[id]
             a == {id}
  <2>1. cs[id] \in Seq(O)
    BY DEF IsChainstate
  <2>2. s = 1..Len(cs[id]) /\ Len(cs[id]) \in Nat
    BY <2>1
  <2> HIDE DEF s
  <2>3. IsFiniteSet(s)
    BY <2>2, FS_Interval
  <2>4. IsFiniteSet(a)
    BY FS_Singleton
  <2> HIDE DEF a
  <2>5. IsFiniteSet(a \X s)
    BY <2>3, <2>4, FS_Product
  <2> QED
    BY <2>5 DEF a, s
<1>4. OwnedOutputs(cs, who) \subseteq UNION T
  BY DEF OwnedOutputs
<1> HIDE DEF all
<1>5. \A e \in T : IsFiniteSet(e)
  BY <1>3
<1> HIDE DEF T
<1>6. IsFiniteSet(UNION T)
  BY <1>2, <1>5, FS_UNION
<1> QED
  BY <1>4, <1>6, FS_Subset

\* A payment of amount by from to to: it spends outputs of from, worth at least
\* the amount, and hands all of their worth out again.
IsPayment(A, cs, tx, from, to, amount) ==
  LET balance == Named(ValueOf(A), cs, tx.vin) IN
  /\ tx.vin \in Seq(ToSet(tx.vin))
  /\ \A k \in DOMAIN tx.vin : /\ tx.vin[k].txid \in DOMAIN cs
                              /\ tx.vin[k].vout \in DOMAIN cs[tx.vin[k].txid]
                              /\ cs[tx.vin[k].txid][tx.vin[k].vout].owner = from
                              /\ tx.vin[k].pubKey = from
  /\ balance \in Int
  /\ balance >= amount
  /\ tx.vout = PaymentOutputs(from, to, amount, balance)
  /\ tx.id.vout = tx.vout
  /\ tx.id # NoTx

LEMMA PaymentFacts ==
  ASSUME NEW A, NEW cs, IsChainstate(cs, Coins(A)), NEW from, NEW to, NEW amount,
         NEW tx \in NewUTXOTransaction(cs, from, to, amount)
  PROVE  IsPayment(A, cs, tx, from, to, amount)
<1>1. PICK P \in GetUnSpendableOutputs(cs, from, amount) :
        \E vin \in InputLists(P, from) :
          tx = NewTransaction(vin, PaymentOutputs(from, to, amount, Accumulated(cs, P)))
  BY DEF NewUTXOTransaction
<1>2. PICK vin \in InputLists(P, from) :
        tx = NewTransaction(vin, PaymentOutputs(from, to, amount, Accumulated(cs, P)))
  BY <1>1
<1>3. PICK s \in SetToSeqs(P) :
        vin = [k \in DOMAIN s |-> [txid |-> s[k][1], vout |-> s[k][2], pubKey |-> from]]
  BY DEF InputLists
<1>4. P \subseteq OwnedOutputs(cs, from) /\ Accumulated(cs, P) >= amount
  BY <1>1 DEF GetUnSpendableOutputs
<1>5. IsFiniteSet(P)
  BY <1>4, OwnedFinite, FS_Subset
<1>6. \A p \in P : p[1] \in DOMAIN cs /\ p[2] \in DOMAIN cs[p[1]] /\ cs[p[1]][p[2]].owner = from
  BY <1>4 DEF OwnedOutputs
<1> DEFINE N == Cardinality(P)
           D == 1..N
           f == [p \in P |-> cs[p[1]][p[2]].value]
           g == [k \in DOMAIN vin |-> ValueOf(A)[cs[vin[k].txid][vin[k].vout]]]
<1>7. N \in Nat
  BY <1>5, FS_CardinalityType
<1>8. s \in [D -> P] /\ \A i, j \in D : i # j => s[i] # s[j]
  BY DEF SetToSeqs
<1>9. IsFiniteSet(D) /\ Cardinality(D) = N
  BY <1>7, FS_Interval
<1> HIDE DEF N, D
<1>10. s \in Surjection(D, P)
  <2>1. s \in Injection(D, P)
    BY <1>8 DEF Injection, IsInjective
  <2> QED
    BY <1>5, <1>9, <2>1, FS_Injection DEF N
<1>11. OneToOne(s, D, P)
  BY <1>8, <1>10 DEF OneToOne, Surjection
<1>12. \A p \in P : cs[p[1]][p[2]] \in Coins(A)
  BY <1>6 DEF IsChainstate
<1>13. f \in [P -> Int] /\ \A p \in P : f[p] = ValueOf(A)[cs[p[1]][p[2]]]
  BY <1>12 DEF Coins, ValueOf
<1>14. /\ DOMAIN vin = D
       /\ \A k \in D : s[k] \in P /\ vin[k].txid = s[k][1] /\ vin[k].vout = s[k][2]
                       /\ vin[k].pubKey = from
  BY <1>3, <1>8
<1>15. g = [k \in D |-> f[s[k]]]
  BY <1>13, <1>14
<1> HIDE DEF f, g
<1>16. Along(s, D, f, g) /\ g \in [D -> Int]
  <2>1. \A k \in D : f[s[k]] \in Int
    BY <1>8, <1>13
  <2>2. g \in [D -> Int]
    BY <1>15, <2>1
  <2>3. Along(s, D, f, g)
    BY <1>15 DEF Along
  <2> QED
    BY <2>2, <2>3
<1>17. SumOf(g) = SumOf(f)
  BY <1>5, <1>9, <1>11, <1>13, <1>16, SumOfBijection
<1>18. Named(ValueOf(A), cs, vin) = Accumulated(cs, P)
  BY <1>17 DEF Named, Accumulated, f, g
<1>19. Accumulated(cs, P) \in Int
  <2>1. SumOf(f) \in Int
    BY <1>5, <1>13, SumOfInt
  <2> QED
    BY <2>1 DEF Accumulated, f
<1>20. vin \in Seq(ToSet(vin))
  <2>1. vin = [k \in 1..N |-> vin[k]] /\ \A k \in 1..N : vin[k] \in ToSet(vin)
    BY <1>3, <1>14 DEF ToSet, D
  <2> QED
    BY <1>7, <2>1
<1>21. /\ tx.vin = vin
       /\ tx.vout = PaymentOutputs(from, to, amount, Accumulated(cs, P))
       /\ tx.id.vout = tx.vout
      /\ tx.id # NoTx
  BY <1>2 DEF NewTransaction, Hash, NoTx
<1>22. \A k \in D : /\ vin[k].txid \in DOMAIN cs
                    /\ vin[k].vout \in DOMAIN cs[vin[k].txid]
                    /\ cs[vin[k].txid][vin[k].vout].owner = from
                    /\ vin[k].pubKey = from
  BY <1>6, <1>14
<1> QED
  BY <1>4, <1>14, <1>18, <1>19, <1>20, <1>21, <1>22 DEF IsPayment

LEMMA WeighOne ==
  ASSUME NEW T, NEW w \in [T -> Int], NEW x \in T
  PROVE  Weigh(w, <<x>>) = w[x]
<1> DEFINE e == <<>>
<1>1. e \in Seq(T) /\ Append(e, x) = <<x>>
  OBVIOUS
<1>2. DOMAIN [j \in DOMAIN e |-> w[e[j]]] = {}
  OBVIOUS
<1> HIDE DEF e
<1>3. Weigh(w, e) = 0
  BY <1>2, SumOfNone DEF Weigh
<1>4. Weigh(w, Append(e, x)) = Weigh(w, e) + w[x]
  BY <1>1, WeighAppend
<1> QED
  BY <1>1, <1>3, <1>4

\* The outputs of a payment are worth its balance, in the shares it promises.
LEMMA PaymentOutputsFacts ==
  ASSUME NEW A, NEW from \in A, NEW to \in A, NEW amount \in Nat,
         NEW balance \in Int, balance >= amount, NEW who
  PROVE  /\ PaymentOutputs(from, to, amount, balance) \in Seq(Coins(A))
         /\ PaymentOutputs(from, to, amount, balance) # <<>>
         /\ Weigh(ValueOf(A), PaymentOutputs(from, to, amount, balance)) = balance
         /\ Weigh(ShareOf(A, who), PaymentOutputs(from, to, amount, balance)) =
              (IF who = to THEN amount ELSE 0) + (IF who = from THEN balance - amount ELSE 0)
<1> DEFINE O == Coins(A)
           x == [value |-> amount, owner |-> to]
           y == [value |-> balance - amount, owner |-> from]
           outs == PaymentOutputs(from, to, amount, balance)
           v == ValueOf(A)
           w == ShareOf(A, who)
<1>1. x \in O /\ y \in O
  BY DEF Coins
<1>2. /\ v[x] = amount /\ v[y] = balance - amount
      /\ w[x] = (IF who = to THEN amount ELSE 0)
      /\ w[y] = (IF who = from THEN balance - amount ELSE 0)
  BY <1>1 DEF ValueOf, ShareOf
<1>3. v \in [O -> Int] /\ w \in [O -> Int]
  BY CoinWeights
<1>4. outs = <<x>> \o (IF balance > amount THEN <<y>> ELSE <<>>)
  BY DEF PaymentOutputs
<1> HIDE DEF O, x, y, v, w, outs
<1>5. <<x>> \in Seq(O) /\ <<y>> \in Seq(O)
  BY <1>1
<1>6. ASSUME NEW u \in [O -> Int]
      PROVE  Weigh(u, outs) = u[x] + (IF balance > amount THEN u[y] ELSE 0)
  <2>1. Weigh(u, <<x>>) = u[x] /\ Weigh(u, <<y>>) = u[y]
    BY <1>1, WeighOne
  <2>2. CASE balance > amount
    <3>1. outs = <<x>> \o <<y>>
      BY <1>4, <2>2
    <3>2. Weigh(u, <<x>> \o <<y>>) = Weigh(u, <<x>>) + Weigh(u, <<y>>)
      BY <1>5, WeighConcat
    <3> QED
      BY <2>1, <2>2, <3>1, <3>2
  <2>3. CASE ~(balance > amount)
    <3>1. outs = <<x>>
      BY <1>4, <2>3
    <3>2. u[x] \in Int
      BY <1>1
    <3> QED
      BY <2>1, <2>3, <3>1, <3>2
  <2> QED
    BY <2>2, <2>3
<1>7. outs \in Seq(O) /\ outs # <<>>
  BY <1>1, <1>4
<1>8. Weigh(v, outs) = v[x] + (IF balance > amount THEN v[y] ELSE 0)
  BY <1>3, <1>6
<1>9. Weigh(w, outs) = w[x] + (IF balance > amount THEN w[y] ELSE 0)
  BY <1>3, <1>6
<1>10. ~(balance > amount) => balance = amount
  OBVIOUS
<1>11. Weigh(v, outs) = balance
  BY <1>2, <1>8, <1>10
<1>12. Weigh(w, outs) = (IF who = to THEN amount ELSE 0)
                          + (IF who = from THEN balance - amount ELSE 0)
  BY <1>2, <1>9, <1>10
<1> QED
  BY <1>7, <1>11, <1>12 DEF outs, v, w, O

\* The reward, and what it is worth to whom.
LEMMA RewardFacts ==
  ASSUME NEW A, NEW to \in A, NEW who
  PROVE  /\ IsCoinbase(NewCoinbaseTX(to))
         /\ NewCoinbaseTX(to).vin \in Seq(ToSet(NewCoinbaseTX(to).vin))
         /\ NewCoinbaseTX(to).vout \in Seq(Coins(A))
         /\ NewCoinbaseTX(to).vout # <<>>
         /\ NewCoinbaseTX(to).id.vout = NewCoinbaseTX(to).vout
         /\ NewCoinbaseTX(to).id # NoTx
         /\ Weigh(ValueOf(A), NewCoinbaseTX(to).vout) = Subsidy
         /\ Weigh(ShareOf(A, who), NewCoinbaseTX(to).vout) = IF who = to THEN Subsidy ELSE 0
<1> DEFINE c == NewCoinbaseTX(to)
           in == [txid |-> NoTx, vout |-> 1, pubKey |-> NoTx]
           x == [value |-> Subsidy, owner |-> to]
           O == Coins(A)
           v == ValueOf(A)
           w == ShareOf(A, who)
<1>1. c.vin = <<in>> /\ c.vout = <<x>> /\ c.id.vout = c.vout /\ c.id # NoTx
  BY DEF NewCoinbaseTX, NewTransaction, Hash, NoTx
<1>2. IsCoinbase(c)
  <2>1. in.txid = NoTx /\ in.vout = 1
    OBVIOUS
  <2> HIDE DEF in, c
  <2> QED
    BY <1>1, <2>1 DEF IsCoinbase
<1>3. c.vin \in Seq(ToSet(c.vin))
  <2> HIDE DEF in, c
  <2>1. in \in ToSet(<<in>>)
    BY DEF ToSet
  <2> QED
    BY <1>1, <2>1
<1>4. x \in O /\ v[x] = Subsidy /\ w[x] = IF who = to THEN Subsidy ELSE 0
  <2>1. x \in O
    BY SubsidyAssumption DEF Coins
  <2> QED
    BY <2>1 DEF ValueOf, ShareOf
<1>5. v \in [O -> Int] /\ w \in [O -> Int]
  BY CoinWeights
<1> HIDE DEF c, x, O, v, w
<1>6. Weigh(v, <<x>>) = v[x] /\ Weigh(w, <<x>>) = w[x]
  BY <1>4, <1>5, WeighOne
<1>7. c.vout \in Seq(O) /\ c.vout # <<>>
  BY <1>1, <1>4
<1> QED
  BY <1>1, <1>2, <1>3, <1>4, <1>6, <1>7 DEF c, v, w, O

\* A payment is no coinbase and all it spends belongs to the payer.
LEMMA PaymentSpends ==
  ASSUME NEW A, NEW cs, IsChainstate(cs, Coins(A)), NoTx \notin DOMAIN cs,
         NEW from, NEW to, NEW amount, NEW tx, IsPayment(A, cs, tx, from, to, amount), NEW who
  PROVE  /\ ~IsCoinbase(tx)
         /\ Named(ShareOf(A, who), cs, tx.vin) =
              IF who = from THEN Named(ValueOf(A), cs, tx.vin) ELSE 0
<1> DEFINE vin == tx.vin
           E == DOMAIN vin
           f == [k \in E |-> ShareOf(A, who)[cs[vin[k].txid][vin[k].vout]]]
           g == [k \in E |-> ValueOf(A)[cs[vin[k].txid][vin[k].vout]]]
<1>1. /\ vin \in Seq(ToSet(vin))
      /\ \A k \in E : /\ vin[k].txid \in DOMAIN cs
                      /\ vin[k].vout \in DOMAIN cs[vin[k].txid]
                      /\ cs[vin[k].txid][vin[k].vout].owner = from
  BY DEF IsPayment
<1>2. ~IsCoinbase(tx)
  BY <1>1 DEF IsCoinbase
<1>3. \A k \in E : cs[vin[k].txid][vin[k].vout] \in Coins(A)
  BY <1>1 DEF IsChainstate
<1>4. CASE who = from
  <2>1. f = g
    BY <1>1, <1>3, <1>4 DEF ShareOf, ValueOf
  <2> QED
    BY <1>2, <1>4, <2>1 DEF Named
<1>5. CASE who # from
  <2>1. \A k \in E : f[k] = 0
    BY <1>1, <1>3, <1>5 DEF ShareOf
  <2>2. IsFiniteSet(E)
    <3>1. E = 1..Len(vin) /\ Len(vin) \in Nat
      BY <1>1
    <3> HIDE DEF E, vin
    <3> QED
      BY <3>1, FS_Interval
  <2>3. f = [k \in E |-> f[k]]
    OBVIOUS
  <2> HIDE DEF f, E
  <2>4. f \in [E -> Int]
    BY <2>1, <2>3
  <2>5. SumOf(f) = SumOf(Part(f, {}))
    BY <2>1, <2>2, <2>4, SumOfDrop
  <2>6. SumOf(Part(f, {})) = 0
    <3>1. DOMAIN Part(f, {}) = {}
      BY DEF Part
    <3> QED
      BY <3>1, SumOfNone
  <2> QED
    BY <1>2, <1>5, <2>5, <2>6 DEF Named, f, E
<1> QED
  BY <1>4, <1>5

-----------------------------------------------------------------------------
(* A block of a reward and a payment *)

\* What Update does with such a block is what the payment spends and both create.
LEMMA PaymentBlock ==
  ASSUME NEW A, NEW cs, IsChainstate(cs, Coins(A)), NoTx \notin DOMAIN cs,
         NEW from \in A, NEW to, NEW amount, NEW tx, IsPayment(A, cs, tx, from, to, amount),
         NEW c, c = NewCoinbaseTX(from)
  PROVE  /\ InputsOf(<<c, tx>>) = tx.vin
         /\ tx.vin \in Seq(ToSet(tx.vin))
         /\ Spends(tx) = PositionsOf(tx.vin)
         /\ (\A i, j \in DOMAIN tx.vin : tx.vin[i].txid = tx.vin[j].txid => i = j)
              => /\ Takes(cs, tx.vin)
                 /\ SpendInputs(cs, <<c, tx>>) = TakeOut(cs, Spends(tx))
                 /\ UpdateUTXO(cs, <<c, tx>>) = AddBlock(TakeOut(cs, Spends(tx)), c, tx)
<1> DEFINE I == ToSet(c.vin) \cup ToSet(tx.vin)
           txs == <<c, tx>>
           ins == InputsOf(txs)
<1>1. c.vin \in Seq(ToSet(c.vin)) /\ IsCoinbase(c)
  BY RewardFacts
<1>2. tx.vin \in Seq(ToSet(tx.vin)) /\ ~IsCoinbase(tx)
  BY PaymentSpends DEF IsPayment
<1>3. c.vin \in Seq(I) /\ tx.vin \in Seq(I)
  <2> DEFINE a == c.vin
             b == tx.vin
             S == ToSet(a)
             T == ToSet(b)
  <2>1. a \in Seq(S) /\ b \in Seq(T) /\ I = S \cup T
    BY <1>1, <1>2
  <2> HIDE DEF a, b, S, T, I
  <2>2. a \in Seq(I) /\ b \in Seq(I)
    BY <2>1
  <2> QED
    BY <2>2 DEF a, b
<1> HIDE DEF I
<1>4. ins = tx.vin
  BY <1>1, <1>2, <1>3, InputsOfBlock
<1>5. Spends(tx) = PositionsOf(tx.vin)
  BY <1>2 DEF Spends, PositionsOf
<1> HIDE DEF txs
<1>6. ASSUME \A i, j \in DOMAIN tx.vin : tx.vin[i].txid = tx.vin[j].txid => i = j
      PROVE  /\ Takes(cs, tx.vin)
             /\ SpendInputs(cs, txs) = TakeOut(cs, Spends(tx))
  <2>1. Takes(cs, tx.vin)
    BY <1>6 DEF Takes, IsPayment
  <2>2. ins \in Seq(I) /\ \A i, j \in DOMAIN ins : ins[i].txid = ins[j].txid => i = j
    BY <1>3, <1>4, <1>6
  <2>3. SpendInputs(cs, txs) = TakeOut(cs, {<<in.txid, in.vout>> : in \in ToSet(ins)})
    BY <2>2, SpendIsTakeOut
  <2> QED
    BY <1>4, <1>5, <2>1, <2>3 DEF PositionsOf
<1>7. UpdateUTXO(cs, txs) = AddBlock(SpendInputs(cs, txs), c, tx)
  BY AddOutputsOfBlock DEF UpdateUTXO, txs
<1> QED
  BY <1>2, <1>4, <1>5, <1>6, <1>7 DEF txs

\* The weight such a block takes and adds.
LEMMA BlockWeight ==
  ASSUME NEW A, NEW cs, IsChainstate(cs, Coins(A)), NoTx \notin DOMAIN cs,
         NEW from \in A, NEW to \in A, NEW amount \in Nat,
         NEW tx, IsPayment(A, cs, tx, from, to, amount),
         NEW c, c = NewCoinbaseTX(from),
         \A i, j \in DOMAIN tx.vin : tx.vin[i].txid = tx.vin[j].txid => i = j,
         c.id \notin DOMAIN TakeOut(cs, Spends(tx)),
         tx.id \notin DOMAIN TakeOut(cs, Spends(tx)), c.id # tx.id,
         NEW w \in [Coins(A) -> Int]
  PROVE  /\ IsChainstate(UpdateUTXO(cs, <<c, tx>>), Coins(A))
         /\ Held(w, UpdateUTXO(cs, <<c, tx>>)) =
              Held(w, cs) - Named(w, cs, tx.vin) + Weigh(w, c.vout) + Weigh(w, tx.vout)
         /\ Held(w, cs) \in Int /\ Named(w, cs, tx.vin) \in Int
<1> DEFINE O == Coins(A)
           X == Spends(tx)
           vin == tx.vin
           I == ToSet(vin)
           a == c.vout
           b == tx.vout
           u == TakeOut(cs, X)
           u1 == Put(u, c.id, a)
           u2 == Put(u1, tx.id, b)
<1>1. vin \in Seq(I) /\ Takes(cs, vin) /\ X = PositionsOf(vin)
      /\ UpdateUTXO(cs, <<c, tx>>) = u2
  BY PaymentBlock DEF AddBlock
<1>2. a \in Seq(O) /\ a # <<>>
  BY RewardFacts
<1>3. b \in Seq(O) /\ b # <<>>
  <2> DEFINE balance == Named(ValueOf(A), cs, tx.vin)
  <2>1. b = PaymentOutputs(from, to, amount, balance) /\ balance \in Int /\ balance >= amount
    BY DEF IsPayment
  <2> HIDE DEF balance, b, O
  <2> QED
    BY <2>1, PaymentOutputsFacts DEF O
<1>4. c.id \notin DOMAIN u /\ tx.id \notin DOMAIN u
  OBVIOUS
<1> HIDE DEF O, X, vin, I, a, b, u
<1>5. IsChainstate(u, O)
  BY TakeOutType DEF u, O
<1>6. IsChainstate(u1, O) /\ Held(w, u1) = Held(w, u) + Weigh(w, a)
  BY <1>2, <1>4, <1>5, PutIsChainstate, HeldPut DEF O
<1>7. tx.id \notin DOMAIN u1
  BY <1>4 DEF Put
<1> HIDE DEF u1
<1>8. IsChainstate(u2, O) /\ Held(w, u2) = Held(w, u1) + Weigh(w, b)
  BY <1>3, <1>6, <1>7, PutIsChainstate, HeldPut DEF O
<1>9. Named(w, cs, vin) \in Int /\ Held(w, TakeOut(cs, PositionsOf(vin))) = Held(w, cs) - Named(w, cs, vin)
  BY <1>1, HeldTakeOut
<1>10. Held(w, u) = Held(w, cs) - Named(w, cs, vin)
  BY <1>1, <1>9 DEF u
<1>11. Held(w, cs) \in Int /\ Weigh(w, a) \in Int /\ Weigh(w, b) \in Int
  BY <1>2, <1>3, HeldType, WeighType DEF O
<1>12. Held(w, u2) = Held(w, cs) - Named(w, cs, vin) + Weigh(w, a) + Weigh(w, b)
  BY <1>6, <1>8, <1>9, <1>10, <1>11
<1> QED
  BY <1>1, <1>8, <1>9, <1>11, <1>12 DEF O, vin, a, b

\* No two inputs name the same transaction.
OneEach(ins) == \A i, j \in DOMAIN ins : ins[i].txid = ins[j].txid => i = j

\* Such a block adds the subsidy to the total and settles the payment.
LEMMA BlockPays ==
  ASSUME NEW A, NEW cs, IsChainstate(cs, Coins(A)), NoTx \notin DOMAIN cs,
         NEW from \in A, NEW to \in A, NEW amount \in Nat,
         NEW tx, IsPayment(A, cs, tx, from, to, amount),
         NEW c, c = NewCoinbaseTX(from),
         OneEach(tx.vin), Fresh(TakeOut(cs, Spends(tx)), c, tx), NEW who
  PROVE  /\ Total(UpdateUTXO(cs, <<c, tx>>)) = Total(cs) + Subsidy
         /\ GetBalance(UpdateUTXO(cs, <<c, tx>>), who) =
              GetBalance(cs, who) + (IF who = to THEN amount ELSE 0)
                                  + (IF who = from THEN Subsidy - amount ELSE 0)
<1> USE DEF OneEach, Fresh
<1> DEFINE v == ValueOf(A)
           w == ShareOf(A, who)
           new == UpdateUTXO(cs, <<c, tx>>)
           balance == Named(v, cs, tx.vin)
           a == c.vout
           b == tx.vout
<1>1. v \in [Coins(A) -> Int] /\ w \in [Coins(A) -> Int]
  BY CoinWeights
<1>2. /\ IsChainstate(new, Coins(A))
      /\ Held(v, new) = Held(v, cs) - balance + Weigh(v, a) + Weigh(v, b)
      /\ Held(v, cs) \in Int /\ balance \in Int
  BY <1>1, BlockWeight
<1>3. /\ Held(w, new) = Held(w, cs) - Named(w, cs, tx.vin) + Weigh(w, a) + Weigh(w, b)
      /\ Held(w, cs) \in Int
  BY <1>1, BlockWeight
<1>4. Weigh(v, a) = Subsidy /\ Weigh(w, a) = IF who = from THEN Subsidy ELSE 0
  BY RewardFacts
<1>5. b = PaymentOutputs(from, to, amount, balance) /\ balance >= amount
  BY DEF IsPayment
<1>6. Named(w, cs, tx.vin) = IF who = from THEN balance ELSE 0
  BY PaymentSpends
<1>7. /\ Total(new) = Held(v, new) /\ Total(cs) = Held(v, cs)
      /\ GetBalance(new, who) = Held(w, new) /\ GetBalance(cs, who) = Held(w, cs)
  BY <1>2, TotalIsHeld
<1> HIDE DEF v, w, new, balance, a, b
<1>8. /\ Weigh(v, b) = balance
      /\ Weigh(w, b) = (IF who = to THEN amount ELSE 0)
                         + (IF who = from THEN balance - amount ELSE 0)
  BY <1>2, <1>5, PaymentOutputsFacts DEF v, w
<1>9. Subsidy \in Int
  BY SubsidyAssumption
<1>10. Total(new) = Total(cs) + Subsidy
  BY <1>2, <1>4, <1>7, <1>8, <1>9
<1>11. GetBalance(new, who) =
         GetBalance(cs, who) + (IF who = to THEN amount ELSE 0)
                             + (IF who = from THEN Subsidy - amount ELSE 0)
  BY <1>2, <1>3, <1>4, <1>6, <1>7, <1>8, <1>9
<1> QED
  BY <1>10, <1>11 DEF new

-----------------------------------------------------------------------------
(* The chain of a node *)

\* The ids the walk has collected are ids of transactions it met.
LEMMA CollectedIds ==
  ASSUME NEW K, NEW TX, \A tx \in TX : tx.id \in K, NEW txs \in Seq(TX)
  PROVE  \A n \in 0..Len(txs) : DOMAIN Collected(txs)[n].utxo \subseteq K
<1> DEFINE N == Len(txs)
           C == Collected(txs)
           Good(n) == DOMAIN C[n].utxo \subseteq K
           G == {n \in 0..N : Good(n)}
<1>1. N \in Nat /\ Gathered(txs, C)
  BY CollectedDef
<1>2. \A n \in 0..(N - 1) : txs[n + 1].id \in K
  OBVIOUS
<1> HIDE DEF C
<1>3. Good(0)
  BY <1>1 DEF Gathered
<1>4. ASSUME NEW n \in 0..(N - 1), Good(n) PROVE Good(n + 1)
  <2> DEFINE id == txs[n + 1].id
             outs == Outs(C[n], txs[n + 1])
             val == Entry(C[n], txs[n + 1]) \o outs
  <2>1. C[n + 1].utxo = IF outs = <<>> THEN C[n].utxo ELSE Put(C[n].utxo, id, val)
    BY <1>1 DEF Gathered
  <2>2. id \in K
    BY <1>2
  <2> HIDE DEF id, outs, val
  <2>3. DOMAIN Put(C[n].utxo, id, val) = DOMAIN C[n].utxo \cup {id}
    BY DEF Put
  <2> QED
    BY <1>4, <2>1, <2>2, <2>3
<1>5. 0..N \subseteq G
  <2>1. 0 \in G
    BY <1>1, <1>3
  <2>2. \A n \in 0..(N - 1) : n \in G => n + 1 \in G
    <3>1. \A n \in 0..(N - 1) : n + 1 \in 0..N
      BY <1>1
    <3> HIDE DEF Good
    <3> QED
      BY <1>4, <3>1
  <2> HIDE DEF G, N
  <2> QED
    BY <1>1, <2>1, <2>2, UpToInduction
<1> QED
  BY <1>5 DEF C

\* Every block stored carries transactions of TX.
Carries(blocks, TX) == \A k \in DOMAIN blocks : blocks[k].txs \in Seq(TX)

\* The transactions of the chain,
LEMMA ChainTransactions ==
  ASSUME NEW blocks, Closed(blocks), NEW tip \in DOMAIN blocks \cup {NoBlock},
         NEW TX, Carries(blocks, TX)
  PROVE  TransactionsOf(Branch(blocks, tip)) \in Seq(TX)
<1> DEFINE S == {blocks[k] : k \in DOMAIN blocks}
           branch == Branch(blocks, tip)
<1>1. (\A k \in DOMAIN blocks : blocks[k] \in S) /\ \A b \in S : b.txs \in Seq(TX)
  BY DEF Carries
<1> HIDE DEF S
<1>2. branch \in Seq(S)
  BY <1>1, BranchType
<1> HIDE DEF branch
<1>3. TransactionsOf(branch) \in Seq(TX)
  BY <1>1, <1>2, TransactionsType
<1> QED
  BY <1>3 DEF branch

Lengthens(blocks, tip, h, B) ==
  /\ Closed(Put(blocks, h, B))
  /\ TransactionsOf(Branch(Put(blocks, h, B), h)) = B.txs \o TransactionsOf(Branch(blocks, tip))

\* and those of the chain with a block on top.
LEMMA ChainGrows ==
  ASSUME NEW blocks, Closed(blocks), NEW tip \in DOMAIN blocks \cup {NoBlock},
         NEW TX, Carries(blocks, TX), NEW h, NEW B, FitsOn(blocks, tip, h, B), B.txs \in Seq(TX)
  PROVE  Lengthens(blocks, tip, h, B)
<1> DEFINE S == {blocks[k] : k \in DOMAIN blocks} \cup {B}
           branch == Branch(blocks, tip)
<1>1. /\ \A k \in DOMAIN blocks : blocks[k] \in S
      /\ \A b \in S : b.txs \in Seq(TX)
      /\ B \in S
  BY DEF Carries
<1> HIDE DEF S
<1>2. branch \in Seq(S)
  BY <1>1, BranchType
<1>3. Closed(Put(blocks, h, B)) /\ Branch(Put(blocks, h, B), h) = <<B>> \o branch
  <2> HIDE DEF branch
  <2>1. Heads(blocks, tip, h, B)
    BY BranchGrows
  <2> QED
    BY <2>1 DEF Heads, branch
<1> HIDE DEF branch
<1>4. TransactionsOf(<<B>> \o branch) = B.txs \o TransactionsOf(branch)
  BY <1>1, <1>2, TransactionsGrow
<1> QED
  BY <1>3, <1>4 DEF branch, Lengthens

\* No block, nothing to spend.
LEMMA EmptyChain ==
  ASSUME NEW blocks, DOMAIN blocks = {}
  PROVE  /\ TransactionsOf(Branch(blocks, NoBlock)) = <<>>
         /\ FindUTXO(Branch(blocks, NoBlock)) = <<>>
         /\ MadeOnce(<<>>)
<1> DEFINE none == <<>>
           ss == [k \in DOMAIN none |-> none[k].txs]
<1>1. none \in Seq({}) /\ Len(none) = 0
  OBVIOUS
<1>2. ss \in Seq(Seq({})) /\ Len(ss) = 0
  <2>1. ss = <<>>
    OBVIOUS
  <2> QED
    BY <2>1
<1> HIDE DEF ss
<1>3. FlattenSeq(ss) = <<>>
  BY <1>2, FlatDef
<1>4. TransactionsOf(none) = <<>>
  BY <1>3 DEF TransactionsOf, ss
<1> HIDE DEF none
<1>5. Gathered(none, Collected(none))
  BY <1>1, CollectedDef
<1>6. Collected(none)[0].utxo = <<>>
  BY <1>5 DEF Gathered
<1>7. Branch(blocks, NoBlock) = none
  BY BranchEmpty DEF none
<1>8. MadeOnce(none)
  BY <1>1 DEF MadeOnce
<1> QED
  BY <1>1, <1>4, <1>6, <1>7, <1>8 DEF FindUTXO, none

\* The first block gives its reward.
LEMMA GenesisWalk ==
  ASSUME NEW A, NEW to \in A, NEW txs, txs = <<NewCoinbaseTX(to)>>
  PROVE  /\ MadeOnce(txs)
         /\ Total(Collected(txs)[Len(txs)].utxo) = Subsidy
         /\ Collected(txs)[Len(txs)].utxo = Put(<<>>, NewCoinbaseTX(to).id, NewCoinbaseTX(to).vout)
<1> DEFINE c == NewCoinbaseTX(to)
           C == Collected(txs)
           O == Coins(A)
           a == c.vout
           w == ValueOf(A)
<1>1. a \in Seq(O) /\ a # <<>> /\ Weigh(w, a) = Subsidy
  BY RewardFacts
<1> HIDE DEF a
<1>2. txs \in Seq({c}) /\ Len(txs) = 1 /\ txs[1] = c
  <2> HIDE DEF c
  <2> QED
    BY DEF c
<1>3. Gathered(txs, C)
  BY <1>2, CollectedDef
<1> HIDE DEF C, c
<1>4. C[0].utxo = <<>> /\ C[0].spent = {}
  BY <1>3 DEF Gathered
<1>5. C[0 + 1].utxo = IF Outs(C[0], txs[0 + 1]) = <<>> THEN C[0].utxo
                      ELSE Put(C[0].utxo, txs[0 + 1].id, Entry(C[0], txs[0 + 1]) \o Outs(C[0], txs[0 + 1]))
  BY <1>2, <1>3 DEF Gathered
<1>6. DOMAIN <<>> = {}
  OBVIOUS
<1>7. Outs(C[0], c) = a
  <2> DEFINE I == {i \in DOMAIN a : <<c.id, i>> \notin C[0].spent}
  <2>1. DOMAIN a \subseteq I
    BY <1>4
  <2> HIDE DEF I
  <2>2. KeepAt(a, I) = a
    BY <1>1, <2>1, KeepAtFacts
  <2> QED
    BY <2>2 DEF Outs, a, I
<1>8. Entry(C[0], c) = <<>>
  BY <1>4, <1>6 DEF Entry
<1>9. <<>> \o a = a
  BY <1>1, ConcatEmptySeq
<1>10. C[1].utxo = Put(<<>>, c.id, a)
  <2>1. C[1].utxo = IF Outs(C[0], c) = <<>> THEN C[0].utxo
                    ELSE Put(C[0].utxo, c.id, Entry(C[0], c) \o Outs(C[0], c))
    BY <1>2, <1>5
  <2> QED
    BY <1>1, <1>4, <1>7, <1>8, <1>9, <2>1
<1>11. MadeOnce(txs)
  <2> SUFFICES ASSUME NEW n \in 0..(Len(txs) - 1) PROVE txs[n + 1].id \notin DOMAIN C[n].utxo
    BY DEF MadeOnce, C
  <2>1. n = 0
    BY <1>2
  <2> QED
    BY <1>4, <1>6, <2>1
<1> DEFINE e == <<>>
           u == Put(e, c.id, a)
<1>12. IsChainstate(e, O) /\ c.id \notin DOMAIN e
  BY <1>6, EmptyIsChainstate
<1>13. w \in [O -> Int]
  BY CoinWeights
<1>14. Held(w, e) = 0
  BY HeldNone
<1> HIDE DEF e, w, O
<1>15. IsChainstate(u, O) /\ Held(w, u) = Held(w, e) + Weigh(w, a)
  BY <1>1, <1>12, <1>13, HeldPut, PutIsChainstate
<1>16. Total(u) = Held(w, u)
  <2> HIDE DEF u
  <2> QED
    BY <1>15, TotalIsHeld DEF O, w
<1>17. Total(u) = Subsidy
  BY <1>1, <1>14, <1>15, <1>16, SubsidyAssumption
<1> QED
  BY <1>2, <1>10, <1>11, <1>17 DEF C, u, e, c, a

-----------------------------------------------------------------------------
(* Outputs spent and outputs made *)

\* How often the inputs take output v of transaction id, and how often a
\* transaction of that id is made.
Spent(id, v, ins) == Cardinality({k \in DOMAIN ins : ins[k].txid = id /\ ins[k].vout = v})
Made(id, txs) == Cardinality({k \in DOMAIN txs : txs[k].id = id})

LEMMA SpentConcat ==
  ASSUME NEW I, NEW a \in Seq(I), NEW b \in Seq(I), NEW id, NEW v
  PROVE  /\ Spent(id, v, a) \in Nat /\ Spent(id, v, b) \in Nat
         /\ Spent(id, v, a \o b) = Spent(id, v, a) + Spent(id, v, b)
<1> DEFINE w == [in \in I |-> IF in.txid = id /\ in.vout = v THEN 1 ELSE 0]
<1>1. w \in [I -> {0, 1}] /\ w \in [I -> Int]
  OBVIOUS
<1>2. \A s \in Seq(I) : {k \in DOMAIN s : w[s[k]] = 1}
                          = {k \in DOMAIN s : s[k].txid = id /\ s[k].vout = v}
  OBVIOUS
<1>3. a \o b \in Seq(I)
  OBVIOUS
<1> HIDE DEF w
<1>4. \A s \in Seq(I) : Weigh(w, s) = Spent(id, v, s) /\ Weigh(w, s) \in Nat
  <2> SUFFICES ASSUME NEW s \in Seq(I)
               PROVE  Weigh(w, s) = Spent(id, v, s) /\ Weigh(w, s) \in Nat
    OBVIOUS
  <2>1. /\ Weigh(w, s) = Cardinality({k \in DOMAIN s : w[s[k]] = 1})
        /\ Weigh(w, s) \in Nat
    BY <1>1, WeighOnes
  <2> QED
    BY <1>2, <2>1 DEF Spent
<1>5. Weigh(w, a \o b) = Weigh(w, a) + Weigh(w, b)
  BY <1>1, WeighConcat
<1> QED
  BY <1>3, <1>4, <1>5

LEMMA MadeConcat ==
  ASSUME NEW TX, NEW a \in Seq(TX), NEW b \in Seq(TX), NEW id
  PROVE  /\ Made(id, a) \in Nat /\ Made(id, b) \in Nat
         /\ Made(id, a \o b) = Made(id, a) + Made(id, b)
<1> DEFINE w == [tx \in TX |-> IF tx.id = id THEN 1 ELSE 0]
<1>1. w \in [TX -> {0, 1}] /\ w \in [TX -> Int]
  OBVIOUS
<1>2. \A s \in Seq(TX) : {k \in DOMAIN s : w[s[k]] = 1} = {k \in DOMAIN s : s[k].id = id}
  OBVIOUS
<1>3. a \o b \in Seq(TX)
  OBVIOUS
<1> HIDE DEF w
<1>4. \A s \in Seq(TX) : Weigh(w, s) = Made(id, s) /\ Weigh(w, s) \in Nat
  <2> SUFFICES ASSUME NEW s \in Seq(TX)
               PROVE  Weigh(w, s) = Made(id, s) /\ Weigh(w, s) \in Nat
    OBVIOUS
  <2>1. /\ Weigh(w, s) = Cardinality({k \in DOMAIN s : w[s[k]] = 1})
        /\ Weigh(w, s) \in Nat
    BY <1>1, WeighOnes
  <2> QED
    BY <1>2, <2>1 DEF Made
<1>5. Weigh(w, a \o b) = Weigh(w, a) + Weigh(w, b)
  BY <1>1, WeighConcat
<1> QED
  BY <1>3, <1>4, <1>5

\* Inputs of pairwise different transactions take an output once or never.
LEMMA SpentByBlock ==
  ASSUME NEW ins, \A i, j \in DOMAIN ins : ins[i].txid = ins[j].txid => i = j, NEW id, NEW v
  PROVE  Spent(id, v, ins) =
           IF \E k \in DOMAIN ins : ins[k].txid = id /\ ins[k].vout = v THEN 1 ELSE 0
<1> DEFINE S == {k \in DOMAIN ins : ins[k].txid = id /\ ins[k].vout = v}
<1>1. CASE S = {}
  BY <1>1, FS_EmptySet DEF Spent
<1>2. ASSUME NEW k \in S PROVE Spent(id, v, ins) = 1
  <2>1. S = {k}
    OBVIOUS
  <2> QED
    BY <2>1, FS_Singleton DEF Spent
<1> QED
  BY <1>1, <1>2

LEMMA MadeByBlock ==
  ASSUME NEW c, NEW t, c.id # t.id, NEW id
  PROVE  Made(id, <<c, t>>) = IF id \in {c.id, t.id} THEN 1 ELSE 0
<1> DEFINE txs == <<c, t>>
           S == {k \in DOMAIN txs : txs[k].id = id}
<1>1. DOMAIN txs = {1, 2} /\ txs[1] = c /\ txs[2] = t
  OBVIOUS
<1> HIDE DEF txs
<1>2. S = (IF id = c.id THEN {1} ELSE IF id = t.id THEN {2} ELSE {})
  BY <1>1
<1> HIDE DEF S
<1>3. Cardinality(S) = IF id \in {c.id, t.id} THEN 1 ELSE 0
  BY <1>2, FS_EmptySet, FS_Singleton
<1> QED
  BY <1>3 DEF Made, S, txs

\* No output is spent more often than it was made, and an entry that is still
\* whole makes good for one more.
Balanced(txs, u) ==
  \A id, v : Spent(id, v, InputsOf(txs)) + (IF id \in DOMAIN u /\ u[id] = id.vout THEN 1 ELSE 0)
               <= Made(id, txs)

\* A block that takes whole entries and makes fresh ones keeps the balance.
LEMMA BlockBalances ==
  ASSUME NEW O, NEW u, IsChainstate(u, O), NEW TX, NEW txs \in Seq(TX), Balanced(txs, u),
         NEW I, NEW c \in TX, NEW t \in TX, NEW more \in Seq(TX), more = <<c, t>> \o txs,
         t.vin \in Seq(I), InputsOf(txs) \in Seq(I), InputsOf(more) = t.vin \o InputsOf(txs),
         Takes(u, t.vin), \A k \in DOMAIN t.vin : u[t.vin[k].txid] = t.vin[k].txid.vout,
         c.id # t.id, NEW X, X = PositionsOf(t.vin)
  PROVE  Balanced(more, AddBlock(TakeOut(u, X), c, t))
<1> DEFINE new == AddBlock(TakeOut(u, X), c, t)
           vin == t.vin
           Whole(w, id) == IF id \in DOMAIN w /\ w[id] = id.vout THEN 1 ELSE 0
<1> SUFFICES ASSUME NEW id, NEW v
             PROVE  Spent(id, v, InputsOf(more)) + Whole(new, id) <= Made(id, more)
  BY DEF Balanced
<1> DEFINE s == Spent(id, v, InputsOf(txs))
           n == Spent(id, v, vin)
           m == Made(id, txs)
           b == Made(id, <<c, t>>)
<1>1. s \in Nat /\ n \in Nat /\ Spent(id, v, InputsOf(more)) = n + s
  <2> DEFINE old == InputsOf(txs)
  <2>1. old \in Seq(I) /\ vin \in Seq(I) /\ InputsOf(more) = vin \o old
    OBVIOUS
  <2> HIDE DEF old, vin
  <2>2. /\ Spent(id, v, vin) \in Nat /\ Spent(id, v, old) \in Nat
        /\ Spent(id, v, vin \o old) = Spent(id, v, vin) + Spent(id, v, old)
    BY <2>1, SpentConcat
  <2> QED
    BY <2>1, <2>2 DEF old
<1>2. m \in Nat /\ Made(id, more) = b + m
  <2>1. <<c, t>> \in Seq(TX)
    OBVIOUS
  <2> QED
    BY <2>1, MadeConcat
<1>3. b = IF id \in {c.id, t.id} THEN 1 ELSE 0
  BY MadeByBlock
<1>4. n = IF \E k \in DOMAIN vin : vin[k].txid = id /\ vin[k].vout = v THEN 1 ELSE 0
  BY SpentByBlock DEF Takes
<1>5. s + Whole(u, id) <= m
  BY DEF Balanced
<1>6. n = 1 => Whole(u, id) = 1
  BY <1>4 DEF Takes
<1>7. Whole(u, id) \in {0, 1} /\ Whole(new, id) \in {0, 1}
  OBVIOUS
<1>8. id \notin {c.id, t.id} => n + Whole(new, id) <= Whole(u, id)
  <2> SUFFICES ASSUME id \notin {c.id, t.id} PROVE n + Whole(new, id) <= Whole(u, id)
    OBVIOUS
  <2>1. CASE Whole(new, id) = 0
    BY <1>4, <1>6, <1>7, <2>1
  <2>2. CASE Whole(new, id) = 1
    <3> DEFINE outs == u[id]
    <3>1. id \in DOMAIN TakeOut(u, X) /\ TakeOut(u, X)[id] = id.vout
      BY <2>2 DEF AddBlock, Put
    <3>2. id \in DOMAIN u /\ Unspent(id, outs, X) = id.vout
      BY <3>1, TakeOutFacts
    <3>3. outs \in Seq(O)
      BY <3>2 DEF IsChainstate
    <3>4. (\E i \in DOMAIN outs : <<id, i>> \in X) => outs = id.vout
      BY DEF PositionsOf, ToSet
    <3> HIDE DEF outs
    <3>5. /\ (\A i \in DOMAIN outs : <<id, i>> \notin X) => Unspent(id, outs, X) = outs
          /\ (\E i \in DOMAIN outs : <<id, i>> \in X) => Unspent(id, outs, X) # outs
      BY <3>3, UnspentFacts
    <3>6. \A i \in DOMAIN outs : <<id, i>> \notin X
      BY <3>2, <3>4, <3>5
    <3>7. outs = id.vout
      BY <3>2, <3>5, <3>6
    <3>8. n = 0
      <4> SUFFICES ASSUME NEW k \in DOMAIN vin, vin[k].txid = id, vin[k].vout = v PROVE FALSE
        BY <1>4
      <4>1. v \in DOMAIN outs
        BY DEF Takes, outs
      <4>2. <<id, v>> \in X
        BY DEF PositionsOf, ToSet
      <4> QED
        BY <3>6, <4>1, <4>2
    <3> QED
      BY <2>2, <3>2, <3>7, <3>8 DEF outs
  <2> QED
    BY <1>7, <2>1, <2>2
<1>9. n \in {0, 1}
  BY <1>4
<1> DEFINE before == Whole(u, id)
           after == Whole(new, id)
<1>12. n + s + after <= b + m
  <2>1. /\ s + before <= m
        /\ n = 1 => before = 1
        /\ before \in {0, 1} /\ after \in {0, 1}
    BY <1>5, <1>6, <1>7
  <2>2. IF id \in {c.id, t.id} THEN b = 1 ELSE b = 0 /\ n + after <= before
    BY <1>3, <1>8
  <2>3. s \in Nat /\ m \in Nat /\ n \in {0, 1}
    BY <1>1, <1>2, <1>9
  <2> HIDE DEF s, n, m, b, before, after
  <2>4. CASE b = 1
    <3>1. s + before <= m /\ after <= 1 /\ n <= before
      BY <2>1, <2>3
    <3> QED
      BY <2>1, <2>3, <2>4, <3>1
  <2>5. CASE b = 0 /\ n + after <= before
    BY <2>1, <2>3, <2>5
  <2> QED
    BY <2>2, <2>4, <2>5
<1> QED
  BY <1>1, <1>2, <1>12

-----------------------------------------------------------------------------
(* A chain with a payment on top *)

\* What every transaction on a chain of such blocks looks like.
TxShape(A, tx) ==
  /\ tx.vin \in Seq(ToSet(tx.vin))
  /\ tx.vout \in Seq(Coins(A))
  /\ tx.vout # <<>>
  /\ tx.vout = tx.id.vout
  /\ tx.id # NoTx

Shaped(A, TX) == \A tx \in TX : TxShape(A, tx)

LEMMA RewardShape ==
  ASSUME NEW A, NEW to \in A
  PROVE  TxShape(A, NewCoinbaseTX(to))
BY RewardFacts DEF TxShape

LEMMA PaymentShape ==
  ASSUME NEW A, NEW cs, NEW from \in A, NEW to \in A, NEW amount \in Nat, NEW tx,
         IsPayment(A, cs, tx, from, to, amount)
  PROVE  TxShape(A, tx)
<1> DEFINE balance == Named(ValueOf(A), cs, tx.vin)
           outs == tx.vout
           O == Coins(A)
<1>1. outs = PaymentOutputs(from, to, amount, balance) /\ balance \in Int /\ balance >= amount
  BY DEF IsPayment
<1> HIDE DEF balance, outs, O
<1>2. outs \in Seq(O) /\ outs # <<>>
  BY <1>1, PaymentOutputsFacts DEF O
<1> QED
  BY <1>2 DEF TxShape, IsPayment, outs, O

\* The inputs of all transactions in TX.
AllInputs(TX) == UNION {ToSet(tx.vin) : tx \in TX}

LEMMA AllInputsType ==
  ASSUME NEW A, NEW TX, Shaped(A, TX)
  PROVE  \A tx \in TX : tx.vin \in Seq(AllInputs(TX))
<1> SUFFICES ASSUME NEW tx \in TX PROVE tx.vin \in Seq(AllInputs(TX))
  OBVIOUS
<1> DEFINE vin == tx.vin
           S == ToSet(vin)
           I == AllInputs(TX)
<1>1. vin \in Seq(S)
  BY DEF Shaped, TxShape
<1>2. S \subseteq I
  BY DEF AllInputs
<1> HIDE DEF vin, S, I
<1>3. vin \in Seq(I)
  BY <1>1, <1>2
<1> QED
  BY <1>3 DEF vin, I

\* Every input names an output of its transaction that its signer owned.
OwnSpending(txs) ==
  \A in \in ToSet(InputsOf(txs)) :
    in.vout \in DOMAIN in.txid.vout /\ in.txid.vout[in.vout].owner = in.pubKey

LEMMA OwnSpendingGrows ==
  ASSUME NEW A, NEW cs, NEW tx, NEW from, NEW to, NEW amount,
         IsPayment(A, cs, tx, from, to, amount),
         \A k \in DOMAIN tx.vin : cs[tx.vin[k].txid] = tx.vin[k].txid.vout,
         NEW I, NEW txs, OwnSpending(txs), tx.vin \in Seq(I), InputsOf(txs) \in Seq(I),
         NEW more, InputsOf(more) = tx.vin \o InputsOf(txs)
  PROVE  OwnSpending(more)
<1> DEFINE vin == tx.vin
           old == InputsOf(txs)
           Own(in) == in.vout \in DOMAIN in.txid.vout /\ in.txid.vout[in.vout].owner = in.pubKey
<1>1. \A k \in DOMAIN vin : Own(vin[k])
  BY DEF IsPayment
<1>2. \A in \in ToSet(old) : Own(in)
  BY DEF OwnSpending
<1>3. vin \in Seq(I) /\ old \in Seq(I) /\ InputsOf(more) = vin \o old
  OBVIOUS
<1> HIDE DEF vin, old, Own
<1>4. ToSet(vin \o old) \subseteq {vin[k] : k \in DOMAIN vin} \cup ToSet(old)
  BY <1>3 DEF ToSet
<1>5. \A in \in ToSet(vin \o old) : Own(in)
  BY <1>1, <1>2, <1>4
<1> QED
  BY <1>3, <1>5 DEF OwnSpending, Own

\* The inputs of a chain with the block on top.
LEMMA InputsOfPaidChain ==
  ASSUME NEW A, NEW TX, Shaped(A, TX), NEW txs \in Seq(TX),
         NEW c \in TX, NEW t \in TX, IsCoinbase(c), ~IsCoinbase(t),
         NEW more, Stacks(more, c, t, txs)
  PROVE  /\ more \in Seq(TX)
         /\ OnTop(more, c, t, txs)
         /\ t.vin \in Seq(AllInputs(TX)) /\ InputsOf(txs) \in Seq(AllInputs(TX))
         /\ InputsOf(more) = t.vin \o InputsOf(txs)
<1> USE DEF Shaped, OnTop, Stacks
<1> DEFINE I == AllInputs(TX)
           some == <<t>> \o txs
           all == <<c>> \o some
<1>1. \A tx \in TX : tx.vin \in Seq(I)
  BY AllInputsType
<1>2. some \in Seq(TX) /\ more \in Seq(TX) /\ more = all
      /\ Len(more) = Len(txs) + 2 /\ more[1] = c /\ more[2] = t
  <2>1. some \in Seq(TX) /\ more \in Seq(TX) /\ all \in Seq(TX)
    OBVIOUS
  <2>2. Len(more) = Len(txs) + 2 /\ more[1] = c /\ more[2] = t
    OBVIOUS
  <2>3. Len(some) = Len(txs) + 1 /\ Len(all) = Len(txs) + 2
    OBVIOUS
  <2>4. \A n \in 1..(Len(txs) + 2) : more[n] = all[n]
    <3> SUFFICES ASSUME NEW n \in 1..(Len(txs) + 2) PROVE more[n] = all[n]
      OBVIOUS
    <3>1. more[n] = IF n = 1 THEN c ELSE IF n = 2 THEN t ELSE txs[n - 2]
      OBVIOUS
    <3>2. some[1] = t /\ \A m \in 2..(Len(txs) + 1) : some[m] = txs[m - 1]
      OBVIOUS
    <3>3. all[n] = IF n = 1 THEN c ELSE some[n - 1]
      OBVIOUS
    <3> HIDE DEF some, all
    <3>4. CASE n = 1 \/ n = 2
      BY <3>1, <3>2, <3>3, <3>4
    <3>5. CASE n \in 3..(Len(txs) + 2)
      <4>1. n - 1 \in 2..(Len(txs) + 1) /\ (n - 1) - 1 = n - 2 /\ n # 1 /\ n # 2
        BY <3>5
      <4>2. some[n - 1] = txs[(n - 1) - 1]
        BY <3>2, <4>1
      <4> QED
        BY <3>1, <3>3, <4>1, <4>2
    <3> QED
      BY <3>4, <3>5
  <2> HIDE DEF some, all
  <2>5. more = all
    <3> DEFINE L == Len(txs) + 2
    <3>1. DOMAIN more = 1..L /\ DOMAIN all = 1..L
      BY <2>1, <2>2, <2>3
    <3>2. \A s \in Seq(TX) : Len(s) = L => s = [n \in 1..L |-> s[n]]
      OBVIOUS
    <3>3. more = [n \in 1..L |-> more[n]] /\ all = [n \in 1..L |-> all[n]]
      <4> HIDE DEF L
      <4> QED
        BY <2>1, <2>2, <2>3, <3>2 DEF L
    <3> HIDE DEF L
    <3>4. [n \in 1..L |-> more[n]] = [n \in 1..L |-> all[n]]
      BY <2>4 DEF L
    <3> QED
      BY <3>3, <3>4, Zenon
  <2> QED
    BY <2>1, <2>2, <2>5
<1>3. \A n \in 1..Len(txs) : more[n + 2] = txs[n]
  OBVIOUS
<1> HIDE DEF I
<1>4. InputsOf(txs) \in Seq(I)
  BY <1>1, InputsType
<1>5. InputsOf(some) = t.vin \o InputsOf(txs)
  <2>1. InputsOf(some) = (IF IsCoinbase(t) THEN <<>> ELSE t.vin) \o InputsOf(txs)
    BY <1>1, InputsGrow
  <2> QED
    BY <2>1
<1> HIDE DEF some
<1>6. InputsOf(all) = (IF IsCoinbase(c) THEN <<>> ELSE c.vin) \o InputsOf(some)
  BY <1>1, <1>2, InputsGrow
<1>7. InputsOf(some) \in Seq(I)
  BY <1>1, <1>2, InputsType
<1>8. <<>> \o InputsOf(some) = InputsOf(some)
  BY <1>7, ConcatEmptySeq
<1>9. t.vin \in Seq(I)
  BY <1>1
<1>10. InputsOf(more) = t.vin \o InputsOf(txs)
  BY <1>2, <1>5, <1>6, <1>8
<1> QED
  BY <1>2, <1>3, <1>4, <1>9, <1>10 DEF I

\* No transaction, no input.
LEMMA NoInputs == InputsOf(<<>>) = <<>>
<1> DEFINE ss == InputLs(<<>>)
<1>1. <<>> \in Seq({}) /\ \A tx \in {} : tx.vin \in Seq({})
  OBVIOUS
<1>2. ss \in Seq(Seq({})) /\ DOMAIN ss = {}
  BY <1>1, InputsType DEF InputLs
<1>3. Len(ss) = 0
  <2> HIDE DEF ss
  <2> QED
    BY <1>2
<1> HIDE DEF ss
<1>4. FlattenSeq(ss) = <<>>
  BY <1>2, <1>3, FlatDef
<1> QED
  BY <1>4, InputsDef DEF ss

\* A reward takes nothing.
LEMMA NoInputsOfReward ==
  ASSUME NEW A, NEW to \in A, NEW txs, txs = <<NewCoinbaseTX(to)>>
  PROVE  InputsOf(txs) = <<>>
<1> DEFINE c == NewCoinbaseTX(to)
           TX == {c}
           I == ToSet(c.vin)
<1>1. c.vin \in Seq(I) /\ IsCoinbase(c)
  BY RewardFacts
<1>2. txs = <<c>>
  OBVIOUS
<1> HIDE DEF c
<1>3. <<>> \in Seq(TX) /\ c \in TX /\ \A tx \in TX : tx.vin \in Seq(I)
  BY <1>1
<1>4. <<c>> \o <<>> = <<c>>
  OBVIOUS
<1> HIDE DEF TX, I
<1>5. InputsOf(<<c>> \o <<>>) = (IF IsCoinbase(c) THEN <<>> ELSE c.vin) \o InputsOf(<<>>)
  BY <1>3, InputsGrow
<1> QED
  BY <1>1, <1>2, <1>4, <1>5, NoInputs

\* Nothing is spent on an empty chain,
LEMMA NothingBalances == Balanced(<<>>, <<>>) /\ OwnSpending(<<>>)
<1>1. OwnSpending(<<>>)
  BY NoInputs DEF OwnSpending, ToSet
<1>2. ASSUME NEW id, NEW v PROVE Spent(id, v, <<>>) = 0 /\ Made(id, <<>>) = 0
  <2> DEFINE none == <<>>
  <2>1. DOMAIN none = {}
    OBVIOUS
  <2> HIDE DEF none
  <2>2. {k \in DOMAIN none : none[k].txid = id /\ none[k].vout = v} = {}
        /\ {k \in DOMAIN none : none[k].id = id} = {}
    BY <2>1
  <2>3. Spent(id, v, none) = 0 /\ Made(id, none) = 0
    BY <2>2, FS_EmptySet DEF Spent, Made
  <2> QED
    BY <2>3 DEF none
<1>3. \A id : id \notin DOMAIN <<>>
  OBVIOUS
<1> QED
  BY <1>1, <1>2, <1>3, NoInputs DEF Balanced

\* nor on a chain of one block.
LEMMA GenesisBalances ==
  ASSUME NEW A, NEW to \in A, NEW txs, txs = <<NewCoinbaseTX(to)>>,
         NEW u, u = Collected(txs)[Len(txs)].utxo
  PROVE  Balanced(txs, u) /\ OwnSpending(txs)
<1> DEFINE c == NewCoinbaseTX(to)
           TX == {c}
           I == ToSet(c.vin)
           K == {c.id}
<1>1. /\ c.vin \in Seq(I) /\ IsCoinbase(c) /\ txs \in Seq(TX) /\ Len(txs) = 1 /\ txs[1] = c
      /\ txs = <<c>>
  <2>1. c.vin \in Seq(I) /\ IsCoinbase(c)
    BY RewardFacts
  <2> HIDE DEF c
  <2>2. txs = <<c>>
    BY DEF c
  <2> QED
    BY <2>1, <2>2
<1> HIDE DEF c
<1>2. InputsOf(txs) = <<>>
  BY NoInputsOfReward DEF c
<1>3. OwnSpending(txs)
  BY <1>2 DEF OwnSpending, ToSet
<1>4. DOMAIN u \subseteq K
  <2>1. \A tx \in TX : tx.id \in K
    OBVIOUS
  <2>2. Len(txs) \in 0..Len(txs)
    BY <1>1
  <2> HIDE DEF TX, K
  <2> QED
    BY <1>1, <2>1, <2>2, CollectedIds
<1>5. ASSUME NEW id, NEW v
      PROVE  Spent(id, v, InputsOf(txs)) + (IF id \in DOMAIN u /\ u[id] = id.vout THEN 1 ELSE 0)
               <= Made(id, txs)
  <2>1. Spent(id, v, InputsOf(txs)) = 0
    <3>1. {k \in DOMAIN InputsOf(txs) :
             InputsOf(txs)[k].txid = id /\ InputsOf(txs)[k].vout = v} = {}
      BY <1>2
    <3> QED
      BY <3>1, FS_EmptySet DEF Spent
  <2>2. Made(id, txs) = IF id = c.id THEN 1 ELSE 0
    <3>1. {k \in DOMAIN txs : txs[k].id = id} = IF id = c.id THEN {1} ELSE {}
      BY <1>1
    <3>2. Cardinality({}) = 0 /\ Cardinality({1}) = 1
      BY FS_EmptySet, FS_Singleton
    <3> QED
      BY <3>1, <3>2 DEF Made
  <2> QED
    BY <1>4, <2>1, <2>2
<1> QED
  BY <1>3, <1>5 DEF Balanced

\* Update of the genesis block stores its reward in the empty bucket.
LEMMA GenesisUpdate ==
  ASSUME NEW A, NEW to \in A, NEW txs, txs = <<NewCoinbaseTX(to)>>
  PROVE  /\ CanUpdate(<<>>, txs)
         /\ UpdateUTXO(<<>>, txs) = Put(<<>>, NewCoinbaseTX(to).id, NewCoinbaseTX(to).vout)
<1> DEFINE c == NewCoinbaseTX(to)
           e == <<>>
           Step(g, n) == IF n = 0 THEN e ELSE Put(g[n - 1], txs[n].id, txs[n].vout)
           g0 == [n \in 0..1 |-> IF n = 0 THEN e ELSE Put(e, c.id, c.vout)]
           f == CHOOSE g : g = [n \in 0..Len(txs) |-> Step(g, n)]
<1>1. IsCoinbase(c)
  BY RewardFacts
<1>2. InputsOf(txs) = <<>>
  BY NoInputsOfReward
<1> HIDE DEF c
<1>3. txs = <<c>>
  BY DEF c
<1>4. Len(txs) = 1 /\ txs[1] = c /\ ToSet(txs) = {c}
  BY <1>3 DEF ToSet
<1>5. CanUpdate(e, txs)
  BY <1>1, <1>4 DEF CanUpdate
<1>6. SpendInputs(e, txs) = e
  <2> DEFINE X == {id \in {in.txid : in \in ToSet(InputsOf(txs))} : PendingUpdate(e, txs, id) = <<>>}
  <2>1. DOMAIN e = {}
    OBVIOUS
  <2> HIDE DEF e
  <2>2. DOMAIN SpendInputs(e, txs) = DOMAIN e \ X
    BY Zenon DEF SpendInputs
  <2>3. SpendInputs(e, txs) = [id \in DOMAIN SpendInputs(e, txs) |-> SpendInputs(e, txs)[id]]
    BY Zenon DEF SpendInputs
  <2> HIDE DEF X
  <2>4. DOMAIN SpendInputs(e, txs) = {}
    BY <2>1, <2>2
  <2> QED
    BY <2>3, <2>4 DEF e
<1>7. AddOutputs(e, txs) = f[Len(txs)]
  BY DEF AddOutputs
<1>8. \E g : g = [n \in 0..Len(txs) |-> Step(g, n)]
  <2>1. g0[0] = e /\ g0[1] = Put(e, c.id, c.vout)
    OBVIOUS
  <2> HIDE DEF e
  <2>2. \A n \in 0..1 : g0[n] = Step(g0, n)
    <3> SUFFICES ASSUME NEW n \in 0..1 PROVE g0[n] = Step(g0, n)
      OBVIOUS
    <3>1. n = 0 \/ n = 1
      OBVIOUS
    <3> HIDE DEF g0
    <3> QED
      BY <1>4, <2>1, <3>1
  <2>3. g0 = [n \in 0..1 |-> g0[n]]
    OBVIOUS
  <2> HIDE DEF g0, Step
  <2>4. g0 = [n \in 0..1 |-> Step(g0, n)]
    BY <2>2, <2>3
  <2> QED
    BY <1>4, <2>4
<1>9. f = [n \in 0..Len(txs) |-> Step(f, n)]
  <2> HIDE DEF Step
  <2> QED
    BY <1>8, Zenon
<1> HIDE DEF f
<1>10. f[0] = Step(f, 0) /\ f[1] = Step(f, 1)
  <2> HIDE DEF Step
  <2> QED
    BY <1>4, <1>9
<1>11. f[1] = Put(e, c.id, c.vout)
  <2> HIDE DEF e
  <2> QED
    BY <1>4, <1>10
<1> QED
  BY <1>4, <1>5, <1>6, <1>7, <1>11 DEF UpdateUTXO, c, e

-----------------------------------------------------------------------------
(* A safe block on top of the chain *)

IsReward(c, to) == c = NewCoinbaseTX(to)

\* What Update does with a block that takes no transaction's outputs twice and
\* makes fresh ids.
LEMMA SafeBlock ==
  ASSUME NEW A, NEW cs, IsChainstate(cs, Coins(A)), NoTx \notin DOMAIN cs,
         NEW from \in A, NEW to, NEW amount,
         NEW tx, IsPayment(A, cs, tx, from, to, amount),
         NEW c, IsReward(c, from),
         SpendsEachOnce(<<c, tx>>), CreatesFreshIds(cs, <<c, tx>>)
  PROVE  /\ InputsOf(<<c, tx>>) = tx.vin
         /\ Spends(tx) = PositionsOf(tx.vin)
         /\ OneEach(tx.vin)
         /\ Takes(cs, tx.vin)
         /\ UpdateUTXO(cs, <<c, tx>>) = AddBlock(TakeOut(cs, Spends(tx)), c, tx)
         /\ Fresh(TakeOut(cs, Spends(tx)), c, tx)
<1> DEFINE X == Spends(tx)
<1>1. InputsOf(<<c, tx>>) = tx.vin /\ X = PositionsOf(tx.vin)
  BY PaymentBlock DEF IsReward
<1>2. \A i, j \in DOMAIN tx.vin : tx.vin[i].txid = tx.vin[j].txid => i = j
  BY <1>1, Zenon DEF SpendsEachOnce
<1>3. /\ Takes(cs, tx.vin)
      /\ SpendInputs(cs, <<c, tx>>) = TakeOut(cs, X)
      /\ UpdateUTXO(cs, <<c, tx>>) = AddBlock(TakeOut(cs, X), c, tx)
  BY <1>2, PaymentBlock DEF IsReward
<1>4. Fresh(TakeOut(cs, X), c, tx)
  <2> DEFINE two == <<c, tx>>
  <2>1. DOMAIN two = {1, 2} /\ two[1] = c /\ two[2] = tx
    OBVIOUS
  <2>2. /\ \A i \in DOMAIN two : two[i].id \notin DOMAIN TakeOut(cs, X)
        /\ \A i, j \in DOMAIN two : two[i].id = two[j].id => i = j
    BY <1>3 DEF CreatesFreshIds
  <2> HIDE DEF two
  <2> QED
    BY <2>1, <2>2 DEF Fresh
<1> QED
  BY <1>1, <1>2, <1>3, <1>4 DEF OneEach

\* The walk of the chain with the block that send mined follows UTXOSet.Update,
\* and what held of the chain below holds of it.
LEMMA PaymentOnTop ==
  ASSUME NEW A, NEW TX, Shaped(A, TX), NEW txs \in Seq(TX), MadeOnce(txs),
         NEW cs, cs = Collected(txs)[Len(txs)].utxo,
         NEW from \in A, NEW to \in A, NEW amount \in Nat,
         NEW tx \in TX, IsPayment(A, cs, tx, from, to, amount),
         NEW c \in TX, IsReward(c, from), SafeToApply(cs, <<c, tx>>),
         NEW more, Stacks(more, c, tx, txs)
  PROVE  /\ more \in Seq(TX)
         /\ MadeOnce(more)
         /\ Collected(more)[Len(more)].utxo = UpdateUTXO(cs, <<c, tx>>)
         /\ Total(UpdateUTXO(cs, <<c, tx>>)) = Total(cs) + Subsidy
         /\ Balanced(txs, cs) => Balanced(more, UpdateUTXO(cs, <<c, tx>>))
         /\ OwnSpending(txs) => OwnSpending(more)
<1> DEFINE O == Coins(A)
           I == AllInputs(TX)
           X == Spends(tx)
           K == {t.id : t \in TX}
<1>1. \A t \in TX : t.vout \in Seq(O) /\ t.vout = t.id.vout /\ t.vout # <<>> /\ t.id # NoTx
  BY DEF Shaped, TxShape
<1>2. IsChainstate(cs, O) /\ NoTx \notin DOMAIN cs
  <2>1. \A t \in TX : t.vout \in Seq(O)
    BY <1>1
  <2>2. \A t \in TX : t.id \in K
    OBVIOUS
  <2>3. NoTx \notin K
    BY <1>1
  <2>4. Len(txs) \in 0..Len(txs)
    OBVIOUS
  <2> HIDE DEF O, K
  <2>5. \A n \in 0..Len(txs) : IsChainstate(Collected(txs)[n].utxo, O)
    BY <2>1, CollectedType
  <2>6. \A n \in 0..Len(txs) : DOMAIN Collected(txs)[n].utxo \subseteq K
    BY <2>2, CollectedIds
  <2> QED
    BY <2>3, <2>4, <2>5, <2>6
<1>3. SpendsEachOnce(<<c, tx>>) /\ CreatesFreshIds(cs, <<c, tx>>)
  BY DEF SafeToApply
<1>4. InputsOf(<<c, tx>>) = tx.vin /\ X = PositionsOf(tx.vin) /\ OneEach(tx.vin)
  BY <1>2, <1>3, SafeBlock, SMTT(60)
<1>5. Takes(cs, tx.vin) /\ UpdateUTXO(cs, <<c, tx>>) = AddBlock(TakeOut(cs, X), c, tx)
  BY <1>2, <1>3, SafeBlock, SMTT(60)
<1>6. Fresh(TakeOut(cs, X), c, tx)
  BY <1>2, <1>3, SafeBlock, SMTT(60)
<1>7. \A k \in DOMAIN tx.vin : cs[tx.vin[k].txid] = tx.vin[k].txid.vout
  BY <1>4 DEF SafeToApply, SpendsWholeEntries, ToSet
<1>8. FromWhole(cs, X)
  <2> SUFFICES ASSUME NEW id \in DOMAIN cs, NEW i, <<id, i>> \in X PROVE cs[id] = id.vout
    BY DEF FromWhole
  <2>1. PICK k \in DOMAIN tx.vin : <<id, i>> = <<tx.vin[k].txid, tx.vin[k].vout>>
    BY <1>4 DEF PositionsOf, ToSet
  <2> QED
    BY <1>7, <2>1
<1>9. IsCoinbase(c) /\ ~IsCoinbase(tx)
  <2>1. IsCoinbase(c)
    BY DEF IsReward, IsCoinbase, NewCoinbaseTX, NewTransaction
  <2> QED
    BY <1>2, <2>1, PaymentSpends
<1>10. /\ more \in Seq(TX) /\ OnTop(more, c, tx, txs)
       /\ tx.vin \in Seq(I) /\ InputsOf(txs) \in Seq(I)
       /\ InputsOf(more) = tx.vin \o InputsOf(txs)
  <2>1. IsCoinbase(c)
    BY <1>9
  <2>2. ~IsCoinbase(tx)
    BY <1>9
  <2> QED
    BY <2>1, <2>2, InputsOfPaidChain, SMTT(60)
<1> HIDE DEF O, I, X, K
<1>11. MadeOnce(more) /\ Collected(more)[Len(more)].utxo = UpdateUTXO(cs, <<c, tx>>)
  <2>1. Covered(TX, O)
    BY <1>1 DEF Covered
  <2>2. c.vout # <<>>
    BY <1>1
  <2>3. tx.vout # <<>>
    BY <1>1
  <2>4. X = Spends(tx)
    BY DEF X
  <2>5. IsCoinbase(c)
    BY <1>9
  <2>6. more \in Seq(TX)
    BY <1>10
  <2>7. OnTop(more, c, tx, txs)
    BY <1>10
  <2>8. MadeOnce(more) /\ Collected(more)[Len(more)].utxo = AddBlock(TakeOut(cs, X), c, tx)
    BY <2>1, <2>2, <2>3, <2>4, <2>5, <2>6, <2>7, <1>6, <1>8, WalkOfBlock, SMTT(60)
  <2> QED
    BY <1>5, <2>8
<1>12. Total(UpdateUTXO(cs, <<c, tx>>)) = Total(cs) + Subsidy
  <2>1. IsChainstate(cs, Coins(A))
    BY <1>2 DEF O
  <2>2. NoTx \notin DOMAIN cs
    BY <1>2
  <2>3. OneEach(tx.vin)
    BY <1>4
  <2>4. Fresh(TakeOut(cs, Spends(tx)), c, tx)
    BY <1>6 DEF X
  <2>5. c = NewCoinbaseTX(from)
    BY DEF IsReward
  <2>6. ASSUME NEW who
        PROVE  /\ Total(UpdateUTXO(cs, <<c, tx>>)) = Total(cs) + Subsidy
               /\ GetBalance(UpdateUTXO(cs, <<c, tx>>), who) =
                    GetBalance(cs, who) + (IF who = to THEN amount ELSE 0)
                                        + (IF who = from THEN Subsidy - amount ELSE 0)
    BY <2>1, <2>2, <2>3, <2>4, <2>5, BlockPays, SMTT(60)
  <2> QED
    BY <2>6
<1>13. ASSUME Balanced(txs, cs) PROVE Balanced(more, UpdateUTXO(cs, <<c, tx>>))
  <2>1. IsChainstate(cs, O)
    BY <1>2
  <2>2. more \in Seq(TX)
    BY <1>10
  <2>3. tx.vin \in Seq(I)
    BY <1>10
  <2>4. InputsOf(txs) \in Seq(I)
    BY <1>10
  <2>5. InputsOf(more) = tx.vin \o InputsOf(txs)
    BY <1>10
  <2>6. Takes(cs, tx.vin)
    BY <1>5
  <2>7. c.id # tx.id
    BY <1>6 DEF Fresh
  <2>8. X = PositionsOf(tx.vin)
    BY <1>4
  <2>9. Balanced(more, AddBlock(TakeOut(cs, X), c, tx))
    BY <2>1, <2>2, <2>3, <2>4, <2>5, <2>6, <2>7, <2>8, <1>7, <1>13, BlockBalances, ZenonT(60) DEF Stacks
  <2> QED
    BY <1>5, <2>9
<1>14. ASSUME OwnSpending(txs) PROVE OwnSpending(more)
  <2>1. tx.vin \in Seq(I)
    BY <1>10
  <2>2. InputsOf(txs) \in Seq(I)
    BY <1>10
  <2>3. InputsOf(more) = tx.vin \o InputsOf(txs)
    BY <1>10
  <2> QED
    BY <2>1, <2>2, <2>3, <1>7, <1>14, OwnSpendingGrows, ZenonT(60)
<1> QED
  BY <1>10, <1>11, <1>12, <1>13, <1>14

\* What holds of the chain below t as long as only safe blocks were mined: the
\* walk makes every entry once, what it collects is worth what was mined, and no
\* input takes what was not made or not owned.
SafeChain(bs, t) ==
  LET txs == TransactionsOf(Branch(bs, t))
      u   == FindUTXO(Branch(bs, t))
  IN  /\ MadeOnce(txs)
      /\ Total(u) = Subsidy * Cardinality(DOMAIN bs)
      /\ Balanced(txs, u)
      /\ OwnSpending(txs)

\* The chain of no block,
LEMMA EmptyIsSafe ==
  ASSUME NEW bs, DOMAIN bs = {}
  PROVE  /\ SafeChain(bs, NoBlock)
         /\ FindUTXO(Branch(bs, NoBlock)) = <<>>
         /\ Total(<<>>) = 0
<1> DEFINE txs == TransactionsOf(Branch(bs, NoBlock))
           u == FindUTXO(Branch(bs, NoBlock))
<1>1. txs = <<>> /\ u = <<>> /\ MadeOnce(<<>>)
  BY EmptyChain
<1>2. Total(<<>>) = 0
  BY EmptyIsChainstate, TotalIsHeld, HeldNone
<1>3. Subsidy * Cardinality(DOMAIN bs) = 0
  BY FS_EmptySet, SubsidyAssumption
<1> HIDE DEF txs, u
<1>4. MadeOnce(txs) /\ Total(u) = 0 /\ Balanced(txs, u) /\ OwnSpending(txs)
  BY <1>1, <1>2, NothingBalances
<1> QED
  BY <1>1, <1>2, <1>3, <1>4 DEF SafeChain, txs, u

\* of the genesis block,
LEMMA GenesisIsSafe ==
  ASSUME NEW A, NEW bs, DOMAIN bs = {}, NEW h, NEW B, FitsOn(bs, NoBlock, h, B),
         NEW to \in A, B.txs = <<NewCoinbaseTX(to)>>
  PROVE  /\ SafeChain(Put(bs, h, B), h)
         /\ FindUTXO(Branch(Put(bs, h, B), h)) = UpdateUTXO(<<>>, B.txs)
<1> DEFINE new == Put(bs, h, B)
           one == B.txs
           TX == {NewCoinbaseTX(to)}
           txs == TransactionsOf(Branch(new, h))
           u == Collected(one)[Len(one)].utxo
<1>1. txs = one
  <2>1. Closed(bs) /\ NoBlock \in DOMAIN bs \cup {NoBlock}
    BY FS_EmptySet DEF Closed
  <2>2. Carries(bs, TX)
    BY DEF Carries
  <2>3. one \in Seq(TX)
    OBVIOUS
  <2> HIDE DEF TX
  <2>4. Lengthens(bs, NoBlock, h, B)
    BY <2>1, <2>2, <2>3, ChainGrows
  <2>5. txs = one \o TransactionsOf(Branch(bs, NoBlock))
    BY <2>4 DEF Lengthens
  <2>6. one \o <<>> = one
    BY <2>3, ConcatEmptySeq
  <2> QED
    BY <2>5, <2>6, EmptyChain
<1>2. MadeOnce(one) /\ Total(u) = Subsidy
  BY GenesisWalk
<1>3. Balanced(one, u) /\ OwnSpending(one)
  BY GenesisBalances
<1>4. Subsidy * Cardinality(DOMAIN new) = Subsidy
  <2>1. DOMAIN new = DOMAIN bs \cup {h}
    BY PutFacts
  <2>2. DOMAIN new = {h} /\ Cardinality({h}) = 1
    BY <2>1, FS_Singleton, Zenon
  <2> HIDE DEF new
  <2>3. Cardinality(DOMAIN new) = 1
    BY <2>2
  <2> QED
    BY <2>3, SubsidyAssumption
<1>5. FindUTXO(Branch(new, h)) = u
  BY <1>1 DEF FindUTXO
<1>6. u = UpdateUTXO(<<>>, one)
  BY GenesisWalk, GenesisUpdate
<1> HIDE DEF new, one, txs, u
<1> QED
  BY <1>1, <1>2, <1>3, <1>4, <1>5, <1>6 DEF SafeChain, new, txs, one

\* and of a safe block on top of such a chain.  Updating the chainstate agrees
\* with walking the chain again.
LEMMA MinedIsSafe ==
  ASSUME NEW A, NEW bs, Closed(bs), NEW t \in DOMAIN bs \cup {NoBlock}, SafeChain(bs, t),
         NEW TX, Shaped(A, TX), Carries(bs, TX),
         NEW cs, cs = FindUTXO(Branch(bs, t)),
         NEW from \in A, NEW to \in A, NEW amount \in Nat,
         NEW tx \in TX, IsPayment(A, cs, tx, from, to, amount),
         NEW c \in TX, IsReward(c, from), SafeToApply(cs, <<c, tx>>),
         NEW h, NEW B, FitsOn(bs, t, h, B), B.txs = <<c, tx>>
  PROVE  /\ SafeChain(Put(bs, h, B), h)
         /\ FindUTXO(Branch(Put(bs, h, B), h)) = UpdateUTXO(cs, <<c, tx>>)
<1> DEFINE new == Put(bs, h, B)
           two == <<c, tx>>
           txs == TransactionsOf(Branch(bs, t))
           more == TransactionsOf(Branch(new, h))
           cs1 == UpdateUTXO(cs, two)
           n == Cardinality(DOMAIN bs)
<1>1. txs \in Seq(TX) /\ Stacks(more, c, tx, txs)
  <2>1. B.txs \in Seq(TX)
    OBVIOUS
  <2>2. Lengthens(bs, t, h, B)
    BY <2>1, ChainGrows
  <2> QED
    BY <2>2, ChainTransactions DEF Stacks, Lengthens
<1>2. MadeOnce(txs) /\ Total(cs) = Subsidy * n /\ Balanced(txs, cs) /\ OwnSpending(txs)
  BY DEF SafeChain
<1>3. cs = Collected(txs)[Len(txs)].utxo
  BY DEF FindUTXO
<1>4. FindUTXO(Branch(new, h)) = Collected(more)[Len(more)].utxo
  BY DEF FindUTXO
<1> HIDE DEF txs, more, new
<1>5. /\ MadeOnce(more)
      /\ Collected(more)[Len(more)].utxo = cs1
      /\ Total(cs1) = Total(cs) + Subsidy
      /\ Balanced(txs, cs) => Balanced(more, cs1)
      /\ OwnSpending(txs) => OwnSpending(more)
  <2>1. MadeOnce(txs)
    BY <1>2
  <2>2. txs \in Seq(TX)
    BY <1>1
  <2>3. Stacks(more, c, tx, txs)
    BY <1>1
  <2> QED
    BY <2>1, <2>2, <2>3, <1>3, PaymentOnTop, SMTT(60)
<1>6. Subsidy * Cardinality(DOMAIN new) = Subsidy * n + Subsidy
  <2>1. DOMAIN new = DOMAIN bs \cup {h}
    BY PutFacts DEF new
  <2>2. Cardinality(DOMAIN new) = n + 1 /\ n \in Nat
    BY <2>1, FS_AddElement, FS_CardinalityType DEF Closed, FitsOn
  <2> HIDE DEF n
  <2> QED
    BY <2>2, SubsidyAssumption
<1> HIDE DEF cs1, n
<1>7. FindUTXO(Branch(new, h)) = cs1
  BY <1>4, <1>5
<1>8. MadeOnce(more) /\ Total(cs1) = Subsidy * Cardinality(DOMAIN new)
      /\ Balanced(more, cs1) /\ OwnSpending(more)
  BY <1>2, <1>5, <1>6
<1>9. SafeChain(new, h)
  BY <1>7, <1>8 DEF SafeChain, more
<1> QED
  BY <1>7, <1>9 DEF new, cs1

\* Every stored transaction has the shape that the commands give it.
Shapely(A, bs) == \E TX : Shaped(A, TX) /\ Carries(bs, TX)

\* The transactions stored and those of the next block.
LEMMA CommonTransactions ==
  ASSUME NEW A, NEW bs, Shapely(A, bs), NEW c, TxShape(A, c), NEW t, TxShape(A, t)
  PROVE  \E TX : Shaped(A, TX) /\ Carries(bs, TX) /\ c \in TX /\ t \in TX
<1>1. PICK TX : Shaped(A, TX) /\ Carries(bs, TX)
  BY DEF Shapely
<1> DEFINE all == TX \cup {c, t}
<1>2. Shaped(A, all)
  BY <1>1 DEF Shaped
<1>3. Carries(bs, all)
  <2> SUFFICES ASSUME NEW k \in DOMAIN bs PROVE bs[k].txs \in Seq(all)
    BY DEF Carries
  <2> DEFINE txs == bs[k].txs
  <2>1. txs \in Seq(TX)
    BY <1>1 DEF Carries
  <2> HIDE DEF txs
  <2>2. txs \in Seq(all)
    BY <2>1
  <2> QED
    BY <2>2 DEF txs
<1> QED
  BY <1>2, <1>3

LEMMA PutKeepsShape ==
  ASSUME NEW A, NEW bs, NEW TX, Shaped(A, TX), Carries(bs, TX), NEW h, NEW B, B.txs \in Seq(TX)
  PROVE  Shapely(A, Put(bs, h, B))
<1> DEFINE new == Put(bs, h, B)
<1>1. Carries(new, TX)
  <2>1. /\ DOMAIN new = DOMAIN bs \cup {h}
        /\ new[h] = B
        /\ \A k \in DOMAIN bs : k # h => new[k] = bs[k]
    BY DEF Put
  <2> HIDE DEF new
  <2>2. \A k \in DOMAIN new : new[k] = B \/ (k \in DOMAIN bs /\ new[k] = bs[k])
    BY <2>1
  <2> QED
    BY <2>2 DEF Carries
<1> QED
  BY <1>1 DEF Shapely

\* What the walk collects can be stored in the bucket.
LEMMA WalkedBucket ==
  ASSUME NEW A, NEW bs, Closed(bs), Shapely(A, bs), NEW t \in DOMAIN bs \cup {NoBlock}
  PROVE  /\ IsChainstate(FindUTXO(Branch(bs, t)), Coins(A))
         /\ NoTx \notin DOMAIN FindUTXO(Branch(bs, t))
<1> DEFINE txs == TransactionsOf(Branch(bs, t))
           O == Coins(A)
<1>1. PICK TX : Shaped(A, TX) /\ Carries(bs, TX)
  BY DEF Shapely
<1> DEFINE K == {tx.id : tx \in TX}
<1>2. txs \in Seq(TX)
  BY <1>1, ChainTransactions
<1>3. (\A tx \in TX : tx.vout \in Seq(O)) /\ (\A tx \in TX : tx.id \in K) /\ NoTx \notin K
  BY <1>1 DEF Shaped, TxShape
<1> HIDE DEF txs, O, K
<1>4. Len(txs) \in 0..Len(txs)
  BY <1>2
<1>5. IsChainstate(Collected(txs)[Len(txs)].utxo, O)
  BY <1>2, <1>3, <1>4, CollectedType
<1>6. DOMAIN Collected(txs)[Len(txs)].utxo \subseteq K
  BY <1>2, <1>3, <1>4, CollectedIds
<1> QED
  BY <1>3, <1>5, <1>6 DEF FindUTXO, txs, O

\* A collected position is one of the bucket's, so is every input built from it.
LEMMA PaymentApplies ==
  ASSUME NEW cs, NEW from, NEW to, NEW amount,
         NEW tx \in NewUTXOTransaction(cs, from, to, amount)
  PROVE  \A in \in ToSet(tx.vin) : in.txid \in DOMAIN cs /\ in.vout \in DOMAIN cs[in.txid]
<1>1. PICK P \in GetUnSpendableOutputs(cs, from, amount) :
        \E vin \in InputLists(P, from) :
          tx = NewTransaction(vin, PaymentOutputs(from, to, amount, Accumulated(cs, P)))
  BY DEF NewUTXOTransaction
<1>2. PICK vin \in InputLists(P, from) : tx.vin = vin
  BY <1>1 DEF NewTransaction
<1>3. PICK s \in SetToSeqs(P) :
        vin = [k \in DOMAIN s |-> [txid |-> s[k][1], vout |-> s[k][2], pubKey |-> from]]
  BY <1>2 DEF InputLists
<1>4. \A k \in DOMAIN s : s[k] \in P
  BY DEF SetToSeqs
<1>5. P \subseteq OwnedOutputs(cs, from)
  BY <1>1 DEF GetUnSpendableOutputs
<1>6. \A p \in OwnedOutputs(cs, from) : p[1] \in DOMAIN cs /\ p[2] \in DOMAIN cs[p[1]]
  BY DEF OwnedOutputs
<1> QED
  BY <1>2, <1>3, <1>4, <1>5, <1>6 DEF ToSet

\* The reward and a payment from the bucket pass both checks of Update.
LEMMA SendApplies ==
  ASSUME NEW cs, NEW from, NEW to, NEW amount,
         NEW tx \in NewUTXOTransaction(cs, from, to, amount)
  PROVE  CanUpdate(cs, <<NewCoinbaseTX(from), tx>>)
<1>1. IsCoinbase(NewCoinbaseTX(from))
  BY DEF IsCoinbase, NewCoinbaseTX, NewTransaction
<1>2. ToSet(<<NewCoinbaseTX(from), tx>>) = {NewCoinbaseTX(from), tx}
  BY DEF ToSet
<1> QED
  BY <1>1, <1>2, PaymentApplies DEF CanUpdate

-----------------------------------------------------------------------------
(* Counting the outputs of an entry *)

\* A common factor of all summands.
LEMMA SumOfTimes ==
  ASSUME NEW D, IsFiniteSet(D), NEW f \in [D -> Int], NEW n \in Int, NEW g \in [D -> Int],
         \A x \in D : g[x] = n * f[x]
  PROVE  SumOf(g) = n * SumOf(f)
<1> DEFINE F == {S \in SUBSET D : SumOf(Part(g, S)) = n * SumOf(Part(f, S))}
<1>1. \A S \in SUBSET D : (\A y \in S : S \ {y} \in F) => S \in F
  <2> SUFFICES ASSUME NEW S \in SUBSET D, \A y \in S : S \ {y} \in F PROVE S \in F
    OBVIOUS
  <2>1. CASE S = {}
    <3>1. SumOf(Part(f, S)) = 0 /\ SumOf(Part(g, S)) = 0
      BY <2>1, SumOfPart
    <3> QED
      BY <3>1
  <2>2. ASSUME NEW y \in S PROVE S \in F
    <3> DEFINE a == SumOf(Part(f, S))
               b == SumOf(Part(f, S \ {y}))
               v == f[y]
    <3>1. a = b + v /\ SumOf(Part(g, S)) = SumOf(Part(g, S \ {y})) + g[y]
      BY SumOfPart
    <3>2. b \in Int /\ v \in Int
      BY SumOfPart
    <3>3. SumOf(Part(g, S \ {y})) = n * b /\ g[y] = n * v
      OBVIOUS
    <3> HIDE DEF a, b, v
    <3>4. n * a = n * b + n * v
      BY <3>1, <3>2
    <3>5. SumOf(Part(g, S)) = n * a
      BY <3>1, <3>3, <3>4
    <3> QED
      BY <3>5 DEF a
  <2> QED
    BY <2>1, <2>2
<1> HIDE DEF F
<1>2. D \in F
  BY <1>1, RemovalInduction
<1>3. f = Part(f, D) /\ g = Part(g, D)
  BY DEF Part
<1> QED
  BY <1>2, <1>3 DEF F

\* The sum of a function that is 1 at one point and 0 elsewhere.
LEMMA SumOfPoint ==
  ASSUME NEW D, IsFiniteSet(D), NEW y \in D
  PROVE  SumOf([x \in D |-> IF x = y THEN 1 ELSE 0]) = 1
<1> DEFINE f == [x \in D |-> IF x = y THEN 1 ELSE 0]
<1>1. f \in [D -> {0, 1}] /\ {x \in D : f[x] = 1} = {y}
  OBVIOUS
<1> HIDE DEF f
<1>2. SumOf(f) = Cardinality({x \in D : f[x] = 1})
  BY <1>1, SumOfOnes
<1> QED
  BY <1>1, <1>2, FS_Singleton DEF f

\* Every output counts one.
Unit(O) == [x \in O |-> 1]

LEMMA WeighUnit ==
  ASSUME NEW O, NEW s \in Seq(O)
  PROVE  Weigh(Unit(O), s) = Len(s)
<1> DEFINE w == Unit(O)
<1>1. w \in [O -> {0, 1}] /\ {k \in DOMAIN s : w[s[k]] = 1} = 1..Len(s)
  BY DEF Unit
<1> HIDE DEF w
<1>2. Weigh(w, s) = Cardinality({k \in DOMAIN s : w[s[k]] = 1})
  BY <1>1, WeighOnes
<1>3. Cardinality(1..Len(s)) = Len(s)
  <2> DEFINE n == Len(s)
  <2>1. n \in Nat
    OBVIOUS
  <2> HIDE DEF n
  <2>2. Cardinality(1..n) = n
    BY <2>1, FS_Interval
  <2> QED
    BY <2>2 DEF n
<1> QED
  BY <1>1, <1>2, <1>3 DEF w

LEMMA LenKeepOthers ==
  ASSUME NEW O, NEW s \in Seq(O), NEW v \in DOMAIN s
  PROVE  Len(KeepAt(s, DOMAIN s \ {v})) = Len(s) - 1
<1> DEFINE w == Unit(O)
           t == KeepAt(s, DOMAIN s \ {v})
<1>1. w \in [O -> Int] /\ w[s[v]] = 1
  BY DEF Unit
<1>2. t \in Seq(O)
  BY KeepAtFacts
<1> HIDE DEF t, w
<1>3. Weigh(w, t) = Weigh(w, s) - w[s[v]]
  BY <1>1, WeighKeepOthers DEF t
<1>4. Weigh(w, t) = Len(t) /\ Weigh(w, s) = Len(s)
  BY <1>2, WeighUnit DEF w
<1> QED
  BY <1>1, <1>3, <1>4 DEF t

\* How many outputs are stored under an id.
CountOf(u, id) == IF id \in DOMAIN u THEN Len(u[id]) ELSE 0

LEMMA CountType ==
  ASSUME NEW O, NEW u, IsChainstate(u, O), NEW id
  PROVE  /\ CountOf(u, id) \in Nat
         /\ id \in DOMAIN u <=> CountOf(u, id) >= 1
<1>1. CASE id \in DOMAIN u
  <2> DEFINE s == u[id]
  <2>1. s \in Seq(O) /\ s # <<>> /\ CountOf(u, id) = Len(s)
    BY <1>1 DEF IsChainstate, CountOf
  <2> HIDE DEF s
  <2>2. Len(s) \in Nat /\ Len(s) # 0
    BY <2>1
  <2> QED
    BY <1>1, <2>1, <2>2
<1>2. CASE id \notin DOMAIN u
  BY <1>2 DEF CountOf
<1> QED
  BY <1>1, <1>2

PutCounts(w, u, key, outs, id) ==
  CountOf(w, id) = IF id = key THEN Len(outs) ELSE CountOf(u, id)

LEMMA CountPut ==
  ASSUME NEW u, NEW key, NEW outs, NEW id
  PROVE  PutCounts(Put(u, key, outs), u, key, outs, id)
<1> DEFINE w == Put(u, key, outs)
<1>1. /\ DOMAIN w = DOMAIN u \cup {key}
      /\ w[key] = outs
      /\ \A k \in DOMAIN u : k # key => w[k] = u[k]
  BY DEF Put
<1> HIDE DEF w
<1>2. CountOf(w, id) = IF id = key THEN Len(outs) ELSE CountOf(u, id)
  BY <1>1 DEF CountOf
<1>3. PutCounts(w, u, key, outs, id)
  BY <1>2, Zenon DEF PutCounts
<1> QED
  BY <1>3 DEF w

-----------------------------------------------------------------------------
(* The walk when every transaction has one output *)

Single(TX, O) == \A tx \in TX : tx.vout \in Seq(O) /\ Len(tx.vout) = 1

\* A step of the walk adds its transaction's output, unless a later transaction
\* spends an output of the same id.
LEMMA CountStep ==
  ASSUME NEW O, NEW TX, Single(TX, O), NEW txs \in Seq(TX), NEW n \in 0..(Len(txs) - 1),
         NEW C, C = Collected(txs), NEW id
  PROVE  /\ CountOf(C[n + 1].utxo, id) = CountOf(C[n].utxo, id)
              + (IF txs[n + 1].id = id /\ <<id, 1>> \notin C[n].spent THEN 1 ELSE 0)
         /\ CountOf(C[n].utxo, id) \in Nat
         /\ C[n + 1].spent = C[n].spent \cup Spends(txs[n + 1])
<1> DEFINE tx == txs[n + 1]
           vout == tx.vout
           outs == Outs(C[n], tx)
           old == Entry(C[n], tx)
           u == C[n].utxo
           spent == C[n].spent
<1>1. /\ C[n + 1].utxo = IF outs = <<>> THEN u ELSE Put(u, tx.id, old \o outs)
      /\ C[n + 1].spent = spent \cup Spends(tx)
  BY CollectedDef DEF Gathered
<1>2. vout \in Seq(O) /\ Len(vout) = 1 /\ DOMAIN vout = {1}
  <2>1. tx \in TX
    OBVIOUS
  <2> QED
    BY <2>1 DEF Single
<1>3. IsChainstate(u, O)
  <2>1. n \in 0..Len(txs) /\ \A x \in TX : x.vout \in Seq(O)
    BY DEF Single
  <2> QED
    BY <2>1, CollectedType
<1>4. old \in Seq(O) /\ Len(old) = CountOf(u, tx.id)
  BY <1>3 DEF Entry, IsChainstate, CountOf
<1>5. outs = IF <<tx.id, 1>> \in spent THEN <<>> ELSE vout
  <2> DEFINE I == {i \in DOMAIN vout : <<tx.id, i>> \notin spent}
  <2>1. /\ <<tx.id, 1>> \in spent => I \cap DOMAIN vout = {}
        /\ <<tx.id, 1>> \notin spent => DOMAIN vout \subseteq I
        /\ outs = KeepAt(vout, I)
    BY <1>2 DEF Outs
  <2> HIDE DEF I, vout
  <2>2. /\ KeepAt(vout, I) = vout <=> DOMAIN vout \subseteq I
        /\ KeepAt(vout, I) = <<>> <=> I \cap DOMAIN vout = {}
    BY <1>2, KeepAtFacts
  <2> QED
    BY <2>1, <2>2
<1>6. CountOf(u, id) \in Nat
  BY <1>3, CountType
<1> HIDE DEF old, outs, u, spent, vout
<1>7. CASE <<tx.id, 1>> \in spent
  BY <1>1, <1>5, <1>6, <1>7 DEF u, spent
<1>8. CASE <<tx.id, 1>> \notin spent
  <2>1. outs = vout /\ outs # <<>>
    <3>1. Len(vout) # Len(<<>>)
      BY <1>2
    <3> QED
      BY <1>5, <1>8, <3>1
  <2>2. Len(old \o outs) = CountOf(u, tx.id) + 1
    <3>1. vout \in Seq(O) /\ old \in Seq(O) /\ Len(vout) = 1
      BY <1>2, <1>4
    <3>2. Len(old \o vout) = Len(old) + Len(vout)
      BY <3>1, ConcatProperties
    <3> QED
      BY <1>4, <2>1, <3>1, <3>2
  <2> DEFINE both == old \o outs
             x == CountOf(u, tx.id)
  <2>3. C[n + 1].utxo = Put(u, tx.id, both) /\ Len(both) = x + 1
    BY <1>1, <2>1, <2>2
  <2> HIDE DEF both, x
  <2>4. CountOf(C[n + 1].utxo, id) = IF id = tx.id THEN x + 1 ELSE CountOf(u, id)
    <3>1. PutCounts(Put(u, tx.id, both), u, tx.id, both, id)
      BY CountPut
    <3> QED
      BY <2>3, <3>1 DEF PutCounts, x
  <2>5. CountOf(C[n + 1].utxo, id) = CountOf(u, id) + (IF tx.id = id THEN 1 ELSE 0)
    <3>1. CASE id = tx.id
      BY <2>4, <3>1 DEF x
    <3>2. CASE id # tx.id
      BY <1>6, <2>4, <3>2
    <3> QED
      BY <3>1, <3>2
  <2>6. tx.id = id /\ <<id, 1>> \notin spent <=> tx.id = id
    BY <1>8
  <2> QED
    BY <1>1, <1>6, <2>5, <2>6 DEF u, spent
<1> QED
  BY <1>7, <1>8

\* The first output of a transaction, as a set of positions.
Position(s) == {<<s, 1>>}

\* What the block of c and t adds to the count of an id.
Adds(c, t, id) == (IF c.id = id THEN 1 ELSE 0) + (IF t.id = id THEN 1 ELSE 0)

\* The walk of a chain with a new block on top finds what the block makes and
\* what the old walk found, but nothing of the transaction the block spends:
\* every output of one id counts as spent once one of them is.
LEMMA WalkCounts ==
  ASSUME NEW O, NEW TX, Single(TX, O), NEW txs \in Seq(TX),
         NEW c \in TX, NEW t \in TX, IsCoinbase(c), NEW s, Spends(t) = Position(s),
         NEW more \in Seq(TX), OnTop(more, c, t, txs), NEW id
  PROVE  CountOf(Collected(more)[Len(more)].utxo, id) = Adds(c, t, id)
           + (IF id = s THEN 0 ELSE CountOf(Collected(txs)[Len(txs)].utxo, id))
<1> DEFINE N == Len(txs)
           C == Collected(txs)
           D == Collected(more)
           Good(n) == /\ D[n + 2].spent = C[n].spent \cup {<<s, 1>>}
                      /\ CountOf(D[n + 2].utxo, id) = Adds(c, t, id)
                           + (IF id = s THEN 0 ELSE CountOf(C[n].utxo, id))
           G == {n \in 0..N : Good(n)}
<1>1. N \in Nat /\ Len(more) = N + 2 /\ more[1] = c /\ more[2] = t
      /\ \A n \in 1..N : more[n + 2] = txs[n]
  BY DEF OnTop
<1>2. /\ C[0].utxo = <<>> /\ C[0].spent = {}
      /\ D[0].utxo = <<>> /\ D[0].spent = {}
  BY CollectedDef DEF Gathered
<1>3. ASSUME NEW n \in 0..(N + 1)
      PROVE  /\ CountOf(D[n + 1].utxo, id) = CountOf(D[n].utxo, id)
                  + (IF more[n + 1].id = id /\ <<id, 1>> \notin D[n].spent THEN 1 ELSE 0)
             /\ CountOf(D[n].utxo, id) \in Nat
             /\ D[n + 1].spent = D[n].spent \cup Spends(more[n + 1])
  <2>1. n \in 0..(Len(more) - 1)
    BY <1>1
  <2> HIDE DEF D, N
  <2> QED
    BY <2>1, CountStep DEF D
<1>4. ASSUME NEW n \in 0..(N - 1)
      PROVE  /\ CountOf(C[n + 1].utxo, id) = CountOf(C[n].utxo, id)
                  + (IF txs[n + 1].id = id /\ <<id, 1>> \notin C[n].spent THEN 1 ELSE 0)
             /\ CountOf(C[n].utxo, id) \in Nat
             /\ C[n + 1].spent = C[n].spent \cup Spends(txs[n + 1])
  <2>1. n \in 0..(Len(txs) - 1)
    BY <1>1
  <2> HIDE DEF C, N
  <2> QED
    BY <2>1, CountStep DEF C
<1> HIDE DEF C, D, N
<1>5. Good(0)
  <2>1. CountOf(<<>>, id) = 0
    BY DEF CountOf
  <2>2. Spends(c) = {}
    BY DEF Spends
  <2>3. /\ CountOf(D[1].utxo, id) = IF c.id = id THEN 1 ELSE 0
        /\ D[1].spent = {}
    <3>1. 0 \in 0..(N + 1) /\ 0 + 1 = 1
      BY <1>1
    <3>2. /\ CountOf(D[1].utxo, id) = CountOf(D[0].utxo, id)
                 + (IF more[1].id = id /\ <<id, 1>> \notin D[0].spent THEN 1 ELSE 0)
          /\ D[1].spent = D[0].spent \cup Spends(more[1])
      BY <1>3, <3>1
    <3> QED
      BY <1>1, <1>2, <2>1, <2>2, <3>2
  <2>4. /\ CountOf(D[2].utxo, id) = CountOf(D[1].utxo, id) + (IF t.id = id THEN 1 ELSE 0)
        /\ D[2].spent = {<<s, 1>>}
    <3>1. 1 \in 0..(N + 1) /\ 1 + 1 = 2
      BY <1>1
    <3>2. /\ CountOf(D[2].utxo, id) = CountOf(D[1].utxo, id)
                 + (IF more[2].id = id /\ <<id, 1>> \notin D[1].spent THEN 1 ELSE 0)
          /\ D[2].spent = D[1].spent \cup Spends(more[2])
      BY <1>3, <3>1
    <3> QED
      BY <1>1, <2>3, <3>2 DEF Position
  <2>5. CountOf(D[2].utxo, id) = Adds(c, t, id)
    BY <2>3, <2>4 DEF Adds
  <2>6. 0 + 2 = 2 /\ Adds(c, t, id) \in Nat
    BY DEF Adds
  <2> QED
    BY <1>2, <2>1, <2>4, <2>5, <2>6
<1>6. ASSUME NEW n \in 0..(N - 1), Good(n) PROVE Good(n + 1)
  <2> DEFINE tx == txs[n + 1]
             x == CountOf(C[n].utxo, id)
             y == CountOf(D[n + 2].utxo, id)
  <2>1. n + 2 \in 0..(N + 1) /\ (n + 2) + 1 = (n + 1) + 2 /\ more[(n + 1) + 2] = tx
    BY <1>1
  <2>2. /\ CountOf(D[(n + 1) + 2].utxo, id) =
             y + (IF tx.id = id /\ <<id, 1>> \notin D[n + 2].spent THEN 1 ELSE 0)
        /\ y \in Nat
        /\ D[(n + 1) + 2].spent = D[n + 2].spent \cup Spends(tx)
    <3>1. n + 2 \in 0..(N + 1)
      BY <2>1
    <3> HIDE DEF tx
    <3> QED
      BY <1>3, <2>1, <3>1
  <2>3. /\ CountOf(C[n + 1].utxo, id) =
             x + (IF tx.id = id /\ <<id, 1>> \notin C[n].spent THEN 1 ELSE 0)
        /\ x \in Nat
        /\ C[n + 1].spent = C[n].spent \cup Spends(tx)
    BY <1>4
  <2>4. /\ D[n + 2].spent = C[n].spent \cup {<<s, 1>>}
        /\ y = Adds(c, t, id) + (IF id = s THEN 0 ELSE x)
    BY <1>6
  <2>5. Adds(c, t, id) \in Nat
    BY DEF Adds
  <2> HIDE DEF tx, x, y
  <2>6. D[(n + 1) + 2].spent = C[n + 1].spent \cup {<<s, 1>>}
    BY <2>2, <2>3, <2>4
  <2>7. <<id, 1>> \in D[n + 2].spent <=> id = s \/ <<id, 1>> \in C[n].spent
    BY <2>4
  <2>8. CountOf(D[(n + 1) + 2].utxo, id) =
          Adds(c, t, id) + (IF id = s THEN 0 ELSE CountOf(C[n + 1].utxo, id))
    <3>1. CASE id = s
      BY <2>2, <2>4, <2>7, <3>1
    <3>2. CASE id # s
      BY <2>2, <2>3, <2>4, <2>5, <2>7, <3>2
    <3> QED
      BY <3>1, <3>2
  <2> QED
    BY <2>6, <2>8
<1>7. 0..N \subseteq G
  <2>1. 0 \in G
    BY <1>1, <1>5
  <2>2. \A n \in 0..(N - 1) : n \in G => n + 1 \in G
    <3>1. \A n \in 0..(N - 1) : n + 1 \in 0..N
      BY <1>1
    <3> HIDE DEF Good
    <3> QED
      BY <1>6, <3>1
  <2> HIDE DEF G
  <2> QED
    BY <1>1, <2>1, <2>2, UpToInduction
<1>8. Good(N)
  <2>1. N \in 0..N
    BY <1>1
  <2> QED
    BY <1>7, <2>1
<1> QED
  BY <1>1, <1>8 DEF C, D, N

-----------------------------------------------------------------------------
(* What is stored was made and is not spent *)

\* Every stored output was made and is not spent.
Backed(txs, u) == \A id : Spent(id, 1, InputsOf(txs)) + CountOf(u, id) <= Made(id, txs)

LEMMA MadeOnTop ==
  ASSUME NEW TX, NEW txs \in Seq(TX), NEW c \in TX, NEW t \in TX,
         NEW more, Stacks(more, c, t, txs), NEW id
  PROVE  /\ Made(id, more) = Adds(c, t, id) + Made(id, txs)
         /\ Made(id, txs) \in Nat
         /\ Adds(c, t, id) \in Nat
<1> DEFINE two == <<c, t>>
           S == {k \in DOMAIN two : two[k].id = id}
<1>1. Adds(c, t, id) \in Nat
  BY DEF Adds
<1>2. Made(id, two) = Adds(c, t, id)
  <2>1. CASE c.id # t.id
    BY <2>1, MadeByBlock DEF Adds
  <2>2. CASE c.id = t.id
    <3>1. S = IF id = c.id THEN 1..2 ELSE {}
      BY <2>2
    <3>2. Cardinality(1..2) = 2 /\ Cardinality({}) = 0
      <4>1. ASSUME NEW n \in Nat PROVE Cardinality(1..n) = n
        BY FS_Interval
      <4> QED
        BY <4>1, FS_EmptySet
    <3> HIDE DEF S
    <3>3. Cardinality(S) = Adds(c, t, id)
      BY <2>2, <3>1, <3>2 DEF Adds
    <3> QED
      BY <3>3 DEF Made, S
  <2> QED
    BY <2>1, <2>2
<1>3. two \in Seq(TX) /\ more = two \o txs
  BY DEF Stacks
<1> HIDE DEF two
<1>4. Made(id, two \o txs) = Made(id, two) + Made(id, txs) /\ Made(id, txs) \in Nat
  BY <1>3, MadeConcat
<1> QED
  BY <1>1, <1>2, <1>3, <1>4

\* A block spends output 1 of s.  What is stored after it is no more than what
\* it makes and one of two backed buckets held, less the output it takes.
Follows(new, u, c, t, s, id) ==
  CountOf(new, id) + (IF id = s THEN 1 ELSE 0) <= Adds(c, t, id) + CountOf(u, id)

OneInput(t, in) == t.vin = <<in>> /\ in.vout = 1

LEMMA SpentOnTop ==
  ASSUME NEW A, NEW TX, Shaped(A, TX), NEW txs \in Seq(TX),
         NEW c \in TX, NEW t \in TX, IsCoinbase(c), ~IsCoinbase(t),
         NEW in, OneInput(t, in),
         NEW more, Stacks(more, c, t, txs), NEW id
  PROVE  /\ Spent(id, 1, InputsOf(more)) =
              (IF id = in.txid THEN 1 ELSE 0) + Spent(id, 1, InputsOf(txs))
         /\ Spent(id, 1, InputsOf(txs)) \in Nat
<1> DEFINE I == AllInputs(TX)
           vin == t.vin
           ins == InputsOf(txs)
<1>1. vin \in Seq(I) /\ ins \in Seq(I) /\ InputsOf(more) = vin \o ins
  <2>1. /\ more \in Seq(TX)
        /\ OnTop(more, c, t, txs)
        /\ t.vin \in Seq(AllInputs(TX)) /\ InputsOf(txs) \in Seq(AllInputs(TX))
        /\ InputsOf(more) = t.vin \o InputsOf(txs)
    BY InputsOfPaidChain, SMTT(60)
  <2> QED
    BY <2>1
<1>2. Spent(id, 1, vin) = IF id = in.txid THEN 1 ELSE 0
  <2>1. vin = <<in>> /\ DOMAIN vin = {1} /\ vin[1] = in /\ in.vout = 1
    BY DEF OneInput
  <2> HIDE DEF vin
  <2>2. \A i, j \in DOMAIN vin : vin[i].txid = vin[j].txid => i = j
    BY <2>1
  <2>3. Spent(id, 1, vin) =
          IF \E k \in DOMAIN vin : vin[k].txid = id /\ vin[k].vout = 1 THEN 1 ELSE 0
    BY <2>2, SpentByBlock
  <2> QED
    BY <2>1, <2>3
<1> HIDE DEF I, vin, ins
<1>3. Spent(id, 1, vin \o ins) = Spent(id, 1, vin) + Spent(id, 1, ins)
      /\ Spent(id, 1, ins) \in Nat
  BY <1>1, SpentConcat
<1> QED
  BY <1>1, <1>2, <1>3 DEF ins

LEMMA BackedGrows ==
  ASSUME NEW A, NEW TX, Shaped(A, TX), NEW txs \in Seq(TX),
         NEW c \in TX, NEW t \in TX, IsCoinbase(c), ~IsCoinbase(t),
         NEW in, OneInput(t, in),
         NEW more, Stacks(more, c, t, txs),
         NEW O, NEW u, IsChainstate(u, O), Backed(txs, u),
         NEW w, IsChainstate(w, O), Backed(txs, w),
         NEW new, IsChainstate(new, O),
         \A id : Follows(new, u, c, t, in.txid, id) \/ Follows(new, w, c, t, in.txid, id)
  PROVE  Backed(more, new)
<1> SUFFICES ASSUME NEW id
             PROVE  Spent(id, 1, InputsOf(more)) + CountOf(new, id) <= Made(id, more)
  BY DEF Backed
<1> DEFINE m == Made(id, txs)
           n == Spent(id, 1, InputsOf(txs))
           a == Adds(c, t, id)
           x == CountOf(u, id)
           y == CountOf(w, id)
           z == CountOf(new, id)
           one == IF id = in.txid THEN 1 ELSE 0
<1>1. Made(id, more) = a + m /\ m \in Nat /\ a \in Nat
  BY MadeOnTop
<1>2. Spent(id, 1, InputsOf(more)) = one + n /\ n \in Nat
  BY SpentOnTop
<1>3. x \in Nat /\ y \in Nat /\ z \in Nat /\ one \in Nat
  BY CountType
<1>4. n + x <= m /\ n + y <= m
  BY DEF Backed
<1>5. z + one <= a + x \/ z + one <= a + y
  BY DEF Follows
<1> HIDE DEF m, n, a, x, y, z, one
<1>6. (one + n) + z <= a + m
  BY <1>1, <1>2, <1>3, <1>4, <1>5
<1> QED
  BY <1>1, <1>2, <1>6 DEF z

-----------------------------------------------------------------------------
(* What a block does to the count of an entry *)

LEMMA TakenCount ==
  ASSUME NEW O, NEW u, IsChainstate(u, O), NEW s \in DOMAIN u, NEW id
  PROVE  CountOf(TakeOut(u, {<<s, 1>>}), id) = CountOf(u, id) - (IF id = s THEN 1 ELSE 0)
<1> DEFINE X == {<<s, 1>>}
           w == TakeOut(u, X)
<1> HIDE DEF X
<1>1. CASE id \notin DOMAIN u
  <2>1. id \notin DOMAIN w
    BY <1>1, TakeOutFacts
  <2> HIDE DEF w
  <2>2. CountOf(w, id) = 0 /\ CountOf(u, id) = 0 /\ id # s
    BY <1>1, <2>1 DEF CountOf
  <2> DEFINE a == CountOf(w, id)
             b == CountOf(u, id)
             one == IF id = s THEN 1 ELSE 0
  <2>3. a = 0 /\ b = 0 /\ one = 0
    BY <2>2
  <2> HIDE DEF a, b, one
  <2>4. a = b - one
    BY <2>3
  <2> QED
    BY <2>4, Zenon DEF a, b, one, w, X
<1>2. CASE id \in DOMAIN u
  <2> DEFINE outs == u[id]
             left == Unspent(id, outs, X)
  <2>1. outs \in Seq(O) /\ outs # <<>> /\ CountOf(u, id) = Len(outs)
    BY <1>2 DEF IsChainstate, CountOf
  <2>2. IF left = <<>> THEN id \notin DOMAIN w ELSE id \in DOMAIN w /\ w[id] = left
    BY <1>2, TakeOutFacts
  <2> HIDE DEF outs, w
  <2>3. left \in Seq(O)
    BY <2>1, UnspentFacts
  <2>4. Len(left) = Len(outs) - (IF id = s THEN 1 ELSE 0)
    <3>1. CASE id = s
      <4>1. {i \in DOMAIN outs : <<id, i>> \notin X} = DOMAIN outs \ {1}
        BY <3>1 DEF X
      <4>2. 1 \in DOMAIN outs
        BY <2>1
      <4>3. Len(KeepAt(outs, DOMAIN outs \ {1})) = Len(outs) - 1
        BY <2>1, <4>2, LenKeepOthers
      <4> QED
        BY <3>1, <4>1, <4>3 DEF Unspent
    <3>2. CASE id # s
      <4>1. \A i \in DOMAIN outs : <<id, i>> \notin X
        BY <3>2 DEF X
      <4>2. left = outs
        BY <2>1, <4>1, UnspentFacts
      <4>3. Len(outs) \in Nat
        BY <2>1
      <4> QED
        BY <3>2, <4>2, <4>3
    <3> QED
      BY <3>1, <3>2
  <2> HIDE DEF left
  <2>5. CountOf(w, id) = Len(left)
    <3>1. CASE left = <<>>
      BY <2>2, <3>1 DEF CountOf
    <3>2. CASE left # <<>>
      BY <2>2, <3>2 DEF CountOf
    <3> QED
      BY <3>1, <3>2
  <2> QED
    BY <2>1, <2>4, <2>5 DEF w, X
<1> QED
  BY <1>1, <1>2

LEMMA AddBlockCount ==
  ASSUME NEW u, NEW c, NEW t, Len(c.vout) = 1, Len(t.vout) = 1, NEW id
  PROVE  CountOf(AddBlock(u, c, t), id) =
           IF id = t.id THEN 1 ELSE IF id = c.id THEN 1 ELSE CountOf(u, id)
<1> DEFINE v == Put(u, c.id, c.vout)
<1>1. PutCounts(v, u, c.id, c.vout, id)
  BY CountPut
<1>2. PutCounts(AddBlock(u, c, t), v, t.id, t.vout, id)
  BY CountPut DEF AddBlock
<1> HIDE DEF v
<1> QED
  BY <1>1, <1>2 DEF PutCounts

\* The bucket after Update: the block overwrites what was stored under the ids
\* it makes.
LEMMA BlockCount ==
  ASSUME NEW O, NEW u, IsChainstate(u, O), NEW s \in DOMAIN u,
         NEW c, NEW t, Len(c.vout) = 1, Len(t.vout) = 1, NEW id
  PROVE  Follows(AddBlock(TakeOut(u, {<<s, 1>>}), c, t), u, c, t, s, id)
<1> DEFINE X == {<<s, 1>>}
           w == TakeOut(u, X)
           new == AddBlock(w, c, t)
           x == CountOf(u, id)
           one == IF id = s THEN 1 ELSE 0
<1>1. CountOf(w, id) = x - one
  BY TakenCount
<1>2. x \in Nat /\ (id = s => x >= 1)
  BY CountType
<1> HIDE DEF X, w, x
<1>3. CountOf(new, id) = IF id = t.id THEN 1 ELSE IF id = c.id THEN 1 ELSE CountOf(w, id)
  BY AddBlockCount
<1> HIDE DEF new
<1>4. CountOf(new, id) + one <= Adds(c, t, id) + x
  BY <1>1, <1>2, <1>3 DEF Adds
<1> QED
  BY <1>4 DEF Follows, new, w, x, X

-----------------------------------------------------------------------------
(* Entries and payments when no output is ever split *)

\* The one kind of output, worth a reward.
Piece(to) == [value |-> Subsidy, owner |-> to]

\* The outputs stored under an id are copies of the one output the id covers.
PileOf(A, id, outs) ==
  \E to \in A : id.vout = <<Piece(to)>> /\ \A k \in DOMAIN outs : outs[k] = Piece(to)

Piles(A, u) == IsChainstate(u, Coins(A)) /\ \A id \in DOMAIN u : PileOf(A, id, u[id])

WholeTx(A, tx) == tx.vout = tx.id.vout /\ \E to \in A : tx.vout = <<Piece(to)>>

AllWhole(A, TX) == \A tx \in TX : WholeTx(A, tx)

LEMMA WholeTxType ==
  ASSUME NEW A, NEW tx, WholeTx(A, tx)
  PROVE  tx.vout \in Seq(Coins(A)) /\ Len(tx.vout) = 1 /\ PileOf(A, tx.id, tx.vout)
<1>1. PICK to \in A : tx.vout = <<Piece(to)>> /\ tx.id.vout = <<Piece(to)>>
  BY DEF WholeTx
<1> DEFINE vout == tx.vout
           x == Piece(to)
<1>2. x \in Coins(A)
  BY SubsidyAssumption DEF Piece, Coins
<1>3. vout = <<x>> /\ tx.id.vout = <<x>>
  BY <1>1
<1> HIDE DEF vout, x
<1>4. vout \in Seq(Coins(A)) /\ Len(vout) = 1 /\ \A k \in DOMAIN vout : vout[k] = x
  BY <1>2, <1>3
<1> QED
  BY <1>3, <1>4 DEF PileOf, vout, x

LEMMA PilesPut ==
  ASSUME NEW A, NEW u, Piles(A, u), NEW id, NEW outs \in Seq(Coins(A)), outs # <<>>,
         PileOf(A, id, outs)
  PROVE  Piles(A, Put(u, id, outs))
<1> DEFINE w == Put(u, id, outs)
<1>1. /\ DOMAIN w = DOMAIN u \cup {id}
      /\ w[id] = outs
      /\ \A k \in DOMAIN u : k # id => w[k] = u[k]
  BY DEF Put
<1>2. IsChainstate(w, Coins(A))
  BY PutIsChainstate DEF Piles
<1> HIDE DEF w
<1>3. \A k \in DOMAIN w : PileOf(A, k, w[k])
  <2> SUFFICES ASSUME NEW k \in DOMAIN w PROVE PileOf(A, k, w[k])
    OBVIOUS
  <2>1. CASE k = id
    BY <1>1, <2>1
  <2>2. CASE k # id
    BY <1>1, <2>2 DEF Piles
  <2> QED
    BY <2>1, <2>2
<1>4. Piles(A, w)
  BY <1>2, <1>3 DEF Piles
<1> QED
  BY <1>4 DEF w

LEMMA PileJoins ==
  ASSUME NEW A, NEW id, NEW a \in Seq(Coins(A)), NEW b \in Seq(Coins(A)),
         PileOf(A, id, a), PileOf(A, id, b)
  PROVE  PileOf(A, id, a \o b)
<1>1. PICK to \in A : id.vout = <<Piece(to)>> /\ \A k \in DOMAIN a : a[k] = Piece(to)
  BY DEF PileOf
<1>2. PICK to2 \in A : id.vout = <<Piece(to2)>> /\ \A k \in DOMAIN b : b[k] = Piece(to2)
  BY DEF PileOf
<1> DEFINE x == Piece(to)
           y == Piece(to2)
<1>3. id.vout = <<x>> /\ id.vout = <<y>>
  BY <1>1, <1>2
<1>4. (\A k \in DOMAIN a : a[k] = x) /\ (\A k \in DOMAIN b : b[k] = y)
  BY <1>1, <1>2
<1> HIDE DEF x, y
<1>5. x = y
  <2>1. <<x>> = <<y>>
    BY <1>3
  <2> QED
    BY <2>1
<1>6. \A k \in DOMAIN (a \o b) : (a \o b)[k] = x
  BY <1>4, <1>5
<1> QED
  BY <1>3, <1>6 DEF PileOf, x

\* What the walk collects is piled up.
LEMMA WalkedPiles ==
  ASSUME NEW A, NEW TX, AllWhole(A, TX), NEW txs \in Seq(TX)
  PROVE  Piles(A, Collected(txs)[Len(txs)].utxo)
<1> DEFINE N == Len(txs)
           C == Collected(txs)
           O == Coins(A)
           Good(n) == Piles(A, C[n].utxo)
           G == {n \in 0..N : Good(n)}
<1>1. N \in Nat /\ Gathered(txs, C)
  BY CollectedDef
<1>2. \A n \in 0..(N - 1) : txs[n + 1] \in TX
  OBVIOUS
<1> HIDE DEF C
<1>3. Good(0)
  <2>1. C[0].utxo = <<>>
    BY <1>1 DEF Gathered
  <2>2. IsChainstate(<<>>, O) /\ DOMAIN <<>> = {}
    BY EmptyIsChainstate
  <2> QED
    BY <2>1, <2>2 DEF Piles
<1>4. ASSUME NEW n \in 0..(N - 1), Good(n) PROVE Good(n + 1)
  <2> DEFINE tx == txs[n + 1]
             vout == tx.vout
             outs == Outs(C[n], tx)
             old == Entry(C[n], tx)
             u == C[n].utxo
             id == tx.id
  <2>1. C[n + 1].utxo = IF outs = <<>> THEN u ELSE Put(u, id, old \o outs)
    BY <1>1 DEF Gathered
  <2>2. vout \in Seq(O) /\ PileOf(A, id, vout)
    <3>1. WholeTx(A, tx)
      BY <1>2 DEF AllWhole
    <3> HIDE DEF tx
    <3> QED
      BY <3>1, WholeTxType
  <2>3. outs \in Seq(O) /\ PileOf(A, id, outs)
    <3> DEFINE I == {i \in DOMAIN vout : <<id, i>> \notin C[n].spent}
    <3>1. outs = KeepAt(vout, I)
      BY DEF Outs
    <3> HIDE DEF I, outs, vout, id
    <3>2. /\ KeepAt(vout, I) \in Seq(O)
          /\ \A j \in DOMAIN KeepAt(vout, I) :
               \E i \in DOMAIN vout : i \in I /\ vout[i] = KeepAt(vout, I)[j]
      BY <2>2, KeepAtFacts
    <3>3. PICK to \in A : id.vout = <<Piece(to)>> /\ \A k \in DOMAIN vout : vout[k] = Piece(to)
      BY <2>2 DEF PileOf
    <3>4. \A j \in DOMAIN outs : outs[j] = Piece(to)
      BY <3>1, <3>2, <3>3
    <3> QED
      BY <3>1, <3>2, <3>3, <3>4 DEF PileOf
  <2>4. old \in Seq(O) /\ PileOf(A, id, old)
    <3>1. CASE id \in DOMAIN u
      <4>1. old = u[id]
        BY <3>1 DEF Entry
      <4>2. u[id] \in Seq(O) /\ PileOf(A, id, u[id])
        BY <1>4, <3>1 DEF Piles, IsChainstate
      <4> QED
        BY <4>1, <4>2
    <3>2. CASE id \notin DOMAIN u
      <4>1. old = <<>>
        BY <3>2 DEF Entry
      <4>2. PileOf(A, id, <<>>)
        BY <2>2 DEF PileOf
      <4> QED
        BY <4>1, <4>2
    <3> QED
      BY <3>1, <3>2
  <2> HIDE DEF outs, old, id, u
  <2>5. old \o outs \in Seq(O) /\ (outs # <<>> => old \o outs # <<>>)
    BY <2>3, <2>4
  <2>6. PileOf(A, id, old \o outs)
    BY <2>3, <2>4, PileJoins
  <2>7. Piles(A, u)
    BY <1>4 DEF u
  <2>8. CASE outs = <<>>
    BY <2>1, <2>7, <2>8
  <2>9. CASE outs # <<>>
    <3> DEFINE both == old \o outs
    <3>1. both \in Seq(Coins(A)) /\ both # <<>> /\ PileOf(A, id, both)
      BY <2>5, <2>6, <2>9
    <3>2. C[n + 1].utxo = Put(u, id, both)
      BY <2>1, <2>9
    <3> HIDE DEF both
    <3> QED
      BY <2>7, <3>1, <3>2, PilesPut
  <2> QED
    BY <2>8, <2>9
<1>5. 0..N \subseteq G
  <2>1. 0 \in G
    BY <1>1, <1>3
  <2>2. \A n \in 0..(N - 1) : n \in G => n + 1 \in G
    <3>1. \A n \in 0..(N - 1) : n + 1 \in 0..N
      BY <1>1
    <3> HIDE DEF Good
    <3> QED
      BY <1>4, <3>1
  <2> HIDE DEF G, N
  <2> QED
    BY <1>1, <2>1, <2>2, UpToInduction
<1>6. N \in 0..N
  BY <1>1
<1> QED
  BY <1>5, <1>6 DEF C

LEMMA PilesTakeOut ==
  ASSUME NEW A, NEW u, Piles(A, u), NEW X
  PROVE  Piles(A, TakeOut(u, X))
<1> DEFINE w == TakeOut(u, X)
           O == Coins(A)
<1>1. IsChainstate(w, O)
  BY TakeOutType DEF Piles
<1>2. ASSUME NEW id \in DOMAIN w PROVE PileOf(A, id, w[id])
  <2> DEFINE outs == u[id]
             I == {i \in DOMAIN outs : <<id, i>> \notin X}
  <2>1. id \in DOMAIN u /\ w[id] = Unspent(id, outs, X)
    BY DEF TakeOut
  <2>2. outs \in Seq(O) /\ PileOf(A, id, outs)
    BY <2>1 DEF Piles, IsChainstate
  <2>3. w[id] = KeepAt(outs, I)
    BY <2>1 DEF Unspent
  <2> HIDE DEF outs, I, w
  <2>4. \A j \in DOMAIN KeepAt(outs, I) :
          \E i \in DOMAIN outs : i \in I /\ outs[i] = KeepAt(outs, I)[j]
    BY <2>2, KeepAtFacts
  <2>5. PICK to \in A : id.vout = <<Piece(to)>> /\ \A k \in DOMAIN outs : outs[k] = Piece(to)
    BY <2>2 DEF PileOf
  <2> QED
    BY <2>3, <2>4, <2>5 DEF PileOf
<1> QED
  BY <1>1, <1>2 DEF Piles

LEMMA SumOfSame ==
  ASSUME NEW D, IsFiniteSet(D), NEW v \in Int, NEW g, DOMAIN g = D,
         g \in [D -> Int], \A x \in D : g[x] = v
  PROVE  SumOf(g) = v * Cardinality(D)
<1> DEFINE f == [x \in D |-> 1]
<1>1. f \in [D -> {0, 1}] /\ f \in [D -> Int] /\ g \in [D -> Int] /\ {x \in D : f[x] = 1} = D
  OBVIOUS
<1>2. \A x \in D : g[x] = v * f[x]
  OBVIOUS
<1> HIDE DEF f
<1>3. SumOf(f) = Cardinality(D)
  BY <1>1, SumOfOnes
<1>4. SumOf(g) = v * SumOf(f)
  BY <1>1, <1>2, SumOfTimes
<1> QED
  BY <1>3, <1>4

\* An input that takes the only output of s, by its owner, and hands it to another.
PaysOne(cs, tx, from, to, s) ==
  /\ s \in DOMAIN cs
  /\ s.vout = <<Piece(from)>>
  /\ tx.vin = <<[txid |-> s, vout |-> 1, pubKey |-> from]>>
  /\ tx.vout = <<Piece(to)>>
  /\ tx.id.vout = tx.vout

\* With amounts of one reward and entries that are piles of equal outputs a
\* payment takes the first output of one entry, and there is no change.
LEMMA PaymentTakesOne ==
  ASSUME NEW A, NEW cs, Piles(A, cs), NEW from, NEW to,
         NEW tx \in NewUTXOTransaction(cs, from, to, Subsidy)
  PROVE  \E s : PaysOne(cs, tx, from, to, s)
<1>0. PICK P \in GetUnSpendableOutputs(cs, from, Subsidy) :
        \E vin \in InputLists(P, from) :
          tx = NewTransaction(vin, PaymentOutputs(from, to, Subsidy, Accumulated(cs, P)))
  BY DEF NewUTXOTransaction
<1>1. PICK vin \in InputLists(P, from) :
        tx = NewTransaction(vin, PaymentOutputs(from, to, Subsidy, Accumulated(cs, P)))
  BY <1>0
<1>2. P \subseteq OwnedOutputs(cs, from)
  BY DEF GetUnSpendableOutputs
<1>3. PICK last \in P :
        /\ Accumulated(cs, P \ {last}) < Subsidy
        /\ \A p \in P, q \in OwnedOutputs(cs, from) \ P :
             p[1] = q[1] => p[1] = last[1] /\ p[2] < q[2]
  BY DEF GetUnSpendableOutputs
<1>4. IsFiniteSet(P)
  BY <1>2, OwnedFinite, FS_Subset DEF Piles
<1>5. \A p \in P : /\ p = <<p[1], p[2]>>
                   /\ p[1] \in DOMAIN cs /\ p[2] \in DOMAIN cs[p[1]]
                   /\ cs[p[1]][p[2]].owner = from
  BY <1>2 DEF OwnedOutputs
<1>6. \A p \in P : cs[p[1]][p[2]] = Piece(from) /\ p[1].vout = <<Piece(from)>>
  <2> SUFFICES ASSUME NEW p \in P
               PROVE  cs[p[1]][p[2]] = Piece(from) /\ p[1].vout = <<Piece(from)>>
    OBVIOUS
  <2>1. PileOf(A, p[1], cs[p[1]])
    BY <1>5 DEF Piles
  <2>2. PICK a \in A : p[1].vout = <<Piece(a)>> /\ cs[p[1]][p[2]] = Piece(a)
    BY <1>5, <2>1 DEF PileOf
  <2>3. a = from
    BY <1>5, <2>2 DEF Piece
  <2> QED
    BY <2>2, <2>3
<1>7. ASSUME NEW Q \in SUBSET P PROVE Accumulated(cs, Q) = Subsidy * Cardinality(Q)
  <2>1. IsFiniteSet(Q)
    BY <1>4, FS_Subset
  <2> DEFINE f == [p \in Q |-> cs[p[1]][p[2]].value]
  <2>2. DOMAIN f = Q /\ f \in [Q -> Int] /\ \A p \in Q : f[p] = Subsidy
    BY <1>6, SubsidyAssumption DEF Piece
  <2> HIDE DEF f
  <2>3. SumOf(f) = Subsidy * Cardinality(Q)
    BY <2>1, <2>2, SumOfSame, SubsidyAssumption
  <2> QED
    BY <2>3, Zenon DEF Accumulated, f
<1>8. P = {last}
  <2> DEFINE Q == P \ {last}
             n == Cardinality(Q)
  <2>1. IsFiniteSet(Q)
    BY <1>4, FS_Subset
  <2>2. Subsidy * n < Subsidy
    BY <1>3, <1>7
  <2>3. n \in Nat /\ (n = 0 <=> Q = {})
    BY <2>1, FS_CardinalityType, FS_EmptySet
  <2>4. n = 0
    <3> HIDE DEF n
    <3>1. n >= 1 => Subsidy * n >= Subsidy
      BY <2>3, SubsidyAssumption
    <3>2. Subsidy * n \in Int
      BY <2>3, SubsidyAssumption
    <3> QED
      BY <2>2, <2>3, <3>1, <3>2, SubsidyAssumption
  <2> QED
    BY <2>3, <2>4
<1> DEFINE id == last[1]
           i == last[2]
<1>9. /\ last = <<id, i>> /\ id \in DOMAIN cs /\ i \in DOMAIN cs[id]
      /\ id.vout = <<Piece(from)>>
  BY <1>5, <1>6
<1>10. i = 1
  <2> DEFINE outs == cs[id]
  <2>1. outs \in Seq(Coins(A)) /\ PileOf(A, id, outs)
    BY <1>9 DEF Piles, IsChainstate
  <2>2. i \in 1..Len(outs) /\ 1 \in DOMAIN outs
    BY <1>9, <2>1
  <2>3. cs[id][1].owner = from
    <3>1. cs[id][1] = cs[id][i]
      BY <1>9, <2>1, <2>2 DEF PileOf
    <3> QED
      BY <1>5, <3>1
  <2>4. <<id, 1>> \in OwnedOutputs(cs, from)
    BY <1>9, <2>2, <2>3 DEF OwnedOutputs
  <2>5. ASSUME i # 1 PROVE FALSE
    <3> DEFINE q == <<id, 1>>
    <3>1. q \notin P /\ q[1] = last[1] /\ q[2] = 1
      BY <1>8, <2>5
    <3>2. last[2] < q[2]
      BY <1>3, <2>4, <3>1
    <3> QED
      BY <2>2, <3>1, <3>2
  <2> QED
    BY <2>5
<1>11. vin = <<[txid |-> id, vout |-> 1, pubKey |-> from]>>
  <2>1. PICK s \in SetToSeqs(P) :
          vin = [k \in DOMAIN s |-> [txid |-> s[k][1], vout |-> s[k][2], pubKey |-> from]]
    BY DEF InputLists
  <2>2. Cardinality(P) = 1
    BY <1>8, FS_Singleton
  <2>3. s \in [1..1 -> P]
    BY <2>2 DEF SetToSeqs
  <2>4. DOMAIN s = 1..1 /\ s[1] = last
    BY <1>8, <2>3
  <2>5. vin = [k \in 1..1 |-> [txid |-> id, vout |-> 1, pubKey |-> from]]
    <3>1. \A k \in 1..1 : s[k][1] = id /\ s[k][2] = 1
      BY <1>10, <2>4
    <3> HIDE DEF id, i
    <3> QED
      BY <2>1, <2>4, <3>1
  <2> HIDE DEF id
  <2> QED
    BY <2>5
<1>12. PaymentOutputs(from, to, Subsidy, Accumulated(cs, P)) = <<Piece(to)>>
  <2>1. Accumulated(cs, P) = Subsidy
    <3>1. Cardinality(P) = 1
      BY <1>8, FS_Singleton
    <3>2. Subsidy * 1 = Subsidy
      BY SubsidyAssumption
    <3> QED
      BY <1>7, <3>1, <3>2
  <2>2. ~(Subsidy > Subsidy)
    BY SubsidyAssumption
  <2> DEFINE x == [value |-> Subsidy, owner |-> to]
  <2>3. PaymentOutputs(from, to, Subsidy, Accumulated(cs, P)) = <<x>> \o <<>>
    BY <2>1, <2>2 DEF PaymentOutputs
  <2> HIDE DEF x
  <2>4. <<x>> \o <<>> = <<x>>
    <3>1. <<x>> \in Seq({x})
      OBVIOUS
    <3> QED
      BY <3>1, ConcatEmptySeq
  <2> QED
    BY <2>3, <2>4 DEF x, Piece
<1> HIDE DEF id
<1>13. tx.vin = vin /\ tx.vout = <<Piece(to)>> /\ tx.id.vout = tx.vout
  BY <1>1, <1>12 DEF NewTransaction, Hash
<1>14. PaysOne(cs, tx, from, to, id)
  BY <1>9, <1>11, <1>13 DEF PaysOne
<1> QED
  BY <1>14

-----------------------------------------------------------------------------
(* What is stored is worth no more than the rewards *)

\* D holds the ids made so far and g how many outputs of each are not spent.
Tallies(D, g, txs) ==
  /\ \A k \in DOMAIN txs : txs[k].id \in D
  /\ \A id \in D : g[id] = Made(id, txs) - Spent(id, 1, InputsOf(txs))

\* All in all n outputs were made and not spent.
Rewarded(txs, n) ==
  \E D : \E g \in [D -> Int] : IsFiniteSet(D) /\ Tallies(D, g, txs) /\ SumOf(g) = n

LEMMA NeverMade ==
  ASSUME NEW D, NEW g, NEW txs, Tallies(D, g, txs), NEW id, id \notin D
  PROVE  Made(id, txs) = 0
<1>1. {k \in DOMAIN txs : txs[k].id = id} = {}
  BY DEF Tallies
<1> QED
  BY <1>1, FS_EmptySet DEF Made

\* A block makes two outputs and spends one.
LEMMA RewardedGrows ==
  ASSUME NEW A, NEW TX, Shaped(A, TX), NEW txs \in Seq(TX),
         NEW c \in TX, NEW t \in TX, IsCoinbase(c), ~IsCoinbase(t),
         NEW in, OneInput(t, in),
         NEW more, Stacks(more, c, t, txs),
         NEW O, NEW u, IsChainstate(u, O), Backed(txs, u),
         NEW n \in Int, Rewarded(txs, n)
  PROVE  Rewarded(more, n + 1)
<1>1. PICK D : \E g \in [D -> Int] : IsFiniteSet(D) /\ Tallies(D, g, txs) /\ SumOf(g) = n
  BY DEF Rewarded
<1>2. PICK g \in [D -> Int] : IsFiniteSet(D) /\ Tallies(D, g, txs) /\ SumOf(g) = n
  BY <1>1
<1> DEFINE s == in.txid
           E == ((D \cup {c.id}) \cup {t.id}) \cup {s}
           At(y) == [x \in E |-> IF x = y THEN 1 ELSE 0]
           old == [x \in E |-> IF x \in D THEN g[x] ELSE 0]
           some == [x \in E |-> old[x] + At(c.id)[x]]
           all == [x \in E |-> some[x] + At(t.id)[x]]
           left == [x \in E |-> all[x] - At(s)[x]]
<1>3. IsFiniteSet(E)
  <2>1. IsFiniteSet(D \cup {c.id})
    BY <1>2, FS_AddElement
  <2>2. IsFiniteSet((D \cup {c.id}) \cup {t.id})
    BY <2>1, FS_AddElement
  <2> QED
    BY <2>2, FS_AddElement
<1>4. D \subseteq E /\ c.id \in E /\ t.id \in E /\ s \in E
  OBVIOUS
<1> HIDE DEF E
<1>5. \A y \in E : At(y) \in [E -> Int] /\ SumOf(At(y)) = 1
  <2> SUFFICES ASSUME NEW y \in E PROVE At(y) \in [E -> Int] /\ SumOf(At(y)) = 1
    OBVIOUS
  <2> QED
    BY <1>3, SumOfPoint
<1>6. old \in [E -> Int] /\ SumOf(old) = n
  <2>1. old \in [E -> Int] /\ \A x \in E \ D : old[x] = 0
    BY <1>2
  <2>2. Part(old, D) = g
    <3>1. Part(old, D) = [x \in D |-> g[x]]
      BY <1>4 DEF Part
    <3> QED
      BY <1>2, <3>1
  <2> HIDE DEF old
  <2>3. SumOf(old) = SumOf(Part(old, D))
    BY <1>3, <1>4, <2>1, SumOfDrop
  <2> QED
    BY <1>2, <2>1, <2>2, <2>3
<1>7. some \in [E -> Int] /\ SumOf(some) = n + 1
  <2> DEFINE p == At(c.id)
  <2>1. p \in [E -> Int] /\ SumOf(p) = 1
    BY <1>4, <1>5
  <2> HIDE DEF old, p
  <2>2. some \in [E -> Int] /\ \A x \in E : some[x] = old[x] + p[x]
    BY <1>6, <2>1 DEF p
  <2> HIDE DEF some
  <2>3. SumOf(some) = SumOf(old) + SumOf(p)
    <3>1. AddsUp(E, old, p, some)
      BY <1>3, <1>6, <2>1, <2>2 DEF AddsUp
    <3> QED
      BY <3>1, SumOfPlus
  <2> QED
    BY <1>6, <2>1, <2>2, <2>3
<1>8. all \in [E -> Int] /\ SumOf(all) = n + 2
  <2> DEFINE p == At(t.id)
  <2>1. p \in [E -> Int] /\ SumOf(p) = 1
    BY <1>4, <1>5
  <2> HIDE DEF some, p
  <2>2. all \in [E -> Int] /\ \A x \in E : all[x] = some[x] + p[x]
    BY <1>7, <2>1 DEF p
  <2> HIDE DEF all
  <2>3. SumOf(all) = SumOf(some) + SumOf(p)
    <3>1. AddsUp(E, some, p, all)
      BY <1>3, <1>7, <2>1, <2>2 DEF AddsUp
    <3> QED
      BY <3>1, SumOfPlus
  <2> QED
    BY <1>7, <2>1, <2>2, <2>3
<1>9. left \in [E -> Int] /\ SumOf(left) = n + 1
  <2> DEFINE p == At(s)
  <2>1. p \in [E -> Int] /\ SumOf(p) = 1
    BY <1>4, <1>5
  <2> HIDE DEF all, p
  <2>2. left \in [E -> Int] /\ \A x \in E : all[x] = left[x] + p[x]
    BY <1>8, <2>1 DEF p
  <2> HIDE DEF left
  <2>3. SumOf(all) = SumOf(left) + SumOf(p)
    <3>1. AddsUp(E, left, p, all)
      BY <1>3, <1>8, <2>1, <2>2 DEF AddsUp
    <3> QED
      BY <3>1, SumOfPlus
  <2>4. SumOf(left) \in Int
    BY <1>3, <2>2, SumOfInt
  <2> QED
    BY <1>8, <2>1, <2>2, <2>3, <2>4
<1>10. \A id \in E : left[id] = Made(id, more) - Spent(id, 1, InputsOf(more))
  <2> SUFFICES ASSUME NEW id \in E
               PROVE  left[id] = Made(id, more) - Spent(id, 1, InputsOf(more))
    OBVIOUS
  <2> DEFINE m == Made(id, txs)
             k == Spent(id, 1, InputsOf(txs))
             one == IF id = s THEN 1 ELSE 0
             a == Adds(c, t, id)
             o == IF id \in D THEN g[id] ELSE 0
  <2>1. Made(id, more) = a + m /\ m \in Nat /\ a \in Nat
    BY MadeOnTop
  <2>2. Spent(id, 1, InputsOf(more)) = one + k /\ k \in Nat
    BY SpentOnTop
  <2>3. one \in Nat
    OBVIOUS
  <2>4. o = m - k
    <3>1. CASE id \in D
      BY <1>2, <3>1 DEF Tallies
    <3>2. CASE id \notin D
      <4>1. m = 0
        BY <1>2, <3>2, NeverMade
      <4>2. k + CountOf(u, id) <= m /\ CountOf(u, id) \in Nat
        BY CountType DEF Backed
      <4> HIDE DEF m, k
      <4>3. k = 0
        BY <2>2, <4>1, <4>2
      <4> QED
        BY <3>2, <4>1, <4>3
    <3> QED
      BY <3>1, <3>2
  <2>5. left[id] = o + a - one
    <3>1. left[id] = all[id] - one /\ all[id] = some[id] + (IF id = t.id THEN 1 ELSE 0)
          /\ some[id] = o + (IF id = c.id THEN 1 ELSE 0)
      OBVIOUS
    <3>2. o \in Int
      BY <1>2
    <3> HIDE DEF left, all, some, o, one
    <3> QED
      BY <2>3, <3>1, <3>2 DEF Adds
  <2> HIDE DEF m, k, one, a, o, left
  <2> QED
    BY <2>1, <2>2, <2>3, <2>4, <2>5
<1>11. \A k \in DOMAIN more : more[k].id \in E
  <2>1. Len(more) = Len(txs) + 2 /\ more[1] = c /\ more[2] = t
        /\ (\A i \in 1..Len(txs) : more[i + 2] = txs[i]) /\ DOMAIN more = 1..Len(more)
    BY DEF Stacks
  <2> SUFFICES ASSUME NEW k \in 1..(Len(txs) + 2) PROVE more[k].id \in E
    BY <2>1
  <2>2. CASE k = 1 \/ k = 2
    BY <1>4, <2>1, <2>2
  <2>3. CASE k # 1 /\ k # 2
    <3>1. k - 2 \in 1..Len(txs) /\ (k - 2) + 2 = k
      BY <2>3
    <3>2. more[k] = txs[k - 2] /\ k - 2 \in DOMAIN txs
      BY <2>1, <3>1
    <3> QED
      BY <1>2, <1>4, <3>2 DEF Tallies
  <2> QED
    BY <2>2, <2>3
<1> HIDE DEF left
<1>12. Tallies(E, left, more)
  BY <1>10, <1>11 DEF Tallies
<1> QED
  BY <1>3, <1>9, <1>12 DEF Rewarded

LEMMA PilesWorth ==
  ASSUME NEW A, NEW u, Piles(A, u)
  PROVE  /\ [id \in DOMAIN u |-> CountOf(u, id)] \in [DOMAIN u -> Int]
         /\ Total(u) = Subsidy * SumOf([id \in DOMAIN u |-> CountOf(u, id)])
<1> DEFINE f == [id \in DOMAIN u |-> CountOf(u, id)]
           g == [id \in DOMAIN u |-> Worth(u[id])]
<1>1. \A id \in DOMAIN u : g[id] = Subsidy * f[id] /\ f[id] \in Int /\ g[id] \in Int
  <2> SUFFICES ASSUME NEW id \in DOMAIN u
               PROVE  Worth(u[id]) = Subsidy * CountOf(u, id) /\ CountOf(u, id) \in Int
    BY SubsidyAssumption
  <2> DEFINE outs == u[id]
             d == DOMAIN outs
  <2>1. outs \in Seq(Coins(A)) /\ PileOf(A, id, outs) /\ CountOf(u, id) = Len(outs)
    BY DEF Piles, IsChainstate, CountOf
  <2> DEFINE v == [k \in d |-> outs[k].value]
  <2>2. DOMAIN v = d /\ v \in [d -> Int] /\ \A k \in d : v[k] = Subsidy
    BY <2>1, SubsidyAssumption DEF PileOf, Piece
  <2>3. d = 1..Len(outs) /\ Len(outs) \in Nat
    BY <2>1
  <2>4. Worth(outs) = SumOf(v)
    BY DEF Worth
  <2> HIDE DEF outs, d, v
  <2> DEFINE n == Len(outs)
  <2>5. n \in Nat /\ d = 1..n
    BY <2>3
  <2> HIDE DEF n
  <2>6. IsFiniteSet(d) /\ Cardinality(d) = n
    BY <2>5, FS_Interval
  <2>7. SumOf(v) = Subsidy * Cardinality(d)
    BY <2>2, <2>6, SumOfSame, SubsidyAssumption
  <2> QED
    BY <2>1, <2>4, <2>5, <2>6, <2>7 DEF n, outs
<1>2. IsFiniteSet(DOMAIN u)
  BY DEF Piles, IsChainstate
<1>3. f \in [DOMAIN u -> Int] /\ g \in [DOMAIN u -> Int] /\ Total(u) = SumOf(g)
  BY <1>1 DEF Total
<1> HIDE DEF f, g
<1>4. SumOf(g) = Subsidy * SumOf(f)
  BY <1>1, <1>2, <1>3, SumOfTimes, SubsidyAssumption
<1> QED
  BY <1>3, <1>4 DEF f

LEMMA RewardedBounds ==
  ASSUME NEW A, NEW TX, Shaped(A, TX), NEW txs \in Seq(TX), NEW n \in Int, Rewarded(txs, n),
         NEW u, Piles(A, u), Backed(txs, u)
  PROVE  Total(u) <= Subsidy * n
<1>1. PICK D : \E g \in [D -> Int] : IsFiniteSet(D) /\ Tallies(D, g, txs) /\ SumOf(g) = n
  BY DEF Rewarded
<1>2. PICK g \in [D -> Int] : IsFiniteSet(D) /\ Tallies(D, g, txs) /\ SumOf(g) = n
  BY <1>1
<1> DEFINE f == [id \in DOMAIN u |-> CountOf(u, id)]
           h == [id \in D |-> CountOf(u, id)]
           ins == InputsOf(txs)
           I == AllInputs(TX)
<1>3. ins \in Seq(I)
  <2>1. \A tx \in TX : tx.vin \in Seq(I)
    BY AllInputsType
  <2> HIDE DEF I
  <2> QED
    BY <2>1, InputsType
<1>4. ASSUME NEW id
      PROVE  /\ CountOf(u, id) \in Nat /\ (id \in DOMAIN u <=> CountOf(u, id) >= 1)
             /\ Made(id, txs) \in Nat /\ Spent(id, 1, ins) \in Nat
             /\ Spent(id, 1, ins) + CountOf(u, id) <= Made(id, txs)
  <2>1. CountOf(u, id) \in Nat /\ (id \in DOMAIN u <=> CountOf(u, id) >= 1)
    BY CountType DEF Piles
  <2>2. Made(id, txs) \in Nat
    BY MadeConcat
  <2>3. Spent(id, 1, ins) \in Nat
    BY <1>3, SpentConcat
  <2> QED
    BY <2>1, <2>2, <2>3 DEF Backed
<1>5. DOMAIN u \subseteq D
  <2> SUFFICES ASSUME NEW id \in DOMAIN u, id \notin D PROVE FALSE
    OBVIOUS
  <2>1. Made(id, txs) = 0
    BY <1>2, NeverMade
  <2> QED
    BY <1>4, <2>1
<1>6. h \in [D -> Int] /\ \A id \in D : h[id] <= g[id]
  <2> SUFFICES ASSUME NEW id \in D PROVE CountOf(u, id) \in Int /\ CountOf(u, id) <= g[id]
    OBVIOUS
  <2>1. g[id] = Made(id, txs) - Spent(id, 1, ins)
    BY <1>2 DEF Tallies
  <2> HIDE DEF ins
  <2> QED
    BY <1>4, <2>1
<1>7. \A id \in D \ DOMAIN u : h[id] = 0
  BY DEF CountOf
<1>8. Part(h, DOMAIN u) = f
  BY <1>5 DEF Part
<1>9. f \in [DOMAIN u -> Int] /\ Total(u) = Subsidy * SumOf(f)
  BY PilesWorth
<1> HIDE DEF f, h
<1>10. SumOf(h) = SumOf(f)
  BY <1>2, <1>5, <1>6, <1>7, <1>8, SumOfDrop
<1>11. SumOf(h) <= SumOf(g)
  BY <1>2, <1>6, SumOfMonotone
<1>12. SumOf(h) \in Int
  BY <1>2, <1>6, SumOfInt
<1> DEFINE a == SumOf(h)
<1>13. a \in Int /\ a <= n /\ Total(u) = Subsidy * a
  BY <1>2, <1>9, <1>10, <1>11, <1>12
<1> HIDE DEF a
<1>14. Subsidy * n = Subsidy * a + Subsidy * (n - a) /\ Subsidy * (n - a) >= 0
       /\ Subsidy * a \in Int /\ Subsidy * (n - a) \in Int
  <2> DEFINE b == n - a
  <2>1. b \in Nat /\ n = a + b
    BY <1>13
  <2> HIDE DEF b
  <2>2. Subsidy * (a + b) = Subsidy * a + Subsidy * b /\ Subsidy * b \in Nat /\ Subsidy * a \in Int
    BY <1>13, <2>1, SubsidyAssumption
  <2> QED
    BY <2>1, <2>2 DEF b
<1> QED
  BY <1>13, <1>14

-----------------------------------------------------------------------------
(* Chains on which no output is ever split *)

\* Every input takes the one output of its transaction and is signed by its owner.
WholeInputs(txs) ==
  \A in \in ToSet(InputsOf(txs)) : in.vout = 1 /\ in.txid.vout = <<Piece(in.pubKey)>>

\* Every transaction stored has one output, worth a reward.
WholeCarries(A, bs) == \E TX : Shaped(A, TX) /\ AllWhole(A, TX) /\ Carries(bs, TX)

\* What holds of the chain below t: the inputs fit, as many outputs are left
\* unspent as there are blocks, and what a walk of the chain finds is backed.
WholeChain(A, bs, t) ==
  LET txs == TransactionsOf(Branch(bs, t)) IN
  /\ WholeCarries(A, bs)
  /\ WholeInputs(txs)
  /\ Rewarded(txs, Cardinality(DOMAIN bs))
  /\ Backed(txs, FindUTXO(Branch(bs, t)))

\* A bucket without entries is backed by any chain.
LEMMA NothingBacked ==
  ASSUME NEW txs, NEW O, NEW u, IsChainstate(u, O), Backed(txs, u),
         NEW TX, txs \in Seq(TX), NEW A, Shaped(A, TX)
  PROVE  Backed(txs, <<>>)
<1> SUFFICES ASSUME NEW id
             PROVE  Spent(id, 1, InputsOf(txs)) + CountOf(<<>>, id) <= Made(id, txs)
  BY DEF Backed
<1> DEFINE ins == InputsOf(txs)
           I == AllInputs(TX)
           n == Spent(id, 1, ins)
           m == Made(id, txs)
           x == CountOf(u, id)
<1>1. ins \in Seq(I)
  <2>1. \A tx \in TX : tx.vin \in Seq(I)
    BY AllInputsType
  <2> HIDE DEF I
  <2> QED
    BY <2>1, InputsType
<1> HIDE DEF ins, I
<1>2. n \in Nat /\ m \in Nat /\ x \in Nat
  BY <1>1, SpentConcat, MadeConcat, CountType
<1>3. n + x <= m
  BY DEF Backed, ins
<1>4. CountOf(<<>>, id) = 0
  BY DEF CountOf
<1> HIDE DEF n, m, x
<1> QED
  BY <1>2, <1>3, <1>4 DEF n, m, ins

LEMMA NoneMade == \A id : Made(id, <<>>) = 0 /\ Spent(id, 1, <<>>) = 0 /\ CountOf(<<>>, id) = 0
<1> SUFFICES ASSUME NEW id
             PROVE  Made(id, <<>>) = 0 /\ Spent(id, 1, <<>>) = 0 /\ CountOf(<<>>, id) = 0
  OBVIOUS
<1> DEFINE none == <<>>
<1>1. DOMAIN none = {}
  OBVIOUS
<1> HIDE DEF none
<1>2. {k \in DOMAIN none : none[k].txid = id /\ none[k].vout = 1} = {}
      /\ {k \in DOMAIN none : none[k].id = id} = {}
  BY <1>1
<1>3. Made(id, none) = 0 /\ Spent(id, 1, none) = 0 /\ CountOf(none, id) = 0
  BY <1>1, <1>2, FS_EmptySet DEF Spent, Made, CountOf
<1> QED
  BY <1>3 DEF none

\* The chain of no block,
LEMMA EmptyIsWhole ==
  ASSUME NEW A, NEW bs, DOMAIN bs = {}
  PROVE  /\ WholeChain(A, bs, NoBlock)
         /\ Backed(TransactionsOf(Branch(bs, NoBlock)), <<>>)
         /\ Piles(A, <<>>)
<1> DEFINE txs == TransactionsOf(Branch(bs, NoBlock))
           none == <<>>
<1>1. txs = none /\ FindUTXO(Branch(bs, NoBlock)) = none
  BY EmptyChain
<1>2. InputsOf(none) = none /\ ToSet(none) = {} /\ DOMAIN none = {}
  BY NoInputs DEF ToSet
<1>3. IsChainstate(none, Coins(A))
  BY EmptyIsChainstate
<1>4. \A id : Made(id, none) = 0 /\ Spent(id, 1, none) = 0 /\ CountOf(none, id) = 0
  BY NoneMade
<1> HIDE DEF txs, none
<1>5. Backed(none, none)
  BY <1>2, <1>4 DEF Backed
<1>6. WholeInputs(none)
  BY <1>2 DEF WholeInputs
<1>7. Piles(A, none)
  BY <1>2, <1>3 DEF Piles
<1>8. WholeCarries(A, bs)
  <2>1. Shaped(A, {}) /\ AllWhole(A, {}) /\ Carries(bs, {})
    BY DEF Shaped, AllWhole, Carries
  <2> QED
    BY <2>1 DEF WholeCarries
<1>9. Rewarded(none, 0)
  <2> DEFINE D == {}
             g == [id \in D |-> 0]
  <2>1. g \in [D -> Int] /\ IsFiniteSet(D) /\ SumOf(g) = 0
    <3>1. DOMAIN g = {}
      OBVIOUS
    <3>2. SumOf(g) = 0
      BY <3>1, SumOfNone
    <3> QED
      BY <3>2, FS_EmptySet
  <2>2. Tallies(D, g, none)
    BY <1>2 DEF Tallies
  <2> QED
    BY <2>1, <2>2 DEF Rewarded
<1>10. Cardinality(DOMAIN bs) = 0
  BY FS_EmptySet
<1> QED
  BY <1>1, <1>5, <1>6, <1>7, <1>8, <1>9, <1>10 DEF WholeChain, txs, none

LEMMA RewardIsWhole ==
  ASSUME NEW A, NEW to \in A
  PROVE  WholeTx(A, NewCoinbaseTX(to))
BY DEF WholeTx, NewCoinbaseTX, NewTransaction, Hash, Piece

\* of the genesis block,
LEMMA GenesisIsWhole ==
  ASSUME NEW A, NEW bs, DOMAIN bs = {}, NEW h, NEW B, FitsOn(bs, NoBlock, h, B),
         NEW to \in A, B.txs = <<NewCoinbaseTX(to)>>
  PROVE  /\ WholeChain(A, Put(bs, h, B), h)
         /\ Backed(TransactionsOf(Branch(Put(bs, h, B), h)), <<>>)
<1> DEFINE new == Put(bs, h, B)
           one == B.txs
           c == NewCoinbaseTX(to)
           TX == {c}
           K == {c.id}
           txs == TransactionsOf(Branch(new, h))
           u == Collected(one)[Len(one)].utxo
<1>1. txs = one
  <2>1. Closed(bs) /\ NoBlock \in DOMAIN bs \cup {NoBlock}
    BY FS_EmptySet DEF Closed
  <2>2. Carries(bs, TX)
    BY DEF Carries
  <2>3. one \in Seq(TX)
    OBVIOUS
  <2> HIDE DEF TX
  <2>4. Lengthens(bs, NoBlock, h, B)
    BY <2>1, <2>2, <2>3, ChainGrows
  <2>5. txs = one \o TransactionsOf(Branch(bs, NoBlock))
    BY <2>4 DEF Lengthens
  <2>6. one \o <<>> = one
    BY <2>3, ConcatEmptySeq
  <2> QED
    BY <2>5, <2>6, EmptyChain
<1>2. InputsOf(one) = <<>> /\ u = Put(<<>>, c.id, c.vout)
  BY NoInputsOfReward, GenesisWalk
<1>3. WholeTx(A, c) /\ TxShape(A, c)
  BY RewardIsWhole, RewardShape
<1>4. one = <<c>>
  OBVIOUS
<1>5. Len(c.vout) = 1
  BY <1>3, WholeTxType
<1> HIDE DEF c, one, u
<1>6. DOMAIN new = {h} /\ new[h] = B
  <2>1. DOMAIN new = DOMAIN bs \cup {h} /\ new[h] = B
    BY DEF Put
  <2> HIDE DEF new
  <2> QED
    BY <2>1, Zenon
<1>7. WholeCarries(A, new)
  <2>1. Shaped(A, TX) /\ AllWhole(A, TX)
    BY <1>3 DEF Shaped, AllWhole
  <2>2. one \in Seq(TX)
    BY <1>4
  <2> HIDE DEF TX, new
  <2>3. Carries(new, TX)
    BY <1>6, <2>2 DEF Carries, one
  <2> QED
    BY <2>1, <2>3 DEF WholeCarries
<1>8. WholeInputs(one)
  BY <1>2 DEF WholeInputs, ToSet
<1>9. ASSUME NEW id
      PROVE  /\ Made(id, one) = (IF id = c.id THEN 1 ELSE 0)
             /\ Spent(id, 1, InputsOf(one)) = 0
             /\ CountOf(u, id) = (IF id = c.id THEN 1 ELSE 0)
             /\ CountOf(<<>>, id) = 0
  <2>1. Spent(id, 1, InputsOf(one)) = 0 /\ CountOf(<<>>, id) = 0
    BY <1>2, NoneMade
  <2>2. Made(id, one) = IF id = c.id THEN 1 ELSE 0
    <3>1. DOMAIN one = {1} /\ one[1] = c
      BY <1>4
    <3>2. {k \in DOMAIN one : one[k].id = id} = IF id = c.id THEN {1} ELSE {}
      BY <3>1
    <3>3. Cardinality({}) = 0 /\ Cardinality({1}) = 1
      BY FS_EmptySet, FS_Singleton
    <3> QED
      BY <3>2, <3>3 DEF Made
  <2>3. CountOf(u, id) = IF id = c.id THEN 1 ELSE 0
    <3> DEFINE none == <<>>
               w == Put(none, c.id, c.vout)
    <3>1. CountOf(none, id) = 0
      BY <2>1
    <3> HIDE DEF none
    <3>2. PutCounts(w, none, c.id, c.vout, id)
      BY CountPut
    <3> HIDE DEF w
    <3>3. CountOf(w, id) = IF id = c.id THEN 1 ELSE 0
      BY <1>5, <3>1, <3>2 DEF PutCounts
    <3> QED
      BY <1>2, <3>3 DEF w, none
  <2> QED
    BY <2>1, <2>2, <2>3
<1>10. Backed(one, u) /\ Backed(one, <<>>)
  BY <1>9 DEF Backed
<1>11. Rewarded(one, 1)
  <2> DEFINE g == [id \in K |-> 1]
  <2>1. g \in [K -> Int] /\ IsFiniteSet(K)
    <3>1. IsFiniteSet(K)
      BY FS_Singleton
    <3> QED
      BY <3>1
  <2>2. SumOf(g) = 1
    <3>1. g \in [K -> {0, 1}] /\ {x \in K : g[x] = 1} = K /\ Cardinality(K) = 1
      BY FS_Singleton
    <3> HIDE DEF g, K
    <3> QED
      BY <2>1, <3>1, SumOfOnes
  <2>3. Tallies(K, g, one)
    <3>1. \A k \in DOMAIN one : one[k].id \in K
      BY <1>4
    <3>2. \A id \in K : g[id] = Made(id, one) - Spent(id, 1, InputsOf(one))
      BY <1>9
    <3> QED
      BY <3>1, <3>2 DEF Tallies
  <2> QED
    BY <2>1, <2>2, <2>3 DEF Rewarded
<1>12. Cardinality(DOMAIN new) = 1
  BY <1>6, FS_Singleton
<1>13. FindUTXO(Branch(new, h)) = u
  BY <1>1 DEF FindUTXO, u
<1> HIDE DEF new, txs
<1> QED
  BY <1>1, <1>7, <1>8, <1>10, <1>11, <1>12, <1>13 DEF WholeChain, new, txs

\* What the walk collects, in the same words.
Walk(txs) == Collected(txs)[Len(txs)].utxo

LEMMA WalkedByWhole ==
  ASSUME NEW A, NEW TX, AllWhole(A, TX), NEW txs \in Seq(TX)
  PROVE  Piles(A, Walk(txs)) /\ IsChainstate(Walk(txs), Coins(A)) /\ Single(TX, Coins(A))
<1>1. Piles(A, Walk(txs))
  BY WalkedPiles DEF Walk
<1>2. Single(TX, Coins(A))
  BY WholeTxType DEF AllWhole, Single
<1> QED
  BY <1>1, <1>2 DEF Piles

\* The one input of a payment that takes one output.
TakesOnly(tx, in, s) ==
  /\ OneInput(tx, in)
  /\ in.txid = s
  /\ in.txid.vout = <<Piece(in.pubKey)>>
  /\ OneEach(tx.vin)

LEMMA PaysOneInput ==
  ASSUME NEW cs, NEW tx, NEW from, NEW to, NEW s, PaysOne(cs, tx, from, to, s)
  PROVE  /\ \E in : TakesOnly(tx, in, s)
         /\ PositionsOf(tx.vin) = Position(s)
<1> DEFINE in == [txid |-> s, vout |-> 1, pubKey |-> from]
           vin == tx.vin
<1>1. vin = <<in>> /\ in.txid = s /\ in.vout = 1 /\ in.txid.vout = <<Piece(in.pubKey)>>
  BY DEF PaysOne
<1> HIDE DEF in, vin
<1>2. DOMAIN vin = {1} /\ vin[1] = in
  BY <1>1
<1>3. OneEach(vin)
  BY <1>2 DEF OneEach
<1>4. TakesOnly(tx, in, s)
  BY <1>1, <1>3 DEF TakesOnly, OneInput, vin
<1>5. PositionsOf(vin) = Position(s)
  BY <1>1, <1>2 DEF PositionsOf, ToSet, Position
<1> QED
  BY <1>4, <1>5 DEF vin

LEMMA WholeInputsGrow ==
  ASSUME NEW I, NEW txs, WholeInputs(txs), InputsOf(txs) \in Seq(I),
         NEW tx, tx.vin \in Seq(I), NEW in, NEW s, TakesOnly(tx, in, s),
         NEW more, InputsOf(more) = tx.vin \o InputsOf(txs)
  PROVE  WholeInputs(more)
<1> DEFINE vin == tx.vin
           old == InputsOf(txs)
           Fits(i) == i.vout = 1 /\ i.txid.vout = <<Piece(i.pubKey)>>
<1>1. \A k \in DOMAIN vin : Fits(vin[k])
  BY DEF TakesOnly, OneInput
<1>2. \A i \in ToSet(old) : Fits(i)
  BY DEF WholeInputs
<1>3. vin \in Seq(I) /\ old \in Seq(I) /\ InputsOf(more) = vin \o old
  OBVIOUS
<1> HIDE DEF vin, old, Fits
<1>4. ToSet(vin \o old) \subseteq {vin[k] : k \in DOMAIN vin} \cup ToSet(old)
  BY <1>3 DEF ToSet
<1>5. \A i \in ToSet(vin \o old) : Fits(i)
  BY <1>1, <1>2, <1>4
<1> QED
  BY <1>3, <1>5 DEF WholeInputs, Fits

\* What a block of a reward and such a payment leaves of what was found or
\* stored before.
Remains(A, txs, n) == WholeInputs(txs) /\ Rewarded(txs, n) /\ Backed(txs, Walk(txs))

LEMMA WholeOnTop ==
  ASSUME NEW A, NEW TX, Shaped(A, TX), AllWhole(A, TX), NEW txs \in Seq(TX),
         NEW n \in Int, Remains(A, txs, n),
         NEW cs, Piles(A, cs), NoTx \notin DOMAIN cs, Backed(txs, cs),
         NEW from \in A, NEW to \in A, NEW amount,
         NEW tx \in TX, IsPayment(A, cs, tx, from, to, amount),
         NEW s, PaysOne(cs, tx, from, to, s),
         NEW c \in TX, IsReward(c, from),
         NEW more, Stacks(more, c, tx, txs)
  PROVE  /\ Remains(A, more, n + 1)
         /\ Backed(more, UpdateUTXO(cs, <<c, tx>>))
         /\ Piles(A, UpdateUTXO(cs, <<c, tx>>))
<1> DEFINE O == Coins(A)
           new == UpdateUTXO(cs, <<c, tx>>)
           u == Walk(txs)
           w == Walk(more)
<1>1. WholeInputs(txs) /\ Rewarded(txs, n) /\ Backed(txs, u)
  BY DEF Remains
<1>2. IsChainstate(cs, O) /\ s \in DOMAIN cs
  BY DEF Piles, PaysOne
<1>3. IsCoinbase(c)
  BY DEF IsReward, IsCoinbase, NewCoinbaseTX, NewTransaction
<1>4. ~IsCoinbase(tx)
  BY <1>2, PaymentSpends
<1>5. (\E in : TakesOnly(tx, in, s)) /\ PositionsOf(tx.vin) = Position(s)
  BY PaysOneInput
<1>6. PICK in : TakesOnly(tx, in, s)
  BY <1>5
<1>7. OneInput(tx, in) /\ in.txid = s /\ OneEach(tx.vin)
  BY <1>6 DEF TakesOnly
<1>8. /\ more \in Seq(TX)
      /\ OnTop(more, c, tx, txs)
      /\ tx.vin \in Seq(AllInputs(TX)) /\ InputsOf(txs) \in Seq(AllInputs(TX))
      /\ InputsOf(more) = tx.vin \o InputsOf(txs)
  BY <1>3, <1>4, InputsOfPaidChain, SMTT(60)
<1>9. WholeInputs(more)
  <2>1. WholeInputs(txs)
    BY <1>1
  <2>2. InputsOf(txs) \in Seq(AllInputs(TX))
    BY <1>8
  <2>3. tx.vin \in Seq(AllInputs(TX))
    BY <1>8
  <2>4. InputsOf(more) = tx.vin \o InputsOf(txs)
    BY <1>8
  <2> QED
    BY <1>6, <2>1, <2>2, <2>3, <2>4, WholeInputsGrow, ZenonT(60)
<1>10. Piles(A, u) /\ IsChainstate(u, O) /\ Single(TX, O)
  BY WholeTxType, WalkedByWhole
<1>11. IsChainstate(w, O)
  BY <1>8, WalkedByWhole
<1>12. /\ Spends(tx) = Position(s)
       /\ new = AddBlock(TakeOut(cs, Spends(tx)), c, tx)
  BY <1>2, <1>5, <1>7, PaymentBlock DEF IsReward, OneEach
<1>13. WholeTx(A, c) /\ WholeTx(A, tx) /\ TxShape(A, c) /\ TxShape(A, tx)
  BY DEF AllWhole, Shaped
<1>14. Len(c.vout) = 1 /\ Len(tx.vout) = 1
       /\ c.vout \in Seq(O) /\ tx.vout \in Seq(O)
       /\ PileOf(A, c.id, c.vout) /\ PileOf(A, tx.id, tx.vout)
       /\ c.vout # <<>> /\ tx.vout # <<>>
  BY <1>13, WholeTxType DEF TxShape
<1>15. Piles(A, new)
  <2> DEFINE left == TakeOut(cs, Spends(tx))
             some == Put(left, c.id, c.vout)
  <2>1. Piles(A, left)
    BY PilesTakeOut
  <2> HIDE DEF left
  <2>2. Piles(A, some)
    BY <1>14, <2>1, PilesPut
  <2> HIDE DEF some
  <2>3. Piles(A, Put(some, tx.id, tx.vout))
    BY <1>14, <2>2, PilesPut
  <2> QED
    BY <1>12, <2>3 DEF AddBlock, some, left
<1>16. \A id : Follows(new, cs, c, tx, s, id)
  <2> SUFFICES ASSUME NEW id PROVE Follows(new, cs, c, tx, s, id)
    OBVIOUS
  <2>1. Follows(AddBlock(TakeOut(cs, {<<s, 1>>}), c, tx), cs, c, tx, s, id)
    BY <1>2, <1>14, BlockCount
  <2> QED
    BY <1>12, <2>1 DEF Position
<1>17. \A id : Follows(w, u, c, tx, s, id) \/ Follows(w, cs, c, tx, s, id)
  <2> SUFFICES ASSUME NEW id PROVE Follows(w, u, c, tx, s, id) \/ Follows(w, cs, c, tx, s, id)
    OBVIOUS
  <2> DEFINE a == Adds(c, tx, id)
             x == CountOf(u, id)
             y == CountOf(cs, id)
             z == CountOf(w, id)
  <2>1. Spends(tx) = Position(s)
    BY <1>12
  <2>2. z = a + (IF id = s THEN 0 ELSE x)
    <3>1. more \in Seq(TX)
      BY <1>8
    <3>2. OnTop(more, c, tx, txs)
      BY <1>8
    <3>3. Single(TX, O)
      BY <1>10
    <3> HIDE DEF O
    <3>4. CountOf(Collected(more)[Len(more)].utxo, id) = Adds(c, tx, id)
            + (IF id = s THEN 0 ELSE CountOf(Collected(txs)[Len(txs)].utxo, id))
      BY <1>3, <2>1, <3>1, <3>2, <3>3, WalkCounts, SMTT(60)
    <3> QED
      BY <3>4 DEF Walk
  <2>3. x \in Nat /\ y \in Nat /\ (id = s => y >= 1) /\ a \in Nat
    <3>1. x \in Nat /\ y \in Nat /\ (id = s => y >= 1)
      BY <1>2, <1>10, CountType
    <3> QED
      BY <3>1 DEF Adds
  <2> HIDE DEF a, x, y, z
  <2>4. CASE id = s
    <3>1. z + 1 <= a + y
      BY <2>2, <2>3, <2>4
    <3> QED
      BY <2>4, <3>1 DEF Follows, a, y, z
  <2>5. CASE id # s
    <3>1. z + 0 <= a + x
      BY <2>2, <2>3, <2>5
    <3> QED
      BY <2>5, <3>1 DEF Follows, a, x, z
  <2> QED
    BY <2>4, <2>5
<1> HIDE DEF new, u, w, O
<1>18. IsChainstate(new, O)
  BY <1>15 DEF Piles, O
<1>19. Backed(more, new)
  <2>1. \A id : Follows(new, cs, c, tx, in.txid, id) \/ Follows(new, cs, c, tx, in.txid, id)
    BY <1>7, <1>16
  <2>2. OneInput(tx, in)
    BY <1>7
  <2> QED
    BY <1>2, <1>3, <1>4, <1>18, <2>1, <2>2, BackedGrows, SMTT(60)
<1>20. Backed(more, w)
  <2>1. \A id : Follows(w, u, c, tx, in.txid, id) \/ Follows(w, cs, c, tx, in.txid, id)
    BY <1>7, <1>17
  <2>2. OneInput(tx, in)
    BY <1>7
  <2>3. IsChainstate(u, O)
    BY <1>10
  <2>4. IsChainstate(cs, O)
    BY <1>2
  <2>5. Backed(txs, u)
    BY <1>1
  <2> QED
    BY <1>3, <1>4, <1>11, <2>1, <2>2, <2>3, <2>4, <2>5, BackedGrows, SMTT(60)
<1>21. Rewarded(more, n + 1)
  <2>1. Rewarded(txs, n)
    BY <1>1
  <2>2. OneInput(tx, in)
    BY <1>7
  <2>3. IsChainstate(cs, O)
    BY <1>2
  <2> QED
    BY <1>3, <1>4, <2>1, <2>2, <2>3, RewardedGrows, SMTT(60)
<1>22. Remains(A, more, n + 1)
  BY <1>9, <1>20, <1>21 DEF Remains, w
<1> QED
  BY <1>15, <1>19, <1>22 DEF new

LEMMA PaysOneIsWhole ==
  ASSUME NEW A, NEW cs, NEW tx, NEW from, NEW to \in A, NEW s, PaysOne(cs, tx, from, to, s)
  PROVE  WholeTx(A, tx)
<1> DEFINE vout == tx.vout
<1>1. vout = <<Piece(to)>> /\ vout = tx.id.vout
  BY DEF PaysOne
<1> HIDE DEF vout
<1>2. \E x \in A : vout = <<Piece(x)>>
  BY <1>1
<1> QED
  BY <1>1, <1>2 DEF WholeTx, vout

\* The transactions stored and those of the next block.
LEMMA CommonWhole ==
  ASSUME NEW A, NEW bs, WholeCarries(A, bs),
         NEW c, TxShape(A, c), WholeTx(A, c), NEW t, TxShape(A, t), WholeTx(A, t)
  PROVE  \E TX : Shaped(A, TX) /\ AllWhole(A, TX) /\ Carries(bs, TX) /\ c \in TX /\ t \in TX
<1>1. PICK TX : Shaped(A, TX) /\ AllWhole(A, TX) /\ Carries(bs, TX)
  BY DEF WholeCarries
<1> DEFINE all == TX \cup {c, t}
<1>2. Shaped(A, all) /\ AllWhole(A, all)
  BY <1>1 DEF Shaped, AllWhole
<1>3. Carries(bs, all)
  <2> SUFFICES ASSUME NEW k \in DOMAIN bs PROVE bs[k].txs \in Seq(all)
    BY DEF Carries
  <2> DEFINE txs == bs[k].txs
  <2>1. txs \in Seq(TX)
    BY <1>1 DEF Carries
  <2> HIDE DEF txs
  <2>2. txs \in Seq(all)
    BY <2>1
  <2> QED
    BY <2>2 DEF txs
<1> QED
  BY <1>2, <1>3

LEMMA PutKeepsWhole ==
  ASSUME NEW A, NEW bs, NEW TX, Shaped(A, TX), AllWhole(A, TX), Carries(bs, TX),
         NEW h, NEW B, B.txs \in Seq(TX)
  PROVE  WholeCarries(A, Put(bs, h, B))
<1> DEFINE new == Put(bs, h, B)
<1>1. Carries(new, TX)
  <2>1. /\ DOMAIN new = DOMAIN bs \cup {h}
        /\ new[h] = B
        /\ \A k \in DOMAIN bs : k # h => new[k] = bs[k]
    BY DEF Put
  <2> HIDE DEF new
  <2>2. \A k \in DOMAIN new : new[k] = B \/ (k \in DOMAIN bs /\ new[k] = bs[k])
    BY <2>1
  <2> QED
    BY <2>2 DEF Carries
<1> QED
  BY <1>1 DEF WholeCarries

\* The chain below t backs what is in the bucket.
WholeStore(A, bs, t, cs) ==
  /\ Closed(bs)
  /\ t \in DOMAIN bs \cup {NoBlock}
  /\ WholeChain(A, bs, t)
  /\ Piles(A, cs)
  /\ NoTx \notin DOMAIN cs
  /\ Backed(TransactionsOf(Branch(bs, t)), cs)

\* A reward and a payment that takes one output of the bucket.
WholePayment(A, cs, c, tx) ==
  \E from, to \in A, amount \in Nat :
    /\ IsPayment(A, cs, tx, from, to, amount)
    /\ IsReward(c, from)
    /\ \E s : PaysOne(cs, tx, from, to, s)

Mines(bs, t, h, B, c, tx) == FitsOn(bs, t, h, B) /\ B.txs = <<c, tx>>

StaysWhole(A, new, h, cs) ==
  /\ WholeChain(A, new, h)
  /\ Backed(TransactionsOf(Branch(new, h)), cs)
  /\ Piles(A, cs)

\* and of a block with such a payment on top of such a chain.  Updating the
\* bucket and walking the chain again may differ, but both stay backed.
LEMMA MinedIsWhole ==
  ASSUME NEW A, NEW bs, NEW t, NEW cs, WholeStore(A, bs, t, cs),
         NEW c, NEW tx, WholePayment(A, cs, c, tx),
         NEW h, NEW B, Mines(bs, t, h, B, c, tx)
  PROVE  StaysWhole(A, Put(bs, h, B), h, UpdateUTXO(cs, <<c, tx>>))
<1>a. Closed(bs) /\ t \in DOMAIN bs \cup {NoBlock} /\ WholeChain(A, bs, t)
      /\ Piles(A, cs) /\ NoTx \notin DOMAIN cs /\ FitsOn(bs, t, h, B) /\ B.txs = <<c, tx>>
  BY DEF WholeStore, Mines
<1>b. PICK from \in A, to \in A, amount \in Nat :
        /\ IsPayment(A, cs, tx, from, to, amount)
        /\ IsReward(c, from)
        /\ \E s : PaysOne(cs, tx, from, to, s)
  BY DEF WholePayment
<1>c. PICK s : PaysOne(cs, tx, from, to, s)
  BY <1>b
<1> DEFINE new == Put(bs, h, B)
           two == <<c, tx>>
           txs == TransactionsOf(Branch(bs, t))
           more == TransactionsOf(Branch(new, h))
           cs1 == UpdateUTXO(cs, two)
           n == Cardinality(DOMAIN bs)
<1>1. TxShape(A, c) /\ TxShape(A, tx) /\ WholeTx(A, c) /\ WholeTx(A, tx)
  BY <1>b, <1>c, RewardShape, RewardIsWhole, PaymentShape, PaysOneIsWhole DEF IsReward
<1>2. WholeCarries(A, bs)
  BY <1>a DEF WholeChain
<1>3. PICK TX : Shaped(A, TX) /\ AllWhole(A, TX) /\ Carries(bs, TX) /\ c \in TX /\ tx \in TX
  BY <1>1, <1>2, CommonWhole
<1>4. B.txs \in Seq(TX)
  BY <1>a, <1>3
<1>5. txs \in Seq(TX) /\ Stacks(more, c, tx, txs)
  <2>1. Lengthens(bs, t, h, B)
    BY <1>a, <1>3, <1>4, ChainGrows
  <2> QED
    BY <1>a, <1>3, <2>1, ChainTransactions DEF Mines, Stacks, Lengthens
<1>6. WholeCarries(A, new)
  BY <1>3, <1>4, PutKeepsWhole
<1>7. Remains(A, txs, n)
  BY <1>a DEF WholeChain, Remains, FindUTXO, Walk
<1>8. n \in Nat /\ Cardinality(DOMAIN new) = n + 1
  <2>1. DOMAIN new = DOMAIN bs \cup {h}
    BY PutFacts DEF new
  <2> QED
    BY <1>a, <2>1, FS_AddElement, FS_CardinalityType DEF Closed, FitsOn
<1>9. Backed(txs, cs)
  BY DEF WholeStore
<1> HIDE DEF new, txs, more, n
<1>10. Remains(A, more, n + 1) /\ Backed(more, cs1) /\ Piles(A, cs1)
  <2>1. n \in Int
    BY <1>8
  <2>2. txs \in Seq(TX)
    BY <1>5
  <2>3. Stacks(more, c, tx, txs)
    BY <1>5
  <2>4. Shaped(A, TX)
    BY <1>3
  <2>5. AllWhole(A, TX)
    BY <1>3
  <2> QED
    BY <1>a, <1>b, <1>c, <1>3, <1>7, <1>9, <2>1, <2>2, <2>3, <2>4, <2>5, WholeOnTop, SMTT(60)
<1>11. WholeChain(A, new, h)
  BY <1>6, <1>8, <1>10 DEF WholeChain, Remains, FindUTXO, Walk, more
<1> QED
  BY <1>10, <1>11 DEF new, more, StaysWhole

\* A bucket that such a chain backs is worth no more than what was mined,
LEMMA WholeBounds ==
  ASSUME NEW A, NEW bs, Closed(bs), NEW t \in DOMAIN bs \cup {NoBlock}, WholeChain(A, bs, t),
         NEW u, Piles(A, u), Backed(TransactionsOf(Branch(bs, t)), u)
  PROVE  Total(u) <= Subsidy * Cardinality(DOMAIN bs)
<1> DEFINE txs == TransactionsOf(Branch(bs, t))
           n == Cardinality(DOMAIN bs)
<1>1. PICK TX : Shaped(A, TX) /\ Carries(bs, TX)
  BY DEF WholeChain, WholeCarries
<1>2. txs \in Seq(TX) /\ Rewarded(txs, n) /\ Backed(txs, u)
  BY <1>1, ChainTransactions DEF WholeChain
<1>3. n \in Int
  BY FS_CardinalityType DEF Closed
<1> HIDE DEF txs, n
<1>4. Total(u) <= Subsidy * n
  BY <1>1, <1>2, <1>3, RewardedBounds
<1> QED
  BY <1>4 DEF n

\* as the empty one is, and the one that Reindex fills.
LEMMA WholeWalk ==
  ASSUME NEW A, NEW bs, Closed(bs), NEW t \in DOMAIN bs \cup {NoBlock}, WholeChain(A, bs, t)
  PROVE  /\ Piles(A, FindUTXO(Branch(bs, t)))
         /\ Backed(TransactionsOf(Branch(bs, t)), <<>>)
<1> DEFINE txs == TransactionsOf(Branch(bs, t))
           u == Walk(txs)
           O == Coins(A)
<1>1. PICK TX : Shaped(A, TX) /\ AllWhole(A, TX) /\ Carries(bs, TX)
  BY DEF WholeChain, WholeCarries
<1>2. txs \in Seq(TX) /\ Backed(txs, u)
  BY <1>1, ChainTransactions DEF WholeChain, FindUTXO, Walk
<1>3. FindUTXO(Branch(bs, t)) = u
  BY DEF FindUTXO, Walk
<1> HIDE DEF txs
<1>4. Piles(A, u) /\ IsChainstate(u, O)
  BY <1>1, <1>2, WalkedByWhole
<1> HIDE DEF u, O
<1>5. Backed(txs, <<>>)
  BY <1>1, <1>2, <1>4, NothingBacked
<1> QED
  BY <1>3, <1>4, <1>5 DEF txs

\* No output of such a chain is spent more often than it was made.
LEMMA WholeSpendsOnce ==
  ASSUME NEW A, NEW bs, Closed(bs), NEW t \in DOMAIN bs \cup {NoBlock}, WholeChain(A, bs, t)
  PROVE  LET txs == TransactionsOf(Branch(bs, t))
             ins == InputsOf(txs)
         IN  \A in \in ToSet(ins) : Spent(in.txid, in.vout, ins) <= Made(in.txid, txs)
<1> DEFINE txs == TransactionsOf(Branch(bs, t))
           ins == InputsOf(txs)
<1>1. PICK TX : Shaped(A, TX) /\ Carries(bs, TX)
  BY DEF WholeChain, WholeCarries
<1>2. txs \in Seq(TX) /\ Backed(txs, <<>>) /\ WholeInputs(txs)
  BY <1>1, ChainTransactions, WholeWalk DEF WholeChain
<1> DEFINE I == AllInputs(TX)
<1> HIDE DEF txs
<1>3. ins \in Seq(I)
  <2>1. \A tx \in TX : tx.vin \in Seq(I)
    BY <1>1, AllInputsType
  <2> HIDE DEF I
  <2> QED
    BY <1>2, <2>1, InputsType
<1>4. ASSUME NEW in \in ToSet(ins) PROVE Spent(in.txid, in.vout, ins) <= Made(in.txid, txs)
  <2> DEFINE id == in.txid
             n == Spent(id, 1, ins)
             m == Made(id, txs)
  <2>1. in.vout = 1
    BY <1>2 DEF WholeInputs
  <2> HIDE DEF id
  <2>2. n \in Nat /\ m \in Nat
    <3> HIDE DEF ins, I
    <3> QED
      BY <1>2, <1>3, SpentConcat, MadeConcat
  <2>3. n + 0 <= m
    BY <1>2, NoneMade DEF Backed
  <2> HIDE DEF n, m, ins
  <2>4. n <= m
    BY <2>2, <2>3
  <2> QED
    BY <2>1, <2>4 DEF n, m, id
<1> QED
  BY <1>4 DEF txs

\* Every input takes what its signer owned.
LEMMA WholeSpendsOwn ==
  ASSUME NEW txs, WholeInputs(txs)
  PROVE  OwnSpending(txs)
<1> SUFFICES ASSUME NEW in \in ToSet(InputsOf(txs))
             PROVE  in.vout \in DOMAIN in.txid.vout /\ in.txid.vout[in.vout].owner = in.pubKey
  BY DEF OwnSpending
<1>1. in.vout = 1 /\ in.txid.vout = <<Piece(in.pubKey)>>
  BY DEF WholeInputs
<1> QED
  BY <1>1 DEF Piece
=============================================================================
