----------------------------- MODULE CodecProofs -----------------------------
(***************************************************************************)
(* Theorems about Codec, for every base, every length of ids and every     *)
(* item.                                                                   *)
(***************************************************************************)
EXTENDS Codec, LedgerProofs

\* Two recursions that take the same steps agree.
SameSteps(g, h, n) ==
  g[0] = h[0] /\ \A k \in 0..(n - 1) : g[k] = h[k] => g[k + 1] = h[k + 1]

LEMMA StepsAgree ==
  ASSUME NEW g, NEW h, NEW n \in Nat, SameSteps(g, h, n)
  PROVE  \A k \in 0..n : g[k] = h[k]
<1> DEFINE S == {k \in 0..n : g[k] = h[k]}
<1>1. 0 \in S
  BY DEF SameSteps
<1>2. \A k \in 0..(n - 1) : k \in S => k + 1 \in S
  BY DEF SameSteps
<1> HIDE DEF S
<1>3. 0..n \subseteq S
  BY <1>1, <1>2, UpToInduction
<1> QED
  BY <1>3 DEF S

-----------------------------------------------------------------------------
(* Repeated division *)

DividedStep(v, base, g, k) == IF k = 0 THEN v ELSE g[k - 1] \div base

AreDivided(v, base, N, g) == g = [k \in 0..N |-> DividedStep(v, base, g, k)]

\* The recursion that Divided names has a solution.
LEMMA DividedExists ==
  ASSUME NEW v, NEW base, NEW N \in Nat
  PROVE  \E g : AreDivided(v, base, N, g)
<1> DEFINE G == {n \in Nat : \E g : AreDivided(v, base, n, g)}
<1>1. 0 \in G
  <2> DEFINE g == [k \in 0..0 |-> v]
  <2>1. \A k \in 0..0 : DividedStep(v, base, g, k) = v
    BY DEF DividedStep
  <2> HIDE DEF g
  <2>2. AreDivided(v, base, 0, g)
    BY <2>1 DEF AreDivided, g
  <2> QED
    BY <2>2
<1>2. \A n \in G : n + 1 \in G
  <2> SUFFICES ASSUME NEW n \in Nat, NEW g, AreDivided(v, base, n, g) PROVE n + 1 \in G
    OBVIOUS
  <2> DEFINE h == [m \in 0..(n + 1) |-> DividedStep(v, base, g, m)]
  <2>1. \A m \in 0..n : h[m] = g[m]
    BY DEF AreDivided
  <2>2. \A m \in 0..(n + 1) : h[m] = DividedStep(v, base, g, m)
    OBVIOUS
  <2>3. \A m \in 0..(n + 1) : DividedStep(v, base, g, m) = DividedStep(v, base, h, m)
    <3> HIDE DEF h
    <3> QED
      BY <2>1 DEF DividedStep
  <2>4. h = [m \in 0..(n + 1) |-> h[m]]
    OBVIOUS
  <2> HIDE DEF h
  <2>5. AreDivided(v, base, n + 1, h)
    BY <2>2, <2>3, <2>4 DEF AreDivided
  <2> QED
    BY <2>5
<1>3. G = Nat
  <2> HIDE DEF G
  <2> QED
    BY <1>1, <1>2, SetInduction DEF G
<1> QED
  BY <1>3

Divisions(v, base, N) == CHOOSE g : AreDivided(v, base, N, g)

LEMMA DivisionsDef ==
  ASSUME NEW v, NEW base, NEW n \in Nat
  PROVE  /\ Divided(v, base, n) = Divisions(v, base, n)[n]
         /\ Divisions(v, base, n)[0] = v
         /\ \A k \in 1..n : Divisions(v, base, n)[k] = Divisions(v, base, n)[k - 1] \div base
<1>1. \E g : AreDivided(v, base, n, g)
  BY DividedExists
<1>2. AreDivided(v, base, n, Divisions(v, base, n))
  BY <1>1, Zenon DEF Divisions
<1>3. Divided(v, base, n) = Divisions(v, base, n)[n]
  BY DEF Divided, Divisions, AreDivided, DividedStep
<1>4. \A k \in 0..n : Divisions(v, base, n)[k] = DividedStep(v, base, Divisions(v, base, n), k)
  BY <1>2 DEF AreDivided
<1> QED
  BY <1>3, <1>4 DEF DividedStep

LEMMA DividedZero ==
  ASSUME NEW v, NEW base
  PROVE  Divided(v, base, 0) = v
BY DivisionsDef

\* One division more.
LEMMA DividedNext ==
  ASSUME NEW v, NEW base, NEW n \in Nat
  PROVE  Divided(v, base, n + 1) = Divided(v, base, n) \div base
<1> DEFINE g == Divisions(v, base, n)
           h == Divisions(v, base, n + 1)
<1>1. n + 1 \in Nat /\ (n + 1) - 1 = n /\ n + 1 \in 1..(n + 1) /\ n \in 0..n
  OBVIOUS
<1>2. /\ Divided(v, base, n) = g[n] /\ g[0] = v
      /\ \A k \in 1..n : g[k] = g[k - 1] \div base
  BY DivisionsDef
<1>3. /\ Divided(v, base, n + 1) = h[n + 1] /\ h[0] = v
      /\ \A k \in 1..(n + 1) : h[k] = h[k - 1] \div base
  BY <1>1, DivisionsDef
<1> HIDE DEF g, h
<1>4. ASSUME NEW k \in 0..(n - 1), g[k] = h[k] PROVE g[k + 1] = h[k + 1]
  <2>1. k + 1 \in 1..n /\ k + 1 \in 1..(n + 1) /\ (k + 1) - 1 = k
    OBVIOUS
  <2>2. g[k + 1] = g[k] \div base
    BY <1>2, <2>1
  <2>3. h[k + 1] = h[k] \div base
    BY <1>3, <2>1
  <2> QED
    BY <1>4, <2>2, <2>3
<1>5. SameSteps(g, h, n)
  BY <1>2, <1>3, <1>4 DEF SameSteps
<1>6. g[n] = h[n]
  BY <1>1, <1>5, StepsAgree
<1>7. h[n + 1] = h[n] \div base
  BY <1>1, <1>3
<1> QED
  BY <1>2, <1>3, <1>6, <1>7

\* Quotient and remainder.
LEMMA DivMod ==
  ASSUME NEW v \in Nat, NEW base \in Nat \ {0, 1}
  PROVE  /\ v \div base \in Nat
         /\ v % base \in 0..(base - 1)
         /\ v = (v \div base) * base + (v % base)
         /\ v > 0 => v \div base < v
OBVIOUS

LEMMA DivModUnique ==
  ASSUME NEW q \in Nat, NEW base \in Nat \ {0, 1}, NEW r \in 0..(base - 1)
  PROVE  (q * base + r) \div base = q /\ (q * base + r) % base = r
OBVIOUS

LEMMA DividedType ==
  ASSUME NEW v \in Nat, NEW base \in Nat \ {0, 1}, NEW n \in Nat
  PROVE  Divided(v, base, n) \in Nat
<1> DEFINE S == {k \in Nat : Divided(v, base, k) \in Nat}
<1>1. 0 \in S
  BY DividedZero
<1>2. ASSUME NEW k \in S PROVE k + 1 \in S
  <2>1. Divided(v, base, k + 1) = Divided(v, base, k) \div base
    BY DividedNext
  <2> QED
    BY <2>1, DivMod
<1>3. S \in SUBSET Nat
  OBVIOUS
<1> HIDE DEF S
<1>4. S = Nat
  BY <1>1, <1>2, <1>3, SetInduction
<1> QED
  BY <1>4 DEF S

\* It makes no difference whether the division more comes first or last.
LEMMA DividedFirst ==
  ASSUME NEW v, NEW base, NEW n \in Nat
  PROVE  Divided(v, base, n + 1) = Divided(v \div base, base, n)
<1> DEFINE w == v \div base
           S == {k \in Nat : Divided(v, base, k + 1) = Divided(w, base, k)}
<1>1. 0 \in S
  <2>1. Divided(v, base, 0 + 1) = Divided(v, base, 0) \div base
    BY DividedNext
  <2>2. Divided(v, base, 0) = v /\ Divided(w, base, 0) = w
    BY DividedZero
  <2> QED
    BY <2>1, <2>2
<1> HIDE DEF w
<1>2. ASSUME NEW k \in S PROVE k + 1 \in S
  <2>1. k \in Nat /\ k + 1 \in Nat
    OBVIOUS
  <2>2. Divided(v, base, (k + 1) + 1) = Divided(v, base, k + 1) \div base
    BY <2>1, DividedNext
  <2>3. Divided(w, base, k + 1) = Divided(w, base, k) \div base
    BY <2>1, DividedNext
  <2> QED
    BY <2>1, <2>2, <2>3
<1>3. S \in SUBSET Nat
  OBVIOUS
<1> HIDE DEF S
<1>4. S = Nat
  BY <1>1, <1>2, <1>3, SetInduction
<1> QED
  BY <1>4 DEF S, w

\* Every division takes something away, so v of them leave nothing.
LEMMA DividedEnds ==
  ASSUME NEW v \in Nat, NEW base \in Nat \ {0, 1}
  PROVE  Divided(v, base, v) = 0
<1> DEFINE S == {k \in Nat : Divided(v, base, k) = 0 \/ Divided(v, base, k) + k <= v}
<1>1. 0 \in S
  BY DividedZero
<1>2. ASSUME NEW k \in S PROVE k + 1 \in S
  <2> DEFINE d == Divided(v, base, k)
             e == Divided(v, base, k + 1)
  <2>1. e = d \div base /\ d \in Nat
    BY DividedNext, DividedType
  <2>2. k \in Nat /\ (d = 0 \/ d + k <= v)
    OBVIOUS
  <2> HIDE DEF d, e
  <2>3. e \in Nat /\ (d = 0 => e = 0) /\ (d > 0 => e < d)
    <3>1. d \div base \in Nat /\ (d > 0 => d \div base < d)
      BY <2>1, DivMod
    <3>2. 0 \div base = 0
      OBVIOUS
    <3> QED
      BY <2>1, <3>1, <3>2
  <2>4. e = 0 \/ e + (k + 1) <= v
    BY <2>1, <2>2, <2>3
  <2> QED
    BY <2>2, <2>4 DEF e
<1>3. S \in SUBSET Nat
  OBVIOUS
<1> HIDE DEF S
<1>4. S = Nat
  BY <1>1, <1>2, <1>3, SetInduction
<1>5. v \in S /\ Divided(v, base, v) \in Nat
  BY <1>4, DividedType
<1> QED
  BY <1>5 DEF S

-----------------------------------------------------------------------------
(* Digits *)

Leaves(v, base, n) ==
  Divided(v, base, n) = 0 /\ \A k \in 0..(n - 1) : Divided(v, base, k) # 0

DigitCount(v, base) == CHOOSE n \in 0..v : Leaves(v, base, n)

LEMMA DigitsDef ==
  ASSUME NEW v, NEW base
  PROVE  Digits(v, base) =
           [i \in 1..DigitCount(v, base) |-> Divided(v, base, DigitCount(v, base) - i) % base]
BY Zenon DEF Digits, DigitCount, Leaves

LEMMA DigitCountDef ==
  ASSUME NEW v \in Nat, NEW base \in Nat \ {0, 1}
  PROVE  DigitCount(v, base) \in 0..v /\ Leaves(v, base, DigitCount(v, base))
<1> DEFINE S == {n \in Nat : Divided(v, base, n) = 0}
<1>1. v \in S
  BY DividedEnds
<1>2. S \in SUBSET Nat /\ S # {}
  BY <1>1
<1> HIDE DEF S
<1>3. PICK n \in S : \A m \in S : n <= m
  BY <1>2, NatMin
<1>4. n \in 0..v
  BY <1>1, <1>2, <1>3
<1>5. Leaves(v, base, n)
  BY <1>3, <1>4 DEF S, Leaves
<1> QED
  BY <1>4, <1>5, Zenon DEF DigitCount

LEMMA LeavesOnce ==
  ASSUME NEW v, NEW base, NEW m \in Nat, NEW n \in Nat, Leaves(v, base, m), Leaves(v, base, n)
  PROVE  m = n
<1>1. CASE m < n
  <2>1. m \in 0..(n - 1)
    BY <1>1
  <2> QED
    BY <2>1 DEF Leaves
<1>2. CASE n < m
  <2>1. n \in 0..(m - 1)
    BY <1>2
  <2> QED
    BY <2>1 DEF Leaves
<1> QED
  BY <1>1, <1>2

LEMMA DigitsZero ==
  ASSUME NEW base \in Nat \ {0, 1}
  PROVE  Digits(0, base) = <<>>
<1>1. DigitCount(0, base) = 0
  BY DigitCountDef
<1> QED
  BY <1>1, DigitsDef

LEMMA DigitCountNext ==
  ASSUME NEW v \in Nat, NEW base \in Nat \ {0, 1}, v > 0
  PROVE  DigitCount(v, base) = DigitCount(v \div base, base) + 1
<1> DEFINE w == v \div base
           c == DigitCount(w, base)
<1>1. w \in Nat
  BY DivMod
<1>2. c \in Nat /\ Leaves(w, base, c)
  BY <1>1, DigitCountDef
<1>3. \A k \in Nat : Divided(v, base, k + 1) = Divided(w, base, k)
  BY DividedFirst
<1>4. Divided(v, base, 0) = v
  BY DividedZero
<1> HIDE DEF w, c
<1>5. Divided(v, base, c + 1) = 0
  BY <1>2, <1>3 DEF Leaves
<1>6. ASSUME NEW k \in 0..((c + 1) - 1) PROVE Divided(v, base, k) # 0
  <2>1. CASE k = 0
    BY <1>4, <2>1
  <2>2. CASE k # 0
    <3>1. k - 1 \in Nat /\ (k - 1) + 1 = k /\ k - 1 \in 0..(c - 1)
      BY <1>2, <2>2
    <3>2. Divided(v, base, (k - 1) + 1) = Divided(w, base, k - 1)
      BY <1>3, <3>1
    <3> QED
      BY <1>2, <3>1, <3>2 DEF Leaves
  <2> QED
    BY <2>1, <2>2
<1>7. Leaves(v, base, c + 1)
  BY <1>5, <1>6 DEF Leaves
<1>8. DigitCount(v, base) \in Nat /\ Leaves(v, base, DigitCount(v, base))
  BY DigitCountDef
<1>9. DigitCount(v, base) = c + 1
  BY <1>2, <1>7, <1>8, LeavesOnce
<1> QED
  BY <1>9 DEF c, w

\* The last digit is the remainder, the others are those of the quotient.
LEMMA DigitsNext ==
  ASSUME NEW v \in Nat, NEW base \in Nat \ {0, 1}, v > 0
  PROVE  Digits(v, base) = Append(Digits(v \div base, base), v % base)
<1> DEFINE w == v \div base
           c == DigitCount(w, base)
           s == Digits(w, base)
<1>1. w \in Nat
  BY DivMod
<1>2. c \in Nat
  BY <1>1, DigitCountDef
<1>3. \A k \in Nat : Divided(v, base, k + 1) = Divided(w, base, k)
  BY DividedFirst
<1>4. Divided(v, base, 0) = v
  BY DividedZero
<1>5. Digits(v, base) = [i \in 1..(c + 1) |-> Divided(v, base, (c + 1) - i) % base]
  BY DigitsDef, DigitCountNext
<1>6. s = [i \in 1..c |-> Divided(w, base, c - i) % base]
  BY DigitsDef
<1> HIDE DEF w, c, s
<1>7. ASSUME NEW i \in 1..c PROVE Divided(v, base, (c + 1) - i) = Divided(w, base, c - i)
  <2>1. c - i \in Nat /\ (c - i) + 1 = (c + 1) - i
    BY <1>2
  <2> QED
    BY <1>3, <2>1
<1>8. Len(s) = c
  BY <1>2, <1>6
<1>9. Append(s, v % base) = [i \in 1..(c + 1) |-> IF i = c + 1 THEN v % base ELSE s[i]]
  BY <1>8
<1>10. ASSUME NEW i \in 1..(c + 1)
       PROVE  Divided(v, base, (c + 1) - i) % base = IF i = c + 1 THEN v % base ELSE s[i]
  <2>1. CASE i = c + 1
    <3>1. (c + 1) - i = 0
      BY <1>2, <2>1
    <3> QED
      BY <1>4, <2>1, <3>1
  <2>2. CASE i # c + 1
    <3>1. i \in 1..c
      BY <1>2, <2>2
    <3> QED
      BY <1>6, <1>7, <2>2, <3>1
  <2> QED
    BY <2>1, <2>2
<1>11. Digits(v, base) = Append(s, v % base)
  BY <1>5, <1>9, <1>10
<1> QED
  BY <1>11 DEF s, w

-----------------------------------------------------------------------------
(* Numbers *)

NumberStep(digits, base, g, k) == IF k = 0 THEN 0 ELSE g[k - 1] * base + digits[k]

AreSums(digits, base, N, g) == g = [k \in 0..N |-> NumberStep(digits, base, g, k)]

\* The recursion that Number names has a solution.
LEMMA NumberExists ==
  ASSUME NEW digits, NEW base, NEW N \in Nat
  PROVE  \E g : AreSums(digits, base, N, g)
<1> DEFINE G == {n \in Nat : \E g : AreSums(digits, base, n, g)}
<1>1. 0 \in G
  <2> DEFINE g == [k \in 0..0 |-> 0]
  <2>1. \A k \in 0..0 : NumberStep(digits, base, g, k) = 0
    BY DEF NumberStep
  <2> HIDE DEF g
  <2>2. AreSums(digits, base, 0, g)
    BY <2>1 DEF AreSums, g
  <2> QED
    BY <2>2
<1>2. \A n \in G : n + 1 \in G
  <2> SUFFICES ASSUME NEW n \in Nat, NEW g, AreSums(digits, base, n, g) PROVE n + 1 \in G
    OBVIOUS
  <2> DEFINE h == [m \in 0..(n + 1) |-> NumberStep(digits, base, g, m)]
  <2>1. \A m \in 0..n : h[m] = g[m]
    BY DEF AreSums
  <2>2. \A m \in 0..(n + 1) : h[m] = NumberStep(digits, base, g, m)
    OBVIOUS
  <2>3. \A m \in 0..(n + 1) : NumberStep(digits, base, g, m) = NumberStep(digits, base, h, m)
    <3> HIDE DEF h
    <3> QED
      BY <2>1 DEF NumberStep
  <2>4. h = [m \in 0..(n + 1) |-> h[m]]
    OBVIOUS
  <2> HIDE DEF h
  <2>5. AreSums(digits, base, n + 1, h)
    BY <2>2, <2>3, <2>4 DEF AreSums
  <2> QED
    BY <2>5
<1>3. G = Nat
  <2> HIDE DEF G
  <2> QED
    BY <1>1, <1>2, SetInduction DEF G
<1> QED
  BY <1>3

Sums(digits, base) == CHOOSE g : AreSums(digits, base, Len(digits), g)

LEMMA SumsDef ==
  ASSUME NEW digits, NEW base, Len(digits) \in Nat
  PROVE  /\ Number(digits, base) = Sums(digits, base)[Len(digits)]
         /\ Sums(digits, base)[0] = 0
         /\ \A k \in 1..Len(digits) :
              Sums(digits, base)[k] = Sums(digits, base)[k - 1] * base + digits[k]
<1>1. \E g : AreSums(digits, base, Len(digits), g)
  BY NumberExists
<1>2. AreSums(digits, base, Len(digits), Sums(digits, base))
  BY <1>1, Zenon DEF Sums
<1>3. Number(digits, base) = Sums(digits, base)[Len(digits)]
  BY DEF Number, Sums, AreSums, NumberStep
<1>4. \A k \in 0..Len(digits) : Sums(digits, base)[k] = NumberStep(digits, base, Sums(digits, base), k)
  BY <1>2 DEF AreSums
<1> QED
  BY <1>3, <1>4 DEF NumberStep

LEMMA NumberEmpty ==
  ASSUME NEW base
  PROVE  Number(<<>>, base) = 0
<1>1. Len(<<>>) = 0
  OBVIOUS
<1> QED
  BY <1>1, SumsDef

\* One digit more.
LEMMA NumberAppend ==
  ASSUME NEW T, NEW s \in Seq(T), NEW d \in T, NEW base
  PROVE  Number(Append(s, d), base) = Number(s, base) * base + d
<1> DEFINE t == Append(s, d)
           n == Len(s)
           g == Sums(s, base)
           h == Sums(t, base)
<1>1. /\ n \in Nat /\ Len(t) = n + 1 /\ t[n + 1] = d
      /\ \A k \in 1..n : t[k] = s[k]
  BY AppendProperties
<1>2. /\ Number(s, base) = g[n] /\ g[0] = 0
      /\ \A k \in 1..n : g[k] = g[k - 1] * base + s[k]
  BY <1>1, SumsDef
<1>3. /\ Number(t, base) = h[n + 1] /\ h[0] = 0
      /\ \A k \in 1..(n + 1) : h[k] = h[k - 1] * base + t[k]
  <2>1. Len(t) \in Nat
    BY <1>1
  <2> HIDE DEF t, h, n
  <2> QED
    BY <1>1, <2>1, SumsDef DEF h
<1> HIDE DEF t, n, g, h
<1>4. ASSUME NEW k \in 0..(n - 1), g[k] = h[k] PROVE g[k + 1] = h[k + 1]
  <2>1. k + 1 \in 1..n /\ k + 1 \in 1..(n + 1) /\ (k + 1) - 1 = k
    BY <1>1
  <2>2. g[k + 1] = g[k] * base + s[k + 1]
    BY <1>2, <2>1
  <2>3. h[k + 1] = h[k] * base + t[k + 1]
    BY <1>3, <2>1
  <2>4. t[k + 1] = s[k + 1]
    BY <1>1, <2>1
  <2> QED
    BY <1>4, <2>2, <2>3, <2>4
<1>5. SameSteps(g, h, n)
  BY <1>2, <1>3, <1>4 DEF SameSteps
<1>6. g[n] = h[n]
  BY <1>1, <1>5, StepsAgree
<1>7. h[n + 1] = h[n] * base + d
  BY <1>1, <1>3
<1> QED
  BY <1>2, <1>3, <1>6, <1>7 DEF t

\* A set with the empty list and every list in it made longer holds all lists.
LEMMA ListInduction ==
  ASSUME NEW T, NEW S, <<>> \in S, \A s \in Seq(T), d \in T : s \in S => Append(s, d) \in S
  PROVE  Seq(T) \subseteq S
<1> DEFINE N == {n \in Nat : \A s \in Seq(T) : Len(s) = n => s \in S}
<1>1. 0 \in N
  <2>1. \A s \in Seq(T) : Len(s) = 0 => s = <<>>
    OBVIOUS
  <2> QED
    BY <2>1
<1>2. ASSUME NEW n \in N PROVE n + 1 \in N
  <2> SUFFICES ASSUME NEW s \in Seq(T), Len(s) = n + 1 PROVE s \in S
    OBVIOUS
  <2>1. n \in Nat
    OBVIOUS
  <2>2. s # <<>>
    BY <2>1
  <2> DEFINE t == SubSeq(s, 1, Len(s) - 1)
             d == s[Len(s)]
  <2>3. t \in Seq(T) /\ Len(t) = n
    BY <2>1
  <2>4. d \in T /\ s = Append(t, d)
    BY <2>1, <2>2
  <2> HIDE DEF t, d
  <2>5. t \in S
    BY <2>3
  <2> QED
    BY <2>3, <2>4, <2>5
<1>3. N \in SUBSET Nat
  OBVIOUS
<1> HIDE DEF N
<1>4. N = Nat
  BY <1>1, <1>2, <1>3, SetInduction
<1>5. ASSUME NEW s \in Seq(T) PROVE s \in S
  <2>1. Len(s) \in N
    BY <1>4
  <2> QED
    BY <2>1 DEF N
<1> QED
  BY <1>5

Digit(base) == 0..(base - 1)

LEMMA NumberType ==
  ASSUME NEW base \in Nat \ {0, 1}, NEW s \in Seq(Digit(base))
  PROVE  Number(s, base) \in Nat
<1> DEFINE D == Digit(base)
           S == {t \in Seq(D) : Number(t, base) \in Nat}
<1>1. <<>> \in S
  BY NumberEmpty
<1>2. ASSUME NEW t \in Seq(D), NEW d \in D, t \in S PROVE Append(t, d) \in S
  <2>1. Number(Append(t, d), base) = Number(t, base) * base + d
    BY NumberAppend
  <2>2. d \in Nat /\ Number(t, base) \in Nat /\ Append(t, d) \in Seq(D)
    BY <1>2 DEF Digit
  <2> QED
    BY <2>1, <2>2
<1> HIDE DEF D, S
<1>3. Seq(D) \subseteq S
  BY <1>1, <1>2, ListInduction
<1> QED
  BY <1>3 DEF S, D

\* The digits of a number make the number.
LEMMA NumberOfDigits ==
  ASSUME NEW v \in Nat, NEW base \in Nat \ {0, 1}
  PROVE  Digits(v, base) \in Seq(Digit(base)) /\ Number(Digits(v, base), base) = v
<1> DEFINE Good(w) == Digits(w, base) \in Seq(Digit(base)) /\ Number(Digits(w, base), base) = w
           S == {n \in Nat : \A w \in 0..n : Good(w)}
<1>1. Good(0)
  <2>1. Digits(0, base) = <<>> /\ Number(<<>>, base) = 0
    BY DigitsZero, NumberEmpty
  <2>2. <<>> \in Seq(Digit(base))
    OBVIOUS
  <2> QED
    BY <2>1, <2>2
<1>2. ASSUME NEW w \in Nat, w > 0, Good(w \div base) PROVE Good(w)
  <2> DEFINE q == w \div base
             r == w % base
  <2>1. q \in Nat /\ r \in Digit(base) /\ w = q * base + r
    BY DivMod DEF Digit
  <2>2. Digits(w, base) = Append(Digits(q, base), r)
    BY <1>2, DigitsNext
  <2>3. Digits(q, base) \in Seq(Digit(base)) /\ Number(Digits(q, base), base) = q
    BY <1>2
  <2> HIDE DEF q, r
  <2>4. Number(Append(Digits(q, base), r), base) = q * base + r
    BY <2>1, <2>3, NumberAppend
  <2>5. Append(Digits(q, base), r) \in Seq(Digit(base))
    BY <2>1, <2>3
  <2> QED
    BY <2>1, <2>2, <2>4, <2>5
<1> HIDE DEF Good
<1>3. 0 \in S
  BY <1>1
<1>4. ASSUME NEW n \in S PROVE n + 1 \in S
  <2>1. n \in Nat /\ n + 1 \in Nat /\ n + 1 > 0
    OBVIOUS
  <2>2. (n + 1) \div base \in 0..n
    BY <2>1, DivMod
  <2>3. Good((n + 1) \div base)
    BY <2>2
  <2>4. Good(n + 1)
    BY <1>2, <2>1, <2>3
  <2> QED
    BY <2>1, <2>4
<1>5. S \in SUBSET Nat
  OBVIOUS
<1> HIDE DEF S
<1>6. S = Nat
  BY <1>3, <1>4, <1>5, SetInduction
<1>7. Good(v)
  BY <1>6 DEF S
<1> QED
  BY <1>7 DEF Good

-----------------------------------------------------------------------------
(* Leading zeros *)

ZerosAhead(s, n) == (\A i \in 1..n : s[i] = 0) /\ (n < Len(s) => s[n + 1] # 0)

LEMMA ZerosOnce ==
  ASSUME NEW s, Len(s) \in Nat, NEW m \in 0..Len(s), NEW n \in 0..Len(s),
         ZerosAhead(s, m), ZerosAhead(s, n)
  PROVE  m = n
<1>1. CASE m < n
  <2>1. m < Len(s) /\ m + 1 \in 1..n
    BY <1>1
  <2> QED
    BY <2>1 DEF ZerosAhead
<1>2. CASE n < m
  <2>1. n < Len(s) /\ n + 1 \in 1..m
    BY <1>2
  <2> QED
    BY <2>1 DEF ZerosAhead
<1> QED
  BY <1>1, <1>2

\* Whatever counts the zeros is LeadingZeros.
LEMMA LeadingZerosIs ==
  ASSUME NEW s, Len(s) \in Nat, NEW n \in 0..Len(s), ZerosAhead(s, n)
  PROVE  LeadingZeros(s) = n
<1>1. LeadingZeros(s) \in 0..Len(s) /\ ZerosAhead(s, LeadingZeros(s))
  <2>1. LeadingZeros(s) = CHOOSE m \in 0..Len(s) : ZerosAhead(s, m)
    BY Zenon DEF LeadingZeros, ZerosAhead
  <2> QED
    BY <2>1, Zenon
<1> QED
  BY <1>1, ZerosOnce

LEMMA AppendAt ==
  ASSUME NEW T, NEW s \in Seq(T), NEW d \in T
  PROVE  Append(s, d) = [i \in 1..(Len(s) + 1) |-> IF i = Len(s) + 1 THEN d ELSE s[i]]
<1> DEFINE h == [i \in 1..(Len(s) + 1) |-> IF i = Len(s) + 1 THEN d ELSE s[i]]
<1>1. h \in Seq(T) /\ Len(h) = Len(s) + 1
  OBVIOUS
<1>2. Append(s, d) \in Seq(T) /\ Len(Append(s, d)) = Len(s) + 1
  OBVIOUS
<1>3. \A i \in 1..(Len(s) + 1) : Append(s, d)[i] = h[i]
  OBVIOUS
<1> HIDE DEF h
<1>4. Append(s, d) = h
  BY <1>1, <1>2, <1>3, SeqEqual
<1> QED
  BY <1>4 DEF h

LEMMA ZerosFacts ==
  ASSUME NEW n \in Nat, NEW base \in Nat \ {0, 1}
  PROVE  /\ Zeros(n) \in Seq(Digit(base)) /\ Len(Zeros(n)) = n
         /\ \A i \in 1..n : Zeros(n)[i] = 0
         /\ Zeros(n + 1) = Append(Zeros(n), 0)
         /\ n = 0 => Zeros(n) = <<>>
<1>1. 0 \in Digit(base)
  BY DEF Digit
<1>2. Zeros(n) \in [1..n -> Digit(base)]
  BY <1>1 DEF Zeros
<1>3. Zeros(n) \in Seq(Digit(base)) /\ Len(Zeros(n)) = n
  BY <1>2
<1>4. \A i \in 1..n : Zeros(n)[i] = 0
  BY DEF Zeros
<1>5. Zeros(n + 1) = Append(Zeros(n), 0)
  <2>1. Append(Zeros(n), 0) = [i \in 1..(n + 1) |-> IF i = n + 1 THEN 0 ELSE Zeros(n)[i]]
    BY <1>1, <1>3, AppendAt
  <2>2. \A i \in 1..(n + 1) : (IF i = n + 1 THEN 0 ELSE Zeros(n)[i]) = 0
    BY <1>4
  <2>3. Zeros(n + 1) = [i \in 1..(n + 1) |-> 0]
    BY DEF Zeros
  <2> QED
    BY <2>1, <2>2, <2>3
<1> QED
  BY <1>3, <1>4, <1>5

LEMMA AppendAfterConcat ==
  ASSUME NEW T, NEW s \in Seq(T), NEW t \in Seq(T), NEW d \in T
  PROVE  s \o Append(t, d) = Append(s \o t, d)
OBVIOUS

LEMMA LenConcat ==
  ASSUME NEW T, NEW s \in Seq(T), NEW t \in Seq(T)
  PROVE  s \o t \in Seq(T) /\ Len(s \o t) = Len(s) + Len(t)
OBVIOUS

LEMMA OneDigit ==
  ASSUME NEW base \in Nat \ {0, 1}, NEW d \in 1..(base - 1)
  PROVE  Digits(d, base) = <<d>>
<1>1. d \in Nat /\ d > 0 /\ d \div base = 0 /\ d % base = d
  OBVIOUS
<1>2. Digits(d, base) = Append(Digits(d \div base, base), d % base)
  BY <1>1, DigitsNext
<1>3. Digits(0, base) = <<>>
  BY DigitsZero
<1>4. Append(<<>>, d) = <<d>>
  OBVIOUS
<1> QED
  BY <1>1, <1>2, <1>3, <1>4

LEMMA DigitsAppend ==
  ASSUME NEW base \in Nat \ {0, 1}, NEW v \in Nat, v > 0, NEW d \in Digit(base)
  PROVE  Digits(v * base + d, base) = Append(Digits(v, base), d)
<1> DEFINE w == v * base + d
<1>1. w \in Nat /\ w > 0 /\ w \div base = v /\ w % base = d
  BY DivModUnique DEF Digit
<1> HIDE DEF w
<1>2. Digits(w, base) = Append(Digits(v, base), d)
  BY <1>1, DigitsNext
<1> QED
  BY <1>2 DEF w

\* A list of digits is n zeros and the digits of its number.
Splits(s, base, n) ==
  /\ n \in 0..Len(s)
  /\ ZerosAhead(s, n)
  /\ Zeros(n) \o Digits(Number(s, base), base) = s

LEMMA SplitsStep ==
  ASSUME NEW base \in Nat \ {0, 1}, NEW s \in Seq(Digit(base)), NEW d \in Digit(base),
         NEW n, Splits(s, base, n)
  PROVE  \E m : Splits(Append(s, d), base, m)
<1> DEFINE v == Number(s, base)
           t == Append(s, d)
<1>1. /\ n \in Nat /\ n \in 0..Len(s) /\ ZerosAhead(s, n)
      /\ Zeros(n) \o Digits(v, base) = s
  BY DEF Splits
<1>2. v \in Nat /\ Number(t, base) = v * base + d /\ d \in Nat
  <2>1. v \in Nat
    BY NumberType
  <2>2. Number(t, base) = v * base + d
    BY NumberAppend
  <2>3. d \in Nat
    BY DEF Digit
  <2> QED
    BY <2>1, <2>2, <2>3
<1>3. /\ Len(s) \in Nat /\ Len(t) = Len(s) + 1 /\ t[Len(s) + 1] = d
      /\ \A i \in 1..Len(s) : t[i] = s[i]
  BY AppendProperties
<1>4. /\ Zeros(n) \in Seq(Digit(base)) /\ Len(Zeros(n)) = n
      /\ \A i \in 1..n : Zeros(n)[i] = 0
      /\ Zeros(n + 1) = Append(Zeros(n), 0)
  BY <1>1, ZerosFacts
<1>5. Digits(v, base) \in Seq(Digit(base))
  BY <1>2, NumberOfDigits
<1>6. s \in Seq(Digit(base)) /\ t \in Seq(Digit(base)) /\ t = Append(s, d)
  OBVIOUS
<1> HIDE DEF v, t
<1>7. CASE v = 0
  <2>1. s = Zeros(n)
    <3>1. Digits(v, base) = <<>>
      BY <1>7, DigitsZero
    <3> QED
      BY <1>1, <1>4, <3>1
  <2>2. CASE d = 0
    <3>1. Number(t, base) = 0
      BY <1>2, <1>7, <2>2
    <3>2. Digits(Number(t, base), base) = <<>>
      BY <3>1, DigitsZero
    <3>3. t = Zeros(n + 1)
      BY <1>4, <1>6, <2>1, <2>2
    <3>4. n + 1 \in Nat /\ Len(t) = n + 1
      BY <1>1, <1>3, <1>4, <2>1
    <3>5. /\ Zeros(n + 1) \in Seq(Digit(base))
          /\ \A i \in 1..(n + 1) : Zeros(n + 1)[i] = 0
      BY <3>4, ZerosFacts
    <3>6. Zeros(n + 1) \o <<>> = t
      BY <3>3, <3>5
    <3>7. ZerosAhead(t, n + 1)
      BY <3>3, <3>4, <3>5 DEF ZerosAhead
    <3>8. Splits(t, base, n + 1)
      BY <3>2, <3>4, <3>6, <3>7 DEF Splits
    <3> QED
      BY <3>8 DEF t
  <2>3. CASE d # 0
    <3>1. Number(t, base) = d
      BY <1>2, <1>7
    <3>2. Digits(Number(t, base), base) = <<d>>
      BY <1>2, <2>3, <3>1, OneDigit DEF Digit
    <3>3. Zeros(n) \o <<d>> = t
      BY <1>6, <2>1, AppendIsConcat
    <3>4. n = Len(s)
      BY <1>4, <2>1
    <3>5. ZerosAhead(t, n)
      BY <1>3, <1>4, <2>1, <2>3, <3>4 DEF ZerosAhead
    <3>6. n \in 0..Len(t)
      BY <1>3, <3>4
    <3>7. Splits(t, base, n)
      BY <3>2, <3>3, <3>5, <3>6 DEF Splits
    <3> QED
      BY <3>7 DEF t
  <2> QED
    BY <2>2, <2>3
<1>8. CASE v # 0
  <2>0. v > 0
    BY <1>2, <1>8
  <2>1. Digits(Number(t, base), base) = Append(Digits(v, base), d)
    BY <1>2, <2>0, DigitsAppend
  <2>2. Zeros(n) \o Append(Digits(v, base), d) = t
    BY <1>1, <1>4, <1>5, <1>6, AppendAfterConcat
  <2>3. n < Len(s)
    <3>1. Digits(v, base) = Append(Digits(v \div base, base), v % base)
      BY <1>2, <2>0, DigitsNext
    <3>2. Digits(v \div base, base) \in Seq(Digit(base))
      BY <1>2, DivMod, NumberOfDigits
    <3>3. Len(Digits(v, base)) > 0
      BY <3>1, <3>2
    <3>4. Len(Zeros(n) \o Digits(v, base)) = n + Len(Digits(v, base))
      BY <1>4, <1>5, LenConcat
    <3>5. Len(Digits(v, base)) \in Nat
      BY <1>5
    <3> QED
      BY <1>1, <3>3, <3>4, <3>5
  <2>4. ZerosAhead(t, n)
    <3>1. \A i \in 1..n : i \in 1..Len(s)
      BY <1>1, <1>3
    <3>2. n + 1 \in 1..Len(s)
      BY <1>1, <1>3, <2>3
    <3> QED
      BY <1>1, <1>3, <2>3, <3>1, <3>2 DEF ZerosAhead
  <2>5. Splits(t, base, n)
    BY <1>1, <1>3, <2>1, <2>2, <2>4 DEF Splits
  <2> QED
    BY <2>5 DEF t
<1> QED
  BY <1>7, <1>8

LEMMA SplitExists ==
  ASSUME NEW base \in Nat \ {0, 1}, NEW s \in Seq(Digit(base))
  PROVE  \E n : Splits(s, base, n)
<1> DEFINE D == Digit(base)
           S == {t \in Seq(D) : \E n : Splits(t, base, n)}
<1>1. <<>> \in S
  <2>1. Zeros(0) = <<>> /\ Number(<<>>, base) = 0 /\ Digits(0, base) = <<>>
    BY ZerosFacts, NumberEmpty, DigitsZero
  <2>2. Splits(<<>>, base, 0)
    BY <2>1 DEF Splits, ZerosAhead
  <2> QED
    BY <2>2
<1>2. ASSUME NEW t \in Seq(D), NEW d \in D, t \in S PROVE Append(t, d) \in S
  <2>1. PICK n : Splits(t, base, n)
    BY <1>2
  <2>2. \E m : Splits(Append(t, d), base, m)
    BY <2>1, SplitsStep
  <2>3. Append(t, d) \in Seq(D)
    OBVIOUS
  <2> QED
    BY <2>2, <2>3
<1> HIDE DEF D, S
<1>3. Seq(D) \subseteq S
  BY <1>1, <1>2, ListInduction
<1> QED
  BY <1>3 DEF S, D

\* The leading zeros and the digits of the number give back the list.
LEMMA Canonical ==
  ASSUME NEW base \in Nat \ {0, 1}, NEW s \in Seq(Digit(base))
  PROVE  /\ LeadingZeros(s) \in 0..Len(s)
         /\ ZerosAhead(s, LeadingZeros(s))
         /\ Zeros(LeadingZeros(s)) \o Digits(Number(s, base), base) = s
<1>1. PICK n : Splits(s, base, n)
  BY SplitExists
<1>2. Len(s) \in Nat /\ n \in 0..Len(s) /\ ZerosAhead(s, n)
  BY <1>1 DEF Splits
<1>3. LeadingZeros(s) = n
  BY <1>2, LeadingZerosIs
<1> QED
  BY <1>1, <1>2, <1>3 DEF Splits

\* The first digit of a number is not zero.
LEMMA NoLeadingZero ==
  ASSUME NEW v \in Nat, NEW base \in Nat \ {0, 1}
  PROVE  Digits(v, base) # <<>> => Digits(v, base)[1] # 0
<1> DEFINE s == Digits(v, base)
           z == LeadingZeros(s)
<1>1. s \in Seq(Digit(base)) /\ Number(s, base) = v
  BY NumberOfDigits
<1>2. z \in 0..Len(s) /\ ZerosAhead(s, z) /\ Zeros(z) \o s = s
  <2> HIDE DEF s
  <2>1. z \in 0..Len(s) /\ ZerosAhead(s, z) /\ Zeros(z) \o Digits(Number(s, base), base) = s
    BY <1>1, Canonical
  <2> QED
    BY <1>1, <2>1 DEF s
<1> HIDE DEF s, z
<1>3. z = 0
  <2>1. z \in Nat /\ Len(s) \in Nat
    BY <1>1, <1>2
  <2>2. Zeros(z) \in Seq(Digit(base)) /\ Len(Zeros(z)) = z
    BY <2>1, ZerosFacts
  <2>3. Len(Zeros(z) \o s) = z + Len(s)
    BY <1>1, <2>2, LenConcat
  <2> QED
    BY <1>2, <2>1, <2>3
<1>4. s # <<>> => Len(s) > 0
  BY <1>1
<1>5. s # <<>> => s[1] # 0
  BY <1>2, <1>3, <1>4 DEF ZerosAhead
<1> QED
  BY <1>5 DEF s

\* Zeros in front make no difference to a number.
LEMMA NumberAfterZeros ==
  ASSUME NEW base \in Nat \ {0, 1}, NEW n \in Nat, NEW s \in Seq(Digit(base))
  PROVE  Number(Zeros(n) \o s, base) = Number(s, base)
<1> DEFINE D == Digit(base)
           z == Zeros(n)
<1>1. z \in Seq(D)
  BY ZerosFacts
<1>2. Number(z, base) = 0
  <2> DEFINE S == {m \in Nat : Number(Zeros(m), base) = 0}
  <2>1. 0 \in S
    BY ZerosFacts, NumberEmpty
  <2>2. ASSUME NEW m \in S PROVE m + 1 \in S
    <3>1. m \in Nat /\ Zeros(m) \in Seq(D) /\ Zeros(m + 1) = Append(Zeros(m), 0) /\ 0 \in D
      BY ZerosFacts DEF Digit
    <3>2. Number(Append(Zeros(m), 0), base) = Number(Zeros(m), base) * base + 0
      BY <3>1, NumberAppend
    <3>3. Number(Zeros(m), base) = 0 /\ 0 * base + 0 = 0
      OBVIOUS
    <3>4. Number(Zeros(m + 1), base) = 0
      BY <3>1, <3>2, <3>3
    <3> QED
      BY <3>1, <3>4
  <2>3. S \in SUBSET Nat
    OBVIOUS
  <2> HIDE DEF S
  <2>4. S = Nat
    BY <2>1, <2>2, <2>3, SetInduction
  <2> QED
    BY <2>4 DEF S
<1> DEFINE S == {t \in Seq(D) : Number(z \o t, base) = Number(t, base)}
<1> HIDE DEF D, z
<1>3. <<>> \in S
  <2>1. z \o <<>> = z
    BY <1>1
  <2> QED
    BY <1>2, <2>1, NumberEmpty
<1>4. ASSUME NEW t \in Seq(D), NEW d \in D, t \in S PROVE Append(t, d) \in S
  <2>1. z \o Append(t, d) = Append(z \o t, d) /\ z \o t \in Seq(D)
    BY <1>1, AppendAfterConcat, LenConcat
  <2>2. Number(Append(z \o t, d), base) = Number(z \o t, base) * base + d
    BY <2>1, NumberAppend
  <2>3. Number(Append(t, d), base) = Number(t, base) * base + d
    BY NumberAppend
  <2>4. Number(z \o t, base) = Number(t, base)
    BY <1>4
  <2>5. Number(z \o Append(t, d), base) = Number(Append(t, d), base)
    BY <2>1, <2>2, <2>3, <2>4
  <2>6. Append(t, d) \in Seq(D)
    OBVIOUS
  <2> QED
    BY <2>5, <2>6
<1> HIDE DEF S
<1>5. Seq(D) \subseteq S
  BY <1>3, <1>4, ListInduction
<1> QED
  BY <1>5 DEF S, D, z

-----------------------------------------------------------------------------
(* Base 58 *)

\* The same number in another base, with as many zeros ahead.
Recode(s, base, other) == Zeros(LeadingZeros(s)) \o Digits(Number(s, base), other)

LEMMA RecodeFacts ==
  ASSUME NEW base \in Nat \ {0, 1}, NEW other \in Nat \ {0, 1}, NEW s \in Seq(Digit(base))
  PROVE  /\ Recode(s, base, other) \in Seq(Digit(other))
         /\ LeadingZeros(Recode(s, base, other)) = LeadingZeros(s)
         /\ Number(Recode(s, base, other), other) = Number(s, base)
         /\ s # <<>> => Recode(s, base, other) # <<>>
<1> DEFINE z == LeadingZeros(s)
           v == Number(s, base)
           d == Digits(v, other)
           t == Zeros(z) \o d
<1>1. z \in Nat /\ v \in Nat
  <2>1. Len(s) \in Nat /\ z \in 0..Len(s)
    BY Canonical
  <2> QED
    BY <2>1, NumberType
<1>2. Zeros(z) \in Seq(Digit(other)) /\ Len(Zeros(z)) = z /\ \A i \in 1..z : Zeros(z)[i] = 0
  BY <1>1, ZerosFacts
<1>3. d \in Seq(Digit(other)) /\ Number(d, other) = v /\ (d # <<>> => d[1] # 0)
  BY <1>1, NumberOfDigits, NoLeadingZero
<1> HIDE DEF z, v
<1>4. t \in Seq(Digit(other)) /\ Len(t) = z + Len(d) /\ Len(d) \in Nat
  <2> HIDE DEF d
  <2> QED
    BY <1>2, <1>3, LenConcat
<1>5. ZerosAhead(t, z)
  <2> HIDE DEF d
  <2>1. \A i \in 1..z : t[i] = 0
    BY <1>1, <1>2, <1>3
  <2>2. ASSUME z < Len(t) PROVE t[z + 1] # 0
    <3>1. Len(d) > 0
      BY <1>1, <1>4, <2>2
    <3>2. d # <<>> /\ t[z + 1] = d[1]
      BY <1>1, <1>2, <1>3, <3>1
    <3> QED
      BY <1>3, <3>2
  <2> HIDE DEF t
  <2> QED
    BY <2>1, <2>2 DEF ZerosAhead
<1>6. Number(t, other) = v
  BY <1>1, <1>3, NumberAfterZeros
<1>7. LeadingZeros(t) = z
  <2> HIDE DEF t
  <2>1. Len(t) \in Nat /\ z \in 0..Len(t)
    <3> HIDE DEF d
    <3> QED
      BY <1>1, <1>4
  <2> QED
    BY <1>5, <2>1, LeadingZerosIs
<1>8. ASSUME t = <<>> PROVE s = <<>>
  <2>1. z = 0 /\ v = 0
    <3>1. Len(t) = 0
      BY <1>8
    <3>2. Number(<<>>, other) = 0
      BY NumberEmpty
    <3>3. v = 0
      BY <1>6, <1>8, <3>2
    <3> DEFINE n == Len(d)
    <3>4. n \in Nat /\ 0 = z + n
      BY <1>4, <3>1
    <3> HIDE DEF n
    <3>5. z = 0
      BY <1>1, <3>4
    <3> QED
      BY <3>3, <3>5
  <2>2. Zeros(0) = <<>> /\ Digits(0, base) = <<>>
    BY ZerosFacts, DigitsZero
  <2>3. Zeros(z) \o Digits(v, base) = s
    BY Canonical DEF z, v
  <2> QED
    BY <2>1, <2>2, <2>3
<1> HIDE DEF t, d
<1>9. Recode(s, base, other) = t
  BY DEF Recode, t, d, z, v
<1> QED
  BY <1>4, <1>6, <1>7, <1>8, <1>9 DEF z, v

\* And back.
LEMMA RecodeBack ==
  ASSUME NEW base \in Nat \ {0, 1}, NEW other \in Nat \ {0, 1}, NEW s \in Seq(Digit(base))
  PROVE  Recode(Recode(s, base, other), other, base) = s
<1> DEFINE t == Recode(s, base, other)
<1>1. LeadingZeros(t) = LeadingZeros(s) /\ Number(t, other) = Number(s, base)
  BY RecodeFacts
<1> HIDE DEF t
<1>2. Recode(t, other, base) = Zeros(LeadingZeros(s)) \o Digits(Number(s, base), base)
  BY <1>1 DEF Recode
<1>3. Recode(t, other, base) = s
  BY <1>2, Canonical
<1> QED
  BY <1>3 DEF t

LEMMA Bases ==
  /\ ByteBase \in Nat \ {0, 1} /\ AlphabetSize \in Nat \ {0, 1}
  /\ Byte = Digit(ByteBase)
BY CodecAssumption DEF Byte, Digit

Character == Digit(AlphabetSize)

LEMMA Base58Facts ==
  /\ \A s \in Seq(Byte) : s # <<>> =>
       /\ Base58Encode(s) \in Seq(Character) /\ Base58Encode(s) # <<>>
       /\ Base58Decode(Base58Encode(s)) = Read(s, <<>>)
  /\ \A t \in Seq(Character) : t # <<>> =>
       /\ Base58Decode(t).ok /\ Base58Decode(t).val \in Seq(Byte)
       /\ Base58Encode(Base58Decode(t).val) = t
<1>1. ASSUME NEW s \in Seq(Byte), s # <<>>
      PROVE  /\ Base58Encode(s) \in Seq(Character) /\ Base58Encode(s) # <<>>
             /\ Base58Decode(Base58Encode(s)) = Read(s, <<>>)
  <2>1. Base58Encode(s) = Recode(s, ByteBase, AlphabetSize)
    BY DEF Base58Encode, Recode
  <2>2. Base58Encode(s) \in Seq(Character) /\ Base58Encode(s) # <<>>
    BY <1>1, <2>1, Bases, RecodeFacts DEF Character
  <2>3. Base58Decode(Base58Encode(s)) = Read(Recode(Base58Encode(s), AlphabetSize, ByteBase), <<>>)
    BY <2>2 DEF Base58Decode, Recode
  <2>4. Recode(Base58Encode(s), AlphabetSize, ByteBase) = s
    BY <2>1, Bases, RecodeBack
  <2> QED
    BY <2>2, <2>3, <2>4
<1>2. ASSUME NEW t \in Seq(Character), t # <<>>
      PROVE  /\ Base58Decode(t).ok /\ Base58Decode(t).val \in Seq(Byte)
             /\ Base58Encode(Base58Decode(t).val) = t
  <2> DEFINE s == Recode(t, AlphabetSize, ByteBase)
  <2>1. Base58Decode(t) = Read(s, <<>>)
    BY <1>2 DEF Base58Decode, Recode
  <2>2. s \in Seq(Byte)
    BY Bases, RecodeFacts DEF Character
  <2>3. Recode(s, ByteBase, AlphabetSize) = t
    BY Bases, RecodeBack DEF Character
  <2> HIDE DEF s
  <2>4. Base58Encode(s) = t
    BY <2>3 DEF Base58Encode, Recode
  <2>5. Base58Decode(t).ok /\ Base58Decode(t).val = s
    BY <2>1 DEF Read
  <2> QED
    BY <2>2, <2>4, <2>5
<1> QED
  BY <1>1, <1>2

\* p is cut into s and t.
Cut(p, s, t) ==
  /\ Len(p) = Len(s) + Len(t)
  /\ SubSeq(p, 1, Len(s)) = s
  /\ SubSeq(p, Len(s) + 1, Len(p)) = t

LEMMA ConcatCut ==
  ASSUME NEW T, NEW s \in Seq(T), NEW t \in Seq(T)
  PROVE  s \o t \in Seq(T) /\ Cut(s \o t, s, t)
<1> DEFINE p == s \o t
           n == Len(s)
           k == Len(t)
<1>1. p \in Seq(T) /\ Len(p) = n + k /\ n \in Nat /\ k \in Nat
  OBVIOUS
<1>2. /\ \A i \in 1..n : p[i] = s[i]
      /\ \A i \in 1..k : p[n + i] = t[i]
  <2>1. \A i \in 1..(n + k) : p[i] = IF i <= n THEN s[i] ELSE t[i - n]
    BY ConcatProperties
  <2> HIDE DEF p, n, k
  <2>2. \A i \in 1..k : n + i \in 1..(n + k) /\ ~(n + i <= n) /\ (n + i) - n = i
    BY <1>1
  <2>3. \A i \in 1..k : p[n + i] = t[i]
    BY <2>1, <2>2
  <2>4. \A i \in 1..n : i \in 1..(n + k) /\ i <= n
    BY <1>1
  <2>5. \A i \in 1..n : p[i] = s[i]
    BY <2>1, <2>4
  <2> QED
    BY <2>3, <2>5
<1> HIDE DEF p, n, k
<1>3. SubSeq(p, 1, n) = s
  <2> DEFINE g == SubSeq(p, 1, n)
  <2>1. g \in Seq(T) /\ Len(g) = n /\ \A i \in 1..n : g[i] = p[i]
    BY <1>1
  <2>2. s \in Seq(T) /\ Len(s) = n
    BY DEF n
  <2> HIDE DEF g
  <2>3. g = s
    BY <1>2, <2>1, <2>2, SeqEqual
  <2> QED
    BY <2>3 DEF g
<1>4. SubSeq(p, n + 1, n + k) = t
  <2> DEFINE g == SubSeq(p, n + 1, n + k)
  <2>1. g \in Seq(T) /\ Len(g) = k /\ \A i \in 1..k : g[i] = p[n + i]
    BY <1>1
  <2>2. t \in Seq(T) /\ Len(t) = k
    BY DEF k
  <2> HIDE DEF g
  <2>3. g = t
    BY <1>2, <2>1, <2>2, SeqEqual
  <2> QED
    BY <2>3 DEF g
<1>5. Cut(p, s, t)
  BY <1>1, <1>3, <1>4 DEF Cut, n, k
<1> QED
  BY <1>1, <1>5 DEF p

LEMMA AddressRead ==
  ASSUME NEW h \in Seq(Byte), Checksum(<< 0 >> \o h) \in [1..ChecksumLen -> Byte]
  PROVE  LockedHash(GetAddress(h)) = h /\ ValidateAddress(GetAddress(h)) = "yes"
<1> DEFINE v == <<0>>
           c == Checksum(v \o h)
           p == v \o h \o c
           a == GetAddress(h)
           n == Len(h)
<1>1. 0 \in Byte /\ ChecksumLen \in Nat
  BY CodecAssumption DEF Byte
<1>2. v \in Seq(Byte) /\ Len(v) = 1 /\ n \in Nat /\ n + 1 \in Nat
  BY <1>1
<1>3. c \in Seq(Byte) /\ Len(c) = ChecksumLen
  <2> HIDE DEF c
  <2>1. c \in [1..ChecksumLen -> Byte]
    BY DEF c
  <2> QED
    BY <1>1, <2>1
<1> HIDE DEF v, c
<1>4. p \in Seq(Byte) /\ p # <<>>
  BY <1>2, <1>3, LenConcat
<1>5. /\ Len(p) = 1 + n + ChecksumLen
      /\ SubSeq(p, 2, 1 + n) = h
      /\ SubSeq(p, 1, 1 + n) = v \o h
      /\ SubSeq(p, 1 + n + 1, Len(p)) = c
  <2>1. v \o h \in Seq(Byte) /\ Len(v \o h) = 1 + n /\ SubSeq(v \o h, 2, 1 + n) = h
    <3> DEFINE w == v \o h
    <3>1. w \in Seq(Byte) /\ Cut(w, v, h)
      BY <1>2, ConcatCut
    <3> HIDE DEF w
    <3>2. Len(v) + 1 = 2
      BY <1>2
    <3>3. Len(w) = 1 + n
      BY <1>2, <3>1 DEF Cut
    <3>4. SubSeq(w, 2, 1 + n) = h
      BY <3>1, <3>2, <3>3 DEF Cut
    <3> QED
      BY <3>1, <3>3, <3>4 DEF w
  <2>2. /\ Len(p) = 1 + n + ChecksumLen
        /\ SubSeq(p, 1, 1 + n) = v \o h
        /\ SubSeq(p, 1 + n + 1, Len(p)) = c
    <3> DEFINE w == v \o h
    <3>1. w \in Seq(Byte) /\ Len(w) = 1 + n
      BY <2>1
    <3> HIDE DEF w
    <3>2. Cut(w \o c, w, c)
      BY <1>3, <3>1, ConcatCut
    <3>3. p = w \o c
      BY DEF w
    <3> HIDE DEF p, n
    <3> QED
      BY <1>3, <3>1, <3>2, <3>3 DEF w, Cut
  <2>3. SubSeq(p, 2, 1 + n) = SubSeq(SubSeq(p, 1, 1 + n), 2, 1 + n)
    <3> DEFINE g == SubSeq(p, 1, 1 + n)
               q == SubSeq(p, 2, 1 + n)
               r == SubSeq(g, 2, 1 + n)
    <3> HIDE DEF p, n
    <3>1. 1 + n \in Nat /\ 1 + n <= Len(p) /\ n \in Nat
      BY <1>1, <1>2, <2>2
    <3>2. g \in Seq(Byte) /\ Len(g) = 1 + n /\ \A i \in 1..(1 + n) : g[i] = p[i]
      BY <1>4, <3>1
    <3>3. q \in Seq(Byte) /\ Len(q) = n /\ \A i \in 1..n : q[i] = p[i + 1]
      BY <1>4, <3>1
    <3> HIDE DEF g, q
    <3>4. r \in Seq(Byte) /\ Len(r) = n /\ \A i \in 1..n : r[i] = g[i + 1]
      BY <3>1, <3>2
    <3> HIDE DEF r
    <3>5. \A i \in 1..n : q[i] = r[i]
      <4>1. \A i \in 1..n : i + 1 \in 1..(1 + n)
        BY <3>1
      <4> QED
        BY <3>2, <3>3, <3>4, <4>1
    <3>6. q = r
      BY <3>3, <3>4, <3>5, SeqEqual
    <3> QED
      BY <3>6 DEF q, r, g
  <2> HIDE DEF p
  <2> QED
    BY <2>1, <2>2, <2>3
<1>6. a = Base58Encode(p)
  BY DEF GetAddress, v, c
<1> HIDE DEF p, a, n
<1>7. Base58Decode(a) = Read(p, <<>>)
  BY <1>4, <1>6, Base58Facts
<1>8. Base58Decode(a).ok /\ Base58Decode(a).val = p
  BY <1>7 DEF Read
<1>9. Len(p) - ChecksumLen = 1 + n
  BY <1>1, <1>2, <1>5
<1>10. LockedHash(a) = h
  BY <1>5, <1>8, <1>9 DEF LockedHash
<1>11. ValidateAddress(a) = "yes"
  <2>1. ~(1 + n < 1)
    BY <1>2
  <2>2. SubSeq(p, (1 + n) + 1, Len(p)) = Checksum(SubSeq(p, 1, 1 + n))
    BY <1>5 DEF c
  <2> QED
    BY <1>8, <1>9, <2>1, <2>2 DEF ValidateAddress
<1> QED
  BY <1>10, <1>11 DEF a

-----------------------------------------------------------------------------
(* The state *)

\* What is written and found is a function of the item and what follows.
CodecInv ==
  /\ item \in Items /\ rest \in Rests
  /\ stage \in {"given", "written", "read"}
  /\ data = IF stage = "given" THEN <<>> ELSE Written(item, rest)
  /\ back = IF stage = "read" THEN Found(item, data, rest) ELSE Error

LEMMA CodecInvariant == Spec => []CodecInv
<1>1. Init => CodecInv
  BY DEF Init, CodecInv
<1>2. CodecInv /\ [Next]_vars => CodecInv'
  <2> SUFFICES ASSUME CodecInv, [Next]_vars PROVE CodecInv'
    OBVIOUS
  <2>1. CASE Write
    BY <2>1 DEF CodecInv, Write
  <2>2. CASE ReadBack
    BY <2>2 DEF CodecInv, ReadBack
  <2>3. CASE UNCHANGED vars
    BY <2>3 DEF CodecInv, vars
  <2> QED
    BY <2>1, <2>2, <2>3 DEF Next
<1> QED
  BY <1>1, <1>2, PTL DEF Spec

LEMMA ItemKinds ==
  ASSUME NEW it \in Items
  PROVE  it \in Item
BY CodecAssumption

\* The address of a hash decodes to the hash.  For every base and every checksum.
THEOREM AddressesKept == Spec => []AddressesAreKept
<1>1. CodecInv => AddressesAreKept
  <2> SUFFICES ASSUME CodecInv, item.kind = "address" PROVE AddressesAreKept
    BY DEF AddressesAreKept
  <2>1. item.val \in Seq(Byte) /\ Checksum(<<0>> \o item.val) \in [1..ChecksumLen -> Byte]
    BY CodecAssumption DEF CodecInv, Item
  <2>2. LockedHash(GetAddress(item.val)) = item.val /\ ValidateAddress(GetAddress(item.val)) = "yes"
    BY <2>1, AddressRead
  <2>3. stage # "given" => data = GetAddress(item.val)
    BY DEF CodecInv, Written
  <2>4. stage = "read" => back = Read(LockedHash(data), rest)
    BY DEF CodecInv, Found
  <2> QED
    BY <2>2, <2>3, <2>4 DEF AddressesAreKept, CameBack
<1> QED
  BY <1>1, CodecInvariant, PTL

\* A text is the only one that decodes to what it decodes to.
THEOREM TextsCanonical == Spec => []TextsAreCanonical
<1>1. CodecInv => TextsAreCanonical
  <2> SUFFICES ASSUME CodecInv, item.kind = "text", item.val # <<>> PROVE TextsAreCanonical
    BY DEF TextsAreCanonical
  <2> DEFINE t == item.val
             s == Base58Decode(t).val
  <2>1. t \in Seq(Character)
    BY CodecAssumption DEF CodecInv, Item, Character, Digit
  <2>2. Base58Decode(t).ok /\ s \in Seq(Byte) /\ Base58Encode(s) = t
    BY <2>1, Base58Facts
  <2>3. stage # "given" => data = t
    BY DEF CodecInv, Written
  <2>4. stage = "read" => back = Read(Base58Encode(Base58Decode(data).val), rest)
    BY DEF CodecInv, Found
  <2>5. ValidateAddress(t) = "panic" <=> Len(s) <= ChecksumLen
    <3>1. Len(s) \in Nat /\ ChecksumLen \in Nat
      BY <2>2, CodecAssumption
    <3>2. Len(s) - ChecksumLen < 1 <=> Len(s) <= ChecksumLen
      BY <3>1
    <3> QED
      BY <2>2, <3>2 DEF ValidateAddress
  <2> QED
    BY <2>2, <2>3, <2>4, <2>5 DEF TextsAreCanonical, CameBack
<1> QED
  BY <1>1, CodecInvariant, PTL

-----------------------------------------------------------------------------
(* Pairs of numbers *)

\* A list that does not begin with a zero is the digits of its number.
LEMMA DigitsOfNumber ==
  ASSUME NEW base \in Nat \ {0, 1}, NEW s \in Seq(Digit(base)), s # <<>> => s[1] # 0
  PROVE  Digits(Number(s, base), base) = s
<1> DEFINE d == Digits(Number(s, base), base)
<1>1. Len(s) \in Nat /\ (Len(s) > 0 => s # <<>>)
  OBVIOUS
<1>2. ZerosAhead(s, 0)
  BY <1>1 DEF ZerosAhead
<1>3. LeadingZeros(s) = 0
  BY <1>1, <1>2, LeadingZerosIs
<1>4. Zeros(0) \o d = s
  BY <1>3, Canonical
<1>5. Zeros(0) = <<>>
  BY ZerosFacts
<1>6. d \in Seq(Digit(base))
  BY NumberType, NumberOfDigits
<1> HIDE DEF d
<1>7. d = s
  <2>1. <<>> \o d = d
    BY <1>6
  <2> QED
    BY <1>4, <1>5, <2>1
<1> QED
  BY <1>7 DEF d

LEMMA PairSplit ==
  ASSUME NEW v \in Nat, NEW w \in Nat
  PROVE  SplitPair(JoinPair(<<v, w>>)) = <<v, w>> <=>
           Len(Digits(w, ByteBase)) - Len(Digits(v, ByteBase)) \in {0, 1}
<1> DEFINE s == Digits(v, ByteBase)
           t == Digits(w, ByteBase)
           p == s \o t
           half == Len(p) \div 2
           head == SubSeq(p, 1, half)
           tail == SubSeq(p, half + 1, Len(p))
<1>1. /\ s \in Seq(Byte) /\ Number(s, ByteBase) = v /\ (s # <<>> => s[1] # 0)
      /\ t \in Seq(Byte) /\ Number(t, ByteBase) = w /\ (t # <<>> => t[1] # 0)
  BY Bases, NumberOfDigits, NoLeadingZero
<1>2. JoinPair(<<v, w>>) = p
  BY DEF JoinPair
<1>3. SplitPair(p) = <<Number(head, ByteBase), Number(tail, ByteBase)>>
  BY Zenon DEF SplitPair
<1> HIDE DEF s, t
<1>4. p \in Seq(Byte) /\ Cut(p, s, t)
  BY <1>1, ConcatCut
<1>5. Len(s) \in Nat /\ Len(t) \in Nat
  BY <1>1
<1>6. Len(p) = Len(s) + Len(t)
  BY <1>4 DEF Cut
<1>7. p # <<>> => p[1] # 0
  <2>1. CASE s = <<>>
    <3>1. p = t
      BY <1>1, <2>1
    <3> QED
      BY <1>1, <3>1
  <2>2. CASE s # <<>>
    <3>1. p[1] = s[1]
      BY <1>1, <2>2
    <3> QED
      BY <1>1, <2>2, <3>1
  <2> QED
    BY <2>1, <2>2
<1> HIDE DEF p
<1>8. half \in Nat /\ half <= Len(p)
  BY <1>5, <1>6
<1>9. half = Len(s) <=> Len(t) - Len(s) \in {0, 1}
  <2> DEFINE m == Len(s)
             n == Len(t)
  <2>1. m \in Nat /\ n \in Nat /\ half = (m + n) \div 2
    BY <1>5, <1>6
  <2> HIDE DEF m, n, half
  <2>2. half = m <=> n - m \in {0, 1}
    BY <2>1
  <2> QED
    BY <2>2 DEF m, n
<1> HIDE DEF half
<1>10. ASSUME half = Len(s) PROVE SplitPair(p) = <<v, w>>
  <2>1. head = s /\ tail = t
    BY <1>4, <1>10 DEF Cut
  <2> HIDE DEF head, tail
  <2> QED
    BY <1>1, <1>3, <2>1
<1>11. ASSUME SplitPair(p) = <<v, w>> PROVE half = Len(s)
  <2>1. Number(head, ByteBase) = v
    BY <1>3, <1>11
  <2>2. head \in Seq(Byte) /\ Len(head) = half
    BY <1>4, <1>8
  <2>3. head # <<>> => head[1] # 0
    <3>1. CASE half = 0
      BY <2>2, <3>1
    <3>2. CASE half # 0
      <4>1. p # <<>> /\ head[1] = p[1]
        BY <1>4, <1>8, <3>2
      <4> QED
        BY <1>7, <4>1
    <3> QED
      BY <3>1, <3>2
  <2> HIDE DEF head
  <2>4. Digits(Number(head, ByteBase), ByteBase) = head
    BY <2>2, <2>3, Bases, DigitsOfNumber
  <2>5. head = s
    BY <2>1, <2>4 DEF s
  <2> QED
    BY <2>2, <2>5
<1>12. SplitPair(p) = <<v, w>> <=> Len(t) - Len(s) \in {0, 1}
  BY <1>9, <1>10, <1>11
<1> QED
  BY <1>2, <1>12 DEF s, t

\* A pair is split where it was joined exactly if the second number has as many
\* bytes as the first or one more.
THEOREM PairsKept == Spec => []PairsAreKept
<1>1. CodecInv => PairsAreKept
  <2> SUFFICES ASSUME CodecInv, item.kind = "pair", stage = "read" PROVE PairsAreKept
    BY DEF PairsAreKept
  <2>1. item.val \in Nat \X Nat
    BY CodecAssumption DEF CodecInv, Item
  <2>2. PICK v \in Nat, w \in Nat : item.val = <<v, w>>
    BY <2>1
  <2>3. back.val = SplitPair(JoinPair(<<v, w>>))
    BY <2>2 DEF CodecInv, Written, Found, Read
  <2>4. item.val[1] = v /\ item.val[2] = w
    BY <2>2
  <2>5. back.val = item.val <=> Len(Digits(w, ByteBase)) - Len(Digits(v, ByteBase)) \in {0, 1}
    BY <2>2, <2>3, PairSplit
  <2> QED
    BY <2>4, <2>5 DEF PairsAreKept
<1> QED
  BY <1>1, CodecInvariant, PTL

-----------------------------------------------------------------------------
(* Numbers of a fixed width *)

LEMMA ByteBaseFacts == ByteBase \in Nat \ {0, 1} /\ ByteBase > 3
BY CodecAssumption

LEMMA ByteDigit ==
  ASSUME NEW v \in Nat
  PROVE  v % ByteBase \in Byte
<1>1. v % ByteBase \in 0..(ByteBase - 1)
  BY ByteBaseFacts, DivMod
<1> QED
  BY <1>1 DEF Byte

LEMMA FixedType ==
  ASSUME NEW v \in Nat, NEW n \in Nat
  PROVE  Fixed(v, n) \in Seq(Byte) /\ Len(Fixed(v, n)) = n
<1>1. \A i \in 1..n : Divided(v, ByteBase, n - i) % ByteBase \in Byte
  <2> TAKE i \in 1..n
  <2>1. n - i \in Nat
    OBVIOUS
  <2>2. Divided(v, ByteBase, n - i) \in Nat
    BY <2>1, ByteBaseFacts, DividedType
  <2> QED
    BY <2>2, ByteDigit
<1>2. Fixed(v, n) \in [1..n -> Byte]
  BY <1>1 DEF Fixed
<1> QED
  BY <1>2

LEMMA FixedZero == \A v : Fixed(v, 0) = <<>>
BY DEF Fixed

\* The last digit is the remainder, the others are those of the quotient.
LEMMA FixedNext ==
  ASSUME NEW v \in Nat, NEW n \in Nat
  PROVE  Fixed(v, n + 1) = Append(Fixed(v \div ByteBase, n), v % ByteBase)
<1> DEFINE w == v \div ByteBase
           d == v % ByteBase
           s == Fixed(w, n)
<1>1. w \in Nat /\ d \in Byte
  BY ByteBaseFacts, DivMod, ByteDigit
<1>2. \A k \in Nat : Divided(v, ByteBase, k + 1) = Divided(w, ByteBase, k)
  BY DividedFirst
<1>3. Divided(v, ByteBase, 0) % ByteBase = d
  BY DividedZero
<1>4. Fixed(v, n + 1) = [i \in 1..(n + 1) |-> Divided(v, ByteBase, (n + 1) - i) % ByteBase]
  BY DEF Fixed
<1> HIDE DEF w, d
<1>5. s = [i \in 1..n |-> Divided(w, ByteBase, n - i) % ByteBase]
  BY DEF Fixed
<1>6. s \in Seq(Byte) /\ Len(s) = n
  BY <1>1, FixedType
<1> HIDE DEF s
<1>7. Append(s, d) = [i \in 1..(n + 1) |-> IF i = n + 1 THEN d ELSE s[i]]
  BY <1>1, <1>6, AppendAt
<1>8. ASSUME NEW i \in 1..(n + 1)
      PROVE  Divided(v, ByteBase, (n + 1) - i) % ByteBase = IF i = n + 1 THEN d ELSE s[i]
  <2>1. CASE i = n + 1
    <3>1. (n + 1) - i = 0
      BY <2>1
    <3> QED
      BY <1>3, <2>1, <3>1
  <2>2. CASE i # n + 1
    <3>1. i \in 1..n /\ n - i \in Nat /\ (n - i) + 1 = (n + 1) - i
      BY <2>2
    <3>2. Divided(v, ByteBase, (n + 1) - i) = Divided(w, ByteBase, n - i)
      BY <1>2, <3>1
    <3> QED
      BY <1>5, <2>2, <3>1, <3>2
  <2> QED
    BY <2>1, <2>2
<1>9. Fixed(v, n + 1) = Append(s, d)
  BY <1>4, <1>7, <1>8
<1> QED
  BY <1>9 DEF s, w, d

\* A number that fits comes back from its digits.
LEMMA NumberOfFixed ==
  ASSUME NEW n \in Nat
  PROVE  \A v \in Nat : Fits(v, n) => Number(Fixed(v, n), ByteBase) = v
<1> DEFINE Good(k) == \A v \in Nat : Fits(v, k) => Number(Fixed(v, k), ByteBase) = v
           S == {k \in Nat : Good(k)}
<1>1. Good(0)
  <2> SUFFICES ASSUME NEW v \in Nat, Fits(v, 0) PROVE Number(Fixed(v, 0), ByteBase) = v
    OBVIOUS
  <2>1. v = 0
    BY DividedZero DEF Fits
  <2> QED
    BY <2>1, FixedZero, NumberEmpty
<1>2. ASSUME NEW k \in Nat, Good(k) PROVE Good(k + 1)
  <2> SUFFICES ASSUME NEW v \in Nat, Fits(v, k + 1) PROVE Number(Fixed(v, k + 1), ByteBase) = v
    OBVIOUS
  <2> DEFINE w == v \div ByteBase
             d == v % ByteBase
  <2>1. w \in Nat /\ d \in Byte /\ v = w * ByteBase + d
    BY ByteBaseFacts, DivMod, ByteDigit
  <2>2. Fits(w, k)
    BY DividedFirst DEF Fits
  <2>3. Fixed(v, k + 1) = Append(Fixed(w, k), d)
    BY FixedNext
  <2> HIDE DEF w, d
  <2>4. Number(Fixed(w, k), ByteBase) = w
    BY <1>2, <2>1, <2>2
  <2>5. Fixed(w, k) \in Seq(Byte)
    BY <2>1, FixedType
  <2>6. Number(Append(Fixed(w, k), d), ByteBase) = Number(Fixed(w, k), ByteBase) * ByteBase + d
    BY <2>1, <2>5, NumberAppend
  <2> QED
    BY <2>1, <2>3, <2>4, <2>6
<1> HIDE DEF Good
<1>3. 0 \in S
  BY <1>1
<1>4. ASSUME NEW k \in S PROVE k + 1 \in S
  BY <1>2
<1>5. S \in SUBSET Nat
  OBVIOUS
<1> HIDE DEF S
<1>6. S = Nat
  BY <1>3, <1>4, <1>5, SetInduction
<1>7. Good(n)
  BY <1>6 DEF S
<1> QED
  BY <1>7 DEF Good

\* So different numbers of one width have different digits.
LEMMA FixedInjective ==
  ASSUME NEW v \in Word, NEW w \in Word, Fixed(v, 8) = Fixed(w, 8)
  PROVE  v = w
<1>1. v \in Nat /\ w \in Nat /\ Fits(v, 8) /\ Fits(w, 8)
  BY DEF Word
<1>2. Number(Fixed(v, 8), ByteBase) = v /\ Number(Fixed(w, 8), ByteBase) = w
  <2>1. 8 \in Nat
    OBVIOUS
  <2> QED
    BY <1>1, <2>1, NumberOfFixed
<1> QED
  BY <1>2

LEMMA ReverseTwice ==
  ASSUME NEW T, NEW s \in Seq(T)
  PROVE  Reverse(s) \in Seq(T) /\ Len(Reverse(s)) = Len(s) /\ Reverse(Reverse(s)) = s
<1> DEFINE n == Len(s)
           r == Reverse(s)
           q == Reverse(r)
<1>1. n \in Nat
  OBVIOUS
<1>2. r = [i \in 1..n |-> s[(n - i) + 1]]
  BY DEF Reverse
<1>3. \A i \in 1..n : (n - i) + 1 \in 1..n /\ (n - ((n - i) + 1)) + 1 = i
  BY <1>1
<1>4. \A i \in 1..n : s[i] \in T
  OBVIOUS
<1> HIDE DEF n, r
<1>5. r \in Seq(T) /\ Len(r) = n
  <2>1. r \in [1..n -> T]
    BY <1>2, <1>3, <1>4
  <2> QED
    BY <1>1, <2>1
<1>6. q = [i \in 1..n |-> r[(n - i) + 1]]
  BY <1>5 DEF Reverse
<1> HIDE DEF q
<1>7. \A i \in 1..n : q[i] = s[i]
  BY <1>2, <1>3, <1>6
<1>8. q \in Seq(T) /\ Len(q) = n
  <2>1. q \in [1..n -> T]
    BY <1>4, <1>6, <1>7
  <2> QED
    BY <1>1, <2>1
<1>9. q = s
  BY <1>7, <1>8, SeqEqual DEF n
<1> QED
  BY <1>5, <1>9 DEF q, r, n

-----------------------------------------------------------------------------
(* Reading what was written *)

LEMMA ReadIs ==
  ASSUME NEW v, NEW u
  PROVE  Read(v, u).ok /\ Read(v, u).val = v /\ Read(v, u).left = u
BY DEF Read

LEMMA ErrorIs ==
  /\ ~Error.ok /\ Error.val = <<>> /\ Error.left = <<>>
  /\ \A v, u : Read(v, u) # Error
BY DEF Error, Read

LEMMA BytesBack ==
  ASSUME NEW s \in Seq(Byte), NEW u \in Seq(Byte)
  PROVE  ReadBytes(s \o u, Len(s)) = Read(s, u)
<1> DEFINE p == s \o u
<1>1. p \in Seq(Byte) /\ Cut(p, s, u)
  BY ConcatCut
<1> HIDE DEF p
<1>2. Len(s) \in Nat /\ Len(u) \in Nat
  OBVIOUS
<1>3. ~(Len(p) < Len(s))
  <2> DEFINE n == Len(s)
             k == Len(u)
  <2>1. n \in Nat /\ k \in Nat /\ Len(p) = n + k
    BY <1>1, <1>2 DEF Cut
  <2> HIDE DEF n, k
  <2>2. ~(Len(p) < n)
    BY <2>1
  <2> QED
    BY <2>2 DEF n
<1>4. ReadBytes(p, Len(s)) = Read(s, u)
  BY <1>1, <1>3 DEF ReadBytes, Cut
<1> QED
  BY <1>4 DEF p

LEMMA LittleEndianType ==
  ASSUME NEW v \in Nat, NEW n \in Nat
  PROVE  LittleEndian(v, n) \in Seq(Byte) /\ Len(LittleEndian(v, n)) = n
BY FixedType, ReverseTwice DEF LittleEndian

LEMMA FixedBack ==
  ASSUME NEW v \in Nat, NEW n \in Nat, Fits(v, n), NEW u \in Seq(Byte)
  PROVE  ReadFixed(LittleEndian(v, n) \o u, n) = Read(v, u)
<1> DEFINE s == LittleEndian(v, n)
<1>1. s \in Seq(Byte) /\ Len(s) = n
  BY LittleEndianType
<1>2. Reverse(s) = Fixed(v, n)
  BY FixedType, ReverseTwice DEF LittleEndian
<1> HIDE DEF s
<1>3. ReadBytes(s \o u, n) = Read(s, u)
  BY <1>1, BytesBack
<1>4. Number(Reverse(s), ByteBase) = v
  BY <1>2, NumberOfFixed
<1>5. ReadFixed(s \o u, n) = Read(v, u)
  BY <1>3, <1>4, ReadIs DEF ReadFixed
<1> QED
  BY <1>5 DEF s

\* A first element comes off again.
LEMMA HeadTailBack ==
  ASSUME NEW T, NEW d \in T, NEW s \in Seq(T)
  PROVE  <<d>> \o s # <<>> /\ Head(<<d>> \o s) = d /\ Tail(<<d>> \o s) = s
<1> DEFINE p == <<d>> \o s
           n == Len(s)
<1>1. p \in Seq(T) /\ Len(p) = n + 1 /\ n \in Nat /\ p[1] = d
  OBVIOUS
<1>2. \A i \in 1..n : p[i + 1] = s[i]
  OBVIOUS
<1> HIDE DEF p, n
<1>3. p # <<>> /\ Head(p) = d
  BY <1>1
<1>4. Tail(p) \in Seq(T) /\ Len(Tail(p)) = n /\ \A i \in 1..n : Tail(p)[i] = p[i + 1]
  BY <1>1, <1>3
<1>5. Tail(p) = s
  <2> DEFINE t == Tail(p)
  <2>1. t \in Seq(T) /\ Len(t) = Len(s) /\ \A i \in 1..Len(s) : t[i] = s[i]
    BY <1>2, <1>4 DEF n
  <2> HIDE DEF t
  <2>2. t = s
    BY <2>1, SeqEqual
  <2> QED
    BY <2>2 DEF t
<1> QED
  BY <1>3, <1>5 DEF p

LEMMA PrefixConcat ==
  ASSUME NEW d \in Byte, NEW s \in Seq(Byte), NEW u \in Seq(Byte)
  PROVE  (<<d>> \o s) \o u = <<d>> \o (s \o u)
<1> DEFINE h == <<d>>
<1>1. h \in Seq(Byte)
  OBVIOUS
<1> HIDE DEF h
<1>2. (h \o s) \o u = h \o (s \o u)
  BY <1>1, ConcatAssociative
<1> QED
  BY <1>2 DEF h

\* A variable-length integer that announces its width.
LEMMA WideBack ==
  ASSUME NEW d \in (ByteBase - 3)..(ByteBase - 1), NEW v \in Nat, NEW n \in Nat,
         n = <<2, 4, 8>>[d + 4 - ByteBase], Fits(v, n), NEW u \in Seq(Byte)
  PROVE  /\ <<d>> \o LittleEndian(v, n) \in Seq(Byte)
         /\ ReadVarInt((<<d>> \o LittleEndian(v, n)) \o u) = Read(v, u)
<1> DEFINE s == LittleEndian(v, n)
           t == s \o u
<1>1. d \in Byte /\ ~(d < ByteBase - 3)
  BY ByteBaseFacts DEF Byte
<1>2. s \in Seq(Byte) /\ <<d>> \in Seq(Byte)
  BY <1>1, LittleEndianType
<1>3. t \in Seq(Byte)
  BY <1>2
<1>4. ReadFixed(t, n) = Read(v, u)
  BY FixedBack
<1> HIDE DEF s
<1>5. (<<d>> \o s) \o u = <<d>> \o t
  BY <1>1, <1>2, PrefixConcat
<1> HIDE DEF t
<1>6. <<d>> \o t # <<>> /\ Head(<<d>> \o t) = d /\ Tail(<<d>> \o t) = t
  BY <1>1, <1>3, HeadTailBack
<1>7. ReadVarInt(<<d>> \o t) = Read(v, u)
  <2> DEFINE q == <<d>> \o t
  <2>1. q # <<>> /\ Head(q) = d /\ Tail(q) = t
    BY <1>6
  <2> HIDE DEF q
  <2>2. ReadVarInt(q) = ReadFixed(t, n)
    BY <1>1, <2>1 DEF ReadVarInt
  <2> QED
    BY <1>4, <2>2 DEF q
<1>8. <<d>> \o s \in Seq(Byte)
  BY <1>2
<1> QED
  BY <1>5, <1>7, <1>8 DEF s

LEMMA VarIntBack ==
  ASSUME NEW v \in Word, NEW u \in Seq(Byte)
  PROVE  WriteVarInt(v) \in Seq(Byte) /\ ReadVarInt(WriteVarInt(v) \o u) = Read(v, u)
<1>1. v \in Nat /\ Fits(v, 8)
  BY DEF Word
<1>2. ByteBase \in Nat /\ ByteBase > 3
  BY ByteBaseFacts
<1>3. /\ ByteBase - 3 \in (ByteBase - 3)..(ByteBase - 1) /\ 2 = <<2, 4, 8>>[(ByteBase - 3) + 4 - ByteBase]
      /\ ByteBase - 2 \in (ByteBase - 3)..(ByteBase - 1) /\ 4 = <<2, 4, 8>>[(ByteBase - 2) + 4 - ByteBase]
      /\ ByteBase - 1 \in (ByteBase - 3)..(ByteBase - 1) /\ 8 = <<2, 4, 8>>[(ByteBase - 1) + 4 - ByteBase]
  <2>1. /\ (ByteBase - 3) + 4 - ByteBase = 1
        /\ (ByteBase - 2) + 4 - ByteBase = 2
        /\ (ByteBase - 1) + 4 - ByteBase = 3
    BY <1>2
  <2>2. <<2, 4, 8>>[1] = 2 /\ <<2, 4, 8>>[2] = 4 /\ <<2, 4, 8>>[3] = 8
    OBVIOUS
  <2> QED
    BY <1>2, <2>1, <2>2
<1>4. CASE v < ByteBase - 3
  <2>1. WriteVarInt(v) = <<v>> /\ v \in Byte
    BY <1>1, <1>2, <1>4 DEF WriteVarInt, Byte
  <2> DEFINE q == <<v>> \o u
  <2>2. q # <<>> /\ Head(q) = v /\ Tail(q) = u
    BY <2>1, HeadTailBack
  <2> HIDE DEF q
  <2>3. ReadVarInt(q) = Read(v, u)
    BY <1>4, <2>2 DEF ReadVarInt
  <2>4. <<v>> \in Seq(Byte)
    BY <2>1
  <2> QED
    BY <2>1, <2>3, <2>4 DEF q
<1>5. CASE ~(v < ByteBase - 3) /\ Fits(v, 2)
  <2>1. WriteVarInt(v) = <<ByteBase - 3>> \o LittleEndian(v, 2)
    BY <1>5 DEF WriteVarInt
  <2>2. 2 \in Nat
    OBVIOUS
  <2> QED
    BY <1>1, <1>3, <1>5, <2>1, <2>2, WideBack
<1>6. CASE ~(v < ByteBase - 3) /\ ~Fits(v, 2) /\ Fits(v, 4)
  <2>1. WriteVarInt(v) = <<ByteBase - 2>> \o LittleEndian(v, 4)
    BY <1>6 DEF WriteVarInt
  <2>2. 4 \in Nat
    OBVIOUS
  <2> QED
    BY <1>1, <1>3, <1>6, <2>1, <2>2, WideBack
<1>7. CASE ~(v < ByteBase - 3) /\ ~Fits(v, 2) /\ ~Fits(v, 4)
  <2>1. WriteVarInt(v) = <<ByteBase - 1>> \o LittleEndian(v, 8)
    BY <1>7 DEF WriteVarInt
  <2>2. 8 \in Nat
    OBVIOUS
  <2> QED
    BY <1>1, <1>3, <2>1, <2>2, WideBack
<1> QED
  BY <1>4, <1>5, <1>6, <1>7

LEMMA VarBytesBack ==
  ASSUME NEW s \in ListOf(Byte), NEW u \in Seq(Byte)
  PROVE  WriteVarBytes(s) \in Seq(Byte) /\ ReadVarBytes(WriteVarBytes(s) \o u) = Read(s, u)
<1> DEFINE n == Len(s)
           w == WriteVarInt(n)
<1>1. s \in Seq(Byte) /\ n \in Word
  BY DEF ListOf
<1>2. s \o u \in Seq(Byte)
  BY <1>1
<1>3. w \in Seq(Byte)
  BY <1>1, <1>2, VarIntBack
<1>4. ReadVarInt(w \o (s \o u)) = Read(n, s \o u)
  BY <1>1, <1>2, VarIntBack
<1>5. ReadBytes(s \o u, n) = Read(s, u)
  BY <1>1, BytesBack
<1>6. WriteVarBytes(s) = w \o s
  BY DEF WriteVarBytes
<1> HIDE DEF w, n
<1>7. (w \o s) \o u = w \o (s \o u)
  BY <1>1, <1>3, ConcatAssociative
<1>8. w \o s \in Seq(Byte)
  BY <1>1, <1>3
<1> DEFINE x == s \o u
           p == w \o x
<1>9. ReadVarBytes(p) = Read(s, u)
  <2> HIDE DEF x, p
  <2>1. ReadVarInt(p) = Read(n, x) /\ ReadBytes(x, n) = Read(s, u)
    BY <1>4, <1>5 DEF x, p
  <2>2. ReadVarInt(p).ok /\ ReadVarInt(p).val = n /\ ReadVarInt(p).left = x
    BY <2>1, ReadIs
  <2> QED
    BY <2>1, <2>2 DEF ReadVarBytes
<1> QED
  BY <1>6, <1>7, <1>8, <1>9

Regroups(s, t, u) == (s \o t) \o u = s \o (t \o u)

LEMMA BytesRegroup ==
  ASSUME NEW s \in Seq(Byte), NEW t \in Seq(Byte), NEW u \in Seq(Byte)
  PROVE  Regroups(s, t, u)
BY ConcatAssociative DEF Regroups

LEMMA FourConcat ==
  ASSUME NEW s \in Seq(Byte), NEW t \in Seq(Byte), NEW v \in Seq(Byte), NEW w \in Seq(Byte), NEW u \in Seq(Byte)
  PROVE  /\ s \o t \o v \o w \in Seq(Byte)
         /\ Regroups(s \o t \o v, w, u)
         /\ Regroups(s \o t, v, w \o u)
         /\ Regroups(s, t, v \o (w \o u))
<1> DEFINE st == s \o t
           stv == st \o v
           wu == w \o u
           vwu == v \o wu
<1>1. st \in Seq(Byte) /\ wu \in Seq(Byte)
  OBVIOUS
<1> HIDE DEF st, wu
<1>2. stv \in Seq(Byte) /\ vwu \in Seq(Byte)
  BY <1>1
<1> HIDE DEF stv, vwu
<1>3. Regroups(stv, w, u) /\ Regroups(st, v, wu) /\ Regroups(s, t, vwu)
  BY <1>1, <1>2, BytesRegroup
<1>4. stv \o w \in Seq(Byte)
  BY <1>2
<1> QED
  BY <1>3, <1>4, Zenon DEF st, stv, wu, vwu

LEMMA OutputBack ==
  ASSUME NEW out \in TxOutput, NEW u \in Seq(Byte)
  PROVE  /\ SerializeOutput(out) \in Seq(Byte)
         /\ DeserializeTxOutput(SerializeOutput(out) \o u) = Read(out, u)
<1> DEFINE v == LittleEndian(out.value, 8)
           k == WriteVarBytes(out.pubKeyHash)
           x == k \o u
           p == v \o x
<1>1. /\ out.value \in Nat /\ Fits(out.value, 8) /\ out.pubKeyHash \in ListOf(Byte)
      /\ out = [value |-> out.value, pubKeyHash |-> out.pubKeyHash]
  BY DEF TxOutput, Word
<1>2. v \in Seq(Byte)
  BY <1>1, LittleEndianType
<1>3. k \in Seq(Byte) /\ ReadVarBytes(x) = Read(out.pubKeyHash, u)
  BY <1>1, VarBytesBack
<1>4. x \in Seq(Byte)
  <2> HIDE DEF k
  <2> QED
    BY <1>3
<1>5. ReadFixed(p, 8) = Read(out.value, x)
  <2> HIDE DEF x
  <2> QED
    BY <1>1, <1>4, FixedBack
<1>6. SerializeOutput(out) = v \o k
  BY DEF SerializeOutput
<1> HIDE DEF v, k
<1>7. (v \o k) \o u = p
  BY <1>2, <1>3, ConcatAssociative
<1>8. v \o k \in Seq(Byte)
  BY <1>2, <1>3
<1>9. DeserializeTxOutput(p) = Read(out, u)
  <2> HIDE DEF x, p
  <2>1. ReadFixed(p, 8).ok /\ ReadFixed(p, 8).val = out.value /\ ReadFixed(p, 8).left = x
    BY <1>5, ReadIs
  <2>2. ReadVarBytes(x).ok /\ ReadVarBytes(x).val = out.pubKeyHash /\ ReadVarBytes(x).left = u
    BY <1>3, ReadIs
  <2>3. DeserializeTxOutput(p) = Read([value |-> out.value, pubKeyHash |-> out.pubKeyHash], u)
    BY <2>1, <2>2, Zenon DEF DeserializeTxOutput
  <2> QED
    BY <1>1, <2>3
<1> QED
  BY <1>6, <1>7, <1>8, <1>9

LEMMA InputBack ==
  ASSUME NEW in \in TxInput, in.txid # <<>>, NEW u \in Seq(Byte)
  PROVE  /\ SerializeInput(in) \in Seq(Byte)
         /\ DeserializeTxInput(SerializeInput(in) \o u) = Read(in, u)
<1> DEFINE t == in.txid
           v == LittleEndian(in.vout, 8)
           k == WriteVarBytes(in.signature)
           l == WriteVarBytes(in.pubKey)
           x == l \o u
           y == k \o x
           z == v \o y
           p == t \o z
<1>1. /\ in.vout \in Nat /\ Fits(in.vout, 8) /\ in.signature \in ListOf(Byte) /\ in.pubKey \in ListOf(Byte)
      /\ in = [txid |-> in.txid, vout |-> in.vout, signature |-> in.signature, pubKey |-> in.pubKey]
  BY DEF TxInput, Word
<1>2. t \in Seq(Byte) /\ Len(t) = IdLen
  BY DEF TxInput, IdOrNone
<1>3. v \in Seq(Byte)
  BY <1>1, LittleEndianType
<1>4. l \in Seq(Byte) /\ ReadVarBytes(x) = Read(in.pubKey, u)
  BY <1>1, VarBytesBack
<1>5. x \in Seq(Byte)
  <2> HIDE DEF l
  <2> QED
    BY <1>4
<1> HIDE DEF x
<1>6. k \in Seq(Byte) /\ ReadVarBytes(y) = Read(in.signature, x)
  BY <1>1, <1>5, VarBytesBack
<1>7. y \in Seq(Byte)
  <2> HIDE DEF k
  <2> QED
    BY <1>5, <1>6
<1> HIDE DEF y
<1>8. ReadFixed(z, 8) = Read(in.vout, y)
  BY <1>1, <1>7, FixedBack
<1>9. z \in Seq(Byte)
  <2> HIDE DEF v
  <2> QED
    BY <1>3, <1>7
<1> HIDE DEF z
<1>10. ReadBytes(p, IdLen) = Read(t, z)
  <2> HIDE DEF t
  <2> QED
    BY <1>2, <1>9, BytesBack
<1>11. SerializeInput(in) = t \o v \o k \o l
  BY <1>2, Zenon DEF SerializeInput
<1> HIDE DEF t, v, k, l
<1>12. (t \o v \o k \o l) \o u = p /\ t \o v \o k \o l \in Seq(Byte)
  <2>1. /\ t \o v \o k \o l \in Seq(Byte)
        /\ Regroups(t \o v \o k, l, u)
        /\ Regroups(t \o v, k, l \o u)
        /\ Regroups(t, v, k \o (l \o u))
    BY <1>2, <1>3, <1>4, <1>6, FourConcat
  <2> QED
    BY <2>1, Zenon DEF Regroups, x, y, z
<1> HIDE DEF p
<1>13. DeserializeTxInput(p) = Read(in, u)
  <2>1. ReadBytes(p, IdLen).ok /\ ReadBytes(p, IdLen).val = t /\ ReadBytes(p, IdLen).left = z
    BY <1>10, ReadIs
  <2>2. ReadFixed(z, 8).ok /\ ReadFixed(z, 8).val = in.vout /\ ReadFixed(z, 8).left = y
    BY <1>8, ReadIs
  <2>3. ReadVarBytes(y).ok /\ ReadVarBytes(y).val = in.signature /\ ReadVarBytes(y).left = x
    BY <1>6, ReadIs
  <2>4. ReadVarBytes(x).ok /\ ReadVarBytes(x).val = in.pubKey /\ ReadVarBytes(x).left = u
    BY <1>4, ReadIs
  <2>5. DeserializeTxInput(p) =
          Read([txid |-> t, vout |-> in.vout, signature |-> in.signature, pubKey |-> in.pubKey], u)
    BY <2>1, <2>2, <2>3, <2>4, Zenon DEF DeserializeTxInput
  <2> QED
    BY <1>1, <2>5 DEF t
<1> QED
  BY <1>11, <1>12, <1>13

-----------------------------------------------------------------------------
(* Reading lists *)

\* The elements of a list in a transaction.
ReadOneOf(kind, s) == IF kind = "vin" THEN DeserializeTxInput(s) ELSE DeserializeTxOutput(s)

OneMore(so, r) == IF so.ok /\ r.ok THEN Read(Append(so.val, r.val), r.left) ELSE Error

ManyStep(kind, s, g, k) ==
  IF k = 0 THEN Read(<<>>, s) ELSE OneMore(g[k - 1], ReadOneOf(kind, g[k - 1].left))

AreRead(kind, s, N, g) == g = [k \in 0..N |-> ManyStep(kind, s, g, k)]

\* The recursion that ReadMany names has a solution.
LEMMA ManyExists ==
  ASSUME NEW kind, NEW s, NEW N \in Nat
  PROVE  \E g : AreRead(kind, s, N, g)
<1> DEFINE G == {n \in Nat : \E g : AreRead(kind, s, n, g)}
<1>1. 0 \in G
  <2> DEFINE g == [k \in 0..0 |-> Read(<<>>, s)]
  <2>1. \A k \in 0..0 : ManyStep(kind, s, g, k) = Read(<<>>, s)
    BY DEF ManyStep
  <2> HIDE DEF g
  <2>2. AreRead(kind, s, 0, g)
    BY <2>1 DEF AreRead, g
  <2> QED
    BY <2>2
<1>2. \A n \in G : n + 1 \in G
  <2> SUFFICES ASSUME NEW n \in Nat, NEW g, AreRead(kind, s, n, g) PROVE n + 1 \in G
    OBVIOUS
  <2> DEFINE h == [m \in 0..(n + 1) |-> ManyStep(kind, s, g, m)]
  <2>1. \A m \in 0..n : h[m] = g[m]
    BY DEF AreRead
  <2>2. \A m \in 0..(n + 1) : h[m] = ManyStep(kind, s, g, m)
    OBVIOUS
  <2>3. \A m \in 0..(n + 1) : ManyStep(kind, s, g, m) = ManyStep(kind, s, h, m)
    <3> HIDE DEF h
    <3> QED
      BY <2>1 DEF ManyStep
  <2>4. h = [m \in 0..(n + 1) |-> h[m]]
    OBVIOUS
  <2> HIDE DEF h
  <2>5. AreRead(kind, s, n + 1, h)
    BY <2>2, <2>3, <2>4 DEF AreRead
  <2> QED
    BY <2>5
<1>3. G = Nat
  <2> HIDE DEF G
  <2> QED
    BY <1>1, <1>2, SetInduction DEF G
<1> QED
  BY <1>3

Readings(kind, s, N) == CHOOSE g : AreRead(kind, s, N, g)

ManyOf(kind, s, n) == Readings(kind, s, n)[n]

LEMMA ReadManyIs ==
  ASSUME NEW s, NEW n
  PROVE  /\ ReadMany(s, DeserializeTxInput, n) = ManyOf("vin", s, n)
         /\ ReadMany(s, DeserializeTxOutput, n) = ManyOf("vout", s, n)
<1>1. ReadMany(s, DeserializeTxInput, n) = ManyOf("vin", s, n)
  BY DEF ReadMany, ManyOf, Readings, AreRead, ManyStep, OneMore, ReadOneOf
<1>2. ReadMany(s, DeserializeTxOutput, n) = ManyOf("vout", s, n)
  BY DEF ReadMany, ManyOf, Readings, AreRead, ManyStep, OneMore, ReadOneOf
<1> QED
  BY <1>1, <1>2

\* One element more.
LEMMA ManyDef ==
  ASSUME NEW kind, NEW s, NEW n \in Nat
  PROVE  /\ ManyOf(kind, s, 0) = Read(<<>>, s)
         /\ ManyOf(kind, s, n + 1) = OneMore(ManyOf(kind, s, n), ReadOneOf(kind, ManyOf(kind, s, n).left))
<1> DEFINE g == Readings(kind, s, n)
           h == Readings(kind, s, n + 1)
           o == Readings(kind, s, 0)
<1>1. \E f : AreRead(kind, s, n, f)
  BY ManyExists
<1>2. \E f : AreRead(kind, s, n + 1, f)
  <2>1. n + 1 \in Nat
    OBVIOUS
  <2> QED
    BY <2>1, ManyExists
<1>3. \E f : AreRead(kind, s, 0, f)
  BY ManyExists
<1>4. AreRead(kind, s, n, g) /\ AreRead(kind, s, n + 1, h) /\ AreRead(kind, s, 0, o)
  BY <1>1, <1>2, <1>3, Zenon DEF Readings
<1> HIDE DEF g, h, o
<1>5. \A k \in 0..n : g[k] = ManyStep(kind, s, g, k)
  BY <1>4 DEF AreRead
<1>6. \A k \in 0..(n + 1) : h[k] = ManyStep(kind, s, h, k)
  BY <1>4 DEF AreRead
<1>7. o[0] = Read(<<>>, s)
  BY <1>4 DEF AreRead, ManyStep
<1>8. g[0] = h[0]
  BY <1>5, <1>6 DEF ManyStep
<1>9. ASSUME NEW k \in 0..(n - 1), g[k] = h[k] PROVE g[k + 1] = h[k + 1]
  <2>1. k + 1 \in 0..n /\ k + 1 \in 0..(n + 1) /\ (k + 1) - 1 = k /\ k + 1 # 0
    OBVIOUS
  <2>2. g[k + 1] = OneMore(g[k], ReadOneOf(kind, g[k].left))
    BY <1>5, <2>1 DEF ManyStep
  <2>3. h[k + 1] = OneMore(h[k], ReadOneOf(kind, h[k].left))
    BY <1>6, <2>1 DEF ManyStep
  <2> QED
    BY <1>9, <2>2, <2>3
<1>10. SameSteps(g, h, n)
  BY <1>8, <1>9 DEF SameSteps
<1>11. g[n] = h[n]
  <2>1. n \in 0..n
    OBVIOUS
  <2> QED
    BY <1>10, <2>1, StepsAgree
<1>12. h[n + 1] = OneMore(h[n], ReadOneOf(kind, h[n].left))
  <2>1. n + 1 \in 0..(n + 1) /\ (n + 1) - 1 = n /\ n + 1 # 0
    OBVIOUS
  <2> QED
    BY <1>6, <2>1 DEF ManyStep
<1>13. /\ ManyOf(kind, s, n) = g[n] /\ ManyOf(kind, s, n + 1) = h[n + 1]
       /\ ManyOf(kind, s, 0) = o[0]
  BY DEF ManyOf, g, h, o
<1> QED
  BY <1>7, <1>11, <1>12, <1>13

Elements(kind) == IF kind = "vin" THEN {in \in TxInput : in.txid # <<>>} ELSE TxOutput

WriteOne(kind, one) == IF kind = "vin" THEN SerializeInput(one) ELSE SerializeOutput(one)

Parts(kind, l) == [i \in DOMAIN l |-> WriteOne(kind, l[i])]

LEMMA OneBack ==
  ASSUME NEW kind, NEW one \in Elements(kind), NEW u \in Seq(Byte)
  PROVE  WriteOne(kind, one) \in Seq(Byte) /\ ReadOneOf(kind, WriteOne(kind, one) \o u) = Read(one, u)
<1>1. CASE kind = "vin"
  <2>1. one \in TxInput /\ one.txid # <<>>
    BY <1>1 DEF Elements
  <2>2. /\ SerializeInput(one) \in Seq(Byte)
        /\ DeserializeTxInput(SerializeInput(one) \o u) = Read(one, u)
    BY <2>1, InputBack
  <2> QED
    BY <1>1, <2>2, Zenon DEF WriteOne, ReadOneOf
<1>2. CASE kind # "vin"
  <2>1. one \in TxOutput
    BY <1>2 DEF Elements
  <2>2. /\ SerializeOutput(one) \in Seq(Byte)
        /\ DeserializeTxOutput(SerializeOutput(one) \o u) = Read(one, u)
    BY <2>1, OutputBack
  <2> QED
    BY <1>2, <2>2, Zenon DEF WriteOne, ReadOneOf
<1> QED
  BY <1>1, <1>2

\* A list put together has one list more at its end.
LEMMA FlattenAppend ==
  ASSUME NEW T, NEW ss \in Seq(Seq(T)), NEW s \in Seq(T)
  PROVE  FlattenSeq(Append(ss, s)) = FlattenSeq(ss) \o s
<1> DEFINE us == Append(ss, s)
           n == Len(ss)
<1>1. /\ us \in Seq(Seq(T)) /\ n \in Nat /\ Len(us) = n + 1 /\ us[n + 1] = s
      /\ \A i \in 1..n : us[i] = ss[i]
  BY AppendProperties
<1> HIDE DEF us
<1>2. /\ FlattenSeq(ss) = Flat(ss, n) /\ Flat(ss, 0) = <<>>
      /\ \A k \in 0..(n - 1) : Flat(ss, k + 1) = Flat(ss, k) \o ss[k + 1]
  BY FlatDef
<1> HIDE DEF n
<1>3. /\ FlattenSeq(us) = Flat(us, n + 1) /\ Flat(us, 0) = <<>>
      /\ \A k \in 0..n : Flat(us, k + 1) = Flat(us, k) \o us[k + 1]
  <2>1. (n + 1) - 1 = n
    BY <1>1
  <2> QED
    BY <1>1, <2>1, FlatDef
<1> DEFINE S == {k \in 0..n : Flat(ss, k) = Flat(us, k)}
<1>4. 0 \in S
  BY <1>1, <1>2, <1>3
<1>5. \A k \in 0..(n - 1) : k \in S => k + 1 \in S
  <2> SUFFICES ASSUME NEW k \in 0..(n - 1), k \in S PROVE k + 1 \in S
    OBVIOUS
  <2>1. k \in 0..n /\ k + 1 \in 1..n /\ k + 1 \in 0..n
    BY <1>1
  <2>2. Flat(ss, k + 1) = Flat(ss, k) \o ss[k + 1]
    BY <1>2
  <2>3. Flat(us, k + 1) = Flat(us, k) \o us[k + 1]
    BY <1>3, <2>1
  <2>4. us[k + 1] = ss[k + 1]
    BY <1>1, <2>1
  <2> QED
    BY <2>1, <2>2, <2>3, <2>4
<1> HIDE DEF S
<1>6. 0..n \subseteq S
  BY <1>1, <1>4, <1>5, UpToInduction
<1>7. Flat(ss, n) = Flat(us, n) /\ n \in 0..n
  BY <1>1, <1>6 DEF S
<1>8. Flat(us, n + 1) = Flat(us, n) \o s
  BY <1>1, <1>3, <1>7
<1> QED
  BY <1>2, <1>3, <1>7, <1>8 DEF us

LEMMA PartsFacts ==
  ASSUME NEW kind, NEW l \in Seq(Elements(kind)), NEW one \in Elements(kind)
  PROVE  /\ Parts(kind, <<>>) = <<>>
         /\ Parts(kind, l) \in Seq(Seq(Byte)) /\ Len(Parts(kind, l)) = Len(l)
         /\ WriteOne(kind, one) \in Seq(Byte)
         /\ Parts(kind, Append(l, one)) = Append(Parts(kind, l), WriteOne(kind, one))
<1> DEFINE n == Len(l)
           m == Append(l, one)
           ss == Parts(kind, l)
           w == WriteOne(kind, one)
           us == Append(ss, w)
           vs == Parts(kind, m)
<1>1. \A e \in Elements(kind) : WriteOne(kind, e) \in Seq(Byte)
  <2> TAKE e \in Elements(kind)
  <2>1. <<>> \in Seq(Byte)
    OBVIOUS
  <2> QED
    BY <2>1, OneBack
<1>2. w \in Seq(Byte)
  BY <1>1
<1>3. /\ m \in Seq(Elements(kind)) /\ n \in Nat /\ Len(m) = n + 1 /\ m[n + 1] = one
      /\ \A i \in 1..n : m[i] = l[i]
  BY AppendProperties
<1>4. DOMAIN l = 1..n /\ \A i \in 1..n : l[i] \in Elements(kind)
  OBVIOUS
<1> HIDE DEF m
<1>5. ss \in Seq(Seq(Byte)) /\ Len(ss) = n /\ \A i \in 1..n : ss[i] = WriteOne(kind, l[i])
  <2>1. ss = [i \in 1..n |-> WriteOne(kind, l[i])]
    BY <1>4 DEF Parts
  <2> HIDE DEF ss, n
  <2>2. ss \in [1..n -> Seq(Byte)]
    BY <1>1, <1>4, <2>1
  <2>3. ss \in Seq(Seq(Byte)) /\ Len(ss) = n
    BY <1>3, <2>2
  <2>4. \A i \in 1..n : ss[i] = WriteOne(kind, l[i])
    BY <2>1
  <2> QED
    BY <2>3, <2>4
<1>6. \A i \in 1..(n + 1) : m[i] \in Elements(kind)
  <2> HIDE DEF n
  <2> QED
    BY <1>3
<1>7. vs \in Seq(Seq(Byte)) /\ Len(vs) = n + 1 /\ \A i \in 1..(n + 1) : vs[i] = WriteOne(kind, m[i])
  <2>1. DOMAIN m = 1..(n + 1)
    BY <1>3
  <2>2. vs = [i \in 1..(n + 1) |-> WriteOne(kind, m[i])]
    BY <2>1 DEF Parts
  <2> HIDE DEF vs, n
  <2>3. vs \in [1..(n + 1) -> Seq(Byte)]
    BY <1>1, <1>6, <2>2
  <2>4. vs \in Seq(Seq(Byte)) /\ Len(vs) = n + 1
    BY <1>3, <2>3
  <2>5. \A i \in 1..(n + 1) : vs[i] = WriteOne(kind, m[i])
    BY <2>2
  <2> QED
    BY <2>4, <2>5
<1> HIDE DEF ss, vs, n
<1>8. /\ us \in Seq(Seq(Byte)) /\ Len(us) = n + 1 /\ us[n + 1] = w
      /\ \A i \in 1..n : us[i] = ss[i]
  <2> HIDE DEF w
  <2> QED
    BY <1>2, <1>5, AppendProperties
<1> HIDE DEF us
<1>9. \A i \in 1..(n + 1) : vs[i] = us[i]
  <2> TAKE i \in 1..(n + 1)
  <2>1. CASE i = n + 1
    BY <1>3, <1>7, <1>8, <2>1
  <2>2. CASE i # n + 1
    <3>1. i \in 1..n
      BY <1>3, <2>2
    <3>2. vs[i] = WriteOne(kind, m[i]) /\ us[i] = ss[i] /\ ss[i] = WriteOne(kind, l[i]) /\ m[i] = l[i]
      BY <1>3, <1>5, <1>7, <1>8, <3>1
    <3> QED
      BY <3>2
  <2> QED
    BY <2>1, <2>2
<1>10. vs = us
  BY <1>7, <1>8, <1>9, SeqEqual
<1>11. Parts(kind, <<>>) = <<>>
  BY DEF Parts
<1> QED
  BY <1>2, <1>5, <1>10, <1>11 DEF us, vs, ss, m, w, n

\* Whatever list was written comes back when as many elements are read.
LEMMA ManyBack ==
  ASSUME NEW kind, NEW l \in Seq(Elements(kind)), NEW u \in Seq(Byte)
  PROVE  /\ FlattenSeq(Parts(kind, l)) \in Seq(Byte)
         /\ ManyOf(kind, FlattenSeq(Parts(kind, l)) \o u, Len(l)) = Read(l, u)
<1> DEFINE E == Elements(kind)
           Back(m, v) == ManyOf(kind, FlattenSeq(Parts(kind, m)) \o v, Len(m)) = Read(m, v)
           S == {m \in Seq(E) : FlattenSeq(Parts(kind, m)) \in Seq(Byte) /\ \A v \in Seq(Byte) : Back(m, v)}
<1>1. <<>> \in S
  <2>1. FlattenSeq(Parts(kind, <<>>)) = <<>>
    BY DEF Parts, FlattenSeq
  <2>2. ASSUME NEW v \in Seq(Byte) PROVE Back(<<>>, v)
    <3>1. <<>> \o v = v /\ Len(<<>>) = 0
      OBVIOUS
    <3>2. ManyOf(kind, v, 0) = Read(<<>>, v)
      BY ManyDef
    <3> QED
      BY <2>1, <3>1, <3>2
  <2>3. <<>> \in Seq(Byte) /\ <<>> \in Seq(E)
    OBVIOUS
  <2> HIDE DEF Back
  <2> QED
    BY <2>1, <2>2, <2>3
<1>2. ASSUME NEW m \in Seq(E), NEW one \in E, m \in S PROVE Append(m, one) \in S
  <2> DEFINE n == Len(m)
             w == WriteOne(kind, one)
             t == FlattenSeq(Parts(kind, m))
  <2>1. n \in Nat /\ Append(m, one) \in Seq(E) /\ Len(Append(m, one)) = n + 1
    OBVIOUS
  <2>2. t \in Seq(Byte) /\ \A v \in Seq(Byte) : Back(m, v)
    BY <1>2
  <2>3. w \in Seq(Byte) /\ Parts(kind, m) \in Seq(Seq(Byte))
    BY PartsFacts
  <2>4. FlattenSeq(Parts(kind, Append(m, one))) = t \o w
    BY PartsFacts, FlattenAppend
  <2> HIDE DEF n, w, t
  <2>5. t \o w \in Seq(Byte)
    BY <2>2, <2>3
  <2>6. ASSUME NEW v \in Seq(Byte) PROVE Back(Append(m, one), v)
    <3> DEFINE wv == w \o v
               p == t \o wv
    <3>1. wv \in Seq(Byte)
      BY <2>3
    <3>2. (t \o w) \o v = p
      BY <2>2, <2>3, BytesRegroup DEF Regroups
    <3>3. ReadOneOf(kind, wv) = Read(one, v)
      BY OneBack DEF w
    <3>4. Back(m, wv)
      <4> HIDE DEF wv, Back
      <4> QED
        BY <2>2, <3>1
    <3>5. ManyOf(kind, p, n) = Read(m, wv)
      BY <3>4 DEF t, n
    <3> HIDE DEF wv, p
    <3>6. ManyOf(kind, p, n + 1) = OneMore(Read(m, wv), ReadOneOf(kind, Read(m, wv).left))
      BY <2>1, <3>5, ManyDef
    <3>7. OneMore(Read(m, wv), Read(one, v)) = Read(Append(m, one), v)
      <4>1. /\ Read(m, wv).ok /\ Read(m, wv).val = m
            /\ Read(one, v).ok /\ Read(one, v).val = one /\ Read(one, v).left = v
        BY ReadIs
      <4> QED
        BY <4>1 DEF OneMore
    <3>8. Read(m, wv).left = wv
      BY ReadIs
    <3>9. ManyOf(kind, p, n + 1) = Read(Append(m, one), v)
      BY <3>3, <3>6, <3>7, <3>8
    <3> QED
      BY <2>1, <2>4, <3>2, <3>9
  <2> HIDE DEF Back
  <2> QED
    BY <2>1, <2>4, <2>5, <2>6
<1> HIDE DEF S, E
<1>3. Seq(E) \subseteq S
  BY <1>1, <1>2, ListInduction
<1>4. l \in S
  BY <1>3 DEF E
<1> QED
  BY <1>4 DEF S

\* A count and the elements.
LEMMA ListBack ==
  ASSUME NEW kind, NEW l \in Seq(Elements(kind)), Len(l) \in Word, NEW u \in Seq(Byte)
  PROVE  /\ WriteList(Parts(kind, l)) \in Seq(Byte)
         /\ LET count == ReadVarInt(WriteList(Parts(kind, l)) \o u)
            IN  count.ok /\ ManyOf(kind, count.left, count.val) = Read(l, u)
<1> DEFINE w == WriteVarInt(Len(l))
           t == FlattenSeq(Parts(kind, l))
           x == t \o u
           p == w \o x
<1>1. t \in Seq(Byte) /\ ManyOf(kind, x, Len(l)) = Read(l, u)
  BY ManyBack
<1> HIDE DEF t
<1>2. x \in Seq(Byte)
  BY <1>1
<1>3. w \in Seq(Byte) /\ ReadVarInt(p) = Read(Len(l), x)
  <2> HIDE DEF x
  <2> QED
    BY <1>2, VarIntBack
<1>4. Len(Parts(kind, l)) = Len(l)
  <2>1. CASE l = <<>>
    BY <2>1 DEF Parts
  <2>2. CASE l # <<>>
    <3>1. l[1] \in Elements(kind)
      BY <2>2
    <3> QED
      BY <3>1, PartsFacts
  <2> QED
    BY <2>1, <2>2
<1>5. WriteList(Parts(kind, l)) = w \o t
  BY <1>4 DEF WriteList, t
<1> HIDE DEF w
<1>6. w \o t \in Seq(Byte) /\ (w \o t) \o u = p
  BY <1>1, <1>3, BytesRegroup DEF Regroups
<1> HIDE DEF x, p
<1>7. ReadVarInt(p).ok /\ ReadVarInt(p).left = x /\ ReadVarInt(p).val = Len(l)
  BY <1>3, ReadIs
<1> QED
  BY <1>1, <1>5, <1>6, <1>7

LEMMA ReadListIs ==
  ASSUME NEW s
  PROVE  /\ ReadList(s, DeserializeTxInput) =
              IF ReadVarInt(s).ok THEN ManyOf("vin", ReadVarInt(s).left, ReadVarInt(s).val) ELSE Error
         /\ ReadList(s, DeserializeTxOutput) =
              IF ReadVarInt(s).ok THEN ManyOf("vout", ReadVarInt(s).left, ReadVarInt(s).val) ELSE Error
<1> DEFINE u == ReadVarInt(s).left
           n == ReadVarInt(s).val
<1>1. ReadMany(u, DeserializeTxInput, n) = ManyOf("vin", u, n)
  BY ReadManyIs
<1>2. ReadMany(u, DeserializeTxOutput, n) = ManyOf("vout", u, n)
  BY ReadManyIs
<1> QED
  BY <1>1, <1>2, Zenon DEF ReadList

LEMMA OutputsBack ==
  ASSUME NEW outs \in ListOf(TxOutput), NEW u \in Seq(Byte)
  PROVE  /\ SerializeOutputs(outs) \in Seq(Byte)
         /\ ReadList(SerializeOutputs(outs) \o u, DeserializeTxOutput) = Read(outs, u)
<1>1. outs \in Seq(Elements("vout")) /\ Len(outs) \in Word
  BY DEF ListOf, Elements
<1>2. SerializeOutputs(outs) = WriteList(Parts("vout", outs))
  BY Zenon DEF SerializeOutputs, Parts, WriteOne
<1> DEFINE p == WriteList(Parts("vout", outs)) \o u
<1>3. /\ WriteList(Parts("vout", outs)) \in Seq(Byte)
      /\ ReadVarInt(p).ok
      /\ ManyOf("vout", ReadVarInt(p).left, ReadVarInt(p).val) = Read(outs, u)
  BY <1>1, ListBack
<1> HIDE DEF p
<1>4. ReadList(p, DeserializeTxOutput) = Read(outs, u)
  BY <1>3, ReadListIs
<1> QED
  BY <1>2, <1>3, <1>4 DEF p

LEMMA TransactionBack ==
  ASSUME NEW tx \in Transaction, \A i \in DOMAIN tx.vin : tx.vin[i].txid # <<>>, NEW u \in Seq(Byte)
  PROVE  DeserializeTransaction(Serialize(tx) \o u) = Read(tx, u)
<1> DEFINE t == tx.id
           v == WriteList(Parts("vin", tx.vin))
           w == SerializeOutputs(tx.vout)
           x == w \o u
           y == v \o x
           p == t \o y
<1>1. /\ t \in Seq(Byte) /\ Len(t) = IdLen /\ tx.vin \in Seq(TxInput) /\ Len(tx.vin) \in Word
      /\ tx.vout \in ListOf(TxOutput)
      /\ tx = [id |-> tx.id, vin |-> tx.vin, vout |-> tx.vout]
  BY DEF Transaction, Id, ListOf
<1>2. tx.vin \in Seq(Elements("vin"))
  <2> DEFINE l == tx.vin
  <2>1. l \in Seq(TxInput)
    BY <1>1
  <2> HIDE DEF l
  <2>2. Len(l) \in Nat /\ DOMAIN l = 1..Len(l) /\ \A i \in DOMAIN l : l[i] \in TxInput
    BY <2>1
  <2>3. \A i \in DOMAIN l : l[i] \in Elements("vin")
    BY <2>2 DEF Elements, l
  <2>4. l = [i \in 1..Len(l) |-> l[i]]
    BY <2>1
  <2>5. l \in [1..Len(l) -> Elements("vin")]
    BY <2>2, <2>3, <2>4
  <2>6. l \in Seq(Elements("vin"))
    BY <2>2, <2>5
  <2> QED
    BY <2>6 DEF l
<1>3. w \in Seq(Byte) /\ ReadList(x, DeserializeTxOutput) = Read(tx.vout, u)
  BY <1>1, OutputsBack
<1>4. x \in Seq(Byte)
  <2> HIDE DEF w
  <2> QED
    BY <1>3
<1> HIDE DEF x
<1>5. /\ v \in Seq(Byte) /\ ReadVarInt(y).ok
      /\ ManyOf("vin", ReadVarInt(y).left, ReadVarInt(y).val) = Read(tx.vin, x)
  BY <1>1, <1>2, <1>4, ListBack
<1>6. y \in Seq(Byte)
  <2> HIDE DEF v
  <2> QED
    BY <1>4, <1>5
<1> HIDE DEF y
<1>7. ReadList(y, DeserializeTxInput) = Read(tx.vin, x)
  BY <1>5, ReadListIs
<1>8. ReadBytes(p, IdLen) = Read(t, y)
  <2> HIDE DEF t
  <2> QED
    BY <1>1, <1>6, BytesBack
<1>9. Serialize(tx) = t \o v \o w
  BY <1>1, Zenon DEF Serialize, Parts, WriteOne
<1> HIDE DEF t, v, w
<1>10. (t \o v \o w) \o u = p
  <2> DEFINE tv == t \o v
  <2>1. tv \in Seq(Byte)
    BY <1>1, <1>5
  <2>2. tv \o x = p
    BY <1>1, <1>4, <1>5, BytesRegroup DEF Regroups, y
  <2> HIDE DEF tv
  <2>3. (tv \o w) \o u = tv \o x
    BY <1>3, <2>1, BytesRegroup DEF Regroups, x
  <2> QED
    BY <2>2, <2>3 DEF tv
<1> HIDE DEF p
<1>11. DeserializeTransaction(p) = Read(tx, u)
  <2>1. ReadBytes(p, IdLen).ok /\ ReadBytes(p, IdLen).val = t /\ ReadBytes(p, IdLen).left = y
    BY <1>8, ReadIs
  <2>2. /\ ReadList(y, DeserializeTxInput).ok /\ ReadList(y, DeserializeTxInput).val = tx.vin
        /\ ReadList(y, DeserializeTxInput).left = x
    BY <1>7, ReadIs
  <2>3. /\ ReadList(x, DeserializeTxOutput).ok /\ ReadList(x, DeserializeTxOutput).val = tx.vout
        /\ ReadList(x, DeserializeTxOutput).left = u
    BY <1>3, ReadIs
  <2>4. DeserializeTransaction(p) = Read([id |-> t, vin |-> tx.vin, vout |-> tx.vout], u)
    BY <2>1, <2>2, <2>3, Zenon DEF DeserializeTransaction
  <2> QED
    BY <1>1, <2>4 DEF t
<1> QED
  BY <1>9, <1>10, <1>11

-----------------------------------------------------------------------------
(* What any bytes are read as *)

LEMMA BytesType ==
  ASSUME NEW s \in Seq(Byte), NEW n \in Nat
  PROVE  /\ ReadBytes(s, n).left \in Seq(Byte) /\ ReadBytes(s, n).val \in Seq(Byte)
         /\ ReadBytes(s, n).ok => Len(ReadBytes(s, n).val) = n
<1>1. CASE Len(s) < n
  <2>1. ReadBytes(s, n) = Error
    BY <1>1 DEF ReadBytes
  <2>2. <<>> \in Seq(Byte)
    OBVIOUS
  <2> QED
    BY <2>1, <2>2, ErrorIs
<1>2. CASE ~(Len(s) < n)
  <2> DEFINE t == SubSeq(s, 1, n)
             u == SubSeq(s, n + 1, Len(s))
  <2>1. t \in Seq(Byte) /\ Len(t) = n /\ u \in Seq(Byte)
    BY <1>2
  <2> HIDE DEF t, u
  <2>2. ReadBytes(s, n) = Read(t, u)
    BY <1>2 DEF ReadBytes, t, u
  <2> QED
    BY <2>1, <2>2, ReadIs
<1> QED
  BY <1>1, <1>2

LEMMA FixedReadType ==
  ASSUME NEW s \in Seq(Byte), NEW n \in Nat
  PROVE  /\ ReadFixed(s, n).left \in Seq(Byte)
         /\ ReadFixed(s, n).ok => ReadFixed(s, n).val \in Nat
<1> DEFINE r == ReadBytes(s, n)
<1>1. r.left \in Seq(Byte) /\ r.val \in Seq(Byte)
  BY BytesType
<1>2. Reverse(r.val) \in Seq(Digit(ByteBase))
  BY <1>1, Bases, ReverseTwice
<1>3. Number(Reverse(r.val), ByteBase) \in Nat
  BY <1>2, Bases, NumberType
<1> HIDE DEF r
<1>4. ReadFixed(s, n) = IF ~r.ok THEN Error ELSE Read(Number(Reverse(r.val), ByteBase), r.left)
  BY DEF ReadFixed, r
<1>5. <<>> \in Seq(Byte)
  OBVIOUS
<1> DEFINE w == Number(Reverse(r.val), ByteBase)
<1>6. CASE r.ok
  <2>1. ReadFixed(s, n) = Read(w, r.left) /\ w \in Nat
    BY <1>3, <1>4, <1>6
  <2> HIDE DEF w
  <2> QED
    BY <1>1, <2>1, ReadIs
<1>7. CASE ~r.ok
  BY <1>4, <1>5, <1>7, ErrorIs
<1> QED
  BY <1>6, <1>7

LEMMA VarIntType ==
  ASSUME NEW s \in Seq(Byte)
  PROVE  /\ ReadVarInt(s).left \in Seq(Byte)
         /\ ReadVarInt(s).ok => ReadVarInt(s).val \in Nat
<1>1. CASE s = <<>>
  <2>1. ReadVarInt(s) = Error
    BY <1>1 DEF ReadVarInt
  <2>2. <<>> \in Seq(Byte)
    OBVIOUS
  <2> QED
    BY <2>1, <2>2, ErrorIs
<1>2. CASE s # <<>>
  <2> DEFINE d == Head(s)
             t == Tail(s)
             n == <<2, 4, 8>>[d + 4 - ByteBase]
  <2>1. d \in Byte /\ t \in Seq(Byte)
    BY <1>2
  <2> HIDE DEF d, t
  <2>2. CASE d < ByteBase - 3
    <3>1. ReadVarInt(s) = Read(d, t) /\ d \in Nat
      BY <1>2, <2>1, <2>2 DEF ReadVarInt, Byte, d, t
    <3> QED
      BY <2>1, <3>1, ReadIs
  <2>3. CASE ~(d < ByteBase - 3)
    <3>1. ReadVarInt(s) = ReadFixed(t, n)
      BY <1>2, <2>3 DEF ReadVarInt, d, t
    <3>2. d + 4 - ByteBase \in 1..3
      BY <2>1, <2>3, ByteBaseFacts DEF Byte
    <3>3. n \in Nat
      BY <3>2
    <3> HIDE DEF n
    <3> QED
      BY <2>1, <3>1, <3>3, FixedReadType
  <2> QED
    BY <2>2, <2>3
<1> QED
  BY <1>1, <1>2

LEMMA VarBytesType ==
  ASSUME NEW s \in Seq(Byte)
  PROVE  ReadVarBytes(s).left \in Seq(Byte) /\ ReadVarBytes(s).val \in Seq(Byte)
<1> DEFINE r == ReadVarInt(s)
<1>1. r.left \in Seq(Byte) /\ (r.ok => r.val \in Nat)
  BY VarIntType
<1>2. ReadVarBytes(s) = IF r.ok THEN ReadBytes(r.left, r.val) ELSE Error
  BY DEF ReadVarBytes
<1> HIDE DEF r
<1>3. <<>> \in Seq(Byte)
  OBVIOUS
<1>4. CASE r.ok
  BY <1>1, <1>2, <1>4, BytesType
<1>5. CASE ~r.ok
  BY <1>2, <1>3, <1>5, ErrorIs
<1> QED
  BY <1>4, <1>5

\* An input that was read has an id.
LEMMA InputType ==
  ASSUME NEW s \in Seq(Byte)
  PROVE  /\ DeserializeTxInput(s).left \in Seq(Byte)
         /\ DeserializeTxInput(s).ok => DeserializeTxInput(s).val.txid \in Id
<1> DEFINE t == ReadBytes(s, IdLen)
           v == ReadFixed(t.left, 8)
           k == ReadVarBytes(v.left)
           l == ReadVarBytes(k.left)
<1>1. IdLen \in Nat /\ 8 \in Nat
  BY CodecAssumption
<1>2. t.left \in Seq(Byte) /\ t.val \in Seq(Byte) /\ (t.ok => Len(t.val) = IdLen)
  BY <1>1, BytesType
<1> HIDE DEF t
<1>3. v.left \in Seq(Byte)
  BY <1>1, <1>2, FixedReadType
<1> HIDE DEF v
<1>4. k.left \in Seq(Byte)
  BY <1>3, VarBytesType
<1> HIDE DEF k
<1>5. l.left \in Seq(Byte)
  BY <1>4, VarBytesType
<1> HIDE DEF l
<1> DEFINE in == [txid |-> t.val, vout |-> v.val, signature |-> k.val, pubKey |-> l.val]
<1>6. DeserializeTxInput(s) = IF ~(t.ok /\ v.ok /\ k.ok /\ l.ok) THEN Error ELSE Read(in, l.left)
  BY Zenon DEF DeserializeTxInput, t, v, k, l
<1>7. in.txid = t.val
  OBVIOUS
<1> HIDE DEF in
<1>8. <<>> \in Seq(Byte)
  OBVIOUS
<1>9. CASE t.ok /\ v.ok /\ k.ok /\ l.ok
  <2>1. DeserializeTxInput(s) = Read(in, l.left)
    BY <1>6, <1>9
  <2>2. t.val \in Id
    BY <1>2, <1>9 DEF Id
  <2> QED
    BY <1>5, <1>7, <2>1, <2>2, ReadIs
<1>10. CASE ~(t.ok /\ v.ok /\ k.ok /\ l.ok)
  BY <1>6, <1>8, <1>10, ErrorIs
<1> QED
  BY <1>9, <1>10

\* And so has every input of a list that was read.
LEMMA InputReads ==
  ASSUME NEW s \in Seq(Byte), NEW n \in Nat
  PROVE  /\ ManyOf("vin", s, n).left \in Seq(Byte)
         /\ ManyOf("vin", s, n).ok =>
              /\ Len(ManyOf("vin", s, n).val) = n
              /\ \A i \in 1..n : ManyOf("vin", s, n).val[i].txid \in Id
<1> DEFINE T == {DeserializeTxInput(t).val : t \in {t \in Seq(Byte) : DeserializeTxInput(t).ok}}
           Good(r, k) ==
             /\ r.left \in Seq(Byte)
             /\ r.ok => r.val \in Seq(T) /\ Len(r.val) = k
           S == {k \in Nat : Good(ManyOf("vin", s, k), k)}
<1>1. \A in \in T : in.txid \in Id
  BY InputType
<1>2. \A t \in Seq(Byte) : DeserializeTxInput(t).ok => DeserializeTxInput(t).val \in T
  OBVIOUS
<1> HIDE DEF T
<1>3. 0 \in S
  <2>1. ManyOf("vin", s, 0) = Read(<<>>, s)
    BY ManyDef
  <2> DEFINE m == ManyOf("vin", s, 0)
  <2>2. m.val = <<>> /\ m.left = s
    BY <2>1, ReadIs
  <2>3. <<>> \in Seq(T) /\ Len(<<>>) = 0
    OBVIOUS
  <2> HIDE DEF m
  <2>4. Good(m, 0)
    BY <2>2, <2>3
  <2> QED
    BY <2>4 DEF m
<1>4. ASSUME NEW k \in S PROVE k + 1 \in S
  <2> DEFINE so == ManyOf("vin", s, k)
             r == DeserializeTxInput(so.left)
             m == ManyOf("vin", s, k + 1)
  <2>1. k \in Nat /\ k + 1 \in Nat
    OBVIOUS
  <2>2. so.left \in Seq(Byte) /\ (so.ok => so.val \in Seq(T) /\ Len(so.val) = k)
    OBVIOUS
  <2>3. m = OneMore(so, r)
    BY <2>1, ManyDef, Zenon DEF ReadOneOf
  <2> HIDE DEF so, m
  <2>4. r.left \in Seq(Byte) /\ (r.ok => r.val \in T)
    BY <1>2, <2>2, InputType
  <2> HIDE DEF r
  <2>5. CASE so.ok /\ r.ok
    <3> DEFINE l == Append(so.val, r.val)
    <3>1. m = Read(l, r.left)
      BY <2>3, <2>5 DEF OneMore
    <3>2. Append(so.val, r.val) \in Seq(T) /\ Len(Append(so.val, r.val)) = k + 1
      BY <2>2, <2>4, <2>5, AppendProperties
    <3> HIDE DEF l
    <3>3. m.val = l /\ m.left = r.left
      BY <3>1, ReadIs
    <3>4. l \in Seq(T) /\ Len(l) = k + 1
      BY <3>2 DEF l
    <3>5. Good(m, k + 1)
      BY <2>4, <3>3, <3>4
    <3> QED
      BY <2>1, <3>5 DEF m
  <2>6. CASE ~(so.ok /\ r.ok)
    <3>1. m = Error /\ <<>> \in Seq(Byte)
      BY <2>3, <2>6 DEF OneMore
    <3>2. Good(m, k + 1)
      BY <3>1, ErrorIs
    <3> QED
      BY <2>1, <3>2 DEF m
  <2> QED
    BY <2>5, <2>6
<1>5. S \in SUBSET Nat
  OBVIOUS
<1> HIDE DEF S, Good
<1>6. S = Nat
  BY <1>3, <1>4, <1>5, SetInduction
<1> DEFINE m == ManyOf("vin", s, n)
<1>7. m.left \in Seq(Byte) /\ (m.ok => m.val \in Seq(T) /\ Len(m.val) = n)
  BY <1>6 DEF S, Good
<1> HIDE DEF m
<1>8. m.ok => \A i \in 1..n : m.val[i] \in T
  BY <1>7
<1> QED
  BY <1>1, <1>7, <1>8 DEF m

LEMMA TransactionIds ==
  ASSUME NEW s \in Seq(Byte), NEW tx, NEW u, DeserializeTransaction(s) = Read(tx, u),
         tx.vin \in Seq(TxInput)
  PROVE  \A i \in DOMAIN tx.vin : tx.vin[i].txid # <<>>
<1> DEFINE id == ReadBytes(s, IdLen)
           vin == ReadList(id.left, DeserializeTxInput)
           vout == ReadList(vin.left, DeserializeTxOutput)
           count == ReadVarInt(id.left)
<1>1. id.left \in Seq(Byte)
  BY CodecAssumption, BytesType
<1> HIDE DEF id
<1>2. count.left \in Seq(Byte) /\ (count.ok => count.val \in Nat)
  BY <1>1, VarIntType
<1>3. vin = IF count.ok THEN ManyOf("vin", count.left, count.val) ELSE Error
  BY ReadListIs
<1> HIDE DEF vin, vout, count
<1> DEFINE made == [id |-> id.val, vin |-> vin.val, vout |-> vout.val]
<1>4. DeserializeTransaction(s) =
        IF ~(id.ok /\ vin.ok /\ vout.ok) THEN Error ELSE Read(made, vout.left)
  BY Zenon DEF DeserializeTransaction, id, vin, vout
<1>5. made.vin = vin.val
  OBVIOUS
<1> HIDE DEF made
<1>6. id.ok /\ vin.ok /\ vout.ok
  <2>1. CASE ~(id.ok /\ vin.ok /\ vout.ok)
    <3>1. Read(tx, u) = Error
      BY <1>4, <2>1
    <3> QED
      BY <3>1, ErrorIs
  <2> QED
    BY <2>1
<1>7. Read(tx, u).val = Read(made, vout.left).val
  BY <1>4, <1>6
<1>8. tx = made
  BY <1>7, ReadIs
<1>9. count.ok
  BY <1>3, <1>6, ErrorIs
<1>10. tx.vin = ManyOf("vin", count.left, count.val).val
  BY <1>3, <1>5, <1>8, <1>9
<1>11. Len(tx.vin) = count.val /\ \A i \in 1..count.val : tx.vin[i].txid \in Id
  BY <1>2, <1>3, <1>6, <1>9, <1>10, InputReads
<1>12. <<>> \notin Id
  BY CodecAssumption DEF Id
<1> QED
  BY <1>11, <1>12

LEMMA InputBytes ==
  ASSUME NEW in \in TxInput
  PROVE  SerializeInput(in) \in Seq(Byte)
<1>1. <<>> \in Seq(Byte)
  OBVIOUS
<1>2. CASE in.txid = <<>>
  <2>1. Len(<<>>) # IdLen
    BY CodecAssumption
  <2>2. SerializeInput(in) = <<>>
    BY <1>2, <2>1 DEF SerializeInput
  <2> QED
    BY <1>1, <2>2
<1>3. CASE in.txid # <<>>
  BY <1>1, <1>3, InputBack
<1> QED
  BY <1>2, <1>3

LEMMA TransactionBytes ==
  ASSUME NEW tx \in Transaction
  PROVE  Serialize(tx) \in Seq(Byte)
<1> DEFINE t == tx.id
           l == tx.vin
           ss == [i \in DOMAIN l |-> SerializeInput(l[i])]
           c == WriteVarInt(Len(ss))
           f == FlattenSeq(ss)
           w == SerializeOutputs(tx.vout)
<1>1. /\ t \in Seq(Byte) /\ Len(t) = IdLen /\ l \in Seq(TxInput) /\ Len(l) \in Word
      /\ tx.vout \in ListOf(TxOutput)
  BY DEF Transaction, Id, ListOf
<1>2. <<>> \in Seq(Byte)
  OBVIOUS
<1>3. w \in Seq(Byte)
  BY <1>1, <1>2, OutputsBack
<1>4. Serialize(tx) = t \o (c \o f) \o w
  BY <1>1, Zenon DEF Serialize, WriteList
<1> HIDE DEF t, l, w
<1>5. ss \in Seq(Seq(Byte)) /\ Len(ss) = Len(l)
  <2>1. Len(l) \in Nat /\ DOMAIN l = 1..Len(l) /\ \A i \in 1..Len(l) : l[i] \in TxInput
    BY <1>1
  <2>2. \A i \in 1..Len(l) : SerializeInput(l[i]) \in Seq(Byte)
    BY <2>1, InputBytes
  <2>3. ss \in [1..Len(l) -> Seq(Byte)]
    BY <2>1, <2>2
  <2> HIDE DEF ss
  <2> QED
    BY <2>1, <2>3
<1> HIDE DEF ss
<1>6. c \in Seq(Byte)
  BY <1>1, <1>2, <1>5, VarIntBack
<1>7. f \in Seq(Byte)
  BY <1>5, FlattenType
<1> HIDE DEF c, f
<1>8. c \o f \in Seq(Byte)
  BY <1>6, <1>7
<1> DEFINE cf == c \o f
<1> HIDE DEF cf
<1>9. t \o cf \o w \in Seq(Byte)
  BY <1>1, <1>3, <1>8 DEF cf
<1> QED
  BY <1>4, <1>9 DEF cf

\* What was written to a stream comes back, unless it is a transaction with a
\* coinbase input.
THEOREM StreamsKept == Spec => []StreamsAreKept
<1>1. CodecInv => StreamsAreKept
  <2> SUFFICES ASSUME CodecInv PROVE StreamsAreKept
    OBVIOUS
  <2>1. item \in Item /\ rest \in Seq(Byte)
    BY CodecAssumption DEF CodecInv
  <2>2. stage = "read" => data = Written(item, rest) /\ back = Found(item, data, rest)
    BY DEF CodecInv
  <2>3. ASSUME item.kind = "int", stage = "read" PROVE back = Read(item.val, rest)
    <3>1. item.val \in Word
      BY <2>1, <2>3 DEF Item
    <3>2. back = ReadVarInt(WriteVarInt(item.val) \o rest)
      BY <2>2, <2>3 DEF Written, Found
    <3> QED
      BY <2>1, <3>1, <3>2, VarIntBack
  <2>4. ASSUME item.kind = "bytes", stage = "read" PROVE back = Read(item.val, rest)
    <3>1. item.val \in ListOf(Byte)
      BY <2>1, <2>4 DEF Item
    <3>2. back = ReadVarBytes(WriteVarBytes(item.val) \o rest)
      BY <2>2, <2>4 DEF Written, Found
    <3> QED
      BY <2>1, <3>1, <3>2, VarBytesBack
  <2>5. ASSUME item.kind = "outs", stage = "read" PROVE back = Read(item.val, rest)
    <3>1. item.val \in ListOf(TxOutput)
      BY <2>1, <2>5 DEF Item
    <3>2. back = ReadList(SerializeOutputs(item.val) \o rest, DeserializeTxOutput)
      BY <2>2, <2>5 DEF Written, Found, DeserializeOutputs
    <3> QED
      BY <2>1, <3>1, <3>2, OutputsBack
  <2>6. ASSUME item.kind = "tx", stage = "read"
        PROVE  back = Read(item.val, rest) <=> \A in \in ToSet(item.val.vin) : in.txid # <<>>
    <3> DEFINE tx == item.val
               p == Serialize(tx) \o rest
    <3>1. tx \in Transaction
      BY <2>1, <2>6 DEF Item
    <3>2. back = DeserializeTransaction(p)
      BY <2>2, <2>6 DEF Written, Found
    <3>3. (\A in \in ToSet(tx.vin) : in.txid # <<>>) <=> (\A i \in DOMAIN tx.vin : tx.vin[i].txid # <<>>)
      BY DEF ToSet
    <3> HIDE DEF tx
    <3>4. (\A i \in DOMAIN tx.vin : tx.vin[i].txid # <<>>) => DeserializeTransaction(p) = Read(tx, rest)
      BY <2>1, <3>1, TransactionBack
    <3>5. p \in Seq(Byte)
      <4> DEFINE s == Serialize(tx)
      <4>1. s \in Seq(Byte)
        BY <3>1, TransactionBytes
      <4> HIDE DEF s
      <4>2. s \o rest \in Seq(Byte)
        BY <2>1, <4>1
      <4> QED
        BY <4>2 DEF s
    <3>6. tx.vin \in Seq(TxInput)
      BY <3>1 DEF Transaction, ListOf
    <3> HIDE DEF p
    <3>7. DeserializeTransaction(p) = Read(tx, rest) => \A i \in DOMAIN tx.vin : tx.vin[i].txid # <<>>
      BY <3>5, <3>6, TransactionIds
    <3> QED
      BY <3>2, <3>3, <3>4, <3>7 DEF tx
  <2> QED
    BY <2>3, <2>4, <2>5, <2>6 DEF StreamsAreKept, CameBack
<1> QED
  BY <1>1, CodecInvariant, PTL

-----------------------------------------------------------------------------
(* Headers *)

\* Dividing keeps the order.
LEMMA DividedMonotone ==
  ASSUME NEW v \in Nat, NEW w \in Nat, v <= w, NEW base \in Nat \ {0, 1}, NEW n \in Nat
  PROVE  Divided(v, base, n) <= Divided(w, base, n)
<1> DEFINE S == {k \in Nat : Divided(v, base, k) <= Divided(w, base, k)}
<1>1. 0 \in S
  BY DividedZero
<1>2. ASSUME NEW k \in S PROVE k + 1 \in S
  <2> DEFINE a == Divided(v, base, k)
             b == Divided(w, base, k)
  <2>1. k \in Nat /\ a \in Nat /\ b \in Nat /\ a <= b
    BY DividedType
  <2>2. Divided(v, base, k + 1) = a \div base /\ Divided(w, base, k + 1) = b \div base
    BY DividedNext
  <2> HIDE DEF a, b
  <2>3. a \div base <= b \div base
    BY <2>1
  <2> QED
    BY <2>1, <2>2, <2>3
<1>3. S \in SUBSET Nat
  OBVIOUS
<1> HIDE DEF S
<1>4. S = Nat
  BY <1>1, <1>2, <1>3, SetInduction
<1> QED
  BY <1>4 DEF S

\* Every nonce is a word.
LEMMA NoncesAreWords ==
  ASSUME NEW nonce \in 0..MaxNonce
  PROVE  nonce \in Word
<1>1. MaxNonce \in Nat /\ Divided(MaxNonce, ByteBase, 8) = 0
  BY CodecAssumption DEF Word, Fits
<1>2. nonce \in Nat /\ nonce <= MaxNonce
  BY <1>1
<1>3. Divided(nonce, ByteBase, 8) \in Nat /\ Divided(nonce, ByteBase, 8) <= Divided(MaxNonce, ByteBase, 8)
  <2>1. 8 \in Nat
    OBVIOUS
  <2> QED
    BY <1>1, <1>2, <2>1, ByteBaseFacts, DividedType, DividedMonotone
<1>4. Fits(nonce, 8)
  BY <1>1, <1>3 DEF Fits
<1> QED
  BY <1>2, <1>4 DEF Word

SameBytes(s, t, v, w) == s \o t = v \o w

\* Two cuts of the same bytes with ends of one length.
LEMMA EndsEqual ==
  ASSUME NEW s \in Seq(Byte), NEW t \in Seq(Byte), NEW v \in Seq(Byte), NEW w \in Seq(Byte),
         Len(t) = Len(w), SameBytes(s, t, v, w)
  PROVE  s = v /\ t = w
<1> DEFINE p == s \o t
<1>1. Cut(p, s, t)
  BY ConcatCut
<1>2. Cut(p, v, w)
  <2>1. Cut(v \o w, v, w)
    BY ConcatCut
  <2> QED
    BY <2>1 DEF SameBytes
<1> HIDE DEF p
<1> DEFINE m == Len(s)
           n == Len(v)
           k == Len(t)
<1>3. m \in Nat /\ n \in Nat /\ k \in Nat
  OBVIOUS
<1>4. Len(p) = m + k /\ Len(p) = n + k
  BY <1>1, <1>2 DEF Cut
<1> HIDE DEF m, n, k
<1>5. m = n
  BY <1>3, <1>4
<1> QED
  BY <1>1, <1>2, <1>5 DEF Cut, m, n

\* The least nonce that passes, or the last.
LEMMA RunFacts ==
  ASSUME NEW block
  PROVE  /\ Run(block) \in 0..MaxNonce
         /\ Validate(block, Run(block)) <=> \E nonce \in 0..MaxNonce : Validate(block, nonce)
<1> DEFINE N == {n \in 0..(MaxNonce - 1) : Validate(block, n)} \cup {MaxNonce}
<1>1. MaxNonce \in Nat
  BY CodecAssumption DEF Word
<1>2. Run(block) = CHOOSE n \in N : \A k \in N : n <= k
  BY Zenon DEF Run, Validate, Min
<1>3. N \subseteq 0..MaxNonce /\ N \in SUBSET Nat /\ N # {} /\ MaxNonce \in N
  BY <1>1
<1>4. \A n \in 0..MaxNonce : n \in N <=> n = MaxNonce \/ Validate(block, n)
  BY <1>1
<1> HIDE DEF N
<1>5. \E n \in N : \A k \in N : n <= k
  BY <1>3, NatMin
<1>6. Run(block) \in N /\ \A k \in N : Run(block) <= k
  BY <1>2, <1>5, Zenon
<1> DEFINE r == Run(block)
<1> HIDE DEF r
<1>7. r \in N /\ r \in 0..MaxNonce /\ \A k \in N : r <= k
  BY <1>3, <1>6 DEF r
<1>8. ASSUME NEW nonce \in 0..MaxNonce, Validate(block, nonce) PROVE Validate(block, r)
  <2>1. CASE r = MaxNonce
    <3>1. nonce \in N
      BY <1>4, <1>8
    <3>2. nonce = MaxNonce
      BY <1>1, <1>7, <2>1, <3>1
    <3> QED
      BY <1>8, <2>1, <3>2
  <2>2. CASE r # MaxNonce
    BY <1>4, <1>7, <2>2
  <2> QED
    BY <2>1, <2>2
<1> QED
  BY <1>7, <1>8 DEF r

\* The fields that are hashed.
SameHashed(block, other) ==
  block.prev = other.prev /\ block.root = other.root /\ block.timestamp = other.timestamp

\* All but the height.
LEMMA HashedFields ==
  ASSUME NEW block \in Header, NEW other \in Header
  PROVE  SameHashed(block, other) <=> [block EXCEPT !.height = 0] = [other EXCEPT !.height = 0]
<1> DEFINE p == [block EXCEPT !.height = 0]
           q == [other EXCEPT !.height = 0]
<1>1. /\ p = [height |-> 0, prev |-> block.prev, root |-> block.root, timestamp |-> block.timestamp]
      /\ q = [height |-> 0, prev |-> other.prev, root |-> other.root, timestamp |-> other.timestamp]
  BY DEF Header
<1> HIDE DEF p, q
<1>2. p = q <=> SameHashed(block, other)
  BY <1>1 DEF SameHashed
<1> QED
  BY <1>2 DEF p, q

\* The bytes that are hashed tell these fields and the nonce.
LEMMA DataTells ==
  ASSUME NEW block \in Header, NEW nonce \in Word, NEW other \in Header, NEW it \in Word,
         PrepareData(block, nonce) = PrepareData(other, it)
  PROVE  SameHashed(block, other) /\ nonce = it
<1> DEFINE t == Fixed(block.timestamp, 8)
           tt == Fixed(other.timestamp, 8)
           b == Fixed(TargetBits, 8)
           n == Fixed(nonce, 8)
           nn == Fixed(it, 8)
           p1 == block.prev \o block.root
           q1 == other.prev \o other.root
           p2 == p1 \o t
           q2 == q1 \o tt
           p3 == p2 \o b
           q3 == q2 \o b
<1>1. 8 \in Nat /\ TargetBits \in Nat /\ \A v \in Word : v \in Nat
  BY CodecAssumption DEF Word
<1>2. /\ block.prev \in Seq(Byte) /\ block.root \in Seq(Byte) /\ Len(block.root) = IdLen
      /\ other.prev \in Seq(Byte) /\ other.root \in Seq(Byte) /\ Len(other.root) = IdLen
      /\ block.timestamp \in Word /\ other.timestamp \in Word
  BY DEF Header, IdOrNone, Id
<1>3. /\ t \in Seq(Byte) /\ Len(t) = 8 /\ tt \in Seq(Byte) /\ Len(tt) = 8
      /\ b \in Seq(Byte) /\ n \in Seq(Byte) /\ Len(n) = 8 /\ nn \in Seq(Byte) /\ Len(nn) = 8
  BY <1>1, <1>2, FixedType
<1>4. PrepareData(block, nonce) = p3 \o n /\ PrepareData(other, it) = q3 \o nn
  BY Zenon DEF PrepareData, PreparedPrefix, IntToHex
<1> HIDE DEF t, tt, b, n, nn
<1>5. p1 \in Seq(Byte) /\ q1 \in Seq(Byte)
  BY <1>2
<1> HIDE DEF p1, q1
<1>6. p2 \in Seq(Byte) /\ q2 \in Seq(Byte)
  BY <1>3, <1>5
<1> HIDE DEF p2, q2
<1>7. p3 \in Seq(Byte) /\ q3 \in Seq(Byte)
  BY <1>3, <1>6
<1> HIDE DEF p3, q3
<1>8. SameBytes(p3, n, q3, nn)
  BY <1>4 DEF SameBytes
<1>9. p3 = q3 /\ n = nn
  BY <1>3, <1>7, <1>8, EndsEqual
<1>10. p2 = q2
  <2>1. SameBytes(p2, b, q2, b)
    BY <1>9 DEF SameBytes, p3, q3
  <2> QED
    BY <1>3, <1>6, <2>1, EndsEqual
<1>11. p1 = q1 /\ t = tt
  <2>1. SameBytes(p1, t, q1, tt)
    BY <1>10 DEF SameBytes, p2, q2
  <2> QED
    BY <1>3, <1>5, <2>1, EndsEqual
<1>12. block.prev = other.prev /\ block.root = other.root
  <2>1. SameBytes(block.prev, block.root, other.prev, other.root)
    BY <1>11 DEF SameBytes, p1, q1
  <2> QED
    BY <1>2, <2>1, EndsEqual
<1>13. nonce = it /\ block.timestamp = other.timestamp
  BY <1>2, <1>9, <1>11, FixedInjective DEF n, nn, t, tt
<1> QED
  BY <1>12, <1>13 DEF SameHashed

\* Exactly the blocks that differ in the height alone have, with the same nonce, the
\* bytes that were mined, and mining finds a nonce if there is one.
THEOREM HeadersCommit == Spec => []HeaderCommits
<1>1. CodecInv => HeaderCommits
  <2> SUFFICES ASSUME CodecInv, item.kind = "header" PROVE HeaderCommits
    BY DEF HeaderCommits
  <2>1. item \in [kind : {"header"}, val : Header]
    BY CodecAssumption DEF CodecInv, Item
  <2>2. ASSUME stage = "written", NEW other \in Headers, NEW nonce \in 0..MaxNonce
        PROVE  PrepareData(other.val, nonce) = data <=>
                 /\ nonce = Run(item.val)
                 /\ [other.val EXCEPT !.height = 0] = [item.val EXCEPT !.height = 0]
    <3> DEFINE block == item.val
               least == Run(item.val)
               same == other.val
    <3>1. data = PrepareData(block, least)
      BY <2>2 DEF CodecInv, Written
    <3>2. least \in Word /\ nonce \in Word
      BY RunFacts, NoncesAreWords
    <3>3. other \in [kind : {"header"}, val : Header]
      BY CodecAssumption DEF Headers, Item
    <3>4. block \in Header /\ same \in Header
      BY <2>1, <3>3
    <3> HIDE DEF block, least, same
    <3>5. SameHashed(same, block) <=> [same EXCEPT !.height = 0] = [block EXCEPT !.height = 0]
      BY <3>4, HashedFields
    <3>6. PrepareData(same, nonce) = data => SameHashed(same, block) /\ nonce = least
      BY <3>1, <3>2, <3>4, DataTells
    <3>7. SameHashed(same, block) => PrepareData(same, least) = PrepareData(block, least)
      BY Zenon DEF SameHashed, PrepareData, PreparedPrefix
    <3>8. PrepareData(same, nonce) = data <=>
            nonce = least /\ [same EXCEPT !.height = 0] = [block EXCEPT !.height = 0]
      BY <3>1, <3>5, <3>6, <3>7
    <3> QED
      BY <3>8 DEF block, least, same
  <2>3. ASSUME stage = "read"
        PROVE  back.ok <=> \E nonce \in 0..MaxNonce : Validate(item.val, nonce)
    <3>1. back = IF Validate(item.val, Run(item.val)) THEN Read(item.val, rest) ELSE Error
      BY <2>3 DEF CodecInv, Found
    <3>2. back.ok <=> Validate(item.val, Run(item.val))
      BY <3>1, ReadIs, ErrorIs
    <3> QED
      BY <3>2, RunFacts
  <2> QED
    BY <2>2, <2>3 DEF HeaderCommits
<1> QED
  BY <1>1, CodecInvariant, PTL

-----------------------------------------------------------------------------
(* The tree of hashes *)

LevelStep(nodes, g, j) ==
  IF j = 0 THEN nodes
  ELSE [i \in 1..Divided(Len(nodes), 2, j) |-> Join(g[j - 1][2 * i - 1], g[j - 1][2 * i])]

AreLevels(nodes, N, g) == g = [j \in 0..N |-> LevelStep(nodes, g, j)]

\* The recursion that Level names has a solution.
LEMMA LevelExists ==
  ASSUME NEW nodes, NEW N \in Nat
  PROVE  \E g : AreLevels(nodes, N, g)
<1> DEFINE G == {n \in Nat : \E g : AreLevels(nodes, n, g)}
<1>1. 0 \in G
  <2> DEFINE g == [k \in 0..0 |-> nodes]
  <2>1. \A k \in 0..0 : LevelStep(nodes, g, k) = nodes
    BY DEF LevelStep
  <2> HIDE DEF g
  <2>2. AreLevels(nodes, 0, g)
    BY <2>1 DEF AreLevels, g
  <2> QED
    BY <2>2
<1>2. \A n \in G : n + 1 \in G
  <2> SUFFICES ASSUME NEW n \in Nat, NEW g, AreLevels(nodes, n, g) PROVE n + 1 \in G
    OBVIOUS
  <2> DEFINE h == [m \in 0..(n + 1) |-> LevelStep(nodes, g, m)]
  <2>1. \A m \in 0..n : h[m] = g[m]
    BY DEF AreLevels
  <2>2. \A m \in 0..(n + 1) : h[m] = LevelStep(nodes, g, m)
    OBVIOUS
  <2>3. \A m \in 0..(n + 1) : LevelStep(nodes, g, m) = LevelStep(nodes, h, m)
    <3> HIDE DEF h
    <3> TAKE m \in 0..(n + 1)
    <3>1. CASE m = 0
      BY <3>1 DEF LevelStep
    <3>2. CASE m # 0
      <4>1. m - 1 \in 0..n
        BY <3>2
      <4>2. g[m - 1] = h[m - 1]
        BY <2>1, <4>1
      <4> QED
        BY <3>2, <4>2 DEF LevelStep
    <3> QED
      BY <3>1, <3>2
  <2>4. h = [m \in 0..(n + 1) |-> h[m]]
    OBVIOUS
  <2> HIDE DEF h
  <2>5. AreLevels(nodes, n + 1, h)
    BY <2>2, <2>3, <2>4 DEF AreLevels
  <2> QED
    BY <2>5
<1>3. G = Nat
  <2> HIDE DEF G
  <2> QED
    BY <1>1, <1>2, SetInduction DEF G
<1> QED
  BY <1>3

Levels(nodes, N) == CHOOSE g : AreLevels(nodes, N, g)

Joined(nodes, size) == [i \in 1..size |-> Join(nodes[2 * i - 1], nodes[2 * i])]

\* One level more.
LEMMA LevelDef ==
  ASSUME NEW nodes, NEW n \in Nat
  PROVE  /\ Level(nodes, 0) = nodes
         /\ Level(nodes, n + 1) = Joined(Level(nodes, n), Divided(Len(nodes), 2, n + 1))
<1> DEFINE g == Levels(nodes, n)
           h == Levels(nodes, n + 1)
           o == Levels(nodes, 0)
<1>1. \E f : AreLevels(nodes, n, f)
  BY LevelExists
<1>2. \E f : AreLevels(nodes, n + 1, f)
  <2>1. n + 1 \in Nat
    OBVIOUS
  <2> QED
    BY <2>1, LevelExists
<1>3. \E f : AreLevels(nodes, 0, f)
  BY LevelExists
<1>4. AreLevels(nodes, n, g) /\ AreLevels(nodes, n + 1, h) /\ AreLevels(nodes, 0, o)
  BY <1>1, <1>2, <1>3, Zenon DEF Levels
<1>5. \A k : Level(nodes, k) = Levels(nodes, k)[k]
  BY DEF Level, Levels, AreLevels, LevelStep
<1> HIDE DEF g, h, o
<1>6. \A k \in 0..n : g[k] = LevelStep(nodes, g, k)
  BY <1>4 DEF AreLevels
<1>7. \A k \in 0..(n + 1) : h[k] = LevelStep(nodes, h, k)
  BY <1>4 DEF AreLevels
<1>8. o[0] = nodes
  BY <1>4 DEF AreLevels, LevelStep
<1>9. g[0] = h[0]
  <2>1. 0 \in 0..n /\ 0 \in 0..(n + 1)
    OBVIOUS
  <2>2. g[0] = LevelStep(nodes, g, 0) /\ h[0] = LevelStep(nodes, h, 0)
    BY <1>6, <1>7, <2>1
  <2>3. LevelStep(nodes, g, 0) = nodes /\ LevelStep(nodes, h, 0) = nodes
    BY DEF LevelStep
  <2> QED
    BY <2>2, <2>3
<1>10. ASSUME NEW k \in 0..(n - 1), g[k] = h[k] PROVE g[k + 1] = h[k + 1]
  <2>1. k + 1 \in 0..n /\ k + 1 \in 0..(n + 1) /\ (k + 1) - 1 = k /\ k + 1 # 0
    OBVIOUS
  <2>2. g[k + 1] = Joined(g[k], Divided(Len(nodes), 2, k + 1))
    BY <1>6, <2>1 DEF LevelStep, Joined
  <2>3. h[k + 1] = Joined(h[k], Divided(Len(nodes), 2, k + 1))
    BY <1>7, <2>1 DEF LevelStep, Joined
  <2> QED
    BY <1>10, <2>2, <2>3
<1>11. SameSteps(g, h, n)
  BY <1>9, <1>10 DEF SameSteps
<1>12. g[n] = h[n]
  <2>1. n \in 0..n
    OBVIOUS
  <2> QED
    BY <1>11, <2>1, StepsAgree
<1>13. h[n + 1] = Joined(h[n], Divided(Len(nodes), 2, n + 1))
  <2>1. n + 1 \in 0..(n + 1) /\ (n + 1) - 1 = n /\ n + 1 # 0
    OBVIOUS
  <2> QED
    BY <1>7, <2>1 DEF LevelStep, Joined
<1>14. Level(nodes, n) = g[n] /\ Level(nodes, n + 1) = h[n + 1] /\ Level(nodes, 0) = o[0]
  BY <1>5 DEF g, h, o
<1> QED
  BY <1>8, <1>12, <1>13, <1>14

\* A level is a list of as many nodes as the division leaves.
Filled(level, size) == level = [i \in 1..size |-> level[i]]

LEMMA LevelFilled ==
  ASSUME NEW T, NEW nodes \in Seq(T), NEW k \in Nat
  PROVE  /\ Filled(Level(nodes, k), Divided(Len(nodes), 2, k))
         /\ Divided(Len(nodes), 2, k) \in Nat
<1> DEFINE s == Divided(Len(nodes), 2, k)
<1>1. Len(nodes) \in Nat
  OBVIOUS
<1>2. s \in Nat
  BY <1>1, DividedType
<1>3. CASE k = 0
  <2>1. Level(nodes, 0) = nodes
    BY LevelDef
  <2>2. Divided(Len(nodes), 2, 0) = Len(nodes)
    BY DividedZero
  <2>3. nodes = [i \in 1..Len(nodes) |-> nodes[i]]
    OBVIOUS
  <2> QED
    BY <1>2, <1>3, <2>1, <2>2, <2>3 DEF Filled
<1>4. CASE k # 0
  <2>1. k - 1 \in Nat /\ (k - 1) + 1 = k
    BY <1>4
  <2>2. Level(nodes, k) = Joined(Level(nodes, k - 1), s)
    BY <2>1, LevelDef
  <2> HIDE DEF s
  <2>3. Filled(Joined(Level(nodes, k - 1), s), s)
    BY DEF Filled, Joined
  <2> QED
    BY <1>2, <2>2, <2>3 DEF s
<1> QED
  BY <1>3, <1>4

\* Equal levels have as many nodes.
LEMMA SameSize ==
  ASSUME NEW f, NEW g, NEW m \in Nat, NEW n \in Nat, Joined(f, m) = Joined(g, n)
  PROVE  m = n
<1>1. DOMAIN Joined(f, m) = 1..m /\ DOMAIN Joined(g, n) = 1..n
  BY DEF Joined
<1>2. 1..m = 1..n
  BY <1>1
<1>3. \A i \in Int : i \in 1..m <=> i \in 1..n
  BY <1>2
<1>4. m \in 1..m \/ m = 0
  OBVIOUS
<1>5. n \in 1..n \/ n = 0
  OBVIOUS
<1> QED
  BY <1>3, <1>4, <1>5

\* Joined nodes tell what they were joined from.
JoinTells(f, g, m) ==
  \A i \in 1..m : Join(f[2 * i - 1], f[2 * i]) = Join(g[2 * i - 1], g[2 * i]) =>
                     f[2 * i - 1] = g[2 * i - 1] /\ f[2 * i] = g[2 * i]

LEMMA LevelDown ==
  ASSUME NEW f, NEW g, NEW m \in Nat,
         Filled(f, 2 * m), Filled(g, 2 * m), Joined(f, m) = Joined(g, m), JoinTells(f, g, m)
  PROVE  f = g
<1>2. ASSUME NEW i \in 1..m PROVE f[2 * i - 1] = g[2 * i - 1] /\ f[2 * i] = g[2 * i]
  <2>1. Joined(f, m)[i] = Join(f[2 * i - 1], f[2 * i])
    BY DEF Joined
  <2>2. Joined(g, m)[i] = Join(g[2 * i - 1], g[2 * i])
    BY DEF Joined
  <2> QED
    BY <2>1, <2>2 DEF JoinTells
<1>3. ASSUME NEW p \in 1..(2 * m) PROVE f[p] = g[p]
  <2> DEFINE i == (p + 1) \div 2
  <2>1. i \in 1..m /\ (p = 2 * i - 1 \/ p = 2 * i)
    OBVIOUS
  <2> HIDE DEF i
  <2> QED
    BY <1>2, <2>1
<1> QED
  BY <1>3 DEF Filled

-----------------------------------------------------------------------------
(* Powers of two *)

\* The first odd number on the way down.
OddAt(size, k) ==
  Divided(size, 2, k) % 2 = 1 /\ \A j \in 0..(k - 1) : Divided(size, 2, j) % 2 = 0

LEMMA TwoIsBase == 2 \in Nat \ {0, 1}
OBVIOUS

LEMMA TopDef ==
  ASSUME NEW size \in Nat, size > 0
  PROVE  Top(size) \in 0..size /\ OddAt(size, Top(size))
<1> DEFINE S == {k \in Nat : Divided(size, 2, k) % 2 = 1}
           n == DigitCount(size, 2)
<1>1. n \in 0..size /\ Leaves(size, 2, n)
  BY TwoIsBase, DigitCountDef
<1> HIDE DEF n
<1>2. n # 0
  BY <1>1, DividedZero DEF Leaves
<1>3. n - 1 \in Nat /\ (n - 1) + 1 = n /\ n - 1 \in 0..(n - 1) /\ n - 1 <= size
  BY <1>1, <1>2
<1>4. n - 1 \in S
  <2> DEFINE d == Divided(size, 2, n - 1)
  <2>1. d \in Nat /\ d # 0
    BY <1>1, <1>3, TwoIsBase, DividedType DEF Leaves
  <2>2. d \div 2 = 0
    <3>1. Divided(size, 2, (n - 1) + 1) = d \div 2
      BY <1>3, DividedNext
    <3> QED
      BY <1>1, <1>3, <3>1 DEF Leaves
  <2> HIDE DEF d
  <2>3. d % 2 = 1
    BY <2>1, <2>2
  <2> QED
    BY <1>3, <2>3 DEF d
<1>5. S \in SUBSET Nat /\ S # {}
  BY <1>4
<1> HIDE DEF S
<1>6. PICK k \in S : \A m \in S : k <= m
  BY <1>5, NatMin
<1>7. k \in 0..size
  BY <1>3, <1>4, <1>5, <1>6
<1>8. OddAt(size, k)
  <2>1. ASSUME NEW j \in 0..(k - 1) PROVE Divided(size, 2, j) % 2 = 0
    <3>1. j \in Nat /\ j \notin S
      BY <1>6, <1>7
    <3>2. Divided(size, 2, j) \in Nat /\ Divided(size, 2, j) % 2 # 1
      BY <3>1, TwoIsBase, DividedType DEF S
    <3> QED
      BY <3>2
  <2> QED
    BY <1>6, <2>1 DEF S, OddAt
<1> QED
  BY <1>7, <1>8, Zenon DEF Top, OddAt

LEMMA OddOnce ==
  ASSUME NEW size, NEW m \in Nat, NEW n \in Nat, OddAt(size, m), OddAt(size, n)
  PROVE  m = n
<1>1. CASE m < n
  <2>1. m \in 0..(n - 1)
    BY <1>1
  <2> QED
    BY <2>1 DEF OddAt
<1>2. CASE n < m
  <2>1. n \in 0..(m - 1)
    BY <1>2
  <2> QED
    BY <2>1 DEF OddAt
<1> QED
  BY <1>1, <1>2

LEMMA TwoToNext ==
  ASSUME NEW k \in Nat
  PROVE  TwoTo(0) = 1 /\ TwoTo(k) \in Nat /\ TwoTo(k + 1) = 2 * TwoTo(k)
<1> DEFINE o == <<1>>
           z == Zeros(k)
<1>1. o \in Seq(Digit(2)) /\ 0 \in Digit(2) /\ 1 \in Digit(2)
  BY DEF Digit
<1>2. o = Append(<<>>, 1) /\ o \o <<>> = o /\ <<>> \in Seq(Digit(2))
  OBVIOUS
<1> HIDE DEF o
<1>3. z \in Seq(Digit(2)) /\ Zeros(k + 1) = Append(z, 0) /\ Zeros(0) = <<>>
  BY TwoIsBase, ZerosFacts
<1> HIDE DEF z
<1>4. o \o Append(z, 0) = Append(o \o z, 0)
  BY <1>1, <1>3, AppendAfterConcat
<1> DEFINE oz == o \o z
<1>5. oz \in Seq(Digit(2))
  BY <1>1, <1>3
<1> HIDE DEF oz
<1>6. Number(oz, 2) \in Nat /\ Number(Append(oz, 0), 2) = Number(oz, 2) * 2 + 0
  BY <1>1, <1>5, TwoIsBase, NumberType, NumberAppend
<1>7. Number(o, 2) = 1
  <2>1. Number(Append(<<>>, 1), 2) = Number(<<>>, 2) * 2 + 1
    BY <1>1, <1>2, NumberAppend
  <2> QED
    BY <1>2, <2>1, NumberEmpty
<1>8. TwoTo(0) = 1
  BY <1>2, <1>3, <1>7 DEF TwoTo, o
<1>9. TwoTo(k) = Number(oz, 2) /\ TwoTo(k + 1) = Number(Append(oz, 0), 2)
  BY <1>3, <1>4 DEF TwoTo, o, z, oz
<1> QED
  BY <1>6, <1>8, <1>9

LEMMA TwoToExceeds ==
  ASSUME NEW n \in Nat
  PROVE  TwoTo(n) > n
<1> DEFINE S == {k \in Nat : TwoTo(k) > k}
<1>1. 0 \in S
  BY TwoToNext
<1>2. ASSUME NEW k \in S PROVE k + 1 \in S
  BY TwoToNext
<1>3. S \in SUBSET Nat
  OBVIOUS
<1> HIDE DEF S
<1>4. S = Nat
  BY <1>1, <1>2, <1>3, SetInduction
<1> QED
  BY <1>4 DEF S

\* A power of two is even until one is left.
LEMMA TwoToOdd ==
  ASSUME NEW n \in Nat
  PROVE  Divided(TwoTo(n), 2, n) = 1 /\ OddAt(TwoTo(n), n)
<1> DEFINE Good(k) ==
             /\ Divided(TwoTo(k), 2, k) = 1
             /\ \A j \in 0..(k - 1) : Divided(TwoTo(k), 2, j) % 2 = 0
           S == {k \in Nat : Good(k)}
<1>1. Good(0)
  BY TwoToNext, DividedZero
<1>2. ASSUME NEW k \in Nat, Good(k) PROVE Good(k + 1)
  <2> DEFINE v == TwoTo(k + 1)
             w == TwoTo(k)
  <2>1. w \in Nat /\ v = 2 * w
    BY TwoToNext
  <2>2. v \div 2 = w /\ v % 2 = 0
    BY <2>1
  <2>3. \A j \in Nat : Divided(v, 2, j + 1) = Divided(w, 2, j)
    BY <2>2, DividedFirst
  <2>4. Divided(w, 2, k) = 1 /\ \A j \in 0..(k - 1) : Divided(w, 2, j) % 2 = 0
    BY <1>2
  <2>5. Divided(v, 2, 0) = v
    BY DividedZero
  <2> HIDE DEF v, w
  <2>6. Divided(v, 2, k + 1) = 1
    BY <2>3, <2>4
  <2>7. ASSUME NEW j \in 0..((k + 1) - 1) PROVE Divided(v, 2, j) % 2 = 0
    <3>1. CASE j = 0
      BY <2>2, <2>5, <3>1
    <3>2. CASE j # 0
      <4>1. j - 1 \in Nat /\ j - 1 \in 0..(k - 1) /\ (j - 1) + 1 = j
        BY <3>2
      <4>2. Divided(v, 2, (j - 1) + 1) = Divided(w, 2, j - 1)
        BY <2>3, <4>1
      <4> QED
        BY <2>4, <4>1, <4>2
    <3> QED
      BY <3>1, <3>2
  <2> QED
    BY <2>6, <2>7 DEF v
<1> HIDE DEF Good
<1>3. 0 \in S
  BY <1>1
<1>4. ASSUME NEW k \in S PROVE k + 1 \in S
  BY <1>2
<1>5. S \in SUBSET Nat
  OBVIOUS
<1> HIDE DEF S
<1>6. S = Nat
  BY <1>3, <1>4, <1>5, SetInduction
<1>7. Good(n)
  BY <1>6 DEF S
<1> QED
  BY <1>7 DEF Good, OddAt

\* Nothing else is.
LEMMA OnlyTwoTo ==
  ASSUME NEW n \in Nat
  PROVE  \A v \in Nat : Divided(v, 2, n) = 1 /\ OddAt(v, n) => v = TwoTo(n)
<1> DEFINE Good(k) == \A v \in Nat : Divided(v, 2, k) = 1 /\ OddAt(v, k) => v = TwoTo(k)
           S == {k \in Nat : Good(k)}
<1>1. Good(0)
  BY TwoToNext, DividedZero
<1>2. ASSUME NEW k \in Nat, Good(k) PROVE Good(k + 1)
  <2> SUFFICES ASSUME NEW v \in Nat, Divided(v, 2, k + 1) = 1, OddAt(v, k + 1) PROVE v = TwoTo(k + 1)
    OBVIOUS
  <2> DEFINE w == v \div 2
  <2>1. \A j \in Nat : Divided(v, 2, j + 1) = Divided(w, 2, j)
    BY DividedFirst
  <2>2. v % 2 = 0
    <3>1. 0 \in 0..((k + 1) - 1)
      OBVIOUS
    <3>2. Divided(v, 2, 0) % 2 = 0
      BY <3>1 DEF OddAt
    <3> QED
      BY <3>2, DividedZero
  <2>3. w \in Nat /\ v = 2 * w
    BY <2>2
  <2> HIDE DEF w
  <2>4. Divided(w, 2, k) = 1
    BY <2>1
  <2>5. ASSUME NEW j \in 0..(k - 1) PROVE Divided(w, 2, j) % 2 = 0
    <3>1. j \in Nat /\ j + 1 \in 0..((k + 1) - 1)
      OBVIOUS
    <3>2. Divided(v, 2, j + 1) % 2 = 0
      BY <3>1 DEF OddAt
    <3> QED
      BY <2>1, <3>1, <3>2
  <2>6. OddAt(w, k)
    BY <2>4, <2>5 DEF OddAt
  <2>7. w = TwoTo(k)
    BY <1>2, <2>3, <2>4, <2>6
  <2> QED
    BY <2>3, <2>7, TwoToNext
<1> HIDE DEF Good
<1>3. 0 \in S
  BY <1>1
<1>4. ASSUME NEW k \in S PROVE k + 1 \in S
  BY <1>2
<1>5. S \in SUBSET Nat
  OBVIOUS
<1> HIDE DEF S
<1>6. S = Nat
  BY <1>3, <1>4, <1>5, SetInduction
<1>7. Good(n)
  BY <1>6 DEF S
<1> QED
  BY <1>7 DEF Good

-----------------------------------------------------------------------------
(* Roots *)

Hashes(D) == {Leaf(datum) : datum \in D}

LEMMA LeavesOfFacts ==
  ASSUME NEW D, NEW l \in Seq(D)
  PROVE  /\ LeavesOf(l) \in Seq(Hashes(D)) /\ Len(LeavesOf(l)) = Len(l)
         /\ \A i \in 1..Len(l) : LeavesOf(l)[i] = Leaf(l[i])
<1>1. Len(l) \in Nat /\ DOMAIN l = 1..Len(l) /\ \A i \in 1..Len(l) : l[i] \in D
  OBVIOUS
<1>2. LeavesOf(l) = [i \in 1..Len(l) |-> Leaf(l[i])]
  BY <1>1 DEF LeavesOf
<1>3. \A i \in 1..Len(l) : Leaf(l[i]) \in Hashes(D)
  BY <1>1 DEF Hashes
<1> DEFINE n == Len(l)
           f == LeavesOf(l)
<1> HIDE DEF n, f
<1>4. f \in [1..n -> Hashes(D)]
  BY <1>2, <1>3 DEF f, n
<1>5. f \in Seq(Hashes(D)) /\ Len(f) = n
  BY <1>1, <1>4 DEF n
<1> QED
  BY <1>2, <1>5 DEF f, n

\* A division by two leaves no more.
LEMMA DividedAtMost ==
  ASSUME NEW v \in Nat, NEW k \in Nat
  PROVE  Divided(v, 2, k) \in Nat /\ Divided(v, 2, k) <= v
<1> DEFINE S == {n \in Nat : Divided(v, 2, n) <= v}
<1>1. 0 \in S
  BY DividedZero
<1>2. ASSUME NEW n \in S PROVE n + 1 \in S
  <2> DEFINE d == Divided(v, 2, n)
  <2>1. n \in Nat /\ d \in Nat /\ d <= v /\ Divided(v, 2, n + 1) = d \div 2
    BY DividedType, DividedNext
  <2> HIDE DEF d
  <2>2. d \div 2 <= d /\ d \div 2 \in Nat
    BY <2>1
  <2> QED
    BY <2>1, <2>2
<1>3. S \in SUBSET Nat
  OBVIOUS
<1> HIDE DEF S
<1>4. S = Nat
  BY <1>1, <1>2, <1>3, SetInduction
<1>5. Divided(v, 2, k) \in Nat
  BY TwoIsBase, DividedType
<1> QED
  BY <1>4, <1>5 DEF S

\* Two lists of an even length that are not empty, both joined to one root.
Rooted(nodes, top) ==
  /\ top \in Nat \ {0}
  /\ Divided(Len(nodes), 2, top) = 1
  /\ OddAt(Len(nodes), top)

LEMMA JoinLevelsRooted ==
  ASSUME NEW T, NEW nodes \in Seq(T), Len(nodes) > 0, Len(nodes) % 2 = 0
  PROVE  \/ /\ JoinLevels(nodes) = OutOfRange
            /\ Divided(Len(nodes), 2, Top(Len(nodes))) # 1
         \/ /\ Rooted(nodes, Top(Len(nodes)))
            /\ JoinLevels(nodes) = Level(nodes, Top(Len(nodes)))[1]
<1> DEFINE size == Len(nodes)
           top == Top(size)
<1>1. size \in Nat /\ size > 0 /\ size % 2 = 0
  OBVIOUS
<1>2. JoinLevels(nodes) = IF Divided(size, 2, top) = 1 THEN Level(nodes, top)[1] ELSE OutOfRange
  BY Zenon DEF JoinLevels
<1> HIDE DEF size
<1>3. top \in 0..size /\ OddAt(size, top)
  BY <1>1, TopDef
<1>4. top # 0
  BY <1>1, <1>3, DividedZero DEF OddAt
<1> HIDE DEF top
<1>5. CASE Divided(size, 2, top) = 1
  <2>1. top \in Nat \ {0}
    BY <1>1, <1>3, <1>4
  <2>2. Rooted(nodes, top)
    BY <1>3, <1>5, <2>1 DEF Rooted, size
  <2> QED
    BY <1>2, <1>5, <2>2 DEF size, top
<1>6. CASE Divided(size, 2, top) # 1
  BY <1>2, <1>6 DEF size, top
<1> QED
  BY <1>5, <1>6

\* The strings hashed for a root over these data.
Strings(l) == ToSet(l) \cup Pairs(LeavesOf(l))

\* Data joined to one root, and every hash is as long as an id.
Tree(l, top) ==
  /\ l \in Seq(Seq(Byte))
  /\ Len(l) > 0
  /\ Rooted(LeavesOf(l), top)
  /\ top = Top(Len(LeavesOf(l)))
  /\ \A s \in Strings(l) : Sum256(s) \in Id

LEMMA TreeLeaves ==
  ASSUME NEW l, NEW m, Tree(l, m)
  PROVE  /\ m \in Nat \ {0}
         /\ LeavesOf(l) \in Seq(Hashes(Seq(Byte))) /\ Len(LeavesOf(l)) = Len(l) /\ Len(l) \in Nat
         /\ \A i \in 1..Len(l) : LeavesOf(l)[i] = Sum256(l[i]) /\ l[i] \in Strings(l)
<1>1. l \in Seq(Seq(Byte)) /\ m \in Nat \ {0}
  BY DEF Tree, Rooted
<1>2. /\ LeavesOf(l) \in Seq(Hashes(Seq(Byte))) /\ Len(LeavesOf(l)) = Len(l)
      /\ \A i \in 1..Len(l) : LeavesOf(l)[i] = Leaf(l[i])
  BY <1>1, LeavesOfFacts
<1>3. \A i \in 1..Len(l) : l[i] \in ToSet(l)
  BY <1>1 DEF ToSet
<1> QED
  BY <1>1, <1>2, <1>3 DEF Leaf, Strings

\* The nodes that are joined one level up, below the root.
LEMMA PairsAreHashed ==
  ASSUME NEW l, NEW m, Tree(l, m), NEW j \in 0..(m - 1),
         NEW i \in 1..Divided(Len(LeavesOf(l)), 2, j + 1)
  PROVE  Level(LeavesOf(l), j)[2 * i - 1] \o Level(LeavesOf(l), j)[2 * i] \in Strings(l)
<1> DEFINE f == LeavesOf(l)
<1>1. j \in 0..(Top(Len(f)) - 1)
  BY DEF Tree
<1> HIDE DEF f
<1>2. Level(f, j)[2 * i - 1] \o Level(f, j)[2 * i] \in
        {Level(f, j)[2 * p - 1] \o Level(f, j)[2 * p] : p \in 1..Divided(Len(f), 2, j + 1)}
  BY DEF f
<1>3. Level(f, j)[2 * i - 1] \o Level(f, j)[2 * i] \in Pairs(f)
  BY <1>1, <1>2, Zenon DEF Pairs
<1> QED
  BY <1>3 DEF Strings, f

\* On the way up every level has twice as many nodes as the next.
LEMMA LevelHalves ==
  ASSUME NEW l, NEW m, Tree(l, m), NEW j \in 0..(m - 1)
  PROVE  /\ Divided(Len(LeavesOf(l)), 2, j + 1) \in Nat
         /\ Divided(Len(LeavesOf(l)), 2, j) = 2 * Divided(Len(LeavesOf(l)), 2, j + 1)
<1> DEFINE size == Len(LeavesOf(l))
           a == Divided(size, 2, j + 1)
           v == Divided(size, 2, j)
<1>1. m \in Nat /\ j \in Nat /\ size \in Nat
  BY TreeLeaves
<1>2. v \in Nat /\ v % 2 = 0 /\ a = v \div 2
  BY <1>1, DividedType, DividedNext DEF Tree, Rooted, OddAt
<1> HIDE DEF v, a
<1>3. a \in Nat /\ v = 2 * a
  BY <1>2
<1> QED
  BY <1>3 DEF v, a

LEMMA LevelIds ==
  ASSUME NEW l, NEW m, Tree(l, m), NEW j \in 0..m,
         NEW p \in 1..Divided(Len(LeavesOf(l)), 2, j)
  PROVE  Level(LeavesOf(l), j)[p] \in Id
<1> DEFINE f == LeavesOf(l)
<1>1. m \in Nat /\ f \in Seq(Hashes(Seq(Byte))) /\ Len(f) = Len(l) /\ Len(f) \in Nat
  BY TreeLeaves
<1>2. CASE j = 0
  <2>1. Level(f, j) = f /\ Divided(Len(f), 2, j) = Len(l)
    BY <1>1, <1>2, LevelDef, DividedZero
  <2>2. p \in 1..Len(l)
    BY <2>1
  <2>3. f[p] = Sum256(l[p]) /\ l[p] \in Strings(l)
    BY <2>2, TreeLeaves
  <2>4. Sum256(l[p]) \in Id
    BY <2>3 DEF Tree
  <2> QED
    BY <2>1, <2>3, <2>4
<1>3. CASE j # 0
  <2> DEFINE k == j - 1
             size == Divided(Len(f), 2, k + 1)
  <2>1. k \in 0..(m - 1) /\ k \in Nat /\ k + 1 = j
    BY <1>1, <1>3
  <2> HIDE DEF k
  <2>2. Level(f, j) = Joined(Level(f, k), size) /\ p \in 1..size
    BY <2>1, LevelDef
  <2> DEFINE pair == Level(f, k)[2 * p - 1] \o Level(f, k)[2 * p]
  <2>3. pair \in Strings(l)
    BY <2>1, <2>2, PairsAreHashed
  <2>4. Level(f, j)[p] = Sum256(pair)
    BY <2>2 DEF Joined, Join
  <2> HIDE DEF pair
  <2> QED
    BY <2>3, <2>4 DEF Tree
<1> QED
  BY <1>2, <1>3

\* No two strings of two trees collide.
Apart(l, r) == \A a \in Strings(l), b \in Strings(r) : Sum256(a) = Sum256(b) => a = b

LEMMA LevelsTell ==
  ASSUME NEW l, NEW r, NEW m, NEW n, Tree(l, m), Tree(r, n), Apart(l, r),
         NEW j \in 0..(m - 1), NEW k \in 0..(n - 1), NEW size,
         size = Divided(Len(LeavesOf(l)), 2, j + 1), size = Divided(Len(LeavesOf(r)), 2, k + 1)
  PROVE  JoinTells(Level(LeavesOf(l), j), Level(LeavesOf(r), k), size)
<1> DEFINE f == Level(LeavesOf(l), j)
           g == Level(LeavesOf(r), k)
<1> SUFFICES ASSUME NEW i \in 1..size, Join(f[2 * i - 1], f[2 * i]) = Join(g[2 * i - 1], g[2 * i])
             PROVE  f[2 * i - 1] = g[2 * i - 1] /\ f[2 * i] = g[2 * i]
  BY DEF JoinTells
<1>1. m \in Nat /\ n \in Nat /\ size \in Nat
  BY TreeLeaves, LevelHalves
<1>2. 2 * i - 1 \in 1..(2 * size) /\ 2 * i \in 1..(2 * size) /\ j \in 0..m /\ k \in 0..n
  BY <1>1
<1>3. Divided(Len(LeavesOf(l)), 2, j) = 2 * size /\ Divided(Len(LeavesOf(r)), 2, k) = 2 * size
  BY LevelHalves
<1>4. f[2 * i - 1] \in Id /\ f[2 * i] \in Id /\ g[2 * i - 1] \in Id /\ g[2 * i] \in Id
  BY <1>2, <1>3, LevelIds
<1>5. f[2 * i - 1] \o f[2 * i] \in Strings(l) /\ g[2 * i - 1] \o g[2 * i] \in Strings(r)
  BY PairsAreHashed
<1> HIDE DEF f, g
<1> DEFINE a == f[2 * i - 1]
           b == f[2 * i]
           c == g[2 * i - 1]
           d == g[2 * i]
<1>6. Sum256(a \o b) = Sum256(c \o d)
  BY Zenon DEF Join
<1>7. SameBytes(a, b, c, d)
  BY <1>5, <1>6 DEF Apart, SameBytes
<1>8. a \in Seq(Byte) /\ b \in Seq(Byte) /\ c \in Seq(Byte) /\ d \in Seq(Byte) /\ Len(b) = Len(d)
  BY <1>4 DEF Id
<1> HIDE DEF a, b, c, d
<1>9. a = c /\ b = d
  BY <1>7, <1>8, EndsEqual
<1> QED
  BY <1>9 DEF a, b, c, d

\* Going down from one root, two trees have the same levels.
LEMMA SameLevels ==
  ASSUME NEW l, NEW r, NEW m, NEW n, Tree(l, m), Tree(r, n), Apart(l, r), m <= n,
         Level(LeavesOf(l), m)[1] = Level(LeavesOf(r), n)[1]
  PROVE  LeavesOf(l) = Level(LeavesOf(r), n - m)
<1> DEFINE f == LeavesOf(l)
           g == LeavesOf(r)
<1>1. /\ m \in Nat /\ n \in Nat /\ f \in Seq(Hashes(Seq(Byte))) /\ g \in Seq(Hashes(Seq(Byte)))
      /\ Divided(Len(f), 2, m) = 1 /\ Divided(Len(g), 2, n) = 1
  BY TreeLeaves DEF Tree, Rooted
<1>2. Level(f, m) = Level(g, n)
  <2> DEFINE h == Level(f, m)
             k == Level(g, n)
  <2>1. Filled(h, 1) /\ Filled(k, 1) /\ h[1] = k[1]
    BY <1>1, LevelFilled
  <2> HIDE DEF h, k
  <2>2. h = k
    BY <2>1 DEF Filled
  <2> QED
    BY <2>2 DEF h, k
<1> DEFINE S == {d \in 0..m : Level(f, m - d) = Level(g, n - d)}
<1>3. 0 \in S
  BY <1>1, <1>2
<1>4. \A d \in 0..(m - 1) : d \in S => d + 1 \in S
  <2> SUFFICES ASSUME NEW d \in 0..(m - 1), d \in S PROVE d + 1 \in S
    OBVIOUS
  <2> DEFINE j == m - (d + 1)
             k == n - (d + 1)
             a == Divided(Len(f), 2, j + 1)
             b == Divided(Len(g), 2, k + 1)
  <2>1. /\ j \in Nat /\ k \in Nat /\ m - d = j + 1 /\ n - d = k + 1 /\ d + 1 \in 0..m
        /\ j \in 0..(m - 1) /\ k \in 0..(n - 1)
    BY <1>1
  <2>2. Level(f, j + 1) = Level(g, k + 1)
    BY <2>1
  <2> HIDE DEF j, k
  <2>3. Level(f, j + 1) = Joined(Level(f, j), a) /\ Level(g, k + 1) = Joined(Level(g, k), b)
    BY <2>1, LevelDef
  <2>4. /\ a \in Nat /\ Divided(Len(f), 2, j) = 2 * a
        /\ b \in Nat /\ Divided(Len(g), 2, k) = 2 * b
    BY <2>1, LevelHalves
  <2>5. Filled(Level(f, j), 2 * a) /\ Filled(Level(g, k), 2 * b)
    BY <1>1, <2>1, <2>4, LevelFilled
  <2>6. a = b
    <3> HIDE DEF a, b
    <3> QED
      BY <2>2, <2>3, <2>4, SameSize
  <2>7. JoinTells(Level(f, j), Level(g, k), a)
    BY <2>1, <2>6, LevelsTell
  <2> HIDE DEF a, b
  <2>8. Level(f, j) = Level(g, k)
    BY <2>2, <2>3, <2>4, <2>5, <2>6, <2>7, LevelDown
  <2> QED
    BY <2>1, <2>8 DEF j, k
<1> HIDE DEF S
<1>5. 0..m \subseteq S
  BY <1>1, <1>3, <1>4, UpToInduction
<1>6. Level(f, m - m) = Level(g, n - m)
  <2>1. m \in S
    BY <1>1, <1>5
  <2> QED
    BY <2>1 DEF S
<1>7. Level(f, 0) = f /\ m - m = 0
  BY <1>1, LevelDef
<1> QED
  BY <1>6, <1>7

\* The data of the lower tree are those of the other one, or have the bytes of its
\* pairs of hashes.
LEMMA SameData ==
  ASSUME NEW l, NEW r, NEW m, NEW n, Tree(l, m), Tree(r, n), Apart(l, r), m <= n,
         Level(LeavesOf(l), m)[1] = Level(LeavesOf(r), n)[1]
  PROVE  l = r \/ LikePairs(l, r)
<1> DEFINE f == LeavesOf(l)
           g == LeavesOf(r)
<1>1. /\ m \in Nat /\ n \in Nat /\ Len(f) = Len(l) /\ Len(g) = Len(r)
      /\ Len(l) \in Nat /\ Len(r) \in Nat /\ Len(l) > 0 /\ Len(r) > 0
      /\ f \in Seq(Hashes(Seq(Byte)))
  BY TreeLeaves DEF Tree
<1>2. \A i \in 1..Len(l) : f[i] = Sum256(l[i]) /\ l[i] \in Strings(l)
  BY TreeLeaves
<1>3. \A i \in 1..Len(r) : g[i] = Sum256(r[i]) /\ r[i] \in Strings(r)
  BY TreeLeaves
<1>4. f = Level(g, n - m)
  BY SameLevels
<1>5. CASE n = m
  <2>1. n - m = 0
    BY <1>1, <1>5
  <2>2. f = g
    BY <1>4, <2>1, LevelDef
  <2> HIDE DEF f, g
  <2>3. Len(l) = Len(r)
    BY <1>1, <2>2
  <2>4. \A i \in 1..Len(l) : l[i] = r[i]
    BY <1>2, <1>3, <2>2, <2>3 DEF Apart
  <2>5. l \in Seq(Seq(Byte)) /\ r \in Seq(Seq(Byte))
    BY DEF Tree
  <2> QED
    BY <2>3, <2>4, <2>5, SeqEqual
<1>6. CASE n # m
  <2> DEFINE k == (n - m) - 1
             size == Divided(Len(g), 2, k + 1)
             below == Level(g, k)
  <2>1. k \in Nat /\ n - m = k + 1 /\ k \in 0..(n - 1)
    BY <1>1, <1>6
  <2> HIDE DEF k
  <2>2. f = Joined(below, size)
    BY <1>4, <2>1, LevelDef
  <2>3. size \in Nat /\ Divided(Len(g), 2, k) = 2 * size /\ 2 * size <= Len(r)
    BY <1>1, <2>1, LevelHalves, DividedAtMost
  <2>4. \A p \in 1..(2 * size) : below[p] \in Id
    <3>1. k \in 0..n
      BY <1>1, <2>1
    <3>2. \A p \in 1..Divided(Len(g), 2, k) : below[p] \in Id
      BY <3>1, LevelIds
    <3> QED
      BY <2>3, <3>2
  <2>5. \A i \in 1..size : below[2 * i - 1] \o below[2 * i] \in Strings(r)
    BY <2>1, PairsAreHashed
  <2> HIDE DEF below, size
  <2>6. Len(l) = size
    <3>1. DOMAIN f = 1..size
      BY <2>2 DEF Joined
    <3>2. DOMAIN f = 1..Len(l)
      BY <1>1
    <3> HIDE DEF f
    <3>3. \A i \in Int : i \in 1..size <=> i \in 1..Len(l)
      BY <3>1, <3>2
    <3> QED
      BY <1>1, <2>3, <3>3
  <2>7. ASSUME NEW i \in 1..Len(l) PROVE Len(l[i]) = 2 * IdLen
    <3> DEFINE a == below[2 * i - 1]
               b == below[2 * i]
    <3>1. f[i] = Sum256(a \o b)
      BY <2>2, <2>6 DEF Joined, Join
    <3>2. a \o b \in Strings(r)
      BY <2>5, <2>6
    <3>3. l[i] = a \o b
      BY <1>2, <3>1, <3>2 DEF Apart
    <3>4. a \in Id /\ b \in Id
      BY <2>3, <2>4, <2>6
    <3> HIDE DEF a, b
    <3>5. Len(a \o b) = IdLen + IdLen
      BY <3>4 DEF Id
    <3>6. IdLen \in Nat
      BY CodecAssumption
    <3> QED
      BY <3>3, <3>5, <3>6
  <2>8. Len(l) < Len(r)
    BY <1>1, <2>3, <2>6
  <2>9. DOMAIN l = 1..Len(l)
    BY DEF Tree
  <2> QED
    BY <2>7, <2>8, <2>9 DEF LikePairs
<1> QED
  BY <1>5, <1>6

\* Data a root exists for make a tree, and no root is a failure.
LEMMA RootIsId ==
  ASSUME NEW l \in Seq(Seq(Byte)), Len(l) > 0, Len(l) % 2 = 0, \A s \in Strings(l) : Sum256(s) \in Id
  PROVE  \/ JoinLevels(LeavesOf(l)) = OutOfRange /\ Divided(Len(l), 2, Top(Len(l))) # 1
         \/ /\ Tree(l, Top(Len(l)))
            /\ JoinLevels(LeavesOf(l)) = Level(LeavesOf(l), Top(Len(l)))[1]
            /\ JoinLevels(LeavesOf(l)) # OutOfRange
            /\ Divided(Len(l), 2, Top(Len(l))) = 1
<1> DEFINE f == LeavesOf(l)
           top == Top(Len(l))
<1>1. f \in Seq(Hashes(Seq(Byte))) /\ Len(f) = Len(l)
  BY LeavesOfFacts
<1>2. CASE JoinLevels(f) = OutOfRange /\ Divided(Len(f), 2, Top(Len(f))) # 1
  BY <1>1, <1>2
<1>3. CASE Rooted(f, Top(Len(f))) /\ JoinLevels(f) = Level(f, Top(Len(f)))[1]
  <2>1. Tree(l, top) /\ top \in Nat /\ Divided(Len(f), 2, top) = 1
    BY <1>1, <1>3 DEF Tree, Rooted
  <2> HIDE DEF top
  <2>2. top \in 0..top /\ 1 \in 1..Divided(Len(f), 2, top)
    BY <2>1
  <2>3. Level(f, top)[1] \in Id
    BY <2>1, <2>2, LevelIds
  <2>4. Level(f, top)[1] # <<>>
    <3>1. IdLen # 0
      BY CodecAssumption
    <3> HIDE DEF f
    <3> QED
      BY <2>3, <3>1 DEF Id
  <2> QED
    BY <1>1, <1>3, <2>1, <2>4 DEF top, OutOfRange
<1> HIDE DEF f, top
<1> QED
  BY <1>1, <1>2, <1>3, JoinLevelsRooted DEF f, top

LEMMA RootTells ==
  ASSUME NEW l \in Seq(Seq(Byte)), NEW r \in Seq(Seq(Byte)),
         Len(l) > 0, Len(l) % 2 = 0, Len(r) > 0, Len(r) % 2 = 0,
         \A s \in Strings(l) : Sum256(s) \in Id, \A s \in Strings(r) : Sum256(s) \in Id,
         JoinLevels(LeavesOf(l)) = JoinLevels(LeavesOf(r)), JoinLevels(LeavesOf(l)) # OutOfRange,
         Apart(l, r)
  PROVE  l = r \/ LikePairs(l, r) \/ LikePairs(r, l)
<1> DEFINE m == Top(Len(l))
           n == Top(Len(r))
<1>1. /\ Tree(l, m) /\ JoinLevels(LeavesOf(l)) = Level(LeavesOf(l), m)[1]
      /\ Tree(r, n) /\ JoinLevels(LeavesOf(r)) = Level(LeavesOf(r), n)[1]
  BY RootIsId
<1> HIDE DEF m, n
<1>2. m \in Nat /\ n \in Nat /\ Level(LeavesOf(l), m)[1] = Level(LeavesOf(r), n)[1]
  BY <1>1, TreeLeaves
<1>3. Apart(r, l)
  BY DEF Apart
<1>4. CASE m <= n
  BY <1>1, <1>2, <1>4, SameData
<1>5. CASE n <= m
  <2>1. r = l \/ LikePairs(r, l)
    BY <1>1, <1>2, <1>3, <1>5, SameData
  <2> QED
    BY <2>1
<1> QED
  BY <1>2, <1>4, <1>5

LEMMA PaddedFacts ==
  ASSUME NEW D, NEW l \in Seq(D), l # <<>>
  PROVE  /\ Padded(l) \in Seq(D) /\ Len(Padded(l)) % 2 = 0
         /\ Len(Padded(l)) = Len(l) + (Len(l) % 2) /\ Len(l) > 0
<1> DEFINE n == Len(l)
<1>1. n \in Nat /\ n > 0 /\ Last(l) \in D
  BY DEF Last
<1>2. CASE n % 2 = 0
  <2>1. Padded(l) = l
    BY <1>2 DEF Padded
  <2> QED
    BY <1>1, <1>2, <2>1
<1>3. CASE n % 2 # 0
  <2> DEFINE p == Append(l, Last(l))
  <2>1. Padded(l) = p
    BY <1>3 DEF Padded
  <2>2. p \in Seq(D) /\ Len(p) = n + 1
    BY <1>1, AppendProperties
  <2>3. n % 2 = 1
    BY <1>1, <1>3
  <2> HIDE DEF p, n
  <2>4. (n + 1) % 2 = 0
    BY <1>1, <2>3
  <2> QED
    BY <1>1, <2>1, <2>2, <2>3, <2>4 DEF n
<1> QED
  BY <1>2, <1>3

LEMMA SerializedFacts ==
  ASSUME NEW txs \in Seq(Transaction), txs # <<>>
  PROVE  Serialized(txs) \in Seq(Seq(Byte)) /\ Len(Serialized(txs)) = Len(txs) /\ Serialized(txs) # <<>>
<1> DEFINE n == Len(txs)
           f == Serialized(txs)
<1>1. n \in Nat /\ n > 0 /\ DOMAIN txs = 1..n /\ \A i \in 1..n : txs[i] \in Transaction
  OBVIOUS
<1>2. f = [i \in 1..n |-> Serialize(txs[i])]
  BY <1>1 DEF Serialized
<1> HIDE DEF n, f
<1>3. f \in [1..n -> Seq(Byte)]
  BY <1>1, <1>2, TransactionBytes
<1>4. f \in Seq(Seq(Byte)) /\ Len(f) = n
  BY <1>1, <1>3
<1>5. f # <<>>
  BY <1>1, <1>4
<1> QED
  BY <1>4, <1>5 DEF f, n

\* What the root of a block is made from.
LEMMA BlockFacts ==
  ASSUME NEW txs \in Seq(Transaction), txs # <<>>
  PROVE  /\ HashTransactions(txs) = JoinLevels(LeavesOf(Padded(Serialized(txs))))
         /\ Padded(Serialized(txs)) \in Seq(Seq(Byte))
         /\ Len(Padded(Serialized(txs))) > 0 /\ Len(Padded(Serialized(txs))) % 2 = 0
         /\ Len(Padded(Serialized(txs))) = Len(Padded(txs))
         /\ Len(Padded(txs)) \in Nat /\ Len(Padded(txs)) <= Len(txs) + 1 /\ Len(txs) \in Nat
<1> DEFINE s == Serialized(txs)
           n == Len(txs)
<1>1. HashTransactions(txs) = JoinLevels(LeavesOf(Padded(s)))
  BY Zenon DEF HashTransactions, NewMerkleTree
<1>2. s \in Seq(Seq(Byte)) /\ Len(s) = n /\ s # <<>> /\ n \in Nat
  BY SerializedFacts
<1> HIDE DEF s
<1>3. /\ Padded(s) \in Seq(Seq(Byte)) /\ Len(Padded(s)) % 2 = 0
      /\ Len(Padded(s)) = n + (n % 2) /\ n > 0
  BY <1>2, PaddedFacts
<1>4. Len(Padded(txs)) = n + (n % 2)
  BY PaddedFacts
<1> HIDE DEF n
<1>5. n % 2 \in Nat /\ n % 2 <= 1
  BY <1>2
<1> QED
  BY <1>1, <1>2, <1>3, <1>4, <1>5 DEF s, n

\* Every hash for the root of a block is as long as an id.
HashesAreIds(txs) == \A s \in Strings(Padded(Serialized(txs))) : Sum256(s) \in Id

\* A tree can be built exactly if there are as many leaves as a power of two.
LEMMA RootExists ==
  ASSUME NEW txs \in Seq(Transaction), txs # <<>>, HashesAreIds(txs)
  PROVE  HashTransactions(txs) # OutOfRange <=> \E k \in 1..Len(txs) : Len(Padded(txs)) = TwoTo(k)
<1> DEFINE l == Padded(Serialized(txs))
           size == Len(l)
           n == Len(txs)
           top == Top(size)
           root == HashTransactions(txs)
<1>1. l \in Seq(Seq(Byte)) /\ size = Len(Padded(txs)) /\ root = JoinLevels(LeavesOf(l))
  BY BlockFacts
<1>2. size \in Nat /\ size > 0 /\ size % 2 = 0 /\ size <= n + 1 /\ n \in Nat
  BY <1>1, BlockFacts
<1>3. \A s \in Strings(l) : Sum256(s) \in Id
  BY DEF HashesAreIds
<1> HIDE DEF l, n, root
<1>4. root # OutOfRange <=> Divided(size, 2, top) = 1
  BY <1>1, <1>2, <1>3, RootIsId
<1> HIDE DEF size
<1>5. top \in Nat /\ OddAt(size, top)
  BY <1>2, TopDef
<1>6. ASSUME Divided(size, 2, top) = 1 PROVE top \in 1..n /\ size = TwoTo(top)
  <2> HIDE DEF top
  <2>1. size = TwoTo(top)
    BY <1>2, <1>5, <1>6, OnlyTwoTo
  <2>2. top < size
    BY <1>5, <2>1, TwoToExceeds
  <2>3. top # 0
    BY <1>2, <2>1, TwoToNext
  <2> QED
    BY <1>2, <1>5, <2>1, <2>2, <2>3
<1>7. ASSUME NEW k \in 1..n, size = TwoTo(k) PROVE Divided(size, 2, top) = 1
  <2>1. k \in Nat
    BY <1>2
  <2>2. Divided(size, 2, k) = 1 /\ OddAt(size, k)
    BY <1>7, <2>1, TwoToOdd
  <2> HIDE DEF top
  <2>3. k = top
    BY <1>5, <2>1, <2>2, OddOnce
  <2> QED
    BY <2>2, <2>3
<1> HIDE DEF top
<1>8. root # OutOfRange <=> \E k \in 1..n : size = TwoTo(k)
  BY <1>4, <1>6, <1>7
<1> QED
  BY <1>1, <1>8 DEF n, root

\* Two blocks with one root have the same transactions, up to a copy of the last,
\* unless hashes collide or the transactions of the shorter one are like pairs of
\* hashes; and a block has a root exactly if its padded transactions are a power of
\* two.
THEOREM RootsCommit == Spec => []RootCommits
<1>1. CodecInv => RootCommits
  <2> SUFFICES ASSUME CodecInv, item.kind = "block" PROVE RootCommits
    BY DEF RootCommits
  <2> DEFINE txs == item.val
  <2>1. txs \in Seq(Transaction) /\ txs # <<>> /\ item \in Items
    BY CodecAssumption DEF CodecInv, Item
  <2>2. stage # "given" => data = HashTransactions(txs)
    BY DEF CodecInv, Written
  <2>3. \A i \in Items : i.kind = "block" => HashesAreIds(i.val)
    BY HashAssumption, Zenon DEF HashesAreIds, Strings, Hashed
  <2>4. HashesAreIds(txs)
    BY <2>1, <2>3
  <2>5. ASSUME stage = "written", data # OutOfRange, NEW other \in Blocks,
               HashTransactions(other.val) = data,
               ~Collide(Hashed(Serialized(other.val)), Hashed(Serialized(txs)))
        PROVE  LET theirs == Padded(Serialized(other.val))
                   ours == Padded(Serialized(txs))
               IN  theirs = ours \/ LikePairs(theirs, ours) \/ LikePairs(ours, theirs)
    <3> DEFINE others == other.val
               l == Padded(Serialized(others))
               r == Padded(Serialized(txs))
    <3>1. others \in Seq(Transaction) /\ others # <<>> /\ HashesAreIds(others)
      BY <2>3, CodecAssumption DEF Blocks, Item
    <3>2. HashTransactions(others) = HashTransactions(txs) /\ HashTransactions(others) # OutOfRange
      BY <2>2, <2>5
    <3>3. Apart(l, r)
      BY <2>5 DEF Collide, Apart, Strings, Hashed
    <3> HIDE DEF others, txs
    <3>4. /\ HashTransactions(others) = JoinLevels(LeavesOf(l))
          /\ l \in Seq(Seq(Byte)) /\ Len(l) > 0 /\ Len(l) % 2 = 0
      BY <3>1, BlockFacts
    <3>5. /\ HashTransactions(txs) = JoinLevels(LeavesOf(r))
          /\ r \in Seq(Seq(Byte)) /\ Len(r) > 0 /\ Len(r) % 2 = 0
      BY <2>1, BlockFacts
    <3>6. (\A s \in Strings(l) : Sum256(s) \in Id) /\ \A s \in Strings(r) : Sum256(s) \in Id
      BY <2>4, <3>1 DEF HashesAreIds
    <3> HIDE DEF l, r
    <3>7. l = r \/ LikePairs(l, r) \/ LikePairs(r, l)
      BY <3>2, <3>3, <3>4, <3>5, <3>6, RootTells
    <3> QED
      BY <3>7 DEF l, r, others, txs
  <2>6. ASSUME stage = "read"
        PROVE  back.ok <=> \E k \in 1..Len(txs) : Len(Padded(txs)) = TwoTo(k)
    <3>1. back = IF data = OutOfRange THEN Error ELSE Read(txs, rest)
      BY <2>6 DEF CodecInv, Found
    <3> HIDE DEF txs
    <3>2. back.ok <=> data # OutOfRange
      BY <3>1, ReadIs, ErrorIs
    <3> QED
      BY <2>1, <2>2, <2>4, <2>6, <3>2, RootExists
  <2> HIDE DEF txs
  <2>7. stage = "written" /\ data # OutOfRange =>
          \A other \in Blocks :
            HashTransactions(other.val) = data =>
              \/ Padded(Serialized(other.val)) = Padded(Serialized(txs))
              \/ Collide(Hashed(Serialized(other.val)), Hashed(Serialized(txs)))
              \/ LikePairs(Padded(Serialized(other.val)), Padded(Serialized(txs)))
              \/ LikePairs(Padded(Serialized(txs)), Padded(Serialized(other.val)))
    BY <2>5
  <2> QED
    BY <2>6, <2>7, Zenon DEF RootCommits, txs
<1> QED
  BY <1>1, CodecInvariant, PTL

=============================================================================
