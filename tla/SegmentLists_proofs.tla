------------------------ MODULE SegmentLists_proofs ------------------------
(***************************************************************************)
(* Lemmas about the lists the coordinator and the cluster master are built *)
(* from: numbered file names and their order, the numbers of a set in      *)
(* order, the elements a filter keeps, and the sums over groups.           *)
(***************************************************************************)
EXTENDS SegmentPlan, FileNames, TLAPS, FiniteSetTheorems, SequenceTheorems,
        WellFoundedInduction

-----------------------------------------------------------------------------
(* Induction and recursion over the numbers, for sets and functions *)

(* A set of numbers has a least one.                                        *)
LEMMA LeastOf ==
  ASSUME NEW T \in SUBSET Nat, T # {}
  PROVE  \E x \in T : \A y \in T : x <= y
<1>1. PICK x \in T : \A y \in T : ~ (<<y, x>> \in OpToRel(<, Nat))
  BY WFMin, NatLessThanWellFounded
<1>2. ASSUME NEW y \in T
      PROVE  x <= y
  <2>1. PICK pair : pair = <<y, x>>
    OBVIOUS
  <2>2. pair \in Nat \X Nat /\ pair[1] = y /\ pair[2] = x
    BY <2>1
  <2>3. y < x => pair \in OpToRel(<, Nat)
    BY <2>2 DEF OpToRel
  <2>4. ~(pair \in OpToRel(<, Nat))
    BY <1>1, <2>1
  <2>5. ~(y < x) /\ x \in Nat /\ y \in Nat
    BY <2>3, <2>4
  <2>. QED
    BY <2>5
<1>. QED
  BY <1>2

(* A set of numbers with 0 and every next number has them all.              *)
LEMMA Inductive ==
  ASSUME NEW T \in SUBSET Nat, 0 \in T, \A n \in T : n + 1 \in T
  PROVE  T = Nat
<1>1. SUFFICES ASSUME Nat \ T # {}
               PROVE  FALSE
  OBVIOUS
<1>2. PICK x \in Nat \ T : \A y \in Nat \ T : x <= y
  BY <1>1, LeastOf
<1>3. x - 1 \in Nat /\ ~(x <= x - 1) /\ (x - 1) + 1 = x
  BY <1>2
<1>4. x - 1 \in T
  BY <1>2, <1>3
<1>. QED
  BY <1>2, <1>3, <1>4

(* A first value and a step from each value to the next make a function.    *)
Steps(f, V, a, F) ==
  f \in [Nat -> V] /\ f[0] = a /\ \A n \in Nat : f[n + 1] = F[<<n, f[n]>>]

(* There is a function with a given first value and steps.                  *)
LEMMA Recursion ==
  ASSUME NEW V, NEW a \in V, NEW F \in [Nat \X V -> V]
  PROVE  \E f : Steps(f, V, a, F)
<1>. DEFINE Upto(n) == { g \in [0..n -> V] :
                           g[0] = a /\ \A i \in 0..n : i < n => g[i + 1] = F[<<i, g[i]>>] }
<1>1. Upto(0) # {}
  <2>1. [i \in 0..0 |-> a] \in Upto(0)
    OBVIOUS
  <2>. QED
    BY <2>1
<1>2. ASSUME NEW n \in Nat, NEW g \in Upto(n)
      PROVE  \E h \in Upto(n + 1) : \A i \in 0..n : h[i] = g[i]
  <2>1. PICK h : h = [i \in 0..n + 1 |-> IF i = n + 1 THEN F[<<n, g[n]>>] ELSE g[i]]
    OBVIOUS
  <2>2. /\ \A i \in 0..n : h[i] = g[i] /\ g[i] \in V
        /\ h[n + 1] = F[<<n, g[n]>>] /\ F[<<n, g[n]>>] \in V
    BY <1>2, <2>1
  <2>3. h \in [0..n + 1 -> V]
    BY <1>2, <2>1, <2>2
  <2>4. h[0] = a
    BY <1>2, <2>2
  <2>5. ASSUME NEW i \in 0..n + 1, i < n + 1
        PROVE  h[i + 1] = F[<<i, h[i]>>]
    <3>1. CASE i = n
      BY <2>2, <3>1
    <3>2. CASE i # n
      <4>1. i \in 0..n /\ i + 1 \in 0..n /\ i < n
        BY <2>5, <3>2
      <4>. QED
        BY <1>2, <2>2, <4>1
    <3>. QED
      BY <3>1, <3>2
  <2>. QED
    BY <2>2, <2>3, <2>4, <2>5
<1>3. \A n \in Nat : Upto(n) # {}
  <2>. DEFINE T == { n \in Nat : Upto(n) # {} }
  <2>1. 0 \in T
    BY <1>1
  <2>2. ASSUME NEW n \in T
        PROVE  n + 1 \in T
    <3>1. n \in Nat /\ n + 1 \in Nat /\ Upto(n) # {}
      OBVIOUS
    <3>2. Upto(n + 1) # {}
      BY <1>2, <3>1
    <3>. QED
      BY <3>1, <3>2
  <2>3. T = Nat
    <3>. HIDE DEF T
    <3>1. T \in SUBSET Nat
      BY DEF T
    <3>. QED
      BY <2>1, <2>2, <3>1, Inductive
  <2>. QED
    BY <2>3
(* Any two of them agree where both are defined.                            *)
<1>4. ASSUME NEW n \in Nat, NEW m \in Nat, NEW g \in Upto(n), NEW h \in Upto(m)
      PROVE  \A i \in Nat : i <= n /\ i <= m => g[i] = h[i]
  <2>. DEFINE T == { i \in Nat : i <= n /\ i <= m => g[i] = h[i] }
  <2>1. 0 \in T
    BY <1>4
  <2>2. ASSUME NEW i \in T
        PROVE  i + 1 \in T
    <3>1. SUFFICES ASSUME i + 1 <= n, i + 1 <= m
                   PROVE  g[i + 1] = h[i + 1]
      BY DEF T
    <3>2. i \in 0..n /\ i \in 0..m /\ i < n /\ i < m /\ g[i] = h[i]
      BY <2>2, <3>1
    <3>. QED
      BY <1>4, <3>2
  <2>3. T = Nat
    <3>. HIDE DEF T
    <3>1. T \in SUBSET Nat
      BY DEF T
    <3>. QED
      BY <2>1, <2>2, <3>1, Inductive
  <2>. QED
    BY <2>3
<1>5. PICK G : G = [n \in Nat |-> CHOOSE g \in Upto(n) : TRUE]
  OBVIOUS
<1>6. \A n \in Nat : G[n] \in Upto(n)
  BY <1>3, <1>5
<1>7. PICK f : f = [n \in Nat |-> G[n][n]]
  OBVIOUS
<1>8. f \in [Nat -> V] /\ f[0] = a
  BY <1>6, <1>7
<1>9. ASSUME NEW n \in Nat
      PROVE  f[n + 1] = F[<<n, f[n]>>]
  <2>1. n + 1 \in Nat /\ n \in 0..n + 1 /\ n < n + 1 /\ n <= n /\ n <= n + 1
    OBVIOUS
  <2>2. G[n + 1] \in Upto(n + 1) /\ G[n] \in Upto(n)
    BY <1>6, <2>1
  <2>3. G[n + 1][n + 1] = F[<<n, G[n + 1][n]>>]
    BY <2>1, <2>2
  <2>4. G[n + 1][n] = G[n][n]
    <3>. HIDE DEF Upto
    <3>. QED
      BY <1>4, <2>1, <2>2
  <2>. QED
    BY <1>7, <2>1, <2>3, <2>4
<1>. QED
  BY <1>8, <1>9 DEF Steps

-----------------------------------------------------------------------------
(* Powers, digits and the order of names *)

(* The powers of the base satisfy their recursion and are positive.         *)
LEMMA PowerFacts ==
  /\ Power \in [Nat -> Nat \ {0}]
  /\ Power[0] = 1
  /\ \A d \in Nat : Power[d + 1] = Base * Power[d]
<1>0. PICK V : V = Nat \ {0}
  OBVIOUS
<1>1. PICK F : F = [x \in Nat \X V |-> Base * x[2]]
  OBVIOUS
<1>2. \A v \in V : Base * v \in V
  BY <1>0, NamesAssumption
<1>3. F \in [Nat \X V -> V]
  BY <1>1, <1>2
<1>4. PICK f \in [Nat -> V] : f[0] = 1 /\ \A n \in Nat : f[n + 1] = F[<<n, f[n]>>]
  <2>1. PICK one \in V : one = 1
    BY <1>0
  <2>2. \E f : Steps(f, V, one, F)
    BY <1>3, <2>1, Recursion
  <2>. QED
    BY <2>1, <2>2 DEF Steps
<1>5. \A n \in Nat : f[n + 1] = Base * f[n]
  BY <1>0, <1>1, <1>4
<1>6. ASSUME NEW d \in Nat, d # 0
      PROVE  f[d] = Base * f[d - 1]
  <2>1. d - 1 \in Nat /\ (d - 1) + 1 = d
    BY <1>6
  <2>. QED
    BY <1>5, <2>1
<1>7. f = [d \in Nat |-> IF d = 0 THEN 1 ELSE Base * f[d - 1]]
  BY <1>4, <1>6
<1>8. Power = [d \in Nat |-> IF d = 0 THEN 1 ELSE Base * Power[d - 1]]
  BY <1>7 DEF Power
<1>. DEFINE T == { d \in Nat : Power[d] = f[d] }
<1>9. 0 \in T
  BY <1>4, <1>8
<1>10. ASSUME NEW d \in T
       PROVE  d + 1 \in T
  <2>1. d + 1 \in Nat /\ d + 1 # 0 /\ (d + 1) - 1 = d
    OBVIOUS
  <2>2. Power[d + 1] = Base * Power[d]
    BY <1>8, <2>1
  <2>. QED
    BY <1>5, <1>10, <2>1, <2>2
<1>11. T = Nat
  <2>1. T \in SUBSET Nat
    OBVIOUS
  <2>. HIDE DEF T
  <2>. QED
    BY <1>9, <1>10, <2>1, Inductive
<1>12. \A d \in Nat : Power[d] = f[d]
  BY <1>11
<1>13. Power \in [Nat -> V]
  BY <1>4, <1>8, <1>12
<1>14. \A d \in Nat : d + 1 \in Nat
  OBVIOUS
<1>. QED
  BY <1>0, <1>4, <1>5, <1>12, <1>13, <1>14

(* A power is a positive number.                                            *)
LEMMA PowerType ==
  ASSUME NEW d \in Nat
  PROVE  Power[d] \in Nat /\ Power[d] >= 1
BY PowerFacts

(* A positive factor keeps the order of two numbers.                        *)
LEMMA TimesMonotone ==
  ASSUME NEW i \in Nat, NEW j \in Nat, NEW k \in Nat, k >= 1
  PROVE  /\ i * k \in Nat
         /\ i * k >= i
         /\ i < j <=> i * k < j * k
         /\ i = j <=> i * k = j * k
<1>1. i * k \in Nat /\ j * k \in Nat
  OBVIOUS
<1>2. (j - i) * k = j * k - i * k /\ i * (k - 1) = i * k - i
  OBVIOUS
<1>3. i * (k - 1) >= 0
  OBVIOUS
<1>4. i < j => (j - i) * k >= 1
  OBVIOUS
<1>5. j < i => (i - j) * k >= 1 /\ (i - j) * k = i * k - j * k
  OBVIOUS
<1>. QED
  BY <1>1, <1>2, <1>3, <1>4, <1>5

(* There are more than d numbers of d digits, and the more the more digits. *)
LEMMA PowerGrows ==
  ASSUME NEW d \in Nat
  PROVE  /\ Power[d] > d
         /\ Power[d] < Power[d + 1]
<1>1. ASSUME NEW e \in Nat
      PROVE  Power[e + 1] >= 2 * Power[e]
  <2>1. Power[e + 1] = Base * Power[e] /\ Power[e] \in Nat /\ Power[e] >= 1
    BY PowerFacts, PowerType
  <2>2. Base >= 2 /\ Base \in Nat
    BY NamesAssumption
  <2>3. (Base - 2) * Power[e] >= 0 /\ (Base - 2) * Power[e] = Base * Power[e] - 2 * Power[e]
    BY <2>1, <2>2
  <2>. QED
    BY <2>1, <2>2, <2>3
<1>. DEFINE T == { e \in Nat : Power[e] > e }
<1>2. 0 \in T
  BY PowerFacts
<1>3. ASSUME NEW e \in T
      PROVE  e + 1 \in T
  <2>1. e \in Nat /\ Power[e] > e /\ Power[e] \in Nat /\ Power[e + 1] \in Nat
    BY PowerType
  <2>. QED
    BY <1>1, <2>1
<1>4. T = Nat
  <2>1. T \in SUBSET Nat
    OBVIOUS
  <2>. HIDE DEF T
  <2>. QED
    BY <1>2, <1>3, <2>1, Inductive
<1>5. Power[d] > d
  BY <1>4
<1>6. Power[d] \in Nat /\ Power[d] >= 1 /\ Power[d + 1] \in Nat
  BY PowerType
<1>. QED
  BY <1>1, <1>5, <1>6

(* A number with more digits is no smaller.                                 *)
LEMMA PowerMonotone ==
  ASSUME NEW d \in Nat, NEW e \in Nat
  PROVE  Power[d] <= Power[d + e]
<1>. DEFINE T == { i \in Nat : Power[d] <= Power[d + i] }
<1>1. 0 \in T
  BY PowerType
<1>2. ASSUME NEW i \in T
      PROVE  i + 1 \in T
  <2>1. /\ i \in Nat /\ d + i \in Nat /\ (d + i) + 1 = d + (i + 1) /\ (d + i) + 1 \in Nat
        /\ Power[d] <= Power[d + i]
    OBVIOUS
  <2>2. Power[d + i] < Power[d + (i + 1)]
    BY <2>1, PowerGrows
  <2>3. Power[d] \in Nat /\ Power[d + i] \in Nat /\ Power[d + (i + 1)] \in Nat
    BY <2>1, PowerType
  <2>. QED
    BY <2>1, <2>2, <2>3
<1>3. T = Nat
  <2>1. T \in SUBSET Nat
    OBVIOUS
  <2>. HIDE DEF T
  <2>. QED
    BY <1>1, <1>2, <2>1, Inductive
<1>. QED
  BY <1>3

(* The power of a sum is the product of the powers.                         *)
LEMMA PowerSum ==
  ASSUME NEW d \in Nat, NEW e \in Nat
  PROVE  Power[d + e] = Power[d] * Power[e]
<1>. DEFINE T == { i \in Nat : Power[d + i] = Power[d] * Power[i] }
<1>1. 0 \in T
  <2>1. Power[d] \in Nat /\ Power[0] = 1 /\ d + 0 = d
    BY PowerFacts, PowerType
  <2>. QED
    BY <2>1
<1>2. ASSUME NEW i \in T
      PROVE  i + 1 \in T
  <2>1. /\ i \in Nat /\ d + i \in Nat /\ (d + i) + 1 = d + (i + 1)
        /\ Power[d + i] = Power[d] * Power[i]
    OBVIOUS
  <2>2. Power[d + (i + 1)] = Base * Power[d + i] /\ Power[i + 1] = Base * Power[i]
    BY <2>1, PowerFacts
  <2>3. Power[d] \in Nat /\ Power[i] \in Nat /\ Base \in Nat
    BY <2>1, PowerType, NamesAssumption
  <2>4. Base * (Power[d] * Power[i]) = Power[d] * (Base * Power[i])
    BY <2>3
  <2>. QED
    BY <2>1, <2>2, <2>4
<1>3. T = Nat
  <2>1. T \in SUBSET Nat
    OBVIOUS
  <2>. HIDE DEF T
  <2>. QED
    BY <1>1, <1>2, <2>1, Inductive
<1>. QED
  BY <1>3

(* The least element of a set of numbers is in it and below the others.     *)
LEMMA MinFacts ==
  ASSUME NEW S \in SUBSET Nat, S # {}
  PROVE  Min(S) \in S /\ \A y \in S : Min(S) <= y
<1>1. \E x \in S : \A y \in S : x <= y
  BY LeastOf
<1>. QED
  BY <1>1 DEF Min

(* The greater of two numbers is at least either.                           *)
LEMMA MaxOfTwo ==
  ASSUME NEW i \in Nat, NEW j \in Nat
  PROVE  Max({i, j}) \in Nat /\ Max({i, j}) >= i /\ Max({i, j}) >= j
<1>1. \E x \in {i, j} : \A y \in {i, j} : x >= y
  OBVIOUS
<1>2. Max({i, j}) \in {i, j} /\ \A y \in {i, j} : Max({i, j}) >= y
  BY <1>1 DEF Max
<1>. QED
  BY <1>2

(* A number is padded to the width, and has more digits only from the first *)
(* number on that needs them.                                               *)
LEMMA DigitsFacts ==
  ASSUME NEW n \in Nat
  PROVE  /\ Digits(n) \in Nat /\ Digits(n) >= Width
         /\ n < Power[Width] => Digits(n) = Width
         /\ n = Power[Width] => Digits(n) = Width + 1
<1>. DEFINE S == { d \in Width..(Width + n) : n < Power[d] }
<1>1. Width \in Nat /\ Width >= 1
  BY NamesAssumption
<1>2. S \in SUBSET Nat
  BY <1>1
<1>3. Width + n \in S
  <2>1. Width + n \in Nat /\ Power[Width + n] > Width + n /\ Power[Width + n] \in Nat
    BY <1>1, PowerGrows, PowerType
  <2>. QED
    BY <1>1, <2>1
<1>4. Min(S) \in S /\ \A y \in S : Min(S) <= y
  <2>. HIDE DEF S
  <2>. QED
    BY <1>2, <1>3, MinFacts
<1>5. Digits(n) = Min(S)
  BY DEF Digits
<1>6. Digits(n) \in Width..(Width + n) /\ n < Power[Digits(n)]
  BY <1>4, <1>5
<1>7. n < Power[Width] => Digits(n) = Width
  <2>1. n < Power[Width] => Width \in S
    BY <1>1
  <2>. QED
    BY <1>1, <1>4, <1>5, <1>6, <2>1
<1>8. n = Power[Width] => Digits(n) = Width + 1
  <2>. SUFFICES ASSUME n = Power[Width]
                PROVE  Digits(n) = Width + 1
    OBVIOUS
  <2>1. Width + 1 \in S
    <3>1. Power[Width] < Power[Width + 1] /\ Power[Width] >= 1
      BY <1>1, PowerGrows, PowerType
    <3>2. Width + 1 \in Width..(Width + n)
      BY <1>1, <3>1
    <3>. QED
      BY <3>1, <3>2
  <2>2. ~(n < Power[Width])
    BY <1>1, PowerType
  <2>3. Digits(n) # Width
    BY <1>6, <2>2
  <2>. QED
    BY <1>1, <1>4, <1>5, <1>6, <2>1, <2>3
<1>. QED
  BY <1>1, <1>6, <1>7, <1>8

(* The number as a name of d digits has it at the left.                     *)
Pad(n, d) == n * Power[d - Digits(n)]

(* A number shifted by more digits is multiplied by their power.            *)
LEMMA PadFacts ==
  ASSUME NEW n \in Nat, NEW d \in Nat, d >= Digits(n), NEW e \in Nat
  PROVE  /\ Pad(n, d) \in Nat
         /\ Pad(n, d + e) = Pad(n, d) * Power[e]
<1>1. /\ d - Digits(n) \in Nat /\ (d + e) - Digits(n) = (d - Digits(n)) + e
  BY DigitsFacts
<1>2. /\ Power[d - Digits(n)] \in Nat /\ Power[e] \in Nat
      /\ Power[(d + e) - Digits(n)] = Power[d - Digits(n)] * Power[e]
  BY <1>1, PowerType, PowerSum
<1>3. n * (Power[d - Digits(n)] * Power[e]) = (n * Power[d - Digits(n)]) * Power[e]
  BY <1>2
<1>. QED
  BY <1>2, <1>3 DEF Pad

(* Names compare as numbers of any length that has room for both.           *)
LEMMA NameOrder ==
  ASSUME NEW m \in Nat, NEW n \in Nat, NEW d \in Nat, d >= Digits(m), d >= Digits(n)
  PROVE  NameBefore(m, n) <=>
           Pad(m, d) < Pad(n, d) \/ (Pad(m, d) = Pad(n, d) /\ Digits(m) < Digits(n))
<1>1. PICK k : k = Max({Digits(m), Digits(n)})
  OBVIOUS
<1>2. k \in Nat /\ k >= Digits(m) /\ k >= Digits(n) /\ k <= d
  <2>1. Digits(m) \in Nat /\ Digits(n) \in Nat
    BY DigitsFacts
  <2>2. k \in {Digits(m), Digits(n)}
    <3>1. \E x \in {Digits(m), Digits(n)} : \A y \in {Digits(m), Digits(n)} : x >= y
      BY <2>1
    <3>. QED
      BY <1>1, <3>1 DEF Max
  <2>. QED
    BY <1>1, <2>1, <2>2, MaxOfTwo
<1>3. NameBefore(m, n) <=>
        Pad(m, k) < Pad(n, k) \/ (Pad(m, k) = Pad(n, k) /\ Digits(m) < Digits(n))
  BY <1>1 DEF NameBefore, Pad
<1>4. PICK e \in Nat : d = k + e
  <2>1. d - k \in Nat /\ d = k + (d - k)
    BY <1>2
  <2>. QED
    BY <2>1
<1>5. /\ Pad(m, k) \in Nat /\ Pad(n, k) \in Nat
      /\ Pad(m, d) = Pad(m, k) * Power[e] /\ Pad(n, d) = Pad(n, k) * Power[e]
  BY <1>2, <1>4, PadFacts
<1>6. Power[e] \in Nat /\ Power[e] >= 1
  BY PowerType
<1>7. /\ Pad(m, k) < Pad(n, k) <=> Pad(m, d) < Pad(n, d)
      /\ Pad(m, k) = Pad(n, k) <=> Pad(m, d) = Pad(n, d)
  BY <1>5, <1>6, TimesMonotone
<1>. QED
  BY <1>3, <1>7

(* The order of the names is total, and that of the numbers as long as the  *)
(* numbers have their digits; the first one that outgrows them comes before *)
(* the one before it.                                                       *)
LEMMA NamesAreOrdered ==
  /\ \A m \in Nat : ~NameBefore(m, m)
  /\ \A l, m, n \in Nat : NameBefore(l, m) /\ NameBefore(m, n) => NameBefore(l, n)
  /\ \A m, n \in Nat : m # n => NameBefore(m, n) \/ NameBefore(n, m)
<1>1. ASSUME NEW l \in Nat, NEW m \in Nat, NEW n \in Nat
      PROVE  \E d \in Nat : d >= Digits(l) /\ d >= Digits(m) /\ d >= Digits(n)
  <2>1. Digits(l) \in Nat /\ Digits(m) \in Nat /\ Digits(n) \in Nat
    BY DigitsFacts
  <2>2. PICK d : d = Digits(l) + Digits(m) + Digits(n)
    OBVIOUS
  <2>. QED
    BY <2>1, <2>2
<1>2. ASSUME NEW m \in Nat
      PROVE  ~NameBefore(m, m)
  <2>1. PICK d \in Nat : d >= Digits(m)
    BY <1>1
  <2>2. Pad(m, d) \in Nat /\ Digits(m) \in Nat
    <3>1. 0 \in Nat
      OBVIOUS
    <3>. QED
      BY <2>1, <3>1, PadFacts, DigitsFacts
  <2>. QED
    BY <2>1, <2>2, NameOrder
<1>3. ASSUME NEW l \in Nat, NEW m \in Nat, NEW n \in Nat, NameBefore(l, m), NameBefore(m, n)
      PROVE  NameBefore(l, n)
  <2>1. PICK d \in Nat : d >= Digits(l) /\ d >= Digits(m) /\ d >= Digits(n)
    BY <1>1
  <2>2. /\ Pad(l, d) \in Nat /\ Pad(m, d) \in Nat /\ Pad(n, d) \in Nat
        /\ Digits(l) \in Nat /\ Digits(m) \in Nat /\ Digits(n) \in Nat
    <3>1. 0 \in Nat
      OBVIOUS
    <3>. QED
      BY <2>1, <3>1, PadFacts, DigitsFacts
  <2>3. Pad(l, d) < Pad(m, d) \/ (Pad(l, d) = Pad(m, d) /\ Digits(l) < Digits(m))
    BY <1>3, <2>1, NameOrder
  <2>4. Pad(m, d) < Pad(n, d) \/ (Pad(m, d) = Pad(n, d) /\ Digits(m) < Digits(n))
    BY <1>3, <2>1, NameOrder
  <2>5. Pad(l, d) < Pad(n, d) \/ (Pad(l, d) = Pad(n, d) /\ Digits(l) < Digits(n))
    BY <2>2, <2>3, <2>4
  <2>. QED
    BY <2>1, <2>5, NameOrder
<1>4. ASSUME NEW m \in Nat, NEW n \in Nat, m # n
      PROVE  NameBefore(m, n) \/ NameBefore(n, m)
  <2>1. PICK d \in Nat : d >= Digits(m) /\ d >= Digits(n)
    BY <1>1
  <2>2. Pad(m, d) \in Nat /\ Pad(n, d) \in Nat /\ Digits(m) \in Nat /\ Digits(n) \in Nat
    <3>1. 0 \in Nat
      OBVIOUS
    <3>. QED
      BY <2>1, <3>1, PadFacts, DigitsFacts
  <2>3. CASE Digits(m) = Digits(n)
    <3>1. d - Digits(m) \in Nat
      BY <2>1, <2>2
    <3>2. Power[d - Digits(m)] \in Nat /\ Power[d - Digits(m)] >= 1
      BY <3>1, PowerType
    <3>3. Pad(m, d) # Pad(n, d)
      BY <1>4, <2>3, <3>2, TimesMonotone DEF Pad
    <3>. QED
      BY <2>1, <2>2, <3>3, NameOrder
  <2>4. CASE Digits(m) # Digits(n)
    BY <2>1, <2>2, <2>4, NameOrder
  <2>. QED
    BY <2>3, <2>4
<1>. QED
  BY <1>2, <1>3, <1>4

(* Numbers that fit the width sort as numbers.                              *)
LEMMA NamesFollowNumbers ==
  ASSUME NEW m \in Nat, NEW n \in Nat, m < Power[Width], n < Power[Width]
  PROVE  NameBefore(m, n) <=> m < n
<1>1. Digits(m) = Width /\ Digits(n) = Width /\ Width \in Nat
  BY DigitsFacts, NamesAssumption
<1>2. Pad(m, Width) = m /\ Pad(n, Width) = n
  BY <1>1, PowerFacts DEF Pad
<1>. QED
  BY <1>1, <1>2, NameOrder

(* The first number that does not fit sorts before the last that does.      *)
LEMMA NamesOutgrowNumbers ==
  /\ Power[Width] - 1 \in Nat
  /\ NameBefore(Power[Width], Power[Width] - 1)
<1>1. PICK b : b = Power[Width]
  OBVIOUS
<1>2. b \in Nat /\ b > 2 /\ Width \in Nat /\ Width + 1 \in Nat /\ Base \in Nat /\ Base >= 2
  BY <1>1, NamesAssumption, PowerType
<1>3. b - 1 \in Nat /\ Digits(b - 1) = Width /\ Digits(b) = Width + 1
  BY <1>1, <1>2, DigitsFacts
<1>4. Power[0] = 1 /\ Power[1] = Base
  <2>1. 0 + 1 = 1 /\ Power[0 + 1] = Base * Power[0] /\ Power[0] = 1
    BY PowerFacts
  <2>. QED
    BY <1>2, <2>1
<1>5. Pad(b, Width + 1) = b /\ Pad(b - 1, Width + 1) = (b - 1) * Base
  <2>1. (Width + 1) - (Width + 1) = 0 /\ (Width + 1) - Width = 1
    BY <1>2
  <2>2. Pad(b, Width + 1) = b * Power[0] /\ Pad(b - 1, Width + 1) = (b - 1) * Power[1]
    BY <1>3, <2>1 DEF Pad
  <2>. QED
    BY <1>2, <1>4, <2>2
<1>6. b < (b - 1) * Base
  <2>1. (b - 1) * (Base - 2) >= 0 /\ (b - 1) * (Base - 2) = (b - 1) * Base - 2 * (b - 1)
    BY <1>2
  <2>2. (b - 1) * Base \in Nat
    BY <1>2, <1>3
  <2>. QED
    BY <1>2, <2>1, <2>2
<1>7. NameBefore(b, b - 1)
  BY <1>2, <1>3, <1>5, <1>6, NameOrder
<1>. QED
  BY <1>1, <1>3, <1>7

-----------------------------------------------------------------------------
(* Ranks *)

(* In a strict total order of a finite set S, where P[x] is what comes      *)
(* before x, each element has a rank of its own, and each rank an element.  *)
LEMMA Ranks ==
  ASSUME NEW S, IsFiniteSet(S), NEW P \in [S -> SUBSET S],
         \A x \in S : x \notin P[x],
         \A x, y, z \in S : x \in P[y] /\ y \in P[z] => x \in P[z],
         \A x, y \in S : x # y => x \in P[y] \/ y \in P[x]
  PROVE  /\ Cardinality(S) \in Nat
         /\ \A x \in S : Cardinality(P[x]) \in 0..Cardinality(S) - 1
         /\ \A x, y \in S : x \in P[y] <=> Cardinality(P[x]) < Cardinality(P[y])
         /\ \A x, y \in S : Cardinality(P[x]) = Cardinality(P[y]) => x = y
         /\ \A i \in 0..Cardinality(S) - 1 : \E x \in S : Cardinality(P[x]) = i
<1>1. Cardinality(S) \in Nat
  BY FS_CardinalityType
<1>2. \A x \in S : /\ IsFiniteSet(P[x]) /\ Cardinality(P[x]) \in Nat
                   /\ Cardinality(P[x]) < Cardinality(S)
  <2>. SUFFICES ASSUME NEW x \in S
                PROVE  /\ IsFiniteSet(P[x]) /\ Cardinality(P[x]) \in Nat
                       /\ Cardinality(P[x]) < Cardinality(S)
    OBVIOUS
  <2>1. P[x] \in SUBSET S /\ P[x] # S
    OBVIOUS
  <2>2. /\ IsFiniteSet(P[x]) /\ Cardinality(P[x]) <= Cardinality(S)
        /\ Cardinality(S) # Cardinality(P[x])
    BY <2>1, FS_Subset
  <2>. QED
    BY <1>1, <2>2, FS_CardinalityType
<1>3. ASSUME NEW x \in S, NEW y \in S, x \in P[y]
      PROVE  Cardinality(P[x]) < Cardinality(P[y])
  <2>1. P[x] \in SUBSET P[y] /\ P[x] # P[y]
    BY <1>3
  <2>2. Cardinality(P[x]) <= Cardinality(P[y]) /\ Cardinality(P[y]) # Cardinality(P[x])
    BY <1>2, <2>1, FS_Subset
  <2>. QED
    BY <1>2, <2>2
<1>4. ASSUME NEW x \in S, NEW y \in S, Cardinality(P[x]) = Cardinality(P[y])
      PROVE  x = y
  BY <1>2, <1>3, <1>4
<1>5. ASSUME NEW x \in S, NEW y \in S, Cardinality(P[x]) < Cardinality(P[y])
      PROVE  x \in P[y]
  BY <1>2, <1>3, <1>5
<1>6. \A i \in 0..Cardinality(S) - 1 : \E x \in S : Cardinality(P[x]) = i
  <2>. DEFINE T == 0..Cardinality(S) - 1
  <2>1. PICK r : r = [x \in S |-> Cardinality(P[x])]
    OBVIOUS
  <2>2. r \in [S -> T]
    BY <1>1, <1>2, <2>1
  <2>3. IsFiniteSet(T) /\ Cardinality(T) = Cardinality(S)
    <3>1. 0 \in Int /\ Cardinality(S) - 1 \in Int
      BY <1>1
    <3>2. /\ IsFiniteSet(T)
          /\ Cardinality(T) = IF 0 > Cardinality(S) - 1 THEN 0
                              ELSE (Cardinality(S) - 1) - 0 + 1
      BY <3>1, FS_Interval
    <3>. QED
      BY <1>1, <3>2
  <2>4. r \in Injection(S, T)
    <3>1. \A x, y \in S : r[x] = r[y] => x = y
      BY <1>4, <2>1
    <3>. QED
      BY <2>2, <3>1 DEF Injection, IsInjective
  <2>5. r \in Surjection(S, T)
    <3>. HIDE DEF T
    <3>. QED
      BY <2>3, <2>4, FS_Injection
  <2>6. \A i \in T : \E x \in S : r[x] = i
    BY <2>5 DEF Surjection
  <2>. QED
    BY <2>1, <2>6
<1>7. \A x \in S : Cardinality(P[x]) \in 0..Cardinality(S) - 1
  BY <1>1, <1>2
<1>. QED
  BY <1>1, <1>3, <1>4, <1>5, <1>6, <1>7

(* The numbers of a finite set, in order.                                   *)
LEMMA AscendingFacts ==
  ASSUME NEW I \in SUBSET Int, IsFiniteSet(I)
  PROVE  /\ Cardinality(I) \in Nat
         /\ Ascending(I) \in Seq(I)
         /\ Len(Ascending(I)) = Cardinality(I)
         /\ \A i \in 1..Cardinality(I) : Ascending(I)[i] \in I
         /\ \A n \in I : \E i \in 1..Cardinality(I) : Ascending(I)[i] = n
         /\ \A i, k \in 1..Cardinality(I) : i < k <=> Ascending(I)[i] < Ascending(I)[k]
<1>1. PICK P : P = [n \in I |-> { k \in I : k < n }]
  OBVIOUS
<1>2. PICK c : c = Cardinality(I)
  OBVIOUS
<1>3. /\ c \in Nat
      /\ \A x \in I : Cardinality(P[x]) \in 0..c - 1
      /\ \A x, y \in I : x \in P[y] <=> Cardinality(P[x]) < Cardinality(P[y])
      /\ \A x, y \in I : Cardinality(P[x]) = Cardinality(P[y]) => x = y
      /\ \A i \in 0..c - 1 : \E x \in I : Cardinality(P[x]) = i
  <2>1. P \in [I -> SUBSET I]
    BY <1>1
  <2>2. \A x, y \in I : x \in P[y] <=> x < y
    BY <1>1
  <2>3. /\ \A x \in I : x \notin P[x]
        /\ \A x, y, z \in I : x \in P[y] /\ y \in P[z] => x \in P[z]
        /\ \A x, y \in I : x # y => x \in P[y] \/ y \in P[x]
    BY <2>2
  <2>. QED
    BY <1>2, <2>1, <2>3, Ranks
<1>4. PICK s : s = Ascending(I)
  OBVIOUS
<1>5. s = [i \in 1..c |-> CHOOSE n \in I : Cardinality({ k \in I : k < n }) = i - 1]
  BY <1>2, <1>4 DEF Ascending
<1>6. \A i \in 1..c : s[i] \in I /\ Cardinality(P[s[i]]) = i - 1
  <2>. SUFFICES ASSUME NEW i \in 1..c
                PROVE  s[i] \in I /\ Cardinality(P[s[i]]) = i - 1
    OBVIOUS
  <2>1. i - 1 \in 0..c - 1
    BY <1>3
  <2>2. PICK x \in I : Cardinality(P[x]) = i - 1
    BY <1>3, <2>1
  <2>3. \A n \in I : P[n] = { k \in I : k < n }
    BY <1>1
  <2>4. s[i] = CHOOSE n \in I : Cardinality({ k \in I : k < n }) = i - 1
    BY <1>5
  <2>5. Cardinality({ k \in I : k < x }) = i - 1
    BY <2>2, <2>3
  <2>6. s[i] \in I /\ Cardinality({ k \in I : k < s[i] }) = i - 1
    BY <2>4, <2>5
  <2>. QED
    BY <2>3, <2>6
<1>7. s \in Seq(I) /\ Len(s) = c
  <2>. DEFINE pick(i) == CHOOSE n \in I : Cardinality({ k \in I : k < n }) = i - 1
  <2>1. s = [i \in 1..c |-> pick(i)]
    BY <1>5
  <2>2. s \in [1..c -> I]
    <3>. HIDE DEF pick
    <3>. QED
      BY <1>6, <2>1
  <2>. QED
    BY <1>3, <2>2
<1>8. ASSUME NEW n \in I
      PROVE  \E i \in 1..c : s[i] = n
  <2>1. PICK i : i = Cardinality(P[n]) + 1
    OBVIOUS
  <2>2. i \in 1..c /\ i - 1 = Cardinality(P[n])
    BY <1>3, <2>1
  <2>. QED
    BY <1>3, <1>6, <2>2
<1>9. ASSUME NEW i \in 1..c, NEW k \in 1..c
      PROVE  i < k <=> s[i] < s[k]
  <2>1. s[i] \in P[s[k]] <=> s[i] < s[k]
    BY <1>1, <1>6
  <2>2. s[i] \in P[s[k]] <=> i - 1 < k - 1
    BY <1>3, <1>6
  <2>. QED
    BY <2>1, <2>2
<1>. QED
  BY <1>2, <1>3, <1>4, <1>6, <1>7, <1>8, <1>9

(* The numbers of an interval in order.                                     *)
LEMMA AscendingInterval ==
  ASSUME NEW a \in Int, NEW b \in Int, a <= b + 1
  PROVE  /\ Cardinality(a..b) = b - a + 1
         /\ \A i \in 1..(b - a + 1) : Ascending(a..b)[i] = a + i - 1
<1>1. /\ IsFiniteSet(a..b) /\ Cardinality(a..b) = b - a + 1
  BY FS_Interval
<1>2. ASSUME NEW x \in a..b
      PROVE  Cardinality({ k \in a..b : k < x }) = x - a
  <2>1. { k \in a..b : k < x } = a..(x - 1)
    OBVIOUS
  <2>2. PICK y \in Int : y = x - 1
    OBVIOUS
  <2>3. Cardinality(a..y) = IF a > y THEN 0 ELSE y - a + 1
    BY FS_Interval
  <2>4. Cardinality(a..y) = x - a
    BY <2>2, <2>3
  <2>. QED
    BY <2>1, <2>2, <2>4
<1>3. ASSUME NEW i \in 1..(b - a + 1)
      PROVE  Ascending(a..b)[i] = a + i - 1
  <2>1. a + i - 1 \in a..b
    OBVIOUS
  <2>2. Ascending(a..b)[i] =
          CHOOSE n \in a..b : Cardinality({ k \in a..b : k < n }) = i - 1
    BY <1>1 DEF Ascending
  <2>3. \A n \in a..b : Cardinality({ k \in a..b : k < n }) = i - 1 <=> n = a + i - 1
    BY <1>2
  <2>. QED
    BY <2>1, <2>2, <2>3
<1>. QED
  BY <1>1, <1>3

(* A filter keeps the elements at the positions it keeps, and all of them   *)
(* if it keeps every position.                                              *)
LEMMA AtFacts ==
  ASSUME NEW S, NEW s \in Seq(S), NEW I \in SUBSET (1..Len(s))
  PROVE  /\ IsFiniteSet(I) /\ Cardinality(I) \in Nat
         /\ At(s, I) \in Seq(S) /\ Len(At(s, I)) = Cardinality(I)
         /\ \A i \in 1..Cardinality(I) :
              Ascending(I)[i] \in I /\ At(s, I)[i] = s[Ascending(I)[i]]
<1>1. Len(s) \in Nat /\ \A i \in 1..Len(s) : s[i] \in S
  BY LenProperties, ElementOfSeq
<1>2. IsFiniteSet(1..Len(s))
  BY <1>1, FS_Interval
<1>3. IsFiniteSet(I) /\ I \in SUBSET Int
  <2>1. IsFiniteSet(I)
    BY <1>2, FS_Subset
  <2>2. \A i \in I : i \in Int
    OBVIOUS
  <2>. QED
    BY <2>1, <2>2
<1>4. Cardinality(I) \in Nat /\ \A i \in 1..Cardinality(I) : Ascending(I)[i] \in I
  BY <1>3, AscendingFacts
<1>5. \A i \in 1..Cardinality(I) : s[Ascending(I)[i]] \in S
  BY <1>1, <1>4
<1>6. At(s, I) = [i \in 1..Cardinality(I) |-> s[Ascending(I)[i]]]
  BY DEF At
<1>7. At(s, I) \in [1..Cardinality(I) -> S]
  BY <1>5, <1>6
<1>. QED
  BY <1>3, <1>4, <1>6, <1>7

(* All positions of a sequence give the sequence.                           *)
LEMMA AtAll ==
  ASSUME NEW S, NEW s \in Seq(S)
  PROVE  At(s, 1..Len(s)) = s
<1>1. Len(s) \in Nat /\ s = [i \in 1..Len(s) |-> s[i]]
  BY LenProperties
<1>2. /\ Cardinality(1..Len(s)) = Len(s)
      /\ \A i \in 1..Len(s) : Ascending(1..Len(s))[i] = i
  <2>1. 1 \in Int /\ Len(s) \in Int /\ 1 <= Len(s) + 1
    BY <1>1
  <2>2. /\ Cardinality(1..Len(s)) = Len(s) - 1 + 1
        /\ \A i \in 1..(Len(s) - 1 + 1) : Ascending(1..Len(s))[i] = 1 + i - 1
    BY <2>1, AscendingInterval
  <2>. QED
    BY <1>1, <2>2
<1>3. At(s, 1..Len(s)) = [i \in 1..Len(s) |-> s[i]]
  BY <1>2 DEF At
<1>. QED
  BY <1>1, <1>3

-----------------------------------------------------------------------------
(* Sums *)

(* A total is the last value of any function that adds the elements up.     *)
LEMMA TotalIs ==
  ASSUME NEW s, NEW n \in Nat, Len(s) = n, NEW f \in [Nat -> Int], f[0] = 0,
         \A i \in 1..n : f[i] = f[i - 1] + s[i]
  PROVE  Total(s) = f[n]
<1>1. PICK g : g = [i \in 0..n |-> f[i]]
  OBVIOUS
<1>2. g = [i \in 0..Len(s) |-> IF i = 0 THEN 0 ELSE g[i - 1] + s[i]]
  <2>1. \A i \in 0..n : g[i] = IF i = 0 THEN 0 ELSE g[i - 1] + s[i]
    <3>. SUFFICES ASSUME NEW i \in 0..n
                  PROVE  g[i] = IF i = 0 THEN 0 ELSE g[i - 1] + s[i]
      OBVIOUS
    <3>1. CASE i = 0
      BY <1>1, <3>1
    <3>2. CASE i # 0
      <4>1. i \in 1..n /\ i - 1 \in 0..n
        BY <3>2
      <4>. QED
        BY <1>1, <3>2, <4>1
    <3>. QED
      BY <3>1, <3>2
  <2>. QED
    BY <1>1, <2>1
<1>3. PICK u : u = [i \in 0..Len(s) |-> IF i = 0 THEN 0 ELSE u[i - 1] + s[i]] /\ Total(s) = u[Len(s)]
  BY <1>2 DEF Total
<1>4. \A i \in 0..n : u[i] = IF i = 0 THEN 0 ELSE u[i - 1] + s[i]
  BY <1>3
<1>. DEFINE T == { i \in Nat : i <= n => u[i] = f[i] }
<1>5. 0 \in T
  BY <1>4
<1>6. ASSUME NEW i \in T
      PROVE  i + 1 \in T
  <2>1. SUFFICES ASSUME i + 1 <= n
                 PROVE  u[i + 1] = f[i + 1]
    OBVIOUS
  <2>2. /\ i \in Nat /\ i + 1 \in 0..n /\ i + 1 \in 1..n /\ i + 1 # 0 /\ (i + 1) - 1 = i
        /\ u[i] = f[i]
    BY <2>1
  <2>. QED
    BY <1>4, <2>2
<1>7. T = Nat
  <2>1. T \in SUBSET Nat
    OBVIOUS
  <2>. HIDE DEF T
  <2>. QED
    BY <1>5, <1>6, <2>1, Inductive
<1>8. u[n] = f[n]
  <2>1. n \in T
    BY <1>7
  <2>. QED
    BY <2>1
<1>. QED
  BY <1>3, <1>8

(* The frames before a group grow by the frames of each group.              *)
LEMMA BeforeFacts ==
  ASSUME NEW groups \in Seq([frames : Nat \ {0}, size : Nat])
  PROVE  /\ Len(groups) \in Nat
         /\ \A k \in 1..Len(groups) : groups[k].frames \in Nat \ {0}
         /\ Before(groups, 1) = 0
         /\ \A k \in 1..Len(groups) + 1 : Before(groups, k) \in Nat
         /\ \A k \in 1..Len(groups) :
              Before(groups, k + 1) = Before(groups, k) + groups[k].frames
<1>1. PICK n : n = Len(groups)
  OBVIOUS
<1>2. n \in Nat /\ \A k \in 1..n : groups[k].frames \in Nat \ {0}
  <2>1. \A k \in 1..n : groups[k] \in [frames : Nat \ {0}, size : Nat]
    BY <1>1, ElementOfSeq, LenProperties
  <2>. QED
    BY <1>1, <2>1, LenProperties
<1>3. PICK F : F = [x \in Nat \X Nat |->
                      IF x[1] < n THEN x[2] + groups[x[1] + 1].frames ELSE x[2]]
  OBVIOUS
<1>4. F \in [Nat \X Nat -> Nat]
  <2>1. \A i \in Nat : i < n => groups[i + 1].frames \in Nat
    BY <1>2
  <2>2. ASSUME NEW i \in Nat, NEW b \in Nat
        PROVE  (IF i < n THEN b + groups[i + 1].frames ELSE b) \in Nat
    <3>1. CASE i < n
      <4>1. PICK m \in Nat : m = groups[i + 1].frames
        BY <2>1, <3>1
      <4>2. b + m \in Nat
        OBVIOUS
      <4>. QED
        BY <3>1, <4>1, <4>2, Zenon
    <3>. QED
      BY <3>1
  <2>3. \A x \in Nat \X Nat :
          (IF x[1] < n THEN x[2] + groups[x[1] + 1].frames ELSE x[2]) \in Nat
    BY <2>2
  <2>. QED
    BY <1>3, <2>3
<1>5. PICK z \in Nat : z = 0
  OBVIOUS
<1>6. PICK f : Steps(f, Nat, z, F)
  BY <1>4, <1>5, Recursion
<1>7. f \in [Nat -> Nat] /\ f[0] = 0 /\ \A i \in Nat : f[i + 1] = F[<<i, f[i]>>]
  BY <1>5, <1>6 DEF Steps
<1>8. \A k \in 1..n : f[k] = f[k - 1] + groups[k].frames
  <2>. SUFFICES ASSUME NEW k \in 1..n
                PROVE  f[k] = f[k - 1] + groups[k].frames
    OBVIOUS
  <2>1. k - 1 \in Nat /\ (k - 1) + 1 = k /\ k - 1 < n
    BY <1>2
  <2>2. f[k] = F[<<k - 1, f[k - 1]>>]
    BY <1>7, <2>1
  <2>3. F[<<k - 1, f[k - 1]>>] = f[k - 1] + groups[k].frames
    BY <1>3, <1>7, <2>1
  <2>. QED
    BY <2>2, <2>3
<1>9. ASSUME NEW k \in 1..n + 1
      PROVE  Before(groups, k) = f[k - 1]
  <2>1. PICK s : s = [i \in 1..k - 1 |-> groups[i].frames]
    OBVIOUS
  <2>2. k - 1 \in Nat /\ Len(s) = k - 1 /\ \A i \in 1..k - 1 : s[i] = groups[i].frames /\ i \in 1..n
    BY <1>2, <2>1
  <2>3. f \in [Nat -> Int] /\ \A i \in 1..k - 1 : f[i] = f[i - 1] + s[i]
    <3>1. f \in [Nat -> Int]
      BY <1>7
    <3>2. ASSUME NEW i \in 1..k - 1
          PROVE  f[i] = f[i - 1] + s[i]
      <4>1. i \in 1..n /\ s[i] = groups[i].frames
        BY <2>2
      <4>2. f[i] = f[i - 1] + groups[i].frames
        BY <1>8, <4>1
      <4>. QED
        BY <4>1, <4>2, Zenon
    <3>. QED
      BY <3>1, <3>2
  <2>4. Total(s) = f[k - 1]
    <3>1. PICK m \in Nat : m = k - 1
      BY <2>2
    <3>2. Len(s) = m /\ f[0] = 0 /\ \A i \in 1..m : f[i] = f[i - 1] + s[i]
      BY <1>7, <2>2, <2>3, <3>1
    <3>3. Total(s) = f[m]
      BY <2>3, <3>2, TotalIs
    <3>. QED
      BY <3>1, <3>3
  <2>. QED
    BY <2>1, <2>4 DEF Before
<1>10. \A k \in 1..n + 1 : Before(groups, k) \in Nat
  BY <1>2, <1>7, <1>9
<1>11. Before(groups, 1) = 0
  BY <1>2, <1>7, <1>9
<1>12. \A k \in 1..n : Before(groups, k + 1) = Before(groups, k) + groups[k].frames
  <2>. SUFFICES ASSUME NEW k \in 1..n
                PROVE  Before(groups, k + 1) = Before(groups, k) + groups[k].frames
    OBVIOUS
  <2>1. k \in 1..n + 1 /\ k + 1 \in 1..n + 1 /\ (k + 1) - 1 = k
    BY <1>2
  <2>. QED
    BY <1>8, <1>9, <2>1
<1>. QED
  BY <1>1, <1>2, <1>10, <1>11, <1>12

(* A later group has more frames before it, and only a later one.           *)
LEMMA BeforeGrows ==
  ASSUME NEW groups \in Seq([frames : Nat \ {0}, size : Nat]),
         NEW j \in 1..Len(groups) + 1, NEW k \in 1..Len(groups) + 1
  PROVE  j < k <=> Before(groups, j) < Before(groups, k)
<1>1. PICK B : B = [i \in 1..Len(groups) + 1 |-> Before(groups, i)]
  OBVIOUS
<1>2. PICK n : n = Len(groups)
  OBVIOUS
<1>3. /\ n \in Nat /\ B \in [1..n + 1 -> Nat]
      /\ \A i \in 1..n : B[i] < B[i + 1]
  <2>1. \A i \in 1..n : i \in 1..n + 1 /\ i + 1 \in 1..n + 1
    BY <1>2, BeforeFacts
  <2>2. /\ n \in Nat /\ \A h \in 1..n : groups[h].frames \in Nat \ {0}
        /\ \A i \in 1..n + 1 : Before(groups, i) \in Nat
        /\ \A i \in 1..n : Before(groups, i + 1) = Before(groups, i) + groups[i].frames
    BY <1>2, BeforeFacts
  <2>3. B \in [1..n + 1 -> Nat] /\ \A i \in 1..n + 1 : B[i] = Before(groups, i)
    BY <1>1, <1>2, <2>2
  <2>4. \A i \in 1..n : B[i + 1] = B[i] + groups[i].frames
    BY <2>1, <2>2, <2>3
  <2>5. ASSUME NEW i \in 1..n
        PROVE  B[i] < B[i + 1]
    <3>1. PICK b \in Nat, f \in Nat \ {0} : b = B[i] /\ f = groups[i].frames
      BY <2>1, <2>2, <2>3
    <3>2. B[i + 1] = b + f
      BY <2>4, <3>1
    <3>3. b < b + f
      OBVIOUS
    <3>. QED
      BY <3>1, <3>2, <3>3
  <2>. QED
    BY <2>2, <2>3, <2>5
<1>4. ASSUME NEW i \in 1..n + 1
      PROVE  \A m \in Nat : i < m /\ m <= n + 1 => B[i] < B[m]
  <2>. DEFINE T == { m \in Nat : i < m /\ m <= n + 1 => B[i] < B[m] }
  <2>1. 0 \in T
    OBVIOUS
  <2>2. ASSUME NEW m \in T
        PROVE  m + 1 \in T
    <3>1. SUFFICES ASSUME i < m + 1, m + 1 <= n + 1
                   PROVE  B[i] < B[m + 1]
      OBVIOUS
    <3>2. m \in 1..n /\ m \in 1..n + 1 /\ m + 1 \in 1..n + 1
      BY <1>3, <3>1
    <3>3. B[m] < B[m + 1] /\ B[i] \in Nat /\ B[m] \in Nat /\ B[m + 1] \in Nat
      BY <1>3, <3>2
    <3>4. i = m \/ B[i] < B[m]
      BY <1>3, <3>1
    <3>. QED
      BY <3>3, <3>4
  <2>3. T = Nat
    <3>1. T \in SUBSET Nat
      OBVIOUS
    <3>. HIDE DEF T
    <3>. QED
      BY <2>1, <2>2, <3>1, Inductive
  <2>. QED
    BY <2>3
<1>5. B[j] = Before(groups, j) /\ B[k] = Before(groups, k) /\ j \in 1..n + 1 /\ k \in 1..n + 1
  BY <1>1, <1>2
<1>6. B[j] \in Nat /\ B[k] \in Nat
  BY <1>3, <1>5
<1>7. j \in Nat /\ k \in Nat /\ j <= n + 1 /\ k <= n + 1
  BY <1>3, <1>5
<1>8. (j < k => B[j] < B[k]) /\ (k < j => B[k] < B[j])
  BY <1>4, <1>5, <1>7
<1>. QED
  BY <1>5, <1>6, <1>7, <1>8
=============================================================================
