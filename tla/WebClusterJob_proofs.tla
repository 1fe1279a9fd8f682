------------------------ MODULE WebClusterJob_proofs ------------------------
(***************************************************************************)
(* Theorems about the files of a cluster job and about what the web server *)
(* makes of it, for every source, number of nodes and of attempts.         *)
(***************************************************************************)
EXTENDS WebClusterJob, SegmentLists_proofs

-----------------------------------------------------------------------------
(* The pieces of a source *)

(* The source of a job has groups.                                          *)
SourceInv == IsSource(source) /\ Groups # <<>> /\ tries \in Nat

(* The groups of the source and the frames before each of them.             *)
LEMMA GroupsFacts ==
  ASSUME SourceInv
  PROVE  /\ Groups \in Seq([frames : Nat \ {0}, size : Nat])
         /\ Len(Groups) \in Nat \ {0}
         /\ Duration \in Nat
         /\ Before(Groups, 1) = 0
         /\ \A k \in 1..Len(Groups) :
              /\ Before(Groups, k) \in Nat /\ Groups[k].frames \in Nat \ {0}
              /\ Before(Groups, k + 1) = Before(Groups, k) + Groups[k].frames
              /\ Before(Groups, k) < Duration
         /\ \A j, k \in 1..Len(Groups) : j < k <=> Before(Groups, j) < Before(Groups, k)
<1>1. PICK g : g = Groups
  OBVIOUS
<1>2. g \in Seq([frames : Nat \ {0}, size : Nat])
  BY <1>1 DEF SourceInv, IsSource, Groups
<1>3. Len(g) \in Nat \ {0}
  BY <1>1, <1>2, EmptySeq, LenProperties DEF SourceInv
<1>4. /\ Before(g, 1) = 0
      /\ \A k \in 1..Len(g) + 1 : Before(g, k) \in Nat
      /\ \A k \in 1..Len(g) : /\ Before(g, k + 1) = Before(g, k) + g[k].frames
                              /\ g[k].frames \in Nat \ {0}
  BY <1>2, BeforeFacts
<1>5. \A j, k \in 1..Len(g) + 1 : j < k <=> Before(g, j) < Before(g, k)
  BY <1>2, BeforeGrows
<1>6. \A k \in 1..Len(g) :
        /\ k \in 1..Len(g) + 1 /\ Len(g) + 1 \in 1..Len(g) + 1 /\ k < Len(g) + 1
        /\ Before(g, k) \in Nat
        /\ Before(g, k) < Before(g, Len(g) + 1)
  BY <1>3, <1>4, <1>5
<1>7. Before(g, Len(g) + 1) \in Nat
  BY <1>3, <1>4
<1>8. \A j, k \in 1..Len(g) : j < k <=> Before(g, j) < Before(g, k)
  BY <1>5, <1>6
<1>. QED
  BY <1>1, <1>2, <1>3, <1>4, <1>6, <1>7, <1>8 DEF Duration

(* The times the source is asked to be cut at.                              *)
LEMMA CutTimes ==
  /\ SegmentTime \in Nat \ {0}
  /\ \A i \in Nat : /\ i * SegmentTime \in Nat /\ SegmentTime * i = i * SegmentTime
                    /\ (i + 1) * SegmentTime = i * SegmentTime + SegmentTime
  /\ \A i, j \in Nat : i < j <=> i * SegmentTime < j * SegmentTime
<1>1. SegmentTime \in Nat \ {0}
  BY FilesAssumption
<1>2. \A i \in Nat : /\ i * SegmentTime \in Nat /\ SegmentTime * i = i * SegmentTime
                    /\ (i + 1) * SegmentTime = i * SegmentTime + SegmentTime
  BY <1>1, SMT
<1>3. \A i, j \in Nat : i < j <=> i * SegmentTime < j * SegmentTime
  BY <1>1, TimesMonotone
<1>. QED
  BY <1>1, <1>2, <1>3

(* A group goes to the piece of the one before it or starts the next.       *)
LEMMA PieceSteps ==
  ASSUME SourceInv
  PROVE  /\ PieceOf[1] = 0
         /\ \A k \in 1..Len(Groups) : PieceOf[k] \in Nat
         /\ \A k \in 1..Len(Groups) : k + 1 \in 1..Len(Groups) =>
              PieceOf[k + 1] = IF Before(Groups, k + 1) >= SegmentTime * (PieceOf[k] + 1)
                               THEN PieceOf[k] + 1 ELSE PieceOf[k]
<1>1. PICK n : n = Len(Groups)
  OBVIOUS
<1>2. n \in Nat \ {0}
  BY <1>1, GroupsFacts
<1>3. PICK F : F = [x \in Nat \X Nat |->
                      IF Before(Groups, x[1] + 2) >= SegmentTime * (x[2] + 1)
                      THEN x[2] + 1 ELSE x[2]]
  OBVIOUS
<1>4. F \in [Nat \X Nat -> Nat]
  BY <1>3
<1>5. PICK z \in Nat : z = 0
  OBVIOUS
<1>6. PICK f : Steps(f, Nat, z, F)
  BY <1>4, <1>5, Recursion
<1>7. f \in [Nat -> Nat] /\ f[0] = 0 /\ \A i \in Nat : f[i + 1] = F[<<i, f[i]>>]
  BY <1>5, <1>6 DEF Steps
<1>8. PICK g : g = [k \in 1..n |-> f[k - 1]]
  OBVIOUS
<1>9. \A k \in 1..n : g[k] = IF k = 1 THEN 0
                             ELSE IF Before(Groups, k) >= SegmentTime * (g[k - 1] + 1)
                                  THEN g[k - 1] + 1 ELSE g[k - 1]
  <2>. SUFFICES ASSUME NEW k \in 1..n, k # 1
                PROVE  g[k] = IF Before(Groups, k) >= SegmentTime * (g[k - 1] + 1)
                              THEN g[k - 1] + 1 ELSE g[k - 1]
    <3>1. g[1] = 0
      BY <1>2, <1>7, <1>8
    <3>. QED
      BY <3>1
  <2>1. k - 2 \in Nat /\ (k - 2) + 1 = k - 1 /\ (k - 2) + 2 = k /\ k - 1 \in 1..n /\ (k - 1) - 1 = k - 2
    BY <1>2
  <2>2. g[k] = F[<<k - 2, f[k - 2]>>] /\ g[k - 1] = f[k - 2] /\ f[k - 2] \in Nat
    BY <1>7, <1>8, <2>1
  <2>. QED
    BY <1>3, <2>1, <2>2
<1>10. g = [k \in 1..Len(Groups) |-> IF k = 1 THEN 0
                             ELSE IF Before(Groups, k) >= SegmentTime * (g[k - 1] + 1)
                                  THEN g[k - 1] + 1 ELSE g[k - 1]]
  BY <1>1, <1>8, <1>9
<1>11. PICK u : /\ u = PieceOf
                /\ u = [k \in 1..Len(Groups) |-> IF k = 1 THEN 0
                             ELSE IF Before(Groups, k) >= SegmentTime * (u[k - 1] + 1)
                                  THEN u[k - 1] + 1 ELSE u[k - 1]]
  BY <1>10 DEF PieceOf
<1>12. \A k \in 1..n : u[k] = IF k = 1 THEN 0
                             ELSE IF Before(Groups, k) >= SegmentTime * (u[k - 1] + 1)
                                  THEN u[k - 1] + 1 ELSE u[k - 1]
  BY <1>1, <1>11
<1>13. u[1] = 0
  BY <1>2, <1>12
<1>14. \A k \in 1..n : k + 1 \in 1..n =>
         u[k + 1] = IF Before(Groups, k + 1) >= SegmentTime * (u[k] + 1) THEN u[k] + 1 ELSE u[k]
  <2>. SUFFICES ASSUME NEW k \in 1..n, k + 1 \in 1..n
                PROVE  u[k + 1] = IF Before(Groups, k + 1) >= SegmentTime * (u[k] + 1)
                                  THEN u[k] + 1 ELSE u[k]
    OBVIOUS
  <2>1. k + 1 # 1 /\ (k + 1) - 1 = k
    BY <1>2
  <2>. QED
    BY <1>12, <2>1
<1>. DEFINE T == { i \in Nat : i + 1 <= n => u[i + 1] \in Nat }
<1>15. 0 \in T
  BY <1>13
<1>16. ASSUME NEW i \in T
       PROVE  i + 1 \in T
  <2>1. SUFFICES ASSUME (i + 1) + 1 <= n
                 PROVE  u[(i + 1) + 1] \in Nat
    OBVIOUS
  <2>2. i + 1 \in 1..n /\ (i + 1) + 1 \in 1..n /\ u[i + 1] \in Nat
    BY <1>2, <2>1
  <2>. QED
    BY <1>14, <2>2
<1>17. T = Nat
  <2>1. T \in SUBSET Nat
    OBVIOUS
  <2>. HIDE DEF T
  <2>. QED
    BY <1>15, <1>16, <2>1, Inductive
<1>18. \A k \in 1..n : u[k] \in Nat
  <2>. SUFFICES ASSUME NEW k \in 1..n
                PROVE  u[k] \in Nat
    OBVIOUS
  <2>1. k - 1 \in Nat /\ (k - 1) + 1 = k /\ k <= n
    BY <1>2
  <2>2. k - 1 \in T
    BY <1>17, <2>1
  <2>. QED
    BY <2>1, <2>2
<1>. QED
  BY <1>1, <1>11, <1>13, <1>14, <1>18

(* The groups go to the pieces in order, no piece is left out, and none     *)
(* starts before the time it was to be cut at.                              *)
LEMMA PiecesInTurn ==
  ASSUME SourceInv
  PROVE  /\ Count \in Nat \ {0}
         /\ \A k \in 1..Len(Groups) :
              PieceOf[k] \in Ids /\ PieceOf[k] * SegmentTime <= Before(Groups, k)
         /\ \A j, k \in 1..Len(Groups) : j <= k => PieceOf[j] <= PieceOf[k]
         /\ \A i \in Ids : \E k \in 1..Len(Groups) : PieceOf[k] = i
<1>1. PICK n : n = Len(Groups)
  OBVIOUS
<1>2. PICK P : P = PieceOf
  OBVIOUS
<1>3. PICK B : B = [k \in 1..Len(Groups) |-> Before(Groups, k)]
  OBVIOUS
<1>4. /\ n \in Nat \ {0} /\ B[1] = 0
      /\ \A k \in 1..n : B[k] \in Nat /\ B[k] = Before(Groups, k)
      /\ \A j, k \in 1..n : j < k <=> B[j] < B[k]
  <2>1. n \in Nat \ {0} /\ \A k \in 1..n : B[k] = Before(Groups, k)
    BY <1>1, <1>3, GroupsFacts
  <2>2. /\ Before(Groups, 1) = 0 /\ 1 \in 1..n
        /\ \A k \in 1..n : Before(Groups, k) \in Nat
        /\ \A j, k \in 1..n : j < k <=> Before(Groups, j) < Before(Groups, k)
    BY <1>1, <2>1, GroupsFacts
  <2>. QED
    BY <2>1, <2>2
<1>5. /\ P[1] = 0
      /\ \A k \in 1..n : P[k] \in Nat
      /\ \A k \in 1..n : k + 1 \in 1..n =>
           P[k + 1] = IF B[k + 1] >= SegmentTime * (P[k] + 1) THEN P[k] + 1 ELSE P[k]
  BY <1>1, <1>2, <1>4, PieceSteps
<1>6. /\ SegmentTime \in Nat \ {0}
      /\ \A i \in Nat : i * SegmentTime \in Nat /\ SegmentTime * i = i * SegmentTime
  BY CutTimes
<1>. DEFINE T == { i \in Nat : i + 1 <= n =>
                     /\ P[i + 1] * SegmentTime <= B[i + 1]
                     /\ \A j \in 1..i + 1 : P[j] <= P[i + 1]
                     /\ \A p \in 0..P[i + 1] : \E k \in 1..i + 1 : P[k] = p }
<1>7. 0 \in T
  <2>1. 0 * SegmentTime = 0
    BY <1>6
  <2>2. 1 \in 1..n /\ P[1] * SegmentTime <= B[1]
    BY <1>4, <1>5, <2>1
  <2>3. \A j \in 1..1 : P[j] <= P[1]
    BY <1>5
  <2>4. \A p \in 0..P[1] : \E k \in 1..1 : P[k] = p
    BY <1>5
  <2>. QED
    BY <2>2, <2>3, <2>4
<1>8. ASSUME NEW i \in T
      PROVE  i + 1 \in T
  <2>1. SUFFICES ASSUME (i + 1) + 1 <= n
                 PROVE  /\ P[(i + 1) + 1] * SegmentTime <= B[(i + 1) + 1]
                        /\ \A j \in 1..(i + 1) + 1 : P[j] <= P[(i + 1) + 1]
                        /\ \A p \in 0..P[(i + 1) + 1] : \E k \in 1..(i + 1) + 1 : P[k] = p
    OBVIOUS
  <2>2. PICK k \in 1..n : k = i + 1
    <3>1. i + 1 \in 1..n
      BY <1>4, <2>1
    <3>. QED
      BY <3>1
  <2>3. k + 1 \in 1..n /\ k \in Nat
    BY <1>4, <2>1, <2>2
  <2>4. /\ P[k] * SegmentTime <= B[k]
        /\ \A j \in 1..k : P[j] <= P[k]
        /\ \A p \in 0..P[k] : \E h \in 1..k : P[h] = p
    BY <2>1, <2>2
  <2>5. P[k] \in Nat /\ P[k + 1] \in Nat /\ B[k] < B[k + 1] /\ B[k] \in Nat /\ B[k + 1] \in Nat
    BY <1>4, <1>5, <2>3
  <2>6. \/ P[k + 1] = P[k]
        \/ P[k + 1] = P[k] + 1 /\ P[k + 1] * SegmentTime <= B[k + 1]
    BY <1>5, <1>6, <2>3, <2>5
  <2>7. P[k + 1] * SegmentTime <= B[k + 1]
    <3>1. CASE P[k + 1] = P[k]
      <4>1. P[k] * SegmentTime \in Nat
        BY <1>6, <2>5
      <4>. QED
        BY <2>4, <2>5, <3>1, <4>1
    <3>. QED
      BY <2>6, <3>1
  <2>8. \A j \in 1..k + 1 : P[j] <= P[k + 1]
    <3>1. \A j \in 1..k : j \in 1..n
      BY <1>4, <2>3
    <3>2. \A j \in 1..k : P[j] \in Nat
      BY <1>5, <3>1
    <3>. QED
      BY <2>3, <2>4, <2>5, <2>6, <3>2
  <2>9. \A p \in 0..P[k + 1] : \E h \in 1..k + 1 : P[h] = p
    <3>. SUFFICES ASSUME NEW p \in 0..P[k + 1]
                  PROVE  \E h \in 1..k + 1 : P[h] = p
      OBVIOUS
    <3>1. CASE p \in 0..P[k]
      <4>1. PICK h \in 1..k : P[h] = p
        BY <2>4, <3>1
      <4>2. h \in 1..k + 1
        BY <2>3
      <4>. QED
        BY <4>1, <4>2
    <3>2. CASE p \notin 0..P[k]
      <4>1. p = P[k + 1] /\ k + 1 \in 1..k + 1
        BY <2>3, <2>5, <2>6, <3>2
      <4>. QED
        BY <4>1
    <3>. QED
      BY <3>1, <3>2
  <2>. QED
    BY <2>2, <2>7, <2>8, <2>9
<1>9. T = Nat
  <2>1. T \in SUBSET Nat
    OBVIOUS
  <2>. HIDE DEF T
  <2>. QED
    BY <1>7, <1>8, <2>1, Inductive
<1>10. ASSUME NEW k \in 1..n
       PROVE  /\ P[k] * SegmentTime <= B[k]
              /\ \A j \in 1..k : P[j] <= P[k]
              /\ \A p \in 0..P[k] : \E h \in 1..k : P[h] = p
  <2>1. k - 1 \in Nat /\ (k - 1) + 1 = k /\ k <= n
    BY <1>4
  <2>2. k - 1 \in T
    BY <1>9, <2>1
  <2>. QED
    BY <2>1, <2>2
<1>11. n \in 1..n /\ Count = P[n] + 1 /\ Ids = 0..P[n]
  BY <1>1, <1>2, <1>4, <1>5 DEF Count, Ids
<1>12. \A j, k \in 1..n : j <= k => P[j] <= P[k]
  <2>. SUFFICES ASSUME NEW j \in 1..n, NEW k \in 1..n, j <= k
                PROVE  P[j] <= P[k]
    OBVIOUS
  <2>1. j \in 1..k
    BY <1>4
  <2>. QED
    BY <1>10, <2>1
<1>13. \A k \in 1..n : P[k] \in 0..P[n]
  BY <1>4, <1>5, <1>11, <1>12
<1>14. \A i \in 0..P[n] : \E k \in 1..n : P[k] = i
  BY <1>10, <1>11
<1>15. Count \in Nat \ {0}
  BY <1>5, <1>11
<1>16. \A k \in 1..n : P[k] \in Ids /\ P[k] * SegmentTime <= Before(Groups, k)
  <2>1. \A k \in 1..n : P[k] * SegmentTime <= B[k] /\ B[k] = Before(Groups, k)
    BY <1>4, <1>10
  <2>. QED
    BY <1>11, <1>13, <2>1
<1>17. \A i \in Ids : \E k \in 1..n : P[k] = i
  BY <1>11, <1>14
<1>. QED
  BY <1>1, <1>2, <1>12, <1>15, <1>16, <1>17

(* A piece starts with its first group.                                     *)
LEMMA StartsFacts ==
  ASSUME SourceInv, NEW i \in Ids
  PROVE  \E f \in 1..Len(Groups) :
           /\ PieceOf[f] = i /\ Starts(i) = Before(Groups, f)
           /\ \A k \in 1..Len(Groups) : PieceOf[k] = i => f <= k
<1>1. PICK K : K = { k \in 1..Len(Groups) : PieceOf[k] = i }
  OBVIOUS
<1>2. K \in SUBSET Nat /\ K # {}
  <2>1. \E k \in 1..Len(Groups) : PieceOf[k] = i
    BY PiecesInTurn
  <2>2. 1..Len(Groups) \in SUBSET Nat
    BY GroupsFacts
  <2>. QED
    BY <1>1, <2>1, <2>2
<1>3. Min(K) \in K /\ \A k \in K : Min(K) <= k
  BY <1>2, MinFacts
<1>4. Starts(i) = Before(Groups, Min(K))
  BY <1>1 DEF Starts
<1>. QED
  BY <1>1, <1>3, <1>4

(* The range a piece is given is not empty and begins no later than it.     *)
LEMMA NominalFacts ==
  ASSUME SourceInv, NEW i \in 1..Count
  PROVE  /\ Nominal[i].from = (i - 1) * SegmentTime
         /\ Nominal[i].from \in Nat /\ Nominal[i].to \in Nat
         /\ Nominal[i].from < Nominal[i].to /\ Nominal[i].from <= Starts(i - 1)
         /\ Nominal[i].to <= i * SegmentTime
         /\ Nominal[i].to = i * SegmentTime \/ Nominal[i].to = Duration
<1>1. Count \in Nat \ {0} /\ i \in Nat /\ i - 1 \in Nat /\ (i - 1) + 1 = i /\ i - 1 \in Ids
  BY PiecesInTurn DEF Ids
<1>2. PICK f \in 1..Len(Groups) : PieceOf[f] = i - 1 /\ Starts(i - 1) = Before(Groups, f)
  BY <1>1, StartsFacts
<1>3. (i - 1) * SegmentTime <= Starts(i - 1)
  BY <1>2, PiecesInTurn
<1>4. Starts(i - 1) \in Nat /\ Starts(i - 1) < Duration /\ Duration \in Nat
  BY <1>2, GroupsFacts
<1>5. /\ (i - 1) * SegmentTime \in Nat /\ i * SegmentTime \in Nat
      /\ (i - 1) * SegmentTime < i * SegmentTime
  BY <1>1, CutTimes
<1>6. PICK a \in Nat, b \in Nat : a = i * SegmentTime /\ b = Duration
  BY <1>4, <1>5
<1>7. /\ {a, b} \in SUBSET Nat /\ {a, b} # {}
      /\ \A y \in {a, b} : Min({a, b}) <= y
      /\ Min({a, b}) \in {a, b}
  <2>1. {a, b} \in SUBSET Nat /\ {a, b} # {}
    OBVIOUS
  <2>. QED
    BY <2>1, MinFacts
<1>8. Nominal[i].from = (i - 1) * SegmentTime /\ Nominal[i].to = Min({a, b})
  BY <1>6 DEF Nominal
<1>. QED
  BY <1>3, <1>4, <1>5, <1>6, <1>7, <1>8

(* The files are taken in the order of their numbers exactly as long as     *)
(* these have not outgrown their digits.                                    *)
LEMMA FilesFollowNumbers ==
  ASSUME SourceInv
  PROVE  /\ FilesInOrder \in [1..Count -> Ids]
         /\ (\A i \in Ids : FilesInOrder[i + 1] = i) <=> Count <= Power[Width]
<1>1. PICK n : n = Count
  OBVIOUS
<1>2. n \in Nat \ {0}
  BY <1>1, PiecesInTurn
<1>3. PICK S : S = 0..n - 1
  OBVIOUS
<1>4. S = Ids /\ IsFiniteSet(S) /\ Cardinality(S) = n /\ S \in SUBSET Nat
  <2>1. n - 1 \in Int /\ (n - 1) - 0 + 1 = n /\ 0 <= n - 1
    BY <1>2
  <2>2. IsFiniteSet(0..n - 1) /\ Cardinality(0..n - 1) = (n - 1) - 0 + 1
    BY <2>1, FS_Interval
  <2>. QED
    BY <1>1, <1>2, <1>3, <2>1, <2>2 DEF Ids
<1>5. PICK P : P = [x \in S |-> { k \in S : NameBefore(k, x) }]
  OBVIOUS
<1>6. \A x, y \in S : x \in P[y] <=> NameBefore(x, y)
  BY <1>5
<1>7. /\ \A x \in S : Cardinality(P[x]) \in 0..n - 1
      /\ \A x, y \in S : x \in P[y] <=> Cardinality(P[x]) < Cardinality(P[y])
      /\ \A x, y \in S : Cardinality(P[x]) = Cardinality(P[y]) => x = y
      /\ \A i \in 0..n - 1 : \E x \in S : Cardinality(P[x]) = i
  <2>1. P \in [S -> SUBSET S]
    BY <1>5
  <2>2. \A x \in S : x \notin P[x]
    BY <1>4, <1>6, NamesAreOrdered
  <2>3. \A x, y, z \in S : x \in P[y] /\ y \in P[z] => x \in P[z]
    BY <1>4, <1>6, NamesAreOrdered
  <2>4. \A x, y \in S : x # y => x \in P[y] \/ y \in P[x]
    BY <1>4, <1>6, NamesAreOrdered
  <2>5. IsFiniteSet(S)
    BY <1>4
  <2>6. /\ \A x \in S : Cardinality(P[x]) \in 0..Cardinality(S) - 1
        /\ \A x, y \in S : x \in P[y] <=> Cardinality(P[x]) < Cardinality(P[y])
        /\ \A x, y \in S : Cardinality(P[x]) = Cardinality(P[y]) => x = y
        /\ \A i \in 0..Cardinality(S) - 1 : \E x \in S : Cardinality(P[x]) = i
    BY <2>1, <2>2, <2>3, <2>4, <2>5, Ranks, Zenon
  <2>. QED
    BY <1>4, <2>6
<1>8. ASSUME NEW i \in 1..n
      PROVE  FilesInOrder[i] \in S /\ Cardinality(P[FilesInOrder[i]]) = i - 1
  <2>1. \A x \in S : P[x] = { k \in Ids : NameBefore(k, x) }
    BY <1>4, <1>5
  <2>2. FilesInOrder[i] = CHOOSE id \in S : Cardinality(P[id]) = i - 1
    <3>1. FilesInOrder[i] =
            CHOOSE id \in Ids : Cardinality({ k \in Ids : NameBefore(k, id) }) = i - 1
      BY <1>1 DEF FilesInOrder
    <3>. QED
      BY <1>4, <2>1, <3>1
  <2>3. i - 1 \in 0..n - 1
    BY <1>2
  <2>4. \E id \in S : Cardinality(P[id]) = i - 1
    BY <1>7, <2>3
  <2>. QED
    BY <2>2, <2>4
<1>9. FilesInOrder \in [1..Count -> Ids]
  <2>1. \A i \in 1..Count : FilesInOrder[i] \in Ids
    BY <1>1, <1>4, <1>8
  <2>2. PICK G : G = FilesInOrder
    OBVIOUS
  <2>3. DOMAIN G = 1..Count /\ G = [i \in 1..Count |-> G[i]]
    BY <2>2 DEF FilesInOrder
  <2>. QED
    BY <2>1, <2>2, <2>3
<1>10. ASSUME Count <= Power[Width], NEW i \in Ids
       PROVE  FilesInOrder[i + 1] = i
  <2>1. Power[Width] \in Nat
    BY NamesAssumption, PowerType
  <2>2. \A x, y \in S : x \in P[y] <=> x < y
    <3>. SUFFICES ASSUME NEW x \in S, NEW y \in S
                  PROVE  NameBefore(x, y) <=> x < y
      BY <1>6
    <3>1. x \in Nat /\ y \in Nat /\ x < Power[Width] /\ y < Power[Width]
      BY <1>1, <1>2, <1>3, <1>10, <2>1
    <3>. QED
      BY <3>1, NamesFollowNumbers
  <2>3. i \in S /\ i \in Nat /\ i + 1 \in 1..n /\ (i + 1) - 1 = i
    BY <1>2, <1>3, <1>4
  <2>4. P[i] = 0..i - 1
    <3>1. P[i] \subseteq S
      BY <1>5, <2>3
    <3>2. \A x \in S : x \in P[i] <=> x \in 0..i - 1
      BY <1>2, <1>3, <2>2, <2>3
    <3>3. 0..i - 1 \subseteq S
      BY <1>2, <1>3, <2>3
    <3>. QED
      BY <3>1, <3>2, <3>3
  <2>5. Cardinality(P[i]) = i
    <3>1. i - 1 \in Int /\ (i - 1) - 0 + 1 = i
      BY <2>3
    <3>2. Cardinality(0..i - 1) = IF 0 <= i - 1 THEN (i - 1) - 0 + 1 ELSE 0
      BY <3>1, FS_Interval
    <3>. QED
      BY <2>3, <2>4, <3>1, <3>2
  <2>6. FilesInOrder[i + 1] \in S /\ Cardinality(P[FilesInOrder[i + 1]]) = i
    BY <1>8, <2>3
  <2>. QED
    BY <1>7, <2>3, <2>5, <2>6
<1>11. ASSUME ~(Count <= Power[Width])
       PROVE  \E i \in Ids : FilesInOrder[i + 1] # i
  <2>1. PICK p : p = Power[Width]
    OBVIOUS
  <2>2. p \in Nat /\ p - 1 \in Nat /\ NameBefore(p, p - 1)
    BY <2>1, NamesAssumption, PowerType, NamesOutgrowNumbers
  <2>3. p \in S /\ p - 1 \in S
    BY <1>1, <1>2, <1>3, <1>11, <2>1, <2>2
  <2>4. Cardinality(P[p]) < Cardinality(P[p - 1])
    BY <1>6, <1>7, <2>2, <2>3
  <2>5. ASSUME \A i \in S : FilesInOrder[i + 1] = i
        PROVE  FALSE
    <3>1. p + 1 \in 1..n /\ (p - 1) + 1 \in 1..n /\ (p + 1) - 1 = p /\ ((p - 1) + 1) - 1 = p - 1
      BY <1>2, <1>3, <2>2, <2>3
    <3>2. FilesInOrder[p + 1] = p /\ FilesInOrder[(p - 1) + 1] = p - 1
      BY <2>3, <2>5
    <3>3. Cardinality(P[p]) = p /\ Cardinality(P[p - 1]) = p - 1
      BY <1>8, <3>1, <3>2
    <3>. QED
      BY <2>2, <2>4, <3>3
  <2>. QED
    BY <1>4, <2>5
<1>. QED
  BY <1>9, <1>10, <1>11

-----------------------------------------------------------------------------
(* The plan *)

(* What a smart submission makes of the pieces.                             *)
SmartPlan ==
  LET gops == GopStats(Groups, source.offset)
  IN  PlanSegments(source, gops, PlanRanges(gops), config.mode, config.encoder,
                   Tolerance(gops, config.mode, config.tolerance))

(* Every piece has a descriptor with its range.                             *)
LEMMA DescribedFacts ==
  ASSUME SourceInv, NEW plan
  PROVE  /\ Len(Described(plan)) = Count
         /\ \A i \in 1..Count : /\ Described(plan)[i].from = Nominal[i].from
                                /\ Described(plan)[i].to = Nominal[i].to
                                /\ Described(plan)[i].copy = plan[i]
<1>1. Count \in Nat
  BY PiecesInTurn
<1>2. DOMAIN Described(plan) = 1..Count /\ Len(Described(plan)) = Count
  BY <1>1 DEF Described
<1>. QED
  BY <1>2 DEF Described

(* A group overlaps the range of a piece exactly if it is in it, when the   *)
(* cut falls where it was asked and every group lasts.                      *)
LEMMA OverlapIsInPiece ==
  ASSUME SourceInv, CutAsAsked, EveryGroupLasts,
         NEW k \in 1..Len(Groups), NEW i \in 1..Count
  PROVE  /\ Before(Groups, k) < Nominal[i].to
         /\ Before(Groups, k + 1) - 1 > Nominal[i].from
         <=> PieceOf[k] = i - 1
<1>1. PICK n : n = Len(Groups)
  OBVIOUS
<1>2. PICK B : B = [h \in 1..n |-> Before(Groups, h)]
  OBVIOUS
<1>3. PICK P : P = PieceOf
  OBVIOUS
<1>4. PICK b : b = Before(Groups, k + 1)
  OBVIOUS
<1>5. PICK d : d = Duration
  OBVIOUS
<1>6. /\ n \in Nat \ {0} /\ k \in 1..n /\ d \in Nat
      /\ \A h \in 1..n : B[h] \in Nat /\ B[h] = Before(Groups, h) /\ B[h] < d
      /\ \A h, j \in 1..n : h < j <=> B[h] < B[j]
  <2>1. n \in Nat \ {0} /\ \A h \in 1..n : B[h] = Before(Groups, h)
    BY <1>1, <1>2, GroupsFacts
  <2>2. /\ \A h \in 1..n : Before(Groups, h) \in Nat /\ Before(Groups, h) < Duration
        /\ \A j, h \in 1..n : j < h <=> Before(Groups, j) < Before(Groups, h)
        /\ Duration \in Nat
    BY <1>1, GroupsFacts
  <2>. QED
    BY <1>1, <1>5, <2>1, <2>2
<1>7. b \in Nat /\ b - 1 > B[k] /\ (k + 1 \in 1..n => b = B[k + 1])
  <2>1. Groups[k].frames \in Nat /\ Groups[k].frames > 1 /\ b = B[k] + Groups[k].frames
    BY <1>1, <1>4, <1>6, GroupsFacts DEF EveryGroupLasts
  <2>2. PICK m \in Nat : m = Groups[k].frames
    BY <2>1
  <2>3. b \in Nat /\ b - 1 > B[k]
    <3>1. B[k] \in Nat /\ m > 1 /\ b = B[k] + m
      BY <1>6, <2>1, <2>2
    <3>. QED
      BY <3>1
  <2>4. k + 1 \in 1..n => b = B[k + 1]
    BY <1>4, <1>6
  <2>. QED
    BY <2>3, <2>4
<1>8. /\ P[1] = 0
      /\ \A h \in 1..n : P[h] \in Ids /\ P[h] \in Nat
      /\ \A h, j \in 1..n : h <= j => P[h] <= P[j]
      /\ \A h \in 1..n : h + 1 \in 1..n =>
           P[h + 1] = IF B[h + 1] >= SegmentTime * (P[h] + 1) THEN P[h] + 1 ELSE P[h]
  <2>1. /\ P[1] = 0
        /\ \A h \in 1..n : P[h] \in Nat
        /\ \A h \in 1..n : h + 1 \in 1..n =>
             P[h + 1] = IF B[h + 1] >= SegmentTime * (P[h] + 1) THEN P[h] + 1 ELSE P[h]
    BY <1>1, <1>3, <1>6, PieceSteps
  <2>2. /\ \A h \in 1..n : P[h] \in Ids
        /\ \A h, j \in 1..n : h <= j => P[h] <= P[j]
    BY <1>1, <1>3, PiecesInTurn
  <2>. QED
    BY <2>1, <2>2
<1>9. /\ SegmentTime \in Nat \ {0}
      /\ \A h \in Nat : h * SegmentTime \in Nat /\ SegmentTime * h = h * SegmentTime
      /\ \A h \in Nat : (h + 1) * SegmentTime = h * SegmentTime + SegmentTime
      /\ \A h, j \in Nat : h < j <=> h * SegmentTime < j * SegmentTime
  BY CutTimes
<1>10. PICK from \in Nat, to \in Nat, full \in Nat :
         /\ from = Nominal[i].from /\ to = Nominal[i].to /\ full = i * SegmentTime
         /\ from = (i - 1) * SegmentTime /\ to <= full /\ (to = full \/ to = d)
  <2>1. i \in Nat /\ i * SegmentTime \in Nat
    BY <1>9, PiecesInTurn
  <2>. QED
    BY <1>5, <2>1, NominalFacts
<1>11. i \in Nat /\ i - 1 \in Nat /\ i - 1 \in Ids /\ (i - 1) + 1 = i
  BY PiecesInTurn DEF Ids
<1>12. ASSUME NEW h \in Ids
       PROVE  \E f \in 1..n : /\ P[f] = h /\ B[f] = h * SegmentTime
                              /\ \A j \in 1..n : P[j] = h => f <= j
  <2>1. Starts(h) = h * SegmentTime
    BY DEF CutAsAsked
  <2>2. PICK f \in 1..n : /\ P[f] = h /\ Starts(h) = Before(Groups, f)
                          /\ \A j \in 1..n : P[j] = h => f <= j
    BY <1>1, <1>3, StartsFacts
  <2>. QED
    BY <1>6, <2>1, <2>2
<1>13. PICK f \in 1..n : P[f] = i - 1 /\ B[f] = from /\ \A j \in 1..n : P[j] = i - 1 => f <= j
  BY <1>10, <1>11, <1>12
<1>. SUFFICES B[k] < to /\ b - 1 > from <=> P[k] = i - 1
  <2>1. /\ Before(Groups, k) = B[k] /\ Before(Groups, k + 1) = b /\ PieceOf = P
        /\ Nominal[i].from = from /\ Nominal[i].to = to
    BY <1>3, <1>4, <1>6, <1>10
  <2>. QED
    BY <2>1
<1>14. CASE P[k] = i - 1
  <2>1. B[f] <= B[k]
    <3>1. f <= k
      BY <1>6, <1>13, <1>14
    <3>. QED
      BY <1>6, <3>1
  <2>2. B[k] < full
    <3>1. CASE k = f
      BY <1>9, <1>10, <1>11, <1>13, <3>1
    <3>2. CASE k # f
      <4>1. PICK j \in 1..n : j + 1 = k
        <5>1. f <= k /\ k - 1 \in 1..n /\ (k - 1) + 1 = k
          BY <1>6, <1>13, <1>14, <3>2
        <5>. QED
          BY <5>1
      <4>2. P[j] = i - 1
        <5>1. f <= j /\ j <= k
          BY <1>6, <1>13, <1>14, <3>2, <4>1
        <5>2. P[f] <= P[j] /\ P[j] <= P[k] /\ P[j] \in Nat
          BY <1>6, <1>8, <5>1
        <5>. QED
          BY <1>11, <1>13, <1>14, <5>2
      <4>3. ~(B[k] >= SegmentTime * (P[j] + 1))
        BY <1>6, <1>8, <1>11, <1>14, <4>1, <4>2
      <4>4. SegmentTime * (P[j] + 1) = full
        BY <1>9, <1>10, <1>11, <4>2
      <4>. QED
        BY <1>6, <4>3, <4>4
    <3>. QED
      BY <3>1, <3>2
  <2>3. B[k] < to /\ b - 1 > from
    BY <1>6, <1>7, <1>10, <1>13, <2>1, <2>2
  <2>. QED
    BY <1>14, <2>3
<1>15. CASE P[k] # i - 1
  <2>1. CASE P[k] < i - 1
    <3>1. k < f /\ k + 1 \in 1..n
      <4>1. ~(f <= k)
        BY <1>6, <1>8, <1>11, <1>13, <2>1
      <4>. QED
        BY <1>6, <4>1
    <3>2. b <= B[f]
      <4>1. ~(f < k + 1) /\ b = B[k + 1]
        BY <1>6, <1>7, <3>1
      <4>2. ~(B[f] < B[k + 1]) /\ B[k + 1] \in Nat /\ B[f] \in Nat
        BY <1>6, <3>1, <4>1
      <4>. QED
        BY <4>1, <4>2
    <3>3. ~(b - 1 > from)
      BY <1>7, <1>13, <3>2
    <3>. QED
      BY <1>15, <3>3
  <2>2. CASE P[k] > i - 1
    <3>1. PICK h \in 1..n : /\ P[h] = P[k] /\ B[h] = P[k] * SegmentTime
                            /\ \A j \in 1..n : P[j] = P[k] => h <= j
      BY <1>6, <1>8, <1>12
    <3>2. h <= k /\ i <= P[k] /\ P[k] \in Nat
      BY <1>6, <1>8, <1>11, <2>2, <3>1
    <3>3. B[h] <= B[k] /\ full <= P[k] * SegmentTime /\ P[k] * SegmentTime \in Nat
      <4>1. ~(k < h) /\ ~(P[k] < i)
        BY <1>6, <1>11, <3>2
      <4>2. ~(B[k] < B[h]) /\ ~(P[k] * SegmentTime < full)
        BY <1>6, <1>9, <1>10, <1>11, <3>2, <4>1
      <4>3. PICK t : t = P[k] * SegmentTime
        OBVIOUS
      <4>4. B[k] \in Nat /\ B[h] \in Nat /\ t \in Nat /\ full \in Nat
        BY <1>6, <1>9, <3>2, <4>3
      <4>. QED
        BY <4>2, <4>3, <4>4
    <3>4. ~(B[k] < to)
      <4>1. PICK t \in Nat : t = P[k] * SegmentTime
        BY <3>3
      <4>2. t <= B[k] /\ full <= t /\ to <= full /\ B[k] \in Nat
        BY <1>6, <1>10, <3>1, <3>3, <4>1
      <4>. QED
        BY <4>2
    <3>. QED
      BY <1>15, <3>4
  <2>. QED
    BY <1>6, <1>8, <1>11, <1>15, <2>1, <2>2
<1>. QED
  BY <1>14, <1>15

(* The groups a smart plan looks at are those of the piece.                 *)
LEMMA OverlapIsPiece ==
  ASSUME SourceInv, CutAsAsked, EveryGroupLasts, source.offset = 0,
         NEW gops, gops = GopStats(Groups, source.offset), NEW i \in 1..Count
  PROVE  Overlapping(gops, PlanRanges(gops)[i]) =
           At(gops, { k \in 1..Len(Groups) : PieceOf[k] = i - 1 })
<1>1. /\ Len(Groups) \in Nat \ {0} /\ Before(Groups, 1) = 0
      /\ \A k \in 1..Len(Groups) : Before(Groups, k) \in Nat
      /\ \A k \in 1..Len(Groups) :
           Before(Groups, k + 1) = Before(Groups, k) + Groups[k].frames
      /\ \A k \in 1..Len(Groups) : Groups[k].frames \in Nat
  BY GroupsFacts
<1>2. Len(gops) = Len(Groups)
  BY <1>1 DEF GopStats
<1>3. ASSUME NEW k \in 1..Len(Groups)
      PROVE  gops[k].from = Before(Groups, k) /\ gops[k].to = Before(Groups, k + 1) - 1
  <2>1. PICK b \in Nat, m \in Nat : b = Before(Groups, k) /\ m = Groups[k].frames
    BY <1>1
  <2>2. gops[k].to = source.offset + (b + m - 1)
    BY <2>1 DEF GopStats
  <2>3. gops[k].from = IF k = 1 THEN 0 ELSE source.offset + b
    BY <2>1 DEF GopStats
  <2>4. gops[k].to = b + m - 1
    BY <2>1, <2>2
  <2>5. gops[k].from = b
    BY <1>1, <2>1, <2>3
  <2>. QED
    BY <1>1, <2>1, <2>4, <2>5
<1>4. PICK r : r = PlanRanges(gops)[i]
  OBVIOUS
<1>5. r.from = Nominal[i].from /\ r.to = Nominal[i].to
  <2>1. gops[1].from = 0
    BY <1>1, <1>3
  <2>2. Nominal[i].from \in Nat /\ Nominal[i].to \in Nat
    BY NominalFacts
  <2>3. r.from = Nominal[i].from + gops[1].from /\ r.to = Nominal[i].to + gops[1].from
    BY <1>4 DEF PlanRanges
  <2>. QED
    BY <2>1, <2>2, <2>3
<1>6. ASSUME NEW k \in 1..Len(Groups)
      PROVE  gops[k].from < r.to /\ gops[k].to > r.from <=> PieceOf[k] = i - 1
  BY <1>3, <1>5, OverlapIsInPiece
<1>7. { k \in 1..Len(gops) : gops[k].from < r.to /\ gops[k].to > r.from } =
      { k \in 1..Len(Groups) : PieceOf[k] = i - 1 }
  BY <1>2, <1>6
<1>. QED
  BY <1>4, <1>7 DEF Overlapping

-----------------------------------------------------------------------------
(* The shapes of the files and books *)

Content == [piece : Ids \union {-1}, how : {"none", "part", "source", "copy", "encode"}]
Assigned == [at : {"write", "upload", "sent", "failed", "over"},
             node : Nodes, seg : Ids, copy : BOOLEAN]
Stages == {"none", "fetch", "join", "uploaded", "broken", "done", "failed"}
Messages == {"accepted", "refused", "output", "complete", "failed"}

(* The objects, files, attempts and books of a job have their shapes; what  *)
(* is being fetched is not complete yet.                                    *)
Shapes ==
  /\ phase \in {"new", "upload", "ready", "refused", "crashed"}
  /\ uploaded \in 0..Count
  /\ store \in [{"input", "output"} \X Ids -> Content]
  /\ tmp \in [Nodes \X Ids \X {"in", "out"} -> Content]
  /\ runs \in [Attempts -> Assigned \union {[at |-> "idle"]}]
  /\ uris \in SUBSET Ids /\ failed \in SUBSET Ids
  /\ joined \in [stage : Stages, parts : Seq(Content)]
  /\ Len(joined.parts) <= Count /\ (joined.stage = "fetch" => Len(joined.parts) < Count)
  /\ joined.stage = "none" => joined.parts = <<>>
  /\ told \in Seq(Messages)

(* A step of the master or of a node.                                       *)
FilesStep == CutSource \/ FilesNext

(* The request is never changed.                                            *)
LEMMA SourceStays ==
  ASSUME FilesStep
  PROVE  source' = source /\ config' = config /\ tries' = tries
BY DEF FilesStep, FilesNext, CutSource, UploadPiece, Describe, Assign, WorkerEnds, Upload, RunFails,
       Recorded, Reported, FetchPart, Join, PollAssembly, planVars

(* Nor are the pieces of the source.                                        *)
LEMMA PiecesStay ==
  ASSUME source' = source, tries' = tries
  PROVE  /\ Groups' = Groups /\ Count' = Count /\ Ids' = Ids /\ Attempts' = Attempts
         /\ Content' = Content /\ Assigned' = Assigned /\ FilesInOrder' = FilesInOrder
         /\ Nominal' = Nominal
<1>1. Groups' = Groups /\ Attempts' = Attempts /\ Duration' = Duration
  BY DEF Groups, Attempts, Duration
<1>2. PieceOf' = PieceOf
  BY <1>1 DEF PieceOf
<1>3. Count' = Count /\ Ids' = Ids
  BY <1>1, <1>2 DEF Count, Ids
<1>. QED
  BY <1>1, <1>3 DEF Content, Assigned, FilesInOrder, Nominal

(* The pieces uploaded so far, and the descriptors made of them.            *)
Planned ==
  /\ \A i \in 0..uploaded - 1 : store[<<"input", i>>] = Piece(FilesInOrder[i + 1])
  /\ phase # "ready" => descs = <<>>
  /\ phase = "ready" => /\ uploaded = Count
                        /\ \/ descs = Described(SmartPlan)
                           \/ Smart /\ descs = Described(EncodeAll)

(* A descriptor says whether to copy.                                       *)
LEMMA CopyOrNot ==
  ASSUME SourceInv, Planned, phase = "ready", NEW i \in Ids
  PROVE  descs[i + 1].copy \in BOOLEAN
<1>1. i + 1 \in 1..Count
  BY PiecesInTurn DEF Ids
<1>2. CASE descs = Described(EncodeAll)
  <2>1. EncodeAll[i + 1] = FALSE
    BY <1>1 DEF EncodeAll
  <2>2. Described(EncodeAll)[i + 1].copy = EncodeAll[i + 1]
    BY <1>1, DescribedFacts
  <2>. QED
    BY <1>2, <2>1, <2>2
<1>3. CASE descs = Described(SmartPlan)
  <2>1. PICK gops : gops = GopStats(Groups, source.offset)
    OBVIOUS
  <2>2. PICK ranges : ranges = PlanRanges(gops)
    OBVIOUS
  <2>3. DOMAIN ranges = 1..Count
    BY <2>2 DEF PlanRanges
  <2>4. SmartPlan[i + 1] \in BOOLEAN
    BY <1>1, <2>1, <2>2, <2>3 DEF SmartPlan, PlanSegments
  <2>. QED
    BY <1>1, <1>3, <2>4, DescribedFacts
<1>. QED
  BY <1>2, <1>3 DEF Planned

(* A content the steps put into a file.                                     *)
LEMMA Contents ==
  /\ Nothing \in Content /\ Part \in Content
  /\ \A i \in Ids : Piece(i) \in Content
  /\ \A c \in Content : \A copy : [piece |-> c.piece, how |-> IF copy THEN "copy" ELSE "encode"] \in Content
BY DEF Content, Nothing, Part, Piece

(* A new job has its shapes.                                                *)
LEMMA InitShapes ==
  ASSUME Init
  PROVE  SourceInv /\ Shapes
<1>1. SourceInv
  BY FilesAssumption DEF Init, SourceInv, Groups
<1>2. Count \in Nat \ {0}
  BY <1>1, PiecesInTurn
<1>3. /\ store \in [{"input", "output"} \X Ids -> Content]
      /\ tmp \in [Nodes \X Ids \X {"in", "out"} -> Content]
  BY Contents DEF Init
<1>4. runs \in [Attempts -> Assigned \union {[at |-> "idle"]}]
  BY DEF Init
<1>5. joined \in [stage : Stages, parts : Seq(Content)] /\ Len(joined.parts) = 0
  <2>1. <<>> \in Seq(Content) /\ Len(<<>>) = 0
    BY EmptySeq
  <2>. QED
    BY <2>1 DEF Init, Stages
<1>6. told \in Seq(Messages)
  BY EmptySeq DEF Init
<1>. QED
  BY <1>1, <1>2, <1>3, <1>4, <1>5, <1>6 DEF Init, Shapes

(* A message to the client is one of five.                                  *)
LEMMA TellShape ==
  ASSUME Shapes, NEW what \in Messages, Tell(what)
  PROVE  told' \in Seq(Messages)
BY AppendProperties DEF Shapes, Tell

(* What ends a job or goes on with it.                                      *)
LEMMA CheckShape ==
  ASSUME Shapes, NEW out, NEW bad, CheckJobCompletion(out, bad)
  PROVE  /\ joined' \in [stage : Stages, parts : Seq(Content)] /\ joined'.parts = joined.parts
         /\ joined'.stage = joined.stage \/ (joined.stage = "none" /\ joined'.stage \in {"failed", "fetch"})
         /\ joined'.stage # "none" \/ joined'.stage = joined.stage
         /\ told' \in Seq(Messages)
<1>1. {"failed", "complete"} \subseteq Messages
  BY DEF Messages
<1>2. told' \in Seq(Messages)
  BY <1>1, TellShape DEF Shapes, CheckJobCompletion
<1>3. joined \in [stage : Stages, parts : Seq(Content)] /\ {"failed", "fetch"} \subseteq Stages
  BY DEF Shapes, Stages
<1>. QED
  BY <1>2, <1>3 DEF CheckJobCompletion

(* An attempt goes on and stays the one it is.                              *)
LEMMA GotoFacts ==
  ASSUME Shapes, NEW a \in Attempts, runs[a].at # "idle",
         NEW at \in {"write", "upload", "sent", "failed", "over"}, Goto(a, at)
  PROVE  /\ runs[a] \in Assigned
         /\ runs' \in [Attempts -> Assigned \union {[at |-> "idle"]}]
         /\ runs'[a] \in Assigned
         /\ runs'[a].at = at /\ runs'[a].node = runs[a].node
         /\ runs'[a].seg = runs[a].seg /\ runs'[a].copy = runs[a].copy
         /\ \A b \in Attempts : b # a => runs'[b] = runs[b]
<1>1. runs \in [Attempts -> Assigned \union {[at |-> "idle"]}]
  BY DEF Shapes
<1>2. runs[a] \in Assigned
  BY <1>1
<1>3. PICK r : r = [runs[a] EXCEPT !.at = at]
  OBVIOUS
<1>4. /\ r \in Assigned /\ r.at = at /\ r.node = runs[a].node
      /\ r.seg = runs[a].seg /\ r.copy = runs[a].copy
  BY <1>2, <1>3 DEF Assigned
<1>5. runs' = [runs EXCEPT ![a] = r]
  BY <1>3 DEF Goto
<1>. QED
  BY <1>1, <1>2, <1>4, <1>5

(* What a new attempt finds, and where it starts.                           *)
Started(a, node, seg) ==
  /\ runs'[a].at = "write" /\ runs'[a].node = node /\ runs'[a].seg = seg
  /\ runs'[a].copy => descs[seg + 1].copy
  /\ \A b \in Attempts : b # a => runs'[b] = runs[b]
  /\ tmp'[<<node, seg, "in">>] = store[<<"input", seg>>]
  /\ \A n \in Nodes, s \in Ids, k \in {"in", "out"} :
       n # node \/ s # seg => tmp'[<<n, s, k>>] = tmp[<<n, s, k>>]

(* An assignment starts an attempt and leaves the others alone.             *)
LEMMA AssignFacts ==
  ASSUME SourceInv, Shapes, Planned, NEW a \in Attempts, NEW node \in Nodes, NEW seg \in Ids,
         Assign(a, node, seg)
  PROVE  /\ runs' \in [Attempts -> Assigned \union {[at |-> "idle"]}]
         /\ tmp' \in [Nodes \X Ids \X {"in", "out"} -> Content]
         /\ Started(a, node, seg)
<1>1. PICK copy \in {descs[seg + 1].copy, FALSE} :
        runs' = [runs EXCEPT ![a] = [at |-> "write", node |-> node, seg |-> seg, copy |-> copy]]
  BY DEF Assign
<1>2. copy \in BOOLEAN
  BY <1>1, CopyOrNot DEF Assign
<1>3. PICK r : r = [at |-> "write", node |-> node, seg |-> seg, copy |-> copy]
  OBVIOUS
<1>4. r \in Assigned /\ r.at = "write" /\ r.node = node /\ r.seg = seg /\ r.copy = copy
  BY <1>2, <1>3 DEF Assigned
<1>5. runs' = [runs EXCEPT ![a] = r] /\ runs \in [Attempts -> Assigned \union {[at |-> "idle"]}]
  BY <1>1, <1>3 DEF Shapes
<1>6. tmp \in [Nodes \X Ids \X {"in", "out"} -> Content] /\ store[<<"input", seg>>] \in Content
  BY DEF Shapes
<1>7. PICK f \in Nodes \X Ids \X {"in", "out"}, g \in Nodes \X Ids \X {"in", "out"} :
        f = <<node, seg, "in">> /\ g = <<node, seg, "out">>
  OBVIOUS
<1>8. tmp' = [tmp EXCEPT ![f] = store[<<"input", seg>>], ![g] = Part] /\ f # g
  BY <1>7 DEF Assign
<1>9. /\ tmp' \in [Nodes \X Ids \X {"in", "out"} -> Content]
      /\ tmp'[f] = store[<<"input", seg>>]
      /\ \A h \in Nodes \X Ids \X {"in", "out"} : h # f /\ h # g => tmp'[h] = tmp[h]
  BY <1>6, <1>8, Contents
<1>10. \A n \in Nodes, s \in Ids, k \in {"in", "out"} :
         n # node \/ s # seg => <<n, s, k>> # f /\ <<n, s, k>> # g
  BY <1>7
<1>11. /\ runs' \in [Attempts -> Assigned \union {[at |-> "idle"]}]
       /\ runs'[a] = r /\ \A b \in Attempts : b # a => runs'[b] = runs[b]
  BY <1>4, <1>5
<1>12. \A n \in Nodes, s \in Ids, k \in {"in", "out"} :
         n # node \/ s # seg => tmp'[<<n, s, k>>] = tmp[<<n, s, k>>]
  BY <1>9, <1>10
<1>13. r.copy => descs[seg + 1].copy
  BY <1>1, <1>4
<1>. QED
  BY <1>4, <1>7, <1>9, <1>11, <1>12, <1>13 DEF Started

(* A step leaves everything in its shape.                                   *)
LEMMA ShapesKept ==
  ASSUME SourceInv, Shapes, Planned, FilesStep
  PROVE  Shapes'
<1>1. /\ Count' = Count /\ Ids' = Ids /\ Attempts' = Attempts
      /\ Content' = Content /\ Assigned' = Assigned
      /\ Stages' = Stages /\ Messages' = Messages
  BY SourceStays, PiecesStay DEF Stages, Messages
<1>2. Count \in Nat \ {0}
  BY PiecesInTurn
<1>. USE DEF Shapes
<1>3. CASE CutSource
  <2>1. told' \in Seq(Messages)
    BY <1>3, TellShape DEF CutSource, Refuse, Messages
  <2>. QED
    BY <1>1, <1>3, <2>1 DEF CutSource, Refuse, runVars
<1>4. CASE UploadPiece
  <2>1. told' \in Seq(Messages)
    BY <1>4, TellShape DEF UploadPiece, Refuse, Messages
  <2>2. store' \in [{"input", "output"} \X Ids -> Content]
    <3>1. Piece(FilesInOrder[uploaded + 1]) \in Content
      BY <1>2, <1>4, FilesFollowNumbers, Contents DEF UploadPiece
    <3>. QED
      BY <1>4, <3>1 DEF UploadPiece
  <2>. QED
    BY <1>1, <1>2, <1>4, <2>1, <2>2 DEF UploadPiece, Refuse, runVars
<1>5. CASE Describe
  <2>1. told' \in Seq(Messages)
    BY <1>5, TellShape DEF Describe, Messages
  <2>. QED
    BY <1>1, <1>5, <2>1 DEF Describe, runVars
<1>6. CASE FetchPart
  <2>1. PICK c \in Content : c = store[<<"output", NextPart>>]
    <3>1. NextPart \in Ids
      BY <1>2, <1>6, LenProperties DEF FetchPart, NextPart, Ids
    <3>. QED
      BY <3>1
  <2>2. /\ Append(joined.parts, c) \in Seq(Content)
        /\ Len(Append(joined.parts, c)) = Len(joined.parts) + 1 /\ Len(joined.parts) \in Nat
    BY <2>1, AppendProperties, LenProperties
  <2>3. joined' = [joined EXCEPT !.parts = Append(joined.parts, c),
                                 !.stage = IF Len(joined.parts) + 1 = Count THEN "join" ELSE "fetch"]
    BY <1>6, <2>1 DEF FetchPart
  <2>4. /\ joined' \in [stage : Stages, parts : Seq(Content)]
        /\ joined'.stage \in {"join", "fetch"}
        /\ joined'.stage = "fetch" => Len(joined.parts) + 1 # Count
        /\ Len(joined'.parts) = Len(joined.parts) + 1
    BY <2>2, <2>3 DEF Stages
  <2>5. Len(joined'.parts) <= Count /\ (joined'.stage = "fetch" => Len(joined'.parts) < Count)
    BY <1>2, <1>6, <2>2, <2>4 DEF FetchPart
  <2>. QED
    BY <1>1, <1>6, <2>4, <2>5 DEF FetchPart, planVars, runVars
<1>7. CASE Join
  <2>1. /\ joined' \in [stage : Stages, parts : Seq(Content)]
        /\ joined'.stage \in {"uploaded", "broken"} /\ joined'.parts = joined.parts
    BY <1>7 DEF Join, Stages
  <2>. QED
    BY <1>1, <1>7, <2>1 DEF Join, planVars, runVars
<1>8. CASE PollAssembly
  <2>1. told' \in Seq(Messages)
    BY <1>8, TellShape DEF PollAssembly, Messages
  <2>2. /\ joined' \in [stage : Stages, parts : Seq(Content)]
        /\ joined'.stage \in {"done", "failed"} /\ joined'.parts = joined.parts
    BY <1>8 DEF PollAssembly, Stages
  <2>. QED
    BY <1>1, <1>8, <2>1, <2>2 DEF PollAssembly, planVars, runVars
<1>9. ASSUME NEW a \in Attempts, NEW node \in Nodes, NEW seg \in Ids, Assign(a, node, seg)
      PROVE  Shapes'
  <2>1. /\ runs' \in [Attempts -> Assigned \union {[at |-> "idle"]}]
        /\ tmp' \in [Nodes \X Ids \X {"in", "out"} -> Content]
    BY <1>9, AssignFacts
  <2>. QED
    BY <1>1, <1>9, <2>1 DEF Assign, planVars, bookVars
<1>10. ASSUME NEW a \in Attempts, WorkerEnds(a)
       PROVE  Shapes'
  <2>1. runs[a].at # "idle" /\ Goto(a, "upload")
    BY <1>10 DEF WorkerEnds
  <2>2. runs' \in [Attempts -> Assigned \union {[at |-> "idle"]}] /\ runs[a] \in Assigned
    BY <2>1, GotoFacts
  <2>3. tmp' \in [Nodes \X Ids \X {"in", "out"} -> Content]
    <3>1. File(a, "in") \in Nodes \X Ids \X {"in", "out"}
      BY <2>2 DEF Assigned, File
    <3>2. [piece |-> tmp[File(a, "in")].piece, how |-> IF runs[a].copy THEN "copy" ELSE "encode"] \in Content
      BY <3>1, Contents
    <3>. QED
      BY <1>10, <3>2 DEF WorkerEnds
  <2>. QED
    BY <1>1, <1>10, <2>2, <2>3 DEF WorkerEnds, planVars, bookVars
<1>11. ASSUME NEW a \in Attempts, Upload(a)
       PROVE  Shapes'
  <2>1. runs[a].at # "idle" /\ Goto(a, "sent")
    BY <1>11 DEF Upload
  <2>2. runs' \in [Attempts -> Assigned \union {[at |-> "idle"]}] /\ runs[a] \in Assigned
    BY <2>1, GotoFacts
  <2>3. store' \in [{"input", "output"} \X Ids -> Content]
    <3>1. File(a, "out") \in Nodes \X Ids \X {"in", "out"}
      BY <2>2 DEF Assigned, File
    <3>2. tmp[File(a, "out")] \in Content
      BY <3>1
    <3>. QED
      BY <1>11, <3>2 DEF Upload
  <2>. QED
    BY <1>1, <1>11, <2>2, <2>3 DEF Upload, planVars, bookVars
<1>12. ASSUME NEW a \in Attempts, RunFails(a)
       PROVE  Shapes'
  <2>1. runs[a].at # "idle" /\ Goto(a, "failed")
    BY <1>12 DEF RunFails, AtWork
  <2>2. runs' \in [Attempts -> Assigned \union {[at |-> "idle"]}]
    BY <2>1, GotoFacts
  <2>. QED
    BY <1>1, <1>12, <2>2 DEF RunFails, planVars, bookVars
<1>13. ASSUME NEW a \in Attempts, Recorded(a) \/ Reported(a)
       PROVE  Shapes'
  <2>1. runs[a].at # "idle" /\ Goto(a, "over")
    BY <1>13 DEF Recorded, Reported
  <2>2. runs' \in [Attempts -> Assigned \union {[at |-> "idle"]}] /\ runs[a].seg \in Ids
    BY <2>1, GotoFacts DEF Assigned
  <2>3. CheckJobCompletion(uris', failed')
    BY <1>13 DEF Recorded, Reported
  <2>4. /\ joined' \in [stage : Stages, parts : Seq(Content)] /\ joined'.parts = joined.parts
        /\ joined'.stage = joined.stage \/ (joined.stage = "none" /\ joined'.stage \in {"failed", "fetch"})
        /\ told' \in Seq(Messages)
    BY <2>3, CheckShape
  <2>5. /\ Len(joined'.parts) <= Count /\ (joined'.stage = "fetch" => Len(joined'.parts) < Count)
        /\ joined'.stage = "none" => joined'.parts = <<>>
    <3>1. Len(<<>>) = 0
      BY EmptySeq
    <3>. QED
      BY <1>2, <2>4, <3>1
  <2>6. uris' \in SUBSET Ids /\ failed' \in SUBSET Ids
    BY <1>13, <2>2 DEF Recorded, Reported
  <2>7. UNCHANGED <<planVars, store, tmp>>
    BY <1>13 DEF Recorded, Reported
  <2>. QED
    BY <1>1, <2>2, <2>4, <2>5, <2>6, <2>7 DEF planVars
<1>. QED
  BY <1>3, <1>4, <1>5, <1>6, <1>7, <1>8, <1>9, <1>10, <1>11, <1>12, <1>13 DEF FilesStep, FilesNext

-----------------------------------------------------------------------------
(* The books of the master *)

(* The pieces uploaded and their descriptors are those of the plan.         *)
LEMMA PlannedKept ==
  ASSUME SourceInv, Shapes, Planned, FilesStep
  PROVE  Planned'
<1>1. source' = source /\ config' = config /\ tries' = tries
  BY SourceStays
<1>2. /\ Count' = Count /\ Ids' = Ids /\ FilesInOrder' = FilesInOrder /\ Nominal' = Nominal
      /\ Groups' = Groups
  BY <1>1, PiecesStay
<1>3. SmartPlan' = SmartPlan /\ EncodeAll' = EncodeAll /\ Smart' = Smart
  BY <1>1, <1>2 DEF SmartPlan, EncodeAll, PlanRanges, Smart
<1>4. Described(SmartPlan)' = Described(SmartPlan) /\ Described(EncodeAll)' = Described(EncodeAll)
  BY <1>2, <1>3 DEF Described
<1>5. Count \in Nat \ {0}
  BY PiecesInTurn
<1>6. CASE UploadPiece
  <2>1. \A i \in 0..uploaded - 1 : i \in Ids
    BY <1>5 DEF Shapes, Ids
  <2>2. CASE Refuse /\ UNCHANGED <<store, uploaded>>
    BY <1>2, <1>6, <2>2 DEF Planned, Refuse, UploadPiece
  <2>3. CASE /\ store' = [store EXCEPT ![<<"input", uploaded>>] = Piece(FilesInOrder[uploaded + 1])]
             /\ uploaded' = uploaded + 1 /\ UNCHANGED <<phase, told>>
    <3>1. uploaded \in Ids /\ uploaded \in Nat
      BY <1>5, <1>6 DEF UploadPiece, Shapes, Ids
    <3>2. /\ store'[<<"input", uploaded>>] = Piece(FilesInOrder[uploaded + 1])
          /\ \A i \in Ids : i # uploaded => store'[<<"input", i>>] = store[<<"input", i>>]
      BY <2>3, <3>1 DEF Shapes
    <3>3. \A i \in 0..(uploaded + 1) - 1 : i = uploaded \/ i \in 0..uploaded - 1
      BY <3>1
    <3>4. \A i \in 0..(uploaded + 1) - 1 : store'[<<"input", i>>] = Piece(FilesInOrder[i + 1])
      BY <2>1, <3>2, <3>3 DEF Planned
    <3>. QED
      BY <1>2, <1>6, <2>3, <3>4 DEF Planned, UploadPiece, Piece
  <2>. QED
    BY <1>6, <2>2, <2>3 DEF UploadPiece
<1>7. CASE Describe
  <2>1. UNCHANGED <<uploaded, store>> /\ uploaded = Count
    BY <1>7 DEF Describe
  <2>2. \/ phase' = "crashed" /\ descs' = descs
        \/ phase' = "ready" /\ descs' = Described(SmartPlan)
        \/ phase' = "ready" /\ Smart /\ descs' = Described(EncodeAll)
    BY <1>7 DEF Describe, SmartPlan
  <2>. QED
    BY <1>2, <1>3, <1>4, <1>7, <2>1, <2>2 DEF Planned, Describe, Piece
<1>8. CASE CutSource
  BY <1>2, <1>8 DEF CutSource, Refuse, Planned, Piece
<1>9. CASE FetchPart \/ Join \/ PollAssembly
  BY <1>2, <1>3, <1>4, <1>9 DEF FetchPart, Join, PollAssembly, planVars, Planned, Piece
<1>10. ASSUME NEW a \in Attempts, NEW node \in Nodes, NEW seg \in Ids, Assign(a, node, seg)
       PROVE  Planned'
  BY <1>2, <1>3, <1>4, <1>10 DEF Assign, planVars, Planned, Piece
<1>11. ASSUME NEW a \in Attempts, Upload(a)
       PROVE  Planned'
  <2>1. \A i \in Ids : store'[<<"input", i>>] = store[<<"input", i>>]
    <3>1. \A i \in Ids : <<"input", i>> # <<"output", runs[a].seg>>
      OBVIOUS
    <3>2. store' = [store EXCEPT ![<<"output", runs[a].seg>>] = tmp[File(a, "out")]]
      BY <1>11 DEF Upload
    <3>. QED
      BY <3>1, <3>2 DEF Shapes
  <2>2. UNCHANGED planVars
    BY <1>11 DEF Upload
  <2>3. \A i \in 0..uploaded - 1 : i \in Ids
    BY <1>5 DEF Shapes, Ids
  <2>. QED
    BY <1>2, <1>3, <1>4, <2>1, <2>2, <2>3 DEF planVars, Planned, Piece
<1>12. ASSUME NEW a \in Attempts, WorkerEnds(a) \/ RunFails(a) \/ Recorded(a) \/ Reported(a)
       PROVE  Planned'
  <2>1. UNCHANGED <<planVars, store>>
    BY <1>12 DEF WorkerEnds, RunFails, Recorded, Reported
  <2>. QED
    BY <1>2, <1>3, <1>4, <2>1 DEF planVars, Planned, Piece
<1>. QED
  BY <1>6, <1>7, <1>8, <1>9, <1>10, <1>11, <1>12 DEF FilesStep, FilesNext

(* Nothing is assigned, recorded or joined of a job that is not accepted.   *)
Quiet ==
  /\ \A a \in Attempts : runs[a].at = "idle"
  /\ uris = {} /\ failed = {} /\ joined.stage = "none"

(* What the master has told a client by each phase of the submission.       *)
Answered ==
  /\ phase \in {"new", "upload", "crashed"} => told = <<>>
  /\ phase = "refused" => Len(told) = 1 /\ told[1] = "refused"
  /\ phase = "ready" => told # <<>> /\ \A i \in 1..Len(told) : told[i] # "refused"
  /\ phase # "ready" => Quiet

(* A message comes after those that were sent before.                       *)
LEMMA TellFacts ==
  ASSUME Shapes, NEW what, Tell(what)
  PROVE  /\ Len(told) \in Nat /\ Len(told') = Len(told) + 1 /\ told' # <<>>
         /\ told'[Len(told) + 1] = what
         /\ \A i \in 1..Len(told) : told'[i] = told[i]
<1>1. told \in Seq(Messages \union {what}) /\ what \in Messages \union {what}
  BY DEF Shapes
<1>2. told' = Append(told, what)
  BY DEF Tell
<1>3. /\ Len(told) \in Nat /\ Len(told') = Len(told) + 1
      /\ told'[Len(told) + 1] = what
      /\ \A i \in 1..Len(told) : told'[i] = told[i]
  BY <1>1, <1>2, AppendProperties, LenProperties
<1>4. told' # <<>>
  <2>1. Len(<<>>) = 0
    BY EmptySeq
  <2>. QED
    BY <1>3, <2>1
<1>. QED
  BY <1>3, <1>4

(* A step of an attempt or of the joining is one of an accepted job, and    *)
(* refuses nothing.                                                         *)
LEMMA WorkIsAccepted ==
  ASSUME Shapes, Answered, FilesStep, ~CutSource, ~UploadPiece, ~Describe
  PROVE  /\ phase = "ready" /\ UNCHANGED planVars
         /\ told' = told \/ (\E what \in {"output", "complete", "failed"} : Tell(what))
<1>1. CASE FetchPart \/ Join \/ PollAssembly
  <2>1. phase = "ready"
    BY <1>1 DEF FetchPart, Join, PollAssembly, Answered, Quiet
  <2>. QED
    BY <1>1, <2>1 DEF FetchPart, Join, PollAssembly
<1>2. ASSUME NEW a \in Attempts, NEW node \in Nodes, NEW seg \in Ids, Assign(a, node, seg)
      PROVE  phase = "ready" /\ UNCHANGED planVars /\ told' = told
  BY <1>2 DEF Assign, bookVars
<1>3. ASSUME NEW a \in Attempts, WorkerEnds(a) \/ Upload(a) \/ RunFails(a)
      PROVE  phase = "ready" /\ UNCHANGED planVars /\ told' = told
  <2>1. runs[a].at # "idle"
    BY <1>3 DEF WorkerEnds, Upload, RunFails, AtWork
  <2>. QED
    BY <1>3, <2>1 DEF WorkerEnds, Upload, RunFails, bookVars, Answered, Quiet
<1>4. ASSUME NEW a \in Attempts, Recorded(a) \/ Reported(a)
      PROVE  /\ phase = "ready" /\ UNCHANGED planVars
             /\ told' = told \/ Tell("complete") \/ Tell("failed")
  <2>1. runs[a].at # "idle"
    BY <1>4 DEF Recorded, Reported
  <2>. QED
    BY <1>4, <2>1 DEF Recorded, Reported, CheckJobCompletion, Answered, Quiet
<1>. QED
  BY <1>1, <1>2, <1>3, <1>4 DEF FilesStep, FilesNext

(* Every step keeps the answers of the submission.                          *)
LEMMA AnsweredKept ==
  ASSUME SourceInv, Shapes, Answered, FilesStep
  PROVE  Answered'
<1>1. Attempts' = Attempts
  BY SourceStays, PiecesStay
<1>2. told = <<>> => Len(told) = 0
  BY EmptySeq
<1>3. CASE CutSource \/ UploadPiece
  <2>1. told = <<>> /\ Quiet /\ UNCHANGED <<runVars, uris, failed, joined>>
    BY <1>3 DEF CutSource, UploadPiece, Answered
  <2>2. Quiet'
    BY <1>1, <2>1 DEF Quiet, runVars
  <2>3. CASE Refuse
    <3>1. Len(told') = 1 /\ told'[1] = "refused" /\ phase' = "refused"
      BY <1>2, <2>1, <2>3, TellFacts DEF Refuse
    <3>. QED
      BY <2>2, <3>1 DEF Answered
  <2>4. CASE ~Refuse
    <3>1. told' = told /\ phase' = "upload"
      BY <1>3, <2>4 DEF CutSource, UploadPiece
    <3>. QED
      BY <2>1, <2>2, <3>1 DEF Answered
  <2>. QED
    BY <2>3, <2>4
<1>4. CASE Describe
  <2>1. told = <<>> /\ Quiet /\ UNCHANGED <<runVars, uris, failed, joined>>
    BY <1>4 DEF Describe, Answered
  <2>2. Quiet'
    BY <1>1, <2>1 DEF Quiet, runVars
  <2>3. \/ phase' = "crashed" /\ told' = told
        \/ phase' = "ready" /\ Tell("accepted")
    BY <1>4 DEF Describe
  <2>4. CASE phase' = "crashed" /\ told' = told
    BY <2>1, <2>2, <2>4 DEF Answered
  <2>5. CASE phase' = "ready" /\ Tell("accepted")
    <3>1. told' # <<>> /\ Len(told') = 1 /\ told'[1] = "accepted"
      BY <1>2, <2>1, <2>5, TellFacts
    <3>2. \A i \in 1..Len(told') : told'[i] # "refused"
      BY <3>1
    <3>. QED
      BY <2>5, <3>1, <3>2 DEF Answered
  <2>. QED
    BY <2>3, <2>4, <2>5
<1>5. CASE ~CutSource /\ ~UploadPiece /\ ~Describe
  <2>1. /\ phase = "ready" /\ phase' = "ready"
        /\ told' = told \/ (\E what \in {"output", "complete", "failed"} : Tell(what))
    BY <1>5, WorkIsAccepted DEF planVars
  <2>2. CASE told' = told
    BY <2>1, <2>2 DEF Answered
  <2>3. CASE \E what \in {"output", "complete", "failed"} : Tell(what)
    <3>1. PICK what \in {"output", "complete", "failed"} : Tell(what)
      BY <2>3
    <3>2. /\ Len(told) \in Nat /\ Len(told') = Len(told) + 1 /\ told' # <<>>
          /\ told'[Len(told) + 1] = what /\ what # "refused"
          /\ \A i \in 1..Len(told) : told'[i] = told[i]
      BY <3>1, TellFacts
    <3>3. \A i \in 1..Len(told') : told'[i] # "refused"
      <4>1. \A i \in 1..Len(told') : i \in 1..Len(told) \/ i = Len(told) + 1
        BY <3>2
      <4>. QED
        BY <2>1, <3>2, <4>1 DEF Answered
    <3>. QED
      BY <2>1, <3>2, <3>3 DEF Answered
  <2>. QED
    BY <2>1, <2>2, <2>3
<1>. QED
  BY <1>3, <1>4, <1>5

(* The messages that end a job for the client.                              *)
Ends == {"output", "complete", "failed"}

(* Joining begins when every segment has its output, and the job is said    *)
(* to be complete only then; an end is announced.                           *)
Booked ==
  /\ joined.stage \in {"fetch", "join", "uploaded", "done"} => uris = Ids
  /\ joined.stage \in {"join", "uploaded", "done"} => Len(joined.parts) = Count
  /\ \A i \in 1..Len(told) :
       /\ told[i] \in {"output", "complete"} => uris = Ids
       /\ told[i] = "output" => joined.stage = "done"
  /\ joined.stage \in {"done", "failed"} => \E i \in 1..Len(told) : told[i] \in Ends

(* As many outputs as pieces are those of all pieces.                       *)
LEMMA AllRecorded ==
  ASSUME SourceInv, NEW S \in SUBSET Ids, Cardinality(S) >= Count
  PROVE  S = Ids
<1>1. PICK n \in Nat \ {0} : n = Count
  BY PiecesInTurn
<1>2. IsFiniteSet(Ids) /\ Cardinality(Ids) = n
  <2>1. n - 1 \in Int /\ 0 \in Int /\ ~(0 > n - 1) /\ (n - 1) - 0 + 1 = n
    OBVIOUS
  <2>2. IsFiniteSet(0..n - 1) /\ Cardinality(0..n - 1) = IF 0 > n - 1 THEN 0 ELSE (n - 1) - 0 + 1
    BY <2>1, FS_Interval
  <2>. QED
    BY <1>1, <2>1, <2>2 DEF Ids
<1>3. Cardinality(S) <= Cardinality(Ids) /\ (Cardinality(S) = Cardinality(Ids) => S = Ids)
  BY <1>2, FS_Subset
<1>4. Cardinality(S) \in Nat
  BY <1>2, FS_Subset, FS_CardinalityType
<1>. QED
  BY <1>1, <1>2, <1>3, <1>4
(* A result decides about a job that it finishes.                           *)
LEMMA CheckDecides ==
  ASSUME SourceInv, Shapes, NEW out \in SUBSET Ids, NEW bad, CheckJobCompletion(out, bad)
  PROVE  \/ joined' = joined /\ told' = told
         \/ /\ Tell("failed") /\ joined'.parts = joined.parts
            /\ joined'.stage = IF joined.stage = "none" THEN "failed" ELSE joined.stage
         \/ /\ out = Ids /\ joined.stage = "none" /\ told' = told
            /\ joined'.stage = "fetch" /\ joined'.parts = joined.parts
         \/ out = Ids /\ joined' = joined /\ Tell("complete")
<1>1. PICK finished \in BOOLEAN : finished <=> Cardinality(out) + Cardinality(bad) >= Count
  OBVIOUS
<1>2. finished /\ bad = {} => out = Ids
  <2>1. IsFiniteSet(out) /\ Cardinality(out) \in Nat
    <3>1. Count - 1 \in Int /\ 0 \in Int
      BY PiecesInTurn
    <3>2. IsFiniteSet(Ids)
      BY <3>1, FS_Interval DEF Ids
    <3>. QED
      BY <3>2, FS_Subset, FS_CardinalityType
  <2>2. Cardinality({}) = 0
    BY FS_EmptySet
  <2>3. finished /\ bad = {} => Cardinality(out) >= Count
    BY <1>1, <2>1, <2>2
  <2>. QED
    BY <2>3, AllRecorded
<1>3. joined \in [stage : Stages, parts : Seq(Content)]
  BY DEF Shapes
<1>4. CASE ~finished
  BY <1>1, <1>4 DEF CheckJobCompletion
<1>5. CASE finished
  BY <1>1, <1>2, <1>3, <1>5 DEF CheckJobCompletion
<1>. QED
  BY <1>4, <1>5

(* The books stay true when a message is added and no output is lost.       *)
LEMMA BooksGrow ==
  ASSUME Shapes, Booked, Ids' = Ids, Count' = Count,
         uris = Ids => uris' = Ids,
         joined.stage = "done" => joined'.stage = "done",
         joined'.stage \in {"fetch", "join", "uploaded", "done"} => uris' = Ids,
         joined'.stage \in {"join", "uploaded", "done"} => Len(joined'.parts) = Count,
         \/ /\ told' = told
            /\ joined'.stage \in {"done", "failed"} => joined'.stage = joined.stage
         \/ Tell("failed")
         \/ Tell("complete") /\ uris' = Ids
         \/ Tell("output") /\ uris' = Ids /\ joined'.stage = "done"
  PROVE  Booked'
<1>1. \A i \in 1..Len(told) : /\ told[i] \in {"output", "complete"} => uris' = Ids
                              /\ told[i] = "output" => joined'.stage = "done"
  BY DEF Booked
<1>2. CASE told' = told /\ (joined'.stage \in {"done", "failed"} => joined'.stage = joined.stage)
  BY <1>1, <1>2 DEF Booked, Ends
<1>3. CASE \E what \in Ends : /\ Tell(what)
                              /\ what \in {"output", "complete"} => uris' = Ids
                              /\ what = "output" => joined'.stage = "done"
  <2>1. PICK what \in Ends : /\ Tell(what)
                             /\ what \in {"output", "complete"} => uris' = Ids
                             /\ what = "output" => joined'.stage = "done"
    BY <1>3
  <2>2. /\ Len(told) \in Nat /\ Len(told') = Len(told) + 1
        /\ told'[Len(told) + 1] = what
        /\ \A i \in 1..Len(told) : told'[i] = told[i]
    BY <2>1, TellFacts
  <2>3. \A i \in 1..Len(told') : i \in 1..Len(told) \/ i = Len(told) + 1
    BY <2>2
  <2>4. \A i \in 1..Len(told') : /\ told'[i] \in {"output", "complete"} => uris' = Ids
                                 /\ told'[i] = "output" => joined'.stage = "done"
    BY <1>1, <2>1, <2>2, <2>3
  <2>5. \E i \in 1..Len(told') : told'[i] \in Ends
    <3>1. Len(told) + 1 \in 1..Len(told')
      BY <2>2
    <3>. QED
      BY <2>2, <3>1
  <2>. QED
    BY <2>4, <2>5 DEF Booked, Ends
<1>. QED
  BY <1>2, <1>3 DEF Ends

(* Every step keeps the books.                                              *)
LEMMA BookedKept ==
  ASSUME SourceInv, Shapes, Answered, Booked, FilesStep
  PROVE  Booked'
<1>1. Ids' = Ids /\ Count' = Count /\ Count \in Nat \ {0}
  BY SourceStays, PiecesStay, PiecesInTurn
<1>2. CASE CutSource \/ UploadPiece \/ Describe
  <2>1. /\ phase # "ready" /\ UNCHANGED <<uris, joined>>
    BY <1>2 DEF CutSource, UploadPiece, Describe
  <2>2. uris = {} /\ joined.stage = "none"
    BY <2>1 DEF Answered, Quiet
  <2>3. \/ told' = told
        \/ \E what \in {"refused", "accepted"} : Tell(what)
    BY <1>2 DEF CutSource, UploadPiece, Describe, Refuse
  <2>4. told = <<>> /\ Len(<<>>) = 0
    BY <1>2, EmptySeq DEF CutSource, UploadPiece, Describe, Answered
  <2>5. \A i \in 1..Len(told') : told'[i] \notin Ends
    <3>1. CASE told' = told
      BY <2>4, <3>1
    <3>2. CASE \E what \in {"refused", "accepted"} : Tell(what)
      <4>1. PICK what \in {"refused", "accepted"} : Tell(what)
        BY <3>2
      <4>2. Len(told') = 1 /\ told'[1] = what
        BY <2>4, <4>1, TellFacts
      <4>. QED
        BY <4>2 DEF Ends
    <3>. QED
      BY <2>3, <3>1, <3>2
  <2>. QED
    BY <2>1, <2>2, <2>5 DEF Booked, Ends
<1>3. CASE FetchPart
  <2>1. uris' = uris /\ told' = told /\ uris = Ids /\ joined'.stage \in {"fetch", "join"}
        /\ joined.stage = "fetch"
    BY <1>3 DEF FetchPart, Booked, Shapes
  <2>2. joined'.stage = "join" => Len(joined'.parts) = Count
    <3>1. PICK c \in Content : c = store[<<"output", NextPart>>]
      <4>1. NextPart \in Ids
        BY <1>1, <1>3, LenProperties DEF FetchPart, NextPart, Ids, Shapes
      <4>. QED
        BY <4>1 DEF Shapes
    <3>2. joined' = [joined EXCEPT !.parts = Append(joined.parts, c),
                                   !.stage = IF Len(joined.parts) + 1 = Count THEN "join" ELSE "fetch"]
      BY <1>3, <3>1 DEF FetchPart
    <3>3. /\ joined'.parts = Append(joined.parts, c)
          /\ joined'.stage = "join" => Len(joined.parts) + 1 = Count
      BY <3>2 DEF Shapes
    <3>4. joined.parts \in Seq(Content)
      BY DEF Shapes
    <3>5. Len(Append(joined.parts, c)) = Len(joined.parts) + 1
      BY <3>1, <3>4, AppendProperties
    <3>. QED
      BY <3>3, <3>5
  <2>. QED
    BY <1>1, <2>1, <2>2, BooksGrow
<1>4. CASE Join
  <2>1. /\ joined'.stage \in {"uploaded", "broken"} /\ joined'.parts = joined.parts
        /\ joined.stage \in {"fetch", "join"} /\ (joined'.stage = "uploaded" => joined.stage = "join")
        /\ uris' = uris /\ told' = told
    BY <1>4 DEF Join, Shapes
  <2>. QED
    BY <1>1, <2>1, BooksGrow DEF Booked
<1>5. CASE PollAssembly
  <2>1. \/ /\ joined.stage = "uploaded" /\ joined'.stage = "done" /\ joined'.parts = joined.parts
           /\ Tell("output") /\ uris' = uris
        \/ joined.stage = "broken" /\ joined'.stage = "failed" /\ Tell("failed") /\ uris' = uris
    BY <1>5 DEF PollAssembly, Shapes
  <2>2. CASE /\ joined.stage = "uploaded" /\ joined'.stage = "done" /\ joined'.parts = joined.parts
             /\ Tell("output") /\ uris' = uris
    BY <1>1, <2>2, BooksGrow DEF Booked
  <2>3. CASE joined.stage = "broken" /\ joined'.stage = "failed" /\ Tell("failed") /\ uris' = uris
    BY <1>1, <2>3, BooksGrow DEF Booked
  <2>. QED
    BY <2>1, <2>2, <2>3
<1>6. ASSUME NEW a \in Attempts, Recorded(a) \/ Reported(a)
      PROVE  Booked'
  <2>1. runs[a].seg \in Ids
    BY <1>6, GotoFacts DEF Recorded, Reported, Assigned
  <2>2. uris' \in SUBSET Ids /\ (uris = Ids => uris' = Ids) /\ CheckJobCompletion(uris', failed')
    BY <1>6, <2>1 DEF Recorded, Reported, Shapes
  <2>3. \/ joined' = joined /\ told' = told
        \/ /\ Tell("failed") /\ joined'.parts = joined.parts
           /\ joined'.stage = IF joined.stage = "none" THEN "failed" ELSE joined.stage
        \/ /\ uris' = Ids /\ joined.stage = "none" /\ told' = told
           /\ joined'.stage = "fetch" /\ joined'.parts = joined.parts
        \/ uris' = Ids /\ joined' = joined /\ Tell("complete")
    BY <2>2, CheckDecides
  <2>4. CASE joined' = joined /\ told' = told
    BY <1>1, <2>2, <2>4, BooksGrow DEF Booked
  <2>5. CASE /\ Tell("failed") /\ joined'.parts = joined.parts
             /\ joined'.stage = IF joined.stage = "none" THEN "failed" ELSE joined.stage
    BY <1>1, <2>2, <2>5, BooksGrow DEF Booked
  <2>6. CASE /\ uris' = Ids /\ joined.stage = "none" /\ told' = told
             /\ joined'.stage = "fetch" /\ joined'.parts = joined.parts
    BY <1>1, <2>2, <2>6, BooksGrow DEF Booked
  <2>7. CASE uris' = Ids /\ joined' = joined /\ Tell("complete")
    BY <1>1, <2>2, <2>7, BooksGrow DEF Booked
  <2>. QED
    BY <2>3, <2>4, <2>5, <2>6, <2>7
<1>7. ASSUME NEW a \in Attempts,
             (\E node \in Nodes, seg \in Ids : Assign(a, node, seg))
               \/ WorkerEnds(a) \/ Upload(a) \/ RunFails(a)
      PROVE  Booked'
  <2>1. UNCHANGED bookVars
    BY <1>7 DEF Assign, WorkerEnds, Upload, RunFails
  <2>. QED
    BY <1>1, <2>1 DEF bookVars, Booked, Ends
<1>. QED
  BY <1>2, <1>3, <1>4, <1>5, <1>6, <1>7 DEF FilesStep, FilesNext
-----------------------------------------------------------------------------
(* What the web server hears *)

(* A step takes nothing back that the client was told or may fetch.         *)
LEMMA NothingTakenBack ==
  ASSUME SourceInv, Shapes, Answered, FilesStep
  PROVE  /\ Len(told) \in Nat /\ Len(told') \in Nat /\ Len(told) <= Len(told')
         /\ \A i \in 1..Len(told) : told'[i] = told[i]
         /\ uris = Ids => uris' = Ids'
         /\ joined.stage = "done" => joined'.stage = "done" /\ joined'.parts = joined.parts
<1>1. Ids' = Ids
  BY SourceStays, PiecesStay
<1>2. /\ Len(told) \in Nat /\ Len(told') \in Nat /\ Len(told) <= Len(told')
      /\ \A i \in 1..Len(told) : told'[i] = told[i]
  <2>1. told' = told \/ \E what : Tell(what)
    BY WorkIsAccepted DEF CutSource, UploadPiece, Describe, Refuse
  <2>2. Len(told) \in Nat
    BY LenProperties DEF Shapes
  <2>3. CASE \E what : Tell(what)
    BY <2>2, <2>3, TellFacts
  <2>. QED
    BY <2>1, <2>2, <2>3
<1>3. CASE \E a \in Attempts : Recorded(a) \/ Reported(a)
  <2>1. PICK a \in Attempts : Recorded(a) \/ Reported(a)
    BY <1>3
  <2>2. runs[a].seg \in Ids
    BY <2>1, GotoFacts DEF Recorded, Reported, Assigned
  <2>3. uris' \in SUBSET Ids /\ (uris = Ids => uris' = Ids) /\ CheckJobCompletion(uris', failed')
    BY <2>1, <2>2 DEF Recorded, Reported, Shapes
  <2>4. joined.stage = "done" => joined'.stage = "done" /\ joined'.parts = joined.parts
    BY <2>3, CheckDecides
  <2>. QED
    BY <1>1, <1>2, <2>3, <2>4
<1>4. CASE ~\E a \in Attempts : Recorded(a) \/ Reported(a)
  <2>1. uris' = uris /\ (joined.stage = "done" => joined' = joined)
    BY <1>4 DEF FilesStep, FilesNext, CutSource, UploadPiece, Describe, FetchPart, Join, PollAssembly,
                Assign, WorkerEnds, Upload, RunFails, bookVars
  <2>. QED
    BY <1>1, <1>2, <2>1
<1>. QED
  BY <1>3, <1>4

(* What the web server has heard is what it acts on: it fetches and offers  *)
(* only what was joined, and a job that runs for it is being submitted, has *)
(* an answer to come or was accepted, and no end behind it.                 *)
Heard ==
  /\ heard \in 0..Len(told)
  /\ status = "none" => heard = 0 /\ socket = "none" /\ ~waiting /\ ~offered /\ ~fetching
  /\ status = "complete" => uris = Ids
  /\ fetching => joined.stage = "done"
  /\ offered => joined.stage = "done" /\ (status # "deleted" => file = joined.parts)
  /\ status = "running" /\ socket # "broken" =>
       /\ socket = "open" \/ (socket = "none" /\ waiting)
       /\ waiting \/ heard > 0
       /\ \A i \in 1..heard : told[i] \notin Ends

(* What the master and the nodes do takes nothing from the web server.      *)
LEMMA HeardKeptByFiles ==
  ASSUME SourceInv, Shapes, Answered, Heard, FilesStep, UNCHANGED webVars
  PROVE  Heard'
<1>1. /\ Len(told) \in Nat /\ Len(told') \in Nat /\ Len(told) <= Len(told')
      /\ \A i \in 1..Len(told) : told'[i] = told[i]
      /\ uris = Ids => uris' = Ids'
      /\ joined.stage = "done" => joined'.stage = "done" /\ joined'.parts = joined.parts
  BY NothingTakenBack
<1>2. heard \in 0..Len(told') /\ \A i \in 1..heard : i \in 1..Len(told)
  BY <1>1 DEF Heard
<1>. QED
  BY <1>1, <1>2 DEF Heard, webVars, Ends

(* A message is handled in its turn.                                        *)
LEMMA HandleFacts ==
  ASSUME Shapes, Heard, Handle
  PROVE  /\ heard \in Nat /\ heard' = heard + 1 /\ heard + 1 \in 1..Len(told)
         /\ \A i \in 1..heard + 1 : i \in 1..heard \/ i = heard + 1
         /\ socket \in {"open", "closing"} /\ status # "none"
<1>1. Len(told) \in Nat
  BY LenProperties DEF Shapes
<1>. QED
  BY <1>1 DEF Handle, Heard

(* What the web server does itself keeps its view true.                     *)
LEMMA HeardKept ==
  ASSUME SourceInv, Shapes, Answered, Booked, Heard, WebNext
  PROVE  Heard'
<1>1. told' = told /\ uris' = uris /\ joined' = joined /\ Ids' = Ids
  <2>1. UNCHANGED filesVars
    BY DEF WebNext, Submit, UploadFails, Connect, Timeout, HearAccepted, HearRefused, HearComplete,
           HearFailed, Break, FetchEnds, Delete
  <2>2. source' = source /\ tries' = tries /\ told' = told /\ uris' = uris /\ joined' = joined
    BY <2>1 DEF filesVars, planVars, bookVars
  <2>. QED
    BY <2>2, PiecesStay
<1>2. CASE Submit \/ UploadFails \/ Connect
  BY <1>1, <1>2 DEF Submit, UploadFails, Connect, Become, Heard
<1>3. CASE Timeout
  BY <1>1, <1>3 DEF Timeout, Become, Heard
<1>4. CASE HearAccepted
  BY <1>1, <1>4, HandleFacts DEF HearAccepted, Message, Heard, Ends
<1>5. CASE HearRefused
  <2>1. /\ heard \in Nat /\ heard' = heard + 1 /\ heard + 1 \in 1..Len(told)
        /\ told[heard + 1] = "refused" /\ socket \in {"open", "closing"} /\ status # "none"
    BY <1>5, HandleFacts DEF HearRefused, Message
  <2>2. heard = 0
    <3>1. phase = "refused"
      <4>1. told # <<>>
        BY <2>1, EmptySeq
      <4>. QED
        BY <2>1, <4>1 DEF Answered, Shapes
    <3>2. Len(told) = 1
      BY <3>1 DEF Answered
    <3>3. heard + 1 \in 1..1
      BY <2>1, <3>2
    <3>. QED
      BY <2>1, <3>3
  <2>4. status = "running" => waiting
    BY <2>1, <2>2 DEF Heard
  <2>5. status' # "running" /\ (status' = "complete" => status = "complete") /\ status' # "none"
        /\ (status' # "deleted" => status # "deleted")
    BY <1>5, <2>1, <2>4 DEF HearRefused, Become
  <2>. QED
    BY <1>1, <1>5, <2>1, <2>5 DEF HearRefused, Heard
<1>6. CASE HearComplete
  <2>1. /\ heard \in Nat /\ heard' = heard + 1 /\ heard + 1 \in 1..Len(told)
        /\ told[heard + 1] \in {"output", "complete"} /\ status # "none"
        /\ status' = IF status = "deleted" THEN status ELSE "complete"
        /\ fetching' = (fetching \/ (told[heard + 1] = "output" /\ status # "deleted"))
        /\ UNCHANGED <<file, offered>>
    BY <1>6, HandleFacts DEF HearComplete, Message, Become
  <2>2. uris = Ids /\ (told[heard + 1] = "output" => joined.stage = "done")
    BY <2>1 DEF Booked
  <2>3. fetching' => joined.stage = "done"
    BY <2>1, <2>2 DEF Heard
  <2>4. offered => joined.stage = "done" /\ (status # "deleted" => file = joined.parts)
    BY DEF Heard
  <2>5. status' \notin {"none", "running"} /\ (status' # "deleted" => status # "deleted")
    BY <2>1
  <2>6. heard' \in 0..Len(told)
    BY <2>1
  <2>. QED
    BY <1>1, <2>1, <2>2, <2>3, <2>4, <2>5, <2>6 DEF Heard
<1>7. CASE HearFailed
  <2>1. /\ heard \in Nat /\ heard' = heard + 1 /\ heard + 1 \in 1..Len(told) /\ status # "none"
        /\ status' = IF status = "deleted" THEN status ELSE "error"
        /\ UNCHANGED <<file, offered, fetching>>
    BY <1>7, HandleFacts DEF HearFailed, Become
  <2>. QED
    BY <1>1, <2>1 DEF Heard
<1>8. CASE Break
  BY <1>1, <1>8 DEF Break, Become, Heard
<1>9. CASE FetchEnds
  BY <1>1, <1>9 DEF FetchEnds, Heard
<1>10. CASE Delete
  BY <1>1, <1>10 DEF Delete, Heard
<1>. QED
  BY <1>2, <1>3, <1>4, <1>5, <1>6, <1>7, <1>8, <1>9, <1>10 DEF WebNext
-----------------------------------------------------------------------------
(* What is in the objects *)

(* A piece, encoded, or copied as its descriptor says.                      *)
Sound(content, i) ==
  /\ content.piece = i
  /\ content.how = "encode" \/ (content.how = "copy" /\ descs[i + 1].copy)

(* Two attempts at a segment are not at work on one node.                   *)
Apart ==
  \A a, b \in Attempts :
    a # b /\ AtWork(a) /\ AtWork(b) => runs[a].node # runs[b].node \/ runs[a].seg # runs[b].seg

(* What an attempt reads, writes and has stored is its segment.             *)
OnItsSegment(a) ==
  /\ runs[a].at # "idle" /\ runs[a].copy => descs[runs[a].seg + 1].copy
  /\ runs[a].at = "write" => tmp[File(a, "in")].piece = runs[a].seg
  /\ runs[a].at = "upload" => Sound(tmp[File(a, "out")], runs[a].seg)
  /\ runs[a].at = "sent" => store[<<"output", runs[a].seg>>] # Nothing

(* So are the objects recorded and joined.                                  *)
OutputsTraced ==
  /\ \A i \in Ids : store[<<"output", i>>] = Nothing \/ Sound(store[<<"output", i>>], i)
  /\ phase # "ready" => \A i \in Ids : store[<<"output", i>>] = Nothing
  /\ \A i \in uris : store[<<"output", i>>] # Nothing
PartsTraced == \A i \in 1..Len(joined.parts) : Sound(joined.parts[i], i - 1)

Traced ==
  /\ Apart /\ \A a \in Attempts : OnItsSegment(a)
  /\ OutputsTraced /\ PartsTraced

(* The piece that is stored for a segment is the one of its number.         *)
LEMMA InputsInOrder ==
  ASSUME SourceInv, Planned, phase = "ready"
  PROVE  (\A i \in Ids : store[<<"input", i>>] = Piece(i)) <=> Count <= Power[Width]
<1>1. \A i \in Ids : i \in 0..uploaded - 1 /\ i + 1 \in 1..Count
  BY PiecesInTurn DEF Planned, Ids
<1>2. \A i \in Ids : store[<<"input", i>>] = Piece(FilesInOrder[i + 1])
  BY <1>1 DEF Planned
<1>3. \A i, j : Piece(i) = Piece(j) <=> i = j
  <2>. SUFFICES ASSUME NEW i, NEW j, Piece(i) = Piece(j)
                PROVE  i = j
    OBVIOUS
  <2>1. Piece(i).piece = i /\ Piece(j).piece = j
    BY DEF Piece
  <2>. QED
    BY <2>1
<1>4. (\A i \in Ids : store[<<"input", i>>] = Piece(i)) <=> (\A i \in Ids : FilesInOrder[i + 1] = i)
  BY <1>2, <1>3
<1>. QED
  BY <1>4, FilesFollowNumbers

(* A plan decides each segment by the groups of the piece stored for it.    *)
LEMMA PlanReads ==
  ASSUME SourceInv, Planned, phase = "ready", Count <= Power[Width],
         CutAsAsked, EveryGroupLasts, source.offset = 0
  PROVE  PieceDecides
<1>1. PICK gops : gops = GopStats(Groups, source.offset)
  OBVIOUS
<1>2. PICK tolerance : tolerance = Tolerance(gops, config.mode, config.tolerance)
  OBVIOUS
<1>3. ASSUME NEW i \in Ids
      PROVE  i + 1 \in 1..Count /\ (i + 1) - 1 = i
  BY PiecesInTurn DEF Ids
<1>4. ASSUME NEW i \in Ids
      PROVE  store[<<"input", i>>].piece = i
  <2>1. store[<<"input", i>>] = Piece(i)
    BY InputsInOrder
  <2>. QED
    BY <2>1 DEF Piece
<1>5. CASE Smart /\ descs = Described(EncodeAll)
  <2>1. ASSUME NEW i \in Ids
        PROVE  ~descs[i + 1].copy
    <3>1. descs[i + 1].copy = EncodeAll[i + 1]
      BY <1>3, <1>5, DescribedFacts
    <3>. QED
      BY <1>3, <3>1 DEF EncodeAll
  <2>. QED
    BY <1>5, <2>1 DEF PieceDecides
<1>6. CASE descs = Described(SmartPlan)
  <2>1. ASSUME NEW i \in Ids
        PROVE  descs[i + 1].copy <=>
                 \/ config.mode = "copy"
                 \/ /\ Smart /\ Blockers(source, config.encoder) = {}
                    /\ OnTarget(At(gops, { k \in 1..Len(Groups) :
                                             PieceOf[k] = store[<<"input", i>>].piece }), tolerance)
    <3>1. descs[i + 1].copy = SmartPlan[i + 1]
      BY <1>3, <1>6, DescribedFacts
    <3>2. DOMAIN PlanRanges(gops) = 1..Count
      BY DEF PlanRanges
    <3>3. PICK range : range = PlanRanges(gops)[i + 1]
      OBVIOUS
    <3>4. SmartPlan[i + 1] <=>
            \/ config.mode = "copy"
            \/ /\ Smart /\ Blockers(source, config.encoder) = {}
               /\ OnTarget(Overlapping(gops, range), tolerance)
      BY <1>1, <1>2, <1>3, <3>2, <3>3 DEF SmartPlan, PlanSegments, Smart
    <3>5. Overlapping(gops, range) =
            At(gops, { k \in 1..Len(Groups) : PieceOf[k] = (i + 1) - 1 })
      BY <1>1, <1>3, <3>3, OverlapIsPiece
    <3>6. (i + 1) - 1 = store[<<"input", i>>].piece
      BY <1>3, <1>4
    <3>. QED
      BY <3>1, <3>4, <3>5, <3>6
  <2>. QED
    BY <1>1, <1>2, <2>1 DEF PieceDecides
<1>. QED
  BY <1>5, <1>6 DEF Planned

(* A step of an attempt at work on one segment of a node leaves what the    *)
(* others have there alone.                                                 *)
LEMMA AssignTraced ==
  ASSUME SourceInv, Shapes, Planned, Traced, Count <= Power[Width],
         NEW a \in Attempts, NEW node \in Nodes, NEW seg \in Ids, Assign(a, node, seg), ~met'
  PROVE  Traced'
<1>1. Ids' = Ids /\ Attempts' = Attempts
  <2>1. source' = source /\ tries' = tries
    BY DEF Assign, planVars
  <2>. QED
    BY <2>1, PiecesStay
<1>2. UNCHANGED <<planVars, store, bookVars>> /\ phase = "ready"
  BY DEF Assign
<1>3. /\ runs'[a].at = "write" /\ runs'[a].node = node /\ runs'[a].seg = seg
      /\ runs'[a].copy => descs[seg + 1].copy
      /\ \A b \in Attempts : b # a => runs'[b] = runs[b]
      /\ tmp'[<<node, seg, "in">>] = store[<<"input", seg>>]
      /\ \A n \in Nodes, s \in Ids, k \in {"in", "out"} :
           n # node \/ s # seg => tmp'[<<n, s, k>>] = tmp[<<n, s, k>>]
  <2>1. Started(a, node, seg)
    BY AssignFacts
  <2>. QED
    BY <2>1 DEF Started
<1>4. ASSUME NEW b \in Attempts, AtWork(b)
      PROVE  /\ runs[b].node \in Nodes /\ runs[b].seg \in Ids
             /\ runs[b].node # node \/ runs[b].seg # seg
  <2>1. runs[b] \in Assigned
    BY <1>4 DEF Shapes, AtWork
  <2>2. ~(runs[b].node = node /\ runs[b].seg = seg)
    BY <1>4 DEF Assign
  <2>. QED
    BY <2>1, <2>2 DEF Assigned
<1>5. Apart'
  BY <1>1, <1>3, <1>4 DEF Apart, AtWork, Traced
<1>6. store[<<"input", seg>>].piece = seg
  <2>1. store[<<"input", seg>>] = Piece(seg)
    BY <1>2, InputsInOrder
  <2>. QED
    BY <2>1 DEF Piece
<1>7. OnItsSegment(a)'
  BY <1>2, <1>3, <1>6 DEF OnItsSegment, File, planVars
<1>8. ASSUME NEW b \in Attempts, b # a
      PROVE  OnItsSegment(b)'
  <2>1. runs'[b] = runs[b] /\ OnItsSegment(b)
    BY <1>3, <1>8 DEF Traced
  <2>2. runs[b].at \in {"write", "upload"} => \A k \in {"in", "out"} :
          tmp'[<<runs[b].node, runs[b].seg, k>>] = tmp[<<runs[b].node, runs[b].seg, k>>]
    BY <1>3, <1>4 DEF AtWork
  <2>. QED
    BY <1>2, <2>1, <2>2 DEF OnItsSegment, File, Sound, planVars
<1>9. OutputsTraced' /\ PartsTraced'
  BY <1>1, <1>2 DEF Traced, OutputsTraced, PartsTraced, Sound, planVars, bookVars, Nothing
<1>. QED
  BY <1>1, <1>5, <1>7, <1>8, <1>9 DEF Traced

(* An attempt that goes on works on its own piece.                          *)
LEMMA WorkTraced ==
  ASSUME SourceInv, Shapes, Answered, Planned, Traced,
         NEW a \in Attempts, WorkerEnds(a) \/ Upload(a) \/ RunFails(a)
  PROVE  Traced'
<1>1. PICK at \in {"upload", "sent", "failed"} : Goto(a, at)
  BY DEF WorkerEnds, Upload, RunFails
<1>2. /\ runs[a].at # "idle" /\ phase = "ready" /\ AtWork(a) /\ UNCHANGED <<planVars, bookVars>>
      /\ tries' = tries /\ source' = source
  BY DEF WorkerEnds, Upload, RunFails, AtWork, Answered, Quiet, planVars
<1>3. Ids' = Ids /\ Attempts' = Attempts
  BY <1>2, PiecesStay
<1>4. /\ runs[a] \in Assigned /\ runs'[a].at = at /\ runs'[a].node = runs[a].node
      /\ runs'[a].seg = runs[a].seg /\ runs'[a].copy = runs[a].copy
      /\ \A b \in Attempts : b # a => runs'[b] = runs[b]
  BY <1>1, <1>2, GotoFacts
<1>5. /\ runs[a].node \in Nodes /\ runs[a].seg \in Ids /\ runs[a].copy \in BOOLEAN
      /\ runs[a].seg \in Int
  <2>1. Ids \subseteq Int
    BY PiecesInTurn DEF Ids
  <2>. QED
    BY <1>4, <2>1 DEF Assigned
<1>6. Apart'
  BY <1>2, <1>3, <1>4 DEF Apart, AtWork, Traced
<1>7. ASSUME NEW b \in Attempts, b # a, AtWork(b), NEW k \in {"in", "out"}
      PROVE  File(b, k) \in Nodes \X Ids \X {"in", "out"} /\ File(b, k) # File(a, "out")
  <2>1. runs[b] \in Assigned
    BY <1>7 DEF Shapes, AtWork
  <2>2. runs[a].node # runs[b].node \/ runs[a].seg # runs[b].seg
    BY <1>2, <1>7 DEF Traced, Apart
  <2>. QED
    BY <2>1, <2>2 DEF File, Assigned
<1>8. PartsTraced'
  BY <1>2 DEF Traced, PartsTraced, Sound, planVars, bookVars
<1>9. CASE WorkerEnds(a)
  <2>1. at = "upload" /\ runs[a].at = "write" /\ store' = store
    BY <1>4, <1>9 DEF WorkerEnds, Goto, Shapes
  <2>2. PICK c : c = [piece |-> tmp[File(a, "in")].piece, how |-> IF runs[a].copy THEN "copy" ELSE "encode"]
    OBVIOUS
  <2>3. Sound(c, runs[a].seg)
    <3>1. c.piece = runs[a].seg /\ (runs[a].copy => descs[runs[a].seg + 1].copy)
      BY <2>1, <2>2 DEF Traced, OnItsSegment
    <3>. QED
      BY <2>2, <3>1 DEF Sound
  <2>4. tmp' = [tmp EXCEPT ![File(a, "out")] = c]
    BY <1>9, <2>2 DEF WorkerEnds
  <2>5. tmp'[File(a, "out")] = c
    <3>1. File(a, "out") \in Nodes \X Ids \X {"in", "out"}
      BY <1>5 DEF File
    <3>. QED
      BY <2>4, <3>1 DEF Shapes
  <2>6. OnItsSegment(a)'
    BY <1>2, <1>4, <2>1, <2>3, <2>5 DEF OnItsSegment, File, Sound, planVars, Traced
  <2>7. ASSUME NEW b \in Attempts, b # a
        PROVE  OnItsSegment(b)'
    <3>1. AtWork(b) => tmp'[File(b, "in")] = tmp[File(b, "in")] /\ tmp'[File(b, "out")] = tmp[File(b, "out")]
      BY <1>7, <2>4, <2>7 DEF Shapes
    <3>2. runs'[b] = runs[b] /\ OnItsSegment(b)
      BY <1>4, <2>7 DEF Traced
    <3>. QED
      BY <1>2, <2>1, <3>1, <3>2 DEF OnItsSegment, File, Sound, planVars, AtWork, Nothing
  <2>8. OutputsTraced'
    BY <1>2, <1>3, <2>1 DEF Traced, OutputsTraced, Sound, planVars, bookVars, Nothing
  <2>. QED
    BY <1>3, <1>6, <1>8, <2>6, <2>7, <2>8 DEF Traced
<1>10. CASE Upload(a)
  <2>1. at = "sent" /\ runs[a].at = "upload" /\ tmp' = tmp
    BY <1>4, <1>10 DEF Upload, Goto, Shapes
  <2>2. PICK c : c = tmp[File(a, "out")]
    OBVIOUS
  <2>3. Sound(c, runs[a].seg) /\ c # Nothing
    <3>1. Sound(c, runs[a].seg)
      BY <2>1, <2>2 DEF Traced, OnItsSegment
    <3>2. Nothing.piece = -1 /\ c.piece # -1
      BY <1>5, <3>1, PiecesInTurn DEF Nothing, Sound, Ids
    <3>. QED
      BY <3>1, <3>2
  <2>4. /\ store'[<<"output", runs[a].seg>>] = c
        /\ \A i \in Ids : i # runs[a].seg => store'[<<"output", i>>] = store[<<"output", i>>]
    <3>1. store' = [store EXCEPT ![<<"output", runs[a].seg>>] = c]
      BY <1>10, <2>2 DEF Upload
    <3>. QED
      BY <1>5, <3>1 DEF Shapes
  <2>5. OutputsTraced'
    <3>1. \A i \in Ids : store'[<<"output", i>>] = Nothing \/ Sound(store'[<<"output", i>>], i)
      BY <2>3, <2>4 DEF Traced, OutputsTraced
    <3>2. \A i \in uris : store'[<<"output", i>>] # Nothing
      BY <2>3, <2>4 DEF Traced, OutputsTraced, Shapes
    <3>. QED
      BY <1>2, <1>3, <3>1, <3>2 DEF OutputsTraced, Sound, planVars, bookVars, Nothing
  <2>6. OnItsSegment(a)'
    BY <1>2, <1>4, <2>1, <2>3, <2>4 DEF OnItsSegment, File, Sound, planVars, Traced, Nothing
  <2>7. ASSUME NEW b \in Attempts, b # a
        PROVE  OnItsSegment(b)'
    <3>1. runs'[b] = runs[b] /\ OnItsSegment(b)
      BY <1>4, <2>7 DEF Traced
    <3>2. runs[b].at = "sent" => store'[<<"output", runs[b].seg>>] # Nothing
      <4>1. runs[b].at = "sent" => runs[b].seg \in Ids
        BY DEF Shapes, Assigned
      <4>. QED
        BY <2>3, <2>4, <3>1, <4>1 DEF OnItsSegment
    <3>. QED
      BY <1>2, <2>1, <3>1, <3>2 DEF OnItsSegment, File, Sound, planVars, Nothing
  <2>. QED
    BY <1>3, <1>6, <1>8, <2>5, <2>6, <2>7 DEF Traced
<1>11. CASE RunFails(a)
  <2>1. at = "failed" /\ tmp' = tmp /\ store' = store
    BY <1>4, <1>11 DEF RunFails, Goto, Shapes
  <2>2. OnItsSegment(a)'
    BY <1>2, <1>4, <2>1 DEF OnItsSegment, File, Sound, planVars, Traced
  <2>3. ASSUME NEW b \in Attempts, b # a
        PROVE  OnItsSegment(b)'
    <3>1. runs'[b] = runs[b] /\ OnItsSegment(b)
      BY <1>4, <2>3 DEF Traced
    <3>. QED
      BY <1>2, <2>1, <3>1 DEF OnItsSegment, File, Sound, planVars, Nothing
  <2>4. OutputsTraced'
    BY <1>2, <1>3, <2>1 DEF Traced, OutputsTraced, Sound, planVars, bookVars, Nothing
  <2>. QED
    BY <1>3, <1>6, <1>8, <2>2, <2>3, <2>4 DEF Traced
<1>. QED
  BY <1>9, <1>10, <1>11
(* A result is recorded for an output that is there.                        *)
LEMMA ResultTraced ==
  ASSUME SourceInv, Shapes, Answered, Planned, Traced,
         NEW a \in Attempts, Recorded(a) \/ Reported(a)
  PROVE  Traced'
<1>1. /\ runs[a].at \in {"sent", "failed"} /\ Goto(a, "over")
      /\ UNCHANGED <<planVars, store, tmp>> /\ source' = source /\ tries' = tries
  BY DEF Recorded, Reported, planVars
<1>2. Ids' = Ids /\ Attempts' = Attempts
  BY <1>1, PiecesStay
<1>3. /\ runs[a] \in Assigned /\ runs'[a].at = "over" /\ runs'[a].node = runs[a].node
      /\ runs'[a].seg = runs[a].seg /\ runs'[a].copy = runs[a].copy
      /\ \A b \in Attempts : b # a => runs'[b] = runs[b]
  BY <1>1, GotoFacts
<1>4. joined'.parts = joined.parts
  <2>1. CheckJobCompletion(uris', failed')
    BY DEF Recorded, Reported
  <2>. QED
    BY <2>1, CheckShape
<1>5. Apart'
  BY <1>2, <1>3 DEF Apart, AtWork, Traced
<1>6. OnItsSegment(a)'
  BY <1>1, <1>3 DEF OnItsSegment, File, Sound, planVars, Traced
<1>7. ASSUME NEW b \in Attempts, b # a
      PROVE  OnItsSegment(b)'
  <2>1. runs'[b] = runs[b] /\ OnItsSegment(b)
    BY <1>3, <1>7 DEF Traced
  <2>. QED
    BY <1>1, <2>1 DEF OnItsSegment, File, Sound, planVars, Nothing
<1>8. \A i \in uris' : store[<<"output", i>>] # Nothing
  <2>1. uris' = uris \/ (runs[a].at = "sent" /\ uris' = uris \union {runs[a].seg})
    BY DEF Recorded, Reported
  <2>2. runs[a].at = "sent" => store[<<"output", runs[a].seg>>] # Nothing
    BY DEF Traced, OnItsSegment
  <2>. QED
    BY <2>1, <2>2 DEF Traced, OutputsTraced
<1>9. OutputsTraced' /\ PartsTraced'
  BY <1>1, <1>2, <1>4, <1>8 DEF Traced, OutputsTraced, PartsTraced, Sound, planVars, Nothing
<1>. QED
  BY <1>2, <1>5, <1>6, <1>7, <1>9 DEF Traced

(* What is fetched of the output of the next segment is sound.              *)
LEMMA FetchTraced ==
  ASSUME SourceInv, Shapes, Booked, Traced, FetchPart
  PROVE  PartsTraced'
<1>1. joined.stage = "fetch" /\ uris = Ids /\ UNCHANGED <<planVars, store>>
  BY DEF FetchPart, Booked
<1>2. /\ joined.parts \in Seq(Content) /\ Len(joined.parts) \in Nat /\ Len(joined.parts) < Count
  BY <1>1, LenProperties DEF Shapes
<1>3. NextPart = Len(joined.parts) /\ NextPart \in Ids
  BY <1>2, PiecesInTurn DEF NextPart, Ids
<1>4. PICK c \in Content : c = store[<<"output", NextPart>>]
  BY <1>3 DEF Shapes
<1>5. Sound(c, Len(joined.parts))
  BY <1>1, <1>3, <1>4 DEF Traced, OutputsTraced
<1>6. joined'.parts = Append(joined.parts, c)
  <2>1. joined' = [joined EXCEPT !.parts = Append(joined.parts, c),
                                 !.stage = IF Len(joined.parts) + 1 = Count THEN "join" ELSE "fetch"]
    BY <1>4 DEF FetchPart
  <2>. QED
    BY <2>1 DEF Shapes
<1>7. /\ Len(joined'.parts) = Len(joined.parts) + 1
      /\ joined'.parts[Len(joined.parts) + 1] = c
      /\ \A i \in 1..Len(joined.parts) : joined'.parts[i] = joined.parts[i]
  BY <1>2, <1>6, AppendProperties
<1>8. ASSUME NEW i \in 1..Len(joined'.parts)
      PROVE  Sound(joined'.parts[i], i - 1)
  <2>1. CASE i \in 1..Len(joined.parts)
    BY <1>7, <2>1 DEF Traced, PartsTraced
  <2>2. CASE i \notin 1..Len(joined.parts)
    <3>1. i = Len(joined.parts) + 1 /\ i - 1 = Len(joined.parts)
      BY <1>2, <1>7, <2>2
    <3>. QED
      BY <1>5, <1>7, <3>1
  <2>. QED
    BY <2>1, <2>2
<1>. QED
  BY <1>1, <1>8 DEF PartsTraced, Sound, planVars

(* As long as the numbers have not outgrown their digits and no two         *)
(* attempts have met, every step leaves every object what it should be.     *)
LEMMA TracedKept ==
  ASSUME SourceInv, Shapes, Answered, Planned, Booked, Traced, Count <= Power[Width],
         FilesStep, ~met'
  PROVE  Traced'
<1>1. /\ source' = source /\ tries' = tries
      /\ Ids' = Ids /\ Attempts' = Attempts
  BY SourceStays, PiecesStay
<1>2. CASE CutSource \/ UploadPiece \/ Describe
  <2>1. phase # "ready" /\ UNCHANGED <<runVars, uris, joined>>
    BY <1>2 DEF CutSource, UploadPiece, Describe
  <2>2. /\ \A b \in Attempts : runs[b].at = "idle"
        /\ uris = {} /\ joined.parts = <<>>
    BY <2>1 DEF Answered, Quiet, Shapes
  <2>3. \A i \in Ids : store'[<<"output", i>>] = store[<<"output", i>>]
    <3>1. \A i \in Ids : <<"output", i>> # <<"input", uploaded>>
      OBVIOUS
    <3>2. \/ store' = store
          \/ store' = [store EXCEPT ![<<"input", uploaded>>] = Piece(FilesInOrder[uploaded + 1])]
      BY <1>2 DEF CutSource, UploadPiece, Describe
    <3>. QED
      BY <3>1, <3>2 DEF Shapes
  <2>4. \A i \in Ids : store[<<"output", i>>] = Nothing
    BY <2>1 DEF Traced, OutputsTraced
  <2>5. Apart' /\ \A b \in Attempts : OnItsSegment(b)'
    BY <1>1, <2>1, <2>2 DEF Apart, AtWork, OnItsSegment, runVars
  <2>6. OutputsTraced'
    BY <1>1, <2>1, <2>2, <2>3, <2>4 DEF OutputsTraced, Nothing
  <2>7. PartsTraced'
    BY <2>1, <2>2, EmptySeq DEF PartsTraced
  <2>. QED
    BY <1>1, <2>5, <2>6, <2>7 DEF Traced
<1>3. CASE FetchPart \/ Join \/ PollAssembly
  <2>1. UNCHANGED <<planVars, store, runVars, uris>>
    BY <1>3 DEF FetchPart, Join, PollAssembly
  <2>2. PartsTraced'
    <3>1. CASE FetchPart
      BY <3>1, FetchTraced
    <3>2. CASE Join \/ PollAssembly
      <4>1. joined'.parts = joined.parts
        BY <3>2 DEF Join, PollAssembly, Shapes
      <4>. QED
        BY <2>1, <4>1 DEF Traced, PartsTraced, Sound, planVars
    <3>. QED
      BY <1>3, <3>1, <3>2
  <2>3. Apart' /\ \A b \in Attempts : OnItsSegment(b)'
    BY <1>1, <2>1 DEF Apart, AtWork, OnItsSegment, File, Sound, runVars, planVars, Nothing, Traced
  <2>4. OutputsTraced'
    BY <1>1, <2>1 DEF Traced, OutputsTraced, Sound, planVars, Nothing
  <2>. QED
    BY <1>1, <2>2, <2>3, <2>4 DEF Traced
<1>4. ASSUME NEW a \in Attempts,
             \/ \E node \in Nodes, seg \in Ids : Assign(a, node, seg)
             \/ WorkerEnds(a) \/ Upload(a) \/ RunFails(a) \/ Recorded(a) \/ Reported(a)
      PROVE  Traced'
  BY <1>4, AssignTraced, WorkTraced, ResultTraced
<1>. QED
  BY <1>2, <1>3, <1>4 DEF FilesStep, FilesNext

(* What is kept of the files of a job.                                      *)
FilesInv ==
  /\ SourceInv /\ Shapes /\ Answered /\ Planned /\ Booked
  /\ (~met /\ Count <= Power[Width]) => Traced

(* A new job satisfies the invariant of the files.                          *)
LEMMA FilesStart ==
  ASSUME Init
  PROVE  FilesInv
<1>1. SourceInv /\ Shapes
  BY InitShapes
<1>2. told = <<>> /\ Len(told) = 0 /\ phase = "new" /\ joined.stage = "none" /\ joined.parts = <<>>
      /\ uris = {} /\ descs = <<>> /\ uploaded = 0
  BY EmptySeq DEF Init
<1>3. \A a \in Attempts : runs[a].at = "idle"
  BY DEF Init
<1>4. Answered /\ Planned /\ Booked
  BY <1>2, <1>3 DEF Answered, Quiet, Planned, Booked, Init
<1>5. \A i \in Ids : store[<<"output", i>>] = Nothing
  BY DEF Init
<1>6. Traced
  BY <1>2, <1>3, <1>5 DEF Traced, Apart, AtWork, OnItsSegment, OutputsTraced, PartsTraced
<1>. QED
  BY <1>1, <1>4, <1>6 DEF FilesInv

(* Every step of the master or of a node keeps it.                          *)
LEMMA FilesKept ==
  ASSUME FilesInv, FilesStep
  PROVE  FilesInv'
<1>1. Count' = Count /\ (SourceInv' <=> SourceInv)
  BY SourceStays, PiecesStay DEF SourceInv
<1>2. met => met'
  <2>1. met' = met \/ \E a \in Attempts, node \in Nodes, seg \in Ids : Assign(a, node, seg)
    BY DEF FilesStep, FilesNext, CutSource, UploadPiece, Describe, FetchPart, Join, PollAssembly,
           WorkerEnds, Upload, RunFails, Recorded, Reported, runVars
  <2>. QED
    BY <2>1 DEF Assign
<1>3. Shapes' /\ Answered' /\ Planned' /\ Booked'
  BY ShapesKept, AnsweredKept, PlannedKept, BookedKept DEF FilesInv
<1>4. (~met' /\ Count' <= Power[Width]) => Traced'
  BY <1>1, <1>2, TracedKept DEF FilesInv
<1>. QED
  BY <1>1, <1>3, <1>4 DEF FilesInv
(* What the web server does leaves the files alone.                         *)
LEMMA FilesUntouched ==
  ASSUME FilesInv, UNCHANGED filesVars
  PROVE  FilesInv'
<1>1. /\ UNCHANGED <<source, config, tries, phase, uploaded, descs, store, tmp, runs, met>>
      /\ UNCHANGED <<uris, failed, joined, told>>
  BY DEF filesVars, planVars, runVars, bookVars
<1>2. /\ Groups' = Groups /\ Count' = Count /\ Ids' = Ids /\ Attempts' = Attempts
      /\ Content' = Content /\ Assigned' = Assigned /\ FilesInOrder' = FilesInOrder
      /\ Nominal' = Nominal
  BY <1>1, PiecesStay
<1>3. SourceInv' /\ Shapes'
  BY <1>1, <1>2 DEF FilesInv, SourceInv, Shapes, Stages, Messages
<1>4. Answered' /\ Booked'
  BY <1>1, <1>2 DEF FilesInv, Answered, Quiet, Booked, Ends
<1>5. Planned'
  <2>1. SmartPlan' = SmartPlan /\ EncodeAll' = EncodeAll /\ Smart' = Smart
    BY <1>1, <1>2 DEF SmartPlan, EncodeAll, PlanRanges, Smart
  <2>2. Described(SmartPlan)' = Described(SmartPlan) /\ Described(EncodeAll)' = Described(EncodeAll)
    BY <1>2, <2>1 DEF Described
  <2>. QED
    BY <1>1, <1>2, <2>1, <2>2 DEF FilesInv, Planned, Piece
<1>6. Traced => Traced'
  BY <1>1, <1>2 DEF Traced, Apart, AtWork, OnItsSegment, File, OutputsTraced, PartsTraced, Sound, Nothing
<1>. QED
  BY <1>1, <1>2, <1>3, <1>4, <1>5, <1>6 DEF FilesInv

(* Every step of the whole keeps both invariants.                           *)
LEMMA ClusterJobStep ==
  ASSUME FilesInv, Heard, [Next]_vars
  PROVE  FilesInv' /\ Heard'
<1>1. CASE FilesStep /\ UNCHANGED webVars
  BY <1>1, FilesKept, HeardKeptByFiles DEF FilesInv
<1>2. CASE WebNext
  <2>1. UNCHANGED filesVars
    BY <1>2 DEF WebNext, Submit, UploadFails, Connect, Timeout, HearAccepted, HearRefused, HearComplete,
                HearFailed, Break, FetchEnds, Delete
  <2>. QED
    BY <1>2, <2>1, FilesUntouched, HeardKept DEF FilesInv
<1>3. CASE UNCHANGED vars
  <2>1. UNCHANGED filesVars /\ UNCHANGED webVars
    BY <1>3 DEF vars
  <2>2. Ids' = Ids /\ told' = told /\ uris' = uris /\ joined' = joined
    <3>1. source' = source /\ tries' = tries /\ told' = told /\ uris' = uris /\ joined' = joined
      BY <2>1 DEF filesVars, planVars, bookVars
    <3>. QED
      BY <3>1, PiecesStay
  <2>3. Heard'
    BY <2>1, <2>2 DEF Heard, webVars, Ends
  <2>. QED
    BY <2>1, <2>3, FilesUntouched
<1>. QED
  BY <1>1, <1>2, <1>3 DEF Next, FilesStep

-----------------------------------------------------------------------------
(* Theorems *)

(* The inductive invariant of a cluster job: the submission, the pieces and *)
(* their plan, the attempts and their files, the books of the master, and   *)
(* what the web server has heard agree, whatever fails and in any order.    *)
THEOREM ClusterJobInvariant == Spec => [](FilesInv /\ Heard)
<1>1. WebInit => FilesInv /\ Heard
  <2>. SUFFICES ASSUME WebInit
                PROVE  FilesInv /\ Heard
    OBVIOUS
  <2>1. FilesInv
    BY FilesStart DEF WebInit
  <2>2. told = <<>> /\ Len(<<>>) = 0
    BY EmptySeq DEF WebInit, Init
  <2>3. Heard
    BY <2>2 DEF WebInit, Heard
  <2>. QED
    BY <2>1, <2>3
<1>2. FilesInv /\ Heard /\ [Next]_vars => (FilesInv /\ Heard)'
  BY ClusterJobStep
<1>. QED
  BY <1>1, <1>2, PTL DEF Spec

(* The phases, objects, books and messages of a job have their types, and   *)
(* no more parts are joined than there are pieces (segment_and_upload,      *)
(* spawn_worker, assemble_output).                                          *)
THEOREM FilesTypeCorrect == Spec => []FilesTypeOK
<1>1. FilesInv => FilesTypeOK
  <2>. SUFFICES ASSUME FilesInv
                PROVE  FilesTypeOK
    OBVIOUS
  <2>1. \A k \in DOMAIN store : store[k] \in Content
    BY DEF FilesInv, Shapes
  <2>2. told \in Seq({"accepted", "refused", "output", "complete", "failed"})
    BY DEF FilesInv, Shapes, Messages
  <2>. QED
    BY <2>1, <2>2 DEF FilesInv, Shapes, FilesTypeOK, Content, Stages
<1>. QED
  BY <1>1, ClusterJobInvariant, PTL

(* The object given out for a segment is the piece of its number exactly as *)
(* long as the numbers have not outgrown the three digits of seg_%03d, in   *)
(* which files are sorted by name.                                          *)
THEOREM PiecesKeepTheirOrder == Spec => []PiecesInOrder
<1>1. FilesInv => PiecesInOrder
  BY InputsInOrder DEF FilesInv, PiecesInOrder
<1>. QED
  BY <1>1, ClusterJobInvariant, PTL

(* No segment is given an empty range, or one that begins behind its piece, *)
(* whatever the key frames of the source are.                               *)
THEOREM RangesHaveFrames == Spec => []RangesAreNotEmpty
<1>1. FilesInv => RangesAreNotEmpty
  <2>. SUFFICES ASSUME FilesInv, NEW i \in 1..Len(descs)
                PROVE  descs[i].from < descs[i].to /\ descs[i].from <= Starts(i - 1)
    BY DEF RangesAreNotEmpty
  <2>1. SourceInv /\ Planned
    BY DEF FilesInv
  <2>2. descs # <<>>
    BY EmptySeq
  <2>3. PICK plan : descs = Described(plan)
    BY <2>1, <2>2 DEF Planned
  <2>4. i \in 1..Count /\ descs[i].from = Nominal[i].from /\ descs[i].to = Nominal[i].to
    BY <2>1, <2>3, DescribedFacts
  <2>. QED
    BY <2>1, <2>4, NominalFacts
<1>. QED
  BY <1>1, ClusterJobInvariant, PTL

(* A segment is copied exactly if the groups of the piece stored for it say *)
(* so, whatever their sizes and the mode, as long as the numbers fit their  *)
(* digits, the cut falls where it was asked and the source starts at zero   *)
(* (plan_segments on the ranges segment_and_upload hands it).               *)
THEOREM PlansReadTheirPieces == Spec => []PlanReadsItsPiece
<1>1. FilesInv => PlanReadsItsPiece
  BY PlanReads DEF FilesInv, PlanReadsItsPiece
<1>. QED
  BY <1>1, ClusterJobInvariant, PTL

(* The output joins every piece once, whole and in order, through failed,   *)
(* repeated and late attempts, unless two of them met on a node             *)
(* (assemble_output over the objects of spawn_worker).                      *)
THEOREM FinalComesOutWhole == Spec => []FinalIsWhole
<1>1. FilesInv => FinalIsWhole
  <2>. SUFFICES ASSUME FilesInv, joined.stage = "done", Count <= Power[Width], ~met
                PROVE  /\ Len(joined.parts) = Count
                       /\ \A i \in 1..Count : /\ joined.parts[i].piece = i - 1
                                              /\ joined.parts[i].how = "encode" \/ descs[i].copy
    BY DEF FinalIsWhole
  <2>1. Len(joined.parts) = Count /\ Count \in Nat
    BY PiecesInTurn DEF FilesInv, Booked
  <2>2. \A i \in 1..Count : Sound(joined.parts[i], i - 1) /\ (i - 1) + 1 = i
    BY <2>1 DEF FilesInv, Traced, PartsTraced
  <2>. QED
    BY <2>1, <2>2 DEF Sound
<1>. QED
  BY <1>1, ClusterJobInvariant, PTL

(* The web server shows a job complete only if every segment has its        *)
(* output, and offers no file that is not what the master joined            *)
(* (submitClusterJob, finalizeClusterJob).                                  *)
THEOREM CompletionIsTrue == Spec => []CompleteIsTrue
<1>1. Heard => CompleteIsTrue
  BY DEF Heard, CompleteIsTrue
<1>. QED
  BY <1>1, ClusterJobInvariant, PTL

(* A job that runs for the web server still has its end to come, unless the *)
(* connection broke (the on-message handler of submitClusterJob).           *)
THEOREM EndsAreHeard == Spec => []EndIsHeard
<1>1. FilesInv /\ Heard => EndIsHeard
  <2>. SUFFICES ASSUME FilesInv, Heard, status = "running", socket # "broken"
                PROVE  /\ socket = "open" \/ (socket = "none" /\ waiting)
                       /\ joined.stage \in {"done", "failed"} =>
                            \E i \in heard + 1..Len(told) : told[i] \in {"output", "complete", "failed"}
    BY DEF EndIsHeard
  <2>1. /\ socket = "open" \/ (socket = "none" /\ waiting)
        /\ heard \in Nat /\ \A i \in 1..heard : told[i] \notin Ends
    BY DEF Heard
  <2>2. ASSUME joined.stage \in {"done", "failed"}
        PROVE  \E i \in heard + 1..Len(told) : told[i] \in {"output", "complete", "failed"}
    <3>1. PICK i \in 1..Len(told) : told[i] \in Ends
      BY <2>2 DEF FilesInv, Booked
    <3>2. i \in heard + 1..Len(told)
      <4>1. i \notin 1..heard /\ Len(told) \in Nat
        BY <2>1, <3>1, LenProperties DEF FilesInv, Shapes
      <4>. QED
        BY <2>1, <4>1
    <3>. QED
      BY <3>1, <3>2 DEF Ends
  <2>. QED
    BY <2>1, <2>2
<1>. QED
  BY <1>1, ClusterJobInvariant, PTL
=============================================================================
