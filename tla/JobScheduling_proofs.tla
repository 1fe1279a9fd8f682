------------------------ MODULE JobScheduling_proofs ------------------------
(***************************************************************************)
(* Theorems about JobScheduling, for every set of workers, jobs and        *)
(* segments, every capacity and every bound on faults.                     *)
(***************************************************************************)
EXTENDS JobScheduling, TLAPS, FiniteSetTheorems, SequenceTheorems

-----------------------------------------------------------------------------
(* The data the model is built from *)

(* Segments, and any set of them, are finite. *)
LEMMA SegmentSets ==
  /\ Cardinality(Segs) \in Nat
  /\ \A S \in SUBSET Segs :
       /\ IsFiniteSet(S) /\ Cardinality(S) \in Nat
       /\ Cardinality(S) <= Cardinality(Segs)
       /\ Cardinality(S) = Cardinality(Segs) => S = Segs
<1>1. IsFiniteSet(Segs)
  BY ConstAssumption
<1>2. Cardinality(Segs) \in Nat
  BY <1>1, FS_CardinalityType
<1>3. ASSUME NEW S \in SUBSET Segs
      PROVE  /\ IsFiniteSet(S) /\ Cardinality(S) \in Nat
             /\ Cardinality(S) <= Cardinality(Segs)
             /\ Cardinality(S) = Cardinality(Segs) => S = Segs
  BY <1>1, FS_Subset, FS_CardinalityType
<1>. QED
  BY <1>2, <1>3

(* What Orderings(S) holds: each element of S at one index. *)
LEMMA OrderingsFacts ==
  ASSUME NEW S, IsFiniteSet(S), NEW q \in Orderings(S)
  PROVE  /\ q \in Seq(S) /\ DOMAIN q = 1..Len(q) /\ Len(q) \in Nat
         /\ \A i \in 1..Len(q) : q[i] \in S
         /\ \A i, k \in 1..Len(q) : q[i] = q[k] => i = k
         /\ \A x \in S : \E i \in 1..Len(q) : q[i] = x
<1>1. Cardinality(S) \in Nat
  BY FS_CardinalityType
<1>2. q \in [1..Cardinality(S) -> S]
  BY DEF Orderings
<1>3. q \in Seq(S) /\ Len(q) = Cardinality(S)
  BY <1>1, <1>2
<1>. QED
  BY <1>1, <1>2, <1>3 DEF Orderings

(* Bags stay bags when messages are added or one that is there is removed. *)
LEMMA BagTypes ==
  ASSUME NEW M, NEW b \in [M -> Nat]
  PROVE  /\ \A S : BagAdd(b, S) \in [M -> Nat]
         /\ \A m \in M : b[m] > 0 => BagRemove(b, m) \in [M -> Nat]
  BY DEF BagAdd, BagRemove

(* What is left of a sequence without its first m elements. *)
LEMMA CutFacts ==
  ASSUME NEW S, NEW s \in Seq(S), NEW m \in Nat, m <= Len(s)
  PROVE  /\ SubSeq(s, m + 1, Len(s)) \in Seq(S)
         /\ Len(SubSeq(s, m + 1, Len(s))) = Len(s) - m
         /\ \A i \in 1..Len(s) - m : SubSeq(s, m + 1, Len(s))[i] = s[m + i]
<1>. DEFINE n == Len(s)
<1>1. n \in Nat /\ \A i \in 1..n : s[i] \in S
  BY LenProperties, ElementOfSeq
<1>2. m <= n
  OBVIOUS
<1>. HIDE DEF n
<1>3. \A i \in m + 1 .. n : s[i] \in S
  BY <1>1
<1>4. /\ SubSeq(s, m + 1, n) \in Seq(S)
      /\ Len(SubSeq(s, m + 1, n)) = IF m + 1 <= n THEN n - (m + 1) + 1 ELSE 0
      /\ \A i \in 1 .. n - (m + 1) + 1 : SubSeq(s, m + 1, n)[i] = s[m + 1 + i - 1]
  <2>1. m + 1 \in Int /\ n \in Int
    BY <1>1
  <2>. QED
    BY ONLY <2>1, <1>3, SubSeqProperties
<1>5. Len(SubSeq(s, m + 1, n)) = n - m
  BY <1>1, <1>2, <1>4
<1>6. ASSUME NEW i \in 1 .. n - m PROVE SubSeq(s, m + 1, n)[i] = s[m + i]
  <2>1. i \in 1 .. n - (m + 1) + 1 /\ m + 1 + i - 1 = m + i
    BY <1>1
  <2>2. SubSeq(s, m + 1, n)[i] = s[m + 1 + i - 1]
    BY <1>4, <2>1
  <2>. QED
    BY <2>1, <2>2
<1>. QED
  BY <1>4, <1>5, <1>6 DEF n

-----------------------------------------------------------------------------
(* Plans *)

(* A plan names workers, and no more of them than the queue is long. *)
PlanFits(t) ==
  \A j \in Jobs : /\ t[j] \in Seq(Workers)
                  /\ Len(t[j]) <= Len(pending[j])
                  /\ \A i \in 1..Len(t[j]) : t[j][i] \in Available

(* Every plan of schedule() fits, and so does the empty one.                *)
LEMMA PlansFit ==
  ASSUME TypeOK,
         NEW t \in IF isMaster THEN Plans ELSE { [j \in Jobs |-> <<>>] }
  PROVE  PlanFits(t)
<1>1. Cardinality(Segs) \in Nat
  BY SegmentSets
<1>2. Available \subseteq Workers
  BY DEF Available, Reachable
<1>3. CASE isMaster
  <2>1. t \in Plans
    BY <1>3
  <2>2. /\ t \in [Jobs -> UNION { [1..n -> Available] : n \in 0..Cardinality(Segs) }]
        /\ IsPlan(t)
    BY <2>1 DEF Plans
  <2>. SUFFICES ASSUME NEW j \in Jobs
                PROVE  /\ t[j] \in Seq(Workers)
                       /\ Len(t[j]) <= Len(pending[j])
                       /\ \A i \in 1..Len(t[j]) : t[j][i] \in Available
    BY DEF PlanFits
  <2>3. PICK n \in 0..Cardinality(Segs) : t[j] \in [1..n -> Available]
    BY <2>2
  <2>4. n \in Nat
    BY <1>1
  <2>5. t[j] \in Seq(Available) /\ Len(t[j]) = n
    BY <2>3, <2>4
  <2>6. t[j] \in Seq(Workers)
    BY <1>2, <2>5
  <2>. QED
    BY <2>2, <2>3, <2>5, <2>6 DEF IsPlan
<1>4. CASE ~isMaster
  <2>1. t = [j \in Jobs |-> <<>>]
    BY <1>4
  <2>2. \A j \in Jobs : pending[j] \in Seq(Desc)
    BY DEF TypeOK
  <2>3. ASSUME NEW j \in Jobs PROVE 0 <= Len(pending[j])
    BY <2>2, LenProperties
  <2>. QED
    BY <2>1, <2>3 DEF PlanFits
<1>. QED
  BY <1>3, <1>4
-----------------------------------------------------------------------------
(* RunScheduler *)

(* Where the i-th entry of a queue stood before the tick: the part that was *)
(* not taken comes first, then what could not be sent.                      *)
From(t, j, q, i) ==
  IF i <= Len(pending[j]) - Len(t[j]) THEN Len(t[j]) + i
                                      ELSE q[i - (Len(pending[j]) - Len(t[j]))]

(* The queue after a tick holds the entries that From names, when q lists   *)
(* what could not be sent, each once.                                       *)
QueueIsFrom(t, F, j, q) ==
  /\ DOMAIN q = 1..Len(q) /\ Len(q) \in Nat
  /\ \A k \in 1..Len(q) : q[k] \in Unsent(t, j, F)
  /\ \A i, k \in 1..Len(q) : q[i] = q[k] => i = k
  /\ \A x \in Unsent(t, j, F) : \E k \in 1..Len(q) : q[k] = x
  /\ pending'[j] \in Seq(Desc)
  /\ Len(pending'[j]) = Len(pending[j]) - Len(t[j]) + Len(q)
  /\ \A i \in 1..Len(pending'[j]) :
       /\ From(t, j, q, i) \in 1..Len(pending[j])
       /\ pending'[j][i] = pending[j][From(t, j, q, i)]

(* A queue after a tick: what was not taken, and what could not be sent.    *)
LEMMA QueueAfterTick ==
  ASSUME TypeOK, NEW t, PlanFits(t), NEW F, RunScheduler(t, F), NEW j \in Jobs
  PROVE  \E q : QueueIsFrom(t, F, j, q)
<1>1. /\ pending[j] \in Seq(Desc) /\ Len(pending[j]) \in Nat
      /\ \A i \in 1..Len(pending[j]) : pending[j][i] \in Desc
  BY LenProperties, ElementOfSeq DEF TypeOK
<1>2. t[j] \in Seq(Workers) /\ Len(t[j]) \in Nat /\ Len(t[j]) <= Len(pending[j])
  BY LenProperties DEF PlanFits
<1>3. Unsent(t, j, F) \subseteq Taken(t, j)
  BY DEF Unsent
<1>4. IsFiniteSet(Taken(t, j))
  BY <1>2, FS_Interval DEF Taken
<1>5. IsFiniteSet(Unsent(t, j, F))
  BY <1>3, <1>4, FS_Subset
<1>6. PICK q :
        /\ q \in InOrder(Unsent(t, j, F))
        /\ pending'[j] = SubSeq(pending[j], Len(t[j]) + 1, Len(pending[j]))
                           \o [k \in DOMAIN q |-> pending[j][q[k]]]
  BY DEF RunScheduler, Untaken
<1>7. q \in Orderings(Unsent(t, j, F))
  BY <1>6 DEF InOrder
<1>8. /\ q \in Seq(Unsent(t, j, F)) /\ DOMAIN q = 1..Len(q) /\ Len(q) \in Nat
      /\ \A k \in 1..Len(q) : q[k] \in Unsent(t, j, F)
      /\ \A i, k \in 1..Len(q) : q[i] = q[k] => i = k
      /\ \A x \in Unsent(t, j, F) : \E k \in 1..Len(q) : q[k] = x
  BY <1>5, <1>7, OrderingsFacts
<1>. DEFINE rest == SubSeq(pending[j], Len(t[j]) + 1, Len(pending[j]))
            back == [k \in DOMAIN q |-> pending[j][q[k]]]
            n    == Len(pending[j])
            m    == Len(t[j])
<1>10. /\ rest \in Seq(Desc) /\ Len(rest) = n - m
       /\ \A i \in 1..n - m : rest[i] = pending[j][m + i]
  BY <1>1, <1>2, CutFacts
<1>11. \A k \in 1..Len(q) : q[k] \in 1..Len(pending[j])
  BY <1>1, <1>2, <1>3, <1>8 DEF Taken
<1>12. /\ back \in Seq(Desc) /\ Len(back) = Len(q)
       /\ \A k \in 1..Len(q) : back[k] = pending[j][q[k]]
  <2>1. back \in [1..Len(q) -> Desc]
    BY <1>1, <1>8, <1>11
  <2>. QED
    BY <1>8, <2>1
<1>13. pending'[j] = rest \o back
  BY <1>6
<1>. HIDE DEF rest, back, n, m
<1>14. /\ n \in Nat /\ m \in Nat /\ m <= n
       /\ \A k \in 1..Len(q) : q[k] \in 1..n
  BY <1>1, <1>2, <1>11 DEF n, m
<1>. DEFINE r == n - m
<1>15. /\ pending'[j] \in Seq(Desc)
       /\ Len(pending'[j]) = r + Len(q)
       /\ \A i \in 1..r + Len(q) :
            pending'[j][i] = IF i <= r THEN rest[i] ELSE back[i - r]
  <2>1. Len(rest) = r /\ Len(back) = Len(q) /\ rest \in Seq(Desc) /\ back \in Seq(Desc)
    BY <1>10, <1>12
  <2>2. rest \in Seq(Desc) /\ back \in Seq(Desc)
    BY <2>1
  <2>3. /\ rest \o back \in Seq(Desc)
        /\ Len(rest \o back) = Len(rest) + Len(back)
        /\ \A i \in 1 .. Len(rest) + Len(back) :
             (rest \o back)[i] = IF i <= Len(rest) THEN rest[i] ELSE back[i - Len(rest)]
    BY ONLY <2>2, ConcatProperties
  <2>. QED
    BY <1>13, <2>1, <2>3
<1>16. ASSUME NEW i \in 1..r + Len(q)
       PROVE  /\ From(t, j, q, i) \in 1..Len(pending[j])
              /\ pending'[j][i] = pending[j][From(t, j, q, i)]
  <2>1. From(t, j, q, i) = IF i <= r THEN m + i ELSE q[i - r]
    BY DEF From, n, m
  <2>2. CASE i <= r
    <3>1. i \in 1..r /\ m + i \in 1..n
      BY <1>14, <2>2
    <3>2. pending'[j][i] = rest[i] /\ rest[i] = pending[j][m + i]
      BY <1>10, <1>15, <2>2, <3>1
    <3>. QED
      BY <2>1, <2>2, <3>1, <3>2 DEF n
  <2>3. CASE ~(i <= r)
    <3>1. i - r \in 1..Len(q)
      BY <1>8, <1>14, <2>3
    <3>2. pending'[j][i] = back[i - r]
      BY <1>15, <2>3
    <3>. QED
      BY <1>11, <1>12, <2>1, <2>3, <3>1, <3>2
  <2>. QED
    BY <2>2, <2>3
<1>17. \A i \in 1..Len(pending'[j]) :
         /\ From(t, j, q, i) \in 1..Len(pending[j])
         /\ pending'[j][i] = pending[j][From(t, j, q, i)]
  BY <1>15, <1>16
<1>. QED
  BY <1>8, <1>15, <1>17 DEF n, m, QueueIsFrom

(* The indices a tick leaves in the queue: what was not taken, and what     *)
(* could not be sent.                                                       *)
Left(t, j, F) == (Len(t[j]) + 1 .. Len(pending[j])) \union Unsent(t, j, F)

(* A tick rearranges exactly those entries of the queue, each kept once.    *)
LEMMA QueueIndices ==
  ASSUME TypeOK, NEW t, PlanFits(t), NEW F, RunScheduler(t, F), NEW j \in Jobs
  PROVE  /\ pending'[j] \in Seq(Desc)
         /\ \E f \in [1..Len(pending'[j]) -> Left(t, j, F)] :
              /\ \A i \in 1..Len(pending'[j]) : /\ f[i] \in 1..Len(pending[j])
                                                /\ pending'[j][i] = pending[j][f[i]]
              /\ \A i, k \in 1..Len(pending'[j]) : f[i] = f[k] => i = k
              /\ \A x \in Left(t, j, F) : \E i \in 1..Len(pending'[j]) : f[i] = x
<1>1. PICK q : QueueIsFrom(t, F, j, q)
  BY QueueAfterTick
<1>. DEFINE n == Len(pending[j])
            m == Len(t[j])
            r == n - m
            Src(i) == From(t, j, q, i)
            U == Unsent(t, j, F)
<1>2. /\ DOMAIN q = 1..Len(q) /\ Len(q) \in Nat
      /\ \A k \in 1..Len(q) : q[k] \in Unsent(t, j, F)
      /\ \A i, k \in 1..Len(q) : q[i] = q[k] => i = k
      /\ \A x \in Unsent(t, j, F) : \E k \in 1..Len(q) : q[k] = x
      /\ pending'[j] \in Seq(Desc)
      /\ Len(pending'[j]) = r + Len(q)
      /\ \A i \in 1..Len(pending'[j]) :
           /\ Src(i) \in 1..n
           /\ pending'[j][i] = pending[j][Src(i)]
  BY <1>1 DEF QueueIsFrom
<1>3. n \in Nat /\ m \in Nat /\ m <= n
  BY LenProperties DEF TypeOK, PlanFits
<1>4. Unsent(t, j, F) \subseteq 1..m
  BY DEF Unsent, Taken
<1>5. \A i : Src(i) = IF i <= r THEN m + i ELSE q[i - r]
  BY DEF From
<1>6. Left(t, j, F) = (m + 1 .. n) \union U
  BY DEF Left
<1>. HIDE DEF n, m, Src, U
<1>7. ASSUME NEW i \in 1..r + Len(q)
      PROVE  \/ i <= r /\ Src(i) = m + i /\ m + i \in m + 1 .. n
             \/ ~(i <= r) /\ i - r \in 1..Len(q) /\ Src(i) = q[i - r] /\ q[i - r] \in U
                /\ q[i - r] \in 1..m
  <2>1. CASE i <= r
    BY <1>3, <1>5, <2>1
  <2>2. CASE ~(i <= r)
    <3>1. i - r \in 1..Len(q)
      BY <1>3, <1>2, <2>2
    <3>. QED
      BY <1>2, <1>4, <1>5, <2>2, <3>1 DEF U, m
  <2>. QED
    BY <2>1, <2>2
<1>8. ASSUME NEW i \in 1..r + Len(q), NEW k \in 1..r + Len(q), Src(i) = Src(k)
      PROVE  i = k
  <2>1. CASE i <= r /\ k <= r
    BY <1>3, <1>7, <1>8, <2>1
  <2>2. CASE ~(i <= r) /\ ~(k <= r)
    <3>1. i - r \in 1..Len(q) /\ k - r \in 1..Len(q) /\ q[i - r] = q[k - r]
      BY <1>7, <1>8, <2>2
    <3>2. i - r = k - r
      BY <1>2, <3>1
    <3>. QED
      BY <1>3, <3>2
  <2>3. CASE i <= r /\ ~(k <= r)
    BY <1>3, <1>7, <1>8, <2>3
  <2>4. CASE ~(i <= r) /\ k <= r
    BY <1>3, <1>7, <1>8, <2>4
  <2>. QED
    BY <2>1, <2>2, <2>3, <2>4
<1>9. ASSUME NEW x \in (m + 1 .. n) \union U
      PROVE  \E i \in 1..r + Len(q) : Src(i) = x
  <2>1. CASE x \in m + 1 .. n
    <3>1. x - m \in 1..r + Len(q) /\ x - m <= r
      BY <1>3, <1>2, <2>1
    <3>2. Src(x - m) = m + (x - m) /\ m + (x - m) = x
      BY <1>3, <1>5, <2>1, <3>1
    <3>. QED
      BY <3>1, <3>2
  <2>2. CASE x \in U
    <3>1. PICK k \in 1..Len(q) : q[k] = x
      BY <1>2, <2>2 DEF U
    <3>2. k + r \in 1..r + Len(q) /\ ~(k + r <= r) /\ (k + r) - r = k
      BY <1>3, <1>2
    <3>3. Src(k + r) = q[(k + r) - r]
      BY <1>5, <3>2
    <3>. QED
      BY <3>1, <3>2, <3>3
  <2>. QED
    BY <2>1, <2>2
<1>10. \A i \in 1..r + Len(q) : Src(i) \in (m + 1 .. n) \union U
  BY <1>7
<1>. DEFINE f == [i \in 1..r + Len(q) |-> Src(i)]
<1>11. /\ f \in [1..Len(pending'[j]) -> Left(t, j, F)]
       /\ \A i \in 1..Len(pending'[j]) : f[i] \in 1..n /\ pending'[j][i] = pending[j][f[i]]
       /\ \A i, k \in 1..Len(pending'[j]) : f[i] = f[k] => i = k
       /\ \A x \in Left(t, j, F) : \E i \in 1..Len(pending'[j]) : f[i] = x
  <2>1. 1..Len(pending'[j]) = 1..r + Len(q)
    BY <1>2
  <2>. QED
    BY <1>6, <1>8, <1>9, <1>10, <1>2, <2>1
<1>. QED
  BY <1>2, <1>11 DEF n

-----------------------------------------------------------------------------
(* Types *)

(* RunScheduler keeps the types of what it changes. *)
LEMMA RunSchedulerTypes ==
  ASSUME TypeOK, NEW t, PlanFits(t), NEW F, RunScheduler(t, F)
  PROVE  /\ pending' \in [Jobs -> Seq(Desc)]
         /\ assigned' \in [Jobs -> [Segs -> Workers \union {None}]]
         /\ failed' \in [Jobs -> SUBSET Segs]
         /\ toWorker' \in [Workers -> [AssignMsg -> Nat]]
<1>1. pending' \in [Jobs -> Seq(Desc)]
  <2>1. \A j \in Jobs : pending'[j] \in Seq(Desc)
    BY QueueIndices
  <2>2. \E q : pending' = [j \in Jobs |->
                   SubSeq(pending[j], Len(t[j]) + 1, Len(pending[j]))
                     \o [k \in DOMAIN q[j] |-> pending[j][q[j][k]]]]
    BY DEF RunScheduler, Untaken
  <2>3. pending' = [j \in Jobs |-> pending'[j]]
    BY <2>2
  <2>. QED
    BY <2>1, <2>3
<1>2. assigned' \in [Jobs -> [Segs -> Workers \union {None}]]
  <2>1. ASSUME NEW j \in Jobs, NEW s \in Segs
        PROVE  assigned'[j][s] \in Workers \union {None}
    <3>1. CASE \E i \in Taken(t, j) : pending[j][i].id = s
      <4>. DEFINE i == CHOOSE i \in Taken(t, j) : pending[j][i].id = s
      <4>1. i \in Taken(t, j)
        BY <3>1
      <4>2. t[j][i] \in Workers
        BY <4>1, ElementOfSeq DEF PlanFits, Taken
      <4>3. assigned'[j][s] = IF i \in Unsent(t, j, F) THEN None ELSE t[j][i]
        BY <3>1 DEF RunScheduler, Untaken
      <4>. QED
        BY <4>2, <4>3
    <3>2. CASE ~\E i \in Taken(t, j) : pending[j][i].id = s
      <4>1. assigned'[j][s] = assigned[j][s]
        BY <3>2 DEF RunScheduler, Untaken
      <4>. QED
        BY <4>1 DEF TypeOK
    <3>. QED
      BY <3>1, <3>2
  <2>2. \E a : assigned' = [j \in Jobs |-> [s \in Segs |-> a[j][s]]]
    <3>1. assigned' = [j \in Jobs |-> [s \in Segs |-> assigned'[j][s]]]
      BY DEF RunScheduler, Untaken
    <3>. QED
      BY <3>1
  <2>. QED
    BY <2>1, <2>2
<1>3. failed' \in [Jobs -> SUBSET Segs]
  BY DEF RunScheduler, Untaken, TypeOK
<1>4. toWorker' \in [Workers -> [AssignMsg -> Nat]]
  <2>1. ASSUME NEW w \in Workers, NEW S
        PROVE  BagAdd(toWorker[w], S) \in [AssignMsg -> Nat]
    BY BagTypes DEF TypeOK
  <2>. QED
    BY <2>1 DEF RunScheduler, Untaken
<1>. QED
  BY <1>1, <1>2, <1>3, <1>4

(* A reassignment from w appends to the queue of j the segments that q      *)
(* lists: each segment of j that w held, once.                              *)
QueueGains(j, w, q) ==
  /\ q \in Seq(Segs) /\ Len(q) \in Nat
  /\ \A k \in 1..Len(q) : q[k] \in HeldBy(j, w)
  /\ \A i, k \in 1..Len(q) : q[i] = q[k] => i = k
  /\ \A s \in HeldBy(j, w) : \E k \in 1..Len(q) : q[k] = s
  /\ Len(pending'[j]) = Len(pending[j]) + Len(q)
  /\ \A i \in 1..Len(pending[j]) : pending'[j][i] = pending[j][i]
  /\ \A k \in 1..Len(q) : pending'[j][Len(pending[j]) + k].id = q[k]

(* ReassignFromNode keeps the types of what it changes. *)
LEMMA ReassignFacts ==
  ASSUME TypeOK, NEW w \in Workers, ReassignFromNode(w)
  PROVE  /\ assigned' \in [Jobs -> [Segs -> Workers \union {None}]]
         /\ pending' \in [Jobs -> Seq(Desc)]
         /\ \A j \in Jobs : \E q : QueueGains(j, w, q)
<1>1. assigned' \in [Jobs -> [Segs -> Workers \union {None}]]
  BY DEF ReassignFromNode, TypeOK
<1>2. PICK q : /\ \A j \in Jobs : q[j] \in Orderings(HeldBy(j, w))
               /\ pending' = [j \in Jobs |->
                    pending[j] \o [i \in DOMAIN q[j] |-> [id |-> q[j][i], real |-> FALSE]]]
  BY DEF ReassignFromNode
<1>3. ASSUME NEW j \in Jobs
      PROVE  pending'[j] \in Seq(Desc) /\ QueueGains(j, w, q[j])
  <2>1. HeldBy(j, w) \in SUBSET Segs /\ IsFiniteSet(HeldBy(j, w))
    BY SegmentSets DEF HeldBy
  <2>2. /\ q[j] \in Seq(HeldBy(j, w)) /\ DOMAIN q[j] = 1..Len(q[j]) /\ Len(q[j]) \in Nat
        /\ \A k \in 1..Len(q[j]) : q[j][k] \in HeldBy(j, w)
        /\ \A i, k \in 1..Len(q[j]) : q[j][i] = q[j][k] => i = k
        /\ \A s \in HeldBy(j, w) : \E k \in 1..Len(q[j]) : q[j][k] = s
    BY <1>2, <2>1, OrderingsFacts
  <2>. DEFINE back == [i \in 1..Len(q[j]) |-> [id |-> q[j][i], real |-> FALSE]]
  <2>3. back \in [1..Len(q[j]) -> Desc]
    BY <2>1, <2>2 DEF Desc
  <2>4. pending'[j] = pending[j] \o back
    BY <1>2, <2>2
  <2>5. pending[j] \in Seq(Desc) /\ Len(pending[j]) \in Nat
    BY LenProperties DEF TypeOK
  <2>6. \A k \in 1..Len(q[j]) : back[k].id = q[j][k]
    OBVIOUS
  <2>. DEFINE n == Len(q[j])
  <2>. HIDE DEF back, n
  <2>7. back \in Seq(Desc) /\ Len(back) = n
    <3>1. n \in Nat /\ back \in [1..n -> Desc]
      BY <2>2, <2>3 DEF n
    <3>. QED
      BY ONLY <3>1
  <2>8. /\ pending[j] \o back \in Seq(Desc)
        /\ Len(pending[j] \o back) = Len(pending[j]) + n
        /\ \A i \in 1 .. Len(pending[j]) + n :
             (pending[j] \o back)[i] =
               IF i <= Len(pending[j]) THEN pending[j][i] ELSE back[i - Len(pending[j])]
    BY <2>5, <2>7, ConcatProperties
  <2>. DEFINE p == Len(pending[j])
  <2>9. p \in Nat /\ n \in Nat
    BY <2>2, <2>5 DEF n
  <2>. HIDE DEF p
  <2>10. ASSUME NEW i \in 1..p PROVE pending'[j][i] = pending[j][i]
    <3>1. i \in 1 .. p + n /\ i <= p
      BY <2>9
    <3>. QED
      BY <2>4, <2>8, <3>1 DEF p
  <2>11. ASSUME NEW k \in 1..n PROVE pending'[j][p + k].id = q[j][k]
    <3>1. p + k \in 1 .. p + n /\ ~(p + k <= p) /\ (p + k) - p = k
      BY <2>9
    <3>2. pending'[j][p + k] = back[k]
      BY <2>4, <2>8, <3>1 DEF p
    <3>. QED
      BY <2>6, <3>2 DEF n
  <2>12. q[j] \in Seq(Segs)
    BY <2>1, <2>2, SeqMonotonic
  <2>. QED
    BY <2>2, <2>4, <2>8, <2>10, <2>11, <2>12 DEF QueueGains, n, p
<1>4. pending' \in [Jobs -> Seq(Desc)]
  <2>1. pending' = [j \in Jobs |-> pending'[j]]
    BY <1>2
  <2>. QED
    BY <1>3, <2>1
<1>. QED
  BY <1>1, <1>3, <1>4

(* What every step but a few leaves alone has its type by TypeOK; the       *)
(* others are taken one conjunct at a time.                                 *)
LEMMA TypeInit == Init => TypeOK
<1>. SUFFICES ASSUME Init PROVE TypeOK
  OBVIOUS
<1>1. Cardinality(Segs) \in Nat
  BY SegmentSets
<1>2. <<>> \in Seq(Desc) /\ <<>> \in Seq(Outcome)
  BY EmptySeq
<1>. QED
  BY <1>1, <1>2 DEF Init, TypeOK, NodeStatus

(* Every step keeps the types.                                              *)
LEMMA TypeStep == TypeOK /\ [Next]_vars => TypeOK'
<1>. SUFFICES ASSUME TypeOK, [Next]_vars PROVE TypeOK'
  OBVIOUS
<1>. USE DEF vars, schedVars, jobVars, nodeVars, workVars, netVars, bounds
<1>1. ASSUME NEW j \in Jobs, JobSubmit(j) PROVE TypeOK'
  <2>1. PICK q \in Orderings(Segs) :
          /\ pending' = [pending EXCEPT ![j] = [i \in DOMAIN q |-> [id |-> q[i], real |-> TRUE]]]
          /\ assigned' = [assigned EXCEPT ![j] = [s \in Segs |-> None]]
          /\ completed' = [completed EXCEPT ![j] = {}]
          /\ failed' = [failed EXCEPT ![j] = {}]
    BY <1>1 DEF JobSubmit, AddJob
  <2>2. IsFiniteSet(Segs)
    BY ConstAssumption
  <2>3. DOMAIN q = 1..Len(q) /\ Len(q) \in Nat /\ \A i \in 1..Len(q) : q[i] \in Segs
    BY <2>2, OrderingsFacts
  <2>. DEFINE d == [i \in DOMAIN q |-> [id |-> q[i], real |-> TRUE]]
  <2>4. d \in [1..Len(q) -> Desc]
    BY <2>3 DEF Desc
  <2>5. d \in Seq(Desc)
    <3>. HIDE DEF d
    <3>. QED
      BY ONLY <2>3, <2>4
  <2>6. pending' \in [Jobs -> Seq(Desc)]
    BY <2>1, <2>5 DEF TypeOK
  <2>. QED
    BY <1>1, <2>1, <2>6 DEF JobSubmit, TypeOK
<1>2. ASSUME ScheduleTick PROVE TypeOK'
  <2>1. PICK t \in IF isMaster THEN Plans ELSE { [j \in Jobs |-> <<>>] } :
        \E D \in SUBSET { w \in Available : Given(t, w) > 0 } : \E F :
          /\ faults + Cardinality(D) <= MaxFaults
          /\ drops' = drops + Cardinality(D)
          /\ connected' = [w \in Workers |-> connected[w] /\ w \notin D]
          /\ RunScheduler(t, F)
          /\ PollAssembly
          /\ UNCHANGED <<isMaster, known, completed, ctx, uris, status, load, workVars,
                         toMaster, leaving, suspects, stepDowns>>
    BY <1>2 DEF ScheduleTick
  <2>2. PICK D \in SUBSET { w \in Available : Given(t, w) > 0 } : \E F :
          /\ drops' = drops + Cardinality(D)
          /\ connected' = [w \in Workers |-> connected[w] /\ w \notin D]
          /\ RunScheduler(t, F)
          /\ PollAssembly
          /\ UNCHANGED <<isMaster, known, completed, ctx, uris, status, load, workVars,
                         toMaster, leaving, suspects, stepDowns>>
    BY <2>1
  <2>3. PlanFits(t)
    BY PlansFit
  <2>4. /\ pending' \in [Jobs -> Seq(Desc)]
        /\ assigned' \in [Jobs -> [Segs -> Workers \union {None}]]
        /\ failed' \in [Jobs -> SUBSET Segs]
        /\ toWorker' \in [Workers -> [AssignMsg -> Nat]]
    BY <2>2, <2>3, RunSchedulerTypes
  <2>5. told' \in [Jobs -> Seq(Outcome)]
    BY <2>2 DEF PollAssembly, TypeOK, Outcome
  <2>6. assembly' \in [Jobs -> {"none", "running", "ok", "err"}]
    BY <2>2 DEF PollAssembly, TypeOK
  <2>7. drops' \in Nat
    <3>1. D \in SUBSET Workers
      BY DEF Available, Reachable
    <3>2. Cardinality(D) \in Nat
      BY <3>1, ConstAssumption, FS_Subset, FS_CardinalityType
    <3>. QED
      BY <2>2, <3>2 DEF TypeOK
  <2>8. connected' \in [Workers -> BOOLEAN]
    BY <2>2
  <2>. QED
    BY <2>2, <2>4, <2>5, <2>6, <2>7, <2>8 DEF TypeOK
<1>3. ASSUME NEW j \in Jobs, NEW r \in {"ok", "err"}, AssemblyEnds(j, r) PROVE TypeOK'
  BY <1>3 DEF AssemblyEnds, TypeOK
<1>4. ASSUME NEW w \in Workers, Join(w) PROVE TypeOK'
  BY <1>4 DEF Join, TypeOK, NodeStatus
<1>5. ASSUME NEW w \in Workers, NEW m \in AssignMsg, RecvAssign(w, m) PROVE TypeOK'
  <2>1. toWorker' \in [Workers -> [AssignMsg -> Nat]]
    BY <1>5, BagTypes DEF RecvAssign, TypeOK
  <2>2. slot' \in [Workers -> [Segs -> Task \union {None}]]
    BY <1>5 DEF RecvAssign, TypeOK, Task, AssignMsg
  <2>3. replaced' \subseteq Workers \X Jobs \X Segs
    BY <1>5 DEF RecvAssign, TypeOK, AssignMsg
  <2>. QED
    BY <1>5, <2>1, <2>2, <2>3 DEF RecvAssign, TypeOK
<1>6. ASSUME NEW w \in Workers, NEW s \in Segs, NEW r \in {"ok", "err"}, WorkerEnds(w, s, r)
      PROVE  TypeOK'
  <2>1. slot[w][s] \in Task
    BY <1>6 DEF WorkerEnds, TypeOK
  <2>2. [slot[w][s] EXCEPT !.st = r] \in Task
    BY <2>1 DEF Task
  <2>3. slot' \in [Workers -> [Segs -> Task \union {None}]]
    BY <1>6, <2>2 DEF WorkerEnds, TypeOK
  <2>. QED
    BY <1>6, <2>3 DEF WorkerEnds, TypeOK
<1>7. ASSUME NEW w \in Workers, PollWorkerResults(w) PROVE TypeOK'
  <2>1. slot' \in [Workers -> [Segs -> Task \union {None}]]
    BY <1>7 DEF PollWorkerResults, TypeOK
  <2>2. toMaster' \in [Workers -> [ResultMsg -> Nat]]
    BY <1>7, BagTypes DEF PollWorkerResults, TypeOK
  <2>. QED
    BY <1>7, <2>1, <2>2 DEF PollWorkerResults, TypeOK
<1>8. ASSUME NEW w \in Workers, NEW m \in ResultMsg, RecvResult(w, m) PROVE TypeOK'
  <2>1. toMaster' \in [Workers -> [ResultMsg -> Nat]]
    BY <1>8, BagTypes DEF RecvResult, TypeOK
  <2>2. m.job \in Jobs /\ m.seg \in Segs
    BY DEF ResultMsg
  <2>3. ASSUME NEW done, NEW bad, NEW out, CheckJobCompletion(m.job, done, bad, out)
        PROVE  /\ told' \in [Jobs -> Seq(Outcome)]
               /\ ctx' \subseteq Jobs
               /\ assembly' \in [Jobs -> {"none", "running", "ok", "err"}]
    <3>1. \/ UNCHANGED <<told, ctx, assembly>>
          \/ /\ told' = [told EXCEPT ![m.job] = Append(@, "failed")]
             /\ ctx' = ctx \ {m.job}
             /\ UNCHANGED assembly
          \/ /\ assembly' = [assembly EXCEPT ![m.job] = "running"]
             /\ ctx' = ctx \ {m.job}
             /\ UNCHANGED told
          \/ /\ told' = [told EXCEPT ![m.job] = Append(@, "complete")]
             /\ ctx' = ctx \ {m.job}
             /\ UNCHANGED assembly
      BY <2>3 DEF CheckJobCompletion
    <3>2. told[m.job] \in Seq(Outcome) /\ {"failed", "complete"} \subseteq Outcome
      BY <2>2 DEF TypeOK, Outcome
    <3>3. \A o \in {"failed", "complete"} : Append(told[m.job], o) \in Seq(Outcome)
      BY <3>2, AppendProperties
    <3>4. \/ told' = told
          \/ \E o \in {"failed", "complete"} :
               told' = [told EXCEPT ![m.job] = Append(told[m.job], o)]
      BY <3>1
    <3>5. told' \in [Jobs -> Seq(Outcome)]
      <4>1. told \in [Jobs -> Seq(Outcome)]
        BY DEF TypeOK
      <4>. QED
        BY ONLY <2>2, <3>3, <3>4, <4>1
    <3>6. ctx' \subseteq Jobs
      BY <3>1 DEF TypeOK
    <3>7. assembly' \in [Jobs -> {"none", "running", "ok", "err"}]
      BY <3>1 DEF TypeOK
    <3>. QED
      BY <3>5, <3>6, <3>7
  <2>4. CASE SegmentComplete(m.job, m.seg)
    BY <1>8, <2>1, <2>2, <2>3, <2>4 DEF SegmentComplete, RecvResult, TypeOK
  <2>5. CASE SegmentFailed(m.job, m.seg)
    BY <1>8, <2>1, <2>2, <2>3, <2>5 DEF SegmentFailed, RecvResult, TypeOK
  <2>6. CASE UNCHANGED <<assigned, completed, failed, jobVars>>
    BY <1>8, <2>1, <2>6 DEF RecvResult, TypeOK
  <2>. QED
    BY <1>8, <2>4, <2>5, <2>6 DEF RecvResult
<1>9. ASSUME NEW w \in Workers, Heartbeat(w) PROVE TypeOK'
  <2>1. LocalWorkers(w) \in SUBSET Segs
    BY DEF LocalWorkers
  <2>2. Cardinality(LocalWorkers(w)) \in 0..Cardinality(Segs)
    BY <2>1, SegmentSets
  <2>. QED
    BY <1>9, <2>2 DEF Heartbeat, TypeOK, NodeStatus
<1>10. ASSUME NEW w \in Workers, RecvLeave(w) PROVE TypeOK'
  BY <1>10, ReassignFacts DEF RecvLeave, TypeOK, NodeStatus
<1>11. ASSUME NEW w \in Workers, DeclareDead(w) PROVE TypeOK'
  BY <1>11, ReassignFacts DEF DeclareDead, TypeOK, NodeStatus
<1>12. ASSUME NEW w \in Workers, Leave(w) PROVE TypeOK'
  BY <1>12 DEF Leave, StopWorker, TypeOK
<1>13. ASSUME NEW w \in Workers, Crash(w) PROVE TypeOK'
  BY <1>13 DEF Crash, StopWorker, TypeOK
<1>14. ASSUME NEW w \in Workers, Disconnect(w) PROVE TypeOK'
  BY <1>14 DEF Disconnect, TypeOK
<1>15. ASSUME NEW w \in Workers, LoseInFlight(w) PROVE TypeOK'
  BY <1>15 DEF LoseInFlight, TypeOK
<1>16. CASE StepDown
  <2>1. stepDowns' = stepDowns + 1 /\ isMaster' = FALSE
    BY <1>16 DEF StepDown
  <2>2. stepDowns' \in Nat
    BY <2>1 DEF TypeOK
  <2>3. UNCHANGED <<schedVars, jobVars, nodeVars, workVars, netVars, suspects, drops>>
    BY <1>16 DEF StepDown
  <2>. QED
    BY <2>1, <2>2, <2>3 DEF TypeOK
<1>17. CASE StepUp
  BY <1>17 DEF StepUp, TypeOK
<1>18. CASE UNCHANGED vars
  BY <1>18 DEF TypeOK
<1>. QED
  BY <1>1, <1>2, <1>3, <1>4, <1>5, <1>6, <1>7, <1>8, <1>9, <1>10, <1>11, <1>12,
     <1>13, <1>14, <1>15, <1>16, <1>17, <1>18
     DEF Next, WorkerStep, MasterStep, Fault

(* Every variable has its type in every reachable state. *)
THEOREM TypeCorrect == Spec => []TypeOK
  BY TypeInit, TypeStep, PTL DEF Spec

-----------------------------------------------------------------------------
(* No segment is forgotten, none is queued twice *)

Tracked(j, s) ==
  \/ s \in PendingIds(j)
  \/ assigned[j][s] # None
  \/ s \in completed[j] \union failed[j]

QueuedOnce(j) ==
  /\ \A i, k \in 1..Len(pending[j]) : pending[j][i].id = pending[j][k].id => i = k
  /\ \A s \in PendingIds(j) : assigned[j][s] = None

(* What a tick does with the segment of the queue's x-th entry. *)
LEMMA TickAssigns ==
  ASSUME TypeOK, NEW t, PlanFits(t), NEW F, RunScheduler(t, F), NEW j \in Jobs, NEW s \in Segs
  PROVE  \/ /\ ~\E i \in Taken(t, j) : pending[j][i].id = s
            /\ assigned'[j][s] = assigned[j][s]
         \/ \E i \in Taken(t, j) :
              /\ pending[j][i].id = s
              /\ \/ i \in Unsent(t, j, F) /\ assigned'[j][s] = None
                 \/ /\ i \notin Unsent(t, j, F)
                    /\ assigned'[j][s] # None /\ assigned'[j][s] \in Available
<1>1. CASE \E i \in Taken(t, j) : pending[j][i].id = s
  <2>. DEFINE i == CHOOSE i \in Taken(t, j) : pending[j][i].id = s
  <2>1. i \in Taken(t, j) /\ pending[j][i].id = s
    BY <1>1
  <2>2. t[j][i] # None /\ t[j][i] \in Available
    <3>1. t[j][i] \in Workers /\ t[j][i] \in Available
      BY <2>1, ElementOfSeq DEF PlanFits, Taken
    <3>. QED
      BY <3>1, ConstAssumption
  <2>3. assigned'[j][s] = IF i \in Unsent(t, j, F) THEN None ELSE t[j][i]
    BY <1>1 DEF RunScheduler
  <2>. HIDE DEF i
  <2>. QED
    BY <2>1, <2>2, <2>3
<1>2. CASE ~\E i \in Taken(t, j) : pending[j][i].id = s
  BY <1>2 DEF RunScheduler
<1>. QED
  BY <1>1, <1>2

(* The queue of a job holds segments of that job. *)
LEMMA QueueIds ==
  ASSUME TypeOK, NEW j \in Jobs
  PROVE  /\ Len(pending[j]) \in Nat
         /\ \A i \in 1..Len(pending[j]) : pending[j][i].id \in Segs
<1>1. pending[j] \in Seq(Desc)
  BY DEF TypeOK
<1>2. Len(pending[j]) \in Nat /\ \A i \in 1..Len(pending[j]) : pending[j][i] \in Desc
  BY <1>1, LenProperties, ElementOfSeq
<1>. QED
  BY <1>2 DEF Desc

(* A tick forgets no segment.                                               *)
LEMMA TickTracks ==
  ASSUME TypeOK, NEW t, PlanFits(t), NEW F, RunScheduler(t, F), UNCHANGED completed,
         NEW j \in Jobs, NEW s \in Segs, Tracked(j, s)
  PROVE  Tracked(j, s)'
<1>1. PICK f \in [1..Len(pending'[j]) -> Left(t, j, F)] :
        /\ \A i \in 1..Len(pending'[j]) : /\ f[i] \in 1..Len(pending[j])
                                          /\ pending'[j][i] = pending[j][f[i]]
        /\ \A x \in Left(t, j, F) : \E i \in 1..Len(pending'[j]) : f[i] = x
  BY QueueIndices
<1>2. \A x \in Left(t, j, F) : pending[j][x].id = s => s \in PendingIds(j)'
  BY <1>1 DEF PendingIds
<1>3. Len(t[j]) \in Nat /\ Len(pending[j]) \in Nat
  BY LenProperties DEF PlanFits, TypeOK
<1>4. Unsent(t, j, F) \subseteq Left(t, j, F)
  BY DEF Left
<1>5. ASSUME NEW i \in Taken(t, j), pending[j][i].id = s PROVE Tracked(j, s)'
  BY <1>2, <1>4, <1>5, TickAssigns DEF Tracked
<1>6. CASE s \in PendingIds(j)
  <2>1. PICK i \in 1..Len(pending[j]) : pending[j][i].id = s
    BY <1>6 DEF PendingIds
  <2>2. CASE i \in Taken(t, j)
    BY <1>5, <2>1, <2>2
  <2>3. CASE i \notin Taken(t, j)
    <3>1. i \in Left(t, j, F)
      BY <1>3, <2>1, <2>3 DEF Left, Taken
    <3>. QED
      BY <1>2, <2>1, <3>1 DEF Tracked
  <2>. QED
    BY <2>2, <2>3
<1>7. CASE assigned[j][s] # None
  BY <1>5, <1>7, TickAssigns DEF Tracked
<1>8. CASE s \in completed[j]
  BY <1>8 DEF Tracked
<1>9. CASE s \in failed[j]
  <2>1. CASE s \in failed'[j]
    BY <2>1 DEF Tracked
  <2>2. CASE s \notin failed'[j]
    <3>1. PICK i \in Unsent(t, j, F) : s = pending[j][i].id
      BY <1>9, <2>2 DEF RunScheduler
    <3>. QED
      BY <1>2, <1>4, <3>1 DEF Tracked
  <2>. QED
    BY <2>1, <2>2
<1>. QED
  BY <1>6, <1>7, <1>8, <1>9 DEF Tracked

(* A tick queues no segment twice.                                          *)
LEMMA TickQueuesOnce ==
  ASSUME TypeOK, NEW t, PlanFits(t), NEW F, RunScheduler(t, F),
         NEW j \in Jobs, QueuedOnce(j)
  PROVE  QueuedOnce(j)'
<1>1. PICK f \in [1..Len(pending'[j]) -> Left(t, j, F)] :
        /\ \A i \in 1..Len(pending'[j]) : /\ f[i] \in 1..Len(pending[j])
                                          /\ pending'[j][i] = pending[j][f[i]]
        /\ \A i, k \in 1..Len(pending'[j]) : f[i] = f[k] => i = k
  BY QueueIndices
<1>2. /\ Len(t[j]) \in Nat /\ Len(pending[j]) \in Nat /\ Len(t[j]) <= Len(pending[j])
      /\ \A i \in 1..Len(pending[j]) : pending[j][i].id \in Segs
  BY QueueIds, LenProperties DEF PlanFits
<1>3. ASSUME NEW i \in 1..Len(pending'[j]), NEW k \in 1..Len(pending'[j]),
             pending'[j][i].id = pending'[j][k].id
      PROVE  i = k
  <2>1. /\ f[i] \in 1..Len(pending[j]) /\ pending'[j][i] = pending[j][f[i]]
        /\ f[k] \in 1..Len(pending[j]) /\ pending'[j][k] = pending[j][f[k]]
    BY <1>1
  <2>2. f[i] = f[k]
    BY <1>3, <2>1 DEF QueuedOnce
  <2>. QED
    BY <1>1, <2>2
<1>4. ASSUME NEW s \in PendingIds(j)' PROVE assigned'[j][s] = None
  <2>1. PICK i \in 1..Len(pending'[j]) : s = pending'[j][i].id
    BY <1>4 DEF PendingIds
  <2>. DEFINE x == f[i]
  <2>2. x \in Left(t, j, F) /\ x \in 1..Len(pending[j]) /\ s = pending[j][x].id
    BY <1>1, <2>1
  <2>. HIDE DEF x
  <2>3. s \in Segs /\ s \in PendingIds(j)
    BY <1>2, <2>2 DEF PendingIds
  <2>4. ASSUME NEW k \in Taken(t, j), pending[j][k].id = s
        PROVE  k \in Unsent(t, j, F)
    <3>1. k \in 1..Len(pending[j])
      BY <1>2 DEF Taken
    <3>2. k = x
      BY <2>2, <2>4, <3>1 DEF QueuedOnce
    <3>. QED
      BY <1>2, <2>2, <3>2 DEF Left, Taken
  <2>5. assigned[j][s] = None
    BY <2>3 DEF QueuedOnce
  <2>. QED
    BY <2>3, <2>4, <2>5, TickAssigns
<1>. QED
  BY <1>3, <1>4 DEF QueuedOnce

(* Taking the segments of a node back keeps the queues.                     *)
LEMMA ReassignKeeps ==
  ASSUME TypeOK, NEW w \in Workers, ReassignFromNode(w), UNCHANGED <<completed, failed>>,
         NEW j \in Jobs
  PROVE  /\ \A s \in Segs : Tracked(j, s) => Tracked(j, s)'
         /\ QueuedOnce(j) => QueuedOnce(j)'
<1>1. PICK q : QueueGains(j, w, q)
  BY ReassignFacts
<1>. DEFINE n == Len(pending[j])
<1>2. n \in Nat
  BY LenProperties DEF TypeOK
<1>3. \A s \in Segs : assigned'[j][s] = IF s \in HeldBy(j, w) THEN None ELSE assigned[j][s]
  BY DEF ReassignFromNode, HeldBy
<1>4. /\ Len(q) \in Nat /\ Len(pending'[j]) = n + Len(q)
      /\ \A i \in 1..n : pending'[j][i] = pending[j][i]
      /\ \A k \in 1..Len(q) : pending'[j][n + k].id = q[k] /\ q[k] \in HeldBy(j, w)
      /\ \A i, k \in 1..Len(q) : q[i] = q[k] => i = k
      /\ \A s \in HeldBy(j, w) : \E k \in 1..Len(q) : q[k] = s
  BY <1>1 DEF QueueGains
<1>5. PendingIds(j) = { pending[j][i].id : i \in 1..n }
  BY DEF PendingIds
<1>6. \A i \in 1..n : pending[j][i].id \in Segs
  BY QueueIds
<1>. HIDE DEF n
<1>7. PendingIds(j)' = PendingIds(j) \union HeldBy(j, w)
  <2>1. ASSUME NEW i \in 1 .. n + Len(q)
        PROVE  \/ i \in 1..n
               \/ i - n \in 1..Len(q) /\ i = n + (i - n)
    BY <1>2, <1>4
  <2>2. PendingIds(j)' = { pending'[j][i].id : i \in 1 .. n + Len(q) }
    BY <1>4 DEF PendingIds
  <2>3. PendingIds(j)' \subseteq PendingIds(j) \union HeldBy(j, w)
    <3>1. ASSUME NEW i \in 1 .. n + Len(q)
          PROVE  pending'[j][i].id \in PendingIds(j) \union HeldBy(j, w)
      <4>1. CASE i \in 1..n
        BY <1>4, <1>5, <4>1
      <4>2. CASE i - n \in 1..Len(q) /\ i = n + (i - n)
        <5>. DEFINE k == i - n
        <5>1. k \in 1..Len(q) /\ i = n + k
          BY <4>2
        <5>. HIDE DEF k
        <5>. QED
          BY <1>4, <5>1
      <4>. QED
        BY <2>1, <4>1, <4>2
    <3>. QED
      BY <2>2, <3>1
  <2>4. PendingIds(j) \subseteq PendingIds(j)'
    <3>1. \A i \in 1..n : i \in 1 .. n + Len(q)
      BY <1>2, <1>4
    <3>. QED
      BY <1>4, <1>5, <2>2, <3>1
  <2>5. HeldBy(j, w) \subseteq PendingIds(j)'
    <3>1. \A k \in 1..Len(q) : n + k \in 1 .. n + Len(q)
      BY <1>2, <1>4
    <3>. QED
      BY <1>4, <2>2, <3>1
  <2>. QED
    BY <2>3, <2>4, <2>5
<1>8. ASSUME NEW s \in Segs, Tracked(j, s) PROVE Tracked(j, s)'
  BY <1>3, <1>7, <1>8 DEF Tracked
<1>9. ASSUME QueuedOnce(j) PROVE QueuedOnce(j)'
  <2>1. ASSUME NEW s \in PendingIds(j)' PROVE assigned'[j][s] = None
    <3>1. s \in Segs
      BY <1>5, <1>6, <1>7 DEF HeldBy
    <3>. QED
      BY <1>3, <1>7, <1>9, <3>1 DEF QueuedOnce
  <2>2. \A s \in HeldBy(j, w) : s \notin PendingIds(j)
    <3>1. \A s \in HeldBy(j, w) : assigned[j][s] # None
      BY ConstAssumption DEF HeldBy
    <3>. QED
      BY <1>9, <3>1 DEF QueuedOnce
  <2>3. ASSUME NEW i \in 1 .. n + Len(q), NEW k \in 1 .. n + Len(q),
               pending'[j][i].id = pending'[j][k].id
        PROVE  i = k
    <3>1. CASE i \in 1..n /\ k \in 1..n
      BY <1>4, <1>9, <2>3, <3>1 DEF QueuedOnce, n
    <3>2. CASE i \notin 1..n /\ k \notin 1..n
      <4>1. i - n \in 1..Len(q) /\ k - n \in 1..Len(q) /\ i = n + (i - n) /\ k = n + (k - n)
        BY <1>2, <1>4, <3>2
      <4>2. q[i - n] = q[k - n]
        BY <1>4, <2>3, <4>1
      <4>3. i - n = k - n
        BY <1>4, <4>1, <4>2
      <4>. QED
        BY <4>1, <4>3
    <3>3. CASE i \in 1..n /\ k \notin 1..n
      <4>1. k - n \in 1..Len(q) /\ k = n + (k - n)
        BY <1>2, <1>4, <3>3
      <4>2. pending'[j][i].id \in PendingIds(j) /\ pending'[j][k].id \in HeldBy(j, w)
        BY <1>4, <1>5, <3>3, <4>1
      <4>. QED
        BY <2>2, <2>3, <4>2
    <3>4. CASE i \notin 1..n /\ k \in 1..n
      <4>1. i - n \in 1..Len(q) /\ i = n + (i - n)
        BY <1>2, <1>4, <3>4
      <4>2. pending'[j][k].id \in PendingIds(j) /\ pending'[j][i].id \in HeldBy(j, w)
        BY <1>4, <1>5, <3>4, <4>1
      <4>. QED
        BY <2>2, <2>3, <4>2
    <3>. QED
      BY <3>1, <3>2, <3>3, <3>4
  <2>. QED
    BY <1>4, <2>1, <2>3 DEF QueuedOnce
<1>. QED
  BY <1>8, <1>9

(* Every step keeps both facts of every job; the jobs a step creates have   *)
(* them from the start.                                                     *)
Queues ==
  /\ \A j \in known, s \in Segs : Tracked(j, s)
  /\ \A j \in Jobs : QueuedOnce(j)

(* At the start the queues are empty.                                       *)
LEMMA QueuesInit == Init => Queues
<1>. SUFFICES ASSUME Init PROVE Queues
  OBVIOUS
<1>1. \A j \in Jobs : pending[j] = <<>> /\ Len(pending[j]) = 0
  BY EmptySeq DEF Init
<1>. QED
  BY <1>1 DEF Init, Queues, QueuedOnce, PendingIds

(* A submission queues every segment once.                                  *)
LEMMA SubmitQueues ==
  ASSUME TypeOK, NEW j \in Jobs, JobSubmit(j)
  PROVE  /\ \A s \in Segs : Tracked(j, s)'
         /\ QueuedOnce(j)'
<1>1. PICK q \in Orderings(Segs) :
        /\ pending' = [pending EXCEPT ![j] = [i \in DOMAIN q |-> [id |-> q[i], real |-> TRUE]]]
        /\ assigned' = [assigned EXCEPT ![j] = [s \in Segs |-> None]]
  BY DEF JobSubmit, AddJob
<1>2. IsFiniteSet(Segs)
  BY ConstAssumption
<1>3. /\ DOMAIN q = 1..Len(q) /\ Len(q) \in Nat
      /\ \A i \in 1..Len(q) : q[i] \in Segs
      /\ \A i, k \in 1..Len(q) : q[i] = q[k] => i = k
      /\ \A s \in Segs : \E i \in 1..Len(q) : q[i] = s
  BY <1>2, OrderingsFacts
<1>4. pending'[j] = [i \in 1..Len(q) |-> [id |-> q[i], real |-> TRUE]]
  BY <1>1, <1>3 DEF TypeOK
<1>5. Len(pending'[j]) = Len(q) /\ \A i \in 1..Len(q) : pending'[j][i].id = q[i]
  BY <1>3, <1>4
<1>6. PendingIds(j)' = Segs
  BY <1>3, <1>5 DEF PendingIds
<1>7. \A s \in Segs : assigned'[j][s] = None
  BY <1>1 DEF TypeOK
<1>. QED
  BY <1>3, <1>5, <1>6, <1>7 DEF Tracked, QueuedOnce

(* Every step keeps the queues.                                             *)
LEMMA QueuesStep == TypeOK /\ Queues /\ [Next]_vars => Queues'
<1>. SUFFICES ASSUME TypeOK, Queues, [Next]_vars PROVE Queues'
  OBVIOUS
<1>. USE DEF vars, schedVars, jobVars, nodeVars, workVars, netVars, bounds
<1>1. ASSUME NEW j \in Jobs, JobSubmit(j) PROVE Queues'
  <2>1. \A s \in Segs : Tracked(j, s)'
    BY <1>1, SubmitQueues
  <2>2. QueuedOnce(j)'
    BY <1>1, SubmitQueues
  <2>3. \A k \in Jobs \ {j} : /\ pending'[k] = pending[k] /\ assigned'[k] = assigned[k]
                              /\ completed'[k] = completed[k] /\ failed'[k] = failed[k]
    BY <1>1 DEF JobSubmit, AddJob, TypeOK
  <2>4. ASSUME NEW k \in known, NEW s \in Segs, k # j PROVE Tracked(k, s)'
    <3>1. k \in Jobs \ {j}
      BY <2>4 DEF TypeOK
    <3>2. PendingIds(k)' = PendingIds(k)
      BY <2>3, <3>1 DEF PendingIds
    <3>. QED
      BY <2>3, <3>1, <3>2 DEF Queues, Tracked
  <2>5. \A k \in Jobs : k # j => QueuedOnce(k)'
    BY <2>3 DEF Queues, QueuedOnce, PendingIds
  <2>6. known' = known \union {j}
    BY <1>1 DEF JobSubmit
  <2>. QED
    BY <2>1, <2>2, <2>4, <2>5, <2>6 DEF Queues
<1>2. ASSUME ScheduleTick PROVE Queues'
  <2>1. PICK t \in IF isMaster THEN Plans ELSE { [j \in Jobs |-> <<>>] } :
        \E F : RunScheduler(t, F) /\ UNCHANGED <<known, completed>>
    BY <1>2 DEF ScheduleTick
  <2>2. PICK F : RunScheduler(t, F) /\ UNCHANGED <<known, completed>>
    BY <2>1
  <2>3. PlanFits(t)
    BY PlansFit
  <2>4. \A j \in known, s \in Segs : Tracked(j, s)'
    BY <2>2, <2>3, TickTracks DEF Queues, TypeOK
  <2>5. \A j \in Jobs : QueuedOnce(j)'
    BY <2>2, <2>3, TickQueuesOnce DEF Queues
  <2>. QED
    BY <2>2, <2>4, <2>5 DEF Queues
<1>3. ASSUME NEW w \in Workers, NEW m \in ResultMsg, RecvResult(w, m) PROVE Queues'
  <2>1. m.job \in Jobs /\ m.seg \in Segs
    BY DEF ResultMsg
  <2>2. UNCHANGED <<known, pending>>
    BY <1>3 DEF RecvResult
  <2>3. \A j \in Jobs : PendingIds(j)' = PendingIds(j)
    BY <2>2 DEF PendingIds
  <2>4. CASE SegmentComplete(m.job, m.seg)
    BY <2>1, <2>2, <2>3, <2>4 DEF SegmentComplete, Queues, Tracked, QueuedOnce, TypeOK
  <2>5. CASE SegmentFailed(m.job, m.seg)
    BY <2>1, <2>2, <2>3, <2>5 DEF SegmentFailed, Queues, Tracked, QueuedOnce, TypeOK
  <2>6. CASE UNCHANGED <<assigned, completed, failed, jobVars>>
    BY <2>2, <2>3, <2>6 DEF Queues, Tracked, QueuedOnce, TypeOK
  <2>. QED
    BY <1>3, <2>4, <2>5, <2>6 DEF RecvResult
<1>4. ASSUME NEW w \in Workers, ReassignFromNode(w), UNCHANGED <<known, completed, failed>>
      PROVE  Queues'
  BY <1>4, ReassignKeeps DEF Queues, TypeOK
<1>5. ASSUME UNCHANGED schedVars PROVE Queues'
  BY <1>5 DEF Queues, Tracked, QueuedOnce, PendingIds
<1>6. ASSUME NEW w \in Workers, RecvLeave(w) PROVE Queues'
  BY <1>4, <1>5, <1>6 DEF RecvLeave
<1>7. ASSUME NEW w \in Workers, DeclareDead(w) PROVE Queues'
  BY <1>4, <1>5, <1>7 DEF DeclareDead
<1>8. ASSUME NEW j \in Jobs, NEW r, AssemblyEnds(j, r) PROVE Queues'
  BY <1>5, <1>8 DEF AssemblyEnds
<1>9. ASSUME NEW w \in Workers, WorkerStep(w) PROVE Queues'
  BY <1>5, <1>9 DEF WorkerStep, RecvAssign, WorkerEnds, PollWorkerResults
<1>10. ASSUME NEW w \in Workers, Join(w) \/ Heartbeat(w) PROVE Queues'
  BY <1>5, <1>10 DEF Join, Heartbeat
<1>11. ASSUME NEW w \in Workers, Fault(w) PROVE Queues'
  BY <1>5, <1>11 DEF Fault, Leave, Crash, StopWorker, Disconnect, LoseInFlight
<1>12. CASE StepDown \/ StepUp
  BY <1>5, <1>12 DEF StepDown, StepUp
<1>13. CASE UNCHANGED vars
  BY <1>5, <1>13
<1>. QED
  BY <1>1, <1>2, <1>3, <1>6, <1>7, <1>8, <1>9, <1>10, <1>11, <1>12, <1>13
     DEF Next, MasterStep

(* A segment of an accepted job is queued, assigned, completed or failed in *)
(* every reachable state, whatever is scheduled, lost, reassigned or late.  *)
THEOREM SegmentsAreTracked == Spec => []NoSegmentForgotten
<1>1. TypeOK /\ Queues => NoSegmentForgotten
  BY DEF Queues, Tracked, NoSegmentForgotten
<1>. QED
  BY <1>1, TypeInit, TypeStep, QueuesInit, QueuesStep, PTL DEF Spec

(* A job's queue never holds a segment twice nor one a node still holds.    *)
THEOREM SegmentsAreQueuedOnce == Spec => []NoSegmentQueuedTwice
<1>1. TypeOK /\ Queues => NoSegmentQueuedTwice
  BY DEF Queues, QueuedOnce, NoSegmentQueuedTwice
<1>. QED
  BY <1>1, TypeInit, TypeStep, QueuesInit, QueuesStep, PTL DEF Spec

-----------------------------------------------------------------------------
(* Success *)

(* The job has succeeded, or its assembly has begun. *)
Succeeding(j) ==
  assembly[j] # "none" \/ \E i \in 1..Len(told[j]) : told[j][i] # "failed"

(* Inductive: nothing is decided of a job that was never accepted, so that  *)
(* AddJob, which empties completed, cannot take an encoding back.           *)
Successes ==
  /\ \A j \in Jobs : Succeeding(j) => completed[j] = Segs
  /\ \A j \in Jobs \ known : ~Succeeding(j)

(* Announcing one more terminal message. *)
LEMMA AppendSucceeding ==
  ASSUME TypeOK, NEW j \in Jobs, NEW o \in Outcome,
         told'[j] = Append(told[j], o), assembly'[j] \in {"none", assembly[j]},
         Succeeding(j)'
  PROVE  Succeeding(j) \/ o # "failed"
<1>1. told[j] \in Seq(Outcome) /\ Len(told[j]) \in Nat
  BY LenProperties DEF TypeOK
<1>2. /\ Len(told'[j]) = Len(told[j]) + 1
      /\ \A i \in 1..Len(told[j]) : told'[j][i] = told[j][i]
      /\ told'[j][Len(told[j]) + 1] = o
  BY <1>1, AppendProperties
<1>3. CASE assembly'[j] # "none"
  BY <1>3 DEF Succeeding
<1>4. CASE \E i \in 1..Len(told'[j]) : told'[j][i] # "failed"
  <2>1. PICK i \in 1..Len(told'[j]) : told'[j][i] # "failed"
    BY <1>4
  <2>2. CASE i = Len(told[j]) + 1
    BY <1>2, <2>1, <2>2
  <2>3. CASE i # Len(told[j]) + 1
    <3>1. i \in 1..Len(told[j])
      BY <1>1, <1>2, <2>3
    <3>. QED
      BY <1>2, <2>1, <3>1 DEF Succeeding
  <2>. QED
    BY <2>2, <2>3
<1>. QED
  BY <1>3, <1>4 DEF Succeeding

(* At the start nothing has succeeded.                                      *)
LEMMA SuccessesInit == Init => Successes
<1>. SUFFICES ASSUME Init PROVE Successes
  OBVIOUS
<1>1. \A j \in Jobs : assembly[j] = "none" /\ Len(told[j]) = 0
  BY EmptySeq DEF Init
<1>. QED
  BY <1>1 DEF Successes, Succeeding

(* A result lets a job succeed only when all of it is encoded.              *)
LEMMA ResultSuccesses ==
  ASSUME TypeOK, Successes, NEW j \in known, NEW done \in SUBSET Segs, NEW bad \in SUBSET Segs,
         NEW out, CheckJobCompletion(j, done, bad, out),
         completed' = [completed EXCEPT ![j] = done], completed[j] \subseteq done,
         UNCHANGED known
  PROVE  Successes'
<1>1. j \in Jobs
  BY DEF TypeOK
<1>2. \A k \in Jobs \ {j} : /\ told'[k] = told[k] /\ assembly'[k] = assembly[k]
                            /\ completed'[k] = completed[k]
  BY DEF CheckJobCompletion, TypeOK
<1>3. \A k \in Jobs \ {j} : Succeeding(k)' = Succeeding(k)
  BY <1>2 DEF Succeeding
<1>4. completed'[j] = done
  BY <1>1 DEF TypeOK
<1>5. Succeeding(j)' => completed'[j] = Segs
  <2>1. Succeeding(j) => done = Segs
    BY <1>1 DEF Successes
  <2>2. CASE UNCHANGED <<told, ctx, assembly>>
    BY <1>4, <2>1, <2>2 DEF Succeeding
  <2>3. CASE told' = [told EXCEPT ![j] = Append(@, "failed")] /\ UNCHANGED assembly
    <3>1. told'[j] = Append(told[j], "failed") /\ "failed" \in Outcome
      BY <1>1, <2>3 DEF TypeOK, Outcome
    <3>. QED
      BY <1>1, <1>4, <2>1, <2>3, <3>1, AppendSucceeding
  <2>4. CASE bad = {} /\ Cardinality(done) + Cardinality(bad) >= Cardinality(Segs)
    <3>1. Cardinality(bad) = 0
      BY <2>4, FS_EmptySet
    <3>2. done = Segs
      <4>1. Cardinality(done) >= Cardinality(Segs) /\ Cardinality(done) <= Cardinality(Segs)
        BY <2>4, <3>1, SegmentSets
      <4>2. Cardinality(done) = Cardinality(Segs)
        BY <4>1, SegmentSets
      <4>. QED
        BY <4>2, SegmentSets
    <3>. QED
      BY <1>4, <3>2
  <2>. QED
    BY <2>2, <2>3, <2>4 DEF CheckJobCompletion
<1>6. known' = known
  OBVIOUS
<1>. QED
  BY <1>1, <1>2, <1>3, <1>5, <1>6 DEF Successes

(* Every step keeps successes earned.                                       *)
LEMMA SuccessesStep == TypeOK /\ Successes /\ [Next]_vars => Successes'
<1>. SUFFICES ASSUME TypeOK, Successes, [Next]_vars PROVE Successes'
  OBVIOUS
<1>. USE DEF vars, schedVars, jobVars, nodeVars, workVars, netVars, bounds
<1>1. ASSUME NEW j \in Jobs, JobSubmit(j) PROVE Successes'
  <2>1. /\ j \notin known /\ known' = known \union {j}
        /\ UNCHANGED <<assembly, told>>
        /\ \A k \in Jobs \ {j} : completed'[k] = completed[k]
    BY <1>1 DEF JobSubmit, AddJob, TypeOK
  <2>2. \A k \in Jobs : Succeeding(k)' = Succeeding(k)
    BY <2>1 DEF Succeeding
  <2>. QED
    BY <2>1, <2>2 DEF Successes
<1>2. ASSUME ScheduleTick PROVE Successes'
  <2>1. PollAssembly /\ UNCHANGED <<known, completed>>
    BY <1>2 DEF ScheduleTick
  <2>2. ASSUME NEW j \in Jobs, Succeeding(j)' PROVE Succeeding(j)
    <3>1. assembly'[j] \in {"none", assembly[j]}
      BY <2>1 DEF PollAssembly
    <3>2. CASE assembly[j] # "none"
      BY <3>2 DEF Succeeding
    <3>3. CASE assembly[j] = "none"
      <4>1. told'[j] = told[j] /\ assembly'[j] = "none"
        BY <2>1, <3>3 DEF PollAssembly
      <4>. QED
        BY <2>2, <4>1 DEF Succeeding
    <3>. QED
      BY <3>2, <3>3
  <2>. QED
    BY <2>1, <2>2 DEF Successes
<1>3. ASSUME NEW w \in Workers, NEW m \in ResultMsg, RecvResult(w, m) PROVE Successes'
  <2>1. m.job \in Jobs /\ m.seg \in Segs /\ UNCHANGED known
    BY <1>3 DEF ResultMsg, RecvResult
  <2>2. CASE m.job \in known /\ SegmentComplete(m.job, m.seg)
    <3>1. PICK out : CheckJobCompletion(m.job, completed[m.job] \union {m.seg}, failed[m.job], out)
      BY <2>2 DEF SegmentComplete
    <3>2. /\ completed' = [completed EXCEPT ![m.job] = completed[m.job] \union {m.seg}]
          /\ completed[m.job] \union {m.seg} \in SUBSET Segs
          /\ failed[m.job] \in SUBSET Segs
      BY <2>1, <2>2 DEF SegmentComplete, TypeOK
    <3>. QED
      BY <2>1, <2>2, <3>1, <3>2, ResultSuccesses
  <2>3. CASE m.job \in known /\ SegmentFailed(m.job, m.seg)
    <3>1. CheckJobCompletion(m.job, completed[m.job], failed[m.job] \union {m.seg}, uris[m.job])
      BY <2>3 DEF SegmentFailed
    <3>2. /\ completed' = [completed EXCEPT ![m.job] = completed[m.job]]
          /\ completed[m.job] \in SUBSET Segs
          /\ failed[m.job] \union {m.seg} \in SUBSET Segs
      BY <2>1, <2>3 DEF SegmentFailed, TypeOK
    <3>. QED
      BY <2>1, <2>3, <3>1, <3>2, ResultSuccesses
  <2>4. CASE UNCHANGED <<assigned, completed, failed, jobVars>>
    BY <2>1, <2>4 DEF Successes, Succeeding
  <2>. QED
    BY <1>3, <2>2, <2>3, <2>4 DEF RecvResult
<1>4. ASSUME NEW j \in Jobs, NEW r \in {"ok", "err"}, AssemblyEnds(j, r) PROVE Successes'
  <2>1. /\ assembly[j] # "none" /\ UNCHANGED <<known, completed, told>>
        /\ \A k \in Jobs \ {j} : assembly'[k] = assembly[k]
    BY <1>4 DEF AssemblyEnds, TypeOK
  <2>2. \A k \in Jobs : Succeeding(k)' => Succeeding(k)
    BY <2>1 DEF Succeeding
  <2>. QED
    BY <2>1, <2>2 DEF Successes
<1>5. ASSUME UNCHANGED <<known, completed, told, assembly>> PROVE Successes'
  BY <1>5 DEF Successes, Succeeding
<1>6. ASSUME NEW w \in Workers, Join(w) \/ Heartbeat(w) \/ RecvLeave(w) \/ DeclareDead(w)
      PROVE  Successes'
  BY <1>5, <1>6 DEF Join, Heartbeat, RecvLeave, DeclareDead
<1>7. ASSUME NEW w \in Workers, WorkerStep(w) PROVE Successes'
  BY <1>5, <1>7 DEF WorkerStep, RecvAssign, WorkerEnds, PollWorkerResults
<1>8. ASSUME NEW w \in Workers, Fault(w) PROVE Successes'
  BY <1>5, <1>8 DEF Fault, Leave, Crash, StopWorker, Disconnect, LoseInFlight
<1>9. CASE StepDown \/ StepUp
  BY <1>5, <1>9 DEF StepDown, StepUp
<1>10. CASE UNCHANGED vars
  BY <1>5, <1>10
<1>. QED
  BY <1>1, <1>2, <1>3, <1>4, <1>6, <1>7, <1>8, <1>9, <1>10 DEF Next, MasterStep

(* A job is assembled or announced complete only when every segment of it   *)
(* has been encoded, whatever results come late, twice or not at all.       *)
THEOREM SuccessIsEarned == Spec => []SuccessMeansAllEncoded
<1>1. Successes => SuccessMeansAllEncoded
  BY DEF Successes, Succeeding, SuccessMeansAllEncoded
<1>. QED
  BY <1>1, TypeInit, TypeStep, SuccessesInit, SuccessesStep, PTL DEF Spec

-----------------------------------------------------------------------------
(* Held segments *)

(* Inductive: as long as the role was never lost this node is master, so    *)
(* whoever loses its status loses its segments in the same step.            *)
Watched ==
  stepDowns = 0 =>
    /\ isMaster
    /\ \A j \in Jobs, s \in Segs :
         assigned[j][s] # None => status[assigned[j][s]] \in {"active", "busy"}

(* Every step keeps holders watched.                                        *)
LEMMA WatchedStep == TypeOK /\ Watched /\ [Next]_vars => Watched'
<1>. SUFFICES ASSUME TypeOK, Watched, [Next]_vars PROVE Watched'
  OBVIOUS
<1>. USE DEF vars, schedVars, jobVars, nodeVars, workVars, netVars, bounds
<1>1. ASSUME NEW j \in Jobs, JobSubmit(j) PROVE Watched'
  <2>1. \A k \in Jobs, s \in Segs : assigned'[k][s] \in {None, assigned[k][s]}
    BY <1>1 DEF JobSubmit, AddJob, TypeOK
  <2>2. UNCHANGED <<stepDowns, isMaster, status>>
    BY <1>1 DEF JobSubmit
  <2>. QED
    BY <2>1, <2>2 DEF Watched
<1>2. ASSUME ScheduleTick PROVE Watched'
  <2>1. PICK t \in IF isMaster THEN Plans ELSE { [j \in Jobs |-> <<>>] } :
        \E F : RunScheduler(t, F) /\ UNCHANGED <<isMaster, status, stepDowns>>
    BY <1>2 DEF ScheduleTick
  <2>2. PICK F : RunScheduler(t, F) /\ UNCHANGED <<isMaster, status, stepDowns>>
    BY <2>1
  <2>3. PlanFits(t)
    BY PlansFit
  <2>4. \A j \in Jobs, s \in Segs :
          assigned'[j][s] \in {None, assigned[j][s]} \union Available
    BY <2>2, <2>3, TickAssigns
  <2>5. \A w \in Available : status[w] = "active"
    BY DEF Available
  <2>. QED
    BY <2>2, <2>4, <2>5 DEF Watched
<1>3. ASSUME NEW w \in Workers, NEW m \in ResultMsg, RecvResult(w, m) PROVE Watched'
  <2>1. m.job \in Jobs /\ m.seg \in Segs /\ UNCHANGED <<isMaster, status, stepDowns>>
    BY <1>3 DEF ResultMsg, RecvResult
  <2>2. \/ assigned' = [assigned EXCEPT ![m.job][m.seg] = None]
        \/ UNCHANGED assigned
    BY <1>3 DEF RecvResult, SegmentComplete, SegmentFailed
  <2>3. ASSUME NEW k \in Jobs, NEW s \in Segs
        PROVE  assigned'[k][s] \in {None, assigned[k][s]}
    <3>1. assigned \in [Jobs -> [Segs -> Workers \union {None}]]
      BY DEF TypeOK
    <3>2. assigned[k] \in [Segs -> Workers \union {None}]
      BY <3>1
    <3>. QED
      BY ONLY <2>2, <3>1, <3>2
  <2>. QED
    BY <2>1, <2>3 DEF Watched
<1>4. ASSUME NEW w \in Workers, RecvLeave(w) \/ DeclareDead(w) PROVE Watched'
  <2>1. UNCHANGED <<isMaster, stepDowns>> /\ \A v \in Workers \ {w} : status'[v] = status[v]
    BY <1>4 DEF RecvLeave, DeclareDead, TypeOK
  <2>2. CASE ~isMaster
    BY <2>1, <2>2 DEF Watched
  <2>3. CASE isMaster
    <3>1. ReassignFromNode(w)
      BY <1>4, <2>3 DEF RecvLeave, DeclareDead
    <3>2. ASSUME NEW k \in Jobs, NEW s \in Segs, assigned'[k][s] # None
          PROVE  /\ assigned'[k][s] = assigned[k][s]
                 /\ assigned[k][s] \in Workers \ {w}
      BY <3>1, <3>2 DEF ReassignFromNode, TypeOK
    <3>. QED
      BY <2>1, <3>2 DEF Watched
  <2>. QED
    BY <2>2, <2>3
<1>5. ASSUME NEW w \in Workers, Join(w) \/ Heartbeat(w) PROVE Watched'
  <2>1. /\ UNCHANGED <<isMaster, stepDowns, assigned>>
        /\ \A v \in Workers : status'[v] \in {status[v], "active", "busy"}
    BY <1>5 DEF Join, Heartbeat, TypeOK
  <2>. QED
    BY <2>1 DEF Watched, TypeOK
<1>6. ASSUME UNCHANGED <<isMaster, stepDowns, assigned, status>> PROVE Watched'
  BY <1>6 DEF Watched
<1>7. ASSUME NEW j \in Jobs, NEW r, AssemblyEnds(j, r) PROVE Watched'
  BY <1>6, <1>7 DEF AssemblyEnds
<1>8. ASSUME NEW w \in Workers, WorkerStep(w) PROVE Watched'
  BY <1>6, <1>8 DEF WorkerStep, RecvAssign, WorkerEnds, PollWorkerResults
<1>9. ASSUME NEW w \in Workers, Fault(w) PROVE Watched'
  BY <1>6, <1>9 DEF Fault, Leave, Crash, StopWorker, Disconnect, LoseInFlight
<1>10. CASE StepDown
  <2>1. stepDowns' = stepDowns + 1 /\ stepDowns \in Nat
    BY <1>10 DEF StepDown, TypeOK
  <2>2. stepDowns' # 0
    BY <2>1
  <2>. QED
    BY <2>2 DEF Watched
<1>11. CASE StepUp
  BY <1>11 DEF StepUp, Watched
<1>12. CASE UNCHANGED vars
  BY <1>6, <1>12
<1>. QED
  BY <1>1, <1>2, <1>3, <1>4, <1>5, <1>7, <1>8, <1>9, <1>10, <1>11, <1>12
     DEF Next, MasterStep

(* While the role never moved, every node that holds a segment is one the   *)
(* health check still watches: no segment waits for a node given up on.     *)
THEOREM HoldersAreWatched == Spec => []HolderIsWatched
<1>1. Init => Watched
  BY DEF Init, Watched
<1>2. TypeOK /\ Watched => HolderIsWatched
  BY ConstAssumption DEF Watched, HolderIsWatched, HeldBy, TypeOK
<1>. QED
  BY <1>1, <1>2, TypeInit, TypeStep, WatchedStep, PTL DEF Spec

=============================================================================
