------------------------- MODULE WebLocalJob_proofs -------------------------
(***************************************************************************)
(* Theorems about a local job: what is in its output, what the web server   *)
(* says of it, and what is left of its processes and of its directory, for *)
(* every command line, source and size of the pools.                       *)
(***************************************************************************)
EXTENDS WebLocalJob, SegmentLists_proofs

(* A pool has children at work only while its stream is being read.         *)
PoolInv == stage \notin {"split", "encode"} => pool.running = {}

(* A stream that has not been polled has started nothing.                   *)
LEMMA NewPoolIsIdle ==
  ASSUME NEW ids
  PROVE  NewPool(ids).running = {}
BY DEF NewPool

(* A step of the coordinator starts no child outside the two streams, and   *)
(* leaves a stream only when it has drained it.                             *)
LEMMA CoordinatorKeepsPool ==
  ASSUME PoolInv, CoordinatorNext
  PROVE  PoolInv'
<1>1. CASE Analyze
  BY <1>1, NewPoolIsIdle DEF PoolInv, Analyze, Fail
<1>2. CASE Starts
  BY <1>2 DEF PoolInv, Starts
<1>3. CASE SplitDone
  BY <1>3 DEF PoolInv, SplitDone, Drained, Fail
<1>4. CASE Decide
  BY <1>4 DEF PoolInv, Decide, Fail
<1>5. CASE CopySegments
  BY <1>5 DEF PoolInv, CopySegments, Fail
<1>6. CASE FindWorker
  BY <1>6, NewPoolIsIdle DEF PoolInv, FindWorker, Fail
<1>7. CASE Collect
  BY <1>7 DEF PoolInv, Collect, Drained, Fail
<1>8. CASE Assemble
  BY <1>8 DEF PoolInv, Assemble, Fail
<1>9. CASE \E id \in Ids : SplitEnds(id) \/ WorkerEnds(id)
  BY <1>9 DEF PoolInv, SplitEnds, WorkerEnds
<1>. QED
  BY <1>1, <1>2, <1>3, <1>4, <1>5, <1>6, <1>7, <1>8, <1>9 DEF CoordinatorNext

(* A coordinator that has ended does nothing more.                          *)
LEMMA ExitedIsOver ==
  ASSUME Exited, CoordinatorNext
  PROVE  FALSE
BY DEF Exited, CoordinatorNext, Analyze, Starts, SplitDone, Decide, CopySegments, FindWorker,
       Collect, Assemble, SplitEnds, WorkerEnds

(* PoolInv holds at the start and is kept by every step of the system.     *)
LEMMA InitPool ==
  ASSUME WebInit
  PROVE  PoolInv
BY NewPoolIsIdle DEF WebInit, Init, PoolInv

(* Every step keeps children in their streams.                              *)
LEMMA NextPool ==
  ASSUME PoolInv, [Next]_vars
  PROVE  PoolInv'
<1>1. CASE Run
  BY <1>1, CoordinatorKeepsPool DEF Run
<1>2. CASE Transcode \/ Close \/ Delete \/ Clear \/ Remove \/ UNCHANGED vars
  <2>1. UNCHANGED <<stage, pool>>
    BY <1>2 DEF Transcode, Close, Delete, Clear, Remove, vars, pipelineVars
  <2>. QED
    BY <2>1 DEF PoolInv
<1>3. CASE \E id \in Ids : OrphanEnds(id)
  <2>1. UNCHANGED <<stage, pool>>
    BY <1>3 DEF OrphanEnds
  <2>. QED
    BY <2>1 DEF PoolInv
<1>. QED
  BY <1>1, <1>2, <1>3 DEF Next

(* When a coordinator ends, well or not, no child it started is at work any *)
(* more, whichever of them failed and in whatever order they ended.         *)
THEOREM NoChildOutlivesMain == Spec => []NothingRunsAfterExit
<1>1. WebInit => PoolInv
  BY InitPool
<1>2. PoolInv /\ [Next]_vars => PoolInv'
  BY NextPool
<1>3. PoolInv => NothingRunsAfterExit
  BY DEF PoolInv, NothingRunsAfterExit
<1>. QED
  BY <1>1, <1>2, <1>3, PTL DEF Spec

-----------------------------------------------------------------------------
(* The directory of a deleted job *)

Deleted == dir \in {"clearing", "cleared", "gone", "left"}
NoFilesInDir == \A n \in Names : InDir(n) => files[n] = Nothing

(* Who can still write into the directory: the coordinator while it is at   *)
(* work, which ends with the deletion at the latest, and orphans, which     *)
(* there are only if it was killed with children at work.                   *)
DirInv ==
  /\ DOMAIN files = Names
  /\ child \in {"none", "shell", "alive", "killed", "over"}
  /\ dir \in {"none", "there", "clearing", "cleared", "gone", "left"}
  /\ child \in {"none", "shell"} => ~listed /\ dir = "none"
  /\ listed => (handle <=> child = "alive") /\ child # "killed"
  /\ Deleted => ~listed /\ (child = "alive" => Exited)
  /\ ~Deleted /\ dir # "none" => listed
  /\ child = "alive" => listed \/ Exited
  /\ orphans # {} => cut
  /\ dir = "left" => cut
  /\ dir = "cleared" => cut \/ NoFilesInDir
  /\ dir = "gone" => NoFilesInDir
(* The coordinator writes files and makes none up, whatever it does.        *)
LEMMA CoordinatorFiles ==
  ASSUME DOMAIN files = Names, CoordinatorNext
  PROVE  DOMAIN files' = Names' /\ UNCHANGED video
<1>1. UNCHANGED video
  BY DEF CoordinatorNext, Analyze, Starts, SplitDone, Decide, CopySegments, FindWorker,
         Collect, Assemble, SplitEnds, WorkerEnds
<1>2. Names' = Names
  BY <1>1 DEF Names, Ids, Count
<1>3. CASE Analyze \/ Starts \/ SplitDone \/ Decide \/ FindWorker \/ Collect \/ Assemble
  <2>1. files' = files
    BY <1>3 DEF Analyze, Starts, SplitDone, Decide, FindWorker, Collect, Assemble
  <2>. QED
    BY <1>1, <1>2, <2>1
<1>4. CASE CopySegments
  BY <1>1, <1>2, <1>4 DEF CopySegments, CopiesOf
<1>5. CASE \E id \in Ids : SplitEnds(id) \/ WorkerEnds(id)
  BY <1>1, <1>2, <1>5 DEF SplitEnds, WorkerEnds, Broken
<1>. QED
  BY <1>3, <1>4, <1>5 DEF CoordinatorNext

(* At the start there is no directory and no writer.                        *)
LEMMA InitDir ==
  ASSUME WebInit
  PROVE  DirInv
<1>1. /\ DOMAIN files = Names
      /\ child \in {"none", "shell"} /\ orphans = {} /\ listed = FALSE
      /\ dir = "none" /\ cut = FALSE
  BY DEF WebInit, Init
<1>. QED
  BY <1>1 DEF DirInv, Deleted

(* Every step keeps DirInv. *)
LEMMA NextDir ==
  ASSUME DirInv, [Next]_vars
  PROVE  DirInv'
<1>1. CASE Transcode
  <2>1. /\ UNCHANGED <<video, files, stage, orphans, cut>>
        /\ child = "none" /\ listed' = TRUE /\ dir' = "there"
        /\ \/ child' = "alive" /\ handle' = TRUE
           \/ child' = "over" /\ handle' = FALSE
    BY <1>1 DEF Transcode, pipelineVars
  <2>2. Names' = Names
    BY <2>1 DEF Names, Ids, Count
  <2>. QED
    BY <2>1, <2>2 DEF DirInv, Deleted
<1>2. CASE Run
  <2>1. CoordinatorNext /\ child \in {"shell", "alive"} /\ UNCHANGED webVars
    BY <1>2 DEF Run
  <2>2. ~Exited
    BY <2>1, ExitedIsOver
  <2>3. ~Deleted
    BY <2>1, <2>2 DEF DirInv, Deleted
  <2>4. DOMAIN files' = Names'
    BY <2>1, CoordinatorFiles DEF DirInv
  <2>5. UNCHANGED <<child, orphans, listed, handle, dir, cut>>
    BY <2>1 DEF webVars
  <2>6. child = "alive" => listed
    BY <2>2 DEF DirInv
  <2>. QED
    BY <2>3, <2>4, <2>5, <2>6 DEF DirInv, Deleted
<1>3. CASE Close
  <2>1. /\ UNCHANGED <<video, files, stage, orphans, listed, dir, cut>>
        /\ child \in {"killed", "alive"} /\ child' = "over" /\ handle' = FALSE
    BY <1>3 DEF Close, pipelineVars
  <2>2. Names' = Names /\ (NoFilesInDir' <=> NoFilesInDir)
    BY <2>1 DEF Names, Ids, Count, NoFilesInDir, InDir, Nothing
  <2>. QED
    BY <2>1, <2>2 DEF DirInv, Deleted, Exited
<1>4. CASE Delete
  <2>1. /\ UNCHANGED <<video, files, stage, pool>>
        /\ listed /\ listed' = FALSE /\ dir' = "clearing" /\ handle' = FALSE
        /\ IF handle /\ ~Exited
           THEN child' = "killed" /\ orphans' = pool.running /\ cut' = (pool.running # {})
           ELSE UNCHANGED <<child, orphans, cut>>
    BY <1>4 DEF Delete, pipelineVars
  <2>2. Names' = Names /\ (Exited' <=> Exited)
    BY <2>1 DEF Names, Ids, Count, Exited
  <2>3. CASE handle /\ ~Exited
    BY <2>1, <2>2, <2>3 DEF DirInv, Deleted
  <2>4. CASE ~(handle /\ ~Exited)
    BY <2>1, <2>2, <2>4 DEF DirInv, Deleted
  <2>. QED
    BY <2>3, <2>4
<1>5. CASE Clear
  <2>1. /\ UNCHANGED <<video, stage, child, orphans, listed, handle, cut>>
        /\ dir = "clearing" /\ dir' = "cleared"
        /\ files' = [n \in Names |-> IF InDir(n) THEN Nothing ELSE files[n]]
    BY <1>5 DEF Clear
  <2>2. Names' = Names /\ NoFilesInDir' /\ (Exited' <=> Exited)
    BY <2>1 DEF Names, Ids, Count, Exited, NoFilesInDir, InDir, Nothing
  <2>. QED
    BY <2>1, <2>2 DEF DirInv, Deleted
<1>6. CASE Remove
  <2>1. /\ UNCHANGED <<video, files, stage, child, orphans, listed, handle, cut>>
        /\ dir = "cleared"
        /\ \/ dir' = "gone" /\ NoFilesInDir
           \/ dir' = "left" /\ (orphans # {} \/ ~NoFilesInDir)
    BY <1>6 DEF Remove, pipelineVars, NoFilesInDir
  <2>2. /\ Names' = Names /\ (NoFilesInDir' <=> NoFilesInDir)
        /\ (Exited' <=> Exited)
    BY <2>1 DEF Names, Ids, Count, Exited, NoFilesInDir, InDir, Nothing
  <2>. QED
    BY <2>1, <2>2 DEF DirInv, Deleted
<1>7. ASSUME NEW id \in Ids, OrphanEnds(id)
      PROVE  DirInv'
  <2>1. /\ UNCHANGED <<video, stage, child, listed, handle, dir, cut>>
        /\ id \in orphans /\ cut
    BY <1>7 DEF OrphanEnds, DirInv
  <2>2. Names' = Names /\ (Exited' <=> Exited)
    BY <2>1 DEF Names, Ids, Count, Exited
  <2>3. DOMAIN files' = Names
    BY <1>7 DEF OrphanEnds, Broken, DirInv
  <2>4. dir = "gone" /\ NoFilesInDir => NoFilesInDir'
    <3>1. SUFFICES ASSUME dir = "gone", NoFilesInDir, NEW n \in Names, InDir(n)
                   PROVE  files'[n] = Nothing
      BY <2>2 DEF NoFilesInDir, InDir, Nothing
    <3>2. files'[n] = files[n]
      BY <1>7, <3>1 DEF OrphanEnds, Broken, DirInv
    <3>. QED
      BY <3>1, <3>2 DEF NoFilesInDir
  <2>. QED
    BY <2>1, <2>2, <2>3, <2>4 DEF DirInv, Deleted
<1>8. CASE UNCHANGED vars
  <2>1. UNCHANGED <<video, files, stage, child, orphans, listed, handle, dir, cut>>
    BY <1>8 DEF vars, pipelineVars, webVars
  <2>2. /\ Names' = Names /\ (NoFilesInDir' <=> NoFilesInDir)
        /\ (Exited' <=> Exited)
    BY <2>1 DEF Names, Ids, Count, Exited, NoFilesInDir, InDir, Nothing
  <2>. QED
    BY <2>1, <2>2 DEF DirInv, Deleted
<1>. QED
  BY <1>1, <1>2, <1>3, <1>4, <1>5, <1>6, <1>7, <1>8 DEF Next

(* The directory of a deleted job goes with everything in it, unless its    *)
(* coordinator was killed while children of it were at work.                *)
THEOREM DeletedLeavesNothing == Spec => []DeletedIsGone
<1>1. WebInit => DirInv
  BY InitDir
<1>2. DirInv /\ [Next]_vars => DirInv'
  BY NextDir
<1>3. DirInv => DeletedIsGone
  BY DEF DirInv, DeletedIsGone, NoFilesInDir
<1>. QED
  BY <1>1, <1>2, <1>3, PTL DEF Spec

-----------------------------------------------------------------------------
(* Sources, segments and names *)

(* A one-to-one correspondence keeps the size of a finite set.              *)
LEMMA SameSize ==
  ASSUME NEW S, NEW T, IsFiniteSet(S), NEW f \in [S -> T],
         \A x, y \in S : f[x] = f[y] => x = y,
         \A z \in T : \E x \in S : f[x] = z
  PROVE  Cardinality(T) = Cardinality(S)
<1>1. f \in Injection(S, T) \cap Surjection(S, T)
  BY DEF Injection, IsInjective, Surjection
<1>2. ExistsBijection(S, T)
  BY <1>1 DEF ExistsBijection, Bijection
<1>. QED
  BY <1>2, FS_Bijection

(* There are as many segments as groups that start one.                     *)
LEMMA SourceFacts ==
  ASSUME [video |-> video, args |-> args] \in Launches
  PROVE  /\ IsSource(video)
         /\ video.starts \in SUBSET (1..Len(video.groups)) /\ Len(video.groups) \in Nat
         /\ IsFiniteSet(video.starts)
         /\ Count \in Nat /\ IsFiniteSet(Ids) /\ Cardinality(Ids) = Count
         /\ Ids \in SUBSET Nat /\ \A i \in 1..Count : i - 1 \in Ids
<1>1. PICK l \in Launches : l.video = video
  <2>1. [video |-> video, args |-> args].video = video
    OBVIOUS
  <2>. QED
    BY <2>1
<1>2. IsSource(video) /\ video.starts \in SUBSET (1..Len(video.groups))
  BY <1>1, PipelineAssumption
<1>3. Len(video.groups) \in Nat
  BY <1>2, LenProperties DEF IsSource
<1>4. IsFiniteSet(video.starts)
  <2>1. IsFiniteSet(1..Len(video.groups))
    BY <1>3, FS_Interval
  <2>. QED
    BY <1>2, <2>1, FS_Subset
<1>5. Count \in Nat
  BY <1>4, FS_CardinalityType DEF Count
<1>6. IsFiniteSet(Ids) /\ Cardinality(Ids) = Count
  <2>1. 0 \in Int /\ Count - 1 \in Int
    BY <1>5
  <2>2. /\ IsFiniteSet(0..Count - 1)
        /\ Cardinality(0..Count - 1) = IF 0 > Count - 1 THEN 0 ELSE (Count - 1) - 0 + 1
    BY <2>1, FS_Interval
  <2>. QED
    BY <1>5, <2>2 DEF Ids
<1>7. Ids \in SUBSET Nat /\ \A i \in 1..Count : i - 1 \in Ids
  BY <1>5 DEF Ids
<1>. QED
  BY <1>2, <1>3, <1>4, <1>5, <1>6, <1>7

(* The group a segment starts with; later segments start with later groups. *)
Start(id) == CHOOSE s \in video.starts : Cardinality({ t \in video.starts : t < s }) = id

(* A segment starts with a group of the source, a later one with a later    *)
(* group.                                                                   *)
LEMMA StartFacts ==
  ASSUME [video |-> video, args |-> args] \in Launches
  PROVE  /\ \A id \in Ids : Start(id) \in 1..Len(video.groups)
         /\ \A id \in Ids : First(id) = Before(video.groups, Start(id))
         /\ \A i, j \in Ids : i < j => Start(i) < Start(j)
<1>. DEFINE rank(s) == Cardinality({ t \in video.starts : t < s })
<1>1. /\ IsFiniteSet(video.starts) /\ video.starts \in SUBSET (1..Len(video.groups))
      /\ Len(video.groups) \in Nat /\ Count \in Nat
  BY SourceFacts
<1>2. PICK P : P = [s \in video.starts |-> { t \in video.starts : t < s }]
  OBVIOUS
<1>3. /\ P \in [video.starts -> SUBSET video.starts]
      /\ \A s \in video.starts : Cardinality(P[s]) = rank(s)
      /\ \A s, t \in video.starts : t \in P[s] <=> t < s
  BY <1>2
<1>4. /\ \A s \in video.starts : s \notin P[s]
      /\ \A s, t, u \in video.starts : s \in P[t] /\ t \in P[u] => s \in P[u]
      /\ \A s, t \in video.starts : s # t => s \in P[t] \/ t \in P[s]
  <2>1. \A s \in video.starts : s \in Nat
    BY <1>1
  <2>. HIDE DEF rank
  <2>2. \A s, t, u \in video.starts : s < t /\ t < u => s < u
    BY <2>1
  <2>3. \A s, t \in video.starts : s # t => s < t \/ t < s
    BY <2>1
  <2>4. \A s \in video.starts : ~(s < s)
    BY <2>1
  <2>. QED
    BY <1>3, <2>2, <2>3, <2>4
<1>5. /\ \A s, t \in video.starts : s \in P[t] <=> Cardinality(P[s]) < Cardinality(P[t])
      /\ \A i \in 0..Cardinality(video.starts) - 1 : \E s \in video.starts : Cardinality(P[s]) = i
  BY <1>1, <1>3, <1>4, Ranks
<1>6. \A id \in Ids : Start(id) \in video.starts /\ rank(Start(id)) = id
  <2>. SUFFICES ASSUME NEW id \in Ids
                PROVE  Start(id) \in video.starts /\ rank(Start(id)) = id
    OBVIOUS
  <2>1. id \in 0..Cardinality(video.starts) - 1
    BY DEF Ids, Count
  <2>2. \E s \in video.starts : rank(s) = id
    BY <1>3, <1>5, <2>1
  <2>. QED
    BY <2>2 DEF Start
<1>7. \A i, j \in Ids : i < j => Start(i) < Start(j)
  <2>. HIDE DEF rank
  <2>. QED
    BY <1>3, <1>5, <1>6
<1>8. \A id \in Ids : First(id) = Before(video.groups, Start(id))
  BY DEF First, Start
<1>. QED
  BY <1>1, <1>6, <1>7, <1>8

(* The files of a segment have names of the job.                            *)
LEMMA FileFacts ==
  ASSUME NEW id \in Ids
  PROVE  SegmentFile(id) \in Names /\ CutFile(id) \in Names
BY DEF SegmentFile, CutFile, Names

(* The sorted paths are cuts, and those of the segments in order while the  *)
(* names have their digits.                                                 *)
LEMMA SortedPathsFacts ==
  ASSUME [video |-> video, args |-> args] \in Launches
  PROVE  /\ SortedPaths \in Seq(Names) /\ Len(SortedPaths) = Count
         /\ (SortedPaths = <<>>) <=> (Ids = {})
         /\ Count <= Power[Width] =>
              \A id \in Ids : SortedPaths[id + 1] = CutFile(id)
<1>. DEFINE rank(id) == Cardinality({ k \in Ids : NameBefore(k, id) })
            at(i) == CHOOSE id \in Ids : rank(id) = i - 1
<1>1. /\ Count \in Nat /\ IsFiniteSet(Ids) /\ Cardinality(Ids) = Count
      /\ Ids \in SUBSET Nat /\ \A i \in 1..Count : i - 1 \in Ids
  BY SourceFacts
<1>2. SortedPaths = [i \in 1..Count |-> CutFile(at(i))]
  BY DEF SortedPaths
<1>3. \A i \in 1..Count : at(i) \in Ids /\ rank(at(i)) = i - 1
  <2>1. PICK P : P = [id \in Ids |-> { k \in Ids : NameBefore(k, id) }]
    OBVIOUS
  <2>2. /\ P \in [Ids -> SUBSET Ids]
        /\ \A id \in Ids : Cardinality(P[id]) = rank(id)
        /\ \A k, id \in Ids : k \in P[id] <=> NameBefore(k, id)
    BY <2>1
  <2>3. /\ \A m \in Ids : ~NameBefore(m, m)
        /\ \A l, m, n \in Ids : NameBefore(l, m) /\ NameBefore(m, n) => NameBefore(l, n)
        /\ \A m, n \in Ids : m # n => NameBefore(m, n) \/ NameBefore(n, m)
    BY <1>1, NamesAreOrdered
  <2>4. /\ \A s \in Ids : s \notin P[s]
        /\ \A s, t, u \in Ids : s \in P[t] /\ t \in P[u] => s \in P[u]
        /\ \A s, t \in Ids : s # t => s \in P[t] \/ t \in P[s]
    BY <2>2, <2>3
  <2>5. \A i \in 0..Cardinality(Ids) - 1 : \E id \in Ids : Cardinality(P[id]) = i
    BY <1>1, <2>2, <2>4, Ranks
  <2>6. \A i \in 1..Count : \E id \in Ids : rank(id) = i - 1
    BY <1>1, <2>2, <2>5
  <2>. HIDE DEF rank
  <2>. QED
    BY <2>6
<1>4. SortedPaths \in Seq(Names) /\ Len(SortedPaths) = Count
  <2>1. \A i \in 1..Count : CutFile(at(i)) \in Names
    BY <1>3, FileFacts
  <2>. HIDE DEF at
  <2>2. SortedPaths \in [1..Count -> Names]
    BY <1>2, <2>1
  <2>. QED
    BY <1>1, <2>2
<1>5. (SortedPaths = <<>>) <=> (Ids = {})
  <2>1. (SortedPaths = <<>>) <=> (Count = 0)
    BY <1>1, <1>4, EmptySeq
  <2>2. (Ids = {}) <=> (Count = 0)
    BY <1>1 DEF Ids
  <2>. QED
    BY <2>1, <2>2
<1>6. ASSUME Count <= Power[Width], NEW id \in Ids
      PROVE  SortedPaths[id + 1] = CutFile(id)
  <2>1. ASSUME NEW k \in Ids
        PROVE  rank(k) = k
    <3>1. { j \in Ids : NameBefore(j, k) } = 0..k - 1
      <4>1. \A j \in Ids : NameBefore(j, k) <=> j < k
        <5>1. \A j \in Ids : j \in Nat /\ j < Power[Width]
          <6>1. Power[Width] \in Nat
            BY PowerType, NamesAssumption
          <6>. QED
            BY <1>1, <1>6, <6>1 DEF Ids
        <5>. QED
          BY <5>1, NamesFollowNumbers
      <4>2. \A j : j \in 0..k - 1 <=> j \in Ids /\ j < k
        BY <1>1 DEF Ids
      <4>. QED
        BY <4>1, <4>2
    <3>2. 0 \in Int /\ k - 1 \in Int /\ k \in Nat
      BY <1>1
    <3>3. Cardinality(0..k - 1) = IF 0 > k - 1 THEN 0 ELSE (k - 1) - 0 + 1
      BY <3>2, FS_Interval
    <3>4. Cardinality(0..k - 1) = k
      BY <3>2, <3>3
    <3>. QED
      BY <3>1, <3>4
  <2>2. id + 1 \in 1..Count /\ (id + 1) - 1 = id
    BY <1>1 DEF Ids
  <2>3. at(id + 1) \in Ids /\ rank(at(id + 1)) = id
    BY <1>3, <2>2
  <2>4. at(id + 1) = id
    BY <2>1, <2>3
  <2>. HIDE DEF at
  <2>. QED
    BY <1>2, <2>2, <2>4
<1>. QED
  BY <1>4, <1>5, <1>6

(* The source and the command line do not change, nor what follows of them. *)
LEMMA CoordinatorRigid ==
  ASSUME CoordinatorNext
  PROVE  UNCHANGED <<video, args>>
BY DEF CoordinatorNext, Analyze, Starts, SplitDone, Decide, CopySegments, FindWorker,
       Collect, Assemble, SplitEnds, WorkerEnds

(* What depends on the launch alone stays.                                  *)
LEMMA Fixed ==
  ASSUME UNCHANGED <<video, args>>
  PROVE  UNCHANGED <<Count, Ids, Names, Ranges, Fast, Smart, ModeFromArgs, SortedPaths, Frames>>
<1>1. Count' = Count /\ Ids' = Ids /\ Names' = Names
  BY DEF Count, Ids, Names
<1>2. Ranges' = Ranges
  BY <1>1 DEF Ranges, First, Frames
<1>3. (Fast' <=> Fast) /\ (Smart' <=> Smart)
  BY DEF Fast, Smart, Has
<1>4. ModeFromArgs' = ModeFromArgs
  BY DEF ModeFromArgs, Smart, Has
<1>5. SortedPaths' = SortedPaths
  BY <1>1 DEF SortedPaths, CutFile, SegmentFile, Has
<1>6. Fast' = Fast /\ Smart' = Smart
  BY DEF Fast, Smart, Has
<1>. QED
  BY <1>1, <1>2, <1>4, <1>5, <1>6 DEF Frames

-----------------------------------------------------------------------------
(* The plan *)

Planned == {"copy", "find", "encode", "collected", "done"}

(* The groups are those of the analysis, and the plan is made from them and *)
(* kept.                                                                    *)
PlanInv ==
  /\ stage # "analyze" => gops = IF Fast THEN GopStats(video.groups, video.offset) ELSE <<>>
  /\ stage \in Planned =>
       copied = PlanSegments(video, gops, Ranges, ModeFromArgs, args.encoder, tolerance)

(* A step that leaves what the plan is made from alone keeps the plan.      *)
LEMMA PlanStays ==
  ASSUME PlanInv, UNCHANGED <<video, args, gops, copied, tolerance>>,
         stage' = "analyze" => stage = "analyze",
         stage' # "analyze" => stage # "analyze",
         stage' \in Planned => stage \in Planned
  PROVE  PlanInv'
BY Fixed DEF PlanInv

(* A step of the coordinator keeps the plan.                                *)
LEMMA CoordinatorKeepsPlan ==
  ASSUME PlanInv, CoordinatorNext
  PROVE  PlanInv'
<1>. UNCHANGED <<video, args>>
  BY CoordinatorRigid
<1>1. CASE Analyze
  BY <1>1, Fixed DEF Analyze, Fail, PlanInv, Planned
<1>2. CASE Decide
  <2>1. /\ stage = "plan" /\ gops' = gops
        /\ \/ stage' = "failed"
           \/ copied' = PlanSegments(video, gops, Ranges, ModeFromArgs, args.encoder, tolerance')
        /\ stage' # "analyze" /\ (stage' = "failed" => stage' \notin Planned)
    BY <1>2 DEF Decide, Fail, Planned
  <2>. QED
    BY <2>1, Fixed DEF PlanInv
<1>3. CASE Starts \/ SplitDone \/ CopySegments \/ FindWorker \/ Collect \/ Assemble
            \/ \E id \in Ids : SplitEnds(id) \/ WorkerEnds(id)
  <2>1. /\ UNCHANGED <<gops, copied, tolerance>> /\ stage # "analyze" /\ stage' # "analyze"
        /\ stage' \in Planned => stage \in Planned
    BY <1>3 DEF Starts, SplitDone, CopySegments, FindWorker, Collect, Assemble,
                SplitEnds, WorkerEnds, Fail, Planned
  <2>. QED
    BY <2>1, PlanStays
<1>. QED
  BY <1>1, <1>2, <1>3 DEF CoordinatorNext

(* A smart mode looks at the groups that overlap the range of a segment.    *)
LEMMA SmartPlan ==
  ASSUME PlanInv, stage = "copy", Smart, NEW i \in 1..Count
  PROVE  /\ gops = GopStats(video.groups, video.offset)
         /\ copied[i] <=> /\ Blockers(video, args.encoder) = {}
                          /\ OnTarget(Overlapping(gops, Ranges[i]), tolerance)
<1>1. gops = GopStats(video.groups, video.offset)
  BY DEF PlanInv, Fast
<1>2. ModeFromArgs \in {"smart", "smart-auto"}
  BY DEF ModeFromArgs, Smart
<1>3. copied = PlanSegments(video, gops, Ranges, ModeFromArgs, args.encoder, tolerance)
  BY DEF PlanInv, Planned
<1>4. DOMAIN Ranges = 1..Count
  BY DEF Ranges
<1>5. copied[i] <=>
        \/ ModeFromArgs = "copy"
        \/ /\ ModeFromArgs \in {"smart", "smart-auto"}
           /\ Blockers(video, args.encoder) = {}
           /\ OnTarget(Overlapping(gops, Ranges[i]), tolerance)
  BY <1>3, <1>4 DEF PlanSegments
<1>. QED
  BY <1>1, <1>2, <1>5

(* The groups that overlap the range of a segment are those that start in   *)
(* it, when every group lasts and the range is not the last of a source     *)
(* that starts late.                                                        *)
LEMMA OverlapIsOwn ==
  ASSUME [video |-> video, args |-> args] \in Launches,
         gops = GopStats(video.groups, video.offset),
         \A k \in 1..Len(gops) : gops[k].last > gops[k].first,
         NEW i \in 1..Count, i < Count \/ video.offset = 0
  PROVE  Overlapping(gops, Ranges[i]) =
           At(gops, { k \in 1..Len(gops) :
                        First(i - 1) <= gops[k].first /\ gops[k].first <= Last(i - 1) })
<1>1. /\ IsSource(video) /\ Len(video.groups) \in Nat /\ Count \in Nat /\ i - 1 \in Ids
  BY SourceFacts
<1>2. PICK n : n = Len(video.groups)
  OBVIOUS
<1>3. PICK B : B = [k \in 1..n + 1 |-> Before(video.groups, k)]
  OBVIOUS
<1>4. PICK offset : offset = video.offset
  OBVIOUS
<1>5. n \in Nat /\ offset \in Nat
  BY <1>1, <1>2, <1>4 DEF IsSource
<1>6. /\ B \in [1..n + 1 -> Nat] /\ B[1] = 0 /\ \A k \in 1..n + 1 : B[k] = Before(video.groups, k)
      /\ \A k \in 1..n : B[k + 1] = B[k] + video.groups[k].frames
      /\ \A k \in 1..n : video.groups[k].frames \in Nat \ {0}
      /\ \A j, k \in 1..n + 1 : j < k <=> B[j] < B[k]
  <2>1. video.groups \in Seq([frames : Nat \ {0}, size : Nat])
    BY <1>1 DEF IsSource
  <2>2. /\ \A k \in 1..n : video.groups[k].frames \in Nat \ {0}
        /\ Before(video.groups, 1) = 0
        /\ \A k \in 1..n + 1 : Before(video.groups, k) \in Nat
        /\ \A k \in 1..n : Before(video.groups, k + 1) = Before(video.groups, k) + video.groups[k].frames
    BY <1>2, <2>1, BeforeFacts
  <2>3. \A j, k \in 1..n + 1 : j < k <=> Before(video.groups, j) < Before(video.groups, k)
    BY <1>2, <2>1, BeforeGrows
  <2>4. /\ 1 \in 1..n + 1
        /\ \A k \in 1..n : k \in 1..n + 1 /\ k + 1 \in 1..n + 1
    BY <1>5
  <2>. QED
    BY <1>3, <2>2, <2>3, <2>4
<1>7. /\ Len(gops) = n
      /\ \A k \in 1..n : /\ gops[k].first = B[k]
                         /\ gops[k].last = B[k] + video.groups[k].frames - 1
                         /\ gops[k].from = IF k = 1 THEN 0 ELSE offset + B[k]
                         /\ gops[k].to = offset + (B[k] + video.groups[k].frames - 1)
  <2>1. \A k \in 1..n : Before(video.groups, k) = B[k]
    BY <1>5, <1>6
  <2>. QED
    BY <1>2, <1>4, <1>5, <2>1 DEF GopStats
<1>8. PICK s \in 1..n : First(i - 1) = B[s] /\ s = Start(i - 1)
  <2>1. Start(i - 1) \in 1..n /\ First(i - 1) = Before(video.groups, Start(i - 1))
    BY <1>1, <1>2, StartFacts
  <2>2. Start(i - 1) \in 1..n + 1
    BY <1>5, <2>1
  <2>. QED
    BY <1>6, <2>1, <2>2
<1>9. ASSUME NEW k \in 1..n
      PROVE  gops[k].to > Ranges[i].from <=> First(i - 1) <= gops[k].first
  <2>1. Ranges[i].from = offset + B[s]
    BY <1>4, <1>8 DEF Ranges
  <2>2. gops[k].to = offset + (B[k] + video.groups[k].frames - 1) /\ gops[k].first = B[k]
    BY <1>7
  <2>3. B[k] \in Nat /\ B[s] \in Nat /\ video.groups[k].frames \in Nat
    <3>1. k \in 1..n + 1 /\ s \in 1..n + 1
      BY <1>5
    <3>. QED
      BY <1>6, <3>1
  <2>4. PICK f \in Nat, b \in Nat, c \in Nat :
          f = video.groups[k].frames /\ b = B[k] /\ c = B[s]
    BY <2>3
  <2>5. /\ gops[k].to > Ranges[i].from <=> offset + (b + f - 1) > offset + c
        /\ First(i - 1) <= gops[k].first <=> c <= b
    BY <1>8, <2>1, <2>2, <2>4
  <2>6. B[k] + video.groups[k].frames - 1 > B[k]
    BY <1>7
  <2>7. CASE k < s
    <3>1. k + 1 \in 1..n + 1 /\ s \in 1..n + 1 /\ k \in 1..n + 1 /\ ~(s < k + 1)
      BY <1>5, <2>7
    <3>2. B[k + 1] <= B[s] /\ B[k] < B[s] /\ B[k + 1] = B[k] + video.groups[k].frames
      <4>1. ~(B[s] < B[k + 1]) /\ B[k] < B[s] /\ B[k + 1] = B[k] + video.groups[k].frames
        BY <1>6, <2>7, <3>1
      <4>2. B[s] \in Nat /\ B[k + 1] \in Nat
        BY <1>6, <3>1
      <4>. QED
        BY <4>1, <4>2
    <3>3. b + f <= c /\ b < c
      BY <2>4, <3>2
    <3>. QED
      BY <1>5, <2>5, <3>3
  <2>8. CASE ~(k < s)
    <3>1. k \in 1..n + 1 /\ s \in 1..n + 1
      BY <1>5
    <3>2. B[s] <= B[k]
      <4>1. ~(B[k] < B[s])
        BY <1>6, <2>8, <3>1
      <4>. QED
        BY <2>3, <4>1
    <3>3. c <= b /\ b + f - 1 > b
      BY <2>6, <2>4, <3>2
    <3>. QED
      BY <1>5, <2>5, <3>3
  <2>. QED
    BY <2>7, <2>8
<1>10. ASSUME NEW k \in 1..n
       PROVE  gops[k].from < Ranges[i].to <=> gops[k].first <= Last(i - 1)
  <2>1. gops[k].from = (IF k = 1 THEN 0 ELSE offset + B[k]) /\ gops[k].first = B[k]
    BY <1>7
  <2>2. k \in 1..n + 1 /\ 1 \in 1..n + 1 /\ B[k] \in Nat /\ B[1] = 0
    BY <1>5, <1>6
  <2>3. CASE i = Count
    <3>1. Ranges[i].to = Frames /\ Last(i - 1) = Frames - 1 /\ offset = 0
      BY <1>1, <1>4, <2>3 DEF Ranges, Last
    <3>2. Frames = B[n + 1]
      <4>1. n + 1 \in 1..n + 1
        BY <1>5
      <4>. QED
        BY <1>2, <1>6, <4>1 DEF Frames
    <3>3. B[n + 1] \in Nat
      BY <1>5, <1>6
    <3>. QED
      BY <2>1, <2>2, <3>1, <3>2, <3>3
  <2>4. CASE i # Count
    <3>1. i \in Ids /\ (i - 1) + 1 = i /\ i - 1 # Count - 1 /\ i - 1 < i
      BY <1>1, <2>4 DEF Ids
    <3>2. PICK t \in 1..n : First(i) = B[t] /\ s < t
      <4>1. Start(i) \in 1..n /\ First(i) = Before(video.groups, Start(i)) /\ Start(i - 1) < Start(i)
        BY <1>1, <1>2, <3>1, StartFacts
      <4>2. Start(i) \in 1..n + 1
        BY <1>5, <4>1
      <4>. QED
        BY <1>6, <1>8, <4>1, <4>2
    <3>3. Ranges[i].to = offset + B[t] /\ Last(i - 1) = B[t] - 1
      BY <1>4, <2>4, <3>1, <3>2 DEF Ranges, Last
    <3>4. B[t] \in Nat /\ B[1] < B[t]
      <4>1. t \in 1..n + 1 /\ 1 < t
        BY <1>5, <3>2
      <4>. QED
        BY <1>6, <2>2, <4>1
    <3>. QED
      BY <1>5, <2>1, <2>2, <3>3, <3>4
  <2>. QED
    BY <2>3, <2>4
<1>11. { k \in 1..Len(gops) : gops[k].from < Ranges[i].to /\ gops[k].to > Ranges[i].from } =
       { k \in 1..Len(gops) : First(i - 1) <= gops[k].first /\ gops[k].first <= Last(i - 1) }
  BY <1>7, <1>9, <1>10
<1>. QED
  BY <1>11 DEF Overlapping

(* A plan made as the invariant says decides by the groups of the segment.  *)
LEMMA OwnGroups ==
  ASSUME PlanInv, [video |-> video, args |-> args] \in Launches
  PROVE  OwnGroupsDecide
<1>. SUFFICES ASSUME stage = "copy", Smart,
                     \A k \in 1..Len(gops) : gops[k].last > gops[k].first,
                     NEW i \in 1..Count, i < Count \/ video.offset = 0
              PROVE  copied[i] <=>
                       /\ Blockers(video, args.encoder) = {}
                       /\ OnTarget(At(gops, { k \in 1..Len(gops) :
                                                /\ First(i - 1) <= gops[k].first
                                                /\ gops[k].first <= Last(i - 1) }), tolerance)
  BY DEF OwnGroupsDecide
<1>1. /\ gops = GopStats(video.groups, video.offset)
      /\ copied[i] <=> /\ Blockers(video, args.encoder) = {}
                       /\ OnTarget(Overlapping(gops, Ranges[i]), tolerance)
  BY SmartPlan
<1>2. Overlapping(gops, Ranges[i]) =
        At(gops, { k \in 1..Len(gops) :
                     First(i - 1) <= gops[k].first /\ gops[k].first <= Last(i - 1) })
  BY <1>1, OverlapIsOwn
<1>. QED
  BY <1>1, <1>2

-----------------------------------------------------------------------------
(* The two pools *)

Result(I) == [id : I, ok : BOOLEAN]

(* Every segment of a pool is to be started, at work or has a result, and   *)
(* is so once.                                                              *)
Shared(p, I) ==
  /\ p \in [todo : Seq(I), running : SUBSET I, results : Seq(Result(I))]
  /\ \A id \in I : \/ \E i \in 1..Len(p.todo) : p.todo[i] = id
                   \/ id \in p.running
                   \/ \E i \in 1..Len(p.results) : p.results[i].id = id
  /\ \A i, k \in 1..Len(p.todo) : p.todo[i] = p.todo[k] => i = k
  /\ \A i \in 1..Len(p.todo) : p.todo[i] \notin p.running
  /\ \A i, k \in 1..Len(p.results) : p.results[i].id = p.results[k].id => i = k
  /\ \A i \in 1..Len(p.results) :
       /\ p.results[i].id \notin p.running
       /\ \A k \in 1..Len(p.todo) : p.todo[k] # p.results[i].id

(* A new stream has every segment to start.                                 *)
LEMMA NewPoolShared ==
  ASSUME NEW I \in SUBSET Nat, IsFiniteSet(I)
  PROVE  Shared(NewPool(I), I)
<1>1. PICK s : s = Ascending(I)
  OBVIOUS
<1>2. /\ s \in Seq(I) /\ Len(s) = Cardinality(I) /\ Cardinality(I) \in Nat
      /\ \A n \in I : \E i \in 1..Len(s) : s[i] = n
      /\ \A i, k \in 1..Len(s) : i < k <=> s[i] < s[k]
  <2>1. I \in SUBSET Int
    OBVIOUS
  <2>. QED
    BY <1>1, <2>1, AscendingFacts
<1>3. \A i, k \in 1..Len(s) : s[i] = s[k] => i = k
  <2>. SUFFICES ASSUME NEW i \in 1..Len(s), NEW k \in 1..Len(s), s[i] = s[k]
                PROVE  i = k
    OBVIOUS
  <2>1. s[i] \in Nat
    BY <1>2, ElementOfSeq
  <2>2. ~(s[i] < s[k]) /\ ~(s[k] < s[i])
    BY <2>1
  <2>3. ~(i < k) /\ ~(k < i) /\ i \in Nat /\ k \in Nat
    BY <1>2, <2>2
  <2>. QED
    BY <2>3
<1>4. PICK p : p = NewPool(I)
  OBVIOUS
<1>5. p = [todo |-> s, running |-> {}, results |-> <<>>]
  BY <1>1, <1>4 DEF NewPool
<1>6. /\ p.todo = s /\ p.running = {} /\ p.results = <<>>
      /\ <<>> \in Seq(Result(I)) /\ Len(<<>>) = 0
      /\ p \in [todo : Seq(I), running : SUBSET I, results : Seq(Result(I))]
  BY <1>2, <1>5
<1>. QED
  BY <1>2, <1>3, <1>4, <1>6 DEF Shared

(* A child is started: it is the next one of those that are to be.          *)
LEMMA StartKeepsShared ==
  ASSUME NEW p, NEW I, Shared(p, I), p.todo # <<>>, NEW q,
         q = [p EXCEPT !.todo = Tail(@), !.running = @ \union {Head(p.todo)}]
  PROVE  /\ Shared(q, I) /\ q.results = p.results
         /\ Head(p.todo) \in I /\ q.running = p.running \union {Head(p.todo)}
<1>1. p \in [todo : Seq(I), running : SUBSET I, results : Seq(Result(I))]
  BY DEF Shared
<1>2. PICK s \in Seq(I) : s = p.todo
  BY <1>1
<1>3. PICK t \in Seq(I), h \in I : t = Tail(s) /\ h = Head(s)
  BY <1>2, HeadTailProperties
<1>4. /\ Len(s) \in Nat \ {0} /\ Len(t) = Len(s) - 1 /\ h = s[1]
      /\ \A i \in 1..Len(t) : t[i] = s[i + 1] /\ i + 1 \in 1..Len(s)
  <2>1. Len(s) \in Nat \ {0}
    BY <1>2, EmptySeq
  <2>2. Len(t) = Len(s) - 1
    BY <1>2, <1>3, HeadTailProperties
  <2>3. h = s[1]
    BY <1>3
  <2>4. \A i \in 1..Len(t) : t[i] = s[i + 1]
    BY <1>3, <2>2
  <2>. QED
    BY <2>1, <2>2, <2>3, <2>4
<1>5. q.todo = t /\ q.running = p.running \union {h} /\ q.results = p.results
  BY <1>1, <1>2, <1>3
<1>6. q \in [todo : Seq(I), running : SUBSET I, results : Seq(Result(I))]
  BY <1>1, <1>2, <1>3
<1>7. \A id \in I : \/ \E i \in 1..Len(t) : t[i] = id
                    \/ id \in q.running
                    \/ \E i \in 1..Len(q.results) : q.results[i].id = id
  <2>1. ASSUME NEW id \in I, NEW i \in 1..Len(s), s[i] = id
        PROVE  (\E k \in 1..Len(t) : t[k] = id) \/ id = h
    <3>1. CASE i = 1
      BY <1>4, <2>1, <3>1
    <3>2. CASE i # 1
      <4>1. i - 1 \in 1..Len(t) /\ (i - 1) + 1 = i
        BY <1>4, <3>2
      <4>2. t[i - 1] = id
        BY <1>4, <2>1, <4>1
      <4>. QED
        BY <4>1, <4>2
    <3>. QED
      BY <3>1, <3>2
  <2>2. \A id \in I : \/ \E i \in 1..Len(s) : s[i] = id
                      \/ id \in p.running
                      \/ \E i \in 1..Len(p.results) : p.results[i].id = id
    BY <1>2 DEF Shared
  <2>. QED
    BY <1>5, <2>1, <2>2
<1>8. \A i, k \in 1..Len(s) : s[i] = s[k] => i = k
  BY <1>2 DEF Shared
<1>9. \A i, k \in 1..Len(t) : t[i] = t[k] => i = k
  <2>. SUFFICES ASSUME NEW i \in 1..Len(t), NEW k \in 1..Len(t), t[i] = t[k]
                PROVE  i = k
    OBVIOUS
  <2>1. i + 1 = k + 1 /\ i \in Nat /\ k \in Nat
    BY <1>4, <1>8
  <2>. QED
    BY <2>1
<1>10. \A i \in 1..Len(t) : t[i] \notin q.running
  <2>. SUFFICES ASSUME NEW i \in 1..Len(t)
                PROVE  t[i] \notin p.running /\ t[i] # h
    BY <1>5
  <2>1. t[i] = s[i + 1] /\ i + 1 \in 1..Len(s) /\ 1 \in 1..Len(s) /\ i + 1 # 1
    BY <1>4
  <2>2. s[i + 1] \notin p.running
    BY <1>2, <2>1 DEF Shared
  <2>. QED
    BY <1>4, <1>8, <2>1, <2>2
<1>11. \A i, k \in 1..Len(q.results) : q.results[i].id = q.results[k].id => i = k
  BY <1>5 DEF Shared
<1>12. \A i \in 1..Len(q.results) :
         /\ q.results[i].id \notin q.running
         /\ \A k \in 1..Len(t) : t[k] # q.results[i].id
  <2>1. \A i \in 1..Len(p.results) :
          p.results[i].id \notin p.running /\ \A k \in 1..Len(s) : s[k] # p.results[i].id
    BY <1>2 DEF Shared
  <2>2. 1 \in 1..Len(s)
    BY <1>4
  <2>. QED
    BY <1>4, <1>5, <2>1, <2>2
<1>13. Shared(q, I)
  <2>1. \A id \in I : \/ \E i \in 1..Len(q.todo) : q.todo[i] = id
                      \/ id \in q.running
                      \/ \E i \in 1..Len(q.results) : q.results[i].id = id
    BY <1>5, <1>7
  <2>2. \A i, k \in 1..Len(q.todo) : q.todo[i] = q.todo[k] => i = k
    BY <1>5, <1>9
  <2>3. \A i \in 1..Len(q.todo) : q.todo[i] \notin q.running
    BY <1>5, <1>10
  <2>4. \A i, k \in 1..Len(q.results) : q.results[i].id = q.results[k].id => i = k
    BY <1>5, <1>11
  <2>5. \A i \in 1..Len(q.results) :
          /\ q.results[i].id \notin q.running
          /\ \A k \in 1..Len(q.todo) : q.todo[k] # q.results[i].id
    BY <1>5, <1>12
  <2>. QED
    BY <1>6, <2>1, <2>2, <2>3, <2>4, <2>5, Zenon DEF Shared
<1>. QED
  BY <1>2, <1>3, <1>5, <1>13

(* A child ends: it has a result then.                                      *)
Ended(p, e) == [p EXCEPT !.running = @ \ {e.id}, !.results = Append(@, e)]

(* The end of a child turns it into a result.                               *)
LEMMA EndKeepsShared ==
  ASSUME NEW p, NEW I, Shared(p, I), NEW e \in Result(I), e.id \in p.running, NEW q,
         q = Ended(p, e)
  PROVE  /\ Shared(q, I) /\ q.running = p.running \ {e.id}
         /\ Len(p.results) \in Nat /\ Len(q.results) = Len(p.results) + 1
         /\ \A i \in 1..Len(p.results) : q.results[i] = p.results[i] /\ p.results[i].id # e.id
         /\ q.results[Len(p.results) + 1] = e
<1>1. p \in [todo : Seq(I), running : SUBSET I, results : Seq(Result(I))] /\ e.id \in I
  BY DEF Shared, Result
<1>2. PICK s \in Seq(Result(I)) : s = p.results
  BY <1>1
<1>3. PICK t \in Seq(Result(I)) : t = Append(s, e)
  BY <1>2, AppendProperties
<1>4. /\ Len(s) \in Nat /\ Len(t) = Len(s) + 1 /\ t[Len(s) + 1] = e
      /\ \A i \in 1..Len(s) : t[i] = s[i]
  <2>1. Len(s) \in Nat
    BY LenProperties
  <2>. QED
    BY <1>2, <1>3, <2>1, AppendProperties
<1>5. q.todo = p.todo /\ q.running = p.running \ {e.id} /\ q.results = t
  BY <1>1, <1>2, <1>3 DEF Ended
<1>6. q \in [todo : Seq(I), running : SUBSET I, results : Seq(Result(I))]
  BY <1>1, <1>2, <1>3 DEF Ended
<1>7. Len(s) + 1 \in 1..Len(t) /\ \A i \in 1..Len(s) : i \in 1..Len(t)
  BY <1>2, <1>4
<1>8. \A i \in 1..Len(t) : i \in 1..Len(s) \/ i = Len(s) + 1
  BY <1>4
<1>9. \A i \in 1..Len(s) : s[i].id # e.id
  BY <1>2 DEF Shared
<1>10. \A j \in I : \/ \E i \in 1..Len(p.todo) : p.todo[i] = j
                    \/ j \in q.running
                    \/ \E i \in 1..Len(t) : t[i].id = j
  <2>1. \A j \in I : \/ \E i \in 1..Len(p.todo) : p.todo[i] = j
                     \/ j \in p.running
                     \/ \E i \in 1..Len(s) : s[i].id = j
    BY <1>2 DEF Shared
  <2>. QED
    BY <1>4, <1>5, <1>7, <2>1
<1>11. \A i \in 1..Len(p.todo) : p.todo[i] \notin q.running /\ p.todo[i] # e.id
  BY <1>5 DEF Shared
<1>12. \A i, k \in 1..Len(t) : t[i].id = t[k].id => i = k
  <2>1. \A i, k \in 1..Len(s) : s[i].id = s[k].id => i = k
    BY <1>2 DEF Shared
  <2>. QED
    BY <1>4, <1>7, <1>8, <1>9, <2>1
<1>13. \A i \in 1..Len(t) :
         t[i].id \notin q.running /\ \A k \in 1..Len(p.todo) : p.todo[k] # t[i].id
  <2>1. \A i \in 1..Len(s) :
          s[i].id \notin p.running /\ \A k \in 1..Len(p.todo) : p.todo[k] # s[i].id
    BY <1>2 DEF Shared
  <2>. QED
    BY <1>4, <1>5, <1>7, <1>8, <1>11, <2>1
<1>14. \A i, k \in 1..Len(p.todo) : p.todo[i] = p.todo[k] => i = k
  BY DEF Shared
<1>15. Shared(q, I)
  <2>1. \A j \in I : \/ \E i \in 1..Len(q.todo) : q.todo[i] = j
                     \/ j \in q.running
                     \/ \E i \in 1..Len(q.results) : q.results[i].id = j
    BY <1>5, <1>10
  <2>2. \A i, k \in 1..Len(q.todo) : q.todo[i] = q.todo[k] => i = k
    BY <1>5, <1>14
  <2>3. \A i \in 1..Len(q.todo) : q.todo[i] \notin q.running
    BY <1>5, <1>11
  <2>4. \A i, k \in 1..Len(q.results) : q.results[i].id = q.results[k].id => i = k
    BY <1>5, <1>12
  <2>5. \A i \in 1..Len(q.results) :
          /\ q.results[i].id \notin q.running
          /\ \A k \in 1..Len(q.todo) : q.todo[k] # q.results[i].id
    BY <1>5, <1>13
  <2>. QED
    BY <1>6, <2>1, <2>2, <2>3, <2>4, <2>5, Zenon DEF Shared
<1>. QED
  BY <1>2, <1>4, <1>5, <1>9, <1>15

(* The end of a child of the coordinator is that of one in its pool.        *)
LEMMA ChildEnds ==
  ASSUME NEW I, Shared(pool, I), NEW id \in pool.running
  PROVE  /\ Ends(id, TRUE) => \E e \in Result(I) : e.id = id /\ e.ok /\ pool' = Ended(pool, e)
         /\ Ends(id, FALSE) => \E e \in Result(I) : e.id = id /\ ~e.ok /\ pool' = Ended(pool, e)
<1>1. id \in I
  BY DEF Shared
<1>2. ASSUME Ends(id, TRUE)
      PROVE  \E e \in Result(I) : e.id = id /\ e.ok /\ pool' = Ended(pool, e)
  <2>1. PICK e : e = [id |-> id, ok |-> TRUE]
    OBVIOUS
  <2>2. e \in Result(I) /\ e.id = id /\ e.ok
    BY <1>1, <2>1 DEF Result
  <2>3. pool' = Ended(pool, e)
    BY <1>2, <2>1 DEF Ends, Ended
  <2>. QED
    BY <2>2, <2>3
<1>3. ASSUME Ends(id, FALSE)
      PROVE  \E e \in Result(I) : e.id = id /\ ~e.ok /\ pool' = Ended(pool, e)
  <2>1. PICK e : e = [id |-> id, ok |-> FALSE]
    OBVIOUS
  <2>2. e \in Result(I) /\ e.id = id /\ ~e.ok
    BY <1>1, <2>1 DEF Result
  <2>3. pool' = Ended(pool, e)
    BY <1>3, <2>1 DEF Ends, Ended
  <2>. QED
    BY <2>2, <2>3
<1>. QED
  BY <1>2, <1>3

(* Whatever the child reported, its end is one the pool records.            *)
LEMMA SomeChildEnds ==
  ASSUME NEW I, Shared(pool, I), NEW id \in pool.running,
         Ends(id, TRUE) \/ Ends(id, FALSE)
  PROVE  \E e \in Result(I) : e.id = id /\ pool' = Ended(pool, e)
<1>1. CASE Ends(id, TRUE)
  <2>1. \E e \in Result(I) : e.id = id /\ e.ok /\ pool' = Ended(pool, e)
    BY <1>1, ChildEnds
  <2>. QED
    BY <2>1
<1>2. CASE ~Ends(id, TRUE)
  <2>1. Ends(id, FALSE)
    BY <1>2
  <2>2. \E e \in Result(I) : e.id = id /\ ~e.ok /\ pool' = Ended(pool, e)
    BY <2>1, ChildEnds
  <2>. QED
    BY <2>2
<1>. QED
  BY <1>1, <1>2

(* Once the pool is drained every segment has a result.                     *)
LEMMA DrainedHasAll ==
  ASSUME NEW p, NEW I, Shared(p, I), p.todo = <<>>, p.running = {}
  PROVE  \A id \in I : \E i \in 1..Len(p.results) : p.results[i].id = id
<1>1. \A i : i \notin 1..Len(p.todo)
  <2>1. Len(<<>>) = 0
    BY EmptySeq
  <2>. QED
    BY <2>1
<1>. QED
  BY <1>1 DEF Shared

(* The segments in a pool are all of them, or those the plan encodes.       *)
ShareInv ==
  /\ stage = "split" => Shared(pool, Ids)
  /\ stage = "encode" => Shared(pool, ToEncode)

(* What is to be encoded depends on the plan alone.                         *)
LEMMA ToEncodeStays ==
  ASSUME UNCHANGED <<video, args, copied>>
  PROVE  ToEncode' = ToEncode
BY Fixed DEF ToEncode

(* A step of the coordinator keeps the streams shared out.                  *)
LEMMA CoordinatorKeepsShare ==
  ASSUME ShareInv, [video |-> video, args |-> args] \in Launches, CoordinatorNext
  PROVE  ShareInv'
<1>. UNCHANGED <<video, args>>
  BY CoordinatorRigid
<1>1. /\ Ids' = Ids /\ Ids \in SUBSET Nat /\ IsFiniteSet(Ids)
      /\ ToEncode \in SUBSET Nat /\ IsFiniteSet(ToEncode)
  <2>1. Ids' = Ids /\ Ids \in SUBSET Nat /\ IsFiniteSet(Ids)
    BY Fixed, SourceFacts
  <2>2. ToEncode \in SUBSET Ids
    BY DEF ToEncode
  <2>. QED
    BY <2>1, <2>2, FS_Subset
<1>2. CASE Analyze
  <2>1. \/ stage' = "split" /\ pool' = NewPool(Ids)
        \/ stage' = "plan" \/ stage' = "failed"
    BY <1>2 DEF Analyze, Fail
  <2>2. Shared(NewPool(Ids), Ids)
    BY <1>1, NewPoolShared
  <2>. QED
    BY <1>1, <2>1, <2>2 DEF ShareInv
<1>3. CASE FindWorker
  <2>1. /\ copied' = copied
        /\ \/ stage' = "encode" /\ pool' = NewPool(ToEncode)
           \/ stage' = "collected" \/ stage' = "failed"
    BY <1>3 DEF FindWorker, Fail
  <2>2. Shared(NewPool(ToEncode), ToEncode)
    BY <1>1, NewPoolShared
  <2>3. ToEncode' = ToEncode
    BY <2>1, ToEncodeStays
  <2>. QED
    BY <2>1, <2>2, <2>3 DEF ShareInv
<1>4. CASE Starts
  <2>1. /\ stage' = stage /\ copied' = copied /\ pool.todo # <<>>
        /\ pool' = [pool EXCEPT !.todo = Tail(@), !.running = @ \union {Head(pool.todo)}]
    BY <1>4 DEF Starts
  <2>2. ToEncode' = ToEncode
    BY <2>1, ToEncodeStays
  <2>3. stage = "split" => Shared(pool', Ids)
    BY <2>1, StartKeepsShared DEF ShareInv
  <2>4. stage = "encode" => Shared(pool', ToEncode)
    BY <2>1, StartKeepsShared DEF ShareInv
  <2>. QED
    BY <1>1, <2>1, <2>2, <2>3, <2>4 DEF ShareInv
<1>5. CASE \E id \in Ids : SplitEnds(id) \/ WorkerEnds(id)
  <2>1. PICK id \in Ids : SplitEnds(id) \/ WorkerEnds(id)
    BY <1>5
  <2>2. /\ stage' = stage /\ copied' = copied /\ id \in pool.running
        /\ Ends(id, TRUE) \/ Ends(id, FALSE)
    BY <2>1 DEF SplitEnds, WorkerEnds
  <2>3. ASSUME NEW I, Shared(pool, I)
        PROVE  Shared(pool', I)
    <3>1. PICK e \in Result(I) : e.id = id /\ pool' = Ended(pool, e)
      BY <2>2, <2>3, SomeChildEnds, Zenon
    <3>. QED
      BY <2>2, <2>3, <3>1, EndKeepsShared
  <2>4. ToEncode' = ToEncode
    BY <2>2, ToEncodeStays
  <2>. QED
    BY <1>1, <2>2, <2>3, <2>4 DEF ShareInv
<1>6. CASE SplitDone \/ Decide \/ CopySegments \/ Collect \/ Assemble
  <2>1. stage' \notin {"split", "encode"}
    BY <1>6 DEF SplitDone, Decide, CopySegments, Collect, Assemble, Fail
  <2>. QED
    BY <2>1 DEF ShareInv
<1>. QED
  BY <1>2, <1>3, <1>4, <1>5, <1>6 DEF CoordinatorNext

-----------------------------------------------------------------------------
(* The paths of the cuts *)

Presplit == Fast /\ ~Has("smart-report")

(* There are paths from the end of the cutting on, if there was one; a      *)
(* report goes no further than the plan.                                    *)
PathInv ==
  /\ stage = "split" => Presplit
  /\ stage \in {"analyze", "split"} => paths = <<>>
  /\ stage \in {"plan"} \union Planned => paths = IF Presplit THEN SortedPaths ELSE <<>>
  /\ stage \in {"copy", "find", "encode", "collected"} => ~Has("smart-report")
  /\ paths \in {<<>>, SortedPaths}

(* A step of the coordinator keeps the paths it collects.                   *)
LEMMA CoordinatorKeepsPaths ==
  ASSUME PathInv, CoordinatorNext
  PROVE  PathInv'
<1>. UNCHANGED <<video, args>>
  BY CoordinatorRigid
<1>1. /\ SortedPaths' = SortedPaths /\ (Presplit' <=> Presplit)
      /\ (Has("smart-report")' <=> Has("smart-report"))
  BY Fixed DEF Presplit, Has
<1>2. CASE Analyze
  <2>1. /\ stage = "analyze" /\ paths' = paths
        /\ \/ Presplit /\ stage' = "split"
           \/ ~Presplit /\ stage' = "plan"
           \/ stage' = "failed"
    BY <1>2 DEF Analyze, Fail, Presplit
  <2>. QED
    BY <1>1, <2>1 DEF PathInv, Planned
<1>3. CASE SplitDone
  <2>1. /\ stage = "split"
        /\ \/ stage' = "failed" /\ paths' = paths
           \/ stage' = "plan" /\ paths' = SortedPaths
    BY <1>3 DEF SplitDone, Fail
  <2>. QED
    BY <1>1, <2>1 DEF PathInv, Planned
<1>4. CASE Decide
  <2>1. /\ stage = "plan" /\ paths' = paths
        /\ \/ stage' = "failed"
           \/ stage' = IF Has("smart-report") THEN "done" ELSE "copy"
    BY <1>4 DEF Decide, Fail
  <2>. QED
    BY <1>1, <2>1 DEF PathInv, Planned
<1>5. CASE CopySegments \/ FindWorker \/ Collect \/ Assemble
  <2>1. /\ stage \in {"copy", "find", "encode", "collected"} /\ paths' = paths
        /\ stage' \in {"find", "encode", "collected", "done", "failed"}
    BY <1>5 DEF CopySegments, FindWorker, Collect, Assemble, Fail
  <2>. QED
    BY <1>1, <2>1 DEF PathInv, Planned
<1>6. CASE Starts \/ \E id \in Ids : SplitEnds(id) \/ WorkerEnds(id)
  <2>1. stage' = stage /\ paths' = paths
    BY <1>6 DEF Starts, SplitEnds, WorkerEnds
  <2>. QED
    BY <1>1, <2>1 DEF PathInv
<1>. QED
  BY <1>2, <1>3, <1>4, <1>5, <1>6 DEF CoordinatorNext

-----------------------------------------------------------------------------
(* Types *)

Contents == [seg : Ids \union {-1}, how : {"none", "part", "copy", "encode"}]

(* A file holds nothing, a part, a cut segment, or something encoded.       *)
LEMMA ContentFacts ==
  /\ Nothing \in Contents /\ Part \in Contents
  /\ \A id \in Ids : Cut(id) \in Contents
  /\ \A content \in Contents : Encoded(content) \in Contents
BY DEF Contents, Nothing, Part, Cut, Encoded

(* What a segment is cut or encoded from has a name and a content.          *)
LEMMA InputFacts ==
  ASSUME TypeOK, PathInv, NEW id \in Ids
  PROVE  /\ paths # <<>> => paths[id + 1] \in Names
         /\ InputOf(id) \in Contents
<1>1. [video |-> video, args |-> args] \in Launches /\ files \in [Names -> Contents]
  BY DEF TypeOK, Contents
<1>2. Count \in Nat
  BY <1>1, SourceFacts
<1>3. ASSUME paths # <<>>
      PROVE  paths[id + 1] \in Names
  <2>1. paths = SortedPaths /\ SortedPaths \in Seq(Names) /\ Len(SortedPaths) = Count
    BY <1>1, <1>3, SortedPathsFacts DEF PathInv
  <2>2. id + 1 \in 1..Len(SortedPaths)
    BY <1>2, <2>1 DEF Ids
  <2>. QED
    BY <2>1, <2>2, ElementOfSeq
<1>4. InputOf(id) \in Contents
  BY <1>1, <1>3, ContentFacts DEF InputOf
<1>. QED
  BY <1>3, <1>4

(* The files keep their types. *)
LEMMA CoordinatorFilesType ==
  ASSUME TypeOK, PathInv, CoordinatorNext
  PROVE  files' \in [Names -> Contents]
<1>1. /\ files \in [Names -> Contents] /\ DOMAIN files = Names
      /\ \A n \in Names : files[n] \in Contents
  BY DEF TypeOK, Contents
<1>2. CASE Analyze \/ Starts \/ SplitDone \/ Decide \/ FindWorker \/ Collect \/ Assemble
  BY <1>1, <1>2 DEF Analyze, Starts, SplitDone, Decide, FindWorker, Collect, Assemble
<1>3. CASE CopySegments
  <2>1. \E ids \in SUBSET ToCopy :
          \/ files' = CopiesOf(ids)
          \/ \E id \in Ids : files' = [CopiesOf(ids) EXCEPT ![SegmentFile(id)] = Part]
    <3>1. CASE files' = CopiesOf(ToCopy)
      BY <3>1
    <3>2. CASE \E id \in ToCopy :
                 LET copies == CopiesOf({ k \in ToCopy : k < id }) IN
                   files' \in {copies, [copies EXCEPT ![SegmentFile(id)] = Part]}
      BY <3>2 DEF ToCopy
    <3>. QED
      BY <1>3, <3>1, <3>2 DEF CopySegments
  <2>2. \A n \in Names : n[2] \in ToCopy => CopyOf(paths[n[2] + 1], n) \in Contents
    <3>. SUFFICES ASSUME NEW n \in Names, n[2] \in ToCopy
                  PROVE  CopyOf(paths[n[2] + 1], n) \in Contents
      OBVIOUS
    <3>1. n[2] \in Ids /\ paths # <<>>
      BY DEF ToCopy
    <3>2. paths[n[2] + 1] \in Names
      BY <3>1, InputFacts
    <3>. QED
      BY <1>1, <3>2, ContentFacts DEF CopyOf
  <2>3. \A ids \in SUBSET ToCopy : CopiesOf(ids) \in [Names -> Contents]
    BY <1>1, <2>2 DEF CopiesOf
  <2>4. \A id \in Ids : SegmentFile(id) \in Names
    BY FileFacts
  <2>. QED
    BY <2>1, <2>3, <2>4, ContentFacts
<1>4. CASE \E id \in Ids : SplitEnds(id) \/ WorkerEnds(id)
  <2>1. PICK id \in Ids : SplitEnds(id) \/ WorkerEnds(id)
    BY <1>4
  <2>2. /\ Cut(id) \in Contents
        /\ (IF InPlace(id) THEN Part ELSE Encoded(InputOf(id))) \in Contents
    BY <2>1, ContentFacts, InputFacts
  <2>3. \/ files' = files
        \/ \E n \in Names, c \in Contents : files' = [files EXCEPT ![n] = c]
    BY <2>1, <2>2, ContentFacts, FileFacts DEF SplitEnds, WorkerEnds, Broken
  <2>4. \A n \in Names, c \in Contents : [files EXCEPT ![n] = c] \in [Names -> Contents]
    BY <1>1
  <2>. QED
    BY <1>1, <2>1, <2>2, <2>3, <2>4, FileFacts
<1>. QED
  BY <1>2, <1>3, <1>4 DEF CoordinatorNext

Entries == Seq([id : Ids, file : Names])

(* A function on the first numbers is a sequence.                           *)
LEMMA FunctionIsSeq ==
  ASSUME NEW V, NEW n \in Nat, NEW s \in [1..n -> V]
  PROVE  s \in Seq(V) /\ Len(s) = n
OBVIOUS

(* A function from the first numbers to entries is a list of them.          *)
LEMMA ListOfEntries ==
  ASSUME NEW n \in Nat, NEW s, s \in [1..n -> [id : Ids, file : Names]]
  PROVE  s \in Entries /\ Len(s) = n
<1>1. PICK V : V = [id : Ids, file : Names]
  OBVIOUS
<1>2. s \in Seq(V) /\ Len(s) = n
  <2>1. s \in [1..n -> V]
    BY <1>1
  <2>. QED
    BY <2>1, FunctionIsSeq
<1>. QED
  BY <1>1, <1>2 DEF Entries

(* The files and the segments of what is completed keep their types.        *)
LEMMA CoordinatorCompletedType ==
  ASSUME TypeOK, PathInv, ShareInv, CoordinatorNext
  PROVE  completed' \in Entries
<1>1. completed \in Entries /\ [video |-> video, args |-> args] \in Launches
  BY DEF TypeOK, Entries
<1>2. CASE Analyze \/ Starts \/ SplitDone \/ Decide \/ FindWorker \/ Assemble
           \/ \E id \in Ids : SplitEnds(id) \/ WorkerEnds(id)
  BY <1>1, <1>2 DEF Analyze, Starts, SplitDone, Decide, FindWorker, Assemble,
                    SplitEnds, WorkerEnds
<1>3. CASE CopySegments
  <2>1. PICK order : order = Ascending(ToCopy)
    OBVIOUS
  <2>2. \/ completed' = completed
        \/ completed' = [i \in 1..Len(order) |->
             [id |-> order[i],
              file |-> IF Smart THEN SegmentFile(order[i]) ELSE paths[order[i] + 1]]]
    BY <1>3, <2>1 DEF CopySegments
  <2>3. order \in Seq(ToCopy)
    <3>1. /\ ToCopy \in SUBSET Ids /\ Ids \in SUBSET Nat /\ IsFiniteSet(Ids)
      BY <1>1, SourceFacts DEF ToCopy
    <3>2. IsFiniteSet(ToCopy)
      BY <3>1, FS_Subset
    <3>3. ToCopy \in SUBSET Int
      BY <3>1
    <3>. QED
      BY <2>1, <3>2, <3>3, AscendingFacts
  <2>4. Len(order) \in Nat /\ \A i \in 1..Len(order) : order[i] \in ToCopy
    BY <2>3, LenProperties, ElementOfSeq
  <2>5. \A id \in ToCopy : /\ id \in Ids /\ SegmentFile(id) \in Names
                           /\ paths[id + 1] \in Names
    BY InputFacts, FileFacts DEF ToCopy
  <2>6. [i \in 1..Len(order) |->
           [id |-> order[i],
            file |-> IF Smart THEN SegmentFile(order[i]) ELSE paths[order[i] + 1]]]
          \in [1..Len(order) -> [id : Ids, file : Names]]
    BY <2>4, <2>5
  <2>. QED
    BY <1>1, <2>2, <2>4, <2>6, ListOfEntries
<1>4. CASE Collect
  <2>1. PICK s : s = [i \in 1..Len(Successes) |->
                        [id |-> Successes[i].id, file |-> SegmentFile(Successes[i].id)]]
    OBVIOUS
  <2>2. completed' = completed \o s /\ stage = "encode"
    BY <1>4, <2>1 DEF Collect
  <2>3. Successes \in Seq(Result(ToEncode))
    <3>1. pool.results \in Seq(Result(ToEncode))
      BY <2>2 DEF ShareInv, Shared
    <3>2. { i \in 1..Len(pool.results) : pool.results[i].ok } \in SUBSET (1..Len(pool.results))
      OBVIOUS
    <3>. QED
      BY <3>1, <3>2, AtFacts DEF Successes
  <2>4. Len(Successes) \in Nat /\ \A i \in 1..Len(Successes) : Successes[i].id \in Ids
    <3>1. \A i \in 1..Len(Successes) : Successes[i] \in Result(ToEncode)
      BY <2>3, ElementOfSeq
    <3>. QED
      BY <2>3, <3>1, LenProperties DEF Result, ToEncode
  <2>5. s \in Entries
    <3>1. s \in [1..Len(Successes) -> [id : Ids, file : Names]]
      BY <2>1, <2>4, FileFacts
    <3>. QED
      BY <2>4, <3>1, ListOfEntries
  <2>. QED
    BY <1>1, <2>2, <2>5, ConcatProperties DEF Entries
<1>. QED
  BY <1>2, <1>3, <1>4 DEF CoordinatorNext

(* A pool never has more children at work than it has room for.             *)
LEMMA CoordinatorKeepsCap ==
  ASSUME TypeOK, PoolInv, ShareInv, CoordinatorNext
  PROVE  (stage \in {"split", "encode"} => Cardinality(pool.running) <= Cap)'
<1>. DEFINE room(s) == IF s = "split" THEN Splitters ELSE Workers
<1>1. /\ Splitters \in Nat /\ Workers \in Nat
      /\ \A s : room(s) \in Nat
  BY PipelineAssumption
<1>2. IsFiniteSet(pool.running) /\ Cardinality(pool.running) \in Nat
  <2>1. IsFiniteSet(Ids) /\ pool.running \in SUBSET Ids
    BY SourceFacts DEF TypeOK
  <2>. QED
    BY <2>1, FS_Subset, FS_CardinalityType
<1>3. Cardinality({}) = 0
  BY FS_EmptySet
<1>4. Cap = room(stage) /\ Cap' = room(stage')
  BY DEF Cap
<1>5. CASE Analyze
  <2>1. (stage' = "split" /\ pool' = NewPool(Ids)) \/ stage' \notin {"split", "encode"}
    BY <1>5 DEF Analyze, Fail
  <2>2. CASE stage' \notin {"split", "encode"}
    BY <2>2
  <2>3. CASE stage' = "split" /\ pool' = NewPool(Ids)
    <3>1. pool'.running = {}
      BY <2>3, NewPoolIsIdle
    <3>. QED
      BY <1>1, <1>3, <1>4, <3>1
  <2>. QED
    BY <2>1, <2>2, <2>3
<1>6. CASE FindWorker
  BY <1>1, <1>3, <1>4, <1>6, NewPoolIsIdle DEF FindWorker, Fail
<1>7. CASE Starts
  <2>1. /\ stage' = stage /\ stage \in {"split", "encode"} /\ pool.todo # <<>>
        /\ Cardinality(pool.running) < Cap
        /\ pool' = [pool EXCEPT !.todo = Tail(@), !.running = @ \union {Head(pool.todo)}]
    BY <1>7 DEF Starts
  <2>2. pool'.running = pool.running \union {Head(pool.todo)}
    <3>1. CASE stage = "split"
      BY <2>1, <3>1, StartKeepsShared DEF ShareInv
    <3>2. CASE stage = "encode"
      BY <2>1, <3>2, StartKeepsShared DEF ShareInv
    <3>. QED
      BY <2>1, <3>1, <3>2
  <2>3. Cardinality(pool'.running) <= Cardinality(pool.running) + 1 /\ Cardinality(pool'.running) \in Nat
    <3>1. \/ Cardinality(pool'.running) = Cardinality(pool.running) + 1
          \/ Cardinality(pool'.running) = Cardinality(pool.running)
      BY <1>2, <2>2, FS_AddElement
    <3>. QED
      BY <1>2, <3>1
  <2>4. Cap' = Cap /\ Cap \in Nat
    BY <1>1, <1>4, <2>1
  <2>. QED
    BY <1>2, <2>1, <2>3, <2>4
<1>8. CASE \E id \in Ids : SplitEnds(id) \/ WorkerEnds(id)
  <2>1. PICK id \in pool.running : stage' = stage /\ (Ends(id, TRUE) \/ Ends(id, FALSE))
    BY <1>8 DEF SplitEnds, WorkerEnds
  <2>2. SUFFICES ASSUME stage \in {"split", "encode"}
                 PROVE  Cardinality(pool'.running) <= Cap'
    BY <2>1
  <2>3. pool'.running = pool.running \ {id}
    <3>1. PICK I : Shared(pool, I)
      BY <2>2 DEF ShareInv
    <3>2. PICK e \in Result(I) : e.id = id /\ pool' = Ended(pool, e)
      BY <2>1, <3>1, SomeChildEnds, Zenon
    <3>. QED
      BY <3>1, <3>2, EndKeepsShared
  <2>4. Cardinality(pool'.running) <= Cardinality(pool.running) /\ Cardinality(pool'.running) \in Nat
    <3>1. pool'.running \in SUBSET pool.running
      BY <2>3
    <3>. QED
      BY <1>2, <3>1, FS_Subset, FS_CardinalityType
  <2>5. Cardinality(pool.running) <= Cap
    BY <2>2 DEF TypeOK
  <2>6. Cap' = Cap /\ Cap \in Nat
    BY <1>1, <1>4, <2>1
  <2>. QED
    BY <1>2, <2>4, <2>5, <2>6
<1>9. CASE SplitDone \/ Decide \/ CopySegments \/ Collect \/ Assemble
  BY <1>9 DEF SplitDone, Decide, CopySegments, Collect, Assemble, Fail
<1>. QED
  BY <1>5, <1>6, <1>7, <1>8, <1>9 DEF CoordinatorNext

(* Every step of the coordinator keeps the types. *)
LEMMA CoordinatorKeepsTypes ==
  ASSUME TypeOK, PoolInv, PathInv, ShareInv, CoordinatorNext
  PROVE  TypeOK'
<1>1. UNCHANGED <<video, args, Names, Ids>>
  BY CoordinatorRigid, Fixed
<1>2. [video |-> video, args |-> args] \in Launches
  BY DEF TypeOK
<1>3. stage' \in {"analyze", "split", "plan", "copy", "find", "encode", "collected", "done", "failed"}
  BY DEF TypeOK, CoordinatorNext, Analyze, Starts, SplitDone, Decide, CopySegments, FindWorker,
         Collect, Assemble, SplitEnds, WorkerEnds, Fail
<1>4. pool'.running \subseteq Ids
  <2>1. ShareInv' /\ PoolInv'
    BY <1>2, CoordinatorKeepsShare, CoordinatorKeepsPool
  <2>2. stage' = "split" => pool'.running \subseteq Ids
    BY <1>1, <2>1 DEF ShareInv, Shared
  <2>3. stage' = "encode" => pool'.running \subseteq Ids
    <3>1. stage' = "encode" => pool'.running \subseteq ToEncode'
      BY <2>1 DEF ShareInv, Shared
    <3>2. ToEncode' \subseteq Ids'
      BY DEF ToEncode
    <3>. QED
      BY <1>1, <3>1, <3>2
  <2>4. stage' \notin {"split", "encode"} => pool'.running = {}
    BY <2>1 DEF PoolInv
  <2>. QED
    BY <2>2, <2>3, <2>4
<1>5. (stage \in {"split", "encode"} => Cardinality(pool.running) <= Cap)'
  BY CoordinatorKeepsCap
<1>6. files' \in [Names -> [seg : Ids \union {-1}, how : {"none", "part", "copy", "encode"}]]
  BY CoordinatorFilesType DEF Contents
<1>7. paths' \in Seq(Names)
  <2>1. paths' \in {<<>>, SortedPaths}
    BY <1>1, Fixed, CoordinatorKeepsPaths DEF PathInv
  <2>2. SortedPaths \in Seq(Names) /\ <<>> \in Seq(Names)
    BY <1>2, SortedPathsFacts, EmptySeq
  <2>. QED
    BY <2>1, <2>2
<1>8. copied' \in Seq(BOOLEAN)
  <2>1. CASE Decide
    <3>1. /\ DOMAIN Ranges = 1..Count /\ Count \in Nat
      BY <1>2, SourceFacts DEF Ranges
    <3>2. \/ copied' = copied
          \/ copied' = PlanSegments(video, gops, Ranges, ModeFromArgs, args.encoder, tolerance')
      BY <2>1 DEF Decide
    <3>3. PlanSegments(video, gops, Ranges, ModeFromArgs, args.encoder, tolerance')
            \in [1..Count -> BOOLEAN]
      BY <3>1 DEF PlanSegments
    <3>. QED
      BY <3>1, <3>2, <3>3 DEF TypeOK
  <2>2. CASE ~Decide
    <3>1. copied' = copied
      BY <2>2 DEF CoordinatorNext, Analyze, Starts, SplitDone, CopySegments, FindWorker,
                  Collect, Assemble, SplitEnds, WorkerEnds
    <3>. QED
      BY <3>1 DEF TypeOK
  <2>. QED
    BY <2>1, <2>2
<1>9. completed' \in Seq([id : Ids, file : Names])
  BY CoordinatorCompletedType DEF Entries
<1>. QED
  BY <1>1, <1>2, <1>3, <1>4, <1>5, <1>6, <1>7, <1>8, <1>9 DEF TypeOK

-----------------------------------------------------------------------------
(* The files *)

(* The runs the output of which is whole: the names have their digits, no   *)
(* smart flag comes with --copy, and there is an output.                    *)
Good == Count <= Power[Width] /\ ~(Has("copy") /\ Smart) /\ ~Has("smart-report")

(* Good, and the name of a cut file, depend on the launch alone.            *)
LEMMA GoodStays ==
  ASSUME UNCHANGED <<video, args>>
  PROVE  /\ Good' <=> Good
         /\ \A id : CutFile(id)' = CutFile(id)
BY Fixed DEF Good, Has, CutFile, SegmentFile

(* A segment is copied in copy mode always, and else only in a smart mode.  *)
LEMMA CopiedFacts ==
  ASSUME PlanInv, stage \in Planned, Good,
         [video |-> video, args |-> args] \in Launches, NEW id \in Ids
  PROVE  /\ copied[id + 1] \in BOOLEAN
         /\ Has("copy") => copied[id + 1]
         /\ copied[id + 1] => Has("copy") \/ Smart
<1>1. copied = PlanSegments(video, gops, Ranges, ModeFromArgs, args.encoder, tolerance)
  BY DEF PlanInv
<1>2. id + 1 \in DOMAIN Ranges
  <2>1. Count \in Nat
    BY SourceFacts
  <2>. QED
    BY <2>1 DEF Ranges, Ids
<1>3. /\ Has("copy") => ModeFromArgs = "copy"
      /\ ModeFromArgs = "copy" => Has("copy")
      /\ ModeFromArgs \in {"smart", "smart-auto"} => Smart
  BY DEF Good, ModeFromArgs, Smart
<1>4. copied[id + 1] =
        (\/ ModeFromArgs = "copy"
         \/ /\ ModeFromArgs \in {"smart", "smart-auto"}
            /\ Blockers(video, args.encoder) = {}
            /\ OnTarget(Overlapping(gops, Ranges[id + 1]), tolerance))
  BY <1>1, <1>2 DEF PlanSegments
<1>. QED
  BY <1>3, <1>4

(* With a cut of the source the path of a segment is that of its cut.       *)
LEMMA PathFacts ==
  ASSUME PathInv, stage \in {"plan"} \union Planned, Good,
         [video |-> video, args |-> args] \in Launches, NEW id \in Ids
  PROVE  IF Fast THEN paths # <<>> /\ paths[id + 1] = CutFile(id) ELSE paths = <<>>
<1>1. paths = IF Fast THEN SortedPaths ELSE <<>>
  BY DEF PathInv, Presplit, Good
<1>2. SortedPaths # <<>> /\ SortedPaths[id + 1] = CutFile(id)
  BY SortedPathsFacts DEF Good
<1>. QED
  BY <1>1, <1>2

(* What the files hold: the cuts of the segments that are cut, until the    *)
(* end; then the copies; then what has been encoded.                        *)
FileInv ==
  Good =>
    /\ stage = "split" =>
         \A i \in 1..Len(pool.results) :
           pool.results[i].ok => files[CutFile(pool.results[i].id)] = Cut(pool.results[i].id)
    /\ stage \in {"plan"} \union Planned /\ Fast => \A id \in Ids : files[CutFile(id)] = Cut(id)
    /\ stage \in {"find", "encode", "collected", "done"} =>
         \A id \in Ids : copied[id + 1] => files[SegmentFile(id)] = Cut(id)
    /\ stage = "encode" =>
         \A i \in 1..Len(pool.results) :
           pool.results[i].ok =>
             files[SegmentFile(pool.results[i].id)] = Encoded(Cut(pool.results[i].id))
    /\ stage \in {"collected", "done"} =>
         \A id \in Ids : ~copied[id + 1] => files[SegmentFile(id)] = Encoded(Cut(id))

(* The invariants of the coordinator that are about no file. *)
PipeInv == TypeOK /\ PoolInv /\ PlanInv /\ PathInv /\ ShareInv

(* Files of different segments, or of different kinds, have different       *)
(* names.                                                                   *)
LEMMA NamesApart ==
  ASSUME NEW i, NEW k
  PROVE  /\ SegmentFile(i) = SegmentFile(k) => i = k
         /\ CutFile(i) = CutFile(k) => i = k
         /\ ~Has("copy") => CutFile(i) # SegmentFile(k) /\ CutFile(i)[1] # "segment"
         /\ Has("copy") => CutFile(i) = SegmentFile(i)
         /\ SegmentFile(i)[1] = "segment" /\ SegmentFile(i)[2] = i
BY DEF SegmentFile, CutFile

(* A cut ends. *)
LEMMA SplitEndsKeepsFiles ==
  ASSUME PipeInv, FileInv, NEW id \in Ids, SplitEnds(id)
  PROVE  FileInv'
<1>1. /\ stage = "split" /\ stage' = stage /\ UNCHANGED <<video, args>>
      /\ id \in pool.running
  BY DEF SplitEnds
<1>2. SUFFICES ASSUME Good, NEW i \in 1..Len(pool'.results), pool'.results[i].ok
               PROVE  files'[CutFile(pool'.results[i].id)] = Cut(pool'.results[i].id)
  BY <1>1, GoodStays DEF FileInv, Planned
<1>3. /\ files \in [Names -> Contents] /\ CutFile(id) \in Names
      /\ Shared(pool, Ids)
      /\ \A k \in 1..Len(pool.results) :
           pool.results[k].ok => files[CutFile(pool.results[k].id)] = Cut(pool.results[k].id)
  BY <1>1, <1>2, FileFacts DEF PipeInv, TypeOK, Contents, ShareInv, FileInv
<1>4. PICK e \in Result(Ids) :
        /\ e.id = id /\ pool' = Ended(pool, e)
        /\ IF e.ok THEN files' = [files EXCEPT ![CutFile(id)] = Cut(id)]
           ELSE Broken(CutFile(id))
  <2>1. \/ Ends(id, TRUE) /\ files' = [files EXCEPT ![CutFile(id)] = Cut(id)]
        \/ Ends(id, FALSE) /\ Broken(CutFile(id))
    BY DEF SplitEnds
  <2>. QED
    BY <1>1, <1>3, <2>1, ChildEnds
<1>5. PICK n \in Nat :
        /\ n = Len(pool.results) /\ Len(pool'.results) = n + 1
        /\ \A k \in 1..n : pool'.results[k] = pool.results[k] /\ pool.results[k].id # id
        /\ pool'.results[n + 1] = e
  <2>1. /\ Len(pool.results) \in Nat /\ Len(pool'.results) = Len(pool.results) + 1
        /\ \A k \in 1..Len(pool.results) :
             pool'.results[k] = pool.results[k] /\ pool.results[k].id # e.id
        /\ pool'.results[Len(pool.results) + 1] = e
    BY <1>1, <1>3, <1>4, EndKeepsShared
  <2>. QED
    BY <1>4, <2>1
<1>6. CASE i = n + 1
  <2>1. pool'.results[i].id = id /\ e.ok
    BY <1>2, <1>4, <1>5, <1>6
  <2>. QED
    BY <1>3, <1>4, <2>1
<1>7. CASE i # n + 1
  <2>1. i \in 1..n
    BY <1>5, <1>7
  <2>2. PICK k : k = pool.results[i].id
    OBVIOUS
  <2>3. pool'.results[i].id = k /\ k # id /\ files[CutFile(k)] = Cut(k) /\ k \in Ids
    <3>1. pool.results[i].id \in Ids
      <4>1. pool.results \in Seq(Result(Ids))
        BY <1>3 DEF Shared
      <4>2. pool.results[i] \in Result(Ids)
        BY <1>5, <2>1, <4>1, ElementOfSeq
      <4>. QED
        BY <4>2 DEF Result
    <3>. QED
      BY <1>2, <1>3, <1>5, <2>1, <2>2, <3>1
  <2>4. CutFile(k) # CutFile(id) /\ CutFile(k) \in Names
    BY <2>3, FileFacts, NamesApart
  <2>. QED
    BY <1>3, <1>4, <2>3, <2>4 DEF Broken
<1>. QED
  BY <1>6, <1>7

(* A worker ends: it has read the cut of its segment, or that part of the   *)
(* source, and has written over nothing that is still needed.               *)
LEMMA WorkerEndsKeepsFiles ==
  ASSUME PipeInv, FileInv, NEW id \in Ids, WorkerEnds(id)
  PROVE  FileInv'
<1>1. /\ stage = "encode" /\ stage' = stage /\ UNCHANGED <<video, args, copied>>
      /\ id \in pool.running /\ stage \in Planned
  BY DEF WorkerEnds, Planned
<1>2. SUFFICES ASSUME Good
               PROVE  FileInv'
  BY <1>1, GoodStays DEF FileInv
<1>3. /\ files \in [Names -> Contents] /\ SegmentFile(id) \in Names
      /\ Shared(pool, ToEncode) /\ [video |-> video, args |-> args] \in Launches
      /\ PlanInv /\ PathInv
      /\ Fast => \A k \in Ids : files[CutFile(k)] = Cut(k)
      /\ \A k \in Ids : copied[k + 1] => files[SegmentFile(k)] = Cut(k)
      /\ \A i \in 1..Len(pool.results) :
           pool.results[i].ok =>
             files[SegmentFile(pool.results[i].id)] = Encoded(Cut(pool.results[i].id))
  BY <1>1, <1>2, FileFacts DEF PipeInv, TypeOK, Contents, ShareInv, FileInv
<1>4. id \in ToEncode /\ ~copied[id + 1] /\ ~Has("copy")
  <2>1. id \in ToEncode /\ ~copied[id + 1]
    BY <1>1, <1>3 DEF Shared, ToEncode
  <2>. QED
    BY <1>1, <1>2, <1>3, <2>1, CopiedFacts
<1>5. InputOf(id) = Cut(id) /\ ~InPlace(id)
  <2>1. IF Fast THEN paths # <<>> /\ paths[id + 1] = CutFile(id) ELSE paths = <<>>
    BY <1>1, <1>2, <1>3, PathFacts
  <2>. QED
    BY <1>3, <1>4, <2>1, NamesApart DEF InputOf, InPlace
<1>6. PICK e \in Result(ToEncode) :
        /\ e.id = id /\ pool' = Ended(pool, e)
        /\ IF e.ok THEN files' = [files EXCEPT ![SegmentFile(id)] = Encoded(Cut(id))]
           ELSE Broken(SegmentFile(id))
  <2>1. \/ Ends(id, TRUE) /\ files' = [files EXCEPT ![SegmentFile(id)] = Encoded(Cut(id))]
        \/ Ends(id, FALSE) /\ Broken(SegmentFile(id))
    BY <1>5 DEF WorkerEnds
  <2>. QED
    BY <1>1, <1>3, <2>1, ChildEnds
<1>7. PICK n \in Nat :
        /\ n = Len(pool.results) /\ Len(pool'.results) = n + 1
        /\ \A k \in 1..n : pool'.results[k] = pool.results[k] /\ pool.results[k].id # id
        /\ pool'.results[n + 1] = e
  <2>1. /\ Len(pool.results) \in Nat /\ Len(pool'.results) = Len(pool.results) + 1
        /\ \A k \in 1..Len(pool.results) :
             pool'.results[k] = pool.results[k] /\ pool.results[k].id # e.id
        /\ pool'.results[Len(pool.results) + 1] = e
    BY <1>1, <1>3, <1>6, EndKeepsShared
  <2>. QED
    BY <1>6, <2>1
<1>8. \A m \in Names : m # SegmentFile(id) => files'[m] = files[m]
  BY <1>3, <1>6 DEF Broken
<1>9. Fast => \A k \in Ids : files'[CutFile(k)] = Cut(k)
  BY <1>3, <1>4, <1>8, FileFacts, NamesApart
<1>10. \A k \in Ids : copied[k + 1] => files'[SegmentFile(k)] = Cut(k)
  <2>. SUFFICES ASSUME NEW k \in Ids, copied[k + 1]
                PROVE  files'[SegmentFile(k)] = Cut(k)
    OBVIOUS
  <2>1. SegmentFile(k) # SegmentFile(id) /\ SegmentFile(k) \in Names
    BY <1>4, FileFacts, NamesApart
  <2>. QED
    BY <1>3, <1>8, <2>1
<1>11. ASSUME NEW i \in 1..Len(pool'.results), pool'.results[i].ok
       PROVE  files'[SegmentFile(pool'.results[i].id)] = Encoded(Cut(pool'.results[i].id))
  <2>1. CASE i = n + 1
    <3>1. pool'.results[i].id = id /\ e.ok
      BY <1>6, <1>7, <1>11, <2>1
    <3>. QED
      BY <1>3, <1>6, <3>1
  <2>2. CASE i # n + 1
    <3>1. i \in 1..n
      BY <1>7, <2>2
    <3>2. PICK k : k = pool.results[i].id
      OBVIOUS
    <3>3. k \in Ids
      <4>1. pool.results \in Seq(Result(ToEncode))
        BY <1>3 DEF Shared
      <4>2. pool.results[i] \in Result(ToEncode)
        BY <1>7, <3>1, <4>1, ElementOfSeq
      <4>. QED
        BY <3>2, <4>2 DEF Result, ToEncode
    <3>4. pool'.results[i].id = k /\ k # id /\ files[SegmentFile(k)] = Encoded(Cut(k))
      BY <1>3, <1>7, <1>11, <3>1, <3>2
    <3>5. SegmentFile(k) # SegmentFile(id) /\ SegmentFile(k) \in Names
      BY <3>3, <3>4, FileFacts, NamesApart
    <3>. QED
      BY <1>8, <3>4, <3>5
  <2>. QED
    BY <2>1, <2>2
<1>12. Ids' = Ids /\ (Fast' <=> Fast) /\ \A k : CutFile(k)' = CutFile(k)
  BY <1>1, Fixed, GoodStays
<1>. QED
  BY <1>1, <1>9, <1>10, <1>11, <1>12 DEF FileInv

(* The copies are made from the cuts, which stay. *)
LEMMA CopySegmentsKeepsFiles ==
  ASSUME PipeInv, FileInv, CopySegments
  PROVE  FileInv'
<1>1. stage = "copy" /\ UNCHANGED <<video, args, copied>> /\ stage \in Planned
  BY DEF CopySegments, Planned
<1>2. Ids' = Ids /\ (Fast' <=> Fast) /\ \A k : CutFile(k)' = CutFile(k)
  BY <1>1, Fixed, GoodStays
<1>3. CASE stage' = "failed"
  BY <1>3 DEF FileInv, Planned
<1>4. CASE stage' # "failed"
  <2>1. /\ stage' = "find"
        /\ files' = [n \in Names |->
                       IF Smart /\ n[1] = "segment" /\ n[2] \in ToCopy
                       THEN CopyOf(paths[n[2] + 1], n) ELSE files[n]]
    BY <1>4 DEF CopySegments, CopiesOf, Fail
  <2>2. SUFFICES ASSUME Good
                 PROVE  FileInv'
    BY <1>1, GoodStays DEF FileInv
  <2>3. /\ [video |-> video, args |-> args] \in Launches /\ PlanInv /\ PathInv
        /\ Fast => \A k \in Ids : files[CutFile(k)] = Cut(k)
    BY <1>1, <2>2 DEF PipeInv, TypeOK, FileInv
  <2>4. ASSUME Fast, NEW k \in Ids
        PROVE  files'[CutFile(k)] = Cut(k)
    <3>1. Smart => CutFile(k)[1] # "segment"
      BY <2>2, NamesApart DEF Good
    <3>. QED
      BY <2>1, <2>3, <2>4, <3>1, FileFacts
  <2>5. ASSUME NEW k \in Ids, copied[k + 1]
        PROVE  files'[SegmentFile(k)] = Cut(k)
    <3>1. Has("copy") \/ Smart
      BY <1>1, <2>2, <2>3, <2>5, CopiedFacts
    <3>2. Fast /\ paths # <<>> /\ paths[k + 1] = CutFile(k)
      <4>1. Fast
        BY <3>1 DEF Fast
      <4>. QED
        BY <1>1, <2>2, <2>3, <4>1, PathFacts
    <3>3. SegmentFile(k) \in Names /\ k \in ToCopy
      BY <2>5, <3>2, FileFacts DEF ToCopy
    <3>4. CASE Smart
      <4>1. CutFile(k) # SegmentFile(k)
        BY <2>2, <3>4, NamesApart DEF Good
      <4>2. SegmentFile(k)[1] = "segment" /\ SegmentFile(k)[2] = k
        BY NamesApart
      <4>3. files'[SegmentFile(k)] = CopyOf(CutFile(k), SegmentFile(k))
        BY <2>1, <3>2, <3>3, <3>4, <4>2
      <4>. QED
        BY <2>3, <3>2, <4>1, <4>3 DEF CopyOf
    <3>5. CASE ~Smart
      <4>1. CutFile(k) = SegmentFile(k)
        BY <3>1, <3>5, NamesApart
      <4>. QED
        BY <2>4, <3>2, <4>1
    <3>. QED
      BY <3>4, <3>5
  <2>. QED
    BY <1>1, <1>2, <2>1, <2>4, <2>5 DEF FileInv
<1>. QED
  BY <1>3, <1>4

(* Every step of the coordinator keeps what the files hold. *)
LEMMA CoordinatorKeepsFiles ==
  ASSUME PipeInv, FileInv, CoordinatorNext
  PROVE  FileInv'
<1>. UNCHANGED <<video, args>>
  BY CoordinatorRigid
<1>1. /\ Ids' = Ids /\ (Fast' <=> Fast) /\ (Good' <=> Good)
      /\ \A k : CutFile(k)' = CutFile(k)
  BY Fixed, GoodStays
<1>2. Len(<<>>) = 0 /\ \A p : NewPool(p).results = <<>>
  BY DEF NewPool
<1>3. CASE Analyze
  <2>1. \/ stage' = "split" /\ \E I : pool' = NewPool(I)
        \/ stage' = "plan" /\ (Good => ~Fast)
        \/ stage' = "failed"
    BY <1>3 DEF Analyze, Fail, Good
  <2>2. stage' = "split" => \A i : i \notin 1..Len(pool'.results)
    BY <1>2, <2>1
  <2>. QED
    BY <1>1, <2>1, <2>2 DEF FileInv, Planned
<1>4. CASE Starts
  <2>1. /\ stage' = stage /\ UNCHANGED <<files, copied>> /\ stage \in {"split", "encode"}
        /\ pool.todo # <<>>
        /\ pool' = [pool EXCEPT !.todo = Tail(@), !.running = @ \union {Head(pool.todo)}]
    BY <1>4 DEF Starts
  <2>2. pool'.results = pool.results
    <3>1. PICK I : Shared(pool, I)
      BY <2>1 DEF PipeInv, ShareInv
    <3>. QED
      BY <2>1, <3>1, StartKeepsShared
  <2>. QED
    BY <1>1, <2>1, <2>2 DEF FileInv
<1>5. CASE SplitDone
  <2>1. stage = "split" /\ files' = files /\ Drained
        /\ (stage' = "failed" \/ (stage' = "plan" /\ ~AnyFailed))
    BY <1>5 DEF SplitDone, Fail
  <2>2. CASE stage' = "failed"
    BY <2>2 DEF FileInv, Planned
  <2>3. CASE stage' = "plan" /\ ~AnyFailed
    <3>1. ASSUME Good, NEW id \in Ids
          PROVE  files[CutFile(id)] = Cut(id)
      <4>1. PICK i \in 1..Len(pool.results) : pool.results[i].id = id
        BY <2>1, DrainedHasAll DEF Drained, PipeInv, ShareInv
      <4>2. pool.results[i].ok
        BY <2>3 DEF AnyFailed
      <4>. QED
        BY <2>1, <3>1, <4>1, <4>2 DEF FileInv
    <3>. QED
      BY <1>1, <2>1, <2>3, <3>1 DEF FileInv, Planned
  <2>. QED
    BY <2>1, <2>2, <2>3
<1>6. CASE Decide
  <2>1. /\ stage = "plan" /\ files' = files
        /\ \/ stage' = "failed"
           \/ stage' = IF Has("smart-report") THEN "done" ELSE "copy"
    BY <1>6 DEF Decide, Fail
  <2>2. Good => stage' \in {"failed", "copy"}
    BY <2>1 DEF Good
  <2>. QED
    BY <1>1, <2>1, <2>2 DEF FileInv, Planned
<1>7. CASE FindWorker
  <2>1. /\ stage = "find" /\ UNCHANGED <<files, copied>>
        /\ \/ stage' = "collected" /\ ToEncode = {}
           \/ stage' = "encode" /\ \E I : pool' = NewPool(I)
           \/ stage' = "failed"
    BY <1>7 DEF FindWorker, Fail
  <2>2. stage' = "encode" => \A i : i \notin 1..Len(pool'.results)
    BY <1>2, <2>1
  <2>3. stage' = "collected" => \A id \in Ids : copied[id + 1]
    BY <2>1 DEF ToEncode
  <2>. QED
    BY <1>1, <2>1, <2>2, <2>3 DEF FileInv, Planned
<1>8. CASE Collect
  <2>1. /\ stage = "encode" /\ UNCHANGED <<files, copied>> /\ Drained
        /\ IF AnyFailed THEN stage' = "failed" ELSE stage' = "collected"
    BY <1>8 DEF Collect, Fail
  <2>2. CASE AnyFailed
    BY <2>1, <2>2 DEF FileInv, Planned
  <2>3. CASE ~AnyFailed
    <3>1. ASSUME Good, NEW id \in Ids, ~copied[id + 1]
          PROVE  files[SegmentFile(id)] = Encoded(Cut(id))
      <4>1. id \in ToEncode
        BY <3>1 DEF ToEncode
      <4>2. PICK i \in 1..Len(pool.results) : pool.results[i].id = id
        BY <2>1, <4>1, DrainedHasAll DEF Drained, PipeInv, ShareInv
      <4>3. pool.results[i].ok
        BY <2>3 DEF AnyFailed
      <4>. QED
        BY <2>1, <3>1, <4>2, <4>3 DEF FileInv
    <3>. QED
      BY <1>1, <2>1, <2>3, <3>1 DEF FileInv, Planned
  <2>. QED
    BY <2>2, <2>3
<1>9. CASE Assemble
  <2>1. /\ stage = "collected" /\ UNCHANGED <<files, copied>> /\ stage' \in {"done", "failed"}
    BY <1>9 DEF Assemble, Fail
  <2>. QED
    BY <1>1, <2>1 DEF FileInv, Planned
<1>. QED
  BY <1>3, <1>4, <1>5, <1>6, <1>7, <1>8, <1>9,
     CopySegmentsKeepsFiles, SplitEndsKeepsFiles, WorkerEndsKeepsFiles DEF CoordinatorNext

-----------------------------------------------------------------------------
(* The list of what is completed, and the playlist *)

(* The list has each segment of I once, under its name.                     *)
Covers(list, I) ==
  /\ \A i \in 1..Len(list) : list[i].id \in I /\ list[i].file = SegmentFile(list[i].id)
  /\ \A i, k \in 1..Len(list) : list[i].id = list[k].id => i = k
  /\ \A id \in I : \E i \in 1..Len(list) : list[i].id = id

Copied == { id \in Ids : copied[id + 1] }

CompletedInv ==
  Good =>
    /\ stage \in {"find", "encode"} => Covers(completed, Copied)
    /\ stage \in {"collected", "done"} => Covers(completed, Ids)
    /\ stage = "done" =>
         /\ Len(playlist) = Count
         /\ \A id \in Ids : playlist[id + 1] = SegmentFile(id)

(* Sorted by the numbers of the segments, the list is all segments in order.*)
LEMMA InOrderFacts ==
  ASSUME completed \in Entries, Covers(completed, Ids),
         [video |-> video, args |-> args] \in Launches
  PROVE  /\ Len(Listed) = Count
         /\ \A id \in Ids : Listed[id + 1] = SegmentFile(id)
<1>. DEFINE D == 1..Len(completed)
            rank(k) == Cardinality({ j \in D : completed[j].id < completed[k].id })
            at(i) == CHOOSE k \in D : rank(k) = i - 1
<1>1. /\ Count \in Nat /\ IsFiniteSet(Ids) /\ Cardinality(Ids) = Count /\ Ids \in SUBSET Nat
  BY SourceFacts
<1>2. Len(completed) \in Nat /\ IsFiniteSet(D) /\ Cardinality(D) = Len(completed)
  <2>1. Len(completed) \in Nat /\ 1 \in Int
    BY LenProperties DEF Entries
  <2>2. /\ IsFiniteSet(1..Len(completed))
        /\ Cardinality(1..Len(completed)) =
             IF 1 > Len(completed) THEN 0 ELSE Len(completed) - 1 + 1
    BY <2>1, FS_Interval
  <2>. QED
    BY <2>1, <2>2
<1>3. PICK f : f = [k \in D |-> completed[k].id]
  OBVIOUS
<1>4. /\ f \in [D -> Ids] /\ \A k \in D : f[k] = completed[k].id
      /\ \A j, k \in D : f[j] = f[k] => j = k
      /\ \A id \in Ids : \E k \in D : f[k] = id
      /\ \A k \in D : completed[k].file = SegmentFile(f[k])
  BY <1>3 DEF Covers
<1>5. Len(completed) = Count
  <2>. HIDE DEF D
  <2>. QED
    BY <1>1, <1>2, <1>4, SameSize
<1>6. ASSUME NEW k \in D
      PROVE  rank(k) = f[k]
  <2>1. PICK J, n : J = { j \in D : completed[j].id < completed[k].id } /\ n = f[k]
    OBVIOUS
  <2>2. n \in Nat /\ n \in Ids /\ \A j : j \in J <=> j \in D /\ f[j] < n
    BY <1>1, <1>4, <2>1
  <2>3. \A id : id \in 0..n - 1 <=> id \in Ids /\ id < n
    BY <1>1, <2>2 DEF Ids
  <2>4. PICK g : g = [j \in J |-> f[j]]
    OBVIOUS
  <2>5. /\ g \in [J -> 0..n - 1]
        /\ \A x, y \in J : g[x] = g[y] => x = y
        /\ \A z \in 0..n - 1 : \E x \in J : g[x] = z
    <3>1. \A j \in J : g[j] = f[j] /\ j \in D /\ f[j] \in Ids /\ f[j] < n
      BY <1>4, <2>2, <2>4
    <3>. HIDE DEF D
    <3>2. g \in [J -> 0..n - 1]
      BY <2>3, <2>4, <3>1
    <3>3. \A x, y \in J : g[x] = g[y] => x = y
      BY <1>4, <3>1
    <3>4. ASSUME NEW z \in 0..n - 1
          PROVE  \E x \in J : g[x] = z
      <4>1. z \in Ids /\ z < n
        BY <2>3
      <4>2. PICK x \in D : f[x] = z
        BY <1>4, <4>1
      <4>3. x \in J
        BY <2>2, <4>1, <4>2
      <4>. QED
        BY <3>1, <4>2, <4>3
    <3>. QED
      BY <3>2, <3>3, <3>4
  <2>6. IsFiniteSet(J)
    <3>1. J \in SUBSET D
      BY <2>2
    <3>. QED
      BY <1>2, <3>1, FS_Subset
  <2>7. Cardinality(0..n - 1) = Cardinality(J)
    BY <2>5, <2>6, SameSize
  <2>8. Cardinality(0..n - 1) = n
    <3>1. 0 \in Int /\ n - 1 \in Int
      BY <2>2
    <3>2. Cardinality(0..n - 1) = IF 0 > n - 1 THEN 0 ELSE (n - 1) - 0 + 1
      BY <3>1, FS_Interval
    <3>. QED
      BY <2>2, <3>2
  <2>. QED
    BY <2>1, <2>7, <2>8
<1>7. ASSUME NEW id \in Ids
      PROVE  InOrder[id + 1].file = SegmentFile(id)
  <2>1. PICK k \in D : f[k] = id
    BY <1>4
  <2>2. id + 1 \in D /\ (id + 1) - 1 = id
    BY <1>1, <1>5 DEF Ids
  <2>3. at(id + 1) \in D /\ rank(at(id + 1)) = id
    <3>1. \E j \in D : rank(j) = (id + 1) - 1
      BY <1>6, <2>1, <2>2
    <3>. HIDE DEF D, rank
    <3>. QED
      BY <2>2, <3>1
  <2>4. f[at(id + 1)] = id
    BY <1>6, <2>3
  <2>5. InOrder[id + 1] = completed[at(id + 1)]
    BY <2>2 DEF InOrder
  <2>. HIDE DEF at, D
  <2>. QED
    BY <1>4, <2>3, <2>4, <2>5
<1>8. Len(InOrder) = Count
  BY <1>1, <1>5 DEF InOrder
<1>9. \A id \in Ids : id + 1 \in 1..Count
  BY <1>1 DEF Ids
<1>. QED
  BY <1>1, <1>7, <1>8, <1>9 DEF Listed

(* Copying the segments lists each of those planned to be copied once.      *)
LEMMA CopySegmentsCovers ==
  ASSUME PipeInv, Good, CopySegments, stage' = "find"
  PROVE  Covers(completed', Copied)
<1>1. /\ stage = "copy" /\ stage \in Planned /\ [video |-> video, args |-> args] \in Launches
      /\ PlanInv /\ PathInv
  BY DEF CopySegments, Planned, PipeInv, TypeOK
<1>2. PICK order : order = Ascending(ToCopy)
  OBVIOUS
<1>3. completed' = [i \in 1..Len(order) |->
        [id |-> order[i],
         file |-> IF Smart THEN SegmentFile(order[i]) ELSE paths[order[i] + 1]]]
  BY <1>2 DEF CopySegments, Fail
<1>4. ASSUME NEW id \in Ids, copied[id + 1]
      PROVE  /\ id \in ToCopy
             /\ (IF Smart THEN SegmentFile(id) ELSE paths[id + 1]) = SegmentFile(id)
  <2>1. Has("copy") \/ Smart
    BY <1>1, <1>4, CopiedFacts
  <2>2. paths # <<>> /\ paths[id + 1] = CutFile(id)
    <3>1. Fast
      BY <2>1 DEF Fast
    <3>. QED
      BY <1>1, <3>1, PathFacts
  <2>. QED
    BY <1>4, <2>1, <2>2, NamesApart DEF ToCopy
<1>5. ToCopy = Copied
  BY <1>4 DEF ToCopy, Copied
<1>6. /\ Cardinality(Copied) \in Nat /\ Len(order) = Cardinality(Copied)
      /\ \A i \in 1..Len(order) : order[i] \in Copied
      /\ \A id \in Copied : \E i \in 1..Len(order) : order[i] = id
      /\ \A i, k \in 1..Len(order) : i < k <=> order[i] < order[k]
  <2>1. Copied \in SUBSET Ids /\ Ids \in SUBSET Nat /\ IsFiniteSet(Ids)
    BY <1>1, SourceFacts DEF Copied
  <2>2. IsFiniteSet(Copied)
    BY <2>1, FS_Subset
  <2>3. Copied \in SUBSET Int
    BY <2>1
  <2>. QED
    BY <1>2, <1>5, <2>2, <2>3, AscendingFacts
<1>7. \A i, k \in 1..Len(order) : order[i] = order[k] => i = k
  <2>. SUFFICES ASSUME NEW i \in 1..Len(order), NEW k \in 1..Len(order), order[i] = order[k]
                PROVE  i = k
    OBVIOUS
  <2>1. order[i] \in Nat
    BY <1>1, <1>6, SourceFacts DEF Copied
  <2>2. ~(i < k) /\ ~(k < i)
    BY <1>6, <2>1
  <2>. QED
    BY <1>6, <2>2
<1>8. /\ Len(completed') = Len(order)
      /\ \A i \in 1..Len(order) : /\ completed'[i].id = order[i]
                                  /\ completed'[i].file = SegmentFile(order[i])
  <2>1. \A i \in 1..Len(order) :
          (IF Smart THEN SegmentFile(order[i]) ELSE paths[order[i] + 1]) = SegmentFile(order[i])
    BY <1>4, <1>6 DEF Copied
  <2>. QED
    BY <1>3, <1>6, <2>1
<1>. QED
  BY <1>6, <1>7, <1>8 DEF Covers

(* Collecting the children, all ended well, lists every segment once.       *)
LEMMA CollectCovers ==
  ASSUME PipeInv, CompletedInv, Good, Collect, ~AnyFailed
  PROVE  Covers(completed', Ids)
<1>1. /\ stage = "encode" /\ Drained /\ Covers(completed, Copied) /\ completed \in Entries
      /\ Shared(pool, ToEncode)
  BY DEF Collect, CompletedInv, PipeInv, ShareInv, TypeOK, Entries
<1>2. PICK r : r = pool.results
  OBVIOUS
<1>3. r \in Seq(Result(ToEncode)) /\ Len(r) \in Nat /\ \A i \in 1..Len(r) : r[i].id \in ToEncode
  <2>1. r \in Seq(Result(ToEncode))
    BY <1>1, <1>2 DEF Shared
  <2>2. \A i \in 1..Len(r) : r[i] \in Result(ToEncode)
    BY <2>1, ElementOfSeq
  <2>. QED
    BY <2>1, <2>2, LenProperties DEF Result
<1>4. Successes = r
  <2>1. { i \in 1..Len(r) : r[i].ok } = 1..Len(r)
    BY <1>2 DEF AnyFailed
  <2>2. At(r, 1..Len(r)) = r
    BY <1>3, AtAll
  <2>. QED
    BY <1>2, <2>1, <2>2 DEF Successes
<1>5. PICK s : s = [i \in 1..Len(r) |-> [id |-> r[i].id, file |-> SegmentFile(r[i].id)]]
  OBVIOUS
<1>6. completed' = completed \o s
  BY <1>4, <1>5 DEF Collect
<1>7. /\ s \in Entries /\ Len(s) = Len(r)
      /\ \A i \in 1..Len(r) : s[i].id = r[i].id /\ s[i].file = SegmentFile(r[i].id)
  <2>1. s \in [1..Len(r) -> [id : Ids, file : Names]]
    BY <1>3, <1>5, FileFacts DEF ToEncode
  <2>. QED
    BY <1>3, <1>5, <2>1, ListOfEntries
<1>8. PICK m, n, t : /\ m = Len(completed) /\ n = Len(r) /\ t = completed'
                     /\ m \in Nat /\ n \in Nat
  BY <1>1, <1>3, LenProperties DEF Entries
<1>9. /\ Len(t) = m + n
      /\ \A i \in 1..m + n : t[i] = IF i <= m THEN completed[i] ELSE s[i - m]
  <2>1. PICK V, c : V = [id : Ids, file : Names] /\ c = completed
    OBVIOUS
  <2>2. c \in Seq(V) /\ s \in Seq(V)
    BY <1>1, <1>7, <2>1 DEF Entries
  <2>3. /\ Len(c \o s) = Len(c) + Len(s)
        /\ \A i \in 1..Len(c) + Len(s) :
             (c \o s)[i] = IF i <= Len(c) THEN c[i] ELSE s[i - Len(c)]
    BY <2>2, ConcatProperties
  <2>. QED
    BY <1>6, <1>7, <1>8, <2>1, <2>3
<1>10. /\ \A i \in 1..m : t[i] = completed[i] /\ i \in 1..m + n
       /\ \A i \in 1..n : t[m + i] = s[i] /\ m + i \in 1..m + n
       /\ \A i \in 1..m + n : i \in 1..m \/ (i - m \in 1..n /\ m + (i - m) = i)
  <2>1. ASSUME NEW i \in 1..n
        PROVE  t[m + i] = s[i] /\ m + i \in 1..m + n
    <3>1. m + i \in 1..m + n /\ ~(m + i <= m) /\ (m + i) - m = i
      BY <1>8
    <3>. QED
      BY <1>9, <3>1
  <2>2. \A i \in 1..m : i \in 1..m + n /\ i <= m
    BY <1>8
  <2>3. \A i \in 1..m + n : i \in 1..m \/ (i - m \in 1..n /\ m + (i - m) = i)
    BY <1>8
  <2>. QED
    BY <1>9, <2>1, <2>2, <2>3
<1>11. /\ \A i \in 1..m : completed[i].id \in Copied /\ completed[i].file = SegmentFile(completed[i].id)
       /\ \A i, k \in 1..m : completed[i].id = completed[k].id => i = k
       /\ \A id \in Copied : \E i \in 1..m : completed[i].id = id
  BY <1>1, <1>8 DEF Covers
<1>12. /\ \A i, k \in 1..n : s[i].id = s[k].id => i = k
       /\ \A id \in ToEncode : \E i \in 1..n : s[i].id = id
       /\ \A i \in 1..n : s[i].id \in ToEncode /\ s[i].file = SegmentFile(s[i].id)
  <2>1. \A i, k \in 1..n : r[i].id = r[k].id => i = k
    BY <1>1, <1>2, <1>8 DEF Shared
  <2>2. \A id \in ToEncode : \E i \in 1..n : r[i].id = id
    BY <1>1, <1>2, <1>8, DrainedHasAll DEF Drained
  <2>. QED
    BY <1>3, <1>7, <1>8, <2>1, <2>2
<1>13. /\ \A id \in Ids : id \in Copied \/ id \in ToEncode
       /\ \A id \in Copied : id \in Ids /\ id \notin ToEncode
       /\ \A id \in ToEncode : id \in Ids
  BY DEF Copied, ToEncode
<1>14. \A i \in 1..m + n : t[i].id \in Ids /\ t[i].file = SegmentFile(t[i].id)
  BY <1>10, <1>11, <1>12, <1>13
<1>15. \A id \in Ids : \E i \in 1..m + n : t[i].id = id
  BY <1>10, <1>11, <1>12, <1>13
<1>16. ASSUME NEW i \in 1..m + n, NEW k \in 1..m + n, t[i].id = t[k].id
       PROVE  i = k
  <2>1. CASE i \in 1..m /\ k \in 1..m
    BY <1>10, <1>11, <1>16, <2>1
  <2>2. CASE i \in 1..m /\ k \notin 1..m
    BY <1>10, <1>11, <1>12, <1>13, <1>16, <2>2
  <2>3. CASE i \notin 1..m /\ k \in 1..m
    BY <1>10, <1>11, <1>12, <1>13, <1>16, <2>3
  <2>4. CASE i \notin 1..m /\ k \notin 1..m
    <3>1. i - m \in 1..n /\ k - m \in 1..n /\ t[i] = s[i - m] /\ t[k] = s[k - m]
      BY <1>10, <2>4
    <3>2. i - m = k - m
      BY <1>12, <1>16, <3>1
    <3>. QED
      BY <1>8, <3>2
  <2>. QED
    BY <2>1, <2>2, <2>3, <2>4
<1>. QED
  BY <1>8, <1>9, <1>14, <1>15, <1>16 DEF Covers

(* Every step of the coordinator keeps the list. *)
LEMMA CoordinatorKeepsCompleted ==
  ASSUME PipeInv, CompletedInv, CoordinatorNext
  PROVE  CompletedInv'
<1>. UNCHANGED <<video, args>>
  BY CoordinatorRigid
<1>1. Ids' = Ids /\ Count' = Count /\ (Good' <=> Good)
  BY Fixed, GoodStays
<1>2. copied' = copied => Copied' = Copied
  BY <1>1 DEF Copied
<1>3. CASE CopySegments
  <2>1. copied' = copied /\ stage' \in {"find", "failed"}
    BY <1>3 DEF CopySegments, Fail
  <2>. QED
    BY <1>1, <1>2, <1>3, <2>1, CopySegmentsCovers DEF CompletedInv
<1>4. CASE FindWorker
  <2>1. /\ stage = "find" /\ UNCHANGED <<copied, completed>>
        /\ \/ stage' = "collected" /\ ToEncode = {}
           \/ stage' = "encode" \/ stage' = "failed"
    BY <1>4 DEF FindWorker, Fail
  <2>2. ToEncode = {} => Copied = Ids
    BY DEF ToEncode, Copied
  <2>. QED
    BY <1>1, <1>2, <2>1, <2>2 DEF CompletedInv
<1>5. CASE Collect
  <2>1. IF AnyFailed THEN stage' = "failed" ELSE stage' = "collected"
    BY <1>5 DEF Collect, Fail
  <2>. QED
    BY <1>1, <1>5, <2>1, CollectCovers DEF CompletedInv
<1>6. CASE Assemble
  <2>1. /\ stage = "collected" /\ completed' = completed
        /\ \/ stage' = "failed"
           \/ stage' = "done" /\ playlist' = Listed
    BY <1>6 DEF Assemble, Fail
  <2>2. Good => Covers(completed, Ids)
    BY <2>1 DEF CompletedInv
  <2>3. completed \in Entries /\ [video |-> video, args |-> args] \in Launches
    BY DEF PipeInv, TypeOK, Entries
  <2>4. Good => Len(Listed) = Count /\ \A id \in Ids : Listed[id + 1] = SegmentFile(id)
    BY <2>2, <2>3, InOrderFacts
  <2>. QED
    BY <1>1, <2>1, <2>2, <2>4 DEF CompletedInv
<1>7. CASE Decide
  <2>1. stage' \in {"failed", "copy"} \/ Has("smart-report")
    BY <1>7 DEF Decide, Fail
  <2>. QED
    BY <1>1, <2>1 DEF CompletedInv, Good
<1>8. CASE Analyze \/ SplitDone
  <2>1. stage' \in {"split", "plan", "failed"}
    BY <1>8 DEF Analyze, SplitDone, Fail
  <2>. QED
    BY <2>1 DEF CompletedInv
<1>9. CASE Starts \/ \E id \in Ids : SplitEnds(id) \/ WorkerEnds(id)
  <2>1. UNCHANGED <<stage, copied, completed>> /\ stage \in {"split", "encode"}
    BY <1>9 DEF Starts, SplitEnds, WorkerEnds
  <2>. QED
    BY <1>1, <1>2, <2>1 DEF CompletedInv
<1>. QED
  BY <1>3, <1>4, <1>5, <1>6, <1>7, <1>8, <1>9 DEF CoordinatorNext

-----------------------------------------------------------------------------
(* The job *)

(* A job in the list is at work, complete or in error, as its coordinator   *)
(* is; what comes from the web server is what it writes; children have been *)
(* left behind only by a deletion.                                          *)
StatusInv ==
  /\ child = "none" => stage = "analyze"
  /\ child # "shell" => FromTheWeb
  /\ orphans # {} \/ cut => Deleted
  /\ listed => dir = "there"
  /\ listed => \/ child = "alive" /\ handle /\ status = "running"
               \/ child = "over" /\ status = "complete" /\ stage = "done"
               \/ child = "over" /\ status = "error" /\ stage # "done"

JobInv == PipeInv /\ CompletedInv /\ (~Deleted => FileInv) /\ DirInv /\ StatusInv

(* A coordinator that starts satisfies the invariant of the pipeline.       *)
LEMMA InitPipe ==
  ASSUME WebInit
  PROVE  PipeInv
<1>1. /\ \E l \in Launches : video = l.video /\ args = l.args
      /\ stage = "analyze" /\ gops = <<>> /\ pool = NewPool({})
      /\ files = [n \in Names |-> Nothing]
      /\ paths = <<>> /\ copied = <<>> /\ completed = <<>>
  BY DEF WebInit, Init
<1>2. [video |-> video, args |-> args] \in Launches
  <2>1. PICK l \in Launches : video = l.video /\ args = l.args
    BY <1>1
  <2>2. l = [video |-> l.video, args |-> l.args]
    BY PipelineAssumption
  <2>. QED
    BY <2>1, <2>2
<1>3. files \in [Names -> [seg : Ids \union {-1}, how : {"none", "part", "copy", "encode"}]]
  BY <1>1, ContentFacts DEF Contents
<1>4. TypeOK
  <2>1. pool.running = {}
    BY <1>1, NewPoolIsIdle
  <2>2. <<>> \in Seq(Names) /\ <<>> \in Seq(BOOLEAN) /\ <<>> \in Seq([id : Ids, file : Names])
    BY EmptySeq
  <2>. QED
    BY <1>1, <1>2, <1>3, <2>1, <2>2 DEF TypeOK
<1>. QED
  BY <1>1, <1>4, InitPool DEF PipeInv, PlanInv, Planned, PathInv, ShareInv

(* The invariants stay where the coordinator does nothing.                  *)
LEMMA PipeStays ==
  ASSUME PipeInv, CompletedInv,
         UNCHANGED <<video, args, gops, stage, pool, paths, copied, tolerance, completed, playlist>>,
         files' \in [Names -> Contents]
  PROVE  PipeInv' /\ CompletedInv' /\ (files' = files /\ FileInv => FileInv')
<1>1. /\ Ids' = Ids /\ Count' = Count /\ Names' = Names /\ SortedPaths' = SortedPaths
      /\ (Fast' <=> Fast) /\ (Good' <=> Good) /\ ToEncode' = ToEncode
      /\ \A k : CutFile(k)' = CutFile(k)
  BY Fixed, GoodStays, ToEncodeStays
<1>2. Copied' = Copied
  BY <1>1 DEF Copied
<1>3. TypeOK'
  <2>1. Cap' = Cap
    BY DEF Cap
  <2>2. files' \in [Names -> [seg : Ids \union {-1}, how : {"none", "part", "copy", "encode"}]]
    BY DEF Contents
  <2>. QED
    BY <1>1, <2>1, <2>2 DEF PipeInv, TypeOK
<1>4. PlanInv' /\ PoolInv'
  BY PlanStays DEF PipeInv, PoolInv
<1>5. PathInv'
  BY <1>1 DEF PipeInv, PathInv, Presplit, Has
<1>6. ShareInv'
  BY <1>1 DEF PipeInv, ShareInv
<1>7. CompletedInv'
  BY <1>1, <1>2 DEF CompletedInv
<1>8. files' = files /\ FileInv => FileInv'
  BY <1>1 DEF FileInv
<1>. QED
  BY <1>3, <1>4, <1>5, <1>6, <1>7, <1>8 DEF PipeInv

(* Every step of it keeps the invariant.                                    *)
LEMMA CoordinatorKeepsPipe ==
  ASSUME PipeInv, CoordinatorNext
  PROVE  PipeInv'
<1>1. TypeOK /\ PoolInv /\ PlanInv /\ PathInv /\ ShareInv
      /\ [video |-> video, args |-> args] \in Launches
  BY DEF PipeInv, TypeOK
<1>. QED
  BY <1>1, CoordinatorKeepsTypes, CoordinatorKeepsPool, CoordinatorKeepsPlan,
     CoordinatorKeepsPaths, CoordinatorKeepsShare DEF PipeInv

(* The files of the job have their types, whoever has written them.         *)
LEMMA OrphanFilesType ==
  ASSUME PipeInv, NEW id \in Ids, OrphanEnds(id)
  PROVE  files' \in [Names -> Contents]
<1>1. TypeOK /\ PathInv /\ files \in [Names -> Contents]
  BY DEF PipeInv, TypeOK, Contents
<1>2. OrphanFile(id) \in Names
  BY FileFacts DEF OrphanFile
<1>3. OrphanContent(id) \in Contents
  BY <1>1, ContentFacts, InputFacts DEF OrphanContent
<1>4. \/ files' = files
      \/ \E c \in {OrphanContent(id), Part} : files' = [files EXCEPT ![OrphanFile(id)] = c]
  BY DEF OrphanEnds, Broken
<1>. QED
  BY <1>1, <1>2, <1>3, <1>4, ContentFacts

(* A job that was not started satisfies the invariant of the job.           *)
LEMMA InitJob ==
  ASSUME WebInit
  PROVE  JobInv
<1>1. PipeInv /\ DirInv /\ stage = "analyze"
  BY InitPipe, InitDir DEF WebInit, Init
<1>2. CompletedInv /\ FileInv
  BY <1>1 DEF CompletedInv, FileInv, Planned
<1>3. StatusInv
  <2>1. /\ child = IF FromTheWeb THEN "none" ELSE "shell"
        /\ orphans = {} /\ cut = FALSE /\ listed = FALSE
    BY DEF WebInit
  <2>. QED
    BY <1>1, <2>1 DEF StatusInv
<1>. QED
  BY <1>1, <1>2, <1>3 DEF JobInv

(* Whether a launch comes from the web server depends on the launch alone.  *)
LEMMA WebFixed ==
  ASSUME UNCHANGED <<video, args>>
  PROVE  FromTheWeb' <=> FromTheWeb
BY DEF FromTheWeb

(* Every step of the system keeps StatusInv.                                *)
LEMMA NextStatus ==
  ASSUME DirInv, StatusInv, Next
  PROVE  StatusInv'
<1>1. CASE Transcode
  <2>1. /\ UNCHANGED <<video, args, stage, orphans, cut>>
        /\ child = "none" /\ listed' = TRUE /\ dir' = "there"
        /\ \/ child' = "alive" /\ handle' = TRUE /\ status' = "running"
           \/ child' = "over" /\ handle' = FALSE /\ status' = "error"
    BY <1>1 DEF Transcode, pipelineVars
  <2>2. dir = "none" /\ orphans = {} /\ ~cut /\ stage = "analyze" /\ FromTheWeb
    BY <2>1 DEF DirInv, StatusInv, Deleted
  <2>. QED
    BY <2>1, <2>2, WebFixed DEF StatusInv
<1>2. CASE Run
  <2>1. CoordinatorNext /\ child \in {"shell", "alive"} /\ UNCHANGED webVars
    BY <1>2 DEF Run
  <2>2. UNCHANGED <<video, args, child, orphans, status, listed, handle, dir, cut>>
    BY <2>1, CoordinatorRigid DEF webVars
  <2>. QED
    BY <2>1, <2>2, WebFixed DEF StatusInv, Deleted
<1>3. CASE Close
  <2>1. /\ UNCHANGED <<video, args, stage, orphans, listed, dir, cut>>
        /\ child = "killed" \/ (child = "alive" /\ Exited)
        /\ child' = "over"
        /\ status' = IF status = "cancelled" THEN status
                     ELSE IF child = "alive" /\ stage = "done" THEN "complete" ELSE "error"
    BY <1>3 DEF Close, pipelineVars
  <2>2. listed => child = "alive" /\ status = "running"
    BY <2>1 DEF DirInv, StatusInv
  <2>3. FromTheWeb' /\ (Deleted' <=> Deleted)
    BY <2>1, WebFixed DEF StatusInv, Deleted
  <2>. QED
    BY <2>1, <2>2, <2>3 DEF StatusInv
<1>4. CASE Delete
  <2>1. /\ UNCHANGED <<video, args, stage>>
        /\ listed /\ listed' = FALSE /\ dir' = "clearing"
        /\ child' \in {child, "killed"}
    BY <1>4 DEF Delete, pipelineVars
  <2>2. child \notin {"none", "shell"}
    BY <2>1 DEF DirInv
  <2>. QED
    BY <2>1, <2>2, WebFixed DEF StatusInv, Deleted
<1>5. CASE Clear \/ Remove \/ \E id \in Ids : OrphanEnds(id)
  <2>1. /\ UNCHANGED <<video, args, stage, child, listed, handle, status, cut>>
        /\ orphans' \subseteq orphans
        /\ \/ dir' = dir
           \/ dir \in {"clearing", "cleared"} /\ dir' \in {"cleared", "gone", "left"}
    BY <1>5 DEF Clear, Remove, OrphanEnds, pipelineVars
  <2>. QED
    BY <2>1, WebFixed DEF StatusInv, Deleted, DirInv
<1>. QED
  BY <1>1, <1>2, <1>3, <1>4, <1>5 DEF Next

(* A step that changes nothing keeps what the list tells.                   *)
LEMMA StutterStatus ==
  ASSUME StatusInv, UNCHANGED vars
  PROVE  StatusInv'
BY WebFixed DEF StatusInv, Deleted, vars, pipelineVars, webVars

(* Every step keeps JobInv: the coordinator is at work only while the job   *)
(* is not deleted, and children without one only after that.                *)
LEMMA NextJob ==
  ASSUME JobInv, [Next]_vars
  PROVE  JobInv'
<1>1. PipeInv /\ CompletedInv /\ (~Deleted => FileInv) /\ DirInv /\ StatusInv
  BY DEF JobInv
<1>2. DirInv'
  BY <1>1, NextDir
<1>3. StatusInv'
  BY <1>1, NextStatus, StutterStatus
<1>4. files \in [Names -> Contents] /\ DOMAIN files = Names
      /\ \A n \in Names : files[n] \in Contents
  BY <1>1 DEF PipeInv, TypeOK, Contents
<1>5. CASE Run
  <2>1. CoordinatorNext /\ child \in {"shell", "alive"} /\ dir' = dir
    BY <1>5 DEF Run, webVars
  <2>2. ~Deleted /\ FileInv
    BY <1>1, <2>1, ExitedIsOver DEF DirInv, Deleted
  <2>3. PipeInv' /\ FileInv' /\ CompletedInv'
    BY <1>1, <2>1, <2>2, CoordinatorKeepsPipe, CoordinatorKeepsFiles, CoordinatorKeepsCompleted
  <2>. QED
    BY <1>2, <1>3, <2>3 DEF JobInv
<1>6. CASE Transcode \/ Close \/ Delete \/ Remove \/ UNCHANGED vars
  <2>1. UNCHANGED pipelineVars /\ (dir' = dir \/ dir' \in {"there", "clearing", "gone", "left"})
        /\ (dir' = "there" => dir \in {"none", "there"})
    BY <1>1, <1>6 DEF Transcode, Close, Delete, Remove, vars, webVars, DirInv
  <2>2. PipeInv' /\ CompletedInv' /\ (FileInv => FileInv')
    BY <1>1, <1>4, <2>1, PipeStays DEF pipelineVars
  <2>3. ~Deleted' => ~Deleted
    BY <2>1 DEF Deleted
  <2>. QED
    BY <1>1, <1>2, <1>3, <2>2, <2>3 DEF JobInv
<1>7. CASE Clear
  <2>1. /\ UNCHANGED <<video, args, gops, stage, pool, paths, copied, tolerance, completed, playlist>>
        /\ files' = [n \in Names |-> IF InDir(n) THEN Nothing ELSE files[n]]
        /\ dir' = "cleared"
    BY <1>7 DEF Clear
  <2>2. files' \in [Names -> Contents]
    BY <1>4, <2>1, ContentFacts
  <2>3. PipeInv' /\ CompletedInv' /\ Deleted'
    BY <1>1, <2>1, <2>2, PipeStays DEF Deleted
  <2>. QED
    BY <1>2, <1>3, <2>3 DEF JobInv
<1>8. CASE \E id \in Ids : OrphanEnds(id)
  <2>1. PICK id \in Ids : OrphanEnds(id)
    BY <1>8
  <2>2. /\ UNCHANGED <<video, args, gops, stage, pool, paths, copied, tolerance, completed, playlist>>
        /\ dir' = dir /\ orphans # {}
    BY <2>1 DEF OrphanEnds
  <2>3. Deleted'
    BY <1>1, <2>2 DEF StatusInv, Deleted
  <2>4. PipeInv' /\ CompletedInv'
    BY <1>1, <2>1, <2>2, OrphanFilesType, PipeStays
  <2>. QED
    BY <1>2, <1>3, <2>3, <2>4 DEF JobInv
<1>. QED
  BY <1>5, <1>6, <1>7, <1>8 DEF Next

(* The invariant of the job, which the next theorems follow from.           *)
THEOREM JobInvariant == Spec => []JobInv
<1>1. WebInit => JobInv
  BY InitJob
<1>2. JobInv /\ [Next]_vars => JobInv'
  BY NextJob
<1>. QED
  BY <1>1, <1>2, PTL DEF Spec

(* The coordinator's data have their types, and each of its two pools has   *)
(* no more children at work than it has room for, whatever the source, the  *)
(* command line and the sizes of the pools.                                 *)
THEOREM PipelineTypeCorrect == Spec => []TypeOK
<1>1. JobInv => TypeOK
  BY DEF JobInv, PipeInv
<1>. QED
  BY <1>1, JobInvariant, PTL

(* A smart plan decides each segment by its own groups of pictures.         *)
THEOREM SegmentsDecideByTheirOwn == Spec => []OwnGroupsDecide
<1>1. JobInv => OwnGroupsDecide
  BY OwnGroups DEF JobInv, PipeInv, TypeOK
<1>. QED
  BY <1>1, JobInvariant, PTL

(* The playlist names the file of every segment, in order, and each file    *)
(* holds its segment as planned.                                            *)
LEMMA WholeWhenGood ==
  ASSUME JobInv, Written, Good, ~Deleted
  PROVE  Whole
<1>1. /\ stage = "done" /\ FileInv /\ CompletedInv
      /\ Count \in Nat /\ \A i \in 1..Count : i - 1 \in Ids /\ (i - 1) + 1 = i
  <2>1. stage = "done" /\ FileInv /\ CompletedInv /\ [video |-> video, args |-> args] \in Launches
    BY DEF JobInv, Written, PipeInv, TypeOK
  <2>. QED
    BY <2>1, SourceFacts
<1>2. /\ Len(playlist) = Count
      /\ \A id \in Ids : playlist[id + 1] = SegmentFile(id)
  BY <1>1 DEF CompletedInv
<1>3. \A id \in Ids :
        files[SegmentFile(id)] =
          [seg |-> id, how |-> IF copied[id + 1] THEN "copy" ELSE "encode"]
  BY <1>1 DEF FileInv, Cut, Encoded
<1>4. ASSUME NEW i \in 1..Count
      PROVE  files[playlist[i]] =
               [seg |-> i - 1, how |-> IF copied[i] THEN "copy" ELSE "encode"]
  <2>1. PICK id \in Ids : id = i - 1 /\ id + 1 = i
    BY <1>1
  <2>. QED
    BY <1>2, <1>3, <2>1
<1>. QED
  BY <1>2, <1>4 DEF Whole

(* The output of a run that ends well is whole, in whatever order its       *)
(* children ended, until the job is deleted.                                *)
THEOREM OutputComesOutWhole == Spec => []OutputIsWhole
<1>1. JobInv => OutputIsWhole
  <2>. SUFFICES ASSUME JobInv, Written, dir \in {"none", "there"}, Count <= Power[Width],
                       ~(Has("copy") /\ Smart)
                PROVE  Whole
    BY DEF OutputIsWhole
  <2>1. Good /\ ~Deleted
    BY DEF Good, Deleted, Written
  <2>. QED
    BY <2>1, WholeWhenGood
<1>. QED
  BY <1>1, JobInvariant, PTL

(* The list of jobs tells the truth about the coordinators.                 *)
THEOREM ListTellsTheTruth == Spec => []StatusIsTrue
<1>1. JobInv => StatusIsTrue
  <2>. SUFFICES ASSUME JobInv, listed
                PROVE  /\ status = "complete" =>
                            Written /\ dir = "there" /\ (Count <= Power[Width] => Whole)
                       /\ status = "error" => stage # "done"
                       /\ status = "running" => handle /\ child = "alive"
    BY DEF StatusIsTrue
  <2>1. /\ dir = "there"
        /\ \/ child = "alive" /\ handle /\ status = "running"
           \/ child = "over" /\ status = "complete" /\ stage = "done"
           \/ child = "over" /\ status = "error" /\ stage # "done"
    BY DEF JobInv, StatusInv
  <2>2. ASSUME status = "complete"
        PROVE  Written /\ (Count <= Power[Width] => Whole)
    <3>1. stage = "done" /\ FromTheWeb
      BY <2>1, <2>2 DEF JobInv, StatusInv
    <3>2. ~Has("smart-report") /\ ~(Has("copy") /\ Smart)
      BY <3>1 DEF FromTheWeb, Has, Smart
    <3>3. Written /\ ~Deleted
      BY <2>1, <3>1, <3>2 DEF Written, Deleted
    <3>. QED
      BY <3>2, <3>3, WholeWhenGood DEF Good
  <2>. QED
    BY <2>1, <2>2
<1>. QED
  BY <1>1, JobInvariant, PTL
=============================================================================
