------------------------- MODULE WorkerOutput_proofs -------------------------
(***************************************************************************)
(* Theorems about what the workers write, for every video, key frames,     *)
(* target length, delay of the decoder and number of failed transfers.     *)
(***************************************************************************)
EXTENDS SegmentWorker_proofs, WellFoundedInduction

-----------------------------------------------------------------------------
(* Seeking *)

(* A set of numbers has a least one.                                        *)
LEMMA LeastNumber ==
  ASSUME NEW T \in SUBSET Nat, T # {}
  PROVE  \E x \in T : \A y \in T : x <= y
<1>1. PICK x \in T : \A y \in T : ~ (<<y, x>> \in OpToRel(<, Nat))
  BY WFMin, NatLessThanWellFounded
<1>2. ASSUME NEW y \in T
      PROVE  x <= y
  <2>1. y < x => <<y, x>> \in OpToRel(<, Nat)
    <3>. DEFINE ss == <<y, x>>
    <3>1. ss \in Nat \X Nat /\ ss[1] = y /\ ss[2] = x
      OBVIOUS
    <3>. HIDE DEF ss
    <3>2. y < x => ss \in { tt \in Nat \X Nat : tt[1] < tt[2] }
      BY <3>1
    <3>. QED
      BY <3>2 DEF OpToRel, ss
  <2>2. ~ (y < x)
    BY <1>1, <2>1
  <2>. QED
    BY <2>2
<1>. QED
  BY <1>2

(* A set of indices has a last one.                                         *)
LEMMA LastIndex ==
  ASSUME NEW n \in Nat, NEW I \in SUBSET (1..n), I # {}
  PROVE  LastOf(I) \in I /\ \A k \in I : k <= LastOf(I)
<1>. DEFINE T == { n - i : i \in I }
<1>1. T \in SUBSET Nat /\ T # {}
  <2>1. \A i \in 1..n : n - i \in Nat
    OBVIOUS
  <2>2. \A i \in I : n - i \in Nat
    BY <2>1
  <2>. QED
    BY <2>2
<1>2. PICK x \in T : \A y \in T : x <= y
  BY <1>1, LeastNumber
<1>3. PICK i \in I : x = n - i
  BY <1>2
<1>4. ASSUME NEW k \in I
      PROVE  k <= i
  <2>1. n - i <= n - k
    BY <1>2, <1>3
  <2>2. i \in 1..n /\ k \in 1..n
    BY <1>3
  <2>. QED
    BY <2>1, <2>2
<1>. QED
  BY <1>4 DEF LastOf

(* Where a seek to the frame t lands: on a key frame at or before it, on t  *)
(* itself if that is one, and at the start if there is none.                *)
LEMMA SeekFacts ==
  ASSUME src \in Sources, NEW t \in Int
  PROVE  /\ SeekTo(t) \in Nat
         /\ SeekTo(t) < src.frames \/ SeekTo(t) = 0
         /\ t >= 0 => SeekTo(t) <= t
         /\ (t = 0 \/ \E i \in 1..Len(src.keys) : src.keys[i] = t) => SeekTo(t) = t
<1>. DEFINE I == KeysUpTo(t)
            m == LastOf(I)
<1>1. Len(src.keys) \in Nat /\ I \in SUBSET (1..Len(src.keys))
  BY VideoFacts DEF KeysUpTo
<1>2. CASE I = {}
  <2>1. SeekTo(t) = 0
    BY <1>2 DEF SeekTo
  <2>2. ~ \E i \in 1..Len(src.keys) : src.keys[i] = t
    BY <1>2 DEF KeysUpTo
  <2>. QED
    BY <2>1, <2>2
<1>3. CASE I # {}
  <2>1. m \in I /\ \A k \in I : k <= m
    BY <1>1, <1>3, LastIndex
  <2>2. SeekTo(t) = src.keys[m]
    BY <1>3 DEF SeekTo
  <2>3. m \in 1..Len(src.keys) /\ src.keys[m] <= t
    BY <2>1 DEF KeysUpTo
  <2>4. src.keys[m] \in Nat /\ src.keys[m] < src.frames
    BY <2>3, VideoFacts
  <2>5. ASSUME NEW i \in 1..Len(src.keys), src.keys[i] = t
        PROVE  SeekTo(t) = t
    <3>1. i <= m
      BY <2>1, <2>5 DEF KeysUpTo
    <3>2. CASE i = m
      BY <2>2, <2>5, <3>2
    <3>3. CASE i < m
      BY <2>3, <2>4, <2>5, <3>3, VideoFacts
    <3>. QED
      BY <1>1, <2>3, <3>1, <3>2, <3>3
  <2>. QED
    BY <2>2, <2>3, <2>4, <2>5
<1>. QED
  BY <1>2, <1>3

(* A seek goes to a time at or before its target and inside the video.      *)
LEMMA SeekBack ==
  ASSUME src \in Sources
  PROVE  \A t \in Nat : /\ SeekTo(t) \in Nat /\ SeekTo(t) <= t
                        /\ SeekTo(t) < src.frames \/ SeekTo(t) = 0
<1>. SUFFICES ASSUME NEW t \in Nat
              PROVE  /\ SeekTo(t) \in Nat /\ SeekTo(t) <= t
                     /\ SeekTo(t) < src.frames \/ SeekTo(t) = 0
  OBVIOUS
<1>1. t \in Int /\ t >= 0
  OBVIOUS
<1>. QED
  BY <1>1, SeekFacts

-----------------------------------------------------------------------------
(* The times of the segments *)

(* A key frame of the list is one of the video at its own time, or the one  *)
(* that fast_analyze_video inserted, at time zero.                          *)
Placed(n) ==
  \/ kf[n].time = Time(kf[n].pos) /\ \E i \in 1..Len(src.keys) : src.keys[i] = kf[n].pos
  \/ mode # "seek" /\ n = 1 /\ kf[n].pos = 0 /\ kf[n].time = 0

(* A segment goes from a key frame to a later one or to the end.            *)
Bounded(n, last, to) ==
  \/ \E m \in n + 1 .. Len(kf) : last = kf[m].pos - 1 /\ to = kf[m].time
  \/ last = total - 1 /\ to = Duration

Cut(g) ==
  \E n \in 1..Len(kf) :
    g.first = kf[n].pos /\ g.from = kf[n].time /\ Bounded(n, g.last, g.to)

AllCut(s) == \A i \in 1..Len(s) : Cut(s[i])

(* Of any two segments, not only neighbours, the first ends before the      *)
(* second starts.                                                           *)
Apart(s) == \A i, j \in 1..Len(s) : i < j => s[i].to <= s[j].from

Before(s, t) == \A i \in 1..Len(s) : s[i].to <= t

CutInv ==
  /\ pc # "analyze" => \A n \in 1..Len(kf) : Placed(n)
  /\ pc # "analyze" /\ mode = "seek" => total = src.frames
  /\ AllCut(segs) /\ Apart(segs)
  /\ pc = "loop" => Before(segs, kf[cur].time)

(* Later key frames are later in time too.                                  *)
LEMMA TimesGrow ==
  ASSUME SegInv, CutInv, pc # "analyze",
         NEW n \in 1..Len(kf), NEW m \in 1..Len(kf), n < m
  PROVE  kf[n].time \in Nat /\ kf[m].time \in Nat /\ kf[n].time <= kf[m].time
<1>1. kf \in Seq(Key) /\ Len(kf) \in Nat /\ src.offset \in Nat
  BY LenProperties, VideoFacts DEF SegInv, SegTypeOK
<1>2. kf[n] \in Key /\ kf[m] \in Key
  BY <1>1, ElementOfSeq
<1>3. /\ kf[n].time \in Nat /\ kf[m].time \in Nat
      /\ kf[n].pos \in Nat /\ kf[m].pos \in Nat
  BY <1>2 DEF Key
<1>4. kf[n].pos < kf[m].pos
  BY DEF SegInv, Analyzed
<1>5. kf[n].time = Time(kf[n].pos) \/ kf[n].time = 0
  BY DEF CutInv, Placed
<1>6. kf[m].time = Time(kf[m].pos)
  <2>1. m # 1
    BY <1>1
  <2>. QED
    BY <2>1 DEF CutInv, Placed
<1>. QED
  BY <1>1, <1>3, <1>4, <1>5, <1>6 DEF Time

(* Adding a segment that starts at the key frame n.                         *)
LEMMA CutsGrow ==
  ASSUME kf \in Seq(Key), NEW s \in Seq(Segment), NEW n \in 1..Len(kf),
         NEW last \in Int, NEW to \in Nat,
         AllCut(s), Apart(s), Before(s, kf[n].time), Bounded(n, last, to)
  PROVE  LET t == Append(s, Seg(Len(s), n, last, to))
         IN  /\ t \in Seq(Segment) /\ AllCut(t) /\ Apart(t)
             /\ kf[n].time <= to => Before(t, to)
<1>. DEFINE g == Seg(Len(s), n, last, to)
            t == Append(s, g)
            k == Len(s)
<1>1. k \in Nat /\ Len(kf) \in Nat /\ kf[n] \in Key
  BY LenProperties, ElementOfSeq
<1>2. g \in Segment
  BY <1>1 DEF Seg, Segment, Key
<1>3. /\ t \in Seq(Segment) /\ Len(t) = k + 1 /\ t[k + 1] = g
      /\ \A i \in 1..k : t[i] = s[i]
  BY <1>2, AppendProperties
<1>4. g.first = kf[n].pos /\ g.from = kf[n].time /\ g.last = last /\ g.to = to
  BY DEF Seg
<1>5. \A i \in 1..k : s[i].to \in Nat
  <2>1. \A i \in 1..k : s[i] \in Segment
    BY ElementOfSeq
  <2>. QED
    BY <2>1 DEF Segment
<1>6. kf[n].time \in Nat
  BY <1>1 DEF Key
<1>. HIDE DEF g, t
<1>7. AllCut(t)
  <2>1. Cut(g)
    BY <1>4 DEF Cut
  <2>2. ASSUME NEW i \in 1..k + 1
        PROVE  Cut(t[i])
    <3>1. CASE i = k + 1
      BY <1>3, <2>1, <3>1
    <3>2. CASE i \in 1..k
      BY <1>3, <3>2 DEF AllCut
    <3>. QED
      BY <1>1, <3>1, <3>2
  <2>. QED
    BY <1>3, <2>2 DEF AllCut
<1>8. Apart(t)
  <2>1. SUFFICES ASSUME NEW i \in 1..k + 1, NEW j \in 1..k + 1, i < j
                 PROVE  t[i].to <= t[j].from
    BY <1>3 DEF Apart
  <2>2. i \in 1..k /\ t[i] = s[i]
    BY <1>1, <1>3, <2>1
  <2>3. CASE j = k + 1
    BY <1>3, <1>4, <2>2, <2>3 DEF Before
  <2>4. CASE j \in 1..k
    BY <1>3, <2>1, <2>2, <2>4 DEF Apart
  <2>. QED
    BY <1>1, <2>3, <2>4
<1>9. ASSUME kf[n].time <= to
      PROVE  Before(t, to)
  <2>1. SUFFICES ASSUME NEW i \in 1..k + 1
                 PROVE  t[i].to <= to
    BY <1>3 DEF Before
  <2>2. CASE i = k + 1
    BY <1>3, <1>4, <2>2
  <2>3. CASE i \in 1..k
    <3>1. s[i].to <= kf[n].time
      BY <2>3 DEF Before
    <3>. QED
      BY <1>3, <1>5, <1>6, <1>9, <2>3, <3>1
  <2>. QED
    BY <1>1, <2>2, <2>3
<1>. QED
  BY <1>3, <1>7, <1>8, <1>9 DEF g, t

(* A step that cuts at the key frame n.                                     *)
LEMMA CutAtCuts ==
  ASSUME SegInv, CutInv, pc = "loop", NEW n \in 1..Len(kf), cur < n, CutAt(n)
  PROVE  /\ \A i \in 1..Len(segs') : Cut(segs'[i])
         /\ Apart(segs')
         /\ pc' = "loop" => Before(segs', kf[n].time)
<1>. DEFINE piece == Seg(Len(segs), cur, kf[n].pos - 1, kf[n].time)
            more == Append(segs, piece)
            rest == Seg(Len(segs) + 1, n, total - 1, Duration)
<1>1. /\ src \in Sources /\ total \in Nat /\ src.frames \in Nat
      /\ kf \in Seq(Key) /\ Len(kf) \in Nat /\ cur \in 1..Len(kf)
      /\ \A i \in 1..Len(kf) : kf[i].pos \in Nat /\ kf[i].time \in Nat
      /\ segs \in Seq(Segment) /\ Len(segs) \in Nat
  BY LoopFacts
<1>2. kf[n].pos - 1 \in Int /\ kf[n].time \in Nat /\ kf[cur].time <= kf[n].time
  BY <1>1, TimesGrow
<1>3. AllCut(segs) /\ Apart(segs) /\ Before(segs, kf[cur].time)
  BY DEF CutInv
<1>4. Bounded(cur, kf[n].pos - 1, kf[n].time)
  <2>1. n \in cur + 1 .. Len(kf)
    BY <1>1
  <2>. QED
    BY <2>1 DEF Bounded
<1>5. more \in Seq(Segment) /\ AllCut(more) /\ Apart(more) /\ Before(more, kf[n].time)
  <2>1. LET t == Append(segs, Seg(Len(segs), cur, kf[n].pos - 1, kf[n].time))
        IN  /\ t \in Seq(Segment) /\ AllCut(t) /\ Apart(t)
            /\ kf[cur].time <= kf[n].time => Before(t, kf[n].time)
    BY <1>1, <1>2, <1>3, <1>4, CutsGrow
  <2>. QED
    BY <1>2, <2>1
<1>6. CASE segs' = more
  BY <1>5, <1>6 DEF AllCut
<1>7. CASE segs' = segs \o <<piece, rest>> /\ pc' = "done"
  <2>1. piece \in Segment /\ Len(more) = Len(segs) + 1
    <3>1. piece \in Segment
      BY <1>1, <1>2 DEF Seg, Segment
    <3>. QED
      BY <1>1, <3>1
  <2>2. Duration \in Nat /\ total - 1 \in Int
    BY <1>1 DEF Duration
  <2>3. rest \in Segment
    <3>1. Len(segs) + 1 \in Nat
      BY <1>1
    <3>. QED
      BY <1>1, <2>2, <3>1 DEF Seg, Segment
  <2>4. segs' = Append(more, rest)
    <3>. HIDE DEF piece, rest
    <3>. QED
      BY <1>1, <1>7, <2>1, <2>3
  <2>5. AllCut(Append(more, rest)) /\ Apart(Append(more, rest))
    <3>1. rest = Seg(Len(more), n, total - 1, Duration)
      BY <2>1
    <3>2. Bounded(n, total - 1, Duration)
      BY DEF Bounded
    <3>. HIDE DEF more, rest
    <3>3. LET t == Append(more, Seg(Len(more), n, total - 1, Duration))
          IN  AllCut(t) /\ Apart(t)
      BY <1>1, <1>5, <2>2, <3>2, CutsGrow
    <3>. QED
      BY <3>1, <3>3
  <2>. QED
    BY <1>7, <2>4, <2>5 DEF AllCut
<1>. QED
  BY <1>6, <1>7 DEF CutAt, Rest

(* What was said of the segments is still so when only segments were added. *)
LEMMA CutsStay ==
  ASSUME CutInv, pc # "analyze", UNCHANGED <<src, mode, total, kf>>,
         \A i \in 1..Len(segs') : Cut(segs'[i]), Apart(segs'),
         pc' = "loop" => Before(segs', kf[cur'].time)
  PROVE  CutInv'
<1>1. \A n \in 1..Len(kf') : Placed(n)'
  BY DEF CutInv, Placed, Time
<1>2. AllCut(segs)'
  BY DEF AllCut, Cut, Bounded, Duration
<1>3. Apart(segs)'
  BY DEF Apart
<1>4. pc' = "loop" => Before(segs, kf[cur].time)'
  BY DEF Before
<1>5. mode' = "seek" => total' = src'.frames
  BY DEF CutInv
<1>. QED
  BY <1>1, <1>2, <1>3, <1>4, <1>5 DEF CutInv

(* The analysis gives key frames of the video at their times.               *)
LEMMA AnalysisPlaces ==
  ASSUME SegInv, CutInv, Segmenting, AnalyzeFull \/ AnalyzeFast
  PROVE  CutInv'
<1>1. src \in Sources /\ segs = <<>> /\ segs' = <<>> /\ src' = src /\ mode' = mode /\ pc' = "start"
  BY DEF AnalyzeFull, AnalyzeFast, SegInv, SegTypeOK, Segmenting, workerVars
<1>2. AllCut(segs)' /\ Apart(segs)'
  BY <1>1 DEF AllCut, Apart
<1>. DEFINE m == Len(src.keys)
<1>3. /\ m \in Nat /\ KeyTimes \in Seq(Key) /\ Len(KeyTimes) = m
      /\ \A i \in 1..m : KeyTimes[i] = [pos |-> src.keys[i], time |-> Time(src.keys[i])]
  BY <1>1, KeyTimesFacts, VideoFacts DEF KeyTimes
<1>4. CASE kf' = KeyTimes /\ (mode = "seek" => total' = src.frames)
  <2>1. ASSUME NEW n \in 1..Len(kf')
        PROVE  Placed(n)'
    <3>1. n \in 1..m /\ kf'[n] = [pos |-> src.keys[n], time |-> Time(src.keys[n])]
      BY <1>3, <1>4, <2>1
    <3>. QED
      BY <1>1, <3>1 DEF Placed, Time
  <2>. QED
    BY <1>1, <1>2, <1>4, <2>1 DEF CutInv
<1>5. CASE mode # "seek" /\ kf' = <<[pos |-> 0, time |-> 0]>> \o KeyTimes
  <2>. DEFINE zero == <<[pos |-> 0, time |-> 0]>>
  <2>1. zero \in Seq(Key) /\ Len(zero) = 1 /\ zero[1] = [pos |-> 0, time |-> 0]
    BY DEF Key
  <2>2. /\ Len(kf') = m + 1 /\ kf'[1] = [pos |-> 0, time |-> 0]
        /\ \A i \in 2..m + 1 : kf'[i] = KeyTimes[i - 1]
    BY <1>3, <1>5, <2>1, ConcatProperties
  <2>3. ASSUME NEW n \in 1..Len(kf')
        PROVE  Placed(n)'
    <3>1. CASE n = 1
      BY <1>1, <1>5, <2>2, <3>1 DEF Placed
    <3>2. CASE n # 1
      <4>1. n \in 2..m + 1 /\ n - 1 \in 1..m
        BY <1>3, <2>2, <2>3, <3>2
      <4>2. kf'[n] = [pos |-> src.keys[n - 1], time |-> Time(src.keys[n - 1])]
        BY <1>3, <2>2, <4>1
      <4>. QED
        BY <1>1, <4>1, <4>2 DEF Placed, Time
    <3>. QED
      BY <3>1, <3>2
  <2>. QED
    BY <1>1, <1>2, <1>5, <2>3 DEF CutInv
<1>6. CASE pc = "analyze" /\ AnalyzeFull
  <2>1. kf' = KeyTimes /\ total' = src.frames
    BY <1>6 DEF AnalyzeFull
  <2>. QED
    BY <1>4, <2>1
<1>7. CASE mode # "seek" /\ AnalyzeFast
  BY <1>4, <1>5, <1>7 DEF AnalyzeFast
<1>. QED
  BY <1>6, <1>7 DEF Segmenting, AnalyzeFull, AnalyzeFast, Start, CutRest, CutAtNearest, CutAtNext

(* Every step of the segmenter.                                             *)
LEMMA CutInvStep ==
  ASSUME SegInv, CutInv, Segmenting
  PROVE  CutInv'
<1>1. mode' = mode
  BY DEF Segmenting, workerVars
<1>2. CASE AnalyzeFull \/ AnalyzeFast
  BY <1>2, AnalysisPlaces
<1>3. CASE Start
  <2>1. UNCHANGED <<src, total, kf, segs, cur>> /\ pc = "start" /\ segs = <<>>
    BY <1>3 DEF Start, SegInv
  <2>2. (\A i \in 1..Len(segs') : Cut(segs'[i])) /\ Apart(segs') /\ Before(segs', kf[cur'].time)
    BY <2>1 DEF Apart, Before
  <2>. QED
    BY <1>1, <2>1, <2>2, CutsStay
<1>4. CASE CutRest
  <2>1. /\ UNCHANGED <<src, total, kf, cur>> /\ pc = "loop" /\ pc' = "done"
        /\ segs' = Append(segs, Seg(Len(segs), cur, total - 1, Duration))
    BY <1>4 DEF CutRest, Rest
  <2>2. Duration \in Nat /\ total - 1 \in Int /\ Bounded(cur, total - 1, Duration)
    BY <2>1, LoopFacts DEF Duration, Bounded
  <2>3. AllCut(segs) /\ Apart(segs) /\ Before(segs, kf[cur].time)
    BY <2>1 DEF CutInv
  <2>4. LET t == Append(segs, Seg(Len(segs), cur, total - 1, Duration))
        IN  AllCut(t) /\ Apart(t)
    BY <2>1, <2>2, <2>3, LoopFacts, CutsGrow
  <2>. QED
    BY <1>1, <2>1, <2>4, CutsStay DEF AllCut
<1>5. ASSUME NEW n \in 1..Len(kf), pc = "loop", cur < n, CutAt(n)
      PROVE  CutInv'
  <2>1. UNCHANGED <<src, total, kf>> /\ cur' = n
    BY <1>5 DEF CutAt
  <2>. QED
    BY <1>1, <1>5, <2>1, CutAtCuts, CutsStay
<1>6. CASE CutAtNearest
  <2>1. pc = "loop" /\ \E n \in 1..Len(kf) : n > cur /\ CutAt(n)
    BY <1>6 DEF CutAtNearest
  <2>2. PICK n \in 1..Len(kf) : n > cur /\ CutAt(n)
    BY <2>1
  <2>3. cur < n
    BY <2>1, <2>2, LoopFacts
  <2>. QED
    BY <1>5, <2>1, <2>2, <2>3
<1>7. CASE CutAtNext
  <2>1. pc = "loop" /\ cur < Len(kf) /\ CutAt(cur + 1)
    BY <1>7 DEF CutAtNext
  <2>2. cur + 1 \in 1..Len(kf) /\ cur < cur + 1
    BY <2>1, LoopFacts
  <2>. QED
    BY <1>5, <2>1, <2>2
<1>. QED
  BY <1>2, <1>3, <1>4, <1>6, <1>7 DEF Segmenting

(* The workers leave the segments alone.                                    *)
LEMMA CutInvStutter ==
  ASSUME CutInv, UNCHANGED <<segVars, mode>>
  PROVE  CutInv'
BY DEF CutInv, AllCut, Cut, Bounded, Apart, Before, Placed, Time, Duration, segVars

(* A segment, once all are made.                                            *)
LEMMA PieceFacts ==
  ASSUME SegInv, CutInv, pc = "done", NEW k \in 1..Len(segs), NEW g, g = segs[k]
  PROVE  /\ g.first \in Nat /\ g.last \in Int /\ g.from \in Nat /\ g.to \in Nat
         /\ mode = "seek" => g.from = src.offset + g.first
         /\ g.from <= g.to \/ g.to = src.frames
         /\ src.offset = 0 => /\ g.from = g.first /\ SeekTo(g.from) = g.from
                              /\ g.to = g.last + 1 \/ g.to = src.frames
<1>1. /\ src \in Sources /\ kf \in Seq(Key) /\ Len(kf) \in Nat /\ segs \in Seq(Segment)
      /\ src.offset \in Nat
  BY VideoFacts, LenProperties DEF SegInv, SegTypeOK
<1>2. g \in Segment
  BY <1>1, ElementOfSeq
<1>3. g.first \in Nat /\ g.last \in Int /\ g.from \in Nat /\ g.to \in Nat
  BY <1>2 DEF Segment
<1>4. PICK n \in 1..Len(kf) : /\ g.first = kf[n].pos /\ g.from = kf[n].time
                              /\ Bounded(n, g.last, g.to)
  BY DEF CutInv, AllCut, Cut
<1>5. Placed(n)
  BY DEF CutInv
<1>6. mode = "seek" => g.from = src.offset + g.first
  BY <1>4, <1>5 DEF Placed, Time
<1>7. src.offset = 0 => g.from = g.first /\ SeekTo(g.from) = g.from
  <2>1. ASSUME src.offset = 0
        PROVE  /\ g.from = g.first
               /\ g.from = 0 \/ \E i \in 1..Len(src.keys) : src.keys[i] = g.from
    BY <1>3, <1>4, <1>5, <2>1 DEF Placed, Time
  <2>. QED
    BY <1>1, <1>3, <2>1, SeekFacts
<1>8. CASE g.to = Duration
  BY <1>3, <1>6, <1>7, <1>8 DEF Duration
<1>9. ASSUME NEW m \in n + 1 .. Len(kf), g.last = kf[m].pos - 1, g.to = kf[m].time
      PROVE  g.from <= g.to /\ (src.offset = 0 => g.to = g.last + 1)
  <2>1. m \in 1..Len(kf) /\ n < m /\ m # 1
    BY <1>1
  <2>2. kf[n].time <= kf[m].time
    BY <2>1, TimesGrow
  <2>3. kf[m].time = src.offset + kf[m].pos
    BY <2>1 DEF CutInv, Placed, Time
  <2>4. kf[m].pos \in Nat
    <3>1. kf[m] \in Key
      BY <1>1, <2>1, ElementOfSeq
    <3>. QED
      BY <3>1 DEF Key
  <2>. QED
    BY <1>3, <1>4, <1>9, <2>2, <2>3, <2>4
<1>. QED
  BY <1>3, <1>4, <1>6, <1>7, <1>8, <1>9 DEF Bounded

-----------------------------------------------------------------------------
(* The input and the output of one process *)

(* The source frame that output frame 0 is.                                 *)
BaseOf(g) ==
  IF mode # "seek" THEN SeekTo(g.from)
  ELSE IF g.from > Near THEN g.from - src.offset ELSE 0

(* What a worker opens, and where it starts and ends to read.               *)
Given(g) ==
  /\ src \in Sources /\ src.frames \in Nat /\ src.offset \in Nat
  /\ g.first \in Nat /\ g.last \in Int /\ g.from \in Nat /\ g.to \in Nat
  /\ FirstPacket(g) \in Nat /\ EndOfInput(g) \in Nat /\ BaseOf(g) \in Int
  /\ FirstPacket(g) <= EndOfInput(g) /\ EndOfInput(g) <= src.frames
  /\ mode = "seek" =>
       /\ g.from = src.offset + g.first /\ Origin(g) = g.from
       /\ EndOfInput(g) = src.frames
       /\ g.from > Near => FirstPacket(g) <= g.first /\ BaseOf(g) = g.first
       /\ g.from <= Near => FirstPacket(g) = 0 /\ BaseOf(g) = 0
  /\ mode # "seek" =>
       /\ FirstPacket(g) = SeekTo(g.from) /\ BaseOf(g) = SeekTo(g.from)
       /\ Origin(g) = src.offset + SeekTo(g.from)
       /\ EndOfInput(g) <= g.to
       /\ EndOfInput(g) = g.to \/ EndOfInput(g) = src.frames
  /\ src.offset = 0 =>
       /\ FirstPacket(g) <= g.first /\ g.from = g.first /\ SeekTo(g.from) = g.from
       /\ g.to = g.last + 1 \/ g.to = src.frames

(* Once the workers have ended, every segment was read as Given says.       *)
LEMMA EveryPieceGiven ==
  ASSUME SegInv, CutInv, pc = "done", NEW k \in 1..Len(segs)
  PROVE  Given(segs[k])
<1>. DEFINE h == segs[k]
<1>1. PICK g : g = h
  OBVIOUS
<1>2. /\ g.first \in Nat /\ g.last \in Int /\ g.from \in Nat /\ g.to \in Nat
      /\ mode = "seek" => g.from = src.offset + g.first
      /\ g.from <= g.to \/ g.to = src.frames
      /\ src.offset = 0 => /\ g.from = g.first /\ SeekTo(g.from) = g.from
                           /\ g.to = g.last + 1 \/ g.to = src.frames
  BY <1>1, PieceFacts
<1>3. src \in Sources /\ src.frames \in Nat /\ src.offset \in Nat /\ Near \in Nat
  BY VideoFacts, WorkerAssumption DEF SegInv, SegTypeOK
<1>4. /\ SeekTo(g.from) \in Nat /\ SeekTo(g.from) <= g.from
      /\ SeekTo(g.from) < src.frames \/ SeekTo(g.from) = 0
  BY <1>2, <1>3, SeekBack
<1>5. CASE mode = "seek"
  <2>1. g.from - src.offset = g.first
    BY <1>2, <1>3, <1>5
  <2>2. /\ SeekTo(g.first) \in Nat /\ SeekTo(g.first) <= g.first
        /\ SeekTo(g.first) < src.frames \/ SeekTo(g.first) = 0
    BY <1>2, <1>3, SeekBack
  <2>3. /\ g.from > Near => FirstPacket(g) = SeekTo(g.first) /\ BaseOf(g) = g.first
        /\ g.from <= Near => FirstPacket(g) = 0 /\ BaseOf(g) = 0
    BY <1>2, <1>3, <1>5, <2>1 DEF FirstPacket, BaseOf
  <2>4. EndOfInput(g) = src.frames /\ Origin(g) = g.from
    BY <1>5 DEF EndOfInput, Origin
  <2>5. FirstPacket(g) \in Nat /\ FirstPacket(g) <= src.frames /\ FirstPacket(g) <= g.first
    BY <1>2, <1>3, <2>2, <2>3
  <2>. QED
    BY <1>1, <1>2, <1>3, <1>5, <2>3, <2>4, <2>5 DEF Given
<1>6. CASE mode # "seek"
  <2>1. /\ FirstPacket(g) = SeekTo(g.from) /\ BaseOf(g) = SeekTo(g.from)
        /\ Origin(g) = src.offset + SeekTo(g.from)
    BY <1>6 DEF FirstPacket, BaseOf, Origin, Time
  <2>2. /\ EndOfInput(g) \in Nat /\ EndOfInput(g) <= g.to /\ EndOfInput(g) <= src.frames
        /\ EndOfInput(g) = g.to \/ EndOfInput(g) = src.frames
    BY <1>2, <1>3, <1>6 DEF EndOfInput
  <2>3. SeekTo(g.from) <= EndOfInput(g)
    BY <1>2, <1>3, <1>4, <2>2
  <2>4. src.offset = 0 => FirstPacket(g) <= g.first
    BY <1>2, <2>1
  <2>. QED
    BY <1>1, <1>2, <1>3, <1>4, <1>6, <2>1, <2>2, <2>3, <2>4 DEF Given
<1>. QED
  BY <1>5, <1>6

Ordered(o, missing) ==
  \A p \in 1..Len(o) - 1 :
    /\ o[p] < o[p + 1]
    /\ \A f \in o[p] + 1 .. o[p + 1] - 1 : f \in missing

InWindow(f, g) ==
  /\ f \in 0 .. src.frames - 1
  /\ mode = "seek" => Time(f) <= g.to /\ (g.from <= Near \/ g.from <= Time(f))
  /\ mode # "seek" => SeekTo(g.from) <= f /\ f < EndOfInput(g)

Numbered(o, g) == \A p \in 1..Len(o) : o[p] = BaseOf(g) + p - 1

(* The frames o written for the segment g.                                  *)
Kept(o, g, missing) ==
  /\ Ordered(o, missing)
  /\ \A p \in 1..Len(o) : InWindow(o[p], g)
  /\ missing = {} => Numbered(o, g)

Holds(o, g, x) ==
  \A f \in g.first .. g.last : f < x /\ f < src.frames => \E p \in 1..Len(o) : o[p] = f

(* Plain, of a segment and the frames whose transfer failed.                *)
PlainIn(g, missing) ==
  /\ src.offset = 0
  /\ missing = {}
  /\ mode = "seek" => g.from <= Near \/ src.frames - g.first > Delay

Over(g, x) == mode = "seek" /\ Time(x) > g.to

(* How far the output is when x is the next frame to leave the decoder: a   *)
(* process that has not reached its segment has passed nothing of it, and   *)
(* one that has and is not past its end has written everything before x.    *)
Progress(g, ph, o, x, seen, missing) ==
  /\ mode # "seek" \/ g.from <= Near => seen
  /\ seen /\ mode = "seek" /\ g.from > Near => Time(x) > g.from
  /\ ~seen => /\ o = <<>>
              /\ ph = "read" => x <= g.first
              /\ ph = "flush" => src.frames - g.first <= Delay
  /\ o # <<>> => /\ o[Len(o)] < x
                 /\ Over(g, x) \/ \A f \in o[Len(o)] + 1 .. x - 1 : f \in missing
  /\ missing = {} => ~seen \/ Over(g, x) \/ Len(o) = x - BaseOf(g)
  /\ PlainIn(g, missing) => Holds(o, g, x)

(* The frame x is written.                                                  *)
LEMMA PutKeeps ==
  ASSUME NEW g, Given(g), NEW o \in Seq(0..src.frames), NEW x \in Nat,
         FirstPacket(g) <= x, x < EndOfInput(g),
         NEW ph, NEW seen \in BOOLEAN, NEW missing,
         Kept(o, g, missing), Progress(g, ph, o, x, seen, missing),
         seen \/ (ph = "read" /\ Time(x) >= g.from),
         mode = "seek" => Time(x) <= g.to
  PROVE  /\ Kept(Append(o, x), g, missing)
         /\ Progress(g, ph, Append(o, x), x + 1, TRUE, missing)
<1>. DEFINE t == Append(o, x)
            q == Len(o)
<1>1. /\ src.frames \in Nat /\ src.offset \in Nat
      /\ g.first \in Nat /\ g.last \in Int /\ g.from \in Nat /\ g.to \in Nat
      /\ BaseOf(g) \in Int /\ EndOfInput(g) \in Nat /\ EndOfInput(g) <= src.frames
      /\ Near \in Nat
  BY WorkerAssumption DEF Given
<1>2. q \in Nat /\ \A p \in 1..q : o[p] \in Int
  <2>1. \A p \in 1..q : o[p] \in 0..src.frames
    BY ElementOfSeq
  <2>. QED
    BY <2>1, LenProperties
<1>3. /\ Len(t) = q + 1 /\ t[q + 1] = x /\ t # <<>>
      /\ \A p \in 1..q : t[p] = o[p]
  <2>1. x \in 0..src.frames
    BY <1>1
  <2>2. Len(t) = q + 1 /\ t[q + 1] = x /\ \A p \in 1..q : t[p] = o[p]
    BY <2>1, AppendProperties
  <2>3. Len(t) # 0
    BY <1>2, <2>2
  <2>. QED
    BY <2>2, <2>3
<1>4. ~ Over(g, x)
  BY <1>1 DEF Over, Time
<1>5. q > 0 => o # <<>>
  BY <1>2
<1>6. missing = {} => x = BaseOf(g) + q
  <2>1. CASE seen
    BY <1>1, <1>2, <1>4, <2>1 DEF Progress
  <2>2. CASE ~seen
    <3>1. o = <<>> /\ mode = "seek" /\ g.from > Near /\ x <= g.first /\ Time(x) >= g.from
      BY <1>1, <2>2 DEF Progress
    <3>2. g.from = src.offset + g.first /\ BaseOf(g) = g.first /\ q = 0
      BY <1>1, <3>1 DEF Given
    <3>. QED
      BY <1>1, <3>1, <3>2 DEF Time
  <2>. QED
    BY <2>1, <2>2
<1>. HIDE DEF t
<1>7. Ordered(t, missing)
  <2>1. SUFFICES ASSUME NEW p \in 1..q
                 PROVE  /\ t[p] < t[p + 1]
                        /\ \A f \in t[p] + 1 .. t[p + 1] - 1 : f \in missing
    BY <1>2, <1>3 DEF Ordered
  <2>2. CASE p = q
    <3>1. o # <<>>
      BY <1>2, <1>5, <2>2
    <3>2. o[q] < x /\ \A f \in o[q] + 1 .. x - 1 : f \in missing
      BY <1>4, <3>1 DEF Progress
    <3>. QED
      BY <1>2, <1>3, <2>2, <3>2
  <2>3. CASE p # q
    <3>1. p \in 1..q - 1 /\ p + 1 \in 1..q
      BY <1>2, <2>3
    <3>2. t[p] = o[p] /\ t[p + 1] = o[p + 1]
      BY <1>3, <3>1
    <3>. QED
      BY <3>1, <3>2 DEF Kept, Ordered
  <2>. QED
    BY <2>2, <2>3
<1>8. InWindow(x, g)
  <2>1. x \in 0 .. src.frames - 1
    BY <1>1
  <2>2. mode = "seek" => g.from <= Near \/ g.from <= Time(x)
    BY <1>1 DEF Progress, Time
  <2>3. mode # "seek" => SeekTo(g.from) <= x
    BY DEF Given
  <2>. QED
    BY <2>1, <2>2, <2>3 DEF InWindow
<1>9. \A p \in 1..Len(t) : InWindow(t[p], g)
  <2>1. \A p \in 1..q : InWindow(t[p], g)
    BY <1>3 DEF Kept
  <2>2. InWindow(t[q + 1], g)
    BY <1>3, <1>8
  <2>. QED
    BY <1>2, <1>3, <2>1, <2>2
<1>10. missing = {} => Numbered(t, g)
  <2>1. SUFFICES ASSUME missing = {}, NEW p \in 1..q + 1
                 PROVE  t[p] = BaseOf(g) + p - 1
    BY <1>3 DEF Numbered
  <2>2. CASE p = q + 1
    BY <1>1, <1>2, <1>3, <1>6, <2>1, <2>2
  <2>3. CASE p \in 1..q
    BY <1>3, <2>1, <2>3 DEF Kept, Numbered
  <2>. QED
    BY <1>2, <2>2, <2>3
<1>11. Kept(t, g, missing)
  BY <1>7, <1>9, <1>10 DEF Kept
<1>12. mode = "seek" /\ g.from > Near => Time(x + 1) > g.from
  BY <1>1 DEF Progress, Time
<1>13. t[Len(t)] < x + 1 /\ \A f \in t[Len(t)] + 1 .. (x + 1) - 1 : f \in missing
  BY <1>3
<1>14. missing = {} => Len(t) = (x + 1) - BaseOf(g)
  BY <1>1, <1>2, <1>3, <1>6
<1>15. ASSUME PlainIn(g, missing)
       PROVE  Holds(t, g, x + 1)
  <2>1. SUFFICES ASSUME NEW f \in g.first .. g.last, f < x + 1, f < src.frames
                 PROVE  \E p \in 1..Len(t) : t[p] = f
    BY DEF Holds
  <2>2. CASE f = x
    BY <1>2, <1>3, <2>2
  <2>3. CASE f # x
    <3>1. f < x
      BY <1>1, <2>1, <2>3
    <3>2. PICK p \in 1..q : o[p] = f
      BY <1>15, <2>1, <3>1 DEF Progress, Holds
    <3>. QED
      BY <1>2, <1>3, <3>2
  <2>. QED
    BY <2>2, <2>3
<1>16. Progress(g, ph, t, x + 1, TRUE, missing)
  BY <1>12, <1>13, <1>14, <1>15 DEF Progress
<1>. QED
  BY <1>11, <1>16 DEF t

(* The transfer of the frame x fails.                                       *)
LEMMA LossKeeps ==
  ASSUME NEW g, Given(g), NEW o \in Seq(0..src.frames), NEW x \in Nat,
         NEW ph, NEW seen \in BOOLEAN, NEW missing, mode # "seek",
         Kept(o, g, missing), Progress(g, ph, o, x, seen, missing)
  PROVE  Progress(g, ph, o, x + 1, seen, missing \union {x})
<1>. DEFINE more == missing \union {x}
<1>1. more # {} /\ seen
  BY DEF Progress
<1>2. ASSUME o # <<>>
      PROVE  /\ o[Len(o)] < x + 1
             /\ \A f \in o[Len(o)] + 1 .. (x + 1) - 1 : f \in more
  <2>1. Len(o) \in Nat /\ Len(o) # 0
    BY <1>2, EmptySeq, LenProperties
  <2>2. Len(o) \in 1..Len(o)
    BY <2>1
  <2>3. o[Len(o)] \in 0..src.frames /\ src.frames \in Nat
    BY <2>2, ElementOfSeq DEF Given
  <2>4. o[Len(o)] < x /\ \A f \in o[Len(o)] + 1 .. x - 1 : f \in missing
    BY <1>2 DEF Progress, Over
  <2>. QED
    BY <2>3, <2>4
<1>. QED
  BY <1>1, <1>2 DEF Progress, PlainIn

(* The loss of a frame leaves what was written as it was.                   *)
LEMMA LossHides ==
  ASSUME NEW g, NEW o, NEW missing, NEW x, Kept(o, g, missing)
  PROVE  Kept(o, g, missing \union {x})
BY DEF Kept, Ordered

(* The frame x is outside the segment, and is not written.                  *)
LEMMA SkipKeeps ==
  ASSUME NEW g, Given(g), NEW o \in Seq(0..src.frames), NEW x \in Nat,
         NEW ph \in {"read", "flush"}, NEW seen \in BOOLEAN, NEW now \in BOOLEAN, NEW missing,
         mode = "seek", Progress(g, ph, o, x, seen, missing),
         seen => now, now => seen \/ Time(x) >= g.from,
         ~now /\ ph = "read" => Time(x) < g.from,
         now => Time(x) > g.to
  PROVE  Progress(g, ph, o, x + 1, now, missing)
<1>1. /\ src.frames \in Nat /\ src.offset \in Nat /\ Near \in Nat
      /\ g.first \in Nat /\ g.last \in Int /\ g.from \in Nat /\ g.to \in Nat
      /\ g.from = src.offset + g.first
  BY WorkerAssumption DEF Given
<1>2. g.from <= Near => now
  BY DEF Progress
<1>3. now /\ g.from > Near => Time(x + 1) > g.from
  BY <1>1 DEF Progress, Time
<1>4. ~now => /\ o = <<>>
              /\ ph = "read" => x + 1 <= g.first
              /\ ph = "flush" => src.frames - g.first <= Delay
  BY <1>1 DEF Progress, Time
<1>5. now => Over(g, x + 1)
  BY <1>1 DEF Over, Time
<1>6. o # <<>> => o[Len(o)] < x + 1
  <2>1. ASSUME o # <<>>
        PROVE  o[Len(o)] \in 0..src.frames
    <3>1. Len(o) \in Nat /\ Len(o) # 0
      BY <2>1, EmptySeq, LenProperties
    <3>2. Len(o) \in 1..Len(o)
      BY <3>1
    <3>. QED
      BY <3>2, ElementOfSeq
  <2>. QED
    BY <1>1, <2>1 DEF Progress
<1>7. ASSUME PlainIn(g, missing)
      PROVE  Holds(o, g, x + 1)
  <2>1. SUFFICES ASSUME NEW f \in g.first .. g.last, f < x + 1, f < src.frames
                 PROVE  \E p \in 1..Len(o) : o[p] = f
    BY DEF Holds
  <2>2. f # x
    <3>1. src.offset = 0 /\ (g.to = g.last + 1 \/ g.to = src.frames)
      BY <1>7 DEF PlainIn, Given
    <3>2. now => x > g.last \/ x >= src.frames
      BY <1>1, <3>1 DEF Time
    <3>3. ~now /\ ph = "read" => x < g.first
      BY <1>1 DEF Time
    <3>4. ph = "flush" => now
      BY <1>1, <1>2, <1>4, <1>7, WorkerAssumption DEF PlainIn
    <3>. QED
      BY <1>1, <2>1, <3>2, <3>3, <3>4
  <2>3. f < x
    BY <1>1, <2>1, <2>2
  <2>. QED
    BY <1>7, <2>1, <2>3 DEF Progress, Holds
<1>. QED
  BY <1>2, <1>3, <1>4, <1>5, <1>6, <1>7 DEF Progress

-----------------------------------------------------------------------------
(* The invariant of the workers *)

Synced(S, g) == \A a \in S : a.at = Time(a.frame) - Origin(g)

(* The decoder holds the frames before the next packet, in order.           *)
Reading(g, ph, nx, hd) ==
  /\ FirstPacket(g) <= nx - Len(hd) /\ nx <= EndOfInput(g)
  /\ Len(hd) <= Delay /\ (mode = "copy" => hd = <<>>)
  /\ \A i \in 1..Len(hd) : hd[i] = nx - Len(hd) + i - 1
  /\ ph = "flush" => nx = EndOfInput(g)

(* The next frame to leave the decoder.                                     *)
Leaving == next - Len(held)

Whole(k) == PlainIn(segs[k], lost) => Holds(out[k], segs[k], src.frames)

AtWork ==
  /\ 1 <= Len(out)
  /\ Reading(Here, phase, next, held)
  /\ Progress(Here, phase, out[Len(out)], Leaving, reached, lost)

OutInv ==
  /\ pc # "done" => out = <<>> /\ sound = <<>> /\ lost = {} /\ phase = "end"
  /\ mode = "seek" => lost = {}
  /\ \A k \in 1..Len(out) : Kept(out[k], segs[k], lost)
  /\ \A k \in 1..Len(sound) : Synced(sound[k], segs[k])
  /\ \A k \in 1..Len(out) : k < Len(out) \/ phase = "end" => Whole(k)
  /\ phase # "end" => AtWork

WorkerInv == SegInv /\ CutInv /\ WorkerTypeOK /\ OutInv

(* What depends only on the video and the mode stays as it is.              *)
LEMMA SameVideo ==
  ASSUME UNCHANGED <<src, mode>>
  PROVE  /\ \A g : /\ FirstPacket(g)' = FirstPacket(g) /\ EndOfInput(g)' = EndOfInput(g)
                   /\ Origin(g)' = Origin(g) /\ BaseOf(g)' = BaseOf(g)
         /\ \A o, g, m : Kept(o, g, m)' <=> Kept(o, g, m)
         /\ \A S, g : Synced(S, g)' <=> Synced(S, g)
         /\ \A g, m : PlainIn(g, m)' <=> PlainIn(g, m)
         /\ \A o, g, x : Holds(o, g, x)' <=> Holds(o, g, x)
         /\ \A g, ph, n, h : Reading(g, ph, n, h)' <=> Reading(g, ph, n, h)
         /\ \A g, ph, o, x, s, m : Progress(g, ph, o, x, s, m)' <=> Progress(g, ph, o, x, s, m)
<1>1. \A t : SeekTo(t)' = SeekTo(t)
  BY DEF SeekTo, KeysUpTo, LastOf
<1>2. \A g : /\ FirstPacket(g)' = FirstPacket(g) /\ EndOfInput(g)' = EndOfInput(g)
             /\ Origin(g)' = Origin(g) /\ BaseOf(g)' = BaseOf(g)
  BY <1>1 DEF FirstPacket, EndOfInput, Origin, BaseOf, Time
<1>3. \A o, g, m : Kept(o, g, m)' <=> Kept(o, g, m)
  BY <1>1, <1>2 DEF Kept, Ordered, InWindow, Numbered, Time
<1>4. \A S, g : Synced(S, g)' <=> Synced(S, g)
  BY <1>2 DEF Synced, Time
<1>5. \A g, m : PlainIn(g, m)' <=> PlainIn(g, m)
  BY DEF PlainIn
<1>6. \A o, g, x : Holds(o, g, x)' <=> Holds(o, g, x)
  BY DEF Holds
<1>7. \A g, ph, n, h : Reading(g, ph, n, h)' <=> Reading(g, ph, n, h)
  BY <1>2 DEF Reading
<1>8. \A g, ph, o, x, s, m : Progress(g, ph, o, x, s, m)' <=> Progress(g, ph, o, x, s, m)
  BY <1>2, <1>5, <1>6 DEF Progress, Over, Time
<1>. QED
  BY <1>2, <1>3, <1>4, <1>5, <1>6, <1>7, <1>8

(* A step of a worker, conjunct by conjunct.                                *)
LEMMA WorkerKeeps ==
  ASSUME WorkerInv, pc = "done", UNCHANGED <<segVars, mode>>,
         WorkerTypeOK',
         mode = "seek" => lost' = {},
         \A k \in 1..Len(out') : Kept(out'[k], segs[k], lost'),
         \A k \in 1..Len(sound') : Synced(sound'[k], segs[k]),
         \A k \in 1..Len(out') : k < Len(out') \/ phase' = "end" =>
           (PlainIn(segs[k], lost') => Holds(out'[k], segs[k], src.frames)),
         phase' # "end" =>
           /\ 1 <= Len(out')
           /\ Reading(segs[Len(out')], phase', next', held')
           /\ Progress(segs[Len(out')], phase', out'[Len(out')], next' - Len(held'), reached', lost')
  PROVE  WorkerInv'
<1>1. UNCHANGED <<src, mode, segs, pc>>
  BY DEF segVars
<1>2. SegInv' /\ CutInv'
  BY SegStutter_Inv, CutInvStutter DEF WorkerInv
<1>3. (\A k \in 1..Len(out) : Kept(out[k], segs[k], lost))'
  BY <1>1, SameVideo
<1>4. (\A k \in 1..Len(sound) : Synced(sound[k], segs[k]))'
  BY <1>1, SameVideo
<1>5. (\A k \in 1..Len(out) : k < Len(out) \/ phase = "end" => Whole(k))'
  BY <1>1, SameVideo DEF Whole
<1>6. (phase # "end" => AtWork)'
  BY <1>1, SameVideo DEF AtWork, Here, Leaving
<1>. QED
  BY <1>1, <1>2, <1>3, <1>4, <1>5, <1>6 DEF WorkerInv, OutInv

(* What the invariant says of a process at work.                            *)
LEMMA WorkFacts ==
  ASSUME WorkerInv, phase # "end"
  PROVE  /\ pc = "done" /\ phase \in {"read", "flush"}
         /\ src.frames \in Nat /\ Delay \in Nat
         /\ Len(out) \in 1..Len(out) /\ Len(out) \in 1..Len(segs) /\ Len(sound) = Len(out)
         /\ Given(Here)
         /\ out \in Seq(Seq(0..src.frames)) /\ out[Len(out)] \in Seq(0..src.frames)
         /\ next \in Nat /\ held \in Seq(0..src.frames) /\ Len(held) \in Nat
         /\ Leaving \in Nat /\ FirstPacket(Here) <= Leaving /\ FirstPacket(Here) \in Nat
         /\ EndOfInput(Here) \in Nat /\ EndOfInput(Here) <= src.frames
         /\ reached \in BOOLEAN
         /\ Kept(out[Len(out)], Here, lost)
         /\ Reading(Here, phase, next, held)
         /\ Progress(Here, phase, out[Len(out)], Leaving, reached, lost)
<1>1. pc = "done" /\ AtWork
  BY DEF WorkerInv, OutInv
<1>2. /\ phase \in {"read", "flush"} /\ src \in Sources /\ src.frames \in Nat
      /\ segs \in Seq(Segment)
      /\ out \in Seq(Seq(0..src.frames)) /\ Len(out) <= Len(segs) /\ Len(sound) = Len(out)
      /\ next \in 0..src.frames /\ held \in Seq(0..src.frames) /\ reached \in BOOLEAN
  BY VideoFacts DEF WorkerInv, WorkerTypeOK, SegInv, SegTypeOK
<1>3. Len(out) \in Nat /\ Len(segs) \in Nat /\ Len(held) \in Nat /\ next \in Nat
  BY <1>2, LenProperties
<1>4. Len(out) \in 1..Len(out) /\ Len(out) \in 1..Len(segs)
  BY <1>1, <1>2, <1>3 DEF AtWork
<1>5. Given(Here)
  BY <1>1, <1>4, EveryPieceGiven DEF WorkerInv, Here
<1>6. out[Len(out)] \in Seq(0..src.frames)
  BY <1>2, <1>4, ElementOfSeq
<1>7. Kept(out[Len(out)], Here, lost)
  BY <1>4 DEF WorkerInv, OutInv, Here
<1>8. /\ FirstPacket(Here) \in Nat /\ FirstPacket(Here) <= next - Len(held)
      /\ EndOfInput(Here) \in Nat /\ EndOfInput(Here) <= src.frames
  BY <1>1, <1>5 DEF AtWork, Reading, Given
<1>9. Leaving \in Nat /\ FirstPacket(Here) <= Leaving
  BY <1>3, <1>8 DEF Leaving
<1>. QED
  BY <1>1, <1>2, <1>3, <1>4, <1>5, <1>6, <1>7, <1>8, <1>9, WorkerAssumption DEF AtWork

(* What one frame leaving the decoder does to the output.                   *)
Emitted(x) ==
  /\ out' \in Seq(Seq(0..src.frames)) /\ Len(out') = Len(out)
  /\ lost' \in SUBSET (0..src.frames) /\ (mode = "seek" => lost' = {})
  /\ lost' = lost \/ lost' # {}
  /\ \A k \in 1..Len(out) : k # Len(out) => out'[k] = out[k]
  /\ \A k \in 1..Len(out) : Kept(out'[k], segs[k], lost')
  /\ Progress(Here, phase, out'[Len(out)], x + 1, reached', lost')

(* It is written.                                                           *)
LEMMA PutEmits ==
  ASSUME WorkerInv, phase # "end", Leaving < EndOfInput(Here), Put(Leaving),
         reached \/ (phase = "read" /\ Time(Leaving) >= Here.from), reached' = TRUE,
         mode = "seek" => Time(Leaving) <= Here.to
  PROVE  Emitted(Leaving)
<1>. DEFINE L == Len(out)
            S == Seq(0..src.frames)
<1>1. /\ L \in 1..L /\ src.frames \in Nat /\ Given(Here) /\ out \in Seq(S) /\ out[L] \in S
      /\ Leaving \in Nat /\ FirstPacket(Here) <= Leaving /\ reached \in BOOLEAN
      /\ EndOfInput(Here) \in Nat /\ EndOfInput(Here) <= src.frames
      /\ Kept(out[L], Here, lost)
      /\ Progress(Here, phase, out[L], Leaving, reached, lost)
  BY WorkFacts
<1>2. PICK g, x, o : g = Here /\ x = Leaving /\ o = out[L]
  OBVIOUS
<1>3. Kept(Append(o, x), g, lost) /\ Progress(g, phase, Append(o, x), x + 1, TRUE, lost)
  BY <1>1, <1>2, PutKeeps
<1>4. Append(o, x) \in S
  <2>1. x \in 0..src.frames
    BY <1>1, <1>2
  <2>. QED
    BY <1>1, <1>2, <2>1, AppendProperties
<1>5. out' = [out EXCEPT ![L] = Append(o, x)] /\ lost' = lost
  BY <1>2 DEF Put
<1>6. /\ out' \in Seq(S) /\ Len(out') = L /\ out'[L] = Append(o, x)
      /\ \A k \in 1..L : k # L => out'[k] = out[k]
  <2>. HIDE DEF S
  <2>. QED
    BY <1>1, <1>4, <1>5, ExceptSeq
<1>7. \A k \in 1..L : Kept(out'[k], segs[k], lost')
  <2>. SUFFICES ASSUME NEW k \in 1..L
                PROVE  Kept(out'[k], segs[k], lost')
    OBVIOUS
  <2>1. CASE k = L
    BY <1>2, <1>3, <1>5, <1>6, <2>1 DEF Here
  <2>2. CASE k # L
    BY <1>5, <1>6, <2>2 DEF WorkerInv, OutInv
  <2>. QED
    BY <2>1, <2>2
<1>8. lost \in SUBSET (0..src.frames) /\ (mode = "seek" => lost = {})
  BY DEF WorkerInv, WorkerTypeOK, OutInv
<1>. QED
  BY <1>2, <1>3, <1>5, <1>6, <1>7, <1>8 DEF Emitted

(* Its transfer fails.                                                      *)
LEMMA LossEmits ==
  ASSUME WorkerInv, phase # "end", Leaving < EndOfInput(Here), TransferFails(Leaving),
         reached' = reached
  PROVE  Emitted(Leaving)
<1>. DEFINE L == Len(out)
<1>1. /\ L \in 1..L /\ src.frames \in Nat /\ Given(Here)
      /\ out \in Seq(Seq(0..src.frames)) /\ out[L] \in Seq(0..src.frames)
      /\ Leaving \in Nat /\ reached \in BOOLEAN
      /\ EndOfInput(Here) \in Nat /\ EndOfInput(Here) <= src.frames
      /\ Kept(out[L], Here, lost)
      /\ Progress(Here, phase, out[L], Leaving, reached, lost)
  BY WorkFacts
<1>2. PICK g, x, o : g = Here /\ x = Leaving /\ o = out[L]
  OBVIOUS
<1>3. out' = out /\ lost' = lost \union {x} /\ mode = "split"
  BY <1>2 DEF TransferFails
<1>4. Progress(g, phase, o, x + 1, reached, lost \union {x})
  BY <1>1, <1>2, <1>3, LossKeeps
<1>5. \A k \in 1..L : Kept(out[k], segs[k], lost \union {x})
  BY LossHides DEF WorkerInv, OutInv
<1>6. x \in 0..src.frames /\ lost \in SUBSET (0..src.frames)
  BY <1>1, <1>2 DEF WorkerInv, WorkerTypeOK
<1>. QED
  BY <1>1, <1>2, <1>3, <1>4, <1>5, <1>6 DEF Emitted

(* It is outside the segment.                                               *)
LEMMA SkipEmits ==
  ASSUME WorkerInv, phase # "end", Leaving < EndOfInput(Here), Skip, mode = "seek",
         reached' \in BOOLEAN, reached => reached',
         reached' => reached \/ Time(Leaving) >= Here.from,
         ~reached' /\ phase = "read" => Time(Leaving) < Here.from,
         reached' => Time(Leaving) > Here.to
  PROVE  Emitted(Leaving)
<1>. DEFINE L == Len(out)
<1>1. /\ L \in 1..L /\ Given(Here) /\ phase \in {"read", "flush"}
      /\ out \in Seq(Seq(0..src.frames)) /\ out[L] \in Seq(0..src.frames)
      /\ Leaving \in Nat /\ reached \in BOOLEAN
      /\ Progress(Here, phase, out[L], Leaving, reached, lost)
  BY WorkFacts
<1>2. PICK g, x, o, now : g = Here /\ x = Leaving /\ o = out[L] /\ now = reached'
  OBVIOUS
<1>3. Progress(g, phase, o, x + 1, now, lost)
  BY <1>1, <1>2, SkipKeeps
<1>4. out' = out /\ lost' = lost
  BY DEF Skip
<1>5. /\ \A k \in 1..L : Kept(out[k], segs[k], lost)
      /\ lost \in SUBSET (0..src.frames) /\ (mode = "seek" => lost = {})
  BY DEF WorkerInv, WorkerTypeOK, OutInv
<1>. QED
  BY <1>1, <1>2, <1>3, <1>4, <1>5 DEF Emitted

-----------------------------------------------------------------------------
(* The steps of a worker *)

(* The audio packet of the next frame is re-based or dropped.               *)
LEMMA AudioKeeps ==
  ASSUME WorkerInv, phase = "read", next < EndOfInput(Here), CopyAudio(next)
  PROVE  /\ sound' \in Seq(SUBSET [frame : 0..src.frames, at : Nat])
         /\ Len(sound') = Len(sound)
         /\ \A k \in 1..Len(sound') : Synced(sound'[k], segs[k])
<1>. DEFINE L == Len(out)
            R == SUBSET [frame : 0..src.frames, at : Nat]
            at == Time(next) - Origin(Here)
            new == [sound EXCEPT ![L] = @ \union {[frame |-> next, at |-> at]}]
<1>1. /\ L \in 1..L /\ Len(sound) = L /\ next \in Nat /\ Given(Here)
      /\ EndOfInput(Here) \in Nat /\ EndOfInput(Here) <= src.frames
      /\ src.frames \in Nat
  BY WorkFacts
<1>2. sound \in Seq(R) /\ \A k \in 1..Len(sound) : Synced(sound[k], segs[k])
  BY DEF WorkerInv, WorkerTypeOK, OutInv
<1>3. CASE sound' = sound
  BY <1>2, <1>3
<1>4. CASE sound' = new /\ at >= 0
  <2>1. at \in Nat
    <3>1. Time(next) \in Int /\ Origin(Here) \in Int
      <4>1. PICK g : g = Here
        OBVIOUS
      <4>2. src \in Sources /\ src.offset \in Nat /\ g.from \in Nat
        BY <1>1, <4>1 DEF Given
      <4>3. Origin(g) \in Int
        BY <4>2, SeekBack DEF Origin, Time
      <4>. QED
        BY <1>1, <4>1, <4>2, <4>3 DEF Time
    <3>. QED
      BY <1>4, <3>1
  <2>2. PICK a : a = [frame |-> next, at |-> at]
    OBVIOUS
  <2>3. a \in [frame : 0..src.frames, at : Nat]
    BY <1>1, <2>1, <2>2
  <2>4. PICK T : T = sound[L] \union {a}
    OBVIOUS
  <2>5. T \in R
    <3>1. sound[L] \in R
      BY <1>1, <1>2, ElementOfSeq
    <3>. QED
      BY <2>3, <2>4, <3>1
  <2>6. sound' = [sound EXCEPT ![L] = T]
    BY <1>4, <2>2, <2>4
  <2>. HIDE DEF R
  <2>7. /\ sound' \in Seq(R) /\ Len(sound') = L /\ sound'[L] = T
        /\ \A k \in 1..L : k # L => sound'[k] = sound[k]
    BY <1>1, <1>2, <2>5, <2>6, ExceptSeq
  <2>8. Synced(T, segs[L])
    <3>1. Synced(sound[L], segs[L]) /\ a.at = Time(a.frame) - Origin(segs[L])
      BY <1>1, <1>2, <2>2 DEF Here
    <3>. QED
      BY <2>4, <3>1 DEF Synced
  <2>. QED
    BY <1>1, <1>2, <2>7, <2>8 DEF R
<1>. QED
  BY <1>3, <1>4 DEF CopyAudio

(* A packet goes into a decoder that does not give a frame back yet.        *)
LEMMA HeldGrows ==
  ASSUME WorkerInv, phase = "read", next < EndOfInput(Here), mode # "copy", Len(held) < Delay
  PROVE  /\ Append(held, next) \in Seq(0..src.frames)
         /\ Reading(Here, "read", next + 1, Append(held, next))
         /\ (next + 1) - Len(Append(held, next)) = Leaving
<1>1. /\ held \in Seq(0..src.frames) /\ next \in Nat /\ Len(held) \in Nat /\ Delay \in Nat
      /\ src.frames \in Nat /\ EndOfInput(Here) \in Nat /\ EndOfInput(Here) <= src.frames
      /\ Reading(Here, "read", next, held)
  BY WorkFacts
<1>2. PICK h, g, e : h = Append(held, next) /\ g = Here /\ e = Len(held)
  OBVIOUS
<1>3. /\ h \in Seq(0..src.frames) /\ Len(h) = e + 1 /\ h[e + 1] = next
      /\ \A i \in 1..e : h[i] = held[i]
  <2>1. next \in 0..src.frames
    BY <1>1
  <2>. QED
    BY <1>1, <1>2, <2>1, AppendProperties
<1>4. \A i \in 1..e + 1 : h[i] = (next + 1) - Len(h) + i - 1
  <2>. SUFFICES ASSUME NEW i \in 1..e + 1
                PROVE  h[i] = next - e + i - 1
    BY <1>1, <1>2, <1>3
  <2>1. CASE i = e + 1
    BY <1>1, <1>2, <1>3, <2>1
  <2>2. CASE i \in 1..e
    BY <1>1, <1>2, <1>3, <2>2 DEF Reading
  <2>. QED
    BY <1>1, <1>2, <2>1, <2>2
<1>5. Reading(g, "read", next + 1, h)
  BY <1>1, <1>2, <1>3, <1>4 DEF Reading
<1>. QED
  BY <1>1, <1>2, <1>3, <1>5 DEF Leaving

(* A packet goes into a full decoder, and the frame held longest leaves it. *)
LEMMA HeldMoves ==
  ASSUME WorkerInv, phase = "read", next < EndOfInput(Here), mode # "copy", Len(held) >= Delay
  PROVE  /\ Head(Append(held, next)) = Leaving
         /\ Tail(Append(held, next)) \in Seq(0..src.frames)
         /\ Reading(Here, "read", next + 1, Tail(Append(held, next)))
         /\ (next + 1) - Len(Tail(Append(held, next))) = Leaving + 1
<1>1. /\ held \in Seq(0..src.frames) /\ next \in Nat /\ Len(held) \in Nat /\ Delay \in Nat
      /\ src.frames \in Nat /\ EndOfInput(Here) \in Nat /\ EndOfInput(Here) <= src.frames
      /\ Reading(Here, "read", next, held) /\ Leaving \in Nat
      /\ FirstPacket(Here) \in Nat
  BY WorkFacts
<1>2. PICK h, g, e : h = Append(held, next) /\ g = Here /\ e = Len(held)
  OBVIOUS
<1>3. /\ h \in Seq(0..src.frames) /\ Len(h) = e + 1 /\ h[e + 1] = next
      /\ \A i \in 1..e : h[i] = held[i]
  <2>1. next \in 0..src.frames
    BY <1>1
  <2>. QED
    BY <1>1, <1>2, <2>1, AppendProperties
<1>4. \A i \in 1..e + 1 : h[i] = Leaving + i - 1
  <2>. SUFFICES ASSUME NEW i \in 1..e + 1
                PROVE  h[i] = Leaving + i - 1
    OBVIOUS
  <2>1. CASE i = e + 1
    BY <1>1, <1>2, <1>3, <2>1 DEF Leaving
  <2>2. CASE i \in 1..e
    BY <1>1, <1>2, <1>3, <2>2 DEF Reading, Leaving
  <2>. QED
    BY <1>1, <1>2, <2>1, <2>2
<1>5. PICK t : t = Tail(h)
  OBVIOUS
<1>6. /\ t \in Seq(0..src.frames) /\ Len(t) = e /\ Head(h) = h[1]
      /\ \A i \in 1..e : t[i] = h[i + 1]
  <2>1. h # <<>>
    BY <1>1, <1>2, <1>3
  <2>. QED
    BY <1>1, <1>2, <1>3, <1>5, <2>1, HeadTailProperties
<1>7. h[1] = Leaving
  BY <1>1, <1>2, <1>4
<1>8. (next + 1) - Len(t) = Leaving + 1
  BY <1>1, <1>2, <1>6 DEF Leaving
<1>9. \A i \in 1..e : t[i] = Leaving + 1 + i - 1
  <2>. TAKE i \in 1..e
  <2>1. i + 1 \in 1..e + 1 /\ t[i] = h[i + 1]
    <3>1. e \in Nat
      BY <1>1, <1>2
    <3>2. i + 1 \in 1..e + 1
      BY <3>1
    <3>. QED
      BY <1>6, <3>2
  <2>2. h[i + 1] = Leaving + (i + 1) - 1
    BY <1>4, <2>1
  <2>. QED
    BY <1>1, <2>1, <2>2
<1>10. Reading(g, "read", next + 1, t)
  <2>1. FirstPacket(g) <= (next + 1) - e /\ next + 1 <= EndOfInput(g) /\ e <= Delay
    BY <1>1, <1>2 DEF Reading
  <2>. QED
    BY <1>6, <1>8, <1>9, <2>1 DEF Reading
<1>. QED
  BY <1>2, <1>5, <1>6, <1>7, <1>8, <1>10

(* A frame leaves a decoder that is being flushed.                          *)
LEMMA HeldDrains ==
  ASSUME WorkerInv, phase = "flush", held # <<>>
  PROVE  /\ Head(held) = Leaving /\ Leaving < EndOfInput(Here)
         /\ Tail(held) \in Seq(0..src.frames)
         /\ Reading(Here, "flush", next, Tail(held))
         /\ next - Len(Tail(held)) = Leaving + 1
<1>1. /\ held \in Seq(0..src.frames) /\ next \in Nat /\ Len(held) \in Nat /\ Delay \in Nat
      /\ EndOfInput(Here) \in Nat
      /\ Reading(Here, "flush", next, held) /\ Leaving \in Nat
      /\ FirstPacket(Here) \in Nat
  BY WorkFacts
<1>2. PICK g, e, t : g = Here /\ e = Len(held) /\ t = Tail(held)
  OBVIOUS
<1>3. /\ e >= 1 /\ t \in Seq(0..src.frames) /\ Len(t) = e - 1 /\ Head(held) = held[1]
      /\ \A i \in 1..e - 1 : t[i] = held[i + 1]
  BY <1>1, <1>2, HeadTailProperties, EmptySeq
<1>4. \A i \in 1..e : held[i] = Leaving + i - 1
  BY <1>1, <1>2 DEF Reading, Leaving
<1>5. held[1] = Leaving
  BY <1>1, <1>2, <1>3, <1>4
<1>6. next - Len(t) = Leaving + 1 /\ Leaving < EndOfInput(g)
  BY <1>1, <1>2, <1>3 DEF Reading, Leaving
<1>7. \A i \in 1..e - 1 : t[i] = Leaving + 1 + i - 1
  <2>. TAKE i \in 1..e - 1
  <2>1. i + 1 \in 1..e /\ t[i] = held[i + 1]
    BY <1>1, <1>2, <1>3
  <2>2. held[i + 1] = Leaving + (i + 1) - 1
    BY <1>4, <2>1
  <2>. QED
    BY <1>1, <2>1, <2>2
<1>8. Reading(g, "flush", next, t)
  <2>1. FirstPacket(g) <= Leaving + 1 /\ next <= EndOfInput(g) /\ next = EndOfInput(g)
        /\ e - 1 <= Delay /\ mode # "copy"
    BY <1>1, <1>2, <1>3 DEF Reading, Leaving
  <2>. QED
    BY <1>3, <1>6, <1>7, <2>1 DEF Reading
<1>. QED
  BY <1>2, <1>3, <1>5, <1>6, <1>8

(* A step in which a frame leaves the decoder and the process goes on.      *)
LEMMA EmissionStep ==
  ASSUME WorkerInv, phase # "end", Emitted(Leaving), UNCHANGED <<segVars, mode, phase>>,
         reached' \in BOOLEAN, next' \in 0..src.frames, held' \in Seq(0..src.frames),
         Reading(Here, phase, next', held'), next' - Len(held') = Leaving + 1,
         sound' \in Seq(SUBSET [frame : 0..src.frames, at : Nat]),
         Len(sound') = Len(sound),
         \A k \in 1..Len(sound') : Synced(sound'[k], segs[k])
  PROVE  WorkerInv'
<1>1. pc = "done" /\ Len(out) \in 1..Len(out) /\ Len(sound) = Len(out)
  BY WorkFacts
<1>2. src' = src /\ mode' = mode /\ segs' = segs /\ Len(out') = Len(out)
  BY DEF segVars, Emitted
<1>3. WorkerTypeOK'
  BY <1>1, <1>2 DEF WorkerInv, WorkerTypeOK, Emitted
<1>4. \A k \in 1..Len(out') : Kept(out'[k], segs[k], lost')
  BY DEF Emitted
<1>5. ASSUME NEW k \in 1..Len(out'), k < Len(out') \/ phase' = "end", PlainIn(segs[k], lost')
      PROVE  Holds(out'[k], segs[k], src.frames)
  <2>1. k \in 1..Len(out) /\ k < Len(out)
    BY <1>2, <1>5
  <2>2. out'[k] = out[k] /\ lost' = lost
    BY <1>1, <1>5, <2>1 DEF Emitted, PlainIn
  <2>. QED
    BY <1>5, <2>1, <2>2 DEF WorkerInv, OutInv, Whole
<1>6. /\ 1 <= Len(out')
      /\ Reading(segs[Len(out')], phase', next', held')
      /\ Progress(segs[Len(out')], phase', out'[Len(out')], next' - Len(held'), reached', lost')
  BY <1>1, <1>2 DEF Emitted, Here
<1>7. mode = "seek" => lost' = {}
  BY DEF Emitted
<1>. QED
  BY <1>1, <1>3, <1>4, <1>5, <1>6, <1>7, WorkerKeeps

(* The next process starts.                                                 *)
LEMMA OpenStep ==
  ASSUME WorkerInv, Open
  PROVE  WorkerInv'
<1>. DEFINE L == Len(out)
            S == Seq(0..src.frames)
            R == SUBSET [frame : 0..src.frames, at : Nat]
<1>1. /\ pc = "done" /\ phase = "end" /\ L < Len(segs) /\ phase' = "read" /\ held' = <<>>
      /\ out' = Append(out, <<>>) /\ sound' = Append(sound, {})
      /\ UNCHANGED <<segVars, mode, lost>>
  BY DEF Open
<1>2. /\ src \in Sources /\ src.frames \in Nat /\ Near \in Nat
      /\ segs \in Seq(Segment) /\ out \in Seq(S) /\ sound \in Seq(R) /\ Len(sound) = L
  BY VideoFacts, WorkerAssumption DEF WorkerInv, WorkerTypeOK, SegInv, SegTypeOK
<1>3. L \in Nat /\ Len(segs) \in Nat /\ L + 1 \in 1..Len(segs)
  BY <1>1, <1>2, LenProperties
<1>4. PICK g : g = segs[L + 1]
  OBVIOUS
<1>5. Given(g)
  BY <1>1, <1>3, <1>4, EveryPieceGiven DEF WorkerInv
<1>6. next' = FirstPacket(g) /\ reached' = (mode # "seek" \/ g.from <= Near)
  BY <1>4 DEF Open
<1>7. <<>> \in S /\ {} \in R
  BY EmptySeq
<1>8. /\ out' \in Seq(S) /\ Len(out') = L + 1 /\ out'[L + 1] = <<>>
      /\ \A k \in 1..L : out'[k] = out[k]
  <2>. HIDE DEF S
  <2>. QED
    BY <1>1, <1>2, <1>7, AppendProperties
<1>9. /\ sound' \in Seq(R) /\ Len(sound') = L + 1 /\ sound'[L + 1] = {}
      /\ \A k \in 1..L : sound'[k] = sound[k]
  <2>. HIDE DEF R
  <2>. QED
    BY <1>1, <1>2, <1>7, AppendProperties
<1>10. next' \in 0..src.frames
  <2>1. FirstPacket(g) \in Nat /\ EndOfInput(g) \in Nat /\ FirstPacket(g) <= EndOfInput(g)
        /\ EndOfInput(g) <= src.frames
    BY <1>5 DEF Given
  <2>. QED
    BY <1>2, <1>6, <2>1
<1>11. WorkerTypeOK'
  <2>1. src' = src /\ mode' = mode /\ segs' = segs /\ lost' = lost
    BY <1>1 DEF segVars
  <2>2. reached' \in BOOLEAN
    BY <1>6
  <2>3. mode \in Modes /\ lost \subseteq 0..src.frames
    BY DEF WorkerInv, WorkerTypeOK
  <2>4. Len(out') <= Len(segs) /\ Len(sound') = Len(out')
    BY <1>1, <1>3, <1>8, <1>9
  <2>. QED
    BY <1>1, <1>7, <1>8, <1>9, <1>10, <2>1, <2>2, <2>3, <2>4 DEF WorkerTypeOK
<1>12. \A k \in 1..Len(out') : Kept(out'[k], segs[k], lost')
  <2>. SUFFICES ASSUME NEW k \in 1..L + 1
                PROVE  Kept(out'[k], segs[k], lost)
    BY <1>1, <1>8
  <2>1. CASE k = L + 1
    <3>1. Len(<<>>) = 0
      OBVIOUS
    <3>. QED
      BY <1>8, <2>1, <3>1 DEF Kept, Ordered, Numbered
  <2>2. CASE k \in 1..L
    BY <1>8, <2>2 DEF WorkerInv, OutInv
  <2>. QED
    BY <1>3, <2>1, <2>2
<1>13. \A k \in 1..Len(sound') : Synced(sound'[k], segs[k])
  <2>. SUFFICES ASSUME NEW k \in 1..L + 1
                PROVE  Synced(sound'[k], segs[k])
    BY <1>9
  <2>1. CASE k = L + 1
    BY <1>9, <2>1 DEF Synced
  <2>2. CASE k \in 1..L
    BY <1>2, <1>9, <2>2 DEF WorkerInv, OutInv
  <2>. QED
    BY <1>3, <2>1, <2>2
<1>14. ASSUME NEW k \in 1..Len(out'), k < Len(out') \/ phase' = "end", PlainIn(segs[k], lost')
       PROVE  Holds(out'[k], segs[k], src.frames)
  <2>1. k \in 1..L /\ lost' = lost
    BY <1>1, <1>3, <1>8, <1>14
  <2>. QED
    BY <1>1, <1>8, <1>14, <2>1 DEF WorkerInv, OutInv, Whole
<1>15. Reading(g, "read", next', held')
  <2>1. Len(<<>>) = 0 /\ Delay \in Nat
    BY WorkerAssumption
  <2>. QED
    BY <1>1, <1>5, <1>6, <2>1 DEF Reading, Given
<1>16. Progress(g, "read", <<>>, FirstPacket(g), reached', lost)
  <2>1. Len(<<>>) = 0
    OBVIOUS
  <2>2. mode = "seek" /\ g.from > Near => FirstPacket(g) <= g.first
    BY <1>5 DEF Given
  <2>3. mode # "seek" \/ g.from <= Near => 0 = FirstPacket(g) - BaseOf(g)
    BY <1>5 DEF Given
  <2>4. g.from \in Nat
    BY <1>5 DEF Given
  <2>5. PlainIn(g, lost) => Holds(<<>>, g, FirstPacket(g))
    BY <1>5 DEF PlainIn, Holds, Given
  <2>6. CASE mode # "seek" \/ g.from <= Near
    <3>1. reached' = TRUE
      BY <1>6, <2>6
    <3>. QED
      BY <1>2, <2>1, <2>3, <2>4, <2>5, <2>6, <3>1 DEF Progress
  <2>7. CASE mode = "seek" /\ g.from > Near
    <3>1. reached' = FALSE
      <4>1. ~ (mode # "seek" \/ g.from <= Near)
        BY <1>2, <2>4, <2>7
      <4>. QED
        BY <1>6, <4>1, Zenon
    <3>. QED
      BY <1>2, <2>1, <2>2, <2>4, <2>5, <2>7, <3>1 DEF Progress
  <2>. QED
    BY <1>2, <2>4, <2>6, <2>7
<1>17. /\ 1 <= Len(out')
       /\ Reading(segs[Len(out')], phase', next', held')
       /\ Progress(segs[Len(out')], phase', out'[Len(out')], next' - Len(held'), reached', lost')
  <2>1. next' - Len(held') = FirstPacket(g)
    <3>1. FirstPacket(g) \in Nat /\ Len(held') = 0
      BY <1>1, <1>5 DEF Given
    <3>. QED
      BY <1>6, <3>1
  <2>2. g = segs[Len(out')] /\ out'[Len(out')] = <<>> /\ 1 <= Len(out')
    BY <1>3, <1>4, <1>8
  <2>. QED
    BY <1>1, <1>15, <1>16, <2>1, <2>2
<1>18. mode = "seek" => lost' = {}
  BY <1>1 DEF WorkerInv, OutInv
<1>. QED
  BY <1>1, <1>11, <1>12, <1>13, <1>14, <1>17, <1>18, WorkerKeeps

(* A frame that leaves the decoder in the reading loop is written, lost, or *)
(* outside the segment.                                                     *)
LEMMA DecodedEmits ==
  ASSUME WorkerInv, phase = "read", mode # "copy", Leaving < EndOfInput(Here), Decoded(Leaving)
  PROVE  Emitted(Leaving) /\ reached' \in BOOLEAN
<1>. DEFINE here == Time(Leaving) >= Here.from
<1>1. /\ reached \in BOOLEAN /\ Given(Here) /\ Leaving \in Nat /\ mode \in Modes
      /\ Progress(Here, phase, out[Len(out)], Leaving, reached, lost)
  BY WorkFacts DEF WorkerInv, WorkerTypeOK
<1>2. CASE TransferFails(Leaving) /\ UNCHANGED reached
  BY <1>1, <1>2, LossEmits
<1>3. CASE reached' = (reached \/ here) /\ mode = "split" /\ Put(Leaving)
  <2>1. reached /\ reached' = TRUE
    BY <1>1, <1>3 DEF Progress
  <2>. QED
    <3>1. mode = "seek" => Time(Leaving) <= Here.to
      BY <1>3
    <3>2. phase # "end" /\ reached' = TRUE /\ Put(Leaving)
      BY <1>3, <2>1
    <3>3. Emitted(Leaving)
      BY <2>1, <3>1, <3>2, PutEmits
    <3>. QED
      BY <3>2, <3>3
<1>4. CASE reached' = (reached \/ here) /\ mode = "seek" /\ reached' /\ Time(Leaving) <= Here.to
           /\ Put(Leaving)
  <2>1. reached' = TRUE /\ (reached \/ here)
    BY <1>1, <1>4, Zenon
  <2>. QED
    <3>1. phase # "end" /\ Put(Leaving) /\ Time(Leaving) <= Here.to
      BY <1>4
    <3>2. reached \/ (phase = "read" /\ Time(Leaving) >= Here.from)
      BY <2>1
    <3>3. Emitted(Leaving)
      BY <2>1, <3>1, <3>2, PutEmits
    <3>. QED
      BY <2>1, <3>3
<1>5. CASE reached' = (reached \/ here) /\ mode = "seek"
           /\ (~reached' \/ Time(Leaving) > Here.to) /\ Skip
  <2>1. reached' \in BOOLEAN /\ (reached' <=> reached \/ here)
    BY <1>1, <1>5, Zenon
  <2>2. Time(Leaving) \in Int /\ Here.from \in Int
    <3>1. PICK g : g = Here
      OBVIOUS
    <3>. QED
      BY <1>1, <3>1 DEF Given, Time
  <2>3. ~reached' => Time(Leaving) < Here.from
    BY <2>1, <2>2
  <2>. QED
    BY <1>5, <2>1, <2>3, SkipEmits
<1>. QED
  BY <1>2, <1>3, <1>4, <1>5 DEF Decoded

(* One packet of the reading loop.                                          *)
LEMMA ReadPacketStep ==
  ASSUME WorkerInv, ReadPacket
  PROVE  WorkerInv'
<1>1. /\ phase = "read" /\ next < EndOfInput(Here) /\ next' = next + 1 /\ CopyAudio(next)
      /\ UNCHANGED <<segVars, mode, phase>>
  BY DEF ReadPacket
<1>2. /\ sound' \in Seq(SUBSET [frame : 0..src.frames, at : Nat])
      /\ Len(sound') = Len(sound)
      /\ \A k \in 1..Len(sound') : Synced(sound'[k], segs[k])
  BY <1>1, AudioKeeps
<1>3. /\ pc = "done" /\ Len(out) \in 1..Len(out) /\ next \in Nat /\ held \in Seq(0..src.frames)
      /\ Len(held) \in Nat /\ Len(sound) = Len(out)
      /\ EndOfInput(Here) \in Nat /\ EndOfInput(Here) <= src.frames /\ src.frames \in Nat
      /\ Reading(Here, phase, next, held) /\ Leaving \in Nat /\ reached \in BOOLEAN
      /\ Progress(Here, phase, out[Len(out)], Leaving, reached, lost)
      /\ Given(Here) /\ FirstPacket(Here) \in Nat
  BY <1>1, WorkFacts
<1>4. next' \in 0..src.frames
  BY <1>1, <1>3
<1>5. Leaving < EndOfInput(Here)
  BY <1>1, <1>3 DEF Leaving
<1>6. CASE mode = "copy" /\ Put(next) /\ UNCHANGED <<held, reached>>
  <2>1. held = <<>> /\ Len(held) = 0 /\ reached /\ reached' = TRUE /\ Leaving = next
    BY <1>3, <1>6 DEF Reading, Progress, Leaving
  <2>2. Emitted(Leaving)
    <3>1. Put(Leaving) /\ phase # "end" /\ mode # "seek"
      BY <1>1, <1>6, <2>1
    <3>. QED
      BY <1>5, <2>1, <3>1, PutEmits
  <2>3. Reading(Here, phase, next', held') /\ next' - Len(held') = Leaving + 1
    <3>1. PICK g : g = Here
      OBVIOUS
    <3>2. Reading(g, phase, next + 1, <<>>)
      BY <1>1, <1>3, <2>1, <3>1 DEF Reading
    <3>. QED
      BY <1>1, <1>3, <1>6, <2>1, <3>1, <3>2
  <2>. QED
    BY <1>1, <1>2, <1>3, <1>4, <1>6, <2>1, <2>2, <2>3, EmissionStep
<1>7. CASE mode # "copy" /\ Len(held) < Delay /\ held' = Append(held, next) /\ Skip
           /\ UNCHANGED reached
  <2>1. /\ held' \in Seq(0..src.frames)
        /\ Reading(Here, "read", next', held')
        /\ next' - Len(held') = Leaving
    BY <1>1, <1>7, HeldGrows
  <2>2. UNCHANGED <<out, lost, reached>> /\ src' = src /\ segs' = segs
    BY <1>1, <1>7 DEF Skip, segVars
  <2>3. WorkerTypeOK'
    BY <1>1, <1>2, <1>3, <1>4, <2>1, <2>2 DEF WorkerInv, WorkerTypeOK
  <2>4. /\ mode = "seek" => lost' = {}
        /\ \A k \in 1..Len(out') : Kept(out'[k], segs[k], lost')
        /\ \A k \in 1..Len(out') : k < Len(out') \/ phase' = "end" =>
             (PlainIn(segs[k], lost') => Holds(out'[k], segs[k], src.frames))
    BY <1>1, <2>2 DEF WorkerInv, OutInv, Whole
  <2>5. /\ 1 <= Len(out')
        /\ Reading(segs[Len(out')], phase', next', held')
        /\ Progress(segs[Len(out')], phase', out'[Len(out')], next' - Len(held'), reached', lost')
    <3>1. /\ segs[Len(out')] = Here /\ phase' = "read" /\ phase = "read"
          /\ out' = out /\ reached' = reached /\ lost' = lost /\ 1 <= Len(out')
      BY <1>1, <1>3, <2>2 DEF Here
    <3>. QED
      BY <1>3, <2>1, <3>1
  <2>. QED
    BY <1>1, <1>2, <1>3, <2>3, <2>4, <2>5, WorkerKeeps
<1>8. CASE mode # "copy" /\ Len(held) >= Delay /\ held' = Tail(Append(held, next))
           /\ Decoded(Head(Append(held, next)))
  <2>1. /\ Decoded(Leaving)
        /\ held' \in Seq(0..src.frames)
        /\ Reading(Here, "read", next', held')
        /\ next' - Len(held') = Leaving + 1
    BY <1>1, <1>8, HeldMoves
  <2>2. Emitted(Leaving) /\ reached' \in BOOLEAN
    BY <1>1, <1>5, <1>8, <2>1, DecodedEmits
  <2>. QED
    BY <1>1, <1>2, <1>4, <2>1, <2>2, EmissionStep
<1>. QED
  BY <1>6, <1>7, <1>8 DEF ReadPacket

(* The end of the input: a process that has not reached its segment by then *)
(* has everything of it still in the decoder.                               *)
LEMMA EndOfFileStep ==
  ASSUME WorkerInv, EndOfFile
  PROVE  WorkerInv'
<1>1. /\ phase = "read" /\ next >= EndOfInput(Here) /\ phase' = "flush"
      /\ UNCHANGED <<segVars, mode, next, held, reached, out, sound, lost>>
  BY DEF EndOfFile
<1>2. /\ pc = "done" /\ Len(out) \in 1..Len(out) /\ next \in Nat /\ Len(held) \in Nat
      /\ Delay \in Nat /\ reached \in BOOLEAN /\ Given(Here)
      /\ EndOfInput(Here) \in Nat /\ src.frames \in Nat /\ Near \in Nat
      /\ Reading(Here, "read", next, held)
      /\ Progress(Here, "read", out[Len(out)], Leaving, reached, lost)
  BY <1>1, WorkFacts, WorkerAssumption
<1>3. PICK g : g = Here
  OBVIOUS
<1>4. Reading(g, "flush", next, held)
  <2>1. next = EndOfInput(g)
    BY <1>1, <1>2, <1>3 DEF Reading
  <2>. QED
    BY <1>2, <1>3, <2>1 DEF Reading
<1>5. ~reached => src.frames - g.first <= Delay
  <2>1. g.first \in Nat /\ (mode = "seek" => EndOfInput(g) = src.frames)
    BY <1>2, <1>3 DEF Given
  <2>2. ~reached => mode = "seek" /\ Leaving <= g.first
    BY <1>2, <1>3 DEF Progress
  <2>3. Len(held) <= Delay /\ next = EndOfInput(g)
    BY <1>4 DEF Reading
  <2>. QED
    BY <1>2, <2>1, <2>2, <2>3 DEF Leaving
<1>6. Progress(g, "flush", out[Len(out)], Leaving, reached, lost)
  BY <1>2, <1>3, <1>5 DEF Progress
<1>7. WorkerTypeOK'
  BY <1>1 DEF WorkerInv, WorkerTypeOK, segVars
<1>8. /\ mode = "seek" => lost' = {}
      /\ \A k \in 1..Len(out') : Kept(out'[k], segs[k], lost')
      /\ \A k \in 1..Len(sound') : Synced(sound'[k], segs[k])
      /\ \A k \in 1..Len(out') : k < Len(out') \/ phase' = "end" =>
           (PlainIn(segs[k], lost') => Holds(out'[k], segs[k], src.frames))
  BY <1>1 DEF WorkerInv, OutInv, Whole
<1>9. /\ 1 <= Len(out')
      /\ Reading(segs[Len(out')], phase', next', held')
      /\ Progress(segs[Len(out')], phase', out'[Len(out')], next' - Len(held'), reached', lost')
  BY <1>1, <1>2, <1>3, <1>4, <1>6 DEF Here, Leaving
<1>. QED
  BY <1>1, <1>2, <1>7, <1>8, <1>9, WorkerKeeps

(* The process ends: its segment is whole.                                  *)
LEMMA LastStep ==
  ASSUME WorkerInv, phase = "flush", phase' = "end", held' = <<>>,
         UNCHANGED <<segVars, mode, next, reached, sound, out, lost>>,
         \A f \in Nat : /\ src.offset = 0 /\ f <= Here.last /\ f < src.frames
                        => f < Leaving
  PROVE  WorkerInv'
<1>. DEFINE L == Len(out)
<1>1. /\ pc = "done" /\ L \in 1..L /\ Given(Here) /\ Leaving \in Nat
      /\ Progress(Here, "flush", out[L], Leaving, reached, lost)
  BY WorkFacts
<1>2. WorkerTypeOK'
  BY EmptySeq DEF WorkerInv, WorkerTypeOK, segVars
<1>3. /\ mode = "seek" => lost' = {}
      /\ \A k \in 1..Len(out') : Kept(out'[k], segs[k], lost')
      /\ \A k \in 1..Len(sound') : Synced(sound'[k], segs[k])
  BY DEF WorkerInv, OutInv
<1>4. ASSUME NEW k \in 1..Len(out'), PlainIn(segs[k], lost')
      PROVE  Holds(out'[k], segs[k], src.frames)
  <2>1. CASE k # L
    <3>1. k \in 1..L /\ k < L
      BY <1>1, <2>1
    <3>. QED
      BY <1>4, <3>1 DEF WorkerInv, OutInv, Whole
  <2>2. CASE k = L
    <3>1. PICK g, o : g = Here /\ o = out[L]
      OBVIOUS
    <3>2. PlainIn(g, lost) /\ src.offset = 0 /\ Holds(o, g, Leaving)
      BY <1>1, <1>4, <2>2, <3>1 DEF Here, PlainIn, Progress
    <3>3. g.first \in Nat /\ g.last \in Int
      BY <1>1, <3>1 DEF Given
    <3>4. Holds(o, g, src.frames)
      <4>1. SUFFICES ASSUME NEW f \in g.first .. g.last, f < src.frames
                     PROVE  \E p \in 1..Len(o) : o[p] = f
        BY DEF Holds
      <4>2. f \in Nat /\ f <= g.last
        BY <3>3
      <4>3. f < Leaving
        BY <3>1, <3>2, <4>1, <4>2
      <4>. QED
        BY <3>2, <4>1, <4>3 DEF Holds
    <3>. QED
      BY <2>2, <3>1, <3>4 DEF Here
  <2>. QED
    BY <2>1, <2>2
<1>. QED
  BY <1>1, <1>2, <1>3, <1>4, WorkerKeeps

(* One step of the flush.                                                   *)
LEMMA FlushStep ==
  ASSUME WorkerInv, Flush
  PROVE  WorkerInv'
<1>1. phase = "flush" /\ UNCHANGED <<segVars, mode, next, reached, sound>>
  BY DEF Flush
<1>2. PICK g : g = Here
  OBVIOUS
<1>3. /\ Given(g) /\ Leaving \in Nat /\ next \in Nat /\ reached \in BOOLEAN
      /\ EndOfInput(g) \in Nat /\ Reading(g, "flush", next, held)
      /\ src.frames \in Nat /\ src.offset \in Nat /\ g.last \in Int /\ g.to \in Nat
      /\ Progress(g, "flush", out[Len(out)], Leaving, reached, lost)
  BY <1>1, <1>2, WorkFacts DEF Given
<1>4. CASE held = <<>> /\ phase' = "end" /\ Skip /\ UNCHANGED held
  <2>1. Leaving = EndOfInput(g)
    <3>1. next = EndOfInput(g) /\ Len(held) = 0
      BY <1>3, <1>4 DEF Reading
    <3>. QED
      BY <1>3, <3>1 DEF Leaving
  <2>2. ASSUME NEW f \in Nat, src.offset = 0, f <= g.last, f < src.frames
        PROVE  f < Leaving
    <3>1. EndOfInput(g) = src.frames \/ EndOfInput(g) = g.to
      BY <1>3 DEF Given
    <3>2. g.to = g.last + 1 \/ g.to = src.frames
      BY <1>3, <2>2 DEF Given
    <3>. QED
      BY <1>3, <2>1, <2>2, <3>1, <3>2
  <2>. QED
    BY <1>1, <1>2, <1>4, <2>2, LastStep DEF Skip
<1>5. CASE held # <<>> /\ mode = "seek" /\ Time(Head(held)) > Here.to /\ phase' = "end"
           /\ held' = <<>> /\ Skip
  <2>1. Head(held) = Leaving
    BY <1>1, <1>5, HeldDrains
  <2>2. ASSUME NEW f \in Nat, src.offset = 0, f <= g.last, f < src.frames
        PROVE  f < Leaving
    <3>1. g.to = g.last + 1 \/ g.to = src.frames
      BY <1>3, <2>2 DEF Given
    <3>2. Leaving > g.to
      BY <1>2, <1>3, <1>5, <2>1, <2>2 DEF Time
    <3>. QED
      BY <1>3, <2>2, <3>1, <3>2
  <2>. QED
    BY <1>1, <1>2, <1>5, <2>2, LastStep DEF Skip
<1>6. CASE /\ held # <<>> /\ held' = Tail(held) /\ UNCHANGED phase
           /\ \/ TransferFails(Head(held))
              \/ mode # "seek" /\ Put(Head(held))
              \/ mode = "seek" /\ ~reached /\ Skip
              \/ mode = "seek" /\ reached /\ Time(Head(held)) <= Here.to /\ Put(Head(held))
  <2>1. /\ Head(held) = Leaving /\ Leaving < EndOfInput(Here)
        /\ held' \in Seq(0..src.frames)
        /\ Reading(Here, "flush", next', held')
        /\ next' - Len(held') = Leaving + 1
    BY <1>1, <1>6, HeldDrains
  <2>2. Emitted(Leaving)
    <3>1. CASE TransferFails(Leaving)
      BY <1>1, <2>1, <3>1, LossEmits
    <3>2. CASE mode # "seek" /\ Put(Leaving)
      <4>1. reached /\ reached' = TRUE /\ phase # "end"
        BY <1>1, <1>3, <3>2 DEF Progress
      <4>. QED
        BY <2>1, <3>2, <4>1, PutEmits
    <3>3. CASE mode = "seek" /\ ~reached /\ Skip
      <4>1. reached' \in BOOLEAN /\ ~reached' /\ phase = "flush"
        BY <1>1, <1>3, <3>3
      <4>. QED
        BY <2>1, <3>3, <4>1, SkipEmits
    <3>4. CASE mode = "seek" /\ reached /\ Time(Leaving) <= Here.to /\ Put(Leaving)
      <4>1. reached /\ reached' = TRUE /\ phase # "end"
        BY <1>1, <1>3, <3>4
      <4>. QED
        BY <2>1, <3>4, <4>1, PutEmits
    <3>. QED
      BY <1>6, <2>1, <3>1, <3>2, <3>3, <3>4
  <2>3. /\ next' \in 0..src.frames
        /\ sound' \in Seq(SUBSET [frame : 0..src.frames, at : Nat])
        /\ Len(sound') = Len(sound)
        /\ \A k \in 1..Len(sound') : Synced(sound'[k], segs[k])
    BY <1>1 DEF WorkerInv, WorkerTypeOK, OutInv
  <2>4. phase # "end" /\ reached' \in BOOLEAN
    BY <1>1, <1>3
  <2>. QED
    BY <1>1, <1>6, <2>1, <2>2, <2>3, <2>4, EmissionStep
<1>. QED
  BY <1>1, <1>4, <1>5, <1>6 DEF Flush

(* The segmenter works before there is any output.                          *)
LEMMA SegmentingStep ==
  ASSUME WorkerInv, Segmenting
  PROVE  WorkerInv'
<1>1. SegInv' /\ CutInv'
  BY SegNext_Inv, CutInvStep DEF WorkerInv, Segmenting, SegNext
<1>2. UNCHANGED workerVars /\ src' = src /\ pc # "done"
  BY DEF Segmenting, AnalyzeFull, AnalyzeFast, Start, CutRest, CutAtNearest, CutAtNext, CutAt
<1>3. out = <<>> /\ sound = <<>> /\ lost = {} /\ phase = "end"
  BY <1>2 DEF WorkerInv, OutInv
<1>4. UNCHANGED <<mode, phase, next, held, reached, out, sound, lost>>
  BY <1>2 DEF workerVars
<1>5. Len(segs') \in Nat /\ Len(out') = 0 /\ Len(sound') = 0
  BY <1>1, <1>3, <1>4, LenProperties DEF SegInv, SegTypeOK
<1>6. WorkerTypeOK'
  BY <1>2, <1>4, <1>5 DEF WorkerInv, WorkerTypeOK
<1>7. OutInv'
  BY <1>3, <1>4, <1>5 DEF OutInv
<1>. QED
  BY <1>1, <1>6, <1>7 DEF WorkerInv

(* The invariant of the worker.                                             *)
LEMMA WorkerInvInit ==
  ASSUME Init
  PROVE  WorkerInv
<1>1. SegInv
  BY SegInit_Inv DEF Init
<1>2. segs = <<>> /\ pc = "analyze" /\ src.frames \in Nat
  BY VideoFacts DEF Init, SegInit
<1>3. CutInv
  BY <1>2 DEF CutInv, AllCut, Apart
<1>4. WorkerTypeOK
  <2>1. /\ mode \in Modes /\ phase = "end" /\ next = 0 /\ held = <<>> /\ reached = FALSE
        /\ out = <<>> /\ sound = <<>> /\ lost = {}
    BY DEF Init
  <2>2. Len(out) = 0 /\ Len(sound) = 0 /\ Len(segs) = 0
    BY <1>2, <2>1
  <2>3. next \in 0..src.frames
    BY <1>2, <2>1
  <2>4. /\ held \in Seq(0..src.frames) /\ out \in Seq(Seq(0..src.frames))
        /\ sound \in Seq(SUBSET [frame : 0..src.frames, at : Nat])
    BY <2>1, EmptySeq
  <2>5. Len(out) <= Len(segs) /\ Len(sound) = Len(out) /\ phase \in {"read", "flush", "end"}
        /\ lost \subseteq 0..src.frames
    BY <2>1, <2>2
  <2>6. reached \in BOOLEAN
    BY <2>1, Zenon
  <2>. QED
    BY <2>1, <2>3, <2>4, <2>5, <2>6 DEF WorkerTypeOK
<1>5. OutInv
  BY DEF Init, OutInv
<1>. QED
  BY <1>1, <1>3, <1>4, <1>5 DEF WorkerInv

(* Every step keeps the invariant of the worker.                            *)
LEMMA WorkerInvStep ==
  ASSUME WorkerInv, [Next]_vars
  PROVE  WorkerInv'
<1>1. CASE Segmenting
  BY <1>1, SegmentingStep
<1>2. CASE Open
  BY <1>2, OpenStep
<1>3. CASE ReadPacket
  BY <1>3, ReadPacketStep
<1>4. CASE EndOfFile
  BY <1>4, EndOfFileStep
<1>5. CASE Flush
  BY <1>5, FlushStep
<1>6. CASE UNCHANGED vars
  <2>1. UNCHANGED segVars /\ UNCHANGED <<mode, phase, next, held, reached, out, sound, lost>>
        /\ UNCHANGED <<src, segs, pc>>
    BY <1>6 DEF vars, workerVars, segVars
  <2>2. SegInv' /\ CutInv'
    BY <2>1, SegStutter_Inv, CutInvStutter DEF WorkerInv
  <2>3. WorkerTypeOK'
    BY <2>1 DEF WorkerInv, WorkerTypeOK
  <2>4. OutInv'
    BY <2>1, SameVideo DEF WorkerInv, OutInv, Whole, AtWork, Here, Leaving
  <2>. QED
    BY <2>2, <2>3, <2>4 DEF WorkerInv
<1>. QED
  BY <1>1, <1>2, <1>3, <1>4, <1>5, <1>6 DEF Next, WorkerNext

(* The inductive invariant of the worker: the cut, the frames read, held    *)
(* and written, and the audio agree (transcode_segment, copy_segment).      *)
THEOREM WorkerInvariant == Spec => []WorkerInv
<1>1. Init => WorkerInv
  BY WorkerInvInit
<1>2. WorkerInv /\ [Next]_vars => WorkerInv'
  BY WorkerInvStep
<1>. QED
  BY <1>1, <1>2, PTL DEF Spec

-----------------------------------------------------------------------------
(* What follows from it *)

(* Every variable of the worker keeps its type.                             *)
THEOREM WorkerTypeCorrect == Spec => []WorkerTypeOK
<1>1. WorkerInv => WorkerTypeOK
  BY DEF WorkerInv
<1>. QED
  BY <1>1, WorkerInvariant, PTL

(* Within an output the frames are in order, and each one that is missing   *)
(* between two others is one whose transfer failed, whatever the decoder's  *)
(* delay and wherever the key frames lie.                                   *)
THEOREM OutputsHaveNoGaps == Spec => []InOrderWithoutGaps
<1>1. WorkerInv => InOrderWithoutGaps
  BY DEF WorkerInv, OutInv, Kept, Ordered, InOrderWithoutGaps
<1>. QED
  BY <1>1, WorkerInvariant, PTL

(* When all workers have ended, every frame of a plain segment is in its    *)
(* output: none stays in the decoder and none is filtered out by time.      *)
THEOREM EveryFrameIsKept == Spec => []NoFrameLost
<1>1. ASSUME WorkerInv, Ended
      PROVE  \A k \in 1..Len(segs) : Plain(k) =>
               { f \in 0..src.frames - 1 : segs[k].first <= f /\ f <= segs[k].last }
                 \subseteq FramesOf(k)
  <2>. SUFFICES ASSUME NEW k \in 1..Len(segs), Plain(k), NEW f \in 0..src.frames - 1,
                       segs[k].first <= f, f <= segs[k].last
                PROVE  f \in FramesOf(k)
    OBVIOUS
  <2>1. PICK g, o : g = segs[k] /\ o = out[k]
    OBVIOUS
  <2>2. k \in 1..Len(out) /\ PlainIn(g, lost)
    BY <1>1, <2>1 DEF Ended, Plain, PlainIn
  <2>3. Holds(o, g, src.frames)
    BY <1>1, <2>1, <2>2 DEF WorkerInv, OutInv, Whole, Ended
  <2>4. /\ g.first \in Nat /\ g.last \in Int /\ src.frames \in Nat
    BY <1>1, <2>1, EveryPieceGiven DEF Given, Ended, WorkerInv
  <2>5. f \in g.first .. g.last /\ f < src.frames
    BY <2>1, <2>4
  <2>6. PICK p \in 1..Len(o) : o[p] = f
    BY <2>3, <2>5 DEF Holds
  <2>. QED
    BY <2>1, <2>6 DEF FramesOf
<1>2. WorkerInv => NoFrameLost
  BY <1>1 DEF NoFrameLost
<1>. QED
  BY <1>2, WorkerInvariant, PTL

(* A frame is in two outputs only at the boundary the inclusive end of the  *)
(* window gives to both, or in the first tenth of a second of the source;   *)
(* cut files never give one twice.                                          *)
THEOREM BoundariesAtMost == Spec => []OnlyBoundariesTwice
<1>1. ASSUME WorkerInv, Ended, NEW k \in 1..Len(segs), NEW l \in 1..Len(segs),
             NEW f \in FramesOf(k) \intersect FramesOf(l), k < l, src.offset = 0
      PROVE  mode = "seek" /\ (f = segs[l].first \/ segs[l].from <= Near)
  <2>1. PICK g, h, o, q : g = segs[k] /\ h = segs[l] /\ o = out[k] /\ q = out[l]
    OBVIOUS
  <2>2. Given(g) /\ Given(h) /\ g.to <= h.from
    BY <1>1, <2>1, EveryPieceGiven DEF WorkerInv, CutInv, Apart, Ended
  <2>3. k \in 1..Len(out) /\ l \in 1..Len(out)
    BY <1>1 DEF Ended
  <2>4. PICK i \in 1..Len(o), j \in 1..Len(q) : o[i] = f /\ q[j] = f
    BY <1>1, <2>1 DEF FramesOf
  <2>5. InWindow(f, g) /\ InWindow(f, h)
    BY <1>1, <2>1, <2>3, <2>4 DEF WorkerInv, OutInv, Kept
  <2>6. /\ h.from \in Nat /\ h.from = h.first /\ SeekTo(h.from) = h.from /\ g.to \in Nat
        /\ EndOfInput(g) \in Nat /\ (mode # "seek" => EndOfInput(g) <= g.to)
        /\ src.frames \in Nat
    BY <1>1, <2>2 DEF Given
  <2>7. f \in Nat
    BY <2>5, <2>6 DEF InWindow
  <2>8. CASE mode # "seek"
    BY <2>2, <2>5, <2>6, <2>7, <2>8 DEF InWindow
  <2>9. CASE mode = "seek"
    <3>1. f <= g.to /\ (h.from <= Near \/ h.from <= f)
      BY <1>1, <2>5, <2>7, <2>9 DEF InWindow, Time
    <3>. QED
      BY <2>1, <2>2, <2>6, <2>7, <2>9, <3>1
  <2>. QED
    BY <2>8, <2>9
<1>2. WorkerInv => OnlyBoundariesTwice
  BY <1>1 DEF OnlyBoundariesTwice
<1>. QED
  BY <1>2, WorkerInvariant, PTL

(* An audio packet is written at the time its frame gets in the output.     *)
THEOREM AudioStaysInSync == Spec => []AudioInSync
<1>1. ASSUME WorkerInv, Ended, lost = {}, NEW k \in 1..Len(segs), NEW a \in sound[k],
             NEW p \in 1..Len(out[k]), out[k][p] = a.frame,
             mode = "seek" => segs[k].from > Near \/ segs[k].from <= src.offset
      PROVE  a.at = p - 1
  <2>1. PICK g, o : g = segs[k] /\ o = out[k]
    OBVIOUS
  <2>2. k \in 1..Len(out) /\ k \in 1..Len(sound)
    BY <1>1 DEF Ended, WorkerInv, WorkerTypeOK
  <2>3. Given(g)
    BY <1>1, <2>1, EveryPieceGiven DEF WorkerInv, Ended
  <2>4. a.at = Time(a.frame) - Origin(g)
    BY <1>1, <2>1, <2>2 DEF WorkerInv, OutInv, Synced
  <2>5. o[p] = BaseOf(g) + p - 1
    BY <1>1, <2>1, <2>2 DEF WorkerInv, OutInv, Kept, Numbered
  <2>6. Origin(g) = src.offset + BaseOf(g)
    <3>1. CASE mode = "seek"
      BY <1>1, <2>1, <2>3, <3>1, WorkerAssumption DEF Given
    <3>2. CASE mode # "seek"
      BY <2>3, <3>2 DEF Given
    <3>. QED
      BY <3>1, <3>2
  <2>7. BaseOf(g) \in Int /\ src.offset \in Nat
    BY <2>3 DEF Given
  <2>8. Len(o) \in Nat
    BY <1>1, <2>1, <2>2, ElementOfSeq, LenProperties DEF WorkerInv, WorkerTypeOK
  <2>9. a.frame = BaseOf(g) + p - 1 /\ p \in Int
    BY <1>1, <2>1, <2>5, <2>8
  <2>. QED
    BY <2>4, <2>6, <2>7, <2>9 DEF Time
<1>2. WorkerInv => AudioInSync
  BY <1>1 DEF AudioInSync
<1>. QED
  BY <1>2, WorkerInvariant, PTL
=============================================================================
