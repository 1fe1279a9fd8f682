------------------------ MODULE SegmentWorker_proofs ------------------------
(***************************************************************************)
(* Theorems about the segmenter, and so about what every worker is given,  *)
(* for every set of videos and of target lengths.                          *)
(***************************************************************************)
EXTENDS SegmentWorker, TLAPS, SequenceTheorems

-----------------------------------------------------------------------------
(* Videos and key frames *)

(* A video as SourcesAssumption has it. *)
LEMMA VideoFacts ==
  ASSUME NEW s \in Sources
  PROVE  /\ s.frames \in Nat /\ s.offset \in Nat
         /\ s.keys \in Seq(Nat) /\ Len(s.keys) \in Nat
         /\ \A i \in 1..Len(s.keys) : s.keys[i] \in Nat /\ s.keys[i] < s.frames
         /\ \A i, k \in 1..Len(s.keys) : i < k => s.keys[i] < s.keys[k]
<1>1. s.keys \in Seq(Nat)
  BY SourcesAssumption
<1>2. Len(s.keys) \in Nat /\ \A i \in 1..Len(s.keys) : s.keys[i] \in Nat
  BY <1>1, ElementOfSeq, LenProperties
<1>. QED
  BY <1>1, <1>2, SourcesAssumption

(* What the analysis gives create_segments: key frames in strict order,     *)
(* each a frame of the video, and a number of frames at most one short.     *)
Analyzed(k, n) ==
  /\ k \in Seq(Key) /\ n \in Nat
  /\ \A i \in 1..Len(k) : k[i].pos < src.frames \/ (i = 1 /\ k[i].pos = 0)
  /\ \A i, j \in 1..Len(k) : i < j => k[i].pos < k[j].pos
  /\ src.frames <= n + 1
  /\ k # <<>> /\ n > 0 => k[1].pos < n

(* The key frames of the video as records.                                  *)
LEMMA KeyTimesFacts ==
  ASSUME src \in Sources
  PROVE  /\ KeyTimes \in Seq(Key) /\ Len(KeyTimes) = Len(src.keys)
         /\ \A i \in 1..Len(KeyTimes) : KeyTimes[i].pos = src.keys[i]
<1>1. /\ src.offset \in Nat /\ Len(src.keys) \in Nat
      /\ \A i \in 1..Len(src.keys) : src.keys[i] \in Nat
  BY VideoFacts
<1>2. \A i \in 1..Len(src.keys) : [pos |-> src.keys[i], time |-> Time(src.keys[i])] \in Key
  BY <1>1 DEF Key, Time
<1>3. KeyTimes \in Seq(Key)
  BY <1>1, <1>2, IsASeq DEF KeyTimes
<1>4. DOMAIN KeyTimes = 1..Len(src.keys)
  BY DEF KeyTimes
<1>5. Len(KeyTimes) = Len(src.keys)
  BY <1>1, <1>3, <1>4, LenProperties
<1>. QED
  BY <1>3, <1>5 DEF KeyTimes

(* The key frames of a whole decode.                                        *)
LEMMA FullIsAnalyzed ==
  ASSUME src \in Sources
  PROVE  Analyzed(KeyTimes, src.frames)
<1>1. \A i \in 1..Len(KeyTimes) : KeyTimes[i].pos < src.frames
  BY KeyTimesFacts, VideoFacts
<1>2. \A i, j \in 1..Len(KeyTimes) : i < j => KeyTimes[i].pos < KeyTimes[j].pos
  BY KeyTimesFacts, VideoFacts
<1>3. KeyTimes # <<>> => KeyTimes[1].pos < src.frames
  <2>1. KeyTimes # <<>> => 1 \in 1..Len(KeyTimes)
    BY KeyTimesFacts, VideoFacts, EmptySeq
  <2>. QED
    BY <1>1, <2>1
<1>. QED
  BY <1>1, <1>2, <1>3, KeyTimesFacts, VideoFacts DEF Analyzed

(* The key frame fast_analyze_video inserts. *)
LEMMA InsertedIsAnalyzed ==
  ASSUME src \in Sources, NEW n \in Nat, src.frames <= n + 1
  PROVE  Analyzed(IF src.keys # <<>> /\ src.keys[1] = 0 THEN KeyTimes
                  ELSE <<[pos |-> 0, time |-> 0]>> \o KeyTimes, n)
<1>. DEFINE zero == <<[pos |-> 0, time |-> 0]>>
            all == zero \o KeyTimes
<1>1. CASE src.keys # <<>> /\ src.keys[1] = 0
  <2>1. Len(src.keys) \in Nat /\ 1 \in 1..Len(src.keys)
    BY <1>1, VideoFacts, EmptySeq
  <2>2. KeyTimes[1].pos = 0
    BY <1>1, <2>1, KeyTimesFacts
  <2>. QED
    BY <1>1, <2>2, FullIsAnalyzed, VideoFacts DEF Analyzed
<1>2. CASE ~(src.keys # <<>> /\ src.keys[1] = 0)
  <2>. DEFINE m == Len(KeyTimes)
  <2>1. zero \in Seq(Key) /\ Len(zero) = 1 /\ m \in Nat /\ KeyTimes \in Seq(Key)
    BY KeyTimesFacts, VideoFacts DEF Key
  <2>2. /\ all \in Seq(Key) /\ Len(all) = m + 1
        /\ all[1] = [pos |-> 0, time |-> 0]
        /\ \A i \in 2..m + 1 : all[i] = KeyTimes[i - 1]
    BY <2>1, ConcatProperties
  <2>3. \A i \in 1..m : 0 < KeyTimes[i].pos
    <3>1. \A i \in 1..m : src.keys[1] <= src.keys[i] /\ src.keys[1] # 0 /\ src.keys[1] \in Nat
      <4>1. TAKE i \in 1..m
      <4>2. 1 \in 1..m /\ m = Len(src.keys) /\ src.keys # <<>>
        BY <2>1, <4>1, KeyTimesFacts, VideoFacts
      <4>. QED
        BY <1>2, <4>1, <4>2, VideoFacts
    <3>. QED
      BY <3>1, KeyTimesFacts, VideoFacts
  <2>4. \A i \in 2..m + 1 : all[i].pos < src.frames /\ 0 < all[i].pos
    BY <2>1, <2>2, <2>3, FullIsAnalyzed, KeyTimesFacts, VideoFacts
  <2>5. \A i, j \in 1..m + 1 : i < j => all[i].pos < all[j].pos
    <3>1. SUFFICES ASSUME NEW i \in 1..m + 1, NEW j \in 1..m + 1, i < j
                   PROVE  all[i].pos < all[j].pos
      OBVIOUS
    <3>2. CASE i = 1
      BY <2>1, <2>2, <2>4, <3>1, <3>2
    <3>3. CASE i # 1
      <4>1. i - 1 \in 1..m /\ j - 1 \in 1..m /\ i - 1 < j - 1 /\ i \in 2..m + 1 /\ j \in 2..m + 1
        BY <2>1, <3>1, <3>3
      <4>. QED
        BY <2>2, <4>1, FullIsAnalyzed DEF Analyzed
    <3>. QED
      BY <3>2, <3>3
  <2>. QED
    BY <1>2, <2>1, <2>2, <2>4, <2>5, VideoFacts DEF Analyzed
<1>. QED
  BY <1>1, <1>2

-----------------------------------------------------------------------------
(* The invariant of the loop *)

(* Contiguous, of any sequence of segments. *)
Chain(s) ==
  \A i \in 1..Len(s) :
    /\ s[i].id = i - 1
    /\ \E n \in 1..Len(kf) : s[i].first = kf[n].pos /\ s[i].from = kf[n].time
    /\ s[i].first <= s[i].last
    /\ i > 1 => /\ s[i].first = s[i - 1].last + 1
                /\ s[i].from = s[i - 1].to

(* The segments s end where the key frame n starts. *)
EndsAt(s, n) ==
  IF s = <<>> THEN n = 1
  ELSE s[Len(s)].last + 1 = kf[n].pos /\ s[Len(s)].to = kf[n].time

SegInv ==
  /\ SegTypeOK
  /\ pc \in {"analyze", "start", "failed"} => segs = <<>> /\ cur = 1
  /\ pc # "analyze" => Analyzed(kf, total)
  /\ pc \in {"loop", "done"} => Segmentable /\ cur \in 1..Len(kf)
  /\ pc = "loop" => kf[cur].pos < total /\ EndsAt(segs, cur)
  /\ segs # <<>> => segs[1].first = kf[1].pos
  /\ Contiguous
  /\ Covering

(* A segment from the key frame n is added to segments that end there.      *)
LEMMA ChainGrows ==
  ASSUME kf \in Seq(Key), NEW s \in Seq(Segment), NEW n \in 1..Len(kf),
         NEW last \in Int, NEW to \in Nat,
         Chain(s), EndsAt(s, n), kf[n].pos <= last, s # <<>> => s[1].first = kf[1].pos
  PROVE  LET g == Seg(Len(s), n, last, to)
             t == Append(s, g)
         IN  /\ t \in Seq(Segment) /\ Len(t) = Len(s) + 1 /\ t # <<>>
             /\ t[Len(t)] = g
             /\ Chain(t)
             /\ t[1].first = kf[1].pos
<1>. DEFINE g == Seg(Len(s), n, last, to)
            t == Append(s, g)
            m == Len(s)
<1>1. m \in Nat /\ Len(kf) \in Nat /\ kf[n] \in Key
  BY LenProperties, ElementOfSeq
<1>2. g \in Segment
  BY <1>1 DEF Seg, Segment, Key
<1>3. /\ t \in Seq(Segment) /\ Len(t) = m + 1 /\ t[m + 1] = g
      /\ \A i \in 1..m : t[i] = s[i]
  BY <1>2, AppendProperties
<1>4. t # <<>>
  BY <1>1, <1>3, EmptySeq
<1>5. /\ g.id = m /\ g.first = kf[n].pos /\ g.from = kf[n].time /\ g.last = last
  BY DEF Seg
<1>6. m > 0 => g.first = s[m].last + 1 /\ g.from = s[m].to
  <2>1. m > 0 => s # <<>>
    BY <1>1, EmptySeq
  <2>2. \A i \in 1..m : s[i] \in Segment
    BY ElementOfSeq
  <2>. QED
    BY <1>1, <1>5, <2>1, <2>2 DEF EndsAt, Segment, Key
<1>7. Chain(t)
  <2>1. SUFFICES ASSUME NEW i \in 1..m + 1
                 PROVE  /\ t[i].id = i - 1
                        /\ \E k \in 1..Len(kf) : t[i].first = kf[k].pos /\ t[i].from = kf[k].time
                        /\ t[i].first <= t[i].last
                        /\ i > 1 => /\ t[i].first = t[i - 1].last + 1
                                    /\ t[i].from = t[i - 1].to
    BY <1>3 DEF Chain
  <2>2. CASE i \in 1..m
    <3>1. t[i] = s[i] /\ (i > 1 => t[i - 1] = s[i - 1])
      BY <1>1, <1>3, <2>2
    <3>. QED
      BY <2>2, <3>1 DEF Chain
  <2>3. CASE i = m + 1
    <3>1. t[i] = g /\ (i > 1 => m > 0 /\ t[i - 1] = s[m])
      BY <1>1, <1>3, <2>3
    <3>. QED
      BY <1>1, <1>5, <1>6, <2>3, <3>1
  <2>. QED
    BY <1>1, <2>2, <2>3
<1>8. t[1].first = kf[1].pos
  <2>1. CASE s = <<>>
    BY <1>1, <1>3, <1>5, <2>1 DEF EndsAt
  <2>2. CASE s # <<>>
    <3>1. 1 \in 1..m
      BY <1>1, <2>2, EmptySeq
    <3>. QED
      BY <1>3, <2>2, <3>1
  <2>. QED
    BY <2>1, <2>2
<1>. QED
  BY <1>3, <1>4, <1>7, <1>8

(* What the invariant says of the key frames inside the loop.               *)
LEMMA LoopFacts ==
  ASSUME SegInv, pc = "loop"
  PROVE  /\ src \in Sources /\ target \in Nat /\ total \in Nat /\ src.frames \in Nat
         /\ kf \in Seq(Key) /\ Len(kf) \in Nat /\ cur \in 1..Len(kf)
         /\ \A i \in 1..Len(kf) : kf[i].pos \in Nat /\ kf[i].time \in Nat
         /\ \A i, j \in 1..Len(kf) : i < j => kf[i].pos < kf[j].pos
         /\ \A i \in 1..Len(kf) : i < Len(kf) => kf[i].pos < total
         /\ kf[cur].pos < total /\ EndsAt(segs, cur) /\ Chain(segs)
         /\ segs \in Seq(Segment) /\ Len(segs) \in Nat
         /\ segs # <<>> => segs[1].first = kf[1].pos
<1>1. /\ src \in Sources /\ target \in Nat /\ total \in Nat
      /\ kf \in Seq(Key) /\ segs \in Seq(Segment)
  BY SourcesAssumption DEF SegInv, SegTypeOK
<1>2. src.frames \in Nat /\ Len(kf) \in Nat /\ Len(segs) \in Nat
  BY <1>1, VideoFacts, LenProperties
<1>3. \A i \in 1..Len(kf) : kf[i].pos \in Nat /\ kf[i].time \in Nat
  <2>1. \A i \in 1..Len(kf) : kf[i] \in Key
    BY <1>1, ElementOfSeq
  <2>. QED
    BY <2>1 DEF Key
<1>4. Analyzed(kf, total) /\ cur \in 1..Len(kf)
  BY DEF SegInv
<1>5. \A i, j \in 1..Len(kf) : i < j => kf[i].pos < kf[j].pos
  BY <1>4 DEF Analyzed
<1>6. \A i \in 1..Len(kf) : i < Len(kf) => kf[i].pos < total
  <2>. SUFFICES ASSUME NEW i \in 1..Len(kf), i < Len(kf)
                PROVE  kf[i].pos < total
    OBVIOUS
  <2>. DEFINE m == Len(kf)
  <2>1. m \in 1..m /\ m # 1
    <3>1. m \in Nat /\ i \in 1..m /\ i < m
      BY <1>2
    <3>. HIDE DEF m
    <3>. QED
      BY <3>1
  <2>2. kf[i].pos < kf[Len(kf)].pos /\ kf[Len(kf)].pos < src.frames
    <3>1. kf[Len(kf)].pos # 0
      BY <1>3, <1>5, <2>1
    <3>. QED
      BY <1>4, <1>5, <2>1, <3>1 DEF Analyzed
  <2>3. src.frames <= total + 1
    BY <1>4 DEF Analyzed
  <2>. QED
    BY <1>1, <1>2, <1>3, <2>1, <2>2, <2>3
<1>. QED
  BY <1>1, <1>2, <1>3, <1>4, <1>5, <1>6 DEF SegInv, Contiguous, Chain

(* The step that makes the rest of the video one segment.                  *)
LEMMA RestStep ==
  ASSUME SegInv, CutRest
  PROVE  SegInv'
<1>1. pc = "loop" /\ UNCHANGED <<src, target, total, kf, cur>> /\ pc' = "done"
  BY DEF CutRest
<1>. DEFINE g == Seg(Len(segs), cur, total - 1, Duration)
<1>2. segs' = Append(segs, g)
  BY DEF CutRest, Rest
<1>3. kf[cur].pos <= total - 1 /\ total - 1 \in Int /\ Duration \in Nat
  BY <1>1, LoopFacts DEF Duration
<1>4. /\ segs' \in Seq(Segment) /\ segs' # <<>>
      /\ segs'[Len(segs')] = g /\ Chain(segs') /\ segs'[1].first = kf[1].pos
  <2>1. /\ kf \in Seq(Key) /\ segs \in Seq(Segment) /\ cur \in 1..Len(kf)
        /\ Chain(segs) /\ EndsAt(segs, cur) /\ (segs # <<>> => segs[1].first = kf[1].pos)
    BY <1>1, LoopFacts
  <2>2. LET t == Append(segs, g)
        IN  /\ t \in Seq(Segment) /\ t # <<>>
            /\ t[Len(t)] = g /\ Chain(t) /\ t[1].first = kf[1].pos
    BY <1>3, <2>1, ChainGrows
  <2>. QED
    BY <1>2, <2>2
<1>5. SegTypeOK'
  BY <1>1, <1>4 DEF SegInv, SegTypeOK
<1>6. Contiguous'
  BY <1>1, <1>4 DEF Contiguous, Chain
<1>7. Covering'
  <2>1. g.last = total - 1
    BY DEF Seg
  <2>. QED
    BY <1>1, <1>4, <2>1 DEF Covering
<1>. QED
  BY <1>1, <1>4, <1>5, <1>6, <1>7 DEF SegInv, Analyzed, Segmentable

(* A step that cuts at a later key frame.                                   *)
LEMMA CutStep ==
  ASSUME SegInv, pc = "loop", NEW n \in 1..Len(kf), cur < n, CutAt(n)
  PROVE  SegInv'
<1>1. UNCHANGED <<src, target, total, kf>> /\ cur' = n
  BY DEF CutAt
<1>. DEFINE piece == Seg(Len(segs), cur, kf[n].pos - 1, kf[n].time)
            more == Append(segs, piece)
            rest == Seg(Len(segs) + 1, n, total - 1, Duration)
<1>2. kf[cur].pos <= kf[n].pos - 1 /\ kf[n].pos - 1 \in Int /\ kf[n].time \in Nat
  BY LoopFacts
<1>3. /\ more \in Seq(Segment) /\ Len(more) = Len(segs) + 1 /\ more # <<>>
      /\ more[Len(more)] = piece /\ Chain(more) /\ more[1].first = kf[1].pos
  <2>1. /\ kf \in Seq(Key) /\ segs \in Seq(Segment) /\ cur \in 1..Len(kf)
        /\ Chain(segs) /\ EndsAt(segs, cur) /\ (segs # <<>> => segs[1].first = kf[1].pos)
    BY LoopFacts
  <2>2. LET g == Seg(Len(segs), cur, kf[n].pos - 1, kf[n].time)
            t == Append(segs, g)
        IN  /\ t \in Seq(Segment) /\ Len(t) = Len(segs) + 1 /\ t # <<>>
            /\ t[Len(t)] = g /\ Chain(t) /\ t[1].first = kf[1].pos
    BY <1>2, <2>1, ChainGrows
  <2>. QED
    BY <2>2
<1>4. piece.last = kf[n].pos - 1 /\ piece.to = kf[n].time
  BY DEF Seg
<1>5. EndsAt(more, n)
  <2>1. kf[n].pos \in Nat
    BY LoopFacts
  <2>. HIDE DEF more, piece
  <2>2. more[Len(more)].last + 1 = kf[n].pos /\ more[Len(more)].to = kf[n].time
    BY <1>3, <1>4, <2>1
  <2>. QED
    BY <1>3, <2>2 DEF EndsAt
<1>6. Analyzed(kf, total)' /\ Segmentable' /\ cur' \in 1..Len(kf')
  BY <1>1 DEF SegInv, Analyzed, Segmentable
<1>7. src' \in Sources /\ target' \in Targets /\ total' \in Nat /\ kf' \in Seq(Key)
      /\ cur' \in 1..(Len(kf') + 1)
  BY <1>1, LoopFacts DEF SegInv, SegTypeOK
<1>8. CASE n < Len(kf) /\ segs' = more /\ pc' = "loop"
  <2>1. kf[n].pos < total
    BY <1>8, LoopFacts
  <2>2. EndsAt(segs, cur)'
    BY <1>1, <1>5, <1>8 DEF EndsAt
  <2>3. Contiguous' /\ Covering'
    BY <1>1, <1>3, <1>8 DEF Contiguous, Covering, Chain
  <2>. QED
    BY <1>1, <1>3, <1>6, <1>7, <1>8, <2>1, <2>2, <2>3 DEF SegInv, SegTypeOK
<1>9. CASE n = Len(kf) /\ total - 1 > kf[n].pos /\ segs' = segs \o <<piece, rest>> /\ pc' = "done"
  <2>1. rest = Seg(Len(more), n, total - 1, Duration)
    BY <1>3
  <2>2. kf[n].pos <= total - 1 /\ total - 1 \in Int /\ Duration \in Nat
    <3>1. kf[n].pos \in Nat /\ total \in Nat /\ src.frames \in Nat
      BY LoopFacts
    <3>2. Duration \in Nat
      BY <3>1 DEF Duration
    <3>. QED
      BY <1>9, <3>1, <3>2
  <2>. DEFINE all == Append(more, rest)
  <2>3. /\ all \in Seq(Segment) /\ all # <<>>
        /\ all[Len(all)] = rest /\ Chain(all) /\ all[1].first = kf[1].pos
    <3>1. kf \in Seq(Key)
      BY LoopFacts
    <3>2. more \in Seq(Segment) /\ more # <<>> /\ Chain(more) /\ more[1].first = kf[1].pos
          /\ EndsAt(more, n)
      BY <1>3, <1>5
    <3>3. kf[n].pos <= total - 1 /\ total - 1 \in Int /\ Duration \in Nat
      BY <2>2
    <3>. HIDE DEF more, rest
    <3>4. LET g == Seg(Len(more), n, total - 1, Duration)
              t == Append(more, g)
          IN  /\ t \in Seq(Segment) /\ t # <<>>
              /\ t[Len(t)] = g /\ Chain(t) /\ t[1].first = kf[1].pos
      BY <3>1, <3>2, <3>3, ChainGrows
    <3>. QED
      BY <2>1, <3>4
  <2>4. piece \in Segment /\ rest \in Segment
    <3>1. /\ Len(segs) \in Nat /\ kf[n].pos \in Nat /\ kf[n].time \in Nat
          /\ kf[cur].pos \in Nat /\ kf[cur].time \in Nat
      BY LoopFacts
    <3>2. Len(segs) + 1 \in Nat
      BY <3>1
    <3>. QED
      BY <1>2, <2>2, <3>1, <3>2 DEF Seg, Segment
  <2>5. segs' = all
    <3>1. segs \in Seq(Segment)
      BY LoopFacts
    <3>. HIDE DEF piece, rest
    <3>. QED
      BY <1>9, <2>4, <3>1
  <2>6. rest.last = total - 1
    BY DEF Seg
  <2>7. Contiguous' /\ Covering'
    <3>1. Contiguous'
      BY <1>1, <2>3, <2>5 DEF Contiguous, Chain
    <3>2. segs'[Len(segs')].last = total' - 1
      BY <1>1, <2>3, <2>5, <2>6
    <3>. QED
      BY <1>1, <2>3, <2>5, <3>1, <3>2 DEF Covering
  <2>. QED
    BY <1>1, <1>6, <1>7, <1>9, <2>3, <2>5, <2>7 DEF SegInv, SegTypeOK
<1>10. CASE n = Len(kf) /\ total - 1 <= kf[n].pos /\ segs' = more /\ pc' = "done"
  <2>1. Contiguous'
    <3>1. Chain(more) /\ segs' = more /\ kf' = kf
      BY <1>1, <1>3, <1>10
    <3>. HIDE DEF more
    <3>. QED
      BY <3>1 DEF Contiguous, Chain
  <2>2. Covering'
    <3>1. segs'[Len(segs')].last = kf'[Len(kf')].pos - 1
      BY <1>1, <1>3, <1>4, <1>10
    <3>2. kf'[Len(kf')].pos >= total' - 1
      BY <1>1, <1>10, LoopFacts
    <3>. QED
      BY <1>1, <1>3, <1>10, <3>1, <3>2 DEF Covering
  <2>. QED
    BY <1>1, <1>3, <1>6, <1>7, <1>10, <2>1, <2>2 DEF SegInv, SegTypeOK
<1>. QED
  BY <1>8, <1>9, <1>10 DEF CutAt, Rest

(* The invariant holds before the analysis, after it, through every step of *)
(* the loop, and while the workers run.                                     *)
LEMMA SegInit_Inv ==
  ASSUME SegInit
  PROVE  SegInv
BY EmptySeq DEF SegInit, SegInv, SegTypeOK, Contiguous, Covering

(* The analysis establishes what the loop needs of the key frames.          *)
LEMMA AnalyzedStep ==
  ASSUME SegInv, pc = "analyze", pc' = "start", UNCHANGED <<src, target, segs, cur>>,
         Analyzed(kf', total')
  PROVE  SegInv'
<1>1. kf' \in Seq(Key) /\ total' \in Nat /\ Len(kf') \in Nat
  BY LenProperties DEF Analyzed
<1>2. Analyzed(kf, total)'
  BY DEF Analyzed
<1>3. segs' = <<>> /\ cur' = 1
  BY DEF SegInv
<1>4. SegTypeOK'
  BY <1>1, <1>3 DEF SegInv, SegTypeOK
<1>. QED
  BY <1>2, <1>3, <1>4 DEF SegInv, Contiguous, Covering

(* Every step of the segmenter keeps the invariant.                         *)
LEMMA SegNext_Inv ==
  ASSUME SegInv, SegNext
  PROVE  SegInv'
<1>1. CASE AnalyzeFull
  <2>1. Analyzed(kf', total')
    BY <1>1, FullIsAnalyzed DEF AnalyzeFull, SegInv, SegTypeOK
  <2>. QED
    BY <1>1, <2>1, AnalyzedStep DEF AnalyzeFull
<1>2. CASE AnalyzeFast
  <2>1. src \in Sources /\ src.frames \in Nat
    BY VideoFacts DEF SegInv, SegTypeOK
  <2>2. total' \in Nat /\ src.frames <= total' + 1
    BY <1>2, <2>1 DEF AnalyzeFast
  <2>3. Analyzed(kf', total')
    BY <1>2, <2>1, <2>2, InsertedIsAnalyzed DEF AnalyzeFast
  <2>. QED
    BY <1>2, <2>3, AnalyzedStep DEF AnalyzeFast
<1>3. CASE Start
  <2>1. UNCHANGED <<src, target, total, kf, segs, cur>> /\ segs = <<>> /\ cur = 1
        /\ Analyzed(kf, total) /\ kf \in Seq(Key) /\ total \in Nat
    BY <1>3 DEF Start, SegInv, SegTypeOK
  <2>2. Contiguous' /\ SegTypeOK' /\ Analyzed(kf, total)' /\ (Segmentable' <=> Segmentable)
    BY <1>3, <2>1 DEF Start, SegInv, SegTypeOK, Contiguous, Analyzed, Segmentable
  <2>3. CASE Segmentable
    <3>1. pc' = "loop"
      BY <1>3, <2>3 DEF Start
    <3>2. 1 \in 1..Len(kf) /\ kf[1].pos < total
      <4>1. Len(kf) \in Nat /\ Len(kf) # 0
        BY <2>1, <2>3, LenProperties, EmptySeq DEF Segmentable
      <4>. QED
        BY <2>1, <2>3, <4>1 DEF Analyzed, Segmentable
    <3>3. EndsAt(segs, cur)'
      BY <2>1 DEF EndsAt
    <3>. QED
      BY <2>1, <2>2, <2>3, <3>1, <3>2, <3>3 DEF SegInv, Covering
  <2>4. CASE ~Segmentable
    <3>1. pc' = "failed"
      BY <1>3, <2>4 DEF Start
    <3>. QED
      BY <2>1, <2>2, <3>1 DEF SegInv, Covering
  <2>. QED
    BY <2>3, <2>4
<1>4. CASE CutRest
  BY <1>4, RestStep
<1>5. CASE CutAtNearest
  <2>1. pc = "loop" /\ \E n \in 1..Len(kf) : n > cur /\ CutAt(n)
    BY <1>5 DEF CutAtNearest
  <2>2. PICK n \in 1..Len(kf) : n > cur /\ CutAt(n)
    BY <2>1
  <2>3. cur < n
    BY <2>1, <2>2, LoopFacts
  <2>. QED
    BY <2>1, <2>2, <2>3, CutStep
<1>6. CASE CutAtNext
  <2>1. pc = "loop" /\ cur < Len(kf) /\ CutAt(cur + 1)
    BY <1>6 DEF CutAtNext
  <2>2. cur + 1 \in 1..Len(kf) /\ cur < cur + 1
    BY <2>1, LoopFacts
  <2>. QED
    BY <2>1, <2>2, CutStep
<1>. QED
  BY <1>1, <1>2, <1>3, <1>4, <1>5, <1>6 DEF SegNext

(* A step that leaves the segmenter alone keeps it.                         *)
LEMMA SegStutter_Inv ==
  ASSUME SegInv, UNCHANGED segVars
  PROVE  SegInv'
BY DEF SegInv, SegTypeOK, Contiguous, Covering, EndsAt, Analyzed, Segmentable, segVars

(* The invariant of the loop, which the steps of the workers leave alone.   *)
THEOREM SegmenterInvariant == Spec => []SegInv
<1>1. Init => SegInv
  BY SegInit_Inv DEF Init
<1>2. SegInv /\ [Next]_vars => SegInv'
  <2>1. ASSUME SegInv, Segmenting
        PROVE  SegInv'
    BY <2>1, SegNext_Inv DEF Segmenting, SegNext
  <2>2. ASSUME SegInv, WorkerNext
        PROVE  SegInv'
    BY <2>2, SegStutter_Inv DEF WorkerNext, Open, ReadPacket, EndOfFile, Flush
  <2>. QED
    BY <2>1, <2>2, SegStutter_Inv DEF Next, vars
<1>. QED
  BY <1>1, <1>2, PTL DEF Spec

(* The segments given to the workers follow one another without a gap and   *)
(* without an overlap, in frames and in time, however the key frames lie    *)
(* and whatever length was asked for.                                       *)
THEOREM SegmentsAreContiguous == Spec => []Contiguous
<1>1. SegInv => Contiguous
  BY DEF SegInv
<1>. QED
  BY <1>1, SegmenterInvariant, PTL

(* Together they are the whole video, but for a last frame that is a key    *)
(* frame.                                                                   *)
THEOREM SegmentsCoverTheVideo == Spec => []Covering
<1>1. SegInv => Covering
  BY DEF SegInv
<1>. QED
  BY <1>1, SegmenterInvariant, PTL
=============================================================================
