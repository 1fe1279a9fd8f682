------------------------------ MODULE Segmenter ------------------------------
(***************************************************************************)
(* How the coordinator cuts a video: the analysis that finds the key       *)
(* frames (coordinator/src/analyzer.rs, fast_analyze_video of              *)
(* cluster/src/media.rs) and the loop of create_segments                   *)
(* (coordinator/src/segmenter.rs), one iteration per action.               *)
(*                                                                         *)
(* Frames are numbered from 0.  The unit of time is one frame: the decoded *)
(* frame f is shown at src.offset + f, the offset being the time stamp of  *)
(* the first frame, and the duration does not contain it.  Histograms,     *)
(* scene changes and complexity are left out: they travel with a segment   *)
(* and decide nothing about where it ends.                                 *)
(***************************************************************************)
EXTENDS Integers, Sequences

CONSTANTS
  Sources,   \* the videos: frames, keys (the key frames in order), offset
  Targets    \* (target_duration_secs * fps).round()

ASSUME SourcesAssumption ==
  /\ Targets \subseteq Nat
  /\ \A s \in Sources :
       /\ s.frames \in Nat /\ s.offset \in Nat
       /\ s.keys \in Seq(Nat)
       /\ \A i \in 1..Len(s.keys) : s.keys[i] < s.frames
       /\ \A i, k \in 1..Len(s.keys) : i < k => s.keys[i] < s.keys[k]

VARIABLES
  src,      \* the video
  target,   \* target_frames
  total,    \* metadata.total_frames
  kf,       \* metadata.keyframe_positions and keyframe_timestamps
  segs,     \* the segments made so far
  cur,      \* seg_start_idx, from 1
  pc        \* "analyze", "start", "loop", "done" or "failed"

segVars == <<src, target, total, kf, segs, cur, pc>>

Key == [pos : Nat, time : Nat]
Segment == [id : Nat, first : Nat, last : Int, from : Nat, to : Nat]

Time(f) == src.offset + f
Duration == src.frames

SegInit ==
  /\ src \in Sources /\ target \in Targets
  /\ total = 0 /\ kf = <<>> /\ segs = <<>> /\ cur = 1
  /\ pc = "analyze"

-----------------------------------------------------------------------------
(* Analysis *)

KeyTimes == [i \in 1..Len(src.keys) |-> [pos |-> src.keys[i], time |-> Time(src.keys[i])]]

(* analyze_video decodes the whole file and counts its frames. *)
AnalyzeFull ==
  /\ pc = "analyze"
  /\ total' = src.frames
  /\ kf' = KeyTimes
  /\ pc' = "start"
  /\ UNCHANGED <<src, target, segs, cur>>

(* fast_analyze_video counts packets for the key frames, but takes the      *)
(* number of frames from nb_frames or else rounds duration * fps, which can *)
(* be one off.  Without a key frame at 0 it inserts one, at time 0.         *)
AnalyzeFast ==
  /\ pc = "analyze"
  /\ total' \in (src.frames - 1 .. src.frames + 1) \intersect Nat
  /\ kf' = IF src.keys # <<>> /\ src.keys[1] = 0 THEN KeyTimes
           ELSE <<[pos |-> 0, time |-> 0]>> \o KeyTimes
  /\ pc' = "start"
  /\ UNCHANGED <<src, target, segs, cur>>

(* The checks at the head of create_segments. *)
Segmentable == total > 0 /\ kf # <<>> /\ target > 0

Start ==
  /\ pc = "start"
  /\ pc' = IF Segmentable THEN "loop" ELSE "failed"
  /\ UNCHANGED <<src, target, total, kf, segs, cur>>

-----------------------------------------------------------------------------
(* The loop of create_segments *)

Distance(f, g) == IF f >= g THEN f - g ELSE g - f

(* find_nearest_keyframe(f) = n: the closest, and of two the earlier. *)
IsNearest(n, f) ==
  /\ n \in 1..Len(kf)
  /\ \A k \in 1..Len(kf) : k # n =>
       \/ Distance(kf[n].pos, f) < Distance(kf[k].pos, f)
       \/ Distance(kf[n].pos, f) = Distance(kf[k].pos, f) /\ n < k

IdealEnd == kf[cur].pos + target

(* build_segment: from the key frame n to the frame last and the time to. *)
Seg(id, n, last, to) ==
  [id |-> id, first |-> kf[n].pos, last |-> last, from |-> kf[n].time, to |-> to]

Rest(id, n) == Seg(id, n, total - 1, Duration)

(* The rest of the video is one segment. *)
CutRest ==
  /\ pc = "loop"
  /\ \/ IdealEnd >= total
     \/ cur = Len(kf) /\ \E n \in 1..Len(kf) : IsNearest(n, IdealEnd) /\ n <= cur
  /\ segs' = Append(segs, Rest(Len(segs), cur))
  /\ pc' = "done"
  /\ UNCHANGED <<src, target, total, kf, cur>>

(* Mutant: the boundary frame is in both segments. *)
CutAtInclusive(n) ==
  /\ segs' = Append(segs, Seg(Len(segs), cur, kf[n].pos, kf[n].time))
  /\ cur' = n
  /\ UNCHANGED <<src, target, total, kf, pc>>

(* Mutant: the last key frame starts no segment of its own. *)
CutAtStops(n) ==
  /\ segs' = Append(segs, Seg(Len(segs), cur, kf[n].pos - 1, kf[n].time))
  /\ cur' = n
  /\ pc' = IF n = Len(kf) THEN "done" ELSE "loop"
  /\ UNCHANGED <<src, target, total, kf>>

(* The segment ends where the key frame n starts the next.  At the last key *)
(* frame the loop ends, with what is left if that is more than one frame.   *)
CutAt(n) ==
  LET piece == Seg(Len(segs), cur, kf[n].pos - 1, kf[n].time)
  IN  /\ cur' = n
      /\ \/ /\ n < Len(kf)
            /\ segs' = Append(segs, piece)
            /\ pc' = "loop"
         \/ /\ n = Len(kf) /\ total - 1 > kf[n].pos
            /\ segs' = segs \o <<piece, Rest(Len(segs) + 1, n)>>
            /\ pc' = "done"
         \/ /\ n = Len(kf) /\ total - 1 <= kf[n].pos
            /\ segs' = Append(segs, piece)
            /\ pc' = "done"
      /\ UNCHANGED <<src, target, total, kf>>

CutAtNearest ==
  /\ pc = "loop" /\ IdealEnd < total
  /\ \E n \in 1..Len(kf) : IsNearest(n, IdealEnd) /\ n > cur /\ CutAt(n)

(* No key frame near the target after this one: the next one, if any. *)
CutAtNext ==
  /\ pc = "loop" /\ IdealEnd < total
  /\ cur < Len(kf)
  /\ \E n \in 1..Len(kf) : IsNearest(n, IdealEnd) /\ n <= cur
  /\ CutAt(cur + 1)

SegNext == AnalyzeFull \/ AnalyzeFast \/ Start \/ CutRest \/ CutAtNearest \/ CutAtNext

SegSpec == SegInit /\ [][SegNext]_segVars

-----------------------------------------------------------------------------
(* Properties *)

SegTypeOK ==
  /\ src \in Sources /\ target \in Targets
  /\ total \in Nat
  /\ kf \in Seq(Key)
  /\ segs \in Seq(Segment)
  /\ cur \in 1..(Len(kf) + 1)
  /\ pc \in {"analyze", "start", "loop", "done", "failed"}

(* The segments are numbered in order, each starts at a key frame, and each *)
(* starts, in frames and in time, where the one before it ends: no gap and  *)
(* no overlap, whichever way the loop chose each boundary.                  *)
Contiguous ==
  \A i \in 1..Len(segs) :
    /\ segs[i].id = i - 1
    /\ \E n \in 1..Len(kf) : segs[i].first = kf[n].pos /\ segs[i].from = kf[n].time
    /\ segs[i].first <= segs[i].last
    /\ i > 1 => /\ segs[i].first = segs[i - 1].last + 1
                /\ segs[i].from = segs[i - 1].to

(* When the loop ends the segments reach from the first key frame to the    *)
(* last frame of the video, but for a last key frame that is also the last  *)
(* frame, which the strict comparison after the loop can leave out.         *)
Covering ==
  pc = "done" =>
    /\ segs # <<>>
    /\ segs[1].first = kf[1].pos
    /\ \/ segs[Len(segs)].last = total - 1
       \/ /\ kf[Len(kf)].pos >= total - 1
          /\ segs[Len(segs)].last = kf[Len(kf)].pos - 1
=============================================================================
