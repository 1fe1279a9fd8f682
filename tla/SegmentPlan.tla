----------------------------- MODULE SegmentPlan -----------------------------
(***************************************************************************)
(* The copy-or-encode decision of cluster/src/media.rs, shared by the      *)
(* coordinator and the cluster master: the bit rate of each group of       *)
(* pictures (GOP), what rules out copying a source altogether, and the     *)
(* plan for a list of time ranges.  A source is the sequence of its groups *)
(* with their frames and sizes.                                            *)
(*                                                                         *)
(* The unit of time is a frame, the unit of size a hundredth of what the   *)
(* target rate allows a frame, so a rate is in percent of the target; a    *)
(* tolerance is in percent too, and divisions round down.                  *)
(***************************************************************************)
EXTENDS Integers, Sequences, FiniteSets, FiniteSetsExt

(* The numbers of a finite set in order, and the elements of a sequence at  *)
(* a set of positions: what a filter keeps.                                 *)
Ascending(I) ==
  [i \in 1..Cardinality(I) |->
     CHOOSE n \in I : Cardinality({ k \in I : k < n }) = i - 1]
At(s, I) == [i \in 1..Cardinality(I) |-> s[Ascending(I)[i]]]

Total(s) ==
  LET upTo[i \in 0..Len(s)] == IF i = 0 THEN 0 ELSE upTo[i - 1] + s[i] IN upTo[Len(s)]

(* The frames before the k-th group. *)
Before(groups, k) == Total([i \in 1..k - 1 |-> groups[i].frames])

IsSource(meta) ==
  /\ meta.offset \in Nat
  /\ meta.groups \in Seq([frames : Nat \ {0}, size : Nat])

(* gop_stats: the frames and the time of each group.  It ends with the time *)
(* of its last packet, so of one packet alone the rate is 0; the first one  *)
(* starts at time 0 whatever its first packet says.                         *)
GopStats(groups, offset) ==
  [k \in 1..Len(groups) |->
     LET first == Before(groups, k)
         last  == first + groups[k].frames - 1
         from  == IF k = 1 THEN 0 ELSE offset + first
         to    == offset + last
     IN  [first |-> first, last |-> last, from |-> from, to |-> to,
          rate |-> IF to > from THEN groups[k].size \div (to - from) ELSE 0]]

-----------------------------------------------------------------------------
(* encoder_to_codec, encoder_target_profile, encoder_target_pix_fmt *)
TargetCodec(encoder) ==
  CASE encoder \in {"libx264", "h264_videotoolbox", "videotoolbox",
                    "h264_nvenc", "h264_vaapi"} -> "h264"
    [] encoder \in {"libx265", "hevc_videotoolbox", "hevc_nvenc", "hevc_vaapi"} -> "hevc"
    [] encoder = "libvpx-vp9" -> "vp9"
    [] encoder \in {"libaom-av1", "libsvtav1", "av1_nvenc"} -> "av1"
    [] OTHER -> encoder

ProfileRank(profile) ==
  CASE profile \in {"baseline", "constrained baseline"} -> 1
    [] profile \in {"high", "high 10", "high 4:2:2", "high 4:4:4",
                    "high 4:4:4 predictive"} -> 3
    [] OTHER -> 2

TargetProfile(encoder) ==
  IF encoder \in {"h264_videotoolbox", "videotoolbox"} THEN "main" ELSE "high"

(* check_copy_compatibility; "none" is what the probe did not report. *)
Blockers(meta, encoder) ==
  { b \in {"codec", "profile", "pix_fmt"} :
      \/ b = "codec" /\ TargetCodec(encoder) # meta.codec
      \/ /\ b = "profile" /\ TargetCodec(encoder) = "h264" /\ meta.profile # "none"
         /\ ProfileRank(meta.profile) > ProfileRank(TargetProfile(encoder))
      \/ b = "pix_fmt" /\ meta.pix_fmt \notin {"none", "yuv420p"} }

-----------------------------------------------------------------------------
RateSum(gops) == Total([i \in 1..Len(gops) |-> gops[i].rate])
Root[n \in Nat] == CHOOSE r \in 0..n : r * r <= n /\ (r + 1) * (r + 1) > n

MinTolerance == 5

(* f64::clamp panics when its bounds are the wrong way round. *)
AutoTunePanics(gops, most) == gops # <<>> /\ most < MinTolerance

(* auto_tune_tolerance: two standard deviations less the distance of the    *)
(* mean from the target.                                                    *)
AutoTune(gops, most) ==
  IF gops = <<>> THEN most
  ELSE LET n == Len(gops)
           sum == RateSum(gops)
           deviation == Total([i \in 1..n |-> (n * gops[i].rate - sum) * (n * gops[i].rate - sum)])
           off == sum \div n - 100
           tuned == 2 * Root[deviation \div (n * n * n)] - (IF off >= 0 THEN off ELSE -off)
       IN  Min({Max({tuned, MinTolerance}), most})

(* Mutant: a group that starts where the range ends counts as well. *)
OverlappingEnd(gops, range) ==
  At(gops, { k \in 1..Len(gops) : gops[k].from <= range.to /\ gops[k].to > range.from })

Overlapping(gops, range) ==
  At(gops, { k \in 1..Len(gops) : gops[k].from < range.to /\ gops[k].to > range.from })

(* The mean of the rates is within the tolerance; without a group there is  *)
(* no ratio.                                                                *)
OnTarget(gops, tolerance) ==
  LET n == Len(gops) IN
  /\ n > 0
  /\ RateSum(gops) >= (100 - tolerance) * n
  /\ RateSum(gops) <= (100 + tolerance) * n

Tolerance(gops, mode, most) == IF mode = "smart-auto" THEN AutoTune(gops, most) ELSE most

PlanPanics(gops, mode, most) == mode = "smart-auto" /\ AutoTunePanics(gops, most)

(* plan_segments: TRUE for a range that is copied. *)
PlanSegments(meta, gops, ranges, mode, encoder, tolerance) ==
  [i \in DOMAIN ranges |->
     \/ mode = "copy"
     \/ /\ mode \in {"smart", "smart-auto"}
        /\ Blockers(meta, encoder) = {}
        /\ OnTarget(Overlapping(gops, ranges[i]), tolerance)]
=============================================================================
